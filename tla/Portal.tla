------------------------------- MODULE Portal -------------------------------
(***************************************************************************)
(* The supplier portal of Vendra: invitations that are issued, recalled,   *)
(* expire or are redeemed for an account, the company a stranger puts on   *)
(* file with one, and the contacts whose addresses are verified by a link. *)
(*                                                                         *)
(* Redeeming is one transaction that holds the invitation's row lock; its  *)
(* uncommitted rows are visible to nobody, so it is two steps: the locked  *)
(* read, and the commit.                                                   *)
(***************************************************************************)
EXTENDS SupplierRegister

CONSTANTS Invitations,     \* rows of invitations (bound)
          Emails,
          Inviters,        \* users who may invite
          Reach,           \* the companies in the data scope of each of them
          Contacts,        \* rows of supplier_contacts (bound)
          Links,           \* verification links (bound)
          PortalRequests   \* recalls and registrations in flight at once (bound)

ASSUME PortalAssumption ==
    /\ NoValue \notin Invitations \cup Emails \cup Inviters \cup PortalRequests
    /\ Reach \in [Inviters -> SUBSET Companies]

VARIABLES invitation,     \* invitations, with the request that holds the row lock
          account,        \* users, by their unique address
          contact,        \* supplier_contacts
          link,           \* email_verifications
          vouched,        \* addresses that a registration put there as verified
          preq            \* handlers in flight

portalVars == <<invitation, account, contact, link, vouched, preq>>
portalAll == <<registerVars, portalVars>>

NotIssued == [email |-> NoValue, supplier |-> NoValue, by |-> NoValue, expired |-> FALSE,
              accepted |-> FALSE, revoked |-> FALSE, holder |-> NoValue]

NoAccount == [on |-> FALSE, supplier |-> NoValue, invitation |-> NoValue]

NoContact == [supplier |-> NoValue, email |-> NoValue]

NoLink == [email |-> NoValue, expired |-> FALSE, verified |-> FALSE]

Away == [pc |-> "idle", invitation |-> NoValue, company |-> NoValue, number |-> NoValue]

Issued(i) == invitation[i].email # NoValue

\* Mutant: the registration reads the invitation without FOR UPDATE.
RowFree_NoLock(i) == TRUE

\* Nobody else holds the lock on the row; an UPDATE waits for it as well.
RowFree(i) == invitation[i].holder = NoValue

-----------------------------------------------------------------------------
\* createInvitation: binding it to a company takes that company's data scope.
Invite(i, e, s, u) ==
    /\ ~Issued(i)
    /\ s # NoValue => OnFile(s) /\ s \in Reach[u]
    /\ invitation' = [invitation EXCEPT ![i] = [NotIssued EXCEPT !.email = e, !.supplier = s, !.by = u]]
    /\ UNCHANGED <<registerVars, account, contact, link, vouched, preq>>

InvitationExpires(i) ==
    /\ Issued(i)
    /\ invitation' = [invitation EXCEPT ![i].expired = TRUE]
    /\ UNCHANGED <<registerVars, account, contact, link, vouched, preq>>

\* revokeInvitation reads first: one bound to a company is recalled by whoever sees
\* that company, an unbound one by its issuer.
RecallRead(r, i, u) ==
    /\ preq[r].pc = "idle"
    /\ Issued(i)
    /\ IF invitation[i].supplier = NoValue THEN invitation[i].by = u
                                           ELSE invitation[i].supplier \in Reach[u]
    /\ ~invitation[i].accepted
    /\ ~invitation[i].revoked
    /\ preq' = [preq EXCEPT ![r] = [Away EXCEPT !.pc = "recall", !.invitation = i]]
    /\ UNCHANGED <<registerVars, invitation, account, contact, link, vouched>>

\* The UPDATE looks again, once it has the row.
RecallWrite(r) ==
    LET i == preq[r].invitation IN
    /\ preq[r].pc = "recall"
    /\ RowFree(i)
    /\ invitation' = [invitation EXCEPT ![i].revoked = @ \/ ~invitation[i].accepted]
    /\ preq' = [preq EXCEPT ![r] = Away]
    /\ UNCHANGED <<registerVars, account, contact, link, vouched>>

-----------------------------------------------------------------------------
\* registerSupplierUser, SELECT ... FOR UPDATE: a link that is spent, recalled or out
\* of time is refused.  Who holds an unbound one names the company.
RedeemLock(r, i, s, n) ==
    /\ preq[r].pc = "idle"
    /\ RowFree(i)
    /\ Issued(i)
    /\ ~invitation[i].expired /\ ~invitation[i].accepted /\ ~invitation[i].revoked
    /\ invitation' = [invitation EXCEPT ![i].holder = r]
    /\ preq' = [preq EXCEPT ![r] = [pc |-> "redeem", invitation |-> i, company |-> s, number |-> n]]
    /\ UNCHANGED <<registerVars, account, contact, link, vouched>>

\* The company the account belongs to, NoValue if the number is refused.
Joined(q) ==
    IF invitation[q.invitation].supplier # NoValue THEN invitation[q.invitation].supplier
    ELSE IF NumberTaken(q.company, q.number) \/ OnFile(q.company) THEN NoValue
    ELSE q.company

\* The rest of the transaction: the company, the account, the invitation and the
\* verification of its address.  The keys of both tables may refuse it.
RedeemCommit(r) ==
    LET q == preq[r]
        i == q.invitation
        e == invitation[i].email
        s == Joined(q)
    IN
    /\ q.pc = "redeem"
    /\ s # NoValue
    /\ ~account[e].on
    /\ supplier' = IF invitation[i].supplier # NoValue \/ OnFile(s) THEN supplier
                   ELSE [supplier EXCEPT ![s] = [NotOnFile EXCEPT !.number = q.number, !.status = "registration"]]
    /\ account' = [account EXCEPT ![e] = [on |-> TRUE, supplier |-> s, invitation |-> i]]
    /\ invitation' = [invitation EXCEPT ![i] =
                        [@ EXCEPT !.accepted = TRUE, !.supplier = s, !.holder = NoValue]]
    /\ vouched' = vouched \cup {e}
    /\ preq' = [preq EXCEPT ![r] = Away]
    /\ UNCHANGED <<policy, bankRule, change, sreq, contact, link>>

\* A key refuses it, a statement fails or the replica dies: rolled back.  A recall in
\* flight only ends.
PortalFails(r) ==
    LET i == preq[r].invitation IN
    /\ preq[r].pc # "idle"
    /\ invitation' = IF preq[r].pc = "redeem" THEN [invitation EXCEPT ![i].holder = NoValue]
                                              ELSE invitation
    /\ preq' = [preq EXCEPT ![r] = Away]
    /\ UNCHANGED <<registerVars, account, contact, link, vouched>>

\* createUser, the other door to an address: with a company it may be a portal account.
OpenAccount(e, s) ==
    /\ ~account[e].on
    /\ s # NoValue => OnFile(s)
    /\ account' = [account EXCEPT ![e] = [on |-> TRUE, supplier |-> s, invitation |-> NoValue]]
    /\ UNCHANGED <<registerVars, invitation, contact, link, vouched, preq>>

-----------------------------------------------------------------------------
\* createContact and portalCreateContact.
AddContact(k, s, e) ==
    /\ contact[k] = NoContact
    /\ OnFile(s)
    /\ contact' = [contact EXCEPT ![k] = [supplier |-> s, email |-> e]]
    /\ UNCHANGED <<registerVars, invitation, account, link, vouched, preq>>

\* Mutant: asking again starts over, as an upsert on the address would.
AskedAgain_StartsOver(e, l) ==
    [m \in Links |-> IF m = l THEN [NoLink EXCEPT !.email = e]
                     ELSE IF link[m].email = e THEN [link[m] EXCEPT !.verified = FALSE]
                     ELSE link[m]]

AskedAgain(e, l) == [link EXCEPT ![l] = [NoLink EXCEPT !.email = e]]

\* portalRequestContactVerification, by an account of the contact's company.
AskVerification(k, l) ==
    /\ contact[k].email # NoValue
    /\ \E e \in Emails : account[e].on /\ account[e].supplier = contact[k].supplier
    /\ link[l] = NoLink
    /\ link' = AskedAgain(contact[k].email, l)
    /\ UNCHANGED <<registerVars, invitation, account, contact, vouched, preq>>

LinkExpires(l) ==
    /\ link[l].email # NoValue
    /\ link' = [link EXCEPT ![l].expired = TRUE]
    /\ UNCHANGED <<registerVars, invitation, account, contact, vouched, preq>>

\* verifyEmail: one guarded UPDATE, which may be repeated until the link expires.
VerifyEmail(l) ==
    /\ link[l].email # NoValue
    /\ ~link[l].expired
    /\ link' = [link EXCEPT ![l].verified = TRUE]
    /\ UNCHANGED <<registerVars, invitation, account, contact, vouched, preq>>

\* portalContacts: what the portal shows beside a contact.
EmailVerified(k) ==
    /\ contact[k].email # NoValue
    /\ \/ contact[k].email \in vouched
       \/ \E l \in Links : link[l].email = contact[k].email /\ link[l].verified

PortalInit ==
    /\ RegisterInit
    /\ invitation = [i \in Invitations |-> NotIssued]
    /\ account = [e \in Emails |-> NoAccount]
    /\ contact = [k \in Contacts |-> NoContact]
    /\ link = [l \in Links |-> NoLink]
    /\ vouched = {}
    /\ preq = [r \in PortalRequests |-> Away]

PortalStep ==
    \/ \E i \in Invitations :
         \/ \E e \in Emails, s \in Companies \cup {NoValue}, u \in Inviters : Invite(i, e, s, u)
         \/ InvitationExpires(i)
    \/ \E r \in PortalRequests :
         \/ \E i \in Invitations, u \in Inviters : RecallRead(r, i, u)
         \/ \E i \in Invitations, s \in Companies, n \in Numbers : RedeemLock(r, i, s, n)
         \/ RecallWrite(r) \/ RedeemCommit(r) \/ PortalFails(r)
    \/ \E e \in Emails, s \in Companies \cup {NoValue} : OpenAccount(e, s)
    \/ \E k \in Contacts, s \in Companies, e \in Emails \cup {NoValue} : AddContact(k, s, e)
    \/ \E k \in Contacts, l \in Links : AskVerification(k, l)
    \/ \E l \in Links : LinkExpires(l) \/ VerifyEmail(l)

PortalNext == (RegisterNext /\ UNCHANGED portalVars) \/ PortalStep

PortalSpec == PortalInit /\ [][PortalNext]_portalAll

-----------------------------------------------------------------------------
\* An invitation ends once: nobody registers with one that was recalled, and none that
\* was used reads recalled, although the recall decides on a row that it read before
\* (revokeInvitation, registerSupplierUser).
OneEnding == \A i \in Invitations : ~(invitation[i].accepted /\ invitation[i].revoked)

\* An address that reads verified keeps doing so, whatever links are asked for or
\* expire later (portalContacts, verifyEmail's COALESCE).
VerifiedStays == [][\A k \in Contacts : EmailVerified(k) => EmailVerified(k)']_portalAll
=============================================================================
