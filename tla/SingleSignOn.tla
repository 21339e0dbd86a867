---------------------------- MODULE SingleSignOn ----------------------------
(***************************************************************************)
(* Signing in through an OpenID provider, and the provider's access tokens *)
(* on the MCP endpoint.  The browser carries the flow in one cookie; the   *)
(* callback finds the account by the linked subject or by the address,     *)
(* links or creates it, and opens a session.  One SQL statement or         *)
(* transaction per step; any of them may fail.  The provider answers with  *)
(* any claims: its signatures, expiry and nonce are not modelled.          *)
(***************************************************************************)
EXTENDS FiniteSets

CONSTANTS Members,        \* rows of users
          Subjects, Mails,
          SsoValues,      \* values of the setting oidc that are tried
          Flows,          \* states of started flows (bound)
          SsoRequests,    \* callbacks in flight at once (bound)
          Nil

ASSUME SsoAssumption ==
    /\ SsoValues \subseteq [on : BOOLEAN, autoLogin : BOOLEAN, autoCreate : BOOLEAN, requireVerified : BOOLEAN]
    /\ Nil \notin Members \cup Subjects \cup Mails \cup Flows

VARIABLES member,     \* users: mail (Nil: no such row), subject, enabled
          sso,        \* the setting oidc
          cookie,     \* vendra_oidc_flow of the browser
          callback,   \* handlers in flight
          opened,     \* ghost: the accounts sessions were opened for, with the subject
          shown       \* ghost: subjects and the addresses the provider was trusted to give them

ssoVars == <<member, sso, cookie, callback, opened, shown>>

NoMember == [mail |-> Nil, subject |-> Nil, enabled |-> FALSE]
NoFlow == [state |-> Nil, silent |-> FALSE, expired |-> FALSE]
Claims == [sub : Subjects, mail : Mails, verified : BOOLEAN]

\* What a provider tells: without an address its user name stands for one, and the claim
\* that the address is verified for that name.  With neither the callback ends at once.
Told == {told \in [sub : Subjects, mail : Mails \cup {Nil}, name : Mails \cup {Nil}, verified : BOOLEAN] :
           told.mail = Nil <=> told.name # Nil}
Taken(told) == [sub |-> told.sub, mail |-> IF told.mail # Nil THEN told.mail ELSE told.name, verified |-> told.verified]
NoClaims == [sub |-> Nil, mail |-> Nil, verified |-> FALSE]

Waiting == [pc |-> "idle", claims |-> NoClaims, set |-> Nil, user |-> Nil]

Proceeds(r, fields) == callback' = [callback EXCEPT ![r] = fields]
Answered(r) == Proceeds(r, Waiting)

LinkedTo(sub) == {u \in Members : member[u].mail # Nil /\ member[u].subject = sub}
WithMail(mail) == {u \in Members : member[u].mail = mail}

\* Mutant: an address is as good as a subject.
EmailTrusted_Always(set, linked, verified) == TRUE

\* oidcEmailClaimTrusted
EmailTrusted(set, linked, verified) == linked \/ verified \/ ~set.requireVerified

-----------------------------------------------------------------------------
\* oidcStart; prompt=none counts only while the setting allows it.  A second flow of the
\* same browser replaces the first.
StartFlow(f, none) ==
    /\ sso.on
    /\ cookie' = [state |-> f, silent |-> none /\ sso.autoLogin, expired |-> FALSE]
    /\ UNCHANGED <<member, sso, callback, opened, shown>>

FlowExpires ==
    /\ cookie.state # Nil
    /\ cookie' = [cookie EXCEPT !.expired = TRUE]
    /\ UNCHANGED <<member, sso, callback, opened, shown>>

\* The flow named in the answer is the one in the cookie.
Resumes(f) == cookie.state = f /\ ~cookie.expired

\* The provider had no session for a silent attempt: the cookie goes.
SilentRefusal(f) ==
    /\ Resumes(f)
    /\ cookie.silent
    /\ cookie' = NoFlow
    /\ UNCHANGED <<member, sso, callback, opened, shown>>

\* oidcCallback up to the claims; the setting is the one of now.
Callback(r, f, told) ==
    LET claims == Taken(told) IN
    /\ callback[r].pc = "idle"
    /\ Resumes(f)
    /\ sso.on
    /\ Proceeds(r, [Waiting EXCEPT !.pc = "subject", !.claims = claims, !.set = sso])
    /\ shown' = shown \cup (IF claims.verified \/ ~sso.requireVerified THEN {<<claims.sub, claims.mail>>} ELSE {})
    /\ UNCHANGED <<member, sso, cookie, opened>>

\* The linked account.  A query that fails reads as no such account; then the address has
\* to be trusted, or the sign-in is refused.
FindBySubject(r, ok) ==
    LET q == callback[r]
        found == IF ok THEN LinkedTo(q.claims.sub) ELSE {} IN
    /\ q.pc = "subject"
    /\ \/ \E u \in found : Proceeds(r, [q EXCEPT !.pc = "link", !.user = u])
       \/ /\ found = {}
          /\ IF EmailTrusted(q.set, FALSE, q.claims.verified)
               THEN Proceeds(r, [q EXCEPT !.pc = "mail"])
               ELSE Answered(r)
    /\ UNCHANGED <<member, sso, cookie, opened, shown>>

\* The account of the address; without one, or when the query fails, a new account is
\* made if the setting says so.
FindByMail(r, ok) ==
    LET q == callback[r]
        found == IF ok THEN WithMail(q.claims.mail) ELSE {} IN
    /\ q.pc = "mail"
    /\ \/ \E u \in found : Proceeds(r, [q EXCEPT !.pc = "link", !.user = u])
       \/ /\ found = {}
          /\ IF q.set.autoCreate THEN Proceeds(r, [q EXCEPT !.pc = "provision"])
                                 ELSE Answered(r)
    /\ UNCHANGED <<member, sso, cookie, opened, shown>>

\* The UNIQUE subject.
SubjectFree(sub, u) == LinkedTo(sub) \subseteq {u}

\* INSERT ... ON CONFLICT(email) DO UPDATE SET oidc_subject, in a transaction with the
\* default role.
Provision(r) ==
    LET q == callback[r] IN
    /\ q.pc = "provision"
    /\ \E u \in Members :
         /\ IF WithMail(q.claims.mail) = {} THEN member[u] = NoMember ELSE u \in WithMail(q.claims.mail)
         /\ IF SubjectFree(q.claims.sub, u)
              THEN /\ member' = [member EXCEPT ![u] =
                        IF member[u] = NoMember THEN [mail |-> q.claims.mail, subject |-> q.claims.sub, enabled |-> TRUE]
                                                ELSE [@ EXCEPT !.subject = q.claims.sub]]
                   /\ Proceeds(r, [q EXCEPT !.pc = "session", !.user = u])
              ELSE Answered(r) /\ UNCHANGED member
    /\ UNCHANGED <<sso, cookie, opened, shown>>

\* COALESCE(oidc_subject, sub)
Linked(u, sub) == IF member[u].subject = Nil THEN sub ELSE member[u].subject

\* UPDATE users: a failure, as a subject that is taken meanwhile, is only logged.
LinkSubject(r, ok) ==
    LET q == callback[r] IN
    /\ q.pc = "link"
    /\ member' = IF ok /\ SubjectFree(Linked(q.user, q.claims.sub), q.user)
                   THEN [member EXCEPT ![q.user].subject = Linked(q.user, q.claims.sub)] ELSE member
    /\ Proceeds(r, [q EXCEPT !.pc = "session"])
    /\ UNCHANGED <<sso, cookie, opened, shown>>

\* The session, whatever the status of the account, and the cookie goes.
OpenSsoSession(r) ==
    LET q == callback[r] IN
    /\ q.pc = "session"
    /\ opened' = opened \cup {<<q.user, q.claims.sub>>}
    /\ cookie' = NoFlow
    /\ Answered(r)
    /\ UNCHANGED <<member, sso, shown>>

\* A statement that ends the handler fails, or the replica dies.
SignInFails(r) ==
    /\ callback[r].pc \in {"provision", "session"}
    /\ Answered(r)
    /\ UNCHANGED <<member, sso, cookie, opened, shown>>

-----------------------------------------------------------------------------
\* createUser: the address is UNIQUE, and no subject is given.
AddMember(u, mail) ==
    /\ member[u] = NoMember
    /\ WithMail(mail) = {}
    /\ member' = [member EXCEPT ![u] = [mail |-> mail, subject |-> Nil, enabled |-> TRUE]]
    /\ UNCHANGED <<sso, cookie, callback, opened, shown>>

\* updateUser
SwitchMember(u) ==
    /\ member[u].mail # Nil
    /\ member' = [member EXCEPT ![u].enabled = ~@]
    /\ UNCHANGED <<sso, cookie, callback, opened, shown>>

\* putSetting on oidc
SetSso(value) ==
    /\ sso' = value
    /\ UNCHANGED <<member, cookie, callback, opened, shown>>

SsoInit ==
    /\ member = [u \in Members |-> NoMember]
    /\ sso \in SsoValues
    /\ cookie = NoFlow
    /\ callback = [r \in SsoRequests |-> Waiting]
    /\ opened = {}
    /\ shown = {}

SignInStep(r) ==
    \/ \E f \in Flows, told \in Told : Callback(r, f, told)
    \/ \E ok \in BOOLEAN : FindBySubject(r, ok) \/ FindByMail(r, ok) \/ LinkSubject(r, ok)
    \/ Provision(r)
    \/ OpenSsoSession(r)
    \/ SignInFails(r)

SsoNext ==
    \/ \E f \in Flows : SilentRefusal(f) \/ \E none \in BOOLEAN : StartFlow(f, none)
    \/ FlowExpires
    \/ \E r \in SsoRequests : SignInStep(r)
    \/ \E u \in Members : SwitchMember(u) \/ \E mail \in Mails : AddMember(u, mail)
    \/ \E value \in SsoValues : SetSso(value)

SsoSpec == SsoInit /\ [][SsoNext]_ssoVars

-----------------------------------------------------------------------------
\* Whoever signs in to an account has, now or at an earlier sign-in, shown its address, as
\* an address or as a user name, on the provider's word: claims without a trusted one open
\* an account only over a link that a trusted one made, whatever lookups failed or raced in
\* between (oidcCallback, oidcEmailClaimTrusted).
AddressShown == \A s \in opened : <<s[2], member[s[1]].mail>> \in shown

\* Where the web sign-in leads, when nothing fails: to the linked account, else to the one
\* of a trusted address.
WebAccount(claims) ==
    IF LinkedTo(claims.sub) # {} THEN LinkedTo(claims.sub)
    ELSE IF EmailTrusted(sso, FALSE, claims.verified) THEN WithMail(claims.mail) ELSE {}

\* fromOAuthToken takes the first of the enabled accounts with the subject or the trusted
\* address, ORDER BY oidc_subject = sub DESC: a comparison with NULL is NULL, and NULL comes
\* first in descending order.  No user name stands in for an address here: both are asked
\* about claims that have one.
TokenAccount(claims) ==
    LET found == {u \in LinkedTo(claims.sub) \cup (IF EmailTrusted(sso, FALSE, claims.verified)
                                                     THEN WithMail(claims.mail) ELSE {}) : member[u].enabled}
        unlinked == {u \in found : member[u].subject = Nil}
        linked == {u \in found : member[u].subject = claims.sub} IN
    IF unlinked # {} THEN unlinked ELSE IF linked # {} THEN linked ELSE found

\* An access token speaks for the account its holder signs in to: "the linked subject first,
\* else the address" (mcpoauth.go), so long as that account is enabled.
SameAccount ==
    \A claims \in Claims :
        (\A u \in WebAccount(claims) : member[u].enabled) /\ WebAccount(claims) # {}
        => TokenAccount(claims) = WebAccount(claims)
=============================================================================
