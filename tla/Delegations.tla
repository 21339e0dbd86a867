----------------------------- MODULE Delegations ----------------------------
(***************************************************************************)
(* Temporary permissions of Vendra: a delegation gives somebody a          *)
(* permission for a while, over everything of a type or over one record,   *)
(* perhaps for one HTTP method only.  It opens the gate of a route; past   *)
(* the data scope it carries only when it names the record.                *)
(***************************************************************************)
EXTENDS Naturals, FiniteSets

CONSTANTS Delegates,      \* users
          Things,         \* records
          TypeOf,         \* the type of a record: the domain of its permissions
          Verbs,          \* "read", "update"
          OwnWords,       \* what the roles of a user grant: words <<type, verb>>
          Reach,          \* the records in the data scope of a user
          GrantRows, Calls,  \* rows of access_grants and calls in flight (bound)
          LastDate,       \* days (bound)
          Everything,     \* no type, no record, no method named; the wildcard of a word
          Offered         \* the delegations administrators enter

ASSUME DelegationAssumption ==
    /\ LastDate \in Nat
    /\ Everything \notin Things \cup Verbs \cup {TypeOf[x] : x \in Things}
    /\ \A u \in Delegates : Reach[u] \subseteq Things

VARIABLES grant,    \* access_grants
          date,
          call      \* requests: the principal as it was authenticated, and how far they came

grantVars == <<grant, date, call>>

Types == {TypeOf[x] : x \in Things}

NoGrant == [to |-> Everything, word |-> Everything, type |-> Everything, thing |-> Everything,
            method |-> Everything, from |-> 0, until |-> 0]
NoCall == [pc |-> "idle", who |-> Everything, words |-> {}, given |-> {}, type |-> Everything,
           verb |-> Everything, thing |-> Everything, named |-> FALSE]

Calling(c, fields) == call' = [call EXCEPT ![c] = fields]

\* valid_from <= now() AND valid_until > now()
InForce(g) == grant[g] # NoGrant /\ grant[g].from <= date /\ date < grant[g].until

-----------------------------------------------------------------------------
\* createAccessGrant refuses a record without its type, but takes "*" for one.
CreateAccessGrant(g, fields) ==
    /\ grant[g] = NoGrant
    /\ grant' = [grant EXCEPT ![g] = fields]
    /\ UNCHANGED <<date, call>>

DeleteAccessGrant(g) ==
    /\ grant[g] # NoGrant
    /\ grant' = [grant EXCEPT ![g] = NoGrant]
    /\ UNCHANGED <<date, call>>

DateChanges ==
    /\ date < LastDate
    /\ date' = date + 1
    /\ UNCHANGED <<grant, call>>

\* fromSession: a delegation with neither type nor record nor condition is a permission like
\* those of the roles, and the others are kept beside them.  Keys and tokens carry none.
Plain(f) == f.type = Everything /\ f.thing = Everything /\ f.method = Everything

Enter(c, u, session) ==
    LET mine == IF session THEN {grant[g] : g \in {x \in GrantRows : InForce(x) /\ grant[x].to = u}} ELSE {}
        plain == {f \in mine : Plain(f)}
    IN /\ call[c].pc = "idle"
       /\ Calling(c, [NoCall EXCEPT !.pc = "gate", !.who = u, !.given = mine \ plain,
                                    !.words = OwnWords[u] \cup {f.word : f \in plain}])
       /\ UNCHANGED <<grant, date>>

\* permissionMatches: "supplier.update", "supplier.*", "*.update" and "*"
Permits(word, type, verb) == word[1] \in {Everything, type} /\ word[2] \in {Everything, verb}

\* Whether a delegation is for this route and this record: hasGrantPermission, with the method
\* for the conditions on a request; those on the caller, the path and the query narrow it alike.
Covers(f, type, verb, thing) ==
    /\ Permits(f.word, type, verb)
    /\ f.type \in {Everything, type}
    /\ f.thing \in {Everything, thing}
    /\ f.method \in {Everything, verb}

\* Mutant: a delegation over a type carries past the scope as well.
NamesRecord_Type(f) == f.type # Everything

NamesRecord(f) == f.thing # Everything

\* require, in front of the route of a type and a verb
Gate(c, type, verb, thing) ==
    LET q == call[c]
        fit == {f \in q.given : Covers(f, type, verb, thing)}
    IN /\ q.pc = "gate"
       /\ IF fit # {} \/ \E word \in q.words : Permits(word, type, verb)
          THEN Calling(c, [q EXCEPT !.pc = "handler", !.type = type, !.verb = verb, !.thing = thing,
                                    !.named = \E f \in fit : NamesRecord(f)])
          ELSE Calling(c, NoCall)
       /\ UNCHANGED <<grant, date>>

\* The handler finds the record among those of its type, and compares it with the data scope:
\* getObject, updateObject, submitObject, getSupplier, updateSupplier, serveDocument.
OpenRecord(c) ==
    LET q == call[c] IN
    /\ q.pc = "handler"
    /\ IF TypeOf[q.thing] = q.type /\ (q.thing \in Reach[q.who] \/ q.named)
       THEN Calling(c, [q EXCEPT !.pc = "open"])
       ELSE Calling(c, NoCall)
    /\ UNCHANGED <<grant, date>>

LeaveRecord(c) ==
    /\ call[c].pc = "open"
    /\ Calling(c, NoCall)
    /\ UNCHANGED <<grant, date>>

DelegationsInit ==
    /\ grant = [g \in GrantRows |-> NoGrant]
    /\ date = 0
    /\ call = [c \in Calls |-> NoCall]

CallStep(c) ==
    \/ \E u \in Delegates, session \in BOOLEAN : Enter(c, u, session)
    \/ \E type \in Types, verb \in Verbs, thing \in Things : Gate(c, type, verb, thing)
    \/ OpenRecord(c) \/ LeaveRecord(c)

DelegationsNext ==
    \/ \E c \in Calls : CallStep(c)
    \/ \E g \in GrantRows : DeleteAccessGrant(g) \/ \E fields \in Offered : CreateAccessGrant(g, fields)
    \/ DateChanges

DelegationsSpec == DelegationsInit /\ [][DelegationsNext]_grantVars

-----------------------------------------------------------------------------
\* Whoever opens a record outside the own data scope does so by a delegation of that very
\* record, for what is done with it (hasGrantPermission: "Only a delegation naming a specific
\* record may carry the caller past a scope check, and then only for that record").
RecordNamed ==
    \A c \in Calls : LET q == call[c] IN
        q.pc = "open" /\ q.thing \notin Reach[q.who] =>
            \E f \in q.given : /\ f.thing = q.thing /\ f.method \in {Everything, q.verb}
                               /\ Permits(f.word, q.type, q.verb)
=============================================================================
