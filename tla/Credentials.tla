----------------------------- MODULE Credentials ----------------------------
(***************************************************************************)
(* What a credential of Vendra opens: the permission words of roles, API   *)
(* keys, their rotation and revocation, access tokens and delegations.     *)
(* A word is its segments, so "supplier.*" is <<"supplier", "*">>; the     *)
(* doors are the words that the code checks.  One SQL statement or         *)
(* transaction per step; roles change at any time.                         *)
(***************************************************************************)
EXTENDS Naturals, Sequences, FiniteSets

CONSTANTS Holders,       \* users
          Roles,         \* rows of roles; System are the ones that cannot be edited
          System,
          Keys,          \* rows of api_keys (bound)
          KeyRequests,   \* handlers in flight at once (bound)
          Doors,         \* permissionCodes
          Lists,         \* lists of words somebody writes on a role, a key or a token
          LastDay,       \* days until which keys may be valid (bound)
          Unknown

ASSUME CredentialsAssumption ==
    /\ System \subseteq Roles
    /\ LastDay \in Nat \ {0}
    /\ Unknown \notin Holders \cup Keys
    /\ (UNION Lists) \cup Doors \subseteq Seq(STRING)

VARIABLES role,     \* roles: the words
          holds,    \* user_roles
          keys,     \* api_keys; ghost: the words lent to each when it was issued
          kreq,     \* handlers in flight
          day

keyVars == <<role, holds, keys, kreq, day>>

NoKey == [owner |-> Unknown, scopes |-> {}, lent |-> {}, until |-> 0, revoked |-> FALSE, from |-> Unknown]
Still == [pc |-> "idle", key |-> NoKey, old |-> Unknown]

Turns(r, fields) == kreq' = [kreq EXCEPT ![r] = fields]

\* permissionMatches
Matches(got, wanted) ==
    \/ got = <<"*">>
    \/ got = wanted
    \/ /\ Len(got) > 1 /\ Len(wanted) >= Len(got)
       /\ \/ got[Len(got)] = "*" /\ SubSeq(wanted, 1, Len(got) - 1) = SubSeq(got, 1, Len(got) - 1)
          \/ got[1] = "*" /\ SubSeq(wanted, Len(wanted) - Len(got) + 2, Len(wanted)) = SubSeq(got, 2, Len(got))

\* hasPermission
Grants(words, wanted) == \E w \in words : Matches(w, wanted)

Opens(words) == {d \in Doors : Grants(words, d)}

\* permissionGrantsSomething
OpensSomething(word) == Opens({word}) # {}

\* Mutant: whatever overlaps.
Narrowed_Overlap(words, granted) ==
    {w \in words : Grants(granted, w) \/ \E g \in granted : Matches(w, g)}

\* intersectPermissions: the words of the first list that the second grants.
Narrowed(words, granted) == {w \in words : Grants(granted, w)}

\* What the roles of a user grant today.
RoleWords(u) == UNION {role[x] : x \in holds[u]}

Live(k) == keys[k].owner # Unknown /\ ~keys[k].revoked /\ day < keys[k].until

\* fromAPIKey and limitToRolePermissions: a query that fails is only logged, and leaves
\* every scope of the key.
KeyWords(k, answered) ==
    IF answered THEN Narrowed(keys[k].scopes, RoleWords(keys[k].owner)) ELSE keys[k].scopes

\* fromOAuthToken: the scopes of the administrator, narrowed to those in the token that
\* mean something here, if there are any (vendraScopeWords) ...
TokenScopes == [configured \in Lists |-> [claimed \in Lists |->
    LET known == {w \in claimed : OpensSomething(w)} IN
    IF known = {} THEN configured ELSE Narrowed(configured, known)]]

\* ... and to the roles, when their query is answered.
TokenWords(configured, claimed, u, answered) ==
    LET scopes == TokenScopes[configured][claimed] IN
    IF answered THEN Narrowed(scopes, RoleWords(u)) ELSE scopes

-----------------------------------------------------------------------------
\* createRole and updateRole: every word must open something; a system role stays.
WriteRole(x, words) ==
    /\ x \notin System
    /\ \A w \in words : OpensSomething(w)
    /\ role' = [role EXCEPT ![x] = words]
    /\ UNCHANGED <<holds, keys, kreq, day>>

\* updateUser on the roles.
GiveRoles(u, roles) ==
    /\ holds' = [holds EXCEPT ![u] = roles]
    /\ UNCHANGED <<role, keys, kreq, day>>

\* createAPIKey, called with a session (words of the roles, read with it) or with another
\* key; without scopes it gets the reading ones the caller has.
Reading(words) ==
    IF Grants(words, <<"*", "read">>) THEN {<<"*", "read">>}
    ELSE {w \in words : Len(w) > 1 /\ w[Len(w)] = "read"}

IssueKey(u, k, caller, answered, asked, days) ==
    LET mine == IF caller = Unknown THEN RoleWords(u) ELSE KeyWords(caller, answered)
        scopes == IF asked = {} THEN Reading(mine) ELSE asked
        lent == IF caller = Unknown THEN RoleWords(u) ELSE keys[caller].lent IN
    /\ IF caller = Unknown THEN answered ELSE Live(caller) /\ keys[caller].owner = u
    /\ keys[k] = NoKey
    /\ scopes # {}
    /\ \A s \in scopes : Grants(mine, s)
    /\ day + days <= LastDay
    /\ keys' = [keys EXCEPT ![k] = [NoKey EXCEPT !.owner = u, !.scopes = scopes, !.lent = lent,
                                                !.until = day + days]]
    /\ UNCHANGED <<role, holds, kreq, day>>

\* rotateAPIKey reads a key that is not revoked; it may have expired ...
RotateRead(r, k) ==
    /\ kreq[r].pc = "idle"
    /\ keys[k].owner # Unknown
    /\ ~keys[k].revoked
    /\ Turns(r, [pc |-> "rotate", key |-> keys[k], old |-> k])
    /\ UNCHANGED <<role, holds, keys, day>>

\* Mutant: a rotation starts the validity of the key anew.
Successor_Fresh(q) == [q.key EXCEPT !.from = q.old, !.until = LastDay]

\* Name, scopes and expiry of the old one.
Successor(q) == [q.key EXCEPT !.from = q.old]

\* ... then, in a transaction, revokes it, whatever has become of it, and inserts the other.
RotateCommit(r, k) ==
    LET q == kreq[r] IN
    /\ q.pc = "rotate"
    /\ keys[k] = NoKey
    /\ keys' = [keys EXCEPT ![q.old].revoked = TRUE, ![k] = Successor(q)]
    /\ Turns(r, Still)
    /\ UNCHANGED <<role, holds, day>>

RotateFails(r) ==
    /\ kreq[r].pc = "rotate"
    /\ Turns(r, Still)
    /\ UNCHANGED <<role, holds, keys, day>>

\* revokeAPIKey
RevokeKey(k) ==
    /\ keys[k].owner # Unknown
    /\ ~keys[k].revoked
    /\ keys' = [keys EXCEPT ![k].revoked = TRUE]
    /\ UNCHANGED <<role, holds, kreq, day>>

NextDay ==
    /\ day < LastDay
    /\ day' = day + 1
    /\ UNCHANGED <<role, holds, keys, kreq>>

KeysInit ==
    /\ role \in [Roles -> Lists]
    /\ holds \in [Holders -> SUBSET Roles]
    /\ keys = [k \in Keys |-> NoKey]
    /\ kreq = [r \in KeyRequests |-> Still]
    /\ day = 0

KeysNext ==
    \/ \E x \in Roles, words \in Lists : WriteRole(x, words)
    \/ \E u \in Holders, roles \in SUBSET Roles : GiveRoles(u, roles)
    \/ \E u \in Holders, k \in Keys, caller \in Keys \cup {Unknown}, answered \in BOOLEAN :
         \E asked \in Lists \cup {{}}, days \in 1 .. LastDay : IssueKey(u, k, caller, answered, asked, days)
    \/ \E r \in KeyRequests, k \in Keys : RotateRead(r, k) \/ RotateCommit(r, k)
    \/ \E r \in KeyRequests : RotateFails(r)
    \/ \E k \in Keys : RevokeKey(k)
    \/ NextDay

KeysSpec == KeysInit /\ [][KeysNext]_keyVars

-----------------------------------------------------------------------------
\* No word has a wildcard at both ends.  Lists are narrowed as words, not as sets of doors:
\* "*.*" opens the doors "*.read" and "portal.*" alone, and yet grants the word "*.read",
\* which opens every reading one.
OneEnded(words) == \A w \in words : Len(w) > 1 => ~(w[1] = "*" /\ w[Len(w)] = "*")

\* What is configured and what a token claims both bound it; this part needs no state.
WithinScopes ==
    \A configured, claimed \in Lists :
        LET doors == Opens(TokenScopes[configured][claimed]) IN
        /\ doors \subseteq Opens(configured)
        /\ OneEnded(claimed) /\ (\E w \in claimed : OpensSomething(w)) => doors \subseteq Opens(claimed)

\* A key or a token opens no door that the roles of its holder do not open today, whatever
\* was written on it and when; while the roles cannot be read, a key opens no more than
\* the roles did when it was issued, or when the key was that issued it, and a token no
\* more than it is configured and claims to (intersectPermissions, limitToRolePermissions,
\* createAPIKey).
WithinRoles ==
    /\ \A k \in Keys : keys[k].owner # Unknown =>
         LET mine == RoleWords(keys[k].owner) IN
         /\ OneEnded(mine) => Opens(KeyWords(k, TRUE)) \subseteq Opens(mine)
         /\ OneEnded(keys[k].lent) => Opens(KeyWords(k, FALSE)) \subseteq Opens(keys[k].lent)
    /\ WithinScopes
    /\ \A u \in Holders, configured, claimed \in Lists :
         LET doors == Opens(TokenWords(configured, claimed, u, TRUE)) IN
         /\ doors \subseteq Opens(TokenWords(configured, claimed, u, FALSE))
         /\ OneEnded(RoleWords(u)) => doors \subseteq Opens(RoleWords(u))

\* A rotation hands on what it replaces and no more: the successor opens what the key did,
\* for as long, and the key is dead, also when rotations and a revocation of one key race
\* (rotateAPIKey).
HandedOn ==
    \A k \in Keys : keys[k].from # Unknown =>
        LET old == keys[keys[k].from] IN
        /\ old.revoked
        /\ keys[k].owner = old.owner /\ keys[k].scopes = old.scopes /\ keys[k].until = old.until
=============================================================================
