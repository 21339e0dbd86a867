--------------------------- MODULE AccountSessions --------------------------
(***************************************************************************)
(* The sessions of Vendra and the passwords they are opened with: logging  *)
(* in and out, a user who changes the password, an administrator who sets  *)
(* it, accounts that are switched off, and the sweep of expired sessions.  *)
(* One SQL statement per step; any of them may fail.  The login guard is a *)
(* module of its own (LoginGuard).                                         *)
(***************************************************************************)
EXTENDS FiniteSets

CONSTANTS Users,
          Passwords,
          Sessions,          \* rows of sessions (bound)
          AccessRequests,    \* HTTP requests in flight at once (bound)
          None

ASSUME SessionsAssumption == None \notin Users \cup Passwords \cup Sessions

VARIABLES password,    \* users.password_hash
          active,      \* users.status = 'active'
          session,     \* sessions
          areq,        \* handlers in flight
          unrevoked    \* ghost: users whose sessions could not be deleted

sessionVars == <<password, active, session, areq, unrevoked>>

\* late and spared are ghosts: the password had changed when the session was opened; it
\* is the one a change was made with.
NoSession == [user |-> None, opened |-> None, expired |-> FALSE, late |-> FALSE, spared |-> FALSE]

Unused == [pc |-> "idle", user |-> None, secret |-> None, keep |-> None]

Carry(r, fields) == areq' = [areq EXCEPT ![r] = fields]
Rest(r) == Carry(r, Unused)

\* fromSession: the row, not expired, of an active user.
SignedIn(x) == session[x].user # None /\ ~session[x].expired /\ active[session[x].user]

-----------------------------------------------------------------------------
\* login reads the hash of an active user and compares ...
LookUp(r, u, secret) ==
    /\ areq[r].pc = "idle"
    /\ active[u]
    /\ password[u] = secret
    /\ Carry(r, [Unused EXCEPT !.pc = "session", !.user = u, !.secret = secret])
    /\ UNCHANGED <<password, active, session, unrevoked>>

\* ... and opens a session.
OpenSession(r, x) ==
    LET q == areq[r] IN
    /\ q.pc = "session"
    /\ session[x] = NoSession
    /\ session' = [session EXCEPT ![x] = [NoSession EXCEPT !.user = q.user, !.opened = q.secret,
                                                           !.late = password[q.user] # q.secret]]
    /\ Rest(r)
    /\ UNCHANGED <<password, active, unrevoked>>

\* changeMyPassword reads the hash and compares; a new password differs from it.
ChangeRead(r, x, new) ==
    LET u == session[x].user IN
    /\ areq[r].pc = "idle"
    /\ SignedIn(x)
    /\ new # password[u]
    /\ Carry(r, [pc |-> "write", user |-> u, secret |-> new, keep |-> x])
    /\ UNCHANGED <<password, active, session, unrevoked>>

\* resetUserPassword, whatever the password was before.  An administrator who resets his
\* own keeps the session he does it with.
ResetRead(r, u, new, keep) ==
    /\ areq[r].pc = "idle"
    /\ keep # None => SignedIn(keep) /\ session[keep].user = u
    /\ Carry(r, [pc |-> "write", user |-> u, secret |-> new, keep |-> keep])
    /\ UNCHANGED <<password, active, session, unrevoked>>

\* The UPDATE names the account only.
WritePassword(r) ==
    LET q == areq[r] IN
    /\ q.pc = "write"
    /\ password' = [password EXCEPT ![q.user] = q.secret]
    /\ Carry(r, [q EXCEPT !.pc = "revoke"])
    /\ UNCHANGED <<active, session, unrevoked>>

\* Mutant: the condition without its IS NULL; no row differs from NULL.
Evicted_NullKeepsAll(x, u, keep) == session[x].user = u /\ keep # None /\ x # keep

\* DELETE ... WHERE user_id = u AND (keep IS NULL OR id <> keep)
Evicted(x, u, keep) == session[x].user = u /\ (keep = None \/ x # keep)

\* revokeSessions; when it fails, the change is answered as made all the same.
RevokeSessions(r, done) ==
    LET q == areq[r] IN
    /\ q.pc = "revoke"
    /\ session' = IF done
                    THEN [x \in Sessions |-> IF Evicted(x, q.user, q.keep) THEN NoSession
                                             ELSE IF x = q.keep /\ session[x].user = q.user
                                               THEN [session[x] EXCEPT !.spared = TRUE]
                                               ELSE session[x]]
                    ELSE session
    /\ unrevoked' = IF done THEN unrevoked \ {q.user} ELSE unrevoked \cup {q.user}
    /\ Rest(r)
    /\ UNCHANGED <<password, active>>

\* A statement fails, or the replica dies: what was written stays.
AccessFails(r) ==
    /\ areq[r].pc # "idle"
    /\ unrevoked' = IF areq[r].pc = "revoke" THEN unrevoked \cup {areq[r].user} ELSE unrevoked
    /\ Rest(r)
    /\ UNCHANGED <<password, active, session>>

-----------------------------------------------------------------------------
\* logout deletes the row of its own token ...
Logout(x) ==
    /\ session[x].user # None
    /\ session' = [session EXCEPT ![x] = NoSession]
    /\ UNCHANGED <<password, active, areq, unrevoked>>

\* ... revokeMySession another one of the same user ...
RevokeMySession(x, y) ==
    /\ SignedIn(x)
    /\ y # x
    /\ session[y].user = session[x].user
    /\ session' = [session EXCEPT ![y] = NoSession]
    /\ UNCHANGED <<password, active, areq, unrevoked>>

\* ... and revokeMyOtherSessions all of them.
RevokeMyOthers(x) ==
    /\ SignedIn(x)
    /\ session' = [y \in Sessions |-> IF Evicted(y, session[x].user, x) THEN NoSession ELSE session[y]]
    /\ UNCHANGED <<password, active, areq, unrevoked>>

\* updateUser on the status.
SwitchUser(u) ==
    /\ active' = [active EXCEPT ![u] = ~@]
    /\ UNCHANGED <<password, session, areq, unrevoked>>

SessionExpires(x) ==
    /\ session[x].user # None
    /\ session' = [session EXCEPT ![x].expired = TRUE]
    /\ UNCHANGED <<password, active, areq, unrevoked>>

\* purgeExpired
PurgeSessions ==
    /\ session' = [x \in Sessions |-> IF session[x].expired THEN NoSession ELSE session[x]]
    /\ UNCHANGED <<password, active, areq, unrevoked>>

SessionsInit ==
    /\ password \in [Users -> Passwords]
    /\ active = [u \in Users |-> TRUE]
    /\ session = [x \in Sessions |-> NoSession]
    /\ areq = [r \in AccessRequests |-> Unused]
    /\ unrevoked = {}

AccessStep(r) ==
    \/ \E u \in Users, secret \in Passwords : LookUp(r, u, secret)
    \/ \E x \in Sessions : OpenSession(r, x)
    \/ \E x \in Sessions, new \in Passwords : ChangeRead(r, x, new)
    \/ \E u \in Users, new \in Passwords, keep \in Sessions \cup {None} : ResetRead(r, u, new, keep)
    \/ WritePassword(r)
    \/ \E done \in BOOLEAN : RevokeSessions(r, done)
    \/ AccessFails(r)

SessionsNext ==
    \/ \E r \in AccessRequests : AccessStep(r)
    \/ \E x \in Sessions : Logout(x) \/ RevokeMyOthers(x) \/ SessionExpires(x)
    \/ \E x, y \in Sessions : RevokeMySession(x, y)
    \/ \E u \in Users : SwitchUser(u)
    \/ PurgeSessions

SessionsSpec == SessionsInit /\ [][SessionsNext]_sessionVars

-----------------------------------------------------------------------------
\* A session of an older password, when no change is between its UPDATE and its
\* revocation and none failed to revoke.
Outdated(x) ==
    LET u == session[x].user IN
    /\ u # None
    /\ session[x].opened # password[u]
    /\ u \notin unrevoked
    /\ \A r \in AccessRequests : ~(areq[r].pc = "revoke" /\ areq[r].user = u)

\* Sessions end with the password they were opened with: one of an older password is the
\* one a change was made with, or was opened after the change by a login that had looked
\* at the hash before it (changeMyPassword, resetUserPassword, revokeSessions).
SessionsEnd == \A x \in Sessions : Outdated(x) => session[x].late \/ session[x].spared

=============================================================================
