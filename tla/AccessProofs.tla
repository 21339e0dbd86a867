---------------------------- MODULE AccessProofs ----------------------------
(***************************************************************************)
(* Theorems about who gets in at Vendra and how far, for any number of     *)
(* users, sessions, keys, delegations and requests at once.                *)
(***************************************************************************)
EXTENDS LoginGuard, SumTheorems, AccountSessions, SingleSignOn, Credentials, DataScope,
        Delegations, TLAPS

(***************************************************************************)
(* AccountSessions: SessionsEnd with its types is inductive.               *)
(***************************************************************************)
SessionRow == [user : Users \cup {None}, opened : Passwords \cup {None}, expired : BOOLEAN,
               late : BOOLEAN, spared : BOOLEAN]

AccessRecord == [pc : {"idle", "session", "write", "revoke"}, user : Users \cup {None},
                 secret : Passwords \cup {None}, keep : Sessions \cup {None}]

SessionTypes ==
    /\ password \in [Users -> Passwords \cup {None}]
    /\ session \in [Sessions -> SessionRow]
    /\ areq \in [AccessRequests -> AccessRecord]

SessionsInv == SessionTypes /\ SessionsEnd

LEMMA NoSessionIsRow == NoSession \in SessionRow /\ NoSession.user = None
  BY DEF NoSession, SessionRow

LEMMA UnusedIsRecord == Unused \in AccessRecord /\ Unused.pc = "idle"
  BY DEF Unused, AccessRecord

\* Some rows of sessions go, the others stay as they are, and no password moves.
LEMMA RowsGo ==
    ASSUME SessionsInv, session' \in [Sessions -> SessionRow], UNCHANGED <<password, areq, unrevoked>>,
           \A x \in Sessions :
              \/ session'[x].user = None
              \/ /\ session'[x].user = session[x].user /\ session'[x].opened = session[x].opened
                 /\ session'[x].late = session[x].late /\ session'[x].spared = session[x].spared
    PROVE  SessionsInv'
<1>1. SessionTypes'
  BY DEF SessionsInv, SessionTypes
<1>2. SessionsEnd'
  BY DEF SessionsInv, SessionsEnd, Outdated
<1> QED
  BY <1>1, <1>2 DEF SessionsInv

\* A request moves on before it writes a password or after it deleted the sessions.
LEMMA RequestMoves ==
    ASSUME SessionsInv, NEW r \in AccessRequests, NEW q \in AccessRecord, Carry(r, q),
           UNCHANGED <<password, session>>,
           areq[r].pc = "revoke" => unrevoked' = unrevoked \cup {areq[r].user},
           areq[r].pc # "revoke" => unrevoked' = unrevoked
    PROVE  SessionsInv'
<1>1. areq' \in [AccessRequests -> AccessRecord] /\ \A o \in AccessRequests \ {r} : areq'[o] = areq[o]
  BY DEF SessionsInv, SessionTypes, Carry
<1>2. SessionTypes'
  BY <1>1 DEF SessionsInv, SessionTypes
<1>3. ASSUME NEW x \in Sessions, Outdated(x)' PROVE Outdated(x)
  <2>1. session[x].user # None /\ session[x].opened # password[session[x].user] /\ session[x].user \notin unrevoked
    BY <1>3 DEF Outdated
  <2>2. ASSUME NEW o \in AccessRequests, areq[o].pc = "revoke", areq[o].user = session[x].user PROVE FALSE
    <3>1. CASE o = r
      BY <1>3, <2>2, <3>1 DEF Outdated
    <3>2. CASE o # r
      BY <1>1, <1>3, <2>2, <3>2 DEF Outdated
    <3> QED
      BY <3>1, <3>2
  <2> QED
    BY <2>1, <2>2 DEF Outdated
<1>4. SessionsEnd'
  BY <1>3 DEF SessionsInv, SessionsEnd
<1> QED
  BY <1>2, <1>4 DEF SessionsInv

LEMMA OpenKeeps ==
    ASSUME SessionsInv, NEW r \in AccessRequests, NEW x \in Sessions, OpenSession(r, x)
    PROVE  SessionsInv'
<1>1. PICK q \in AccessRecord : q = areq[r] /\ q.pc = "session"
  BY DEF SessionsInv, SessionTypes, OpenSession
<1> DEFINE row == [NoSession EXCEPT !.user = q.user, !.opened = q.secret, !.late = password[q.user] # q.secret]
<1>10. PICK late \in BOOLEAN : late = (password[q.user] # q.secret)
  OBVIOUS
<1>11. PICK r1 : r1 = [NoSession EXCEPT !.user = q.user]
  OBVIOUS
<1>12. r1 = [user |-> q.user, opened |-> None, expired |-> FALSE, late |-> FALSE, spared |-> FALSE]
  BY <1>11 DEF NoSession
<1>13. PICK r2 : r2 = [r1 EXCEPT !.opened = q.secret]
  OBVIOUS
<1>14. r2 = [user |-> q.user, opened |-> q.secret, expired |-> FALSE, late |-> FALSE, spared |-> FALSE]
  BY <1>12, <1>13
<1>15. row = [r2 EXCEPT !.late = late]
  BY <1>10, <1>11, <1>13
<1> HIDE DEF row
<1>2. row = [user |-> q.user, opened |-> q.secret, expired |-> FALSE, late |-> late, spared |-> FALSE]
  BY <1>14, <1>15
<1>3. row \in SessionRow /\ row.user = q.user /\ row.opened = q.secret /\ (row.late <=> password[q.user] # q.secret)
  BY <1>2, <1>10 DEF SessionRow, AccessRecord
<1>4. session' = [session EXCEPT ![x] = row]
  BY <1>1 DEF OpenSession, row
<1>5. UNCHANGED <<password, unrevoked>> /\ Carry(r, Unused)
  BY DEF OpenSession, Rest
<1>6. areq' \in [AccessRequests -> AccessRecord] /\ \A o \in AccessRequests \ {r} : areq'[o] = areq[o]
  BY <1>5, UnusedIsRecord DEF SessionsInv, SessionTypes, Carry
<1>7. session' \in [Sessions -> SessionRow] /\ session'[x] = row /\ \A y \in Sessions \ {x} : session'[y] = session[y]
  BY <1>3, <1>4 DEF SessionsInv, SessionTypes
<1>8. SessionTypes'
  BY <1>5, <1>6, <1>7 DEF SessionsInv, SessionTypes
<1>9. ASSUME NEW y \in Sessions, Outdated(y)' PROVE session'[y].late \/ session'[y].spared
  <2>1. CASE y = x
    BY <1>3, <1>5, <1>7, <1>9, <2>1 DEF Outdated
  <2>2. CASE y # x
    <3>1. ASSUME NEW o \in AccessRequests, areq[o].pc = "revoke", areq[o].user = session[y].user PROVE FALSE
      <4>1. o # r
        BY <1>1, <3>1
      <4> QED
        BY <1>6, <1>7, <1>9, <2>2, <3>1, <4>1 DEF Outdated
    <3>2. Outdated(y)
      BY <1>5, <1>7, <1>9, <2>2, <3>1 DEF Outdated
    <3> QED
      BY <1>7, <2>2, <3>2 DEF SessionsInv, SessionsEnd
  <2> QED
    BY <2>1, <2>2
<1> QED
  BY <1>8, <1>9 DEF SessionsInv, SessionsEnd

LEMMA WriteKeeps ==
    ASSUME SessionsInv, NEW r \in AccessRequests, WritePassword(r)
    PROVE  SessionsInv'
<1>1. PICK q \in AccessRecord : q = areq[r] /\ q.pc = "write"
  BY DEF SessionsInv, SessionTypes, WritePassword
<1>2. PICK next : next = [q EXCEPT !.pc = "revoke"]
  OBVIOUS
<1>3. next \in AccessRecord
  BY <1>2 DEF AccessRecord
<1>4. next.pc = "revoke" /\ next.user = q.user
  BY <1>2 DEF AccessRecord
<1>5. password' = [password EXCEPT ![q.user] = q.secret] /\ Carry(r, next) /\ UNCHANGED <<session, unrevoked>>
  BY <1>1, <1>2 DEF WritePassword
<1>6. areq' \in [AccessRequests -> AccessRecord] /\ areq'[r] = next /\ \A o \in AccessRequests \ {r} : areq'[o] = areq[o]
  BY <1>3, <1>5 DEF SessionsInv, SessionTypes, Carry
<1>7. \A u \in Users \ {q.user} : password'[u] = password[u]
  BY <1>5 DEF SessionsInv, SessionTypes
<1>9. ASSUME NEW y \in Sessions, Outdated(y)' PROVE Outdated(y)
  <2>1. session[y].user # q.user
    BY <1>4, <1>5, <1>6, <1>9 DEF Outdated
  <2>2. session[y].user \in Users
    BY <1>5, <1>9 DEF Outdated, SessionsInv, SessionTypes, SessionRow
  <2>3. ASSUME NEW o \in AccessRequests, areq[o].pc = "revoke", areq[o].user = session[y].user PROVE FALSE
    BY <1>1, <1>5, <1>6, <1>9, <2>3 DEF Outdated
  <2> QED
    BY <1>5, <1>7, <1>9, <2>1, <2>2, <2>3 DEF Outdated
<1>10. SessionsEnd'
  BY <1>5, <1>9 DEF SessionsInv, SessionsEnd
<1>11. password' \in [Users -> Passwords \cup {None}]
  BY <1>1, <1>5 DEF SessionsInv, SessionTypes, AccessRecord
<1> QED
  BY <1>5, <1>6, <1>10, <1>11 DEF SessionsInv, SessionTypes

LEMMA RevokeKeeps ==
    ASSUME SessionsInv, NEW r \in AccessRequests, NEW done \in BOOLEAN, RevokeSessions(r, done)
    PROVE  SessionsInv'
<1>1. PICK q \in AccessRecord : q = areq[r] /\ q.pc = "revoke"
  BY DEF SessionsInv, SessionTypes, RevokeSessions
<1>2. Carry(r, Unused) /\ password' = password
  BY DEF RevokeSessions, Rest
<1>3. CASE ~done
  <2>1. session' = session /\ unrevoked' = unrevoked \cup {areq[r].user}
    BY <1>1, <1>3 DEF RevokeSessions
  <2> QED
    BY <1>1, <1>2, <2>1, UnusedIsRecord, RequestMoves
<1>4. CASE done
  <2>1. unrevoked' = unrevoked \ {q.user}
    BY <1>1, <1>4 DEF RevokeSessions
  <2>2. session' = [x \in Sessions |-> IF Evicted(x, q.user, q.keep) THEN NoSession
                                       ELSE IF x = q.keep /\ session[x].user = q.user
                                         THEN [session[x] EXCEPT !.spared = TRUE] ELSE session[x]]
    BY <1>1, <1>4 DEF RevokeSessions
  <2>3. ASSUME NEW x \in Sessions
        PROVE  /\ session'[x] \in SessionRow
               /\ session'[x].user = None \/ session'[x].user = session[x].user
               /\ session'[x].user = q.user /\ q.user # None => session'[x].spared
               /\ session'[x].user # None /\ session'[x].user # q.user => session'[x] = session[x]
    <3>1. PICK row \in SessionRow : row = session[x]
      BY DEF SessionsInv, SessionTypes
    <3>2. CASE Evicted(x, q.user, q.keep)
      BY <2>2, <3>2, NoSessionIsRow
    <3>3. CASE ~Evicted(x, q.user, q.keep) /\ x = q.keep /\ session[x].user = q.user
      <4>1. session'[x] = [row EXCEPT !.spared = TRUE]
        BY <2>2, <3>1, <3>3
      <4>2. [row EXCEPT !.spared = TRUE] \in SessionRow
        BY DEF SessionRow
      <4>3. [row EXCEPT !.spared = TRUE].spared = TRUE /\ [row EXCEPT !.spared = TRUE].user = row.user
        BY DEF SessionRow
      <4> QED
        BY <3>1, <3>3, <4>1, <4>2, <4>3
    <3>4. CASE ~Evicted(x, q.user, q.keep) /\ ~(x = q.keep /\ session[x].user = q.user)
      <4>1. session'[x] = session[x]
        BY <2>2, <3>4
      <4>2. session[x].user # q.user
        BY <3>4 DEF Evicted
      <4> QED
        BY <3>1, <4>1, <4>2
    <3> QED
      BY <3>2, <3>3, <3>4
  <2>4. session' \in [Sessions -> SessionRow]
    <3>1. session' = [x \in Sessions |-> session'[x]]
      BY <2>2
    <3> QED
      BY <2>3, <3>1
  <2>5. areq' \in [AccessRequests -> AccessRecord] /\ \A o \in AccessRequests \ {r} : areq'[o] = areq[o]
    BY <1>2, UnusedIsRecord DEF SessionsInv, SessionTypes, Carry
  <2>6. SessionTypes'
    BY <1>2, <2>4, <2>5 DEF SessionsInv, SessionTypes
  <2>7. ASSUME NEW x \in Sessions, Outdated(x)' PROVE session'[x].late \/ session'[x].spared
    <3>1. session'[x].user # None
      BY <2>7 DEF Outdated
    <3>2. CASE session'[x].user = q.user
      BY <2>3, <3>1, <3>2
    <3>3. CASE session'[x].user # q.user
      <4>1. session'[x] = session[x]
        BY <2>3, <3>1, <3>3
      <4>2. ASSUME NEW o \in AccessRequests, areq[o].pc = "revoke", areq[o].user = session[x].user PROVE FALSE
        <5>1. o # r
          BY <1>1, <3>3, <4>1, <4>2
        <5> QED
          BY <2>5, <2>7, <4>1, <4>2, <5>1 DEF Outdated
      <4>3. Outdated(x)
        BY <1>2, <2>1, <2>7, <3>3, <4>1, <4>2 DEF Outdated
      <4> QED
        BY <4>1, <4>3 DEF SessionsInv, SessionsEnd
    <3> QED
      BY <3>2, <3>3
  <2> QED
    BY <2>6, <2>7 DEF SessionsInv, SessionsEnd
<1> QED
  BY <1>3, <1>4

LEMMA SessionsInvNext == SessionsInv /\ [SessionsNext]_sessionVars => SessionsInv'
<1> SUFFICES ASSUME SessionsInv, [SessionsNext]_sessionVars PROVE SessionsInv'
  OBVIOUS
<1>1. ASSUME NEW r \in AccessRequests, AccessStep(r) PROVE SessionsInv'
  <2>1. ASSUME NEW u \in Users, NEW secret \in Passwords, LookUp(r, u, secret) PROVE SessionsInv'
    <3>1. PICK q1 : q1 = [Unused EXCEPT !.pc = "session"]
      OBVIOUS
    <3>2. q1 = [pc |-> "session", user |-> None, secret |-> None, keep |-> None]
      BY <3>1 DEF Unused
    <3>3. PICK q2 : q2 = [q1 EXCEPT !.user = u]
      OBVIOUS
    <3>4. q2 = [pc |-> "session", user |-> u, secret |-> None, keep |-> None]
      BY <3>2, <3>3
    <3>5. PICK q : q = [q2 EXCEPT !.secret = secret]
      OBVIOUS
    <3>6. q = [pc |-> "session", user |-> u, secret |-> secret, keep |-> None]
      BY <3>4, <3>5
    <3>7. q = [Unused EXCEPT !.pc = "session", !.user = u, !.secret = secret]
      BY <3>1, <3>3, <3>5
    <3>8. q \in AccessRecord
      BY <3>6 DEF AccessRecord
    <3>9. Carry(r, q)
      BY <2>1, <3>7 DEF LookUp
    <3> QED
      BY <2>1, <3>8, <3>9, RequestMoves DEF LookUp
  <2>2. ASSUME NEW x \in Sessions, NEW new \in Passwords, ChangeRead(r, x, new) PROVE SessionsInv'
    <3> DEFINE q == [pc |-> "write", user |-> session[x].user, secret |-> new, keep |-> x]
    <3>1. q \in AccessRecord
      BY DEF SessionsInv, SessionTypes, SessionRow, AccessRecord
    <3> QED
      BY <2>2, <3>1, RequestMoves DEF ChangeRead
  <2>3. ASSUME NEW u \in Users, NEW new \in Passwords, NEW keep \in Sessions \cup {None}, ResetRead(r, u, new, keep)
        PROVE  SessionsInv'
    <3> DEFINE q == [pc |-> "write", user |-> u, secret |-> new, keep |-> keep]
    <3>1. q \in AccessRecord
      BY DEF AccessRecord
    <3> QED
      BY <2>3, <3>1, RequestMoves DEF ResetRead
  <2>4. ASSUME AccessFails(r) PROVE SessionsInv'
    BY <2>4, UnusedIsRecord, RequestMoves DEF AccessFails, Rest
  <2> QED
    BY <1>1, <2>1, <2>2, <2>3, <2>4, OpenKeeps, WriteKeeps, RevokeKeeps DEF AccessStep
<1>2. ASSUME NEW x \in Sessions, Logout(x) PROVE SessionsInv'
  <2>1. session' \in [Sessions -> SessionRow] /\ session'[x] = NoSession
    BY <1>2, NoSessionIsRow DEF Logout, SessionsInv, SessionTypes
  <2>2. \A y \in Sessions \ {x} : session'[y] = session[y]
    BY <1>2 DEF Logout, SessionsInv, SessionTypes
  <2> QED
    BY <1>2, <2>1, <2>2, NoSessionIsRow, RowsGo DEF Logout
<1>3. ASSUME NEW x \in Sessions, NEW y \in Sessions, RevokeMySession(x, y) PROVE SessionsInv'
  <2>1. session' \in [Sessions -> SessionRow] /\ session'[y] = NoSession
    BY <1>3, NoSessionIsRow DEF RevokeMySession, SessionsInv, SessionTypes
  <2>2. \A z \in Sessions \ {y} : session'[z] = session[z]
    BY <1>3 DEF RevokeMySession, SessionsInv, SessionTypes
  <2> QED
    BY <1>3, <2>1, <2>2, NoSessionIsRow, RowsGo DEF RevokeMySession
<1>4. ASSUME NEW x \in Sessions, RevokeMyOthers(x) PROVE SessionsInv'
  <2>1. \A y \in Sessions : session'[y] \in {NoSession, session[y]} /\ session'[y] \in SessionRow
    BY <1>4, NoSessionIsRow DEF RevokeMyOthers, SessionsInv, SessionTypes
  <2>2. session' \in [Sessions -> SessionRow]
    BY <1>4, NoSessionIsRow DEF RevokeMyOthers, SessionsInv, SessionTypes
  <2> QED
    BY <1>4, <2>1, <2>2, NoSessionIsRow, RowsGo DEF RevokeMyOthers
<1>5. ASSUME PurgeSessions PROVE SessionsInv'
  <2>1. \A y \in Sessions : session'[y] \in {NoSession, session[y]}
    BY <1>5 DEF PurgeSessions
  <2>2. session' \in [Sessions -> SessionRow]
    BY <1>5, NoSessionIsRow DEF PurgeSessions, SessionsInv, SessionTypes
  <2> QED
    BY <1>5, <2>1, <2>2, NoSessionIsRow, RowsGo DEF PurgeSessions
<1>6. ASSUME NEW x \in Sessions, SessionExpires(x) PROVE SessionsInv'
  <2>1. PICK row \in SessionRow : row = session[x]
    BY DEF SessionsInv, SessionTypes
  <2>2. [row EXCEPT !.expired = TRUE] \in SessionRow
    BY DEF SessionRow
  <2>3. /\ [row EXCEPT !.expired = TRUE].user = row.user /\ [row EXCEPT !.expired = TRUE].opened = row.opened
        /\ [row EXCEPT !.expired = TRUE].late = row.late /\ [row EXCEPT !.expired = TRUE].spared = row.spared
    BY DEF SessionRow
  <2>4. PICK next : next = [row EXCEPT !.expired = TRUE]
    OBVIOUS
  <2>5. session' = [session EXCEPT ![x] = next]
    BY <1>6, <2>1, <2>4 DEF SessionExpires
  <2>6. session' \in [Sessions -> SessionRow] /\ session'[x] = next /\ \A y \in Sessions \ {x} : session'[y] = session[y]
    BY <2>2, <2>4, <2>5 DEF SessionsInv, SessionTypes
  <2> QED
    BY <1>6, <2>1, <2>3, <2>4, <2>6, RowsGo DEF SessionExpires
<1>7. CASE (\E u \in Users : SwitchUser(u)) \/ UNCHANGED sessionVars
  <2>1. UNCHANGED <<password, session, areq, unrevoked>>
    BY <1>7 DEF SwitchUser, sessionVars
  <2>2. session \in [Sessions -> SessionRow]
    BY DEF SessionsInv, SessionTypes
  <2> QED
    BY <2>1, <2>2, RowsGo
<1> QED
  BY <1>1, <1>2, <1>3, <1>4, <1>5, <1>6, <1>7 DEF SessionsNext

\* AccountSessions: however logins, changes of passwords and failing statements mix, a session
\* of an older password is the one a change was made with, or its login raced the change.
THEOREM SessionsAreEnded == SessionsSpec => []SessionsEnd
<1>1. SessionsInit => SessionsInv
  BY NoSessionIsRow, UnusedIsRecord DEF SessionsInit, SessionsInv, SessionTypes, SessionsEnd, Outdated
<1>2. SessionsInv => SessionsEnd
  BY DEF SessionsInv
<1> QED
  BY <1>1, <1>2, SessionsInvNext, PTL DEF SessionsSpec

(***************************************************************************)
(* Delegations: a handler that goes past the scope on a delegation still   *)
(* has it among those the request came with.                               *)
(***************************************************************************)
CallOK(q) ==
    /\ DOMAIN q = {"pc", "who", "words", "given", "type", "verb", "thing", "named"}
    /\ q.pc \in {"handler", "open"} /\ q.named =>
          \E f \in q.given : Covers(f, q.type, q.verb, q.thing) /\ NamesRecord(f)
    /\ q.pc = "open" => q.thing \in Reach[q.who] \/ q.named

DelegationsInv == DOMAIN call = Calls /\ \A c \in Calls : CallOK(call[c])

LEMMA NoCallOK == CallOK(NoCall)
  BY DEF NoCall, CallOK

LEMMA OneCalls ==
    ASSUME DelegationsInv, NEW c \in Calls, NEW q, CallOK(q), Calling(c, q)
    PROVE  DelegationsInv'
  BY DEF DelegationsInv, Calling

LEMMA DelegationsInvNext == DelegationsInv /\ [DelegationsNext]_grantVars => DelegationsInv'
<1> SUFFICES ASSUME DelegationsInv, [DelegationsNext]_grantVars PROVE DelegationsInv'
  OBVIOUS
<1>1. ASSUME NEW c \in Calls, NEW u, NEW web, Enter(c, u, web) PROVE DelegationsInv'
  <2>1. PICK words, given :
            Calling(c, [NoCall EXCEPT !.pc = "gate", !.who = u, !.given = given, !.words = words])
    BY <1>1 DEF Enter
  <2>2. PICK q : q = [NoCall EXCEPT !.pc = "gate", !.who = u, !.given = given, !.words = words]
    OBVIOUS
  <2>3. DOMAIN q = {"pc", "who", "words", "given", "type", "verb", "thing", "named"}
    BY <2>2 DEF NoCall
  <2>4. q.pc = "gate"
    BY <2>2 DEF NoCall
  <2> QED
    BY <2>1, <2>2, <2>3, <2>4, OneCalls DEF CallOK
<1>2. ASSUME NEW c \in Calls, NEW type, NEW verb, NEW thing, Gate(c, type, verb, thing) PROVE DelegationsInv'
  <2> DEFINE fit == {f \in call[c].given : Covers(f, type, verb, thing)}
  <2>1. CASE fit # {} \/ \E word \in call[c].words : Permits(word, type, verb)
    <3>1. PICK q : q = call[c] /\ CallOK(q)
      BY DEF DelegationsInv
    <3>2. PICK named \in BOOLEAN : named = (\E f \in fit : NamesRecord(f))
      OBVIOUS
    <3>3. PICK next : next = [q EXCEPT !.pc = "handler", !.type = type, !.verb = verb, !.thing = thing, !.named = named]
      OBVIOUS
    <3>4. Calling(c, next)
      BY <1>2, <2>1, <3>1, <3>2, <3>3 DEF Gate
    <3>5. DOMAIN next = {"pc", "who", "words", "given", "type", "verb", "thing", "named"}
      BY <3>1, <3>3 DEF CallOK
    <3>6. next.given = q.given /\ next.pc = "handler"
      BY <3>1, <3>3 DEF CallOK
    <3>7. next.type = type /\ next.verb = verb /\ next.thing = thing /\ next.named = named
      BY <3>1, <3>3 DEF CallOK
    <3>8. CallOK(next)
      BY <3>1, <3>2, <3>5, <3>6, <3>7 DEF CallOK
    <3> QED
      BY <3>4, <3>8, OneCalls
  <2>2. CASE ~(fit # {} \/ \E word \in call[c].words : Permits(word, type, verb))
    BY <1>2, <2>2, NoCallOK, OneCalls DEF Gate
  <2> QED
    BY <2>1, <2>2
<1>3. ASSUME NEW c \in Calls, OpenRecord(c) PROVE DelegationsInv'
  <2>1. PICK q : q = call[c] /\ CallOK(q) /\ q.pc = "handler"
    BY <1>3 DEF OpenRecord, DelegationsInv
  <2>2. CASE TypeOf[q.thing] = q.type /\ (q.thing \in Reach[q.who] \/ q.named)
    <3>1. PICK next : next = [q EXCEPT !.pc = "open"]
      OBVIOUS
    <3>2. /\ DOMAIN next = DOMAIN q /\ next.pc = "open" /\ next.who = q.who /\ next.given = q.given /\ next.type = q.type
          /\ next.verb = q.verb /\ next.thing = q.thing /\ next.named = q.named
      BY <2>1, <3>1 DEF CallOK
    <3>3. CallOK(next)
      BY <2>1, <2>2, <3>2 DEF CallOK
    <3> QED
      BY <1>3, <2>1, <2>2, <3>1, <3>3, OneCalls DEF OpenRecord
  <2>3. CASE ~(TypeOf[q.thing] = q.type /\ (q.thing \in Reach[q.who] \/ q.named))
    BY <1>3, <2>1, <2>3, NoCallOK, OneCalls DEF OpenRecord
  <2> QED
    BY <2>2, <2>3
<1>4. ASSUME NEW c \in Calls, LeaveRecord(c) PROVE DelegationsInv'
  BY <1>4, NoCallOK, OneCalls DEF LeaveRecord
<1>5. ASSUME UNCHANGED call PROVE DelegationsInv'
  BY <1>5 DEF DelegationsInv
<1> QED
  BY <1>1, <1>2, <1>3, <1>4, <1>5 DEF DelegationsNext, CallStep, CreateAccessGrant, DeleteAccessGrant, DateChanges, grantVars

\* Delegations: for any roles, scopes and delegations, a record outside the own scope is
\* opened only by a delegation that names it.
THEOREM RecordIsNamed == DelegationsSpec => []RecordNamed
<1>1. DelegationsInit => DelegationsInv
  BY NoCallOK DEF DelegationsInit, DelegationsInv
<1>2. DelegationsInv => RecordNamed
  <2> SUFFICES ASSUME DelegationsInv, NEW c \in Calls, call[c].pc = "open", call[c].thing \notin Reach[call[c].who]
               PROVE  \E f \in call[c].given : /\ f.thing = call[c].thing /\ f.method \in {Everything, call[c].verb}
                                               /\ Permits(f.word, call[c].type, call[c].verb)
    BY DEF RecordNamed
  <2>1. PICK f \in call[c].given : Covers(f, call[c].type, call[c].verb, call[c].thing) /\ NamesRecord(f)
    BY DEF DelegationsInv, CallOK
  <2> QED
    BY <2>1 DEF Covers, NamesRecord
<1> QED
  BY <1>1, <1>2, DelegationsInvNext, PTL DEF DelegationsSpec

(***************************************************************************)
(* Credentials: the words of the roles and lists are sequences, and from a *)
(* word without a wildcard at both ends Matches is transitive.             *)
(***************************************************************************)
Segments == STRING \cup {"*", "read"}

LEMMA ListWords == ASSUME NEW w \in (UNION Lists) \cup Doors PROVE w \in Seq(Segments)
<1>1. w \in Seq(STRING)
  BY CredentialsAssumption
<1> QED
  BY <1>1 DEF Segments

\* Two words of the same length and entries are the same word.
LEMMA PointwiseEqual ==
    ASSUME NEW v \in Seq(Segments), NEW w \in Seq(Segments), Len(v) = Len(w), \A i \in 1 .. Len(v) : v[i] = w[i]
    PROVE  v = w
  OBVIOUS

\* What a word grants is granted by every word that grants it.
LEMMA MatchesTransitive ==
    ASSUME NEW a \in Seq(Segments), NEW b \in Seq(Segments), NEW c \in Seq(Segments),
           Len(a) > 1 => ~(a[1] = "*" /\ a[Len(a)] = "*"), Matches(a, b), Matches(b, c)
    PROVE  Matches(a, c)
<1>1. CASE a = <<"*">> \/ a = b \/ b = c
  BY <1>1 DEF Matches
<1>2. CASE b = <<"*">>
  <2>1. Len(b) = 1
    BY <1>2
  <2>2. ~(Len(a) > 1 /\ Len(b) >= Len(a))
    BY <2>1
  <2> QED
    BY <1>1, <2>2 DEF Matches
<1>3. CASE a # <<"*">> /\ a # b /\ b # c /\ b # <<"*">>
  <2> DEFINE m == Len(a)  n == Len(b)  o == Len(c)
  <2>1. m \in Nat /\ n \in Nat /\ o \in Nat /\ m > 1 /\ n >= m /\ n > 1 /\ o >= n
    BY <1>3 DEF Matches
  <2> DEFINE PreA == a[m] = "*" /\ SubSeq(b, 1, m - 1) = SubSeq(a, 1, m - 1)
             SufA == a[1] = "*" /\ SubSeq(b, n - m + 2, n) = SubSeq(a, 2, m)
             PreB == b[n] = "*" /\ SubSeq(c, 1, n - 1) = SubSeq(b, 1, n - 1)
             SufB == b[1] = "*" /\ SubSeq(c, o - n + 2, o) = SubSeq(b, 2, n)
  <2>2. (PreA \/ SufA) /\ (PreB \/ SufB)
    BY <1>3 DEF Matches
  <2>3. ASSUME PreA PROVE \A i \in 1 .. m - 1 : b[i] = a[i]
    <3> SUFFICES ASSUME NEW i \in 1 .. m - 1 PROVE b[i] = a[i]
      OBVIOUS
    <3>1. SubSeq(b, 1, m - 1)[i] = b[i] /\ SubSeq(a, 1, m - 1)[i] = a[i]
      BY <2>1
    <3> QED
      BY <2>3, <3>1
  <2>4. ASSUME SufA PROVE \A i \in 1 .. m - 1 : b[n - m + 1 + i] = a[1 + i]
    <3> SUFFICES ASSUME NEW i \in 1 .. m - 1 PROVE b[n - m + 1 + i] = a[1 + i]
      OBVIOUS
    <3>1. SubSeq(b, n - m + 2, n)[i] = b[n - m + 1 + i]
      BY <2>1
    <3>2. SubSeq(a, 2, m)[i] = a[1 + i]
      BY <2>1
    <3> QED
      BY <2>4, <3>1, <3>2
  <2>5. ASSUME PreB PROVE \A i \in 1 .. n - 1 : c[i] = b[i]
    <3> SUFFICES ASSUME NEW i \in 1 .. n - 1 PROVE c[i] = b[i]
      OBVIOUS
    <3>1. SubSeq(c, 1, n - 1)[i] = c[i] /\ SubSeq(b, 1, n - 1)[i] = b[i]
      BY <2>1
    <3> QED
      BY <2>5, <3>1
  <2>6. ASSUME SufB PROVE \A i \in 1 .. n - 1 : c[o - n + 1 + i] = b[1 + i]
    <3> SUFFICES ASSUME NEW i \in 1 .. n - 1 PROVE c[o - n + 1 + i] = b[1 + i]
      OBVIOUS
    <3>1. SubSeq(c, o - n + 2, o)[i] = c[o - n + 1 + i]
      BY <2>1
    <3>2. SubSeq(b, 2, n)[i] = b[1 + i]
      BY <2>1
    <3> QED
      BY <2>6, <3>1, <3>2
  <2>7. CASE PreA /\ PreB
    <3>1. \A i \in 1 .. m - 1 : c[i] = a[i]
      BY <2>1, <2>3, <2>5, <2>7
    <3>2. SubSeq(c, 1, m - 1) \in Seq(Segments) /\ SubSeq(a, 1, m - 1) \in Seq(Segments)
      BY <2>1
    <3>3. Len(SubSeq(c, 1, m - 1)) = m - 1 /\ Len(SubSeq(a, 1, m - 1)) = m - 1
      BY <2>1
    <3>4. \A i \in 1 .. m - 1 : SubSeq(c, 1, m - 1)[i] = c[i] /\ SubSeq(a, 1, m - 1)[i] = a[i]
      BY <2>1
    <3>5. SubSeq(c, 1, m - 1) = SubSeq(a, 1, m - 1)
      BY <3>1, <3>2, <3>3, <3>4, PointwiseEqual
    <3> QED
      BY <2>1, <2>7, <3>5 DEF Matches
  <2>8. CASE PreA /\ SufB
    <3>1. b[1] = a[1]
      BY <2>1, <2>3, <2>8
    <3> QED
      BY <2>1, <2>8, <3>1
  <2>9. CASE SufA /\ PreB
    <3>1. b[n] = a[m]
      <4>1. m - 1 \in 1 .. m - 1 /\ n - m + 1 + (m - 1) = n /\ 1 + (m - 1) = m
        BY <2>1
      <4> QED
        BY <2>4, <2>9, <4>1
    <3> QED
      BY <2>1, <2>9, <3>1
  <2>10. CASE SufA /\ SufB
    <3>1. \A i \in 1 .. m - 1 : c[o - m + 1 + i] = a[1 + i]
      <4> SUFFICES ASSUME NEW i \in 1 .. m - 1 PROVE c[o - m + 1 + i] = a[1 + i]
        OBVIOUS
      <4>1. n - m + i \in 1 .. n - 1 /\ o - n + 1 + (n - m + i) = o - m + 1 + i /\ 1 + (n - m + i) = n - m + 1 + i
        BY <2>1
      <4>2. c[o - m + 1 + i] = b[n - m + 1 + i]
        BY <2>6, <2>10, <4>1
      <4> QED
        BY <2>4, <2>10, <4>2
    <3>2. SubSeq(c, o - m + 2, o) \in Seq(Segments) /\ SubSeq(a, 2, m) \in Seq(Segments)
      BY <2>1
    <3>3. Len(SubSeq(c, o - m + 2, o)) = m - 1 /\ Len(SubSeq(a, 2, m)) = m - 1
      BY <2>1
    <3>4. \A i \in 1 .. m - 1 : SubSeq(c, o - m + 2, o)[i] = c[o - m + 1 + i] /\ SubSeq(a, 2, m)[i] = a[1 + i]
      BY <2>1
    <3>5. SubSeq(c, o - m + 2, o) = SubSeq(a, 2, m)
      BY <3>1, <3>2, <3>3, <3>4, PointwiseEqual
    <3> QED
      BY <2>1, <2>10, <3>5 DEF Matches
  <2> QED
    BY <2>2, <2>7, <2>8, <2>9, <2>10
<1> QED
  BY <1>1, <1>2, <1>3

LEMMA PlainGrants ==
    ASSUME NEW granted \in SUBSET UNION Lists, OneEnded(granted), NEW w \in Seq(Segments), NEW d \in Seq(Segments),
           Grants(granted, w), Matches(w, d)
    PROVE  Grants(granted, d)
<1>1. PICK g \in granted : Matches(g, w)
  BY DEF Grants
<1>2. g \in Seq(Segments) /\ (Len(g) > 1 => ~(g[1] = "*" /\ g[Len(g)] = "*"))
  <2>1. g \in UNION Lists
    OBVIOUS
  <2>2. g \in Seq(Segments)
    BY <2>1, ListWords
  <2> QED
    BY <2>2, Zenon DEF OneEnded
<1>3. Matches(g, d)
  BY <1>1, <1>2, MatchesTransitive
<1> QED
  BY <1>3 DEF Grants

\* A narrowed list opens what both lists open and no more.
LEMMA NarrowedOpens ==
    ASSUME NEW words \in SUBSET Seq(Segments), NEW granted \in SUBSET UNION Lists
    PROVE  /\ Opens(Narrowed(words, granted)) \subseteq Opens(words)
           /\ OneEnded(granted) => Opens(Narrowed(words, granted)) \subseteq Opens(granted)
<1>1. Opens(Narrowed(words, granted)) \subseteq Opens(words)
  BY DEF Opens, Narrowed, Grants
<1>2. ASSUME OneEnded(granted), NEW d \in Doors, NEW w \in words, Grants(granted, w), Matches(w, d)
      PROVE  Grants(granted, d)
  BY <1>2, ListWords, PlainGrants
<1>3. OneEnded(granted) => Opens(Narrowed(words, granted)) \subseteq Opens(granted)
  BY <1>2 DEF Opens, Narrowed, Grants
<1> QED
  BY <1>1, <1>3

\* The words of a key are granted by the ones lent to it.
Lent(x) == x.lent \in SUBSET UNION Lists /\ (OneEnded(x.lent) => \A w \in x.scopes : Grants(x.lent, w))

KeyRow(x) ==
    DOMAIN x = {"owner", "scopes", "lent", "until", "revoked", "from"} /\ x.scopes \subseteq Seq(Segments) /\ Lent(x)

\* A rotation in flight holds what its key says for good.
RotationOK(q) ==
    q.pc = "rotate" => /\ q.old \in Keys /\ keys[q.old].owner # Unknown /\ KeyRow(q.key)
                       /\ q.key.owner = keys[q.old].owner /\ q.key.scopes = keys[q.old].scopes
                       /\ q.key.until = keys[q.old].until

KeysInv ==
    /\ role \in [Roles -> Lists]
    /\ holds \in [Holders -> SUBSET Roles]
    /\ DOMAIN keys = Keys /\ DOMAIN kreq = KeyRequests
    /\ \A k \in Keys : /\ KeyRow(keys[k])
                       /\ keys[k].owner \in Holders \cup {Unknown}
                       /\ keys[k].from # Unknown => keys[k].from \in Keys /\ keys[keys[k].from].owner # Unknown
    /\ \A r \in KeyRequests : RotationOK(kreq[r])
    /\ HandedOn

\* A key that is there keeps its owner, words, expiry and origin, and stays revoked.
KeyStays(k) ==
    keys[k].owner # Unknown => /\ keys'[k].owner = keys[k].owner /\ keys'[k].scopes = keys[k].scopes
                               /\ keys'[k].until = keys[k].until /\ keys'[k].from = keys[k].from
                               /\ (keys[k].revoked => keys'[k].revoked)

LEMMA NoKeyIsRow == KeyRow(NoKey) /\ NoKey.owner = Unknown /\ NoKey.from = Unknown
  BY DEF NoKey, KeyRow, Lent

LEMMA StillOK == RotationOK(Still) /\ RotationOK(Still)'
  BY DEF Still, RotationOK

\* Keys that stay keep every rotation and every origin true; a new one has to be right.
LEMMA KeysStay ==
    ASSUME KeysInv, DOMAIN keys' = Keys, UNCHANGED <<role, holds>>,
           \A k \in Keys : KeyStays(k) /\ KeyRow(keys'[k]) /\ keys'[k].owner \in Holders \cup {Unknown},
           \A k \in Keys : keys[k].owner = Unknown /\ keys'[k].from # Unknown =>
              LET f == keys'[k].from IN
              /\ f \in Keys /\ keys[f].owner # Unknown /\ keys'[f].revoked
              /\ keys'[k].owner = keys[f].owner /\ keys'[k].scopes = keys[f].scopes /\ keys'[k].until = keys[f].until,
           DOMAIN kreq' = KeyRequests,
           \A r \in KeyRequests : kreq'[r] = kreq[r] \/ RotationOK(kreq'[r])
    PROVE  KeysInv'
<1>1. ASSUME NEW k \in Keys, keys'[k].from # Unknown
      PROVE  LET f == keys'[k].from IN
             /\ f \in Keys /\ keys'[f].owner # Unknown /\ keys'[f].revoked
             /\ keys'[k].owner = keys'[f].owner /\ keys'[k].scopes = keys'[f].scopes /\ keys'[k].until = keys'[f].until
  <2>1. CASE keys[k].owner = Unknown
    BY <1>1, <2>1 DEF KeyStays
  <2>2. CASE keys[k].owner # Unknown
    <3>1. keys'[k].from = keys[k].from /\ keys[k].from \in Keys /\ keys[keys[k].from].owner # Unknown
      BY <1>1, <2>2 DEF KeyStays, KeysInv
    <3>2. KeyStays(k) /\ KeyStays(keys[k].from)
      BY <3>1
    <3> QED
      BY <1>1, <2>2, <3>1, <3>2 DEF KeyStays, KeysInv, HandedOn
  <2> QED
    BY <2>1, <2>2
<1>2. ASSUME NEW r \in KeyRequests PROVE RotationOK(kreq[r])'
  <2>1. RotationOK(kreq'[r])
    BY DEF KeysInv
  <2> QED
    BY <2>1 DEF RotationOK, KeyStays
<1>3. HandedOn'
  BY <1>1 DEF HandedOn
<1>4. \A k \in Keys : KeyRow(keys[k])'
  BY DEF KeyRow, Lent, OneEnded, Grants, Matches
<1> QED
  BY <1>1, <1>2, <1>3, <1>4 DEF KeysInv

LEMMA RoleWordsListed == ASSUME KeysInv, NEW u \in Holders PROVE RoleWords(u) \subseteq UNION Lists
<1> SUFFICES ASSUME NEW x \in holds[u] PROVE role[x] \in Lists
  BY DEF RoleWords
<1> QED
  BY DEF KeysInv

\* What the words of a key grant is granted by the words lent to it.
LEMMA LentReaches ==
    ASSUME NEW x, KeyRow(x), OneEnded(x.lent), NEW w \in x.scopes, NEW d \in Seq(Segments), Matches(w, d)
    PROVE  Grants(x.lent, d)
<1>1. w \in Seq(Segments) /\ Grants(x.lent, w) /\ x.lent \in SUBSET UNION Lists
  BY DEF KeyRow, Lent
<1> QED
  BY <1>1, PlainGrants

LEMMA IssueKeeps ==
    ASSUME KeysInv, NEW u \in Holders, NEW k \in Keys, NEW caller \in Keys \cup {Unknown}, NEW answered \in BOOLEAN,
           NEW asked \in Lists \cup {{}}, NEW days, IssueKey(u, k, caller, answered, asked, days)
    PROVE  KeysInv'
<1> DEFINE mine == IF caller = Unknown THEN RoleWords(u) ELSE KeyWords(caller, answered)
<1>1. PICK scopes, lent :
         /\ scopes = IF asked = {} THEN Reading(mine) ELSE asked
         /\ lent = IF caller = Unknown THEN RoleWords(u) ELSE keys[caller].lent
         /\ \A w \in scopes : Grants(mine, w)
         /\ keys' = [keys EXCEPT ![k] = [NoKey EXCEPT !.owner = u, !.scopes = scopes, !.lent = lent, !.until = day + days]]
  BY DEF IssueKey
<1>2. mine \subseteq Seq(Segments) /\ lent \in SUBSET UNION Lists
  <2>1. CASE caller = Unknown
    BY <1>1, <2>1, RoleWordsListed, ListWords
  <2>2. CASE caller # Unknown
    BY <1>1, <2>2 DEF KeyWords, Narrowed, KeysInv, KeyRow, Lent
  <2> QED
    BY <2>1, <2>2
<1>3. scopes \subseteq Seq(Segments)
  <2> HIDE DEF mine
  <2>1. CASE asked = {}
    <3>1. <<"*", "read">> \in Seq(Segments)
      BY DEF Segments
    <3> QED
      BY <1>1, <1>2, <2>1, <3>1 DEF Reading
  <2>2. CASE asked # {}
    BY <1>1, <2>2, ListWords
  <2> QED
    BY <2>1, <2>2
<1>11. ASSUME OneEnded(lent), NEW d \in scopes PROVE Grants(lent, d)
  <2>1. CASE caller = Unknown
    BY <1>1, <2>1
  <2>2. CASE caller # Unknown
    <3>1. KeyRow(keys[caller]) /\ lent = keys[caller].lent /\ mine \subseteq keys[caller].scopes
      BY <1>1, <2>2 DEF KeysInv, KeyWords, Narrowed
    <3>2. PICK w \in mine : Matches(w, d)
      BY <1>1 DEF Grants
    <3> QED
      BY <1>3, <1>11, <3>1, <3>2, LentReaches
  <2> QED
    BY <2>1, <2>2
<1> HIDE DEF mine
<1>4. PICK row : row = [NoKey EXCEPT !.owner = u, !.scopes = scopes, !.lent = lent, !.until = day + days]
  OBVIOUS
<1>5. DOMAIN row = {"owner", "scopes", "lent", "until", "revoked", "from"} /\ row.scopes = scopes
      /\ row.lent = lent /\ row.owner = u /\ row.from = Unknown
  BY <1>4 DEF NoKey
<1>6. DOMAIN keys' = Keys /\ keys'[k] = row /\ \A j \in Keys \ {k} : keys'[j] = keys[j]
  BY <1>1, <1>4 DEF KeysInv
<1>7. keys[k].owner = Unknown
  BY NoKeyIsRow DEF IssueKey
<1>12. KeyRow(row)
  BY <1>2, <1>3, <1>5, <1>11 DEF KeyRow, Lent
<1>8. \A j \in Keys : KeyStays(j) /\ KeyRow(keys'[j]) /\ keys'[j].owner \in Holders \cup {Unknown}
  BY <1>5, <1>6, <1>7, <1>12 DEF KeyStays, KeysInv
<1>9. \A j \in Keys : keys[j].owner = Unknown => keys'[j].from = Unknown
  BY <1>5, <1>6 DEF KeysInv, HandedOn
<1>10. UNCHANGED <<role, holds, kreq>>
  BY DEF IssueKey
<1> QED
  BY <1>6, <1>8, <1>9, <1>10, KeysStay DEF KeysInv

LEMMA KeysInvNext == KeysInv /\ [KeysNext]_keyVars => KeysInv'
<1> SUFFICES ASSUME KeysInv, [KeysNext]_keyVars PROVE KeysInv'
  OBVIOUS
<1>1. ASSUME NEW x \in Roles, NEW words \in Lists, WriteRole(x, words) PROVE KeysInv'
  <2>1. role' \in [Roles -> Lists] /\ UNCHANGED <<holds, keys, kreq>>
    BY <1>1 DEF WriteRole, KeysInv
  <2> QED
    BY <2>1 DEF KeysInv, KeyRow, RotationOK, HandedOn
<1>2. ASSUME NEW u \in Holders, NEW roles \in SUBSET Roles, GiveRoles(u, roles) PROVE KeysInv'
  <2>1. holds' \in [Holders -> SUBSET Roles] /\ UNCHANGED <<role, keys, kreq>>
    BY <1>2 DEF GiveRoles, KeysInv
  <2> QED
    BY <2>1 DEF KeysInv, KeyRow, RotationOK, HandedOn
<1>3. ASSUME UNCHANGED <<role, holds, keys>>, DOMAIN kreq' = KeyRequests,
             \A r \in KeyRequests : kreq'[r] = kreq[r] \/ RotationOK(kreq'[r])
      PROVE  KeysInv'
  BY <1>3, KeysStay DEF KeysInv, KeyStays, HandedOn
<1>4. ASSUME NEW r \in KeyRequests, NEW k \in Keys, RotateRead(r, k) PROVE KeysInv'
  <2> DEFINE q == [pc |-> "rotate", key |-> keys[k], old |-> k]
  <2>1. RotationOK(q)
    BY <1>4 DEF RotateRead, RotationOK, KeysInv
  <2>2. DOMAIN kreq' = KeyRequests /\ kreq'[r] = q /\ \A o \in KeyRequests \ {r} : kreq'[o] = kreq[o]
    BY <1>4 DEF RotateRead, Turns, KeysInv
  <2> QED
    BY <1>3, <1>4, <2>1, <2>2 DEF RotateRead
<1>5. ASSUME NEW r \in KeyRequests, RotateFails(r) PROVE KeysInv'
  <2>1. DOMAIN kreq' = KeyRequests /\ kreq'[r] = Still /\ \A o \in KeyRequests \ {r} : kreq'[o] = kreq[o]
    BY <1>5 DEF RotateFails, Turns, KeysInv
  <2> QED
    BY <1>3, <1>5, <2>1, StillOK DEF RotateFails
<1>6. ASSUME NEW r \in KeyRequests, NEW k \in Keys, RotateCommit(r, k) PROVE KeysInv'
  <2>1. PICK q : q = kreq[r] /\ q.pc = "rotate" /\ RotationOK(q)
    BY <1>6 DEF RotateCommit, KeysInv
  <2>2. keys[k].owner = Unknown /\ q.old \in Keys /\ q.old # k /\ KeyRow(q.key)
    BY <1>6, <2>1, NoKeyIsRow DEF RotateCommit, RotationOK
  <2>3. PICK row : row = [q.key EXCEPT !.from = q.old]
    OBVIOUS
  <2>4. /\ DOMAIN row = {"owner", "scopes", "lent", "until", "revoked", "from"} /\ row.scopes = q.key.scopes
        /\ row.lent = q.key.lent /\ row.owner = q.key.owner /\ row.until = q.key.until /\ row.from = q.old
    BY <2>2, <2>3 DEF KeyRow
  <2>5. PICK dead : dead = [keys[q.old] EXCEPT !.revoked = TRUE]
    OBVIOUS
  <2>6. /\ DOMAIN dead = {"owner", "scopes", "lent", "until", "revoked", "from"} /\ dead.scopes = keys[q.old].scopes
        /\ dead.lent = keys[q.old].lent /\ dead.owner = keys[q.old].owner /\ dead.until = keys[q.old].until /\ dead.from = keys[q.old].from /\ dead.revoked
    BY <2>2, <2>5 DEF KeyRow, KeysInv
  <2>7. keys' = [keys EXCEPT ![q.old].revoked = TRUE, ![k] = row]
    BY <1>6, <2>1, <2>3 DEF RotateCommit, Successor
  <2>8. DOMAIN keys' = Keys /\ keys'[k] = row /\ keys'[q.old] = dead /\ \A j \in Keys \ {k, q.old} : keys'[j] = keys[j]
    BY <2>2, <2>5, <2>7 DEF KeysInv
  <2>9. ASSUME NEW j \in Keys
        PROVE  KeyStays(j) /\ KeyRow(keys'[j]) /\ keys'[j].owner \in Holders \cup {Unknown}
    <3>1. CASE j = k
      BY <2>1, <2>2, <2>4, <2>8, <3>1 DEF KeyStays, KeyRow, Lent, RotationOK, KeysInv
    <3>2. CASE j = q.old
      BY <2>2, <2>6, <2>8, <3>2 DEF KeyStays, KeyRow, Lent, KeysInv
    <3>3. CASE j \notin {k, q.old}
      BY <2>8, <3>3 DEF KeyStays, KeysInv
    <3> QED
      BY <3>1, <3>2, <3>3
  <2>10. ASSUME NEW j \in Keys, keys[j].owner = Unknown, keys'[j].from # Unknown
         PROVE  LET f == keys'[j].from IN
                /\ f \in Keys /\ keys[f].owner # Unknown /\ keys'[f].revoked
                /\ keys'[j].owner = keys[f].owner /\ keys'[j].scopes = keys[f].scopes /\ keys'[j].until = keys[f].until
    <3>1. j # q.old
      BY <2>1, <2>10 DEF RotationOK
    <3>2. CASE j = k
      BY <2>1, <2>2, <2>4, <2>6, <2>8, <3>2 DEF RotationOK
    <3>3. CASE j # k
      <4>1. keys[j].from # Unknown
        BY <2>8, <2>10, <3>1, <3>3
      <4> QED
        BY <2>10, <4>1 DEF KeysInv, HandedOn
    <3> QED
      BY <3>2, <3>3
  <2>11. DOMAIN kreq' = KeyRequests /\ kreq'[r] = Still /\ \A o \in KeyRequests \ {r} : kreq'[o] = kreq[o]
    BY <1>6 DEF RotateCommit, Turns, KeysInv
  <2>12. UNCHANGED <<role, holds>>
    BY <1>6 DEF RotateCommit
  <2> QED
    BY <2>8, <2>9, <2>10, <2>11, <2>12, StillOK, KeysStay
<1>7. ASSUME NEW k \in Keys, RevokeKey(k) PROVE KeysInv'
  <2>1. PICK dead : dead = [keys[k] EXCEPT !.revoked = TRUE]
    OBVIOUS
  <2>2. /\ DOMAIN dead = {"owner", "scopes", "lent", "until", "revoked", "from"} /\ dead.scopes = keys[k].scopes
        /\ dead.lent = keys[k].lent /\ dead.owner = keys[k].owner /\ dead.until = keys[k].until /\ dead.from = keys[k].from /\ dead.revoked
    BY <2>1 DEF KeyRow, KeysInv
  <2>3. DOMAIN keys' = Keys /\ keys'[k] = dead /\ \A j \in Keys \ {k} : keys'[j] = keys[j]
    BY <1>7, <2>1 DEF RevokeKey, KeysInv
  <2>4. \A j \in Keys : KeyStays(j) /\ KeyRow(keys'[j]) /\ keys'[j].owner \in Holders \cup {Unknown}
    BY <2>2, <2>3 DEF KeyStays, KeyRow, Lent, KeysInv
  <2>5. \A j \in Keys : keys[j].owner = Unknown => keys'[j].from = Unknown
    <3>1. keys[k].owner # Unknown
      BY <1>7 DEF RevokeKey
    <3> QED
      BY <2>3, <3>1 DEF KeysInv, HandedOn
  <2> QED
    BY <1>7, <2>3, <2>4, <2>5, KeysStay DEF RevokeKey, KeysInv
<1>8. CASE NextDay \/ UNCHANGED keyVars
  BY <1>3, <1>8 DEF NextDay, keyVars, KeysInv
<1> QED
  BY <1>1, <1>2, <1>4, <1>5, <1>6, <1>7, <1>8, IssueKeeps DEF KeysNext

LEMMA KeysInvInit == KeysInit => KeysInv
  BY NoKeyIsRow, StillOK DEF KeysInit, KeysInv, HandedOn

\* Credentials: whatever races, the successor of a key is what the key was.
THEOREM RotationHandsOn == KeysSpec => []HandedOn
<1>1. KeysInv => HandedOn
  BY DEF KeysInv
<1> QED
  BY <1>1, KeysInvInit, KeysInvNext, PTL DEF KeysSpec

\* Credentials: no key and no token opens a door that the roles of its holder do not open
\* today, and while they cannot be read, none that its key was not lent, for all lists of
\* words; the roles, or the words lent, hold no word with a wildcard at both ends.
THEOREM RolesBound == KeysSpec => []WithinRoles
<1>1. KeysInv => WithinRoles
  <2> SUFFICES ASSUME KeysInv PROVE WithinRoles
    OBVIOUS
  <2>1. ASSUME NEW k \in Keys, keys[k].owner # Unknown
        PROVE  /\ OneEnded(RoleWords(keys[k].owner)) => Opens(KeyWords(k, TRUE)) \subseteq Opens(RoleWords(keys[k].owner))
               /\ OneEnded(keys[k].lent) => Opens(KeyWords(k, FALSE)) \subseteq Opens(keys[k].lent)
    <3>1. keys[k].scopes \in SUBSET Seq(Segments) /\ keys[k].owner \in Holders /\ KeyRow(keys[k])
      BY <2>1 DEF KeysInv, KeyRow
    <3>2. OneEnded(RoleWords(keys[k].owner)) => Opens(KeyWords(k, TRUE)) \subseteq Opens(RoleWords(keys[k].owner))
      BY <3>1, RoleWordsListed, NarrowedOpens DEF KeyWords
    <3>3. ASSUME OneEnded(keys[k].lent), NEW d \in Doors, NEW w \in keys[k].scopes, Matches(w, d)
          PROVE  Grants(keys[k].lent, d)
      BY <3>1, <3>3, ListWords, LentReaches
    <3>4. OneEnded(keys[k].lent) => Opens(KeyWords(k, FALSE)) \subseteq Opens(keys[k].lent)
      BY <3>3 DEF KeyWords, Opens, Grants
    <3> QED
      BY <3>2, <3>4
  <2>2. WithinScopes
    <3> SUFFICES ASSUME NEW configured \in Lists, NEW claimed \in Lists
                 PROVE  LET doors == Opens(TokenScopes[configured][claimed]) IN
                        /\ doors \subseteq Opens(configured)
                        /\ OneEnded(claimed) /\ (\E w \in claimed : OpensSomething(w)) => doors \subseteq Opens(claimed)
      BY DEF WithinScopes
    <3> DEFINE known == {w \in claimed : OpensSomething(w)}
    <3>1. configured \in SUBSET Seq(Segments) /\ known \in SUBSET UNION Lists
      BY ListWords
    <3>2. TokenScopes[configured][claimed] = IF known = {} THEN configured ELSE Narrowed(configured, known)
      BY DEF TokenScopes
    <3>3. /\ Opens(Narrowed(configured, known)) \subseteq Opens(configured)
          /\ OneEnded(known) => Opens(Narrowed(configured, known)) \subseteq Opens(known)
      BY <3>1, NarrowedOpens
    <3>4. known \subseteq claimed /\ ((\E w \in claimed : OpensSomething(w)) => known # {})
      OBVIOUS
    <3> HIDE DEF known
    <3>5. OneEnded(claimed) => OneEnded(known)
      BY <3>4, Zenon DEF OneEnded
    <3>6. Opens(known) \subseteq Opens(claimed)
      BY <3>4 DEF Opens, Grants
    <3> QED
      BY <3>2, <3>3, <3>4, <3>5, <3>6
  <2>3. ASSUME NEW u \in Holders, NEW configured \in Lists, NEW claimed \in Lists
        PROVE  LET doors == Opens(TokenWords(configured, claimed, u, TRUE)) IN
               /\ doors \subseteq Opens(TokenWords(configured, claimed, u, FALSE))
               /\ OneEnded(RoleWords(u)) => doors \subseteq Opens(RoleWords(u))
    <3>1. PICK scopes : scopes = TokenScopes[configured][claimed]
      OBVIOUS
    <3>2. RoleWords(u) \in SUBSET UNION Lists /\ scopes \in SUBSET Seq(Segments)
      BY <3>1, RoleWordsListed, ListWords DEF TokenScopes, Narrowed
    <3>3. /\ TokenWords(configured, claimed, u, TRUE) = Narrowed(scopes, RoleWords(u))
          /\ TokenWords(configured, claimed, u, FALSE) = scopes
      BY <3>1 DEF TokenWords
    <3> QED
      BY <3>2, <3>3, NarrowedOpens
  <2>4. \A k \in Keys : keys[k].owner # Unknown =>
           LET mine == RoleWords(keys[k].owner) IN
           /\ OneEnded(mine) => Opens(KeyWords(k, TRUE)) \subseteq Opens(mine)
           /\ OneEnded(keys[k].lent) => Opens(KeyWords(k, FALSE)) \subseteq Opens(keys[k].lent)
    BY <2>1
  <2> QED
    BY <2>2, <2>3, <2>4 DEF WithinRoles
<1> QED
  BY <1>1, KeysInvInit, KeysInvNext, PTL DEF KeysSpec

(***************************************************************************)
(* SingleSignOn: wherever a sign-in stands, the address it will be held    *)
(* against is one the provider was trusted to show.                        *)
(***************************************************************************)
Shown(u, sub) == u \in Members /\ member[u].mail # Nil /\ <<sub, member[u].mail>> \in shown

SignInOK(q) ==
    /\ DOMAIN q = {"pc", "claims", "set", "user"}
    /\ q.pc # "idle" => /\ q.claims \in Claims
                        /\ EmailTrusted(q.set, FALSE, q.claims.verified) => <<q.claims.sub, q.claims.mail>> \in shown
    /\ q.pc \in {"mail", "provision"} => <<q.claims.sub, q.claims.mail>> \in shown
    /\ q.pc \in {"link", "session"} => Shown(q.user, q.claims.sub)

MemberOK(u) ==
    /\ DOMAIN member[u] = {"mail", "subject", "enabled"}
    /\ member[u].mail # Nil /\ member[u].subject # Nil => Shown(u, member[u].subject)

SsoInv ==
    /\ DOMAIN member = Members /\ DOMAIN callback = SsoRequests
    /\ \A u \in Members : MemberOK(u)
    /\ \A r \in SsoRequests : SignInOK(callback[r])
    /\ \A s \in opened : Shown(s[1], s[2])

LEMMA WaitingOK == SignInOK(Waiting)
  BY DEF Waiting, SignInOK

\* Addresses on file and what was shown stay; what is new has to be right.
LEMMA SsoStep ==
    ASSUME SsoInv, DOMAIN member' = Members, DOMAIN callback' = SsoRequests, shown \subseteq shown',
           \A u \in Members : member[u].mail # Nil => member'[u].mail = member[u].mail,
           \A u \in Members : member'[u] = member[u] \/ MemberOK(u)',
           \A r \in SsoRequests : callback'[r] = callback[r] \/ SignInOK(callback[r])',
           \A s \in opened' : s \in opened \/ Shown(s[1], s[2])'
    PROVE  SsoInv'
<1>1. \A u, sub : Shown(u, sub) => Shown(u, sub)'
  BY DEF Shown
<1>2. ASSUME NEW u \in Members PROVE MemberOK(u)'
  BY <1>1 DEF SsoInv, MemberOK
<1>3. ASSUME NEW r \in SsoRequests, callback'[r] = callback[r] PROVE SignInOK(callback[r])'
  <2>1. SignInOK(callback[r])
    BY DEF SsoInv
  <2> QED
    BY <1>1, <1>3, <2>1 DEF SignInOK, Shown
<1>4. \A s \in opened' : Shown(s[1], s[2])'
  BY <1>1 DEF SsoInv
<1> QED
  BY <1>2, <1>3, <1>4 DEF SsoInv

\* A sign-in moves on and nothing else.
LEMMA SignInMoves ==
    ASSUME SsoInv, NEW r \in SsoRequests, NEW q, SignInOK(q), Proceeds(r, q), UNCHANGED <<member, opened, shown>>
    PROVE  SsoInv'
<1>1. DOMAIN callback' = SsoRequests /\ \A o \in SsoRequests : callback'[o] \in {q, callback[o]}
  BY DEF SsoInv, Proceeds
<1>2. SignInOK(q)'
  BY DEF SignInOK, Shown
<1> QED
  BY <1>1, <1>2, SsoStep DEF SsoInv, SignInOK, Shown

\* The record of a sign-in whose phase, and perhaps account, is set anew.
LEMMA NextPhase ==
    ASSUME NEW q, DOMAIN q = {"pc", "claims", "set", "user"}, NEW p, NEW u
    PROVE  /\ DOMAIN [q EXCEPT !.pc = p] = DOMAIN q /\ [q EXCEPT !.pc = p].pc = p
           /\ [q EXCEPT !.pc = p].claims = q.claims /\ [q EXCEPT !.pc = p].set = q.set /\ [q EXCEPT !.pc = p].user = q.user
           /\ DOMAIN [q EXCEPT !.pc = p, !.user = u] = DOMAIN q /\ [q EXCEPT !.pc = p, !.user = u].pc = p
           /\ [q EXCEPT !.pc = p, !.user = u].claims = q.claims /\ [q EXCEPT !.pc = p, !.user = u].set = q.set
           /\ [q EXCEPT !.pc = p, !.user = u].user = u
  OBVIOUS

LEMMA CallbackKeeps ==
    ASSUME SsoInv, NEW r \in SsoRequests, NEW f, NEW told \in Told, Callback(r, f, told)
    PROVE  SsoInv'
<1> DEFINE claims == Taken(told)
<1>0. claims \in Claims
  BY DEF Callback, Taken, Told, Claims
<1>1. PICK q : q = [Waiting EXCEPT !.pc = "subject", !.claims = claims, !.set = sso]
  OBVIOUS
<1>2. DOMAIN q = {"pc", "claims", "set", "user"} /\ q.pc = "subject" /\ q.claims = claims /\ q.set = sso
  BY <1>1 DEF Waiting
<1>3. Proceeds(r, q) /\ UNCHANGED <<member, opened>> /\ shown \subseteq shown'
  BY <1>1 DEF Callback
<1>4. EmailTrusted(sso, FALSE, claims.verified) => <<claims.sub, claims.mail>> \in shown'
  BY DEF Callback, EmailTrusted
<1>5. SignInOK(q)'
  BY <1>0, <1>2, <1>4 DEF SignInOK, EmailTrusted
<1>6. DOMAIN callback' = SsoRequests /\ callback'[r] = q /\ \A o \in SsoRequests \ {r} : callback'[o] = callback[o]
  BY <1>3 DEF SsoInv, Proceeds
<1>7. SignInOK(callback[r])'
  BY <1>5, <1>6 DEF SignInOK, Shown
<1> QED
  BY <1>3, <1>6, <1>7, SsoStep DEF SsoInv

LEMMA FindSubjectKeeps ==
    ASSUME SsoInv, NEW r \in SsoRequests, NEW ok \in BOOLEAN, FindBySubject(r, ok)
    PROVE  SsoInv'
<1>1. PICK q : q = callback[r] /\ SignInOK(q) /\ q.pc = "subject"
  BY DEF SsoInv, FindBySubject
<1>2. UNCHANGED <<member, opened, shown>>
  BY DEF FindBySubject
<1>3. ASSUME NEW u \in LinkedTo(q.claims.sub), Proceeds(r, [q EXCEPT !.pc = "link", !.user = u]) PROVE SsoInv'
  <2>1. PICK next : next = [q EXCEPT !.pc = "link", !.user = u]
    OBVIOUS
  <2>2. /\ DOMAIN next = {"pc", "claims", "set", "user"} /\ next.pc = "link" /\ next.claims = q.claims
        /\ next.set = q.set /\ next.user = u
    BY <1>1, <2>1, NextPhase DEF SignInOK
  <2>3. Shown(u, q.claims.sub)
    <3>1. u \in Members /\ member[u].mail # Nil /\ member[u].subject = q.claims.sub
      BY <1>3 DEF LinkedTo
    <3>2. q.claims.sub # Nil
      BY <1>1, SsoAssumption DEF SignInOK, Claims
    <3> QED
      BY <3>1, <3>2 DEF SsoInv, MemberOK
  <2>4. SignInOK(next)
    BY <1>1, <2>2, <2>3 DEF SignInOK
  <2> QED
    BY <1>2, <1>3, <2>1, <2>4, SignInMoves
<1>4. ASSUME EmailTrusted(q.set, FALSE, q.claims.verified), Proceeds(r, [q EXCEPT !.pc = "mail"]) PROVE SsoInv'
  <2>1. PICK next : next = [q EXCEPT !.pc = "mail"]
    OBVIOUS
  <2>2. /\ DOMAIN next = {"pc", "claims", "set", "user"} /\ next.pc = "mail" /\ next.claims = q.claims /\ next.set = q.set
    BY <1>1, <2>1, NextPhase DEF SignInOK
  <2>3. SignInOK(next)
    BY <1>1, <1>4, <2>2 DEF SignInOK
  <2> QED
    BY <1>2, <1>4, <2>1, <2>3, SignInMoves
<1>5. ASSUME Answered(r) PROVE SsoInv'
  BY <1>2, <1>5, WaitingOK, SignInMoves DEF Answered
<1> QED
  BY <1>1, <1>3, <1>4, <1>5 DEF FindBySubject

LEMMA FindMailKeeps ==
    ASSUME SsoInv, NEW r \in SsoRequests, NEW ok \in BOOLEAN, FindByMail(r, ok)
    PROVE  SsoInv'
<1>1. PICK q : q = callback[r] /\ SignInOK(q) /\ q.pc = "mail"
  BY DEF SsoInv, FindByMail
<1>2. UNCHANGED <<member, opened, shown>>
  BY DEF FindByMail
<1>3. ASSUME NEW u \in WithMail(q.claims.mail), Proceeds(r, [q EXCEPT !.pc = "link", !.user = u]) PROVE SsoInv'
  <2>1. PICK next : next = [q EXCEPT !.pc = "link", !.user = u]
    OBVIOUS
  <2>2. /\ DOMAIN next = {"pc", "claims", "set", "user"} /\ next.pc = "link" /\ next.claims = q.claims
        /\ next.set = q.set /\ next.user = u
    BY <1>1, <2>1, NextPhase DEF SignInOK
  <2>3. Shown(u, q.claims.sub)
    BY <1>1, <1>3, SsoAssumption DEF WithMail, SignInOK, Claims, Shown
  <2>4. SignInOK(next)
    BY <1>1, <2>2, <2>3 DEF SignInOK
  <2> QED
    BY <1>2, <1>3, <2>1, <2>4, SignInMoves
<1>4. ASSUME Proceeds(r, [q EXCEPT !.pc = "provision"]) PROVE SsoInv'
  <2>1. PICK next : next = [q EXCEPT !.pc = "provision"]
    OBVIOUS
  <2>2. /\ DOMAIN next = {"pc", "claims", "set", "user"} /\ next.pc = "provision" /\ next.claims = q.claims
        /\ next.set = q.set
    BY <1>1, <2>1, NextPhase DEF SignInOK
  <2>3. SignInOK(next)
    BY <1>1, <2>2 DEF SignInOK
  <2> QED
    BY <1>2, <1>4, <2>1, <2>3, SignInMoves
<1>5. ASSUME Answered(r) PROVE SsoInv'
  BY <1>2, <1>5, WaitingOK, SignInMoves DEF Answered
<1> QED
  BY <1>1, <1>3, <1>4, <1>5 DEF FindByMail

\* A sign-in reaches an account, and gives it its subject or finds it has one.
LEMMA Reaches ==
    ASSUME SsoInv, NEW r \in SsoRequests, NEW u \in Members, NEW row,
           DOMAIN row = {"mail", "subject", "enabled"}, row.mail # Nil,
           member[u].mail # Nil => row.mail = member[u].mail,
           row.subject \in {member[u].subject, callback[r].claims.sub}, member[u].mail = Nil => row.subject = callback[r].claims.sub,
           <<callback[r].claims.sub, row.mail>> \in shown, callback[r].pc # "idle",
           member' = [member EXCEPT ![u] = row], UNCHANGED <<opened, shown>>,
           NEW next, next.pc = "session", next.user = u, next.claims = callback[r].claims, next.set = callback[r].set,
           DOMAIN next = {"pc", "claims", "set", "user"}, Proceeds(r, next)
    PROVE  SsoInv'
<1>1. DOMAIN member' = Members /\ member'[u] = row /\ \A o \in Members \ {u} : member'[o] = member[o]
  BY DEF SsoInv
<1>2. DOMAIN callback' = SsoRequests /\ callback'[r] = next /\ \A o \in SsoRequests \ {r} : callback'[o] = callback[o]
  BY DEF SsoInv, Proceeds
<1>3. MemberOK(u)'
  BY <1>1 DEF SsoInv, MemberOK, Shown
<1>4. SignInOK(callback[r])
  BY DEF SsoInv
<1>5. SignInOK(callback[r])'
  BY <1>1, <1>2, <1>4 DEF SignInOK, Shown, EmailTrusted
<1> QED
  BY <1>1, <1>2, <1>3, <1>5, SsoStep

LEMMA ProvisionKeeps ==
    ASSUME SsoInv, NEW r \in SsoRequests, Provision(r)
    PROVE  SsoInv'
<1>1. PICK q : q = callback[r] /\ SignInOK(q) /\ q.pc = "provision"
  BY DEF SsoInv, Provision
<1>2. PICK u \in Members :
         /\ IF WithMail(q.claims.mail) = {} THEN member[u] = NoMember ELSE u \in WithMail(q.claims.mail)
         /\ IF SubjectFree(q.claims.sub, u)
              THEN /\ member' = [member EXCEPT ![u] =
                        IF member[u] = NoMember THEN [mail |-> q.claims.mail, subject |-> q.claims.sub, enabled |-> TRUE]
                                                ELSE [@ EXCEPT !.subject = q.claims.sub]]
                   /\ Proceeds(r, [q EXCEPT !.pc = "session", !.user = u])
              ELSE Answered(r) /\ UNCHANGED member
  BY <1>1 DEF Provision
<1>3. UNCHANGED <<opened, shown>>
  BY DEF Provision
<1>4. q.claims.mail # Nil /\ <<q.claims.sub, q.claims.mail>> \in shown
  BY <1>1, SsoAssumption DEF SignInOK, Claims
<1>5. CASE SubjectFree(q.claims.sub, u)
  <2>1. PICK row : row = IF member[u] = NoMember THEN [mail |-> q.claims.mail, subject |-> q.claims.sub, enabled |-> TRUE]
                                                 ELSE [member[u] EXCEPT !.subject = q.claims.sub]
    OBVIOUS
  <2>2. member' = [member EXCEPT ![u] = row]
    BY <1>2, <1>5, <2>1
  <2>3. DOMAIN row = {"mail", "subject", "enabled"} /\ row.subject = q.claims.sub
    BY <2>1 DEF SsoInv, MemberOK
  <2>4. row.mail = q.claims.mail
    <3>1. CASE member[u] = NoMember
      BY <2>1, <3>1
    <3>2. CASE member[u] # NoMember
      <4>1. member[u].mail = q.claims.mail
        BY <1>2, <3>2 DEF WithMail
      <4> QED
        BY <2>1, <3>2, <4>1 DEF SsoInv, MemberOK
    <3> QED
      BY <3>1, <3>2
  <2>5. member[u].mail # Nil => member[u].mail = q.claims.mail
    BY <1>2 DEF WithMail, NoMember
  <2>6. PICK next : next = [q EXCEPT !.pc = "session", !.user = u]
    OBVIOUS
  <2>7. /\ DOMAIN next = {"pc", "claims", "set", "user"} /\ next.pc = "session" /\ next.claims = q.claims
        /\ next.set = q.set /\ next.user = u
    BY <1>1, <2>6, NextPhase DEF SignInOK
  <2>8. Proceeds(r, next)
    BY <1>2, <1>5, <2>6
  <2> QED
    BY <1>1, <1>3, <1>4, <2>2, <2>3, <2>4, <2>5, <2>7, <2>8, Reaches
<1>6. CASE ~SubjectFree(q.claims.sub, u)
  BY <1>2, <1>3, <1>6, WaitingOK, SignInMoves DEF Answered
<1> QED
  BY <1>5, <1>6

LEMMA LinkKeeps ==
    ASSUME SsoInv, NEW r \in SsoRequests, NEW ok \in BOOLEAN, LinkSubject(r, ok)
    PROVE  SsoInv'
<1>1. PICK q : q = callback[r] /\ SignInOK(q) /\ q.pc = "link"
  BY DEF SsoInv, LinkSubject
<1>2. Shown(q.user, q.claims.sub)
  BY <1>1 DEF SignInOK
<1>3. PICK next : next = [q EXCEPT !.pc = "session"]
  OBVIOUS
<1>4. /\ DOMAIN next = {"pc", "claims", "set", "user"} /\ next.pc = "session" /\ next.claims = q.claims
      /\ next.set = q.set /\ next.user = q.user
  BY <1>1, <1>3, NextPhase DEF SignInOK
<1>5. Proceeds(r, next) /\ UNCHANGED <<opened, shown>>
  BY <1>1, <1>3 DEF LinkSubject
<1>6. CASE ok /\ SubjectFree(Linked(q.user, q.claims.sub), q.user)
  <2>1. PICK row : row = [member[q.user] EXCEPT !.subject = Linked(q.user, q.claims.sub)]
    OBVIOUS
  <2>2. member' = [member EXCEPT ![q.user] = row]
    BY <1>1, <1>6, <2>1 DEF LinkSubject
  <2>3. /\ DOMAIN row = {"mail", "subject", "enabled"} /\ row.mail = member[q.user].mail
        /\ row.subject \in {member[q.user].subject, q.claims.sub}
    BY <1>2, <2>1 DEF SsoInv, MemberOK, Shown, Linked
  <2> QED
    BY <1>1, <1>2, <1>4, <1>5, <2>2, <2>3, Reaches DEF Shown
<1>7. CASE ~(ok /\ SubjectFree(Linked(q.user, q.claims.sub), q.user))
  <2>1. member' = member
    BY <1>1, <1>7 DEF LinkSubject
  <2>2. SignInOK(next)
    BY <1>1, <1>2, <1>4 DEF SignInOK
  <2> QED
    BY <1>5, <2>1, <2>2, SignInMoves
<1> QED
  BY <1>6, <1>7

LEMMA SessionKeeps ==
    ASSUME SsoInv, NEW r \in SsoRequests, OpenSsoSession(r)
    PROVE  SsoInv'
<1>1. PICK q : q = callback[r] /\ SignInOK(q) /\ q.pc = "session"
  BY DEF SsoInv, OpenSsoSession
<1>2. opened' = opened \cup {<<q.user, q.claims.sub>>} /\ UNCHANGED <<member, shown>> /\ Proceeds(r, Waiting)
  BY <1>1 DEF OpenSsoSession, Answered
<1>3. \A s \in opened' : s \in opened \/ Shown(s[1], s[2])'
  BY <1>1, <1>2 DEF SignInOK, Shown
<1>4. DOMAIN callback' = SsoRequests /\ \A o \in SsoRequests : callback'[o] \in {Waiting, callback[o]}
  BY <1>2 DEF SsoInv, Proceeds
<1>5. Waiting.pc = "idle" /\ DOMAIN Waiting = {"pc", "claims", "set", "user"}
  BY DEF Waiting
<1>6. \A o \in SsoRequests : callback'[o] = callback[o] \/ SignInOK(callback[o])'
  BY <1>4, <1>5 DEF SignInOK
<1> QED
  BY <1>2, <1>3, <1>4, <1>6, SsoStep DEF SsoInv

LEMMA SsoInvNext == SsoInv /\ [SsoNext]_ssoVars => SsoInv'
<1> SUFFICES ASSUME SsoInv, [SsoNext]_ssoVars PROVE SsoInv'
  OBVIOUS
<1>1. ASSUME NEW r \in SsoRequests, SignInFails(r) PROVE SsoInv'
  BY <1>1, WaitingOK, SignInMoves DEF SignInFails, Answered
<1>2. ASSUME NEW u \in Members, SwitchMember(u) PROVE SsoInv'
  <2>1. PICK row : row = [member[u] EXCEPT !.enabled = ~@]
    OBVIOUS
  <2>2. DOMAIN row = {"mail", "subject", "enabled"} /\ row.mail = member[u].mail /\ row.subject = member[u].subject
    BY <2>1 DEF SsoInv, MemberOK
  <2>3. DOMAIN member' = Members /\ member'[u] = row /\ \A o \in Members \ {u} : member'[o] = member[o]
    BY <1>2, <2>1 DEF SwitchMember, SsoInv
  <2>4. UNCHANGED <<callback, opened, shown>>
    BY <1>2 DEF SwitchMember
  <2>5. MemberOK(u)'
    BY <2>2, <2>3, <2>4 DEF SsoInv, MemberOK, Shown
  <2> QED
    BY <2>2, <2>3, <2>4, <2>5, SsoStep DEF SsoInv
<1>3. ASSUME NEW u \in Members, NEW mail \in Mails, AddMember(u, mail) PROVE SsoInv'
  <2> DEFINE row == [mail |-> mail, subject |-> Nil, enabled |-> TRUE]
  <2>1. DOMAIN member' = Members /\ member'[u] = row /\ \A o \in Members \ {u} : member'[o] = member[o]
    BY <1>3 DEF AddMember, SsoInv
  <2>2. member[u].mail = Nil
    BY <1>3 DEF AddMember, NoMember
  <2>3. UNCHANGED <<callback, opened, shown>>
    BY <1>3 DEF AddMember
  <2>4. MemberOK(u)'
    BY <2>1 DEF MemberOK
  <2> QED
    BY <2>1, <2>2, <2>3, <2>4, SsoStep DEF SsoInv
<1>4. ASSUME UNCHANGED <<member, callback, opened, shown>> PROVE SsoInv'
  BY <1>4, SsoStep DEF SsoInv
<1> QED
  BY <1>1, <1>2, <1>3, <1>4, CallbackKeeps, FindSubjectKeeps, FindMailKeeps, ProvisionKeeps, LinkKeeps, SessionKeeps
  DEF SsoNext, SignInStep, SilentRefusal, StartFlow, FlowExpires, SetSso, ssoVars

\* SingleSignOn: for any accounts, claims and settings, and whatever fails or races, nobody
\* is signed in to an account whose address the provider was never trusted to show.
THEOREM AddressIsShown == SsoSpec => []AddressShown
<1>1. SsoInit => SsoInv
  <2> SUFFICES ASSUME SsoInit PROVE SsoInv
    OBVIOUS
  <2>1. \A u \in Members : MemberOK(u)
    BY DEF SsoInit, MemberOK, NoMember
  <2> QED
    BY <2>1, WaitingOK DEF SsoInit, SsoInv
<1>2. SsoInv => AddressShown
  BY DEF SsoInv, AddressShown, Shown
<1> QED
  BY <1>1, <1>2, SsoInvNext, PTL DEF SsoSpec

(***************************************************************************)
(* Data scope: every organisation that a user or a record names was made,  *)
(* so the lists, which look it up, and the checks, which do not, agree.    *)
(***************************************************************************)
Founded(o) == o = NoOrg \/ (o \in Orgs /\ org[o].made)

ScopeInv ==
    /\ DOMAIN org = Orgs /\ DOMAIN staff = Staff /\ DOMAIN asset = Assets
    /\ \A u \in Staff : DOMAIN staff[u] = {"org", "scopes"} /\ Founded(staff[u].org)
    /\ \A a \in Assets : asset[a].made => Founded(asset[a].org)

\* The widest scope is one of the four.
LEMMA ScopeIsOne == ASSUME NEW u \in Staff PROVE ScopeOf(u) \in {"own", "department", "division", "company"}
<1> DEFINE held == {i \in 1 .. Len(Scopes) : Scopes[i] \in staff[u].scopes}
<1>1. Len(Scopes) = 4 /\ \A i \in 1 .. 4 : Scopes[i] \in {"own", "department", "division", "company"}
  BY DEF Scopes
<1>2. CASE held = {}
  BY <1>2 DEF ScopeOf
<1>3. CASE held # {}
  <2>1. held \subseteq 1 .. 4
    BY <1>1
  <2>2. PICK n : n = IF 4 \in held THEN 4 ELSE IF 3 \in held THEN 3 ELSE IF 2 \in held THEN 2 ELSE 1
    OBVIOUS
  <2> HIDE DEF held
  <2>3. n \in held /\ \A j \in held : j <= n
    <3>1. \A j \in held : j = 1 \/ j = 2 \/ j = 3 \/ j = 4
      BY <2>1
    <3>2. 1 \in held \/ 2 \in held \/ 3 \in held \/ 4 \in held
      BY <1>3, <3>1
    <3> QED
      BY <2>2, <3>1, <3>2
  <2>4. \E i \in held : \A j \in held : j <= i
    BY <2>3
  <2>5. (CHOOSE i \in held : \A j \in held : j <= i) \in 1 .. 4
    BY <2>1, <2>4
  <2> QED
    BY <1>1, <1>3, <2>5 DEF ScopeOf, held
<1> QED
  BY <1>2, <1>3

LEMMA ScopeInvInit == ScopeInit => ScopeInv
  BY DEF ScopeInit, ScopeInv, Founded, NoAsset

LEMMA ScopeInvNext == ScopeInv /\ [ScopeNext]_scopeVars => ScopeInv'
<1> SUFFICES ASSUME ScopeInv, [ScopeNext]_scopeVars PROVE ScopeInv'
  OBVIOUS
<1>1. ASSUME NEW o \in Orgs, NEW parent \in Orgs \cup {NoOrg}, CreateOrganization(o, parent) PROVE ScopeInv'
  <2>1. DOMAIN org' = Orgs /\ org'[o].made /\ \A x \in Orgs \ {o} : org'[x] = org[x]
    BY <1>1 DEF CreateOrganization, ScopeInv
  <2>2. \A x : Founded(x) => Founded(x)'
    BY <2>1 DEF Founded
  <2> QED
    BY <1>1, <2>1, <2>2 DEF CreateOrganization, ScopeInv
<1>2. ASSUME NEW u \in Staff, NEW o \in Orgs \cup {NoOrg}, NEW scopes \in RoleScopes, UpdateStaff(u, o, scopes)
      PROVE  ScopeInv'
  <2>1. PICK row : row = [org |-> IF o = NoOrg THEN staff[u].org ELSE o, scopes |-> scopes]
    OBVIOUS
  <2>2. DOMAIN row = {"org", "scopes"} /\ Founded(row.org)
    BY <1>2, <2>1 DEF UpdateStaff, ScopeInv, Founded
  <2>3. DOMAIN staff' = Staff /\ staff'[u] = row /\ \A x \in Staff \ {u} : staff'[x] = staff[x]
    BY <1>2, <2>1 DEF UpdateStaff, ScopeInv
  <2>4. \A x : Founded(x)' <=> Founded(x)
    BY <1>2 DEF UpdateStaff, Founded
  <2> QED
    BY <1>2, <2>2, <2>3, <2>4 DEF UpdateStaff, ScopeInv
<1>3. ASSUME NEW u \in Staff, NEW owner \in Staff, NEW a \in Assets, NEW given \in Orgs \cup {NoOrg},
             NEW s \in Assets \cup {NoOrg}, CreateAsset(u, a, owner, given, s)
      PROVE  ScopeInv'
  <2> DEFINE wanted == IF given = NoOrg THEN staff[u].org ELSE given
  <2>1. PICK o : o = (IF wanted # NoOrg THEN wanted ELSE IF s # NoOrg THEN asset[s].org ELSE NoOrg)
    OBVIOUS
  <2>2. Founded(wanted)
    BY <1>3 DEF CreateAsset, ScopeInv, Founded
  <2>3. s # NoOrg => Founded(asset[s].org)
    BY <1>3 DEF CreateAsset, ScopeInv
  <2>4. Founded(o)
    BY <2>1, <2>2, <2>3 DEF Founded
  <2>5. asset' = [asset EXCEPT ![a] = [made |-> TRUE, owner |-> owner, org |-> o]]
    BY <1>3, <2>1 DEF CreateAsset
  <2>6. DOMAIN asset' = Assets /\ asset'[a].org = o /\ \A x \in Assets \ {a} : asset'[x] = asset[x]
    BY <2>5 DEF ScopeInv
  <2>7. \A x : Founded(x)' <=> Founded(x)
    BY <1>3 DEF CreateAsset, Founded
  <2> QED
    BY <1>3, <2>4, <2>6, <2>7 DEF CreateAsset, ScopeInv
<1>4. CASE UNCHANGED scopeVars
  BY <1>4 DEF scopeVars, ScopeInv, Founded
<1> QED
  BY <1>1, <1>2, <1>3, <1>4 DEF ScopeNext

\* The lists and the checks of single records agree, whatever the tree looks like
\* (orgInScope, vendra_org_in_scope, canAccessObject).
THEOREM ListsAlwaysAgree == ScopeSpec => []ListsAgree
<1>1. ScopeInv => ListsAgree
  <2> SUFFICES ASSUME ScopeInv, NEW u \in Staff, NEW a \in Assets, asset[a].made PROVE CanAccess(u, a) <=> Listed(u, a)
    BY DEF ListsAgree
  <2>1. Founded(asset[a].org) /\ NoOrg \notin Orgs
    BY ScopeAssumption DEF ScopeInv
  <2>2. CASE ScopeOf(u) = "division"
    BY <2>1, <2>2 DEF CanAccess, Listed, ListedOrg, OrgInScope, Founded
  <2>3. CASE ScopeOf(u) \in {"own", "department", "company"}
    BY <2>3 DEF CanAccess, Listed, ListedOrg
  <2> QED
    BY <2>2, <2>3, ScopeIsOne
<1> QED
  BY <1>1, ScopeInvInit, ScopeInvNext, PTL DEF ScopeSpec

\* What a user files for themselves, having an organisation, is in their reach
\* (createObject, objectScopeAllowed).
THEOREM AuthorsSee == ScopeSpec => AuthorSees
<1> DEFINE Filed == \A u \in Staff, a \in Assets :
              /\ asset'[a] # asset[a]
              /\ \E given \in Orgs \cup {NoOrg}, s \in Assets \cup {NoOrg} : CreateAsset(u, a, u, given, s)
              /\ staff[u].org # NoOrg
              => CanAccess(u, a)'
<1>1. ScopeInv => Filed
  <2> SUFFICES ASSUME ScopeInv, NEW u \in Staff, NEW a \in Assets, NEW given \in Orgs \cup {NoOrg},
                      NEW s \in Assets \cup {NoOrg}, CreateAsset(u, a, u, given, s), staff[u].org # NoOrg
               PROVE  CanAccess(u, a)'
    OBVIOUS
  <2> DEFINE wanted == IF given = NoOrg THEN staff[u].org ELSE given
  <2>1. wanted # NoOrg /\ MayAttach(u, wanted) /\ UNCHANGED <<org, staff>>
    BY DEF CreateAsset
  <2>2. asset' = [asset EXCEPT ![a] = [made |-> TRUE, owner |-> u, org |-> wanted]]
    BY <2>1 DEF CreateAsset
  <2>3. asset'[a].owner = u /\ asset'[a].org = wanted
    BY <2>2 DEF ScopeInv
  <2>4. ScopeOf(u)' = ScopeOf(u) /\ \A item, mine : OrgInScope(item, "division", mine)' <=> OrgInScope(item, "division", mine)
    BY <2>1 DEF ScopeOf, OrgInScope, Below
  <2>5. CASE ScopeOf(u) = "company"
    BY <2>4, <2>5 DEF CanAccess
  <2>6. CASE ScopeOf(u) = "division"
    BY <2>1, <2>3, <2>4, <2>6 DEF CanAccess, MayAttach
  <2>7. CASE ScopeOf(u) = "department"
    BY <2>1, <2>3, <2>4, <2>7 DEF CanAccess, MayAttach, OrgInScope
  <2>8. CASE ScopeOf(u) = "own"
    BY <2>3, <2>4, <2>8 DEF CanAccess
  <2> QED
    BY <2>5, <2>6, <2>7, <2>8, ScopeIsOne
<1>2. ScopeInv /\ [ScopeNext]_scopeVars => [Filed]_scopeVars
  BY <1>1
<1> QED
  BY <1>2, ScopeInvInit, ScopeInvNext, PTL DEF ScopeSpec, AuthorSees
-----------------------------------------------------------------------------
(***************************************************************************)
(* LoginGuard: its types, and that the sweep leaves alone what a lockout   *)
(* rests on.                                                               *)
(***************************************************************************)
FailureKeys == Names \X Addresses \X (0 .. Horizon)
Login == [pc : {"idle", "record", "clear"}, name : Names \cup {Nobody}, address : Addresses \cup {Nobody}]

GuardTypes ==
    /\ clock \in 0 .. Horizon
    /\ failures \in [FailureKeys -> Nat]
    /\ lreq \in [LoginRequests -> Login]
    /\ \A r \in LoginRequests : lreq[r].pc # "idle" => lreq[r].name \in Names /\ lreq[r].address \in Addresses
    /\ \A k \in FailureKeys : k[3] > clock => failures[k] = 0
    /\ blind \in BOOLEAN

\* Whatever an administrator left, the limits and the times are within their ranges.
LEMMA NormalizedInRange ==
    ASSUME NEW p \in {Protection, Default}
    PROVE  /\ Normalized(p).window \in 1 .. Day /\ Normalized(p).lockout \in 1 .. Day
           /\ Normalized(p).maxFailures \in Nat /\ Normalized(p).maxAddressFailures \in Nat
<1>1. p.maxFailures \in Int /\ p.maxAddressFailures \in Int
  BY GuardAssumption
<1>2. \A v, x : x \in 1 .. Day => Ranged(v, x) \in 1 .. Day
  BY DEF Ranged
<1>3. \A v \in Int, most \in Nat : \A x \in 0 .. most : Clamped(v, x, most) \in Nat
  BY DEF Clamped
<1> QED
  BY <1>1, <1>2, <1>3, GuardAssumption DEF Normalized

LEMMA GuardInRange ==
    \A g \in {Guard, Fallback} :
        /\ g.window \in 1 .. Day /\ g.lockout \in 1 .. Day
        /\ g.maxFailures \in Nat /\ g.maxAddressFailures \in Nat
  BY NormalizedInRange DEF Guard, Fallback

LEMMA KeysAreFinite ==
    /\ IsFiniteSet(FailureKeys)
    /\ \A S : S \subseteq FailureKeys => IsFiniteSet(S)
<1>1. IsFiniteSet(0 .. Horizon)
  BY GuardAssumption, FS_Interval
<1>2. IsFiniteSet(Names \X Addresses)
  BY GuardAssumption, FS_Product
<1>3. IsFiniteSet((Names \X Addresses) \X (0 .. Horizon))
  BY <1>1, <1>2, FS_Product
<1> DEFINE Nested == (Names \X Addresses) \X (0 .. Horizon)
           f == [k \in FailureKeys |-> <<<<k[1], k[2]>>, k[3]>>]
<1>4. f \in Injection(FailureKeys, Nested)
  <2>1. f \in [FailureKeys -> Nested]
    BY DEF FailureKeys
  <2>2. \A j, k \in FailureKeys : f[j] = f[k] => j = k
    BY DEF FailureKeys
  <2> QED
    BY <2>1, <2>2 DEF Injection, IsInjective
<1>5. IsFiniteSet(FailureKeys)
  BY <1>3, <1>4, FS_Injection
<1> QED
  BY <1>5, FS_Subset

LEMMA GuardTypesInit == GuardInit => GuardTypes
<1> SUFFICES ASSUME GuardInit PROVE GuardTypes
  OBVIOUS
<1>1. clock \in 0 .. Horizon
  BY GuardAssumption DEF GuardInit
<1>5. blind \in BOOLEAN
  BY DEF GuardInit
<1>2. failures \in [FailureKeys -> Nat]
  BY DEF GuardInit, FailureKeys
<1>3. \A r \in LoginRequests : lreq[r] = Asleep
  BY DEF GuardInit
<1>4. lreq \in [LoginRequests -> Login]
  BY DEF GuardInit, Login, Asleep
<1>6. \A k \in FailureKeys : failures[k] = 0
  BY DEF GuardInit, FailureKeys
<1> QED
  BY <1>1, <1>2, <1>3, <1>4, <1>5, <1>6 DEF GuardTypes, Asleep

LEMMA GuardTypesNext == GuardTypes /\ [GuardNext]_guardVars => GuardTypes'
<1> SUFFICES ASSUME GuardTypes, [GuardNext]_guardVars PROVE GuardTypes'
  OBVIOUS
<1> USE DEF GuardTypes, Login, Asleep
<1>1. ASSUME NEW r \in LoginRequests, NEW n \in Names, NEW a \in Addresses, NEW right \in BOOLEAN,
             NEW answered \in BOOLEAN, NEW counted \in BOOLEAN, TryLogin(r, n, a, right, answered, counted)
      PROVE  GuardTypes'
  BY <1>1 DEF TryLogin
<1>2. ASSUME NEW r \in LoginRequests, RecordFailure(r) PROVE GuardTypes'
  BY <1>2 DEF RecordFailure, FailureKeys
<1>3. ASSUME NEW r \in LoginRequests, ClearFailures(r) PROVE GuardTypes'
  BY <1>3 DEF ClearFailures
<1>4. ASSUME NEW r \in LoginRequests, LoginFails(r) PROVE GuardTypes'
  BY <1>4 DEF LoginFails
<1>5. ASSUME NEW n \in Names, PasswordClears(n) PROVE GuardTypes'
  BY <1>5 DEF PasswordClears
<1>6. CASE PurgeAttempts
  BY <1>6 DEF PurgeAttempts
<1>7. CASE Tick
  <2>1. clock' \in 0 .. Horizon
    BY <1>7, GuardAssumption DEF Tick
  <2>2. \A k \in FailureKeys : k[3] > clock' => failures'[k] = 0
    BY <1>7 DEF Tick, FailureKeys
  <2> QED
    BY <1>7, <2>1, <2>2 DEF Tick
<1>8. CASE UNCHANGED guardVars
  BY <1>8 DEF guardVars
<1> QED
  BY <1>1, <1>2, <1>3, <1>4, <1>5, <1>6, <1>7, <1>8 DEF GuardNext

\* Nobody is let in, or kept out longer or shorter, because the sweep ran (purgeExpired,
\* recentFailures).
THEOREM SweepKeepsLockouts == GuardSpec => SweepHarmless
<1> DEFINE Same(g) ==
             /\ \A n \in Names : Count(OfName(n), g)' = Count(OfName(n), g) /\ Latest(OfName(n), g)' = Latest(OfName(n), g)
             /\ \A a \in Addresses : Count(OfAddress(a), g)' = Count(OfAddress(a), g)
           Harmless ==
             failures' # failures /\ PurgeAttempts =>
                 \A g \in {Guard, Fallback} :
                     /\ \A n \in Names : /\ Count(OfName(n), g)' = Count(OfName(n), g)
                                         /\ Latest(OfName(n), g)' = Latest(OfName(n), g)
                     /\ \A a \in Addresses : Count(OfAddress(a), g)' = Count(OfAddress(a), g)
<1>1. ASSUME GuardTypes, PurgeAttempts, NEW CONSTANT g, g.window \in 1 .. Day PROVE Same(g)
  <2>1. clock' = clock /\ DOMAIN failures = FailureKeys /\ DOMAIN failures' = FailureKeys
    BY <1>1 DEF GuardTypes, PurgeAttempts
  <2>2. ASSUME NEW ks \in SUBSET FailureKeys
        PROVE  /\ SumFunctionOnSet(failures, Recent(ks, g)) = SumFunctionOnSet(failures', Recent(ks, g))
               /\ {j \in Recent(ks, g) : failures[j] > 0} = {j \in Recent(ks, g) : failures'[j] > 0}
    <3>1. ASSUME NEW k \in Recent(ks, g) PROVE failures'[k] = failures[k]
      <4>1. k \in FailureKeys /\ k[3] \in Nat /\ clock \in Nat /\ clock - k[3] < g.window
        BY <1>1 DEF Recent, FailureKeys, GuardTypes
      <4>2. ~(k[3] + Day < clock)
        BY <1>1, <4>1, GuardAssumption
      <4> QED
        BY <1>1, <2>1, <4>1, <4>2 DEF PurgeAttempts
    <3>2. IsFiniteSet(Recent(ks, g))
      BY KeysAreFinite DEF Recent
    <3> QED
      BY <3>1, <3>2, SumAgrees
  <2>3. ASSUME NEW n \in Names
        PROVE  /\ OfName(n) \in SUBSET FailureKeys /\ OfName(n)' = OfName(n)
               /\ Recent(OfName(n), g)' = Recent(OfName(n), g)
    BY <2>1 DEF OfName, Recent
  <2>4. ASSUME NEW a \in Addresses
        PROVE  /\ OfAddress(a) \in SUBSET FailureKeys /\ OfAddress(a)' = OfAddress(a)
               /\ Recent(OfAddress(a), g)' = Recent(OfAddress(a), g)
    BY <2>1 DEF OfAddress, Recent
  <2>5. \A n \in Names : Count(OfName(n), g)' = Count(OfName(n), g) /\ Latest(OfName(n), g)' = Latest(OfName(n), g)
    BY <2>2, <2>3 DEF Count, Latest
  <2>6. \A a \in Addresses : Count(OfAddress(a), g)' = Count(OfAddress(a), g)
    BY <2>2, <2>4 DEF Count
  <2> QED
    BY <2>5, <2>6
<1>2. ASSUME GuardTypes, PurgeAttempts PROVE Harmless
  <2>1. Guard.window \in 1 .. Day /\ Fallback.window \in 1 .. Day
    BY GuardInRange
  <2>2. Same(Guard) /\ Same(Fallback)
    BY <1>1, <1>2, <2>1
  <2> QED
    BY <2>2
<1>3. GuardTypes /\ [GuardNext]_guardVars => [Harmless]_guardVars
  BY <1>2
<1> QED
  BY <1>3, GuardTypesInit, GuardTypesNext, PTL DEF GuardSpec, SweepHarmless

-----------------------------------------------------------------------------
(***************************************************************************)
(* The two counts of the guard are one: of the failures with a name (1),   *)
(* or from an address (2).  From the first of them to the last, there are  *)
(* no more than the limit lets through, and as many as were under way for  *)
(* each lockout in between.                                                *)
(***************************************************************************)
Keyed(i, v) == {k \in DOMAIN failures : k[i] = v}
Between(i, v, s, u) == {k \in Keyed(i, v) : s <= k[3] /\ k[3] <= u}
Recorded(i, v, s, u) == SumFunctionOnSet(failures, Between(i, v, s, u))

Tried(i, q) == IF i = 1 THEN q.name ELSE q.address
UnderWay(i, v) == {r \in LoginRequests : lreq[r].pc = "record" /\ Tried(i, lreq[r]) = v}
Limit(i) == IF i = 1 THEN Guard.maxFailures ELSE Guard.maxAddressFailures
Tries(i) == IF i = 1 THEN Names ELSE Addresses

\* Both within b lockouts, and within the window.
Spans(s, u, b) == clock - Guard.window < s /\ s <= u /\ u <= clock /\ u - s < b * Guard.lockout

Allowed(i, b) == Limit(i) - 1 + b * Cardinality(LoginRequests)
Coming(i, v, u) == IF u = clock THEN Cardinality(UnderWay(i, v)) ELSE 0

Paced ==
    \A i \in {1, 2} : Limit(i) > 0 =>
        \A v \in Tries(i), s, u \in Int, b \in Nat :
            Spans(s, u, b) => Recorded(i, v, s, u) + Coming(i, v, u) <= Allowed(i, b)

GuardInv == GuardTypes /\ (~blind => Paced)

LEMMA UnderWayType ==
    ASSUME GuardTypes, NEW i \in {1, 2}, NEW v
    PROVE  /\ IsFiniteSet(UnderWay(i, v)) /\ Cardinality(UnderWay(i, v)) \in Nat
           /\ Cardinality(UnderWay(i, v)) <= Cardinality(LoginRequests)
           /\ Cardinality(LoginRequests) \in Nat
  BY GuardAssumption, FS_Subset, FS_CardinalityType DEF UnderWay

LEMMA RecordedType ==
    ASSUME GuardTypes, NEW i \in {1, 2}, NEW v, NEW s \in Int, NEW u \in Int
    PROVE  /\ Between(i, v, s, u) \subseteq FailureKeys /\ IsFiniteSet(Between(i, v, s, u))
           /\ \A k \in Between(i, v, s, u) : failures[k] \in Nat
           /\ Recorded(i, v, s, u) \in Nat
<1>1. Between(i, v, s, u) \subseteq FailureKeys /\ \A k \in Between(i, v, s, u) : failures[k] \in Nat
  BY DEF Between, Keyed, GuardTypes
<1>2. IsFiniteSet(Between(i, v, s, u))
  BY <1>1, KeysAreFinite
<1>3. SumFunctionOnSet(failures, Between(i, v, s, u)) \in Nat
  BY <1>1, <1>2, SumOfPart
<1> QED
  BY <1>1, <1>2, <1>3 DEF Recorded

LEMMA RecordedTypeNext ==
    ASSUME GuardTypes', NEW i \in {1, 2}, NEW v, NEW s \in Int, NEW u \in Int
    PROVE  Recorded(i, v, s, u)' \in Nat
<1> DEFINE B == Between(i, v, s, u)'
<1>1. B \subseteq FailureKeys /\ \A k \in B : failures'[k] \in Nat
  BY DEF Between, Keyed, GuardTypes
<1>2. IsFiniteSet(B)
  BY <1>1, KeysAreFinite
<1> HIDE DEF B
<1>3. SumFunctionOnSet(failures', B) \in Nat
  BY <1>1, <1>2, SumOfPart
<1> QED
  BY <1>3 DEF Recorded, B

\* Failures that are deleted, by whomever, leave fewer.
LEMMA FewerRecorded ==
    ASSUME GuardTypes, GuardTypes', \A k \in FailureKeys : failures'[k] <= failures[k],
           NEW i \in {1, 2}, NEW v, NEW s \in Int, NEW u \in Int
    PROVE  Recorded(i, v, s, u)' <= Recorded(i, v, s, u)
<1> DEFINE B == Between(i, v, s, u)
<1>1. DOMAIN failures = FailureKeys /\ DOMAIN failures' = FailureKeys
  BY DEF GuardTypes
<1>2. B' = B
  BY <1>1 DEF Between, Keyed
<1>3. B \subseteq FailureKeys /\ IsFiniteSet(B)
  BY RecordedType
<1>4. \A k \in B : failures'[k] \in Int /\ failures[k] \in Int /\ failures'[k] <= failures[k]
  BY <1>3 DEF GuardTypes
<1> HIDE DEF B
<1>5. SumFunctionOnSet(failures', B) <= SumFunctionOnSet(failures, B)
  BY <1>3, <1>4, SumMonotone
<1> QED
  BY <1>2, <1>5 DEF Recorded, B

\* So a step that records nothing, lets nobody in and does not move the clock keeps the pace.
LEMMA AllowedType ==
    ASSUME NEW i \in {1, 2}, NEW b \in Nat
    PROVE  /\ Cardinality(LoginRequests) \in Nat /\ Limit(i) \in Nat /\ Allowed(i, b) \in Int
           /\ b >= 1 => /\ Allowed(i, b) = Allowed(i, b - 1) + Cardinality(LoginRequests)
                        /\ Allowed(i, b) >= Limit(i) - 1 + Cardinality(LoginRequests)
<1>1. Cardinality(LoginRequests) \in Nat
  BY GuardAssumption, FS_CardinalityType
<1>2. Limit(i) \in Nat
  BY GuardInRange DEF Limit
<1> DEFINE C == Cardinality(LoginRequests)
           L == Limit(i)
<1> HIDE DEF C, L
<1>3. \A n \in Nat : n * C \in Nat
  BY <1>1 DEF C
<1>4. b >= 1 => b * C = (b - 1) * C + C
  BY <1>1 DEF C
<1>5. L - 1 + b * C \in Int
  BY <1>2, <1>3 DEF L
<1>6. ASSUME b >= 1 PROVE L - 1 + b * C = (L - 1 + (b - 1) * C) + C /\ L - 1 + b * C >= L - 1 + C
  <2> DEFINE p == b * C
             q == (b - 1) * C
  <2>1. p = q + C /\ p \in Nat /\ q \in Nat /\ C \in Nat /\ L \in Nat
    BY <1>1, <1>2, <1>3, <1>4, <1>6 DEF L, C
  <2> HIDE DEF p, q
  <2>2. L - 1 + p = (L - 1 + q) + C /\ L - 1 + p >= L - 1 + C
    BY <2>1
  <2> QED
    BY <2>2 DEF p, q
<1> QED
  BY <1>1, <1>2, <1>5, <1>6 DEF Allowed, L, C

LEMMA LatestIsLast ==
    ASSUME GuardTypes, NEW K \in SUBSET FailureKeys
    PROVE  Latest(K, Guard) \in Int /\ \A k \in Recent(K, Guard) : failures[k] > 0 => k[3] <= Latest(K, Guard)
<1> DEFINE Held == {k \in Recent(K, Guard) : failures[k] > 0}
           Times == {k[3] : k \in Held}
           f == [k \in Held |-> k[3]]
<1>1. Held \subseteq FailureKeys /\ IsFiniteSet(Held)
  BY KeysAreFinite DEF Recent
<1>2. IsFiniteSet(Times)
  <2>1. f \in Surjection(Held, Times)
    BY DEF Surjection
  <2> QED
    BY <1>1, <2>1, FS_Surjection
<1>3. Times \subseteq Int
  BY <1>1 DEF FailureKeys
<1> DEFINE All == {0} \cup Times
<1>5. Latest(K, Guard) = Max(All)
  BY DEF Latest
<1>6. \A k \in Recent(K, Guard) : failures[k] > 0 => k[3] \in All
  OBVIOUS
<1> HIDE DEF Times
<1>4. IsFiniteSet(All) /\ All \in SUBSET Int /\ All # {}
  <2>1. IsFiniteSet({0})
    BY FS_Singleton
  <2>2. IsFiniteSet({0} \cup Times)
    BY <1>2, <2>1, FS_Union, Zenon
  <2>3. {0} \cup Times \in SUBSET Int
    BY <1>3
  <2> QED
    BY <2>2, <2>3
<1> HIDE DEF All
<1>7. Max(All) \in All /\ \A x \in All : x <= Max(All)
  BY <1>4, MaxIsGreatest
<1>8. Latest(K, Guard) \in Int /\ \A x \in All : x <= Latest(K, Guard)
  BY <1>4, <1>5, <1>7
<1> QED
  BY <1>6, <1>8

LEMMA PaceStays ==
    ASSUME GuardTypes, GuardTypes', Paced, clock' = clock,
           \A k \in FailureKeys : failures'[k] <= failures[k],
           \A r \in LoginRequests : lreq'[r].pc = "record" => lreq'[r] = lreq[r]
    PROVE  Paced'
<1> SUFFICES ASSUME NEW i \in {1, 2}, Limit(i) > 0, NEW v \in Tries(i), NEW s \in Int, NEW u \in Int,
                    NEW b \in Nat, Spans(s, u, b)
             PROVE  Recorded(i, v, s, u)' + Coming(i, v, u)' <= Allowed(i, b)
  BY DEF Paced, Spans, Limit, Tries, Allowed, Guard, Normalized, Ranged, Clamped
<1>1. Recorded(i, v, s, u) + Coming(i, v, u) <= Allowed(i, b)
  BY DEF Paced
<1>2. Recorded(i, v, s, u)' <= Recorded(i, v, s, u) /\ Recorded(i, v, s, u) \in Nat /\ Recorded(i, v, s, u)' \in Nat
  <2> QED
    BY FewerRecorded, RecordedType, RecordedTypeNext
<1>3. UnderWay(i, v)' \subseteq UnderWay(i, v)
  BY DEF UnderWay, Tried
<1>4. Cardinality(UnderWay(i, v)') <= Cardinality(UnderWay(i, v)) /\ Cardinality(UnderWay(i, v)) \in Nat
      /\ Cardinality(UnderWay(i, v)') \in Nat
  BY <1>3, UnderWayType, FS_Subset, FS_CardinalityType
<1>5. Coming(i, v, u)' <= Coming(i, v, u) /\ Coming(i, v, u) \in Nat /\ Coming(i, v, u)' \in Nat
  BY <1>4 DEF Coming
<1>6. Allowed(i, b) \in Int
  BY AllowedType
<1> QED
  BY <1>1, <1>2, <1>5, <1>6

\* One more under way: the count that let it in was below the limit, or a lockout ago.
LEMMA PaceOfAdmission ==
    ASSUME GuardTypes, GuardTypes', Paced, UNCHANGED <<clock, failures>>, NEW r \in LoginRequests,
           \A j \in LoginRequests \ {r} : lreq'[j] = lreq[j],
           \A i \in {1, 2} : Limit(i) > 0 => ~Locks(Keyed(i, Tried(i, lreq'[r])), Limit(i), Guard)
    PROVE  Paced'
<1> SUFFICES ASSUME NEW i \in {1, 2}, Limit(i) > 0, NEW v \in Tries(i), NEW s \in Int, NEW u \in Int,
                    NEW b \in Nat, Spans(s, u, b)
             PROVE  Recorded(i, v, s, u) + Coming(i, v, u)' <= Allowed(i, b)
  <2>1. ASSUME NEW i \in {1, 2}, NEW v, NEW s, NEW u
        PROVE  Recorded(i, v, s, u)' = Recorded(i, v, s, u)
    BY DEF Recorded, Between, Keyed
  <2> QED
    BY <2>1 DEF Paced, Spans, Limit, Tries, Allowed, Guard, Normalized, Ranged, Clamped
<1> DEFINE C == Cardinality(LoginRequests)
<1>1. Recorded(i, v, s, u) + Coming(i, v, u) <= Allowed(i, b)
  BY DEF Paced
<1>2. /\ clock \in Nat /\ Guard.window \in Nat /\ Guard.lockout \in Nat \ {0} /\ Limit(i) \in Nat
      /\ Recorded(i, v, s, u) \in Nat /\ C \in Nat /\ Allowed(i, b) \in Int
  BY GuardInRange, GuardAssumption, RecordedType, AllowedType DEF GuardTypes
<1>3. b >= 1
  <2>1. b = 0 => b * Guard.lockout = 0
    BY <1>2
  <2> QED
    BY <1>2, <2>1 DEF Spans
<1>4. UnderWay(i, v)' \subseteq LoginRequests /\ Cardinality(UnderWay(i, v)') \in Nat /\ Cardinality(UnderWay(i, v)') <= C
  BY GuardAssumption, FS_Subset, FS_CardinalityType DEF UnderWay
<1>5. CASE u # clock
  BY <1>1, <1>5 DEF Coming
<1>6. CASE u = clock /\ Tried(i, lreq'[r]) # v
  <2>1. UnderWay(i, v)' \subseteq UnderWay(i, v)
    BY <1>6 DEF UnderWay
  <2>2. Cardinality(UnderWay(i, v)') <= Cardinality(UnderWay(i, v)) /\ Cardinality(UnderWay(i, v)) \in Nat
    BY <2>1, UnderWayType, FS_Subset, FS_CardinalityType
  <2> QED
    BY <1>1, <1>2, <1>4, <1>6, <2>2 DEF Coming
<1>7. CASE u = clock /\ Tried(i, lreq'[r]) = v
  <2> DEFINE K == Keyed(i, v)
             R == Recent(K, Guard)
  <2>1. R \subseteq FailureKeys /\ IsFiniteSet(R) /\ \A k \in R : failures[k] \in Nat /\ k[3] \in Nat
    BY KeysAreFinite DEF Recent, Keyed, GuardTypes, FailureKeys
  <2>2. Between(i, v, s, u) \subseteq R
    BY <1>2, <1>7, <2>1, KeysAreFinite DEF Between, Recent, Spans, Keyed, GuardTypes, FailureKeys
  <2>3. Coming(i, v, u)' <= C /\ Coming(i, v, u)' \in Nat
    BY <1>2, <1>4 DEF Coming
  <2>8. Latest(K, Guard) \in Int /\ \A k \in R : failures[k] > 0 => k[3] <= Latest(K, Guard)
    BY LatestIsLast DEF Keyed, GuardTypes
  <2>4. CASE Count(K, Guard) < Limit(i)
    <3>1. SumFunctionOnSet(failures, Between(i, v, s, u)) <= SumFunctionOnSet(failures, R)
          /\ SumFunctionOnSet(failures, R) \in Nat
      BY <2>1, <2>2, SumOfPart
    <3>2. Recorded(i, v, s, u) <= Limit(i) - 1
      BY <1>2, <2>4, <3>1 DEF Count, Recorded
    <3> QED
      BY <1>2, <1>3, <2>3, <3>2, AllowedType
  <2>5. CASE clock >= Latest(K, Guard) + Guard.lockout
    <3> DEFINE L == clock - Guard.lockout
    <3>5. \A k \in R : k[3] > L => failures[k] = 0
      <4> SUFFICES ASSUME NEW k \in R, k[3] > L, failures[k] > 0 PROVE FALSE
        BY <2>1
      <4>1. k[3] <= Latest(K, Guard)
        BY <2>8
      <4> QED
        BY <1>2, <2>1, <2>5, <2>8, <4>1
    <3>6. L \in Int /\ L <= clock
      BY <1>2
    <3>7. CASE s > L
      <4>1. \A k \in Between(i, v, s, u) \ {} : failures[k] = 0
        BY <2>1, <2>2, <3>5, <3>6, <3>7 DEF Between
      <4>2. SumFunctionOnSet(failures, Between(i, v, s, u)) = 0
        BY <4>1, RecordedType, SumOfPart, SumOfNone
      <4>3. Recorded(i, v, s, u) = 0
        BY <4>2 DEF Recorded
      <4>4. Allowed(i, b) >= Limit(i) - 1 + C
        BY <1>3, AllowedType
      <4> QED
        BY <1>2, <2>3, <4>3, <4>4
    <3>8. CASE s <= L
      <4>1. Between(i, v, s, L) \subseteq Between(i, v, s, u)
        BY <1>2, <1>7, <2>1, <2>2, <3>6 DEF Between, Keyed, GuardTypes, FailureKeys
      <4>2. \A k \in Between(i, v, s, u) \ Between(i, v, s, L) : failures[k] = 0
        BY <2>1, <2>2, <3>5, <3>6 DEF Between
      <4>3. Recorded(i, v, s, u) = Recorded(i, v, s, L)
        BY <4>1, <4>2, RecordedType, SumOfPart DEF Recorded
      <4>4. Spans(s, L, b - 1)
        <5>1. (b - 1) * Guard.lockout = b * Guard.lockout - Guard.lockout
          BY <1>2
        <5>2. b * Guard.lockout \in Int
          BY <1>2
        <5> QED
          BY <1>2, <1>7, <3>6, <3>8, <5>1, <5>2 DEF Spans
      <4>5. Recorded(i, v, s, L) + Coming(i, v, L) <= Allowed(i, b - 1)
        BY <1>3, <3>6, <4>4 DEF Paced
      <4>6. Coming(i, v, L) \in Nat
        BY UnderWayType DEF Coming
      <4>7. Allowed(i, b) = Allowed(i, b - 1) + C /\ Allowed(i, b - 1) \in Int
        BY <1>3, AllowedType
      <4> QED
        BY <1>2, <2>3, <4>3, <4>5, <4>6, <4>7
    <3> QED
      BY <3>6, <3>7, <3>8
  <2>6. Count(K, Guard) < Limit(i) \/ clock >= Latest(K, Guard) + Guard.lockout
    <3>1. Limit(i) > 0 => ~Locks(K, Limit(i), Guard)
      BY <1>7
    <3>2. Count(K, Guard) \in Int
      BY <2>1, SumIsInt DEF Count
    <3> QED
      BY <1>2, <2>8, <3>1, <3>2 DEF Locks
  <2> QED
    BY <2>4, <2>5, <2>6
<1> QED
  BY <1>5, <1>6, <1>7

\* A failure that is recorded was under way before.
LEMMA PaceOfFailures ==
    ASSUME GuardTypes, GuardTypes', Paced, NEW r \in LoginRequests, RecordFailure(r)
    PROVE  Paced'
<1> DEFINE q == lreq[r]
           key == <<q.name, q.address, clock>>
<1> SUFFICES ASSUME NEW i \in {1, 2}, Limit(i) > 0, NEW v \in Tries(i), NEW s \in Int, NEW u \in Int,
                    NEW b \in Nat, Spans(s, u, b)
             PROVE  Recorded(i, v, s, u)' + Coming(i, v, u)' <= Allowed(i, b)
  BY DEF Paced, Spans, Limit, Tries, Allowed, Guard, Normalized, Ranged, Clamped, RecordFailure
<1>1. Recorded(i, v, s, u) + Coming(i, v, u) <= Allowed(i, b)
  BY DEF Paced
<1>2. /\ clock \in Nat /\ Allowed(i, b) \in Int /\ clock' = clock /\ s <= u /\ u <= clock
      /\ q.pc = "record" /\ key \in FailureKeys /\ key[i] = Tried(i, q) /\ key[3] = clock
      /\ failures' = [failures EXCEPT ![key] = @ + 1] /\ lreq' = [lreq EXCEPT ![r] = Asleep]
  BY AllowedType, GuardAssumption DEF GuardTypes, RecordFailure, Spans, FailureKeys, Tried
<1> HIDE DEF q, key
<1> DEFINE B == Between(i, v, s, u)
<1>3. Recorded(i, v, s, u) \in Nat /\ Recorded(i, v, s, u)' = Recorded(i, v, s, u) + (IF key \in B THEN 1 ELSE 0)
  <2>1. DOMAIN failures = FailureKeys /\ DOMAIN failures' = FailureKeys
    BY DEF GuardTypes
  <2>2. B' = B
    BY <2>1 DEF Between, Keyed
  <2>3. B \subseteq FailureKeys /\ IsFiniteSet(B) /\ \A k \in B : failures[k] \in Int
    BY RecordedType
  <2>4. \A k \in B : failures'[k] = IF k = key THEN failures[k] + 1 ELSE failures[k]
    BY <1>2, <2>1, <2>3
  <2> HIDE DEF B
  <2>5. SumFunctionOnSet(failures', B) = SumFunctionOnSet(failures, B) + (IF key \in B THEN 1 ELSE 0)
    <3> DEFINE f == failures
               g == failures'
    <3>1. /\ IsFiniteSet(B) /\ \A k \in B : f[k] \in Int
          /\ \A k \in B : g[k] = IF k = key THEN f[k] + 1 ELSE f[k]
      BY <2>3, <2>4
    <3> HIDE DEF f, g
    <3>2. SumFunctionOnSet(g, B) = SumFunctionOnSet(f, B) + (IF key \in B THEN 1 ELSE 0)
      BY <3>1, SumGrows
    <3> QED
      BY <3>2 DEF f, g
  <2> QED
    BY <2>2, <2>5, RecordedType DEF Recorded, B
<1>4. key \in B <=> u = clock /\ Tried(i, q) = v
  BY <1>2 DEF Between, Keyed, GuardTypes
<1> HIDE DEF B
<1>5. CASE u # clock
  BY <1>1, <1>2, <1>3, <1>4, <1>5 DEF Coming
<1>6. CASE u = clock /\ Tried(i, q) # v
  <2>1. UnderWay(i, v)' = UnderWay(i, v)
    BY <1>2, <1>6 DEF UnderWay, Asleep, GuardTypes, q
  <2> QED
    BY <1>1, <1>2, <1>3, <1>4, <1>6, <2>1 DEF Coming
<1>7. CASE u = clock /\ Tried(i, q) = v
  <2>1. UnderWay(i, v)' = UnderWay(i, v) \ {r} /\ r \in UnderWay(i, v)
    BY <1>2, <1>7 DEF UnderWay, Asleep, GuardTypes, q
  <2>2. Cardinality(UnderWay(i, v)') = Cardinality(UnderWay(i, v)) - 1
    BY <2>1, UnderWayType, FS_RemoveElement
  <2>3. Cardinality(UnderWay(i, v)) \in Nat
    BY UnderWayType
  <2> QED
    BY <1>1, <1>2, <1>3, <1>4, <1>7, <2>2, <2>3 DEF Coming
<1> QED
  BY <1>5, <1>6, <1>7

\* Time passes: nothing is on record of the new tick yet, and whoever is under way may
\* fail in it.
LEMMA PaceOfTime ==
    ASSUME GuardTypes, GuardTypes', Paced, Tick
    PROVE  Paced'
<1> SUFFICES ASSUME NEW i \in {1, 2}, Limit(i) > 0, NEW v \in Tries(i), NEW s \in Int, NEW u \in Int,
                    NEW b \in Nat, Spans(s, u, b)'
             PROVE  Recorded(i, v, s, u) + Coming(i, v, u)' <= Allowed(i, b)
  <2>1. ASSUME NEW i \in {1, 2}, NEW v, NEW s, NEW u
        PROVE  Recorded(i, v, s, u)' = Recorded(i, v, s, u)
    BY DEF Recorded, Between, Keyed, Tick
  <2> QED
    BY <2>1 DEF Paced, Spans, Limit, Tries, Allowed, Guard, Normalized, Ranged, Clamped
<1>1. /\ clock \in Nat /\ clock' = clock + 1 /\ failures' = failures /\ lreq' = lreq
      /\ Guard.window \in Nat /\ Guard.lockout \in Nat \ {0}
      /\ b * Guard.lockout \in Nat /\ b \in Int
  BY GuardInRange, GuardAssumption DEF GuardTypes, Tick
<1>2. /\ clock + 1 - Guard.window < s /\ s <= u /\ u <= clock + 1 /\ u - s < b * Guard.lockout
  BY <1>1 DEF Spans, Guard, Normalized, Ranged, Clamped
<1>3. UnderWay(i, v)' = UnderWay(i, v)
  BY <1>1 DEF UnderWay
<1>4. /\ Cardinality(UnderWay(i, v)) \in Nat /\ Cardinality(UnderWay(i, v)) <= Cardinality(LoginRequests)
      /\ Cardinality(LoginRequests) \in Nat /\ Limit(i) \in Nat /\ Allowed(i, b) \in Int
      /\ Recorded(i, v, s, u) \in Nat
  BY UnderWayType, AllowedType, RecordedType
<1>5. CASE u <= clock
  <2>1. Spans(s, u, b)
    BY <1>1, <1>2, <1>5 DEF Spans
  <2>2. Recorded(i, v, s, u) + Coming(i, v, u) <= Allowed(i, b)
    BY <2>1 DEF Paced
  <2> QED
    BY <1>1, <1>4, <1>5, <2>2 DEF Coming
<1>6. CASE u = clock + 1
  <2>1. b >= 1
    <3>1. b = 0 => b * Guard.lockout = 0
      BY <1>1
    <3> QED
      BY <1>1, <1>2, <3>1
  <2>2. Coming(i, v, u)' = Cardinality(UnderWay(i, v))
    BY <1>1, <1>3, <1>6 DEF Coming
  <2>3. Between(i, v, s, clock) \subseteq Between(i, v, s, u)
    BY <1>1, <1>6 DEF Between, Keyed, GuardTypes, FailureKeys
  <2>4. \A k \in Between(i, v, s, u) \ Between(i, v, s, clock) : failures[k] = 0
    BY <1>1 DEF Between, Keyed, GuardTypes, FailureKeys
  <2>5. Recorded(i, v, s, u) = Recorded(i, v, s, clock)
    BY <2>3, <2>4, RecordedType, SumOfPart DEF Recorded
  <2>6. CASE s <= clock
    <3>1. Spans(s, clock, b)
      BY <1>1, <1>2, <1>6, <2>6 DEF Spans
    <3>2. Recorded(i, v, s, clock) + Coming(i, v, clock) <= Allowed(i, b)
      BY <1>1, <3>1 DEF Paced
    <3> QED
      BY <2>2, <2>5, <3>2 DEF Coming
  <2>7. CASE s > clock
    <3>1. Between(i, v, s, clock) = {}
      BY <1>1, <2>7 DEF Between, Keyed, GuardTypes, FailureKeys
    <3>2. Recorded(i, v, s, clock) = 0
      BY <3>1, SumOfNone DEF Recorded
    <3> QED
      BY <1>4, <2>1, <2>2, <2>5, <3>2, AllowedType
  <2> QED
    BY <1>1, <2>6, <2>7
<1> QED
  BY <1>1, <1>2, <1>5, <1>6

LEMMA GuardInvInit == GuardInit => GuardInv
<1> SUFFICES ASSUME GuardInit PROVE Paced
  BY GuardTypesInit DEF GuardInv
<1> SUFFICES ASSUME NEW i \in {1, 2}, Limit(i) > 0, NEW v \in Tries(i), NEW s \in Int, NEW u \in Int,
                    NEW b \in Nat, Spans(s, u, b)
             PROVE  Recorded(i, v, s, u) + Coming(i, v, u) <= Allowed(i, b)
  BY DEF Paced
<1>1. GuardTypes
  BY GuardTypesInit
<1>2. \A k \in Between(i, v, s, u) \ {} : failures[k] = 0
  BY RecordedType, <1>1 DEF GuardInit, FailureKeys
<1>3. SumFunctionOnSet(failures, Between(i, v, s, u)) = 0
  BY <1>1, <1>2, RecordedType, SumOfPart, SumOfNone
<1>4. UnderWay(i, v) = {}
  BY DEF UnderWay, GuardInit, Asleep
<1>5. Coming(i, v, u) = 0
  BY <1>4, FS_EmptySet DEF Coming
<1>6. Allowed(i, b) >= 0
  <2>1. Limit(i) \in Nat /\ Cardinality(LoginRequests) \in Nat
    BY AllowedType
  <2>2. b * Cardinality(LoginRequests) \in Nat
    BY <2>1
  <2> QED
    BY <2>1, <2>2 DEF Allowed
<1>7. Recorded(i, v, s, u) = 0
  BY <1>3 DEF Recorded
<1> QED
  BY <1>5, <1>6, <1>7

LEMMA GuardInvNext == GuardInv /\ [GuardNext]_guardVars => GuardInv'
<1> SUFFICES ASSUME GuardInv, [GuardNext]_guardVars PROVE GuardInv'
  OBVIOUS
<1>1. GuardTypes /\ GuardTypes'
  BY GuardTypesNext DEF GuardInv
<1>2. SUFFICES ASSUME ~blind' PROVE Paced'
  BY <1>1 DEF GuardInv
<1>3. ~blind => Paced
  BY DEF GuardInv
<1>4. \A j \in FailureKeys : failures[j] \in Nat /\ failures[j] <= failures[j]
  BY <1>1 DEF GuardTypes
<1>5. ASSUME NEW r \in LoginRequests, NEW n \in Names, NEW a \in Addresses, NEW right \in BOOLEAN,
             NEW answered \in BOOLEAN, NEW counted \in BOOLEAN, TryLogin(r, n, a, right, answered, counted)
      PROVE  Paced'
  <2>1. ~blind /\ counted /\ Settings(answered) = Guard
    BY <1>2, <1>5 DEF TryLogin
  <2>2. Paced
    BY <1>3, <2>1
  <2>3. ~Locks(OfName(n), Guard.maxFailures, Guard) /\ ~Locks(OfAddress(a), Guard.maxAddressFailures, Guard)
    BY <1>5, <2>1 DEF TryLogin, Locked
  <2>4. lreq'[r].name = n /\ lreq'[r].address = a
    BY <1>1, <1>5 DEF TryLogin, GuardTypes
  <2>5. \A i \in {1, 2} : ~Locks(Keyed(i, Tried(i, lreq'[r])), Limit(i), Guard)
    BY <2>3, <2>4 DEF Keyed, Tried, Limit, OfName, OfAddress
  <2>6. \A j \in LoginRequests \ {r} : lreq'[j] = lreq[j]
    BY <1>1, <1>5 DEF TryLogin, GuardTypes
  <2>7. UNCHANGED <<clock, failures>>
    BY <1>5 DEF TryLogin
  <2> QED
    BY <1>1, <2>2, <2>5, <2>6, <2>7, PaceOfAdmission
<1>6. ASSUME NEW r \in LoginRequests, RecordFailure(r) PROVE Paced'
  <2>1. Paced
    BY <1>2, <1>3, <1>6 DEF RecordFailure
  <2> QED
    BY <1>1, <1>6, <2>1, PaceOfFailures
<1>7. ASSUME NEW r \in LoginRequests, ClearFailures(r) PROVE Paced'
  <2>1. Paced /\ clock' = clock
    BY <1>2, <1>3, <1>7 DEF ClearFailures
  <2>2. \A k \in FailureKeys : failures'[k] <= failures[k]
    BY <1>1, <1>7 DEF ClearFailures, GuardTypes
  <2>3. \A j \in LoginRequests : lreq'[j].pc = "record" => lreq'[j] = lreq[j]
    BY <1>1, <1>7 DEF ClearFailures, GuardTypes, Asleep
  <2> QED
    BY <1>1, <2>1, <2>2, <2>3, PaceStays
<1>8. ASSUME NEW r \in LoginRequests, LoginFails(r) PROVE Paced'
  <2>1. Paced /\ clock' = clock /\ failures' = failures
    BY <1>2, <1>3, <1>8 DEF LoginFails
  <2>2. \A j \in LoginRequests : lreq'[j].pc = "record" => lreq'[j] = lreq[j]
    BY <1>1, <1>8 DEF LoginFails, GuardTypes, Asleep
  <2> QED
    BY <1>1, <1>4, <2>1, <2>2, PaceStays
<1>9. ASSUME \/ \E n \in Names : PasswordClears(n)
             \/ PurgeAttempts
             \/ UNCHANGED guardVars
      PROVE  Paced'
  <2>1. Paced /\ clock' = clock /\ lreq' = lreq
    BY <1>2, <1>3, <1>9 DEF PasswordClears, PurgeAttempts, guardVars
  <2>2. \A k \in FailureKeys : failures'[k] <= failures[k]
    BY <1>1, <1>9 DEF PasswordClears, PurgeAttempts, guardVars, GuardTypes
  <2> QED
    BY <1>1, <2>1, <2>2, PaceStays
<1>10. CASE Tick
  <2>1. Paced
    BY <1>2, <1>3, <1>10 DEF Tick
  <2> QED
    BY <1>1, <1>10, <2>1, PaceOfTime
<1> QED
  BY <1>5, <1>6, <1>7, <1>8, <1>9, <1>10 DEF GuardNext

LEMMA RoundedUp ==
    ASSUME NEW w \in Nat, NEW l \in Nat \ {0}
    PROVE  (w + l - 1) \div l \in Nat /\ w <= ((w + l - 1) \div l) * l
  OBVIOUS

\* Names and addresses have no more failures in a window than the limit, and for each
\* lockout that fits into it as many as there are logins in flight (login, recentFailures,
\* recordLoginAttempt).
THEOREM FailuresStayBounded == GuardSpec => []FailuresBounded
<1>1. ASSUME GuardInv PROVE FailuresBounded
  <2> SUFFICES ASSUME ~blind PROVE
               \A i \in {1, 2} : Limit(i) > 0 => \A v \in Tries(i) :
                  Count(Keyed(i, v), Guard) <= Allowed(i, Bursts)
    BY DEF FailuresBounded, Limit, Tries, Keyed, OfName, OfAddress, Allowed
  <2> SUFFICES ASSUME NEW i \in {1, 2}, Limit(i) > 0, NEW v \in Tries(i)
               PROVE  Count(Keyed(i, v), Guard) <= Allowed(i, Bursts)
    OBVIOUS
  <2> DEFINE s == clock - Guard.window + 1
  <2>1. GuardTypes /\ Paced
    BY <1>1 DEF GuardInv
  <2>2. clock \in Nat /\ Guard.window \in Nat \ {0} /\ Guard.lockout \in Nat \ {0}
    BY <2>1, GuardInRange, GuardAssumption DEF GuardTypes
  <2>3. Bursts \in Nat /\ Guard.window <= Bursts * Guard.lockout
    BY <2>2, RoundedUp DEF Bursts
  <2>4. s \in Int /\ Spans(s, clock, Bursts)
    BY <2>2, <2>3 DEF Spans
  <2>5. Recorded(i, v, s, clock) + Coming(i, v, clock) <= Allowed(i, Bursts)
    BY <2>1, <2>2, <2>3, <2>4 DEF Paced
  <2>6. Recent(Keyed(i, v), Guard) = Between(i, v, s, clock)
    BY <2>1, <2>2 DEF Recent, Between, Keyed, GuardTypes, FailureKeys
  <2>7. Count(Keyed(i, v), Guard) = Recorded(i, v, s, clock)
    BY <2>6 DEF Count, Recorded
  <2>8. Coming(i, v, clock) \in Nat /\ Recorded(i, v, s, clock) \in Nat /\ Allowed(i, Bursts) \in Int
    BY <2>1, <2>2, <2>3, <2>4, UnderWayType, RecordedType, AllowedType DEF Coming
  <2> QED
    BY <2>5, <2>7, <2>8
<1> QED
  BY <1>1, GuardInvInit, GuardInvNext, PTL DEF GuardSpec
=============================================================================
