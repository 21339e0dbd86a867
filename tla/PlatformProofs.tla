---------------------------- MODULE PlatformProofs ---------------------------
(***************************************************************************)
(* Theorems about what runs beside the business of Vendra, for any number  *)
(* of servers, files, origins and items: migrations, the recorder of       *)
(* blocked origins, contracts that need a lawyer, the work inbox and the   *)
(* deliveries of notifications.                                            *)
(***************************************************************************)
EXTENDS Notifications, Migrate, PolicyReports, AiBudget, WorkInbox, FiniteSetTheorems,
        SequenceTheorems, TLAPS

(***************************************************************************)
(* Migrate                                                                 *)
(***************************************************************************)
\* What is applied is the files in order, and each has its version on record.
EachFileOnce == schema = [i \in 1 .. Len(schema) |-> i] /\ versions = 1 .. Len(schema)

\* A server that came to a file has the ones before it on record.
Server == [pc : {"down", "look", "apply", "failed", "up"}, file : Nat \ {0}]
ServerOK(q) == q \in Server /\ q.file <= Len(schema) + 1

MigrateInv ==
    /\ schema \in Seq(Nat)
    /\ EachFileOnce
    /\ \A s \in Servers : ServerOK(server[s])
    /\ DOMAIN server = Servers

LEMMA DownOK == ASSUME schema \in Seq(Nat) PROVE ServerOK(Down)
  BY DEF ServerOK, Server, Down

LEMMA MigrateInvInit == MigrateInit => MigrateInv
<1> SUFFICES ASSUME MigrateInit PROVE MigrateInv
  OBVIOUS
<1>1. schema \in Seq(Nat) /\ Len(schema) = 0
  BY DEF MigrateInit
<1>2. EachFileOnce
  BY <1>1, SMTT(30) DEF MigrateInit, EachFileOnce
<1> QED
  BY <1>1, <1>2, DownOK DEF MigrateInit, MigrateInv

\* One server moves, and no file is taken back.
LEMMA MovesOK ==
    ASSUME MigrateInv, NEW s \in Servers, NEW q, Moves(s, q),
           schema' \in Seq(Nat), Len(schema') >= Len(schema),
           q \in Server, q.file <= Len(schema') + 1
    PROVE  (\A t \in Servers : ServerOK(server[t])') /\ DOMAIN server' = Servers
<1>1. DOMAIN server' = Servers /\ server'[s] = q
  BY DEF MigrateInv, Moves
<1>2. ASSUME NEW t \in Servers, t # s PROVE ServerOK(server[t])'
  <2>1. server'[t] = server[t] /\ ServerOK(server[t])
    BY <1>2 DEF MigrateInv, Moves
  <2> QED
    BY <2>1 DEF ServerOK, Server, MigrateInv
<1> QED
  BY <1>1, <1>2 DEF ServerOK

\* The record a server writes when a file is applied.
LEMMA Advanced ==
    ASSUME NEW q \in Server
    PROVE  /\ [q EXCEPT !.pc = "look", !.file = @ + 1] \in Server
           /\ [q EXCEPT !.pc = "look", !.file = @ + 1].file = q.file + 1
<1>1. PICK m \in Server : m = [q EXCEPT !.pc = "look"]
  BY DEF Server
<1>2. [m EXCEPT !.file = @ + 1] = [q EXCEPT !.pc = "look", !.file = @ + 1]
  BY <1>1
<1>3. [m EXCEPT !.file = @ + 1] \in Server
  BY DEF Server
<1>4. [q EXCEPT !.pc = "look", !.file = @ + 1].file = q.file + 1
  BY DEF Server
<1> QED
  BY <1>2, <1>3, <1>4

LEMMA MigrateInvNext == MigrateInv /\ [MigrateNext]_migrateVars => MigrateInv'
<1> SUFFICES ASSUME MigrateInv, [MigrateNext]_migrateVars PROVE MigrateInv'
  OBVIOUS
<1>1. ASSUME UNCHANGED <<schema, versions>>,
             (\A t \in Servers : ServerOK(server[t])') /\ DOMAIN server' = Servers
      PROVE  MigrateInv'
  BY <1>1 DEF MigrateInv, EachFileOnce
<1>2. ASSUME NEW s \in Servers, NEW q, Moves(s, q), UNCHANGED <<schema, versions>>, ServerOK(q)
      PROVE  MigrateInv'
  BY <1>1, <1>2, MovesOK DEF MigrateInv, ServerOK
<1>3. ASSUME NEW s \in Servers PROVE ServerOK(server[s])
  BY DEF MigrateInv
<1>4. ASSUME NEW s \in Servers, TakeLock(s) PROVE MigrateInv'
  BY <1>2, <1>4, DownOK DEF TakeLock, Down, ServerOK, Server, MigrateInv
<1>5. ASSUME NEW s \in Servers, LookAtFile(s) PROVE MigrateInv'
  <2> DEFINE q == server[s]
  <2>1. CASE q.file \in versions
    <3>1. q.file <= Len(schema)
      BY <2>1, <1>3 DEF MigrateInv, EachFileOnce
    <3>2. ServerOK([q EXCEPT !.file = @ + 1])
      BY <3>1, <1>3, <1>5 DEF ServerOK, Server, LookAtFile, MigrateInv
    <3> QED
      BY <3>2, <2>1, <1>2, <1>5 DEF LookAtFile
  <2>2. CASE q.file \notin versions
    <3>2. ServerOK([q EXCEPT !.pc = "apply"])
      BY <1>3, <1>5 DEF ServerOK, Server, LookAtFile
    <3> QED
      BY <3>2, <2>2, <1>2, <1>5 DEF LookAtFile
  <2> QED
    BY <2>1, <2>2
<1>6. ASSUME NEW s \in Servers, ApplyFile(s) PROVE MigrateInv'
  <2> DEFINE q == server[s]
  <2>1. CASE ~VersionFree(q.file)
    <3>2. ServerOK([q EXCEPT !.pc = "failed"])
      BY <1>3, <1>6 DEF ServerOK, Server
    <3> QED
      BY <3>2, <2>1, <1>2, <1>6 DEF ApplyFile
  <2>2. CASE VersionFree(q.file)
    <3>0. q \in Server /\ q.file \in Nat \ {0} /\ q.file <= Len(schema) + 1
      BY <1>3 DEF ServerOK, Server
    <3>1. schema' = Append(schema, q.file) /\ versions' = versions \cup {q.file}
      BY <2>2, <1>6 DEF ApplyFile
    <3>6. Moves(s, [q EXCEPT !.pc = "look", !.file = @ + 1])
      BY <2>2, <1>6 DEF ApplyFile
    <3>2. q.file = Len(schema) + 1
      BY <3>0, <2>2 DEF VersionFree, MigrateInv, EachFileOnce
    <3>3. schema' \in Seq(Nat) /\ Len(schema') = Len(schema) + 1
      BY <3>0, <3>1 DEF MigrateInv
    <3>4. EachFileOnce'
      <4>1. versions' = 1 .. Len(schema')
        BY <3>1, <3>2, <3>3 DEF MigrateInv, EachFileOnce
      <4>2. \A i \in 1 .. Len(schema') : schema'[i] = i
        BY <3>1, <3>2, <3>3 DEF MigrateInv, EachFileOnce
      <4> QED
        BY <3>3, <4>1, <4>2 DEF EachFileOnce
    <3> HIDE DEF q
    <3> DEFINE next == [q EXCEPT !.pc = "look", !.file = @ + 1]
    <3>7. next \in Server /\ next.file = q.file + 1 /\ Moves(s, next)
      BY <3>0, <3>6, Advanced
    <3> HIDE DEF next
    <3>9. q.file + 1 <= Len(schema') + 1 /\ Len(schema') >= Len(schema)
      BY <3>0, <3>2, <3>3 DEF MigrateInv
    <3>8. (\A t \in Servers : ServerOK(server[t])') /\ DOMAIN server' = Servers
      BY <3>3, <3>7, <3>9, MovesOK
    <3> QED
      BY <3>3, <3>4, <3>8 DEF MigrateInv
  <2> QED
    BY <2>1, <2>2
<1>7. ASSUME NEW s \in Servers, Unlock(s) PROVE MigrateInv'
  <2>1. ServerOK([server[s] EXCEPT !.pc = "up"])
    BY <1>3 DEF ServerOK, Server
  <2> QED
    BY <2>1, <1>2, <1>7, DownOK DEF Unlock, MigrateInv
<1>8. ASSUME NEW s \in Servers, LockLost(s) PROVE MigrateInv'
  BY <1>1, <1>8 DEF LockLost, MigrateInv, ServerOK
<1>9. ASSUME NEW s \in Servers, MigrationFails(s) PROVE MigrateInv'
  <2>1. ServerOK([server[s] EXCEPT !.pc = "failed"])
    BY <1>3 DEF ServerOK, Server
  <2> QED
    BY <2>1, <1>2, <1>9 DEF MigrationFails
<1>10. ASSUME NEW s \in Servers, ServerDies(s) PROVE MigrateInv'
  BY <1>2, <1>10, DownOK DEF ServerDies, MigrateInv
<1>11. CASE UNCHANGED migrateVars
  BY <1>11 DEF migrateVars, MigrateInv, EachFileOnce, ServerOK
<1> QED
  BY <1>4, <1>5, <1>6, <1>7, <1>8, <1>9, <1>10, <1>11 DEF MigrateNext, StartStep

\* Migrate: whoever applies the files, and whatever lock is lost or server dies on the
\* way, every file runs once and after the ones before it.
THEOREM FilesInOrder == MigrateSpec => []EachFileOnce
<1>1. MigrateInv => EachFileOnce
  BY DEF MigrateInv
<1> QED
  BY <1>1, MigrateInvInit, MigrateInvNext, PTL DEF MigrateSpec

\* No file is ahead of the last one.
UpgradeInv ==
    /\ MigrateInv
    /\ Len(schema) <= Files
    /\ \A s \in Servers : server[s].pc = "apply" => server[s].file <= Files

\* A file that is applied is the one after those on record.
LEMMA AppliedIsNext ==
    ASSUME UpgradeInv, NEW s \in Servers, ApplyFile(s), VersionFree(server[s].file)
    PROVE  /\ schema' = Append(schema, Len(schema) + 1) /\ Len(schema) < Files
           /\ server' = [server EXCEPT ![s] = [server[s] EXCEPT !.pc = "look", !.file = server[s].file + 1]]
<1>1. PICK n : n = server[s].file
  OBVIOUS
<1>2. n \in Nat \ {0} /\ n <= Len(schema) + 1 /\ n <= Files /\ schema \in Seq(Nat)
  BY <1>1 DEF UpgradeInv, MigrateInv, ServerOK, Server, ApplyFile
<1>3. n \notin 1 .. Len(schema)
  BY <1>1 DEF VersionFree, UpgradeInv, MigrateInv, EachFileOnce
<1>4. Len(schema) \in Nat
  BY <1>2
<1>5. n = Len(schema) + 1
  BY <1>2, <1>3, <1>4
<1>6. schema' = Append(schema, n) /\ server' = [server EXCEPT ![s] = [server[s] EXCEPT !.pc = "look", !.file = server[s].file + 1]]
  BY <1>1 DEF ApplyFile, Moves
<1> QED
  BY <1>2, <1>4, <1>5, <1>6, MigrateAssumption

LEMMA UpgradeInvInit == MigrateInit => UpgradeInv
<1> SUFFICES ASSUME MigrateInit PROVE UpgradeInv
  OBVIOUS
<1>1. MigrateInv
  BY MigrateInvInit
<1>2. Len(schema) <= Files
  BY MigrateAssumption DEF MigrateInit
<1> QED
  BY <1>1, <1>2 DEF UpgradeInv, MigrateInit, Down

LEMMA UpgradeInvNext == UpgradeInv /\ [MigrateNext]_migrateVars => UpgradeInv'
<1> SUFFICES ASSUME UpgradeInv, [MigrateNext]_migrateVars PROVE UpgradeInv'
  OBVIOUS
<1>1. MigrateInv /\ MigrateInv'
  BY MigrateInvNext DEF UpgradeInv
\* The schema stays, and nobody goes to apply what is no file.
<1>2. ASSUME NEW s \in Servers, NEW q, Moves(s, q), schema' = schema, q.pc = "apply" => q.file <= Files
      PROVE  UpgradeInv'
  <2>1. server'[s] = q /\ \A t \in Servers \ {s} : server'[t] = server[t]
    BY <1>1, <1>2 DEF Moves, MigrateInv
  <2> QED
    BY <1>1, <1>2, <2>1 DEF UpgradeInv
<1>3. ASSUME UNCHANGED <<schema, server>> PROVE UpgradeInv'
  BY <1>1, <1>3 DEF UpgradeInv
<1>4. \A s \in Servers : DOMAIN server[s] = {"pc", "file"}
  BY <1>1 DEF MigrateInv, ServerOK, Server
<1>5. ASSUME NEW s \in Servers, TakeLock(s) PROVE UpgradeInv'
  BY <1>2, <1>5 DEF TakeLock, Down
<1>6. ASSUME NEW s \in Servers, LookAtFile(s) PROVE UpgradeInv'
  <2>1. CASE server[s].file \in versions
    <3>1. Moves(s, [server[s] EXCEPT !.file = @ + 1]) /\ server[s].pc = "look" /\ schema' = schema
      BY <1>6, <2>1 DEF LookAtFile
    <3>2. [server[s] EXCEPT !.file = @ + 1].pc = "look"
      BY <1>4, <3>1
    <3> QED
      BY <1>2, <3>1, <3>2
  <2>2. CASE server[s].file \notin versions
    <3>1. Moves(s, [server[s] EXCEPT !.pc = "apply"]) /\ server[s].file <= Files /\ schema' = schema
      BY <1>6, <2>2 DEF LookAtFile
    <3>2. [server[s] EXCEPT !.pc = "apply"].file = server[s].file
      BY <1>4
    <3> QED
      BY <1>2, <3>1, <3>2
  <2> QED
    BY <2>1, <2>2
<1>7. ASSUME NEW s \in Servers, ApplyFile(s) PROVE UpgradeInv'
  <2>1. CASE VersionFree(server[s].file)
    <3>1. /\ schema' = Append(schema, Len(schema) + 1) /\ Len(schema) < Files
          /\ server' = [server EXCEPT ![s] = [server[s] EXCEPT !.pc = "look", !.file = server[s].file + 1]]
      BY <1>7, <2>1, AppliedIsNext
    <3>2. Len(schema') <= Files
      BY <1>1, <3>1, MigrateAssumption DEF MigrateInv
    <3>3. server'[s].pc = "look" /\ \A t \in Servers \ {s} : server'[t] = server[t]
      BY <1>1, <1>4, <3>1 DEF MigrateInv
    <3> QED
      BY <1>1, <3>2, <3>3 DEF UpgradeInv
  <2>2. CASE ~VersionFree(server[s].file)
    <3>1. Moves(s, [server[s] EXCEPT !.pc = "failed"]) /\ schema' = schema
      BY <1>7, <2>2 DEF ApplyFile
    <3>2. [server[s] EXCEPT !.pc = "failed"].pc = "failed"
      BY <1>4
    <3> QED
      BY <1>2, <3>1, <3>2
  <2> QED
    BY <2>1, <2>2
<1>8. ASSUME NEW s \in Servers, Unlock(s) PROVE UpgradeInv'
  <2>1. [server[s] EXCEPT !.pc = "up"].pc = "up" /\ Down.pc = "down"
    BY <1>4 DEF Down
  <2> QED
    BY <1>2, <1>8, <2>1 DEF Unlock
<1>9. ASSUME NEW s \in Servers, MigrationFails(s) PROVE UpgradeInv'
  <2>1. [server[s] EXCEPT !.pc = "failed"].pc = "failed"
    BY <1>4
  <2> QED
    BY <1>2, <1>9, <2>1 DEF MigrationFails
<1>10. ASSUME NEW s \in Servers, ServerDies(s) PROVE UpgradeInv'
  BY <1>2, <1>10 DEF ServerDies, Down
<1>11. ASSUME NEW s \in Servers, LockLost(s) PROVE UpgradeInv'
  BY <1>3, <1>11 DEF LockLost
<1>12. CASE UNCHANGED migrateVars
  BY <1>3, <1>12 DEF migrateVars
<1> QED
  BY <1>5, <1>6, <1>7, <1>8, <1>9, <1>10, <1>11, <1>12 DEF MigrateNext, StartStep

\* Those that are up.
Up == {s \in Servers : server[s].pc = "up"}

LEMMA MigrateStep == UpgradeInv /\ [MigrateNext]_migrateVars => [UpgradeOf!UpgradeNext]_<<schema, Up>>
<1> SUFFICES ASSUME UpgradeInv, [MigrateNext]_migrateVars PROVE [UpgradeOf!UpgradeNext]_<<schema, Up>>
  OBVIOUS
<1>1. MigrateInv /\ DOMAIN server = Servers /\ \A s \in Servers : DOMAIN server[s] = {"pc", "file"}
  BY DEF UpgradeInv, MigrateInv, ServerOK, Server
\* One server moves: it comes up, it is up no longer, or the others do not see it.
<1>2. ASSUME NEW s \in Servers, NEW q, Moves(s, q), schema' = schema, q.pc # "up"
      PROVE  [UpgradeOf!UpgradeNext]_<<schema, Up>>
  <2>1. server'[s] = q /\ \A t \in Servers \ {s} : server'[t] = server[t]
    BY <1>1, <1>2 DEF Moves
  <2>2. Up' = Up \ {s}
    BY <1>2, <2>1 DEF Up
  <2>3. UpgradeOf!Stop(s)
    BY <1>2, <2>2 DEF UpgradeOf!Stop, Up
  <2> QED
    BY <2>3 DEF UpgradeOf!UpgradeNext
<1>3. ASSUME NEW s \in Servers, TakeLock(s) PROVE [UpgradeOf!UpgradeNext]_<<schema, Up>>
  BY <1>2, <1>3 DEF TakeLock, Down
<1>4. ASSUME NEW s \in Servers, LookAtFile(s) PROVE [UpgradeOf!UpgradeNext]_<<schema, Up>>
  <2>1. PICK q : q = IF server[s].file \in versions THEN [server[s] EXCEPT !.file = @ + 1] ELSE [server[s] EXCEPT !.pc = "apply"]
    OBVIOUS
  <2>2. Moves(s, q) /\ schema' = schema /\ server[s].pc = "look"
    BY <1>4, <2>1 DEF LookAtFile
  <2>3. q.pc # "up"
    BY <1>1, <2>1, <2>2
  <2> QED
    BY <1>2, <2>2, <2>3
<1>5. ASSUME NEW s \in Servers, ApplyFile(s) PROVE [UpgradeOf!UpgradeNext]_<<schema, Up>>
  <2>1. CASE VersionFree(server[s].file)
    <3>1. /\ schema' = Append(schema, Len(schema) + 1) /\ Len(schema) < Files
          /\ server' = [server EXCEPT ![s] = [server[s] EXCEPT !.pc = "look", !.file = server[s].file + 1]]
      BY <1>5, <2>1, AppliedIsNext
    <3>2. server[s].pc = "apply" /\ server'[s].pc = "look" /\ \A t \in Servers \ {s} : server'[t] = server[t]
      BY <1>1, <1>5, <3>1 DEF ApplyFile
    <3>3. Up' = Up
      BY <3>2 DEF Up
    <3>4. UpgradeOf!ApplyNext
      BY <3>1, <3>3 DEF UpgradeOf!ApplyNext, Up
    <3> QED
      BY <3>4 DEF UpgradeOf!UpgradeNext
  <2>2. CASE ~VersionFree(server[s].file)
    <3>1. Moves(s, [server[s] EXCEPT !.pc = "failed"]) /\ schema' = schema
      BY <1>5, <2>2 DEF ApplyFile
    <3>2. [server[s] EXCEPT !.pc = "failed"].pc = "failed"
      BY <1>1
    <3> QED
      BY <1>2, <3>1, <3>2
  <2> QED
    BY <2>1, <2>2
<1>6. ASSUME NEW s \in Servers, Unlock(s) PROVE [UpgradeOf!UpgradeNext]_<<schema, Up>>
  <2>1. CASE server[s].pc = "failed"
    <3>1. Moves(s, Down) /\ schema' = schema /\ Down.pc # "up"
      BY <1>6, <2>1 DEF Unlock, Down
    <3> QED
      BY <1>2, <3>1
  <2>2. CASE server[s].pc # "failed"
    <3>1. server' = [server EXCEPT ![s] = [server[s] EXCEPT !.pc = "up"]] /\ schema' = schema /\ server[s].file > Files
      BY <1>6, <2>2 DEF Unlock, Moves
    <3>2. server'[s].pc = "up" /\ \A t \in Servers \ {s} : server'[t] = server[t]
      BY <1>1, <3>1
    <3>3. Up' = Up \cup {s}
      BY <3>2 DEF Up
    <3>4. server[s].file \in Nat /\ server[s].file <= Len(schema) + 1 /\ schema \in Seq(Nat) /\ Len(schema) <= Files
      BY DEF UpgradeInv, MigrateInv, ServerOK, Server
    <3>5. Len(schema) = Files
      BY <3>1, <3>4, MigrateAssumption
    <3>6. UpgradeOf!Serve(s)
      BY <3>1, <3>3, <3>5 DEF UpgradeOf!Serve, Up
    <3> QED
      BY <3>6 DEF UpgradeOf!UpgradeNext
  <2> QED
    BY <2>1, <2>2
<1>7. ASSUME NEW s \in Servers, MigrationFails(s) PROVE [UpgradeOf!UpgradeNext]_<<schema, Up>>
  <2>1. [server[s] EXCEPT !.pc = "failed"].pc = "failed"
    BY <1>1
  <2> QED
    BY <1>2, <1>7, <2>1 DEF MigrationFails
<1>8. ASSUME NEW s \in Servers, ServerDies(s) PROVE [UpgradeOf!UpgradeNext]_<<schema, Up>>
  BY <1>2, <1>8 DEF ServerDies, Down
<1>9. ASSUME UNCHANGED <<schema, server>> PROVE [UpgradeOf!UpgradeNext]_<<schema, Up>>
  BY <1>9 DEF Up
<1>10. ASSUME NEW s \in Servers, LockLost(s) PROVE [UpgradeOf!UpgradeNext]_<<schema, Up>>
  BY <1>9, <1>10 DEF LockLost
<1>11. CASE UNCHANGED migrateVars
  BY <1>9, <1>11 DEF migrateVars
<1> QED
  BY <1>3, <1>4, <1>5, <1>6, <1>7, <1>8, <1>10, <1>11 DEF MigrateNext, StartStep

\* The migrations of any number of servers implement SchemaUpgrade, whatever locks are
\* lost and whoever dies: each step of a server applies the next file, comes up on the
\* whole schema, goes down, or changes nothing that matters (Open, Migrate).
THEOREM UpgradeImplemented == MigrateSpec => ImplementsUpgrade
<1>1. MigrateInit => UpgradeOf!UpgradeInit
  BY DEF MigrateInit, UpgradeOf!UpgradeInit, Down
<1>2. UpgradeInv /\ [MigrateNext]_migrateVars => [UpgradeOf!UpgradeNext]_(UpgradeOf!upgradeVars)
  BY MigrateStep DEF UpgradeOf!upgradeVars, Up
<1> QED
  BY <1>1, <1>2, UpgradeInvInit, UpgradeInvNext, PTL DEF MigrateSpec, ImplementsUpgrade, UpgradeOf!UpgradeSpec

(***************************************************************************)
(* PolicyReports                                                           *)
(***************************************************************************)
ReportsInv ==
    /\ violations \in [Blocked -> [last : Nat, first : Nat]]
    /\ everSeen \in [Blocked -> Nat]
    /\ moment \in Nat \ {0}
    /\ IsFiniteSet(Kept)
    /\ \A k \in Blocked : violations[k].last <= moment /\ everSeen[k] <= moment
    /\ \A k \in Kept : everSeen[k] = violations[k].last
    /\ LatestKept

LEMMA ReportKeeps == ASSUME ReportsInv, NEW k \in Blocked, Report(k) PROVE ReportsInv'
<1> DEFINE now == [last |-> moment, first |-> moment]
<1>0. now \in [last : Nat, first : Nat] /\ now # Nowhere /\ now.last = moment
  BY DEF ReportsInv, Nowhere
<1> HIDE DEF now
<1> Kept \subseteq Blocked /\ Kept' \subseteq Blocked
  BY DEF Kept
<1>1. everSeen' = [everSeen EXCEPT ![k] = moment] /\ moment' = moment
  BY DEF Report
<1>2. everSeen' \in [Blocked -> Nat] /\ \A j \in Blocked : everSeen'[j] <= moment
  BY <1>1 DEF ReportsInv
<1>3. CASE k \in Kept
  <2>1. violations' = [violations EXCEPT ![k].last = moment]
    BY <1>3 DEF Report
  <2>2. violations' \in [Blocked -> [last : Nat, first : Nat]] /\ violations'[k].last = moment
    BY <2>1 DEF ReportsInv
  <2>3. \A j \in Blocked \ {k} : violations'[j] = violations[j] /\ everSeen'[j] = everSeen[j]
    BY <2>1, <1>1 DEF ReportsInv
  <2>4. everSeen'[k] = moment
    BY <1>1 DEF ReportsInv
  <2>5. Kept' = Kept
    <3>1. violations'[k] # Nowhere
      BY <2>2 DEF Nowhere, ReportsInv
    <3> QED
      BY <1>3, <2>3, <3>1 DEF Kept
  <2>6. \A j \in Blocked : violations[j].last <= violations'[j].last /\ violations'[j].last <= moment
    BY <2>2, <2>3 DEF ReportsInv
  <2>7. LatestKept'
    <3>1. ASSUME NEW j \in Blocked \ Kept, everSeen'[j] > 0, NEW i \in Kept
          PROVE  Cardinality(Kept) = MaxViolations /\ everSeen'[j] <= violations'[i].last
      <4>1. everSeen'[j] = everSeen[j]
        BY <1>3, <2>3, <3>1
      <4>2. Cardinality(Kept) = MaxViolations /\ everSeen[j] <= violations[i].last
        BY <3>1, <4>1 DEF LatestKept, ReportsInv
      <4> QED
        BY <1>2, <2>2, <2>6, <3>1, <4>1, <4>2 DEF ReportsInv
    <3>2. Cardinality(Kept') <= MaxViolations
      BY <2>5 DEF LatestKept, ReportsInv
    <3> QED
      BY <1>3, <2>5, <3>1, <3>2 DEF LatestKept
  <2>8. \A j \in Kept' : everSeen'[j] = violations'[j].last
    BY <2>2, <2>3, <2>4, <2>5 DEF ReportsInv
  <2>9. IsFiniteSet(Kept')
    BY <2>5 DEF ReportsInv
  <2> QED
    BY <1>1, <1>2, <2>2, <2>6, <2>7, <2>8, <2>9 DEF ReportsInv
<1>4. ASSUME NEW old \in SUBSET Blocked, k \notin Kept,
             violations' = [j \in Blocked |-> IF j = k THEN now ELSE IF j \in old THEN Nowhere ELSE violations[j]],
             old \subseteq Kept, IsFiniteSet(Kept'), LatestKept'
      PROVE  ReportsInv'
  <2>1. violations' \in [Blocked -> [last : Nat, first : Nat]] /\ violations'[k] = now
    BY <1>0, <1>4 DEF ReportsInv, Nowhere
  <2>2. \A j \in Blocked \ {k} : everSeen'[j] = everSeen[j] /\ violations'[j] \in {violations[j], Nowhere}
    BY <1>1, <1>4 DEF ReportsInv
  <2>3. \A j \in Kept' : everSeen'[j] = violations'[j].last
    <3> SUFFICES ASSUME NEW j \in Kept' PROVE everSeen'[j] = violations'[j].last
      OBVIOUS
    <3>1. CASE j = k
      BY <1>0, <1>1, <2>1, <3>1 DEF ReportsInv
    <3>2. CASE j # k
      <4>1. j \in Blocked /\ violations'[j] # Nowhere
        BY DEF Kept
      <4>2. violations'[j] = violations[j] /\ j \in Kept
        BY <2>2, <3>2, <4>1 DEF Kept
      <4> QED
        BY <2>2, <3>2, <4>1, <4>2 DEF ReportsInv
    <3> QED
      BY <3>1, <3>2
  <2>4. \A j \in Blocked : violations'[j].last <= moment
    BY <1>0, <2>1, <2>2 DEF ReportsInv, Nowhere
  <2> QED
    BY <1>1, <1>2, <1>4, <2>1, <2>3, <2>4 DEF ReportsInv
<1>5. CASE k \notin Kept /\ Cardinality(Kept) < MaxViolations
  <2>1. violations' = [violations EXCEPT ![k] = now]
    BY <1>5 DEF Report, now
  <2>2. violations' = [j \in Blocked |-> IF j = k THEN now ELSE IF j \in {} THEN Nowhere ELSE violations[j]]
    BY <2>1 DEF ReportsInv
  <2>3. Kept' = Kept \cup {k}
    BY <1>0, <2>2 DEF Kept
  <2>4. IsFiniteSet(Kept') /\ Cardinality(Kept') = Cardinality(Kept) + 1 /\ Cardinality(Kept) \in Nat
    BY <1>5, <2>3, FS_AddElement, FS_CardinalityType DEF ReportsInv
  <2>5. \A j \in Blocked \ Kept' : everSeen'[j] = everSeen[j] /\ j \notin Kept
    BY <1>1, <2>3 DEF ReportsInv
  <2>6. LatestKept'
    BY <1>5, <2>4, <2>5, ReportsAssumption DEF LatestKept, ReportsInv
  <2> QED
    <3>1. {} \in SUBSET Blocked /\ {} \subseteq Kept /\ k \notin Kept
      BY <1>5
    <3> QED
      BY <1>4, <2>2, <2>4, <2>6, <3>1
<1>6. CASE k \notin Kept /\ ~(Cardinality(Kept) < MaxViolations)
  <2>1. PICK old \in Blocked : Evicted(old) /\ violations' = [violations EXCEPT ![old] = Nowhere, ![k] = now]
    BY <1>6 DEF Report, now
  <2>2. old \in Kept /\ old # k
    BY <1>6, <2>1 DEF Evicted
  <2>3. violations' = [j \in Blocked |-> IF j = k THEN now ELSE IF j \in {old} THEN Nowhere ELSE violations[j]]
    BY <2>1, <2>2 DEF ReportsInv
  <2>4. Kept' = (Kept \ {old}) \cup {k}
    BY <1>0, <2>2, <2>3 DEF Kept
  <2>5. Cardinality(Kept) = MaxViolations /\ Cardinality(Kept) \in Nat
    BY <1>6, FS_CardinalityType, ReportsAssumption DEF ReportsInv, LatestKept
  <2>6. IsFiniteSet(Kept \ {old}) /\ Cardinality(Kept \ {old}) = MaxViolations - 1
    BY <2>2, <2>5, FS_RemoveElement DEF ReportsInv
  <2>7. IsFiniteSet(Kept') /\ Cardinality(Kept') = MaxViolations
    BY <1>6, <2>4, <2>6, FS_AddElement, ReportsAssumption
  <2>8. ASSUME NEW j \in Blocked \ Kept', NEW i \in Kept', everSeen'[j] > 0
        PROVE  everSeen'[j] <= violations'[i].last
    <3>1. everSeen'[j] = everSeen[j] /\ j # k
      BY <1>1, <2>4 DEF ReportsInv
    <3>2. CASE i = k
      BY <1>0, <1>2, <2>3, <3>2
    <3>3. CASE i # k
      <4>1. i \in Kept /\ violations'[i] = violations[i]
        BY <2>3, <2>4, <3>3 DEF Kept
      <4>2. CASE j = old
        BY <2>1, <2>2, <3>1, <4>1, <4>2 DEF Evicted, ReportsInv
      <4>3. CASE j # old
        <5>1. j \notin Kept
          BY <2>4, <4>3
        <5> QED
          BY <2>8, <3>1, <4>1, <5>1 DEF ReportsInv, LatestKept
      <4> QED
        BY <4>2, <4>3
    <3> QED
      BY <3>2, <3>3
  <2>9. LatestKept'
    BY <2>7, <2>8, ReportsAssumption DEF LatestKept
  <2> QED
    <3>1. {old} \in SUBSET Blocked /\ {old} \subseteq Kept /\ k \notin Kept
      BY <1>6, <2>2
    <3> QED
      BY <1>4, <2>3, <2>7, <2>9, <3>1
<1> QED
  BY <1>3, <1>5, <1>6

LEMMA ReportsInvNext == ReportsInv /\ [ReportsNext]_reportVars => ReportsInv'
<1> SUFFICES ASSUME ReportsInv, [ReportsNext]_reportVars PROVE ReportsInv'
  OBVIOUS
<1>1. CASE \E k \in Blocked : Report(k)
  BY <1>1, ReportKeeps
<1>2. CASE Forget
  <2>1. violations' = [k \in Blocked |-> Nowhere] /\ everSeen' = [k \in Blocked |-> 0] /\ moment' = moment
    BY <1>2 DEF Forget
  <2>2. Kept' = {} /\ IsFiniteSet(Kept') /\ Cardinality(Kept') = 0
    BY <2>1, FS_EmptySet DEF Kept
  <2>3. LatestKept'
    BY <2>1, <2>2, ReportsAssumption DEF LatestKept
  <2> QED
    BY <2>1, <2>2, <2>3 DEF ReportsInv, Nowhere
<1>3. CASE MomentPasses
  <2>1. UNCHANGED <<violations, everSeen>> /\ moment' = moment + 1
    BY <1>3 DEF MomentPasses
  <2>2. Kept' = Kept /\ LatestKept'
    BY <2>1 DEF Kept, LatestKept, ReportsInv
  <2> QED
    BY <2>1, <2>2 DEF ReportsInv
<1>4. CASE TrackingStep \/ UNCHANGED reportVars
  <2>1. UNCHANGED <<violations, everSeen, moment>>
    BY <1>4 DEF TrackingStep, AllowRead, AllowWrite, SaveTracking, reportVars
  <2>2. Kept' = Kept /\ LatestKept'
    BY <2>1 DEF Kept, LatestKept, ReportsInv
  <2> QED
    BY <2>1, <2>2 DEF ReportsInv
<1> QED
  BY <1>1, <1>2, <1>3, <1>4 DEF ReportsNext, ReportStep

\* PolicyReports: for a table of any size, what is dropped is older than what is kept.
THEOREM LatestAreKept == ReportsSpec => []LatestKept
<1>1. ReportsInit => ReportsInv
  <2> SUFFICES ASSUME ReportsInit PROVE ReportsInv
    OBVIOUS
  <2>1. Kept = {} /\ IsFiniteSet(Kept) /\ Cardinality(Kept) = 0
    BY FS_EmptySet DEF ReportsInit, Kept
  <2> QED
    BY <2>1, ReportsAssumption DEF ReportsInit, ReportsInv, LatestKept, Nowhere
<1>2. ReportsInv => LatestKept
  BY DEF ReportsInv
<1> QED
  BY <1>1, <1>2, ReportsInvNext, PTL DEF ReportsSpec

(***************************************************************************)
(* AiBudget                                                                *)
(***************************************************************************)
AiInv == DOMAIN aireq = AiRequests /\ ReviewMarked

\* Every step of a request writes its own entry and no other.
LEMMA MarkKept ==
    ASSUME AiInv, NEW r \in AiRequests, NEW q, Asks(r, q), aireq[r].pc # "mark" \/ q.pc = "mark"
    PROVE  /\ DOMAIN aireq' = AiRequests
           /\ (\E o \in AiRequests : aireq[o].pc = "mark") => \E o \in AiRequests : aireq'[o].pc = "mark"
<1>1. DOMAIN aireq' = AiRequests /\ aireq'[r] = q /\ \A o \in AiRequests \ {r} : aireq'[o] = aireq[o]
  BY DEF AiInv, Asks
<1> QED
  BY <1>1

LEMMA AiInvNext == AiInv /\ [AiNext]_aiVars => AiInv'
<1> SUFFICES ASSUME AiInv, [AiNext]_aiVars PROVE AiInv'
  OBVIOUS
<1>1. ASSUME NEW r \in AiRequests, NEW q, Asks(r, q), aireq[r].pc # "mark", UNCHANGED <<review, dropped>>,
             demanded' => demanded
      PROVE  AiInv'
  BY <1>1, MarkKept DEF AiInv, ReviewMarked
<1>2. ASSUME NEW r \in AiRequests, NEW u, NEW contract, LoadAi(r, u, contract) PROVE AiInv'
  BY <1>1, <1>2 DEF LoadAi
<1>3. ASSUME NEW r \in AiRequests, CheckBudget(r) PROVE AiInv'
  BY <1>1, <1>3 DEF CheckBudget
<1>4. ASSUME NEW r \in AiRequests, NEW noted, DispatchCall(r, noted) PROVE AiInv'
  BY <1>1, <1>4 DEF DispatchCall
<1>5. ASSUME NEW r \in AiRequests, NEW usable, AnswerArrives(r, usable) PROVE AiInv'
  BY <1>1, <1>5 DEF AnswerArrives
<1>6. ASSUME NEW r \in AiRequests, NEW reply \in Replies, NEW stored, SaveAnalysis(r, reply, stored) PROVE AiInv'
  <2> DEFINE next == IF stored /\ Demands(reply) THEN [aireq[r] EXCEPT !.pc = "mark"] ELSE Silent
  <2>1. Asks(r, next) /\ aireq[r].pc # "mark" /\ UNCHANGED <<review, dropped>>
    BY <1>6 DEF SaveAnalysis
  <2>2. CASE stored /\ Demands(reply)
    <3>1. aireq'[r] = [aireq[r] EXCEPT !.pc = "mark"] /\ DOMAIN aireq' = AiRequests
      BY <2>1, <2>2 DEF Asks, AiInv
    <3>2. PICK q : q = aireq[r]
      OBVIOUS
    <3>3. aireq'[r].pc = "mark"
      BY <3>1
    <3> QED
      BY <3>1, <3>3 DEF AiInv, ReviewMarked
  <2>3. CASE ~(stored /\ Demands(reply))
    <3>1. demanded' => demanded
      BY <1>6, <2>3 DEF SaveAnalysis, Demands, Replies
    <3> QED
      BY <1>1, <2>1, <3>1
  <2> QED
    BY <2>2, <2>3
<1>7. ASSUME NEW r \in AiRequests, NEW stored \in BOOLEAN, MarkContract(r, stored) PROVE AiInv'
  <2>1. DOMAIN aireq' = AiRequests
    BY <1>7 DEF MarkContract, Asks, AiInv
  <2>2. review' \/ dropped'
    BY <1>7 DEF MarkContract
  <2> QED
    BY <2>1, <2>2 DEF AiInv, ReviewMarked
<1>8. ASSUME NEW r \in AiRequests, EditRead(r) PROVE AiInv'
  BY <1>1, <1>8 DEF EditRead
<1>9. ASSUME NEW r \in AiRequests, NEW sent, EditWrite(r, sent) PROVE AiInv'
  <2>1. Asks(r, Silent) /\ aireq[r].pc # "mark" /\ demanded' = demanded
    BY <1>9 DEF EditWrite
  <2>2. (review => review' \/ dropped') /\ (dropped => dropped')
    BY <1>9 DEF EditWrite
  <2> QED
    BY <2>1, <2>2, MarkKept DEF AiInv, ReviewMarked
<1>10. CASE (\E n \in Caps : SetCap(n)) \/ HalfHour \/ UNCHANGED aiVars
  BY <1>10 DEF SetCap, HalfHour, aiVars, AiInv, ReviewMarked
<1> QED
  BY <1>2, <1>3, <1>4, <1>5, <1>6, <1>7, <1>8, <1>9, <1>10 DEF AiNext, AiRequestStep

\* AiBudget: however many analyses and updates of the contract run at once, one that
\* demands review leaves the mark, unless the mark failed or an update took it away.
THEOREM ReviewIsMarked == AiSpec => []ReviewMarked
<1>1. AiInit => AiInv
  BY DEF AiInit, AiInv, ReviewMarked
<1>2. AiInv => ReviewMarked
  BY DEF AiInv
<1> QED
  BY <1>1, <1>2, AiInvNext, PTL DEF AiSpec

(***************************************************************************)
(* The limit of AiBudget.  What the audit log counts and what was checked  *)
(* but is not counted yet stay together below the highest limit and one    *)
(* more for each request beside the first.                                 *)
(***************************************************************************)
Phases == {"idle", "loaded", "allowed", "asked", "save", "mark", "edit"}

AiRecord == [pc : Phases, who : Callers \cup {Silent.who}, cap : Caps \cup {0},
             contract : BOOLEAN, noted : BOOLEAN, data : BOOLEAN]

NotedOf(u) == {i \in LastHour(u) : billed[u][i].noted}
Missed(u) == {i \in LastHour(u) : ~billed[u][i].noted}
AllowedOf(u) == {r \in AiRequests : aireq[r].pc = "allowed" /\ aireq[r].who = u}
Highest(n) == \A k \in Caps : k <= n

SpendTypes ==
    /\ aireq \in [AiRequests -> AiRecord]
    /\ billed \in [Callers -> Seq([at : Nat, noted : BOOLEAN])]
    /\ half \in Nat /\ unnoted \in Nat /\ cap \in Caps
    /\ unlimited \in BOOLEAN

LimitsKnown ==
    /\ cap = 0 => unlimited
    /\ \A r \in AiRequests : aireq[r].pc = "loaded" => aireq[r].cap \in Caps /\ (aireq[r].cap = 0 => unlimited)

CountsBounded ==
    \A u \in Callers :
        /\ Cardinality(Missed(u)) <= unnoted
        /\ ~unlimited => \A n \in Caps : Highest(n) =>
              Cardinality(NotedOf(u)) + Cardinality(AllowedOf(u)) <= n + Cardinality(AiRequests) - 1

SpendInv == SpendTypes /\ LimitsKnown /\ CountsBounded

SpendIInv == SpendInv /\ review \in BOOLEAN

LEMMA Finite ==
    ASSUME SpendTypes, NEW u \in Callers
    PROVE  /\ IsFiniteSet(LastHour(u)) /\ IsFiniteSet(NotedOf(u)) /\ IsFiniteSet(Missed(u)) /\ IsFiniteSet(AllowedOf(u))
           /\ Cardinality(NotedOf(u)) \in Nat /\ Cardinality(Missed(u)) \in Nat /\ Cardinality(AllowedOf(u)) \in Nat
           /\ Cardinality(AllowedOf(u)) <= Cardinality(AiRequests)
           /\ Cardinality(AiRequests) \in Nat
<1>1. IsFiniteSet(DOMAIN billed[u])
  <2>1. DOMAIN billed[u] = 1 .. Len(billed[u]) /\ Len(billed[u]) \in Nat
    BY DEF SpendTypes
  <2>2. 1 \in Int /\ Len(billed[u]) \in Int
    BY <2>1
  <2> QED
    BY <2>1, <2>2, FS_Interval
<1>2. LastHour(u) \subseteq DOMAIN billed[u] /\ NotedOf(u) \subseteq LastHour(u) /\ Missed(u) \subseteq LastHour(u)
  BY DEF LastHour, NotedOf, Missed
<1>3. IsFiniteSet(LastHour(u)) /\ IsFiniteSet(NotedOf(u)) /\ IsFiniteSet(Missed(u))
  BY <1>1, <1>2, FS_Subset
<1>4. AllowedOf(u) \subseteq AiRequests /\ IsFiniteSet(AiRequests)
  BY AiAssumption DEF AllowedOf
<1>5. IsFiniteSet(AllowedOf(u)) /\ Cardinality(AllowedOf(u)) <= Cardinality(AiRequests)
  BY <1>4, FS_Subset
<1> QED
  BY <1>3, <1>4, <1>5, FS_CardinalityType

\* Sets that only lose members keep the bounds.
LEMMA CountsShrink ==
    ASSUME SpendInv, SpendTypes', unlimited => unlimited', unnoted <= unnoted',
           \A u \in Callers : /\ NotedOf(u)' \subseteq NotedOf(u) /\ Missed(u)' \subseteq Missed(u)
                               /\ AllowedOf(u)' \subseteq AllowedOf(u)
    PROVE  CountsBounded'
<1> SUFFICES ASSUME NEW u \in Callers
             PROVE  /\ Cardinality(Missed(u)') <= unnoted'
                    /\ ~unlimited' => \A n \in Caps : Highest(n) =>
                          Cardinality(NotedOf(u)') + Cardinality(AllowedOf(u)') <= n + Cardinality(AiRequests) - 1
  BY DEF CountsBounded, Highest
<1>1. /\ Cardinality(Missed(u)') <= Cardinality(Missed(u)) /\ Cardinality(NotedOf(u)') <= Cardinality(NotedOf(u))
      /\ Cardinality(AllowedOf(u)') <= Cardinality(AllowedOf(u))
  BY Finite, FS_Subset DEF SpendInv
<1>2. /\ Cardinality(Missed(u)) \in Nat /\ Cardinality(NotedOf(u)) \in Nat /\ Cardinality(AllowedOf(u)) \in Nat
      /\ Cardinality(AiRequests) \in Nat
  BY Finite DEF SpendInv
<1>3. Cardinality(Missed(u)') \in Nat /\ Cardinality(NotedOf(u)') \in Nat /\ Cardinality(AllowedOf(u)') \in Nat
  <2>1. IsFiniteSet(Missed(u)') /\ IsFiniteSet(NotedOf(u)') /\ IsFiniteSet(AllowedOf(u)')
    BY Finite, FS_Subset DEF SpendInv
  <2> QED
    BY <2>1, FS_CardinalityType
<1>4. Cardinality(Missed(u)') <= unnoted'
  BY <1>1, <1>2, <1>3 DEF SpendInv, CountsBounded, SpendTypes
<1>5. ASSUME ~unlimited', NEW n \in Caps, Highest(n)
      PROVE  Cardinality(NotedOf(u)') + Cardinality(AllowedOf(u)') <= n + Cardinality(AiRequests) - 1
  <2>1. Cardinality(NotedOf(u)) + Cardinality(AllowedOf(u)) <= n + Cardinality(AiRequests) - 1
    BY <1>5 DEF SpendInv, CountsBounded
  <2> QED
    BY <1>1, <1>2, <1>3, <2>1, AiAssumption
<1> QED
  BY <1>4, <1>5

\* A request that moves and is not allowed by its move takes nothing of the budget.
LEMMA OneMoves ==
    ASSUME SpendInv, NEW r \in AiRequests, NEW q \in AiRecord, Asks(r, q), q.pc \notin {"allowed", "loaded"},
           UNCHANGED <<cap, billed, half, unlimited, unnoted>>
    PROVE  SpendInv'
<1>1. aireq' \in [AiRequests -> AiRecord] /\ aireq'[r] = q /\ \A o \in AiRequests \ {r} : aireq'[o] = aireq[o]
  BY DEF SpendInv, SpendTypes, Asks
<1>2. SpendTypes'
  BY <1>1 DEF SpendInv, SpendTypes
<1>3. LimitsKnown'
  BY <1>1 DEF SpendInv, LimitsKnown
<1>4. \A u \in Callers : /\ NotedOf(u)' \subseteq NotedOf(u) /\ Missed(u)' \subseteq Missed(u)
                          /\ AllowedOf(u)' \subseteq AllowedOf(u)
  BY <1>1 DEF NotedOf, Missed, LastHour, AllowedOf
<1>5. unnoted <= unnoted'
  BY DEF SpendInv, SpendTypes
<1> QED
  BY <1>2, <1>3, <1>4, <1>5, CountsShrink DEF SpendInv

\* What an update of a field of a request leaves is a request.
LEMMA OfPhase ==
    ASSUME NEW q \in AiRecord, NEW p \in Phases
    PROVE  [q EXCEPT !.pc = p] \in AiRecord /\ [q EXCEPT !.pc = p].pc = p /\ [q EXCEPT !.pc = p].who = q.who
  BY DEF AiRecord

LEMMA OfWho ==
    ASSUME NEW q \in AiRecord, NEW u \in Callers
    PROVE  [q EXCEPT !.who = u] \in AiRecord /\ [q EXCEPT !.who = u].pc = q.pc
  BY DEF AiRecord

LEMMA OfCap ==
    ASSUME NEW q \in AiRecord, NEW n \in Caps
    PROVE  [q EXCEPT !.cap = n] \in AiRecord /\ [q EXCEPT !.cap = n].pc = q.pc /\ [q EXCEPT !.cap = n].cap = n
  BY DEF AiRecord

LEMMA OfContract ==
    ASSUME NEW q \in AiRecord, NEW b \in BOOLEAN
    PROVE  /\ [q EXCEPT !.contract = b] \in AiRecord /\ [q EXCEPT !.contract = b].pc = q.pc
           /\ [q EXCEPT !.contract = b].cap = q.cap
  BY DEF AiRecord

LEMMA OfData ==
    ASSUME NEW q \in AiRecord, NEW b \in BOOLEAN
    PROVE  [q EXCEPT !.data = b] \in AiRecord /\ [q EXCEPT !.data = b].pc = q.pc
  BY DEF AiRecord

LEMMA SilentIsRecord == Silent \in AiRecord /\ Silent.pc = "idle"
<1>1. \E w : Silent = [pc |-> "idle", who |-> w, cap |-> 0, contract |-> FALSE, noted |-> FALSE, data |-> FALSE]
  BY DEF Silent
<1>2. PICK w : Silent = [pc |-> "idle", who |-> w, cap |-> 0, contract |-> FALSE, noted |-> FALSE, data |-> FALSE]
  BY <1>1
<1>3. Silent.who = w
  BY <1>2
<1>4. Silent \in [pc : Phases, who : Callers \cup {w}, cap : Caps \cup {0},
                  contract : BOOLEAN, noted : BOOLEAN, data : BOOLEAN]
  BY <1>2 DEF Phases
<1> QED
  BY <1>2, <1>3, <1>4 DEF AiRecord

LEMMA LoadSpends ==
    ASSUME SpendInv, NEW r \in AiRequests, NEW u \in Callers, NEW contract \in BOOLEAN, LoadAi(r, u, contract)
    PROVE  SpendInv'
<1>0. "loaded" \in Phases /\ cap \in Caps
  BY DEF Phases, SpendInv, SpendTypes
<1>1. PICK q1 \in AiRecord : q1 = [Silent EXCEPT !.pc = "loaded"] /\ q1.pc = "loaded"
  BY <1>0, SilentIsRecord, OfPhase
<1>2. PICK q2 \in AiRecord : q2 = [q1 EXCEPT !.who = u] /\ q2.pc = "loaded"
  BY <1>1, OfWho
<1>3. PICK q3 : q3 = [q2 EXCEPT !.cap = cap]
  OBVIOUS
<1>4. q3 \in AiRecord /\ q3.pc = "loaded" /\ q3.cap = cap
  BY <1>0, <1>2, <1>3, OfCap
<1>5. PICK next : next = [q3 EXCEPT !.contract = contract]
  OBVIOUS
<1>6. next \in AiRecord /\ next.pc = "loaded" /\ next.cap = cap
  BY <1>4, <1>5, OfContract
<1>7. next = [Silent EXCEPT !.pc = "loaded", !.who = u, !.cap = cap, !.contract = contract]
  BY <1>1, <1>2, <1>3, <1>5
<1>8. Asks(r, next) /\ UNCHANGED <<cap, billed, half, unlimited, unnoted>>
  BY <1>7 DEF LoadAi
<1>9. aireq' \in [AiRequests -> AiRecord] /\ aireq'[r] = next /\ \A o \in AiRequests \ {r} : aireq'[o] = aireq[o]
  BY <1>6, <1>8 DEF SpendInv, SpendTypes, Asks
<1>10. SpendTypes' /\ LimitsKnown'
  BY <1>0, <1>6, <1>8, <1>9 DEF SpendInv, SpendTypes, LimitsKnown
<1>11. \A a \in Callers : /\ NotedOf(a)' \subseteq NotedOf(a) /\ Missed(a)' \subseteq Missed(a)
                          /\ AllowedOf(a)' \subseteq AllowedOf(a)
  BY <1>6, <1>8, <1>9 DEF NotedOf, Missed, LastHour, AllowedOf
<1> QED
  BY <1>8, <1>10, <1>11, CountsShrink DEF SpendInv, SpendTypes

LEMMA CheckSpends == ASSUME SpendInv, NEW r \in AiRequests, CheckBudget(r) PROVE SpendInv'
<1>1. PICK q \in AiRecord : q = aireq[r]
  BY DEF SpendInv, SpendTypes
<1>2. UNCHANGED <<cap, billed, half, unlimited, unnoted>>
  BY DEF CheckBudget
<1>3. CASE ~Within(CallsOf(q.who), q.cap)
  BY <1>1, <1>2, <1>3, OneMoves, SilentIsRecord DEF CheckBudget
<1>4. CASE Within(CallsOf(q.who), q.cap)
  <2>0. "allowed" \in Phases
    BY DEF Phases
  <2>1. PICK next \in AiRecord : next = [q EXCEPT !.pc = "allowed"] /\ next.pc = "allowed" /\ next.who = q.who
    BY <2>0, OfPhase
  <2>2. Asks(r, next)
    BY <1>1, <1>4, <2>1 DEF CheckBudget
  <2>3. aireq' \in [AiRequests -> AiRecord] /\ aireq'[r] = next /\ \A o \in AiRequests \ {r} : aireq'[o] = aireq[o]
    BY <2>2 DEF SpendInv, SpendTypes, Asks
  <2>4. SpendTypes' /\ LimitsKnown'
    BY <1>2, <2>1, <2>3 DEF SpendInv, SpendTypes, LimitsKnown
  <2>5. ASSUME NEW u \in Callers
        PROVE  /\ Cardinality(Missed(u)') <= unnoted'
               /\ ~unlimited' => \A n \in Caps : Highest(n) =>
                     Cardinality(NotedOf(u)') + Cardinality(AllowedOf(u)') <= n + Cardinality(AiRequests) - 1
    <3>1. Missed(u)' = Missed(u) /\ NotedOf(u)' = NotedOf(u)
      BY <1>2 DEF Missed, NotedOf, LastHour
    <3>2. CASE u = q.who
      <4>1. Cardinality(AllowedOf(u)') <= Cardinality(AiRequests) /\ Cardinality(AllowedOf(u)') \in Nat
        <5>1. AllowedOf(u)' \subseteq AiRequests /\ IsFiniteSet(AiRequests)
          BY AiAssumption DEF AllowedOf
        <5>2. IsFiniteSet(AllowedOf(u)') /\ Cardinality(AllowedOf(u)') <= Cardinality(AiRequests)
          BY <5>1, FS_Subset
        <5> QED
          BY <5>2, FS_CardinalityType
      <4>2. q.cap = 0 \/ Cardinality(NotedOf(u)) < q.cap
        BY <1>4, <3>2 DEF Within, CallsOf, NotedOf
      <4>3. q.cap \in Caps /\ (q.cap = 0 => unlimited)
        BY <1>1 DEF CheckBudget, SpendInv, LimitsKnown
      <4>4. ASSUME ~unlimited, NEW n \in Caps, Highest(n)
            PROVE  Cardinality(NotedOf(u)) + Cardinality(AllowedOf(u)') <= n + Cardinality(AiRequests) - 1
        <5>1. Cardinality(NotedOf(u)) < q.cap /\ q.cap <= n
          BY <4>2, <4>3, <4>4 DEF Highest
        <5>2. Cardinality(NotedOf(u)) \in Nat /\ Cardinality(AiRequests) \in Nat /\ n \in Nat /\ q.cap \in Nat
          BY <4>3, Finite, AiAssumption DEF SpendInv
        <5> QED
          BY <4>1, <5>1, <5>2
      <4> QED
        BY <1>2, <3>1, <4>4 DEF SpendInv, CountsBounded
    <3>3. CASE u # q.who
      <4>1. AllowedOf(u)' = AllowedOf(u)
        <5>1. r \notin AllowedOf(u) /\ r \notin AllowedOf(u)'
          BY <1>1, <2>1, <2>3, <3>3 DEF AllowedOf
        <5> QED
          BY <2>3, <5>1 DEF AllowedOf
      <4> QED
        BY <1>2, <3>1, <4>1 DEF SpendInv, CountsBounded
    <3> QED
      BY <3>2, <3>3
  <2> QED
    BY <2>4, <2>5 DEF SpendInv, CountsBounded, Highest
<1> QED
  BY <1>3, <1>4

LEMMA DispatchSpends == ASSUME SpendInv, NEW r \in AiRequests, NEW noted \in BOOLEAN, DispatchCall(r, noted) PROVE SpendInv'
<1>1. PICK q \in AiRecord : q = aireq[r] /\ q.pc = "allowed"
  BY DEF SpendInv, SpendTypes, DispatchCall
<1>0. "asked" \in Phases
  BY DEF Phases
<1>2. PICK next \in AiRecord : next = [q EXCEPT !.pc = "asked"] /\ next.pc = "asked"
  BY <1>0, OfPhase
<1>3. Asks(r, next) /\ UNCHANGED <<cap, half, unlimited>>
  BY <1>1, <1>2 DEF DispatchCall
<1>4. aireq' \in [AiRequests -> AiRecord] /\ aireq'[r] = next /\ \A o \in AiRequests \ {r} : aireq'[o] = aireq[o]
  BY <1>3 DEF SpendInv, SpendTypes, Asks
<1> DEFINE call == [at |-> half, noted |-> noted]
<1>5. billed' = [billed EXCEPT ![q.who] = Append(@, call)] /\ unnoted' = IF noted THEN unnoted ELSE unnoted + 1
  BY <1>1 DEF DispatchCall
<1>6. call \in [at : Nat, noted : BOOLEAN]
  BY DEF SpendInv, SpendTypes
<1>10. billed' \in [Callers -> Seq([at : Nat, noted : BOOLEAN])]
  <2> DEFINE Call == [at : Nat, noted : BOOLEAN]
  <2>1. call \in Call /\ billed \in [Callers -> Seq(Call)]
    BY <1>6 DEF SpendInv, SpendTypes
  <2>2. billed' = [billed EXCEPT ![q.who] = Append(billed[q.who], call)]
    BY <1>5
  <2> HIDE DEF call, Call
  <2>3. billed' \in [Callers -> Seq(Call)]
    <3>1. CASE q.who \in Callers
      <4>1. Append(billed[q.who], call) \in Seq(Call)
        BY <2>1, <3>1
      <4> QED
        BY <2>1, <2>2, <4>1
    <3>2. CASE q.who \notin Callers
      BY <2>1, <2>2, <3>2
    <3> QED
      BY <3>1, <3>2
  <2> QED
    BY <2>3 DEF Call
<1>11. unnoted' \in Nat /\ unnoted <= unnoted'
  BY <1>5 DEF SpendInv, SpendTypes
<1>7. SpendTypes' /\ LimitsKnown'
  <2>1. SpendTypes'
    BY <1>3, <1>4, <1>10, <1>11 DEF SpendInv, SpendTypes
  <2>2. LimitsKnown'
    BY <1>2, <1>3, <1>4 DEF SpendInv, LimitsKnown
  <2> QED
    BY <2>1, <2>2
<1>8. \A u \in Callers : AllowedOf(u)' = AllowedOf(u) \ {r}
  BY <1>2, <1>4 DEF AllowedOf
<1>9. ASSUME NEW u \in Callers
      PROVE  /\ Cardinality(Missed(u)') <= unnoted'
             /\ ~unlimited' => \A n \in Caps : Highest(n) =>
                   Cardinality(NotedOf(u)') + Cardinality(AllowedOf(u)') <= n + Cardinality(AiRequests) - 1
  <2>0. /\ IsFiniteSet(NotedOf(u)) /\ IsFiniteSet(Missed(u)) /\ IsFiniteSet(AllowedOf(u))
        /\ Cardinality(NotedOf(u)) \in Nat /\ Cardinality(Missed(u)) \in Nat /\ Cardinality(AllowedOf(u)) \in Nat
        /\ Cardinality(AiRequests) \in Nat /\ Caps \subseteq Nat /\ unnoted \in Nat
    BY Finite, AiAssumption DEF SpendInv, SpendTypes
  <2>1. CASE u # q.who
    <3>1. billed'[u] = billed[u]
      BY <1>5, <2>1 DEF SpendInv, SpendTypes
    <3>2. Missed(u)' = Missed(u) /\ NotedOf(u)' = NotedOf(u)
      BY <1>3, <3>1 DEF Missed, NotedOf, LastHour
    <3>3. r \notin AllowedOf(u)
      BY <1>1, <2>1 DEF AllowedOf
    <3>4. AllowedOf(u)' = AllowedOf(u)
      BY <1>8, <3>3
    <3>6. Cardinality(Missed(u)') <= unnoted'
      BY <1>11, <2>0, <3>2 DEF SpendInv, CountsBounded
    <3> QED
      BY <1>3, <3>2, <3>4, <3>6 DEF SpendInv, CountsBounded
  <2>2. CASE u = q.who
    <3> DEFINE last == Len(billed[u]) + 1
    <3>1. /\ billed[u] \in Seq([at : Nat, noted : BOOLEAN]) /\ Len(billed[u]) \in Nat
          /\ billed'[u] = Append(billed[u], call)
      BY <1>5, <2>2 DEF SpendInv, SpendTypes
    <3>2. /\ DOMAIN billed'[u] = DOMAIN billed[u] \cup {last} /\ last \notin DOMAIN billed[u]
          /\ billed'[u][last] = call /\ \A i \in DOMAIN billed[u] : billed'[u][i] = billed[u][i]
      BY <1>6, <3>1
    <3>3. r \in AllowedOf(u)
      BY <1>1, <2>2 DEF AllowedOf
    <3>4. Cardinality(AllowedOf(u)') = Cardinality(AllowedOf(u)) - 1
      BY <1>8, <2>0, <3>3, FS_RemoveElement
    <3>5. last \notin NotedOf(u) /\ last \notin Missed(u)
      BY <3>2 DEF NotedOf, Missed, LastHour
    <3>6. CASE noted
      <4>1. NotedOf(u)' \subseteq NotedOf(u) \cup {last} /\ Missed(u)' = Missed(u)
        BY <1>3, <3>2, <3>6 DEF NotedOf, Missed, LastHour
      <4>2. Cardinality(NotedOf(u)') <= Cardinality(NotedOf(u)) + 1 /\ Cardinality(NotedOf(u)') \in Nat
        <5>1. IsFiniteSet(NotedOf(u) \cup {last}) /\ Cardinality(NotedOf(u) \cup {last}) = Cardinality(NotedOf(u)) + 1
          BY <2>0, <3>5, FS_AddElement
        <5>2. IsFiniteSet(NotedOf(u)') /\ Cardinality(NotedOf(u)') <= Cardinality(NotedOf(u) \cup {last})
          BY <4>1, <5>1, FS_Subset
        <5> QED
          BY <5>1, <5>2, FS_CardinalityType
      <4>3. ASSUME ~unlimited, NEW n \in Caps, Highest(n)
            PROVE  Cardinality(NotedOf(u)') + Cardinality(AllowedOf(u)') <= n + Cardinality(AiRequests) - 1
        <5>1. Cardinality(NotedOf(u)) + Cardinality(AllowedOf(u)) <= n + Cardinality(AiRequests) - 1 /\ n \in Nat
          BY <2>0, <4>3 DEF SpendInv, CountsBounded
        <5> QED
          BY <2>0, <3>4, <4>2, <5>1
      <4> QED
        BY <1>3, <1>5, <3>6, <4>1, <4>3 DEF SpendInv, CountsBounded
    <3>7. CASE ~noted
      <4>1. NotedOf(u)' = NotedOf(u) /\ Missed(u)' \subseteq Missed(u) \cup {last}
        BY <1>3, <3>2, <3>7 DEF NotedOf, Missed, LastHour
      <4>2. Cardinality(Missed(u)') <= Cardinality(Missed(u)) + 1 /\ Cardinality(Missed(u)') \in Nat
        <5>1. IsFiniteSet(Missed(u) \cup {last}) /\ Cardinality(Missed(u) \cup {last}) = Cardinality(Missed(u)) + 1
          BY <2>0, <3>5, FS_AddElement
        <5>2. IsFiniteSet(Missed(u)') /\ Cardinality(Missed(u)') <= Cardinality(Missed(u) \cup {last})
          BY <4>1, <5>1, FS_Subset
        <5> QED
          BY <5>1, <5>2, FS_CardinalityType
      <4>3. Cardinality(Missed(u)') <= unnoted'
        BY <1>5, <2>0, <3>7, <4>2 DEF SpendInv, CountsBounded
      <4>4. ASSUME ~unlimited, NEW n \in Caps, Highest(n)
            PROVE  Cardinality(NotedOf(u)') + Cardinality(AllowedOf(u)') <= n + Cardinality(AiRequests) - 1
        <5>1. Cardinality(NotedOf(u)) + Cardinality(AllowedOf(u)) <= n + Cardinality(AiRequests) - 1 /\ n \in Nat
          BY <2>0, <4>4 DEF SpendInv, CountsBounded
        <5> QED
          BY <2>0, <3>4, <4>1, <5>1
      <4> QED
        BY <1>3, <4>3, <4>4
    <3> QED
      BY <3>6, <3>7
  <2> QED
    BY <2>1, <2>2
<1> QED
  BY <1>7, <1>9 DEF SpendInv, CountsBounded, Highest

LEMMA SpendIInvNext == SpendIInv /\ [AiNext]_aiVars => SpendIInv'
<1> SUFFICES ASSUME SpendIInv, [AiNext]_aiVars PROVE SpendIInv'
  OBVIOUS
<1> SpendInv /\ review \in BOOLEAN
  BY DEF SpendIInv
<1>0. "asked" \in Phases \ {"allowed", "loaded"} /\ "save" \in Phases \ {"allowed", "loaded"}
      /\ "mark" \in Phases \ {"allowed", "loaded"} /\ "idle" \in Phases \ {"allowed", "loaded"}
  BY DEF Phases
<1>1. ASSUME NEW r \in AiRequests, NEW pc \in Phases \ {"allowed", "loaded"},
             \/ Asks(r, [aireq[r] EXCEPT !.pc = pc])
             \/ Asks(r, Silent),
             UNCHANGED <<cap, billed, half, unlimited, unnoted>>
      PROVE  SpendInv'
  <2>1. PICK q \in AiRecord : q = aireq[r]
    BY DEF SpendInv, SpendTypes
  <2>2. PICK next \in AiRecord : next = [q EXCEPT !.pc = pc] /\ next.pc = pc
    BY OfPhase
  <2> QED
    BY <1>1, <2>1, <2>2, OneMoves, SilentIsRecord
<1>2. ASSUME \E r \in AiRequests : AiRequestStep(r) PROVE SpendInv'
  <2>1. PICK r \in AiRequests : AiRequestStep(r)
    BY <1>2
  <2>2. ASSUME NEW usable \in BOOLEAN, AnswerArrives(r, usable) PROVE SpendInv'
    BY <1>0, <1>1, <2>2 DEF AnswerArrives
  <2>3. ASSUME NEW reply \in Replies, NEW stored \in BOOLEAN, SaveAnalysis(r, reply, stored)
        PROVE  SpendInv'
    BY <1>0, <1>1, <2>3 DEF SaveAnalysis
  <2>4. ASSUME NEW stored \in BOOLEAN, MarkContract(r, stored) PROVE SpendInv'
    BY <1>0, <1>1, <2>4 DEF MarkContract
  <2>5. ASSUME NEW sent \in BOOLEAN, EditWrite(r, sent) PROVE SpendInv'
    BY <1>0, <1>1, <2>5 DEF EditWrite
  <2>6. ASSUME EditRead(r) PROVE SpendInv'
    <3>0. "edit" \in Phases
      BY DEF Phases
    <3>1. PICK q \in AiRecord : q = [Silent EXCEPT !.pc = "edit"] /\ q.pc = "edit"
      BY <3>0, SilentIsRecord, OfPhase
    <3>2. PICK next : next = [q EXCEPT !.data = review]
      OBVIOUS
    <3>3. next \in AiRecord /\ next.pc = "edit"
      BY <3>1, <3>2, OfData
    <3>4. next = [Silent EXCEPT !.pc = "edit", !.data = review]
      BY <3>1, <3>2
    <3> QED
      BY <2>6, <3>3, <3>4, OneMoves DEF EditRead
  <2> QED
    BY <2>1, <2>2, <2>3, <2>4, <2>5, <2>6, LoadSpends, CheckSpends, DispatchSpends DEF AiRequestStep
<1>3. ASSUME NEW n \in Caps, SetCap(n) PROVE SpendInv'
  <2>1. UNCHANGED <<billed, half, aireq, unnoted>> /\ cap' = n /\ unlimited' = (unlimited \/ n = 0)
    BY <1>3 DEF SetCap
  <2>4. unlimited \in BOOLEAN /\ unlimited' \in BOOLEAN /\ (unlimited => unlimited') /\ (n = 0 => unlimited')
    BY <2>1 DEF SpendInv, SpendTypes
  <2>5. SpendTypes' /\ unnoted <= unnoted'
    BY <2>1, <2>4 DEF SpendInv, SpendTypes
  <2>6. LimitsKnown'
    BY <2>1, <2>4 DEF SpendInv, LimitsKnown
  <2>2. SpendTypes' /\ LimitsKnown' /\ (unlimited => unlimited') /\ unnoted <= unnoted'
    BY <2>4, <2>5, <2>6
  <2>3. \A u \in Callers : /\ NotedOf(u)' \subseteq NotedOf(u) /\ Missed(u)' \subseteq Missed(u)
                            /\ AllowedOf(u)' \subseteq AllowedOf(u)
    BY <2>1 DEF NotedOf, Missed, LastHour, AllowedOf
  <2> QED
    BY <2>2, <2>3, CountsShrink DEF SpendInv
<1>4. ASSUME HalfHour \/ UNCHANGED aiVars PROVE SpendInv'
  <2>1. UNCHANGED <<cap, billed, aireq, unlimited, unnoted>> /\ half' \in {half, half + 1}
    BY <1>4 DEF HalfHour, aiVars
  <2>5. SpendTypes' /\ unnoted <= unnoted'
    BY <2>1 DEF SpendInv, SpendTypes
  <2>6. LimitsKnown'
    BY <2>1 DEF SpendInv, LimitsKnown
  <2>2. SpendTypes' /\ LimitsKnown' /\ (unlimited => unlimited') /\ unnoted <= unnoted'
    BY <2>1, <2>5, <2>6
  <2>3. \A u \in Callers : LastHour(u)' \subseteq LastHour(u)
    <3>1. ASSUME NEW u \in Callers, NEW i \in DOMAIN billed[u], billed[u][i].at + 2 > half' PROVE billed[u][i].at + 2 > half
      <4> DEFINE Call == [at : Nat, noted : BOOLEAN]
      <4>0. billed[u] \in Seq(Call)
        BY DEF SpendInv, SpendTypes
      <4> HIDE DEF Call
      <4>2. billed[u][i] \in Call
        BY <3>1, <4>0
      <4>1. billed[u][i].at \in Nat
        BY <4>2 DEF Call
      <4> QED
        BY <2>1, <3>1, <4>1 DEF SpendInv, SpendTypes
    <3> QED
      BY <2>1, <3>1 DEF LastHour
  <2>4. \A u \in Callers : /\ NotedOf(u)' \subseteq NotedOf(u) /\ Missed(u)' \subseteq Missed(u)
                            /\ AllowedOf(u)' \subseteq AllowedOf(u)
    BY <2>1, <2>3 DEF NotedOf, Missed, AllowedOf
  <2> QED
    BY <2>2, <2>4, CountsShrink DEF SpendInv
<1>5. review' \in BOOLEAN
  <2>1. ASSUME NEW r \in AiRequests, AiRequestStep(r) PROVE review' \in BOOLEAN
    BY <2>1 DEF AiRequestStep, LoadAi, CheckBudget, DispatchCall, AnswerArrives, SaveAnalysis, MarkContract,
                EditRead, EditWrite
  <2> QED
    BY <2>1 DEF AiNext, SetCap, HalfHour, aiVars
<1> QED
  BY <1>2, <1>3, <1>4, <1>5 DEF AiNext, SpendIInv

LEMMA SpendIInvInit == AiInit => SpendIInv
<1> SUFFICES ASSUME AiInit PROVE SpendInv
  BY DEF SpendIInv, AiInit
<1>1. SpendTypes /\ LimitsKnown
  <2>1. aireq \in [AiRequests -> AiRecord] /\ \A r \in AiRequests : aireq[r].pc = "idle"
    BY SilentIsRecord DEF AiInit
  <2>2. billed \in [Callers -> Seq([at : Nat, noted : BOOLEAN])]
    BY DEF AiInit
  <2> QED
    BY <2>1, <2>2 DEF AiInit, SpendTypes, LimitsKnown
<1>2. ASSUME NEW u \in Callers
      PROVE  NotedOf(u) = {} /\ Missed(u) = {} /\ AllowedOf(u) = {}
  <2>1. billed[u] = <<>> /\ DOMAIN billed[u] = {}
    BY DEF AiInit
  <2>2. LastHour(u) = {}
    BY <2>1 DEF LastHour
  <2> QED
    BY <2>2, SilentIsRecord DEF NotedOf, Missed, AllowedOf, AiInit
<1>3. ASSUME ~unlimited, NEW n \in Caps, Highest(n) PROVE n + Cardinality(AiRequests) - 1 >= 0
  <2>1. cap \in Nat \ {0} /\ cap <= n /\ n \in Nat
    BY <1>3, AiAssumption DEF AiInit, Highest
  <2>2. Cardinality(AiRequests) \in Nat
    BY AiAssumption, FS_CardinalityType
  <2> QED
    BY <2>1, <2>2
<1>4. CountsBounded
  <2>1. Cardinality({}) = 0 /\ unnoted = 0
    BY FS_EmptySet DEF AiInit
  <2>2. ASSUME NEW u \in Callers
        PROVE  Cardinality(NotedOf(u)) = 0 /\ Cardinality(Missed(u)) = 0 /\ Cardinality(AllowedOf(u)) = 0
    BY <1>2, <2>1
  <2> QED
    BY <1>3, <2>1, <2>2 DEF CountsBounded
<1> QED
  BY <1>1, <1>4 DEF SpendInv

\* AiBudget: for any number of requests, callers and limits, an hour costs no more than the
\* highest limit, the requests that were checked side by side and the calls not on record.
THEOREM SpendingIsBounded == AiSpec => []SpendingBounded
<1>1. SpendInv => SpendingBounded
  <2> SUFFICES ASSUME SpendInv, ~unlimited, NEW u \in Callers, NEW n \in Caps, Highest(n)
               PROVE  Cardinality(LastHour(u)) <= n + Cardinality(AiRequests) - 1 + unnoted
    BY DEF SpendingBounded, Highest
  <2>1. LastHour(u) = NotedOf(u) \cup Missed(u) /\ NotedOf(u) \cap Missed(u) = {}
    BY DEF NotedOf, Missed
  <2>2. Cardinality(LastHour(u)) = Cardinality(NotedOf(u)) + Cardinality(Missed(u))
    <3>1. Cardinality(NotedOf(u) \cap Missed(u)) = 0
      BY <2>1, FS_EmptySet
    <3>2. IsFiniteSet(NotedOf(u)) /\ IsFiniteSet(Missed(u))
      BY Finite DEF SpendInv
    <3>3. Cardinality(NotedOf(u) \cup Missed(u)) = Cardinality(NotedOf(u)) + Cardinality(Missed(u)) - Cardinality(NotedOf(u) \cap Missed(u))
      BY <3>2, FS_Union
    <3>4. Cardinality(NotedOf(u)) \in Nat /\ Cardinality(Missed(u)) \in Nat
      BY Finite DEF SpendInv
    <3> QED
      BY <2>1, <3>1, <3>3, <3>4
  <2>3. Cardinality(Missed(u)) <= unnoted /\ unnoted \in Nat
    BY DEF SpendInv, CountsBounded, SpendTypes
  <2>4. Cardinality(NotedOf(u)) + Cardinality(AllowedOf(u)) <= n + Cardinality(AiRequests) - 1
    BY DEF SpendInv, CountsBounded
  <2> QED
    BY <2>2, <2>3, <2>4, Finite, AiAssumption DEF SpendInv
<1>2. SpendIInv => SpendInv
  BY DEF SpendIInv
<1> QED
  BY <1>1, <1>2, SpendIInvInit, SpendIInvNext, PTL DEF AiSpec

(***************************************************************************)
(* WorkInbox                                                               *)
(***************************************************************************)
TaskKeys == {<<"task", x, d>> : x \in Tasks, d \in Dates}

InboxInv ==
    /\ taskDate \in [Tasks -> Dates \cup {Finished}]
    /\ \A k \in TaskKeys : itemState[k].state # "active" => k \in putAway

LEMMA TaskKey == ASSUME NEW k \in TaskKeys PROVE k \in Items /\ k \in Keys /\ KeyOf(k) = k
<1>1. k \in Items /\ k[1] = "task"
  BY DEF TaskKeys, Items
<1> QED
  BY <1>1 DEF Keys, KeyOf

\* Only a dated item has the key of one.
LEMMA OnlyItself == ASSUME NEW k \in TaskKeys, NEW item \in Items, KeyOf(item) = k PROVE item = k
<1>1. k[1] = "task"
  BY DEF TaskKeys
<1>2. CASE item[1] = "task"
  BY <1>2 DEF KeyOf
<1>3. CASE item[1] # "task"
  <2>1. KeyOf(item) = <<item[1], item[2], 0>>
    BY <1>3 DEF KeyOf
  <2> QED
    BY <1>1, <1>3, <2>1
<1> QED
  BY <1>2, <1>3

LEMMA InboxInvNext == InboxInv /\ [InboxNext]_inboxVars => InboxInv'
<1> SUFFICES ASSUME InboxInv, [InboxNext]_inboxVars PROVE InboxInv'
  OBVIOUS
<1>1. ASSUME NEW items \in SUBSET Items, NEW state, NEW until, PutAway(items, state, until) PROVE InboxInv'
  <2>1. taskDate' = taskDate
    BY <1>1 DEF PutAway
  <2>2. ASSUME NEW k \in TaskKeys, itemState'[k].state # "active" PROVE k \in putAway'
    <3>1. k \in Keys /\ k \in Items /\ KeyOf(k) = k
      BY TaskKey
    <3>2. itemState'[k] = IF \E item \in items : KeyOf(item) = k THEN [state |-> state, until |-> until] ELSE itemState[k]
      BY <1>1, <3>1 DEF PutAway
    <3>3. putAway' = IF state = "active" THEN putAway \ items ELSE putAway \cup items
      BY <1>1 DEF PutAway
    <3>4. CASE \E item \in items : KeyOf(item) = k
      <4>1. k \in items
        BY <3>4, OnlyItself
      <4>2. state # "active"
        BY <2>2, <3>2, <3>4
      <4> QED
        BY <3>3, <4>1, <4>2
    <3>5. CASE ~ \E item \in items : KeyOf(item) = k
      <4>1. k \notin items
        BY <3>1, <3>5
      <4>2. k \in putAway
        BY <2>2, <3>2, <3>5 DEF InboxInv
      <4> QED
        BY <3>3, <4>1, <4>2
    <3> QED
      BY <3>4, <3>5
  <2> QED
    BY <2>1, <2>2 DEF InboxInv
<1>2. ASSUME NEW x \in Tasks, NEW d \in Dates \cup {Finished}, MoveDate(x, d) PROVE InboxInv'
  BY <1>2 DEF MoveDate, InboxInv
<1>3. ASSUME NEW x, NEW next, StepOn(x, next) PROVE InboxInv'
  BY <1>3 DEF StepOn, InboxInv
<1>4. ASSUME NEW notes, ReadNotes(notes) PROVE InboxInv'
  BY <1>4 DEF ReadNotes, InboxInv
<1>5. CASE InstantPasses \/ UNCHANGED inboxVars
  BY <1>5 DEF InstantPasses, inboxVars, InboxInv
<1> QED
  BY <1>1, <1>2, <1>3, <1>4, <1>5 DEF InboxNext

\* WorkInbox: however a record's date moves back and forth, and whatever the user puts
\* away, a date they never put away is shown unless as many others as its query reads are
\* due no later.
THEOREM DatesShown == InboxSpec => []NewDateShown
<1>1. InboxInit => InboxInv
  <2> SUFFICES ASSUME InboxInit PROVE InboxInv
    OBVIOUS
  <2>1. ASSUME NEW k \in TaskKeys PROVE itemState[k] = Active
    BY TaskKey DEF InboxInit
  <2> QED
    BY <2>1 DEF InboxInit, InboxInv, Active
<1>2. InboxInv => NewDateShown
  <2> SUFFICES ASSUME InboxInv, NEW q \in Queries, NEW rows \in Answers(q), NEW item \in Found(q),
                      item[1] = "task", item \notin putAway
               PROVE  \/ item \in Shown(rows)
                      \/ \E crowd \in SUBSET (Found(q) \ {item}) :
                            Cardinality(crowd) = Limit[q] /\ \A other \in crowd : Place(other) <= Place(item)
    BY DEF NewDateShown
  <2>1. item \in TaskKeys
    BY DEF Found, Items, TaskKeys
  <2>2. KeyOf(item) = item /\ itemState[item].state = "active"
    BY <2>1, TaskKey DEF InboxInv
  <2>3. CASE item \in rows
    BY <2>2, <2>3 DEF Shown, Hidden
  <2>4. CASE item \notin rows
    <3>1. rows \in SUBSET (Found(q) \ {item}) /\ rows # Found(q)
      BY <2>4 DEF Answers
    <3>2. Cardinality(rows) = Limit[q] /\ \A row \in rows : Place(row) <= Place(item)
      BY <2>4, <3>1 DEF Answers
    <3> QED
      BY <3>1, <3>2
  <2> QED
    BY <2>3, <2>4
<1> QED
  BY <1>1, <1>2, InboxInvNext, PTL DEF InboxSpec

-----------------------------------------------------------------------------
(***************************************************************************)
(* Notifications: a delivery has no more attempts than the limit, less one *)
(* for each replica that still has it in its batch.                        *)
(***************************************************************************)
DeliveryRow == [event : Events, adapter : Adapters, status : {"pending", "delivered"}, attempts : Nat]
LoopRecord == [pc : {"asleep", "look", "enqueue", "read", "send", "record"}, on : SUBSET Adapters,
               missing : SUBSET (Events \X Adapters), batch : Seq(Nat), sent : BOOLEAN]

NoticeTypes ==
    /\ notice \subseteq Events /\ enabled \subseteq Adapters
    /\ queue \in Seq(DeliveryRow)
    /\ loop \in [Replicas -> LoopRecord]
    /\ faults \in Nat

\* A batch is what was on the queue, oldest first.
BatchOK(s) == /\ \A i \in DOMAIN s : s[i] \in DOMAIN queue
              /\ \A i, j \in DOMAIN s : i < j => s[i] < s[j]
BatchesOK == \A b \in Replicas : BatchOK(loop[b].batch) /\ (loop[b].pc = "record" => loop[b].batch # <<>>)

Held(b) == {loop[b].batch[j] : j \in DOMAIN loop[b].batch}
HoldersOf(i) == {b \in Replicas : i \in Held(b)}
TriesLeft == \A i \in DOMAIN queue :
               queue[i].attempts + Cardinality(HoldersOf(i)) <= MaxAttempts + Cardinality(Replicas) - 1

NoticesInv == NoticeTypes /\ BatchesOK /\ TriesLeft

LEMMA QueueType ==
    ASSUME queue \in Seq(DeliveryRow)
    PROVE  /\ Len(queue) \in Nat /\ DOMAIN queue = 1 .. Len(queue)
           /\ \A i \in DOMAIN queue : queue[i] \in DeliveryRow /\ queue[i].attempts \in Nat
<1>1. \A d \in DeliveryRow : d.attempts \in Nat
  BY DEF DeliveryRow
<1> QED
  BY <1>1, LenProperties, ElementOfSeq

LEMMA HoldersAreFinite ==
    \A S \in SUBSET Replicas : /\ IsFiniteSet(S) /\ Cardinality(S) \in Nat /\ Cardinality(Replicas) \in Nat
                               /\ Cardinality(S) <= Cardinality(Replicas)
                               /\ \A T \in SUBSET S : Cardinality(T) <= Cardinality(S) /\ Cardinality(T) \in Nat
  BY NotificationsAssumption, FS_Subset, FS_CardinalityType

\* Nothing is tried or taken.
LEMMA TriesStay ==
    ASSUME NoticesInv, queue' = queue,
           \A b \in Replicas : loop'[b].batch \in {loop[b].batch, <<>>}
    PROVE  TriesLeft'
<1>1. \A b \in Replicas : Held(b)' \subseteq Held(b)
  BY DEF Held
<1>2. \A i : HoldersOf(i)' \in SUBSET HoldersOf(i) /\ HoldersOf(i) \in SUBSET Replicas
  BY <1>1 DEF HoldersOf
<1> SUFFICES ASSUME NEW i \in DOMAIN queue
             PROVE  queue[i].attempts + Cardinality(HoldersOf(i)') <= MaxAttempts + Cardinality(Replicas) - 1
  BY DEF TriesLeft
<1>3. queue[i].attempts + Cardinality(HoldersOf(i)) <= MaxAttempts + Cardinality(Replicas) - 1
  BY DEF NoticesInv, TriesLeft
<1>4. queue[i].attempts \in Nat /\ MaxAttempts \in Nat
  BY QueueType, NotificationsAssumption DEF NoticesInv, NoticeTypes
<1>5. /\ Cardinality(HoldersOf(i)') <= Cardinality(HoldersOf(i)) /\ Cardinality(HoldersOf(i)') \in Nat
      /\ Cardinality(HoldersOf(i)) \in Nat /\ Cardinality(Replicas) \in Nat
  BY <1>2, HoldersAreFinite
<1> QED
  BY <1>3, <1>4, <1>5

LEMMA BatchesStay ==
    ASSUME BatchesOK, queue' = queue,
           \A b \in Replicas : /\ loop'[b].batch \in {loop[b].batch, <<>>}
                               /\ loop'[b].pc = "record" => loop'[b].batch # <<>>
    PROVE  BatchesOK'
<1>1. BatchOK(<<>>)
  BY DEF BatchOK
<1>2. \A s : BatchOK(s)' <=> BatchOK(s)
  BY DEF BatchOK
<1> QED
  BY <1>1, <1>2 DEF BatchesOK

LEMMA NoticesInvInit == NoticesInit => NoticesInv
<1> SUFFICES ASSUME NoticesInit PROVE NoticesInv
  OBVIOUS
<1>1. NoticeTypes
  BY DEF NoticesInit, NoticeTypes, LoopRecord, Asleep
<1>2. BatchesOK
  BY DEF NoticesInit, BatchesOK, BatchOK, Asleep
<1>3. TriesLeft
  BY DEF NoticesInit, TriesLeft
<1> QED
  BY <1>1, <1>2, <1>3 DEF NoticesInv

\* A row that is new has no attempts, and is in no batch.
LEMMA EnqueueSafe ==
    ASSUME NoticesInv, NEW b \in Replicas, Enqueue(b)
    PROVE  NoticesInv'
<1> DEFINE q == loop[b]
           n == Cardinality(q.missing)
<1>1. q \in LoopRecord /\ n \in Nat
  <2>1. q \in LoopRecord /\ q.missing \subseteq Events \X Adapters
    BY DEF NoticesInv, NoticeTypes, LoopRecord
  <2>2. IsFiniteSet(q.missing)
    BY <2>1, NotificationsAssumption, FS_Product, FS_Subset
  <2> QED
    BY <2>1, <2>2, FS_CardinalityType
<1>2. PICK rows \in [1 .. n -> q.missing] :
         queue' = queue \o [i \in DOMAIN rows |-> Delivery(rows[i][1], rows[i][2])]
  BY DEF Enqueue
<1> DEFINE new == [i \in DOMAIN rows |-> Delivery(rows[i][1], rows[i][2])]
<1>3. new \in Seq(DeliveryRow) /\ \A i \in DOMAIN new : new[i].attempts = 0
  <2>1. \A i \in 1 .. n : rows[i] \in Events \X Adapters
    BY <1>1, <1>2 DEF LoopRecord
  <2>2. \A i \in 1 .. n : Delivery(rows[i][1], rows[i][2]) \in DeliveryRow
    BY <2>1 DEF Delivery, DeliveryRow
  <2>3. DOMAIN rows = 1 .. n
    BY <1>2
  <2> QED
    BY <1>1, <2>2, <2>3 DEF Delivery
<1> HIDE DEF new
<1>4. /\ queue' \in Seq(DeliveryRow) /\ DOMAIN queue \subseteq DOMAIN queue'
      /\ \A i \in DOMAIN queue : queue'[i] = queue[i]
      /\ \A i \in DOMAIN queue' : i \notin DOMAIN queue => queue'[i].attempts = 0
  <2>1. queue \in Seq(DeliveryRow) /\ queue' = queue \o new
    BY <1>2 DEF NoticesInv, NoticeTypes, new
  <2> QED
    BY <1>3, <2>1
<1> DEFINE p == [q EXCEPT !.pc = Onward(q.on), !.missing = {}]
<1>0. p \in LoopRecord /\ p.batch = q.batch /\ p.pc # "record"
  BY <1>1 DEF LoopRecord, Onward
<1>11. /\ DOMAIN loop = Replicas /\ loop' \in [Replicas -> LoopRecord] /\ loop'[b] = p
       /\ \A c \in Replicas \ {b} : loop'[c] = loop[c]
  <2>1. loop' = [loop EXCEPT ![b] = p] /\ loop \in [Replicas -> LoopRecord]
    BY DEF Enqueue, Loops, NoticesInv, NoticeTypes
  <2> HIDE DEF p
  <2> QED
    BY <1>0, <2>1
<1> HIDE DEF p
<1>5. \A c \in Replicas : loop'[c].batch = loop[c].batch /\ (loop'[c].pc = "record" => loop[c].pc = "record")
  BY <1>0, <1>11
<1>6. NoticeTypes'
  BY <1>4, <1>11 DEF Enqueue, NoticesInv, NoticeTypes
<1>7. BatchesOK'
  BY <1>4, <1>5 DEF NoticesInv, BatchesOK, BatchOK
<1>8. \A i : HoldersOf(i)' = HoldersOf(i)
  BY <1>5 DEF HoldersOf, Held
<1>9. ASSUME NEW i \in DOMAIN queue'
      PROVE  queue'[i].attempts + Cardinality(HoldersOf(i)) <= MaxAttempts + Cardinality(Replicas) - 1
  <2>1. CASE i \in DOMAIN queue
    BY <1>4, <2>1 DEF NoticesInv, TriesLeft
  <2>2. CASE i \notin DOMAIN queue
    <3>1. HoldersOf(i) = {}
      BY <2>2 DEF HoldersOf, Held, NoticesInv, BatchesOK, BatchOK
    <3>2. Cardinality(HoldersOf(i)) = 0 /\ queue'[i].attempts = 0
      BY <1>4, <2>2, <3>1, FS_EmptySet
    <3>3. Cardinality(Replicas) \in Nat /\ MaxAttempts \in Nat \ {0}
      BY HoldersAreFinite, NotificationsAssumption
    <3> QED
      BY <3>2, <3>3
  <2> QED
    BY <2>1, <2>2
<1>10. TriesLeft'
  BY <1>8, <1>9 DEF TriesLeft
<1> QED
  BY <1>6, <1>7, <1>10 DEF NoticesInv

\* What is taken has been tried less often than the limit.
LEMMA ReadBatchSafe ==
    ASSUME NoticesInv, NEW b \in Replicas, ReadBatch(b)
    PROVE  NoticesInv'
<1>1. /\ queue \in Seq(DeliveryRow) /\ DOMAIN queue = 1 .. Len(queue) /\ Len(queue) \in Nat
      /\ \A i \in DOMAIN queue : queue[i].attempts \in Nat
  BY QueueType DEF NoticesInv, NoticeTypes
<1>2. Oldest \subseteq Eligible /\ Eligible \subseteq DOMAIN queue /\ \A i \in Eligible : queue[i].attempts < MaxAttempts
  BY DEF Oldest, Eligible
<1>3. Cardinality(Oldest) \in Nat
  <2>1. IsFiniteSet(1 .. Len(queue))
    <3>1. 1 \in Int /\ Len(queue) \in Int
      BY <1>1
    <3> QED
      BY <3>1, FS_Interval
  <2> QED
    BY <1>1, <1>2, <2>1, FS_Subset, FS_CardinalityType
<1>4. PICK s \in [1 .. Cardinality(Oldest) -> Oldest] :
         /\ \A i, j \in DOMAIN s : i < j => s[i] < s[j]
         /\ Loops(b, [Asleep EXCEPT !.pc = "send", !.batch = s])
  BY DEF ReadBatch
<1>5. DOMAIN s = 1 .. Cardinality(Oldest) /\ \A i \in DOMAIN s : s[i] \in Oldest /\ s[i] \in DOMAIN queue /\ s[i] \in Nat
  BY <1>1, <1>2, <1>4
<1>6. s \in Seq(Nat)
  BY <1>3, <1>5
<1>7. /\ loop'[b] = [pc |-> "send", on |-> {}, missing |-> {}, batch |-> s, sent |-> FALSE]
      /\ \A c \in Replicas \ {b} : loop'[c] = loop[c]
      /\ DOMAIN loop' = Replicas /\ queue' = queue
  BY <1>4 DEF Loops, Asleep, ReadBatch, NoticesInv, NoticeTypes
<1>8. NoticeTypes'
  <2>1. loop'[b] \in LoopRecord
    BY <1>6, <1>7 DEF LoopRecord
  <2>2. loop' \in [Replicas -> LoopRecord]
    BY <1>4, <1>6 DEF Loops, Asleep, NoticesInv, NoticeTypes, LoopRecord
  <2> QED
    BY <2>2 DEF ReadBatch, NoticesInv, NoticeTypes
<1>9. BatchesOK'
  <2>1. BatchOK(s)
    BY <1>4, <1>5 DEF BatchOK
  <2>2. \A t : BatchOK(t)' <=> BatchOK(t)
    BY <1>7 DEF BatchOK
  <2> QED
    BY <1>7, <2>1, <2>2 DEF BatchesOK, NoticesInv
<1>10. \A c \in Replicas \ {b} : Held(c)' = Held(c)
  BY <1>7 DEF Held
<1>11. Held(b)' \subseteq Oldest
  BY <1>5, <1>7 DEF Held
<1>12. ASSUME NEW i \in DOMAIN queue
       PROVE  queue[i].attempts + Cardinality(HoldersOf(i)') <= MaxAttempts + Cardinality(Replicas) - 1
  <2>1. HoldersOf(i)' \in SUBSET Replicas /\ HoldersOf(i) \in SUBSET Replicas
    BY DEF HoldersOf
  <2>2. /\ queue[i].attempts \in Nat /\ MaxAttempts \in Nat /\ Cardinality(Replicas) \in Nat
        /\ Cardinality(HoldersOf(i)') \in Nat /\ Cardinality(HoldersOf(i)) \in Nat
        /\ Cardinality(HoldersOf(i)') <= Cardinality(Replicas)
    BY <1>1, <2>1, HoldersAreFinite, NotificationsAssumption
  <2>3. CASE i \in Oldest
    <3>1. queue[i].attempts < MaxAttempts
      BY <1>2, <2>3
    <3> QED
      BY <2>2, <3>1
  <2>4. CASE i \notin Oldest
    <3>1. HoldersOf(i)' \subseteq HoldersOf(i)
      BY <1>10, <1>11, <2>4 DEF HoldersOf
    <3>2. Cardinality(HoldersOf(i)') <= Cardinality(HoldersOf(i))
      BY <2>1, <3>1, HoldersAreFinite
    <3>3. queue[i].attempts + Cardinality(HoldersOf(i)) <= MaxAttempts + Cardinality(Replicas) - 1
      BY DEF NoticesInv, TriesLeft
    <3> QED
      BY <2>2, <3>2, <3>3
  <2> QED
    BY <2>3, <2>4
<1>13. TriesLeft'
  BY <1>7, <1>12 DEF TriesLeft
<1> QED
  BY <1>8, <1>9, <1>13 DEF NoticesInv

\* Who records an attempt lets go of the delivery.
LEMMA RecordSafe ==
    ASSUME NoticesInv, NEW b \in Replicas, NEW ok \in BOOLEAN, Record(b, ok)
    PROVE  NoticesInv'
<1> DEFINE s == loop[b].batch
           h == Head(s)
<1>1. /\ queue \in Seq(DeliveryRow) /\ DOMAIN queue = 1 .. Len(queue) /\ Len(queue) \in Nat
      /\ \A i \in DOMAIN queue : queue[i] \in DeliveryRow /\ queue[i].attempts \in Nat
  BY QueueType DEF NoticesInv, NoticeTypes
<1>2. /\ s \in Seq(Nat) /\ s # <<>> /\ loop[b] \in LoopRecord /\ loop[b].sent \in BOOLEAN
      /\ \A i \in DOMAIN s : s[i] \in DOMAIN queue
      /\ \A i, j \in DOMAIN s : i < j => s[i] < s[j]
  BY DEF Record, NoticesInv, NoticeTypes, LoopRecord, BatchesOK, BatchOK
<1>3. /\ h = s[1] /\ 1 \in DOMAIN s /\ h \in DOMAIN queue /\ Tail(s) \in Seq(Nat)
      /\ Len(s) \in Nat \ {0} /\ DOMAIN s = 1 .. Len(s) /\ DOMAIN Tail(s) = 1 .. (Len(s) - 1)
      /\ \A i \in DOMAIN Tail(s) : Tail(s)[i] = s[i + 1] /\ i + 1 \in DOMAIN s
  <2>1. Len(s) \in Nat \ {0} /\ DOMAIN s = 1 .. Len(s)
    BY <1>2, EmptySeq, LenProperties
  <2>2. Tail(s) \in Seq(Nat) /\ Len(Tail(s)) = Len(s) - 1 /\ \A i \in 1 .. Len(Tail(s)) : Tail(s)[i] = s[i + 1]
    BY <1>2, HeadTailProperties
  <2>3. h = s[1]
    BY DEF h
  <2>4. DOMAIN Tail(s) = 1 .. (Len(s) - 1)
    BY <2>2, LenProperties
  <2> QED
    BY <1>2, <2>1, <2>2, <2>3, <2>4
<1>4. /\ loop' = [loop EXCEPT ![b] = [loop[b] EXCEPT !.pc = "send", !.batch = Tail(s), !.sent = FALSE]]
      /\ queue' = [queue EXCEPT ![h] = IF ok THEN Counted(queue[h], loop[b].sent) ELSE queue[h]]
      /\ faults' \in {faults, faults + 1} /\ UNCHANGED <<notice, enabled>>
  BY DEF Record, Loops
<1> HIDE DEF s, h
<1>5. /\ DOMAIN loop' = Replicas /\ loop'[b] = [loop[b] EXCEPT !.pc = "send", !.batch = Tail(s), !.sent = FALSE]
      /\ \A c \in Replicas \ {b} : loop'[c] = loop[c]
  BY <1>4 DEF NoticesInv, NoticeTypes
<1>6. loop'[b] \in LoopRecord /\ loop'[b].batch = Tail(s) /\ loop'[b].pc = "send"
  BY <1>2, <1>3, <1>5 DEF LoopRecord
<1>7. Counted(queue[h], loop[b].sent) \in DeliveryRow /\ Counted(queue[h], loop[b].sent).attempts = queue[h].attempts + 1
  <2>1. queue[h] \in DeliveryRow
    BY <1>1, <1>3
  <2>2. ASSUME NEW d \in DeliveryRow, NEW sent \in BOOLEAN
        PROVE  Counted(d, sent) \in DeliveryRow /\ Counted(d, sent).attempts = d.attempts + 1
    <3>1. d.attempts + 1 \in Nat
      BY DEF DeliveryRow
    <3>2. CASE sent
      BY <3>1, <3>2 DEF Counted, DeliveryRow
    <3>3. CASE ~sent
      BY <3>1, <3>3 DEF Counted, DeliveryRow
    <3> QED
      BY <3>2, <3>3
  <2> QED
    BY <1>2, <2>1, <2>2
<1>8. /\ queue' \in Seq(DeliveryRow) /\ DOMAIN queue' = DOMAIN queue
      /\ \A i \in DOMAIN queue : i # h => queue'[i] = queue[i]
      /\ queue'[h].attempts \in {queue[h].attempts, queue[h].attempts + 1}
  BY <1>1, <1>3, <1>4, <1>7
<1>9. NoticeTypes'
  <2>1. loop' \in [Replicas -> LoopRecord]
    BY <1>4, <1>5, <1>6 DEF NoticesInv, NoticeTypes
  <2> QED
    BY <1>4, <1>8, <2>1 DEF NoticesInv, NoticeTypes
<1>10. BatchesOK'
  <2>1. BatchOK(Tail(s))
    BY <1>2, <1>3 DEF BatchOK
  <2>2. \A t : BatchOK(t)' <=> BatchOK(t)
    BY <1>8 DEF BatchOK
  <2> QED
    BY <1>5, <1>6, <2>1, <2>2 DEF BatchesOK, NoticesInv
<1>11. Held(b)' \subseteq Held(b) /\ h \notin Held(b)' /\ h \in Held(b)
  <2>1. Held(b) = {s[j] : j \in DOMAIN s}
    BY DEF Held, s
  <2>2. Held(b)' = {Tail(s)[j] : j \in DOMAIN Tail(s)}
    BY <1>6 DEF Held
  <2>3. ASSUME NEW j \in DOMAIN Tail(s) PROVE Tail(s)[j] \in Held(b) /\ Tail(s)[j] # h
    <3>1. j \in Nat /\ 1 < j + 1 /\ j + 1 \in DOMAIN s /\ Tail(s)[j] = s[j + 1] /\ 1 \in DOMAIN s
      BY <1>3
    <3>2. s[1] < s[j + 1]
      BY <1>2, <3>1
    <3>3. s[1] \in Nat /\ s[j + 1] \in Nat
      BY <1>1, <1>2, <3>1
    <3>4. s[1] # s[j + 1]
      BY <3>2, <3>3
    <3> QED
      BY <1>3, <2>1, <3>1, <3>4
  <2> QED
    BY <1>3, <2>1, <2>2, <2>3
<1>12. \A c \in Replicas \ {b} : Held(c)' = Held(c)
  BY <1>5 DEF Held
<1>13. ASSUME NEW i \in DOMAIN queue
       PROVE  queue'[i].attempts + Cardinality(HoldersOf(i)') <= MaxAttempts + Cardinality(Replicas) - 1
  <2>1. /\ HoldersOf(i)' \in SUBSET HoldersOf(i) /\ HoldersOf(i) \in SUBSET Replicas
        /\ i = h => HoldersOf(i)' = HoldersOf(i) \ {b} /\ b \in HoldersOf(i)
    BY <1>11, <1>12 DEF HoldersOf
  <2>2. /\ queue[i].attempts \in Nat /\ MaxAttempts \in Nat /\ Cardinality(Replicas) \in Nat
        /\ Cardinality(HoldersOf(i)') \in Nat /\ Cardinality(HoldersOf(i)) \in Nat
        /\ Cardinality(HoldersOf(i)') <= Cardinality(HoldersOf(i)) /\ IsFiniteSet(HoldersOf(i))
    BY <1>1, <2>1, HoldersAreFinite, NotificationsAssumption
  <2>3. queue[i].attempts + Cardinality(HoldersOf(i)) <= MaxAttempts + Cardinality(Replicas) - 1
    BY DEF NoticesInv, TriesLeft
  <2>4. CASE i = h
    <3>1. Cardinality(HoldersOf(i)') = Cardinality(HoldersOf(i)) - 1
      BY <2>1, <2>2, <2>4, FS_RemoveElement
    <3> QED
      BY <1>8, <2>2, <2>3, <2>4, <3>1
  <2>5. CASE i # h
    BY <1>8, <2>2, <2>3, <2>5
  <2> QED
    BY <2>4, <2>5
<1>14. TriesLeft'
  BY <1>8, <1>13 DEF TriesLeft
<1> QED
  BY <1>9, <1>10, <1>14 DEF NoticesInv

LEMMA NoticesInvNext == NoticesInv /\ [NoticesNext]_noticeVars => NoticesInv'
<1> SUFFICES ASSUME NoticesInv, [NoticesNext]_noticeVars PROVE NoticesInv'
  OBVIOUS
<1>1. ASSUME NEW b \in Replicas,
             \/ \E due \in SUBSET Events : Schedule(b, due)
             \/ \E a \in Adapters : LookForDeliveries(b, a)
             \/ Send(b)
             \/ \E onward \in BOOLEAN : PassEnds(b, onward)
      PROVE  NoticesInv'
  <2>1. NoticeTypes
    BY DEF NoticesInv
  <2> DEFINE q == loop[b]
             Stays(r) == /\ r \in LoopRecord /\ r.batch \in {q.batch, <<>>}
                         /\ r.pc = "record" => r.batch # <<>>
  <2>2. q \in LoopRecord /\ (q.pc = "record" => q.batch # <<>>)
    BY DEF NoticesInv, NoticeTypes, BatchesOK
  <2>3. Asleep \in LoopRecord /\ Asleep.batch = <<>> /\ Asleep.pc = "asleep"
    BY DEF Asleep, LoopRecord
  <2>4. \E r : Stays(r) /\ loop' = [loop EXCEPT ![b] = r]
    <3>1. CASE \E due \in SUBSET Events : Schedule(b, due)
      <4>1. Stays([Asleep EXCEPT !.pc = Onward(enabled), !.on = enabled])
        BY <2>1, <2>3 DEF LoopRecord, NoticeTypes, Onward
      <4> QED
        BY <3>1, <4>1 DEF Schedule, Loops
    <3>2. ASSUME NEW a \in Adapters, LookForDeliveries(b, a) PROVE \E r : Stays(r) /\ loop' = [loop EXCEPT ![b] = r]
      <4>1. Wanting(a) \in SUBSET (Events \X Adapters)
        BY <2>1 DEF Wanting, NoticeTypes
      <4>2. Stays([q EXCEPT !.pc = "enqueue", !.on = @ \ {a}, !.missing = Wanting(a)])
        BY <2>2, <4>1 DEF LoopRecord
      <4> QED
        BY <3>2, <4>2 DEF LookForDeliveries, Loops
    <3>3. CASE Send(b)
      <4>1. CASE q.batch = <<>>
        BY <2>3, <3>3, <4>1 DEF Send, Loops
      <4>2. CASE q.batch # <<>>
        <5>1. Stays([q EXCEPT !.pc = "record", !.sent = queue[Head(q.batch)].adapter \notin Broken])
          BY <2>2, <4>2 DEF LoopRecord
        <5> QED
          BY <3>3, <4>2, <5>1 DEF Send, Loops
      <4> QED
        BY <4>1, <4>2
    <3>4. CASE \E onward \in BOOLEAN : PassEnds(b, onward)
      <4>1. Stays(Asleep) /\ Stays([Asleep EXCEPT !.pc = "read"])
        BY <2>3 DEF LoopRecord
      <4> QED
        BY <3>4, <4>1 DEF PassEnds, Loops
    <3> QED
      BY <1>1, <3>1, <3>2, <3>3, <3>4
  <2>5. PICK r : Stays(r) /\ loop' = [loop EXCEPT ![b] = r]
    BY <2>4
  <2>6. queue' = queue /\ enabled' = enabled /\ notice' \subseteq Events /\ faults' \in Nat
    <3>1. CASE \E due \in SUBSET Events : Schedule(b, due)
      BY <2>1, <3>1 DEF Schedule, NoticeTypes
    <3>2. CASE \E a \in Adapters : LookForDeliveries(b, a)
      BY <2>1, <3>2 DEF LookForDeliveries, NoticeTypes
    <3>3. CASE Send(b) \/ \E onward \in BOOLEAN : PassEnds(b, onward)
      BY <2>1, <3>3 DEF Send, PassEnds, NoticeTypes
    <3> QED
      BY <1>1, <3>1, <3>2, <3>3
  <2>7. r \in LoopRecord /\ r.batch \in {q.batch, <<>>} /\ (r.pc = "record" => r.batch # <<>>)
    BY <2>5
  <2>8. DOMAIN loop = Replicas /\ loop' \in [Replicas -> LoopRecord] /\ loop'[b] = r
        /\ \A c \in Replicas \ {b} : loop'[c] = loop[c]
    BY <2>1, <2>5, <2>7 DEF NoticeTypes
  <2>9. NoticeTypes'
    BY <2>1, <2>6, <2>8 DEF NoticeTypes
  <2>10. \A c \in Replicas : loop[c].pc = "record" => loop[c].batch # <<>>
    BY DEF NoticesInv, BatchesOK
  <2>11. \A c \in Replicas : /\ loop'[c].batch \in {loop[c].batch, <<>>}
                             /\ loop'[c].pc = "record" => loop'[c].batch # <<>>
    BY <2>7, <2>8, <2>10
  <2> QED
    BY <2>6, <2>9, <2>11, TriesStay, BatchesStay DEF NoticesInv
<1>2. ASSUME \/ \E a \in Switched : SwitchAdapter(a)
             \/ UNCHANGED noticeVars
      PROVE  NoticesInv'
  <2>1. queue' = queue /\ loop' = loop /\ notice' = notice /\ faults' = faults /\ enabled' \subseteq Adapters
    BY <1>2, NotificationsAssumption DEF SwitchAdapter, noticeVars, NoticesInv, NoticeTypes
  <2>2. NoticeTypes'
    BY <2>1 DEF NoticesInv, NoticeTypes
  <2>3. BatchesOK' /\ TriesLeft'
    BY <2>1 DEF NoticesInv, BatchesOK, BatchOK, TriesLeft, HoldersOf, Held
  <2> QED
    BY <2>2, <2>3 DEF NoticesInv
<1> QED
  BY <1>1, <1>2, EnqueueSafe, ReadBatchSafe, RecordSafe DEF NoticesNext, Pass

\* However many replicas dispatch the same deliveries, and whichever of them die, none is
\* tried more often than the limit and once more for each further replica
\* (dispatchNotifications).
THEOREM TriesStayBounded == NoticesSpec => []TriesBounded
<1>1. NoticesInv => TriesBounded
  <2> SUFFICES ASSUME NoticesInv, NEW i \in DOMAIN queue
               PROVE  queue[i].attempts <= MaxAttempts + Cardinality(Replicas) - 1
    BY DEF TriesBounded
  <2>1. HoldersOf(i) \in SUBSET Replicas
    BY DEF HoldersOf
  <2>2. /\ Cardinality(HoldersOf(i)) \in Nat /\ Cardinality(Replicas) \in Nat /\ MaxAttempts \in Nat
        /\ queue[i].attempts \in Nat
    BY <2>1, HoldersAreFinite, NotificationsAssumption, QueueType DEF NoticesInv, NoticeTypes
  <2>3. queue[i].attempts + Cardinality(HoldersOf(i)) <= MaxAttempts + Cardinality(Replicas) - 1
    BY DEF NoticesInv, TriesLeft
  <2> QED
    BY <2>2, <2>3
<1> QED
  BY <1>1, NoticesInvInit, NoticesInvNext, PTL DEF NoticesSpec
=============================================================================
