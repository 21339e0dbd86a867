------------------------------- MODULE Migrate ------------------------------
(***************************************************************************)
(* Schema migrations of Vendra: servers that start together apply the same *)
(* numbered files, each in a transaction of its own, one server at a time  *)
(* by a session lock.  The lock lives on one connection and the files run  *)
(* on others, so a server may lose the lock and go on.                     *)
(***************************************************************************)
EXTENDS Naturals, Sequences

CONSTANTS Servers, Files,   \* files are 1 .. Files, in the order of their names
          MishapBound,      \* crashes, broken connections and failed statements in all (bound)
          Nobody

ASSUME MigrateAssumption == Files \in Nat /\ MishapBound \in Nat /\ Nobody \notin Servers

VARIABLES schema,       \* what the files did to the database, in order
          versions,     \* schema_migrations
          lockedBy,     \* pg_advisory_lock(migrationLockID)
          server,       \* where each server is in its start
          mishaps

migrateVars == <<schema, versions, lockedBy, server, mishaps>>

Down == [pc |-> "down", file |-> 1]

Moves(s, fields) == server' = [server EXCEPT ![s] = fields]

\* Mutant: the lock outlives whoever took it.
Freed_Kept(s) == lockedBy

Freed(s) == IF lockedBy = s THEN Nobody ELSE lockedBy

-----------------------------------------------------------------------------
\* Migrate takes the lock, or waits for it.
TakeLock(s) ==
    /\ server[s].pc = "down"
    /\ lockedBy = Nobody
    /\ lockedBy' = s
    /\ Moves(s, [Down EXCEPT !.pc = "look"])
    /\ UNCHANGED <<schema, versions, mishaps>>

\* SELECT EXISTS for the next file; one that is there is skipped.
LookAtFile(s) ==
    LET q == server[s] IN
    /\ q.pc = "look"
    /\ q.file <= Files
    /\ Moves(s, IF q.file \in versions THEN [q EXCEPT !.file = @ + 1] ELSE [q EXCEPT !.pc = "apply"])
    /\ UNCHANGED <<schema, versions, lockedBy, mishaps>>

\* Mutant: a version that is there already does not fail the transaction.
VersionFree_Always(file) == TRUE

\* The primary key of schema_migrations.
VersionFree(file) == file \notin versions

\* The file and its version commit together, or the server gives up.
ApplyFile(s) ==
    LET q == server[s] IN
    /\ q.pc = "apply"
    /\ IF VersionFree(q.file)
       THEN /\ schema' = Append(schema, q.file)
            /\ versions' = versions \cup {q.file}
            /\ Moves(s, [q EXCEPT !.pc = "look", !.file = @ + 1])
       ELSE UNCHANGED <<schema, versions>> /\ Moves(s, [q EXCEPT !.pc = "failed"])
    /\ UNCHANGED <<lockedBy, mishaps>>

\* Mutant: a failed file does not keep the server from coming up.
Unlock_FailedServes(s) ==
    LET q == server[s] IN
    /\ q.pc = "failed" \/ (q.pc = "look" /\ q.file > Files)
    /\ lockedBy' = Freed(s)
    /\ Moves(s, [q EXCEPT !.pc = "up"])
    /\ UNCHANGED <<schema, versions, mishaps>>

\* The deferred unlock, after the last file and after a failure.
Unlock(s) ==
    LET q == server[s] IN
    /\ q.pc = "failed" \/ (q.pc = "look" /\ q.file > Files)
    /\ lockedBy' = Freed(s)
    /\ Moves(s, IF q.pc = "failed" THEN Down ELSE [q EXCEPT !.pc = "up"])
    /\ UNCHANGED <<schema, versions, mishaps>>

Mishap == mishaps < MishapBound /\ mishaps' = mishaps + 1

\* The connection that holds the lock breaks; the files run on other connections.
LockLost(s) ==
    /\ Mishap
    /\ lockedBy = s
    /\ lockedBy' = Nobody
    /\ UNCHANGED <<schema, versions, server>>

\* A statement fails, and its transaction is rolled back.
MigrationFails(s) ==
    /\ Mishap
    /\ server[s].pc \in {"look", "apply"}
    /\ Moves(s, [server[s] EXCEPT !.pc = "failed"])
    /\ UNCHANGED <<schema, versions, lockedBy>>

\* The process dies, with its connections and so its lock, and is started anew.
ServerDies(s) ==
    /\ Mishap
    /\ server[s].pc # "down"
    /\ lockedBy' = Freed(s)
    /\ Moves(s, Down)
    /\ UNCHANGED <<schema, versions>>

MigrateInit ==
    /\ schema = <<>>
    /\ versions = {}
    /\ lockedBy = Nobody
    /\ server = [s \in Servers |-> Down]
    /\ mishaps = 0

StartStep(s) == TakeLock(s) \/ LookAtFile(s) \/ ApplyFile(s) \/ Unlock(s)

MigrateNext == \E s \in Servers : StartStep(s) \/ LockLost(s) \/ MigrationFails(s) \/ ServerDies(s)

\* A server that is down is started, and one that starts goes on.
MigrateFairness == \A s \in Servers : WF_migrateVars(StartStep(s))

MigrateSpec == MigrateInit /\ [][MigrateNext]_migrateVars /\ MigrateFairness

-----------------------------------------------------------------------------
\* However many servers start together, wait, lose the lock, fail and die: together they do
\* what SchemaUpgrade says, so no file is run on top of a later one or for a second time,
\* and who serves requests does so on the whole schema (Migrate: "so several replicas
\* starting at once apply them one at a time").
UpgradeOf == INSTANCE SchemaUpgrade WITH applied <- schema, serving <- {s \in Servers : server[s].pc = "up"}
ImplementsUpgrade == UpgradeOf!UpgradeSpec

\* Every server comes up, and then on the whole schema: the lock of one that died is free
\* (Open, Migrate).
ServersStart == \A s \in Servers : <>[](server[s].pc = "up" /\ versions = 1 .. Files)
=============================================================================
