--------------------------- MODULE SchemaUpgrade ----------------------------
(***************************************************************************)
(* What the schema migrations promise, with no lock, no interleaving and   *)
(* no failure: the files are applied one after the other, none twice and   *)
(* none taken back, and a server serves on the whole schema only.          *)
(* Migrate.tla implements this specification.                              *)
(***************************************************************************)
EXTENDS Naturals, Sequences

CONSTANTS Servers, Files

VARIABLES applied,   \* the files, in the order they were applied
          serving    \* the servers that came up

upgradeVars == <<applied, serving>>

UpgradeInit == applied = <<>> /\ serving = {}

ApplyNext ==
    /\ Len(applied) < Files
    /\ applied' = Append(applied, Len(applied) + 1)
    /\ UNCHANGED serving

Serve(s) ==
    /\ Len(applied) = Files
    /\ serving' = serving \cup {s}
    /\ UNCHANGED applied

Stop(s) ==
    /\ serving' = serving \ {s}
    /\ UNCHANGED applied

UpgradeNext == ApplyNext \/ \E s \in Servers : Serve(s) \/ Stop(s)

UpgradeSpec == UpgradeInit /\ [][UpgradeNext]_upgradeVars
=============================================================================
