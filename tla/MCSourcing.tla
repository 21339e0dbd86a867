----------------------------- MODULE MCSourcing -----------------------------
(***************************************************************************)
(* Small instances of Sourcing for TLC.                                    *)
(***************************************************************************)
EXTENDS Sourcing

CONSTANTS s1, s2, r1, r2, low, high
=============================================================================
