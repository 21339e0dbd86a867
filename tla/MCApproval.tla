----------------------------- MODULE MCApproval -----------------------------
(***************************************************************************)
(* Small instances of Approval for TLC.                                    *)
(***************************************************************************)
EXTENDS Approval, TLC

CONSTANTS o1, o2, i1, i2, d1, d2, r1, r2, r3, alice, bob, root, buyer, boss, low, high

MCSymmetry == Permutations(Requests)

\* alice and bob share the buyer's step; only bob is the boss.
TwoHolds == (alice :> {buyer}) @@ (bob :> {buyer, boss})
TwoSees == (alice :> {o1}) @@ (bob :> {o1})

OneHolds == alice :> {buyer}
OneSees == alice :> {o1}

\* bob's data scope does not reach the object; root holds "*" and no role.
ScopedHolds == (alice :> {buyer}) @@ (bob :> {buyer, boss}) @@ (root :> {})
ScopedSees == (alice :> {o1}) @@ (bob :> {}) @@ (root :> {o1})

\* Edits of a rule: two steps, one open step and switched off, and none, which
\* is refused.
EditedRules == {[on |-> TRUE, matches |-> {low}, steps |-> <<buyer, boss>>],
                [on |-> FALSE, matches |-> {low}, steps |-> <<AnyRole>>],
                [on |-> TRUE, matches |-> {low}, steps |-> <<>>]}

\* One rule for every amount, another for high amounts only.
AmountRules == {[on |-> TRUE, matches |-> {low, high}, steps |-> <<buyer>>],
                [on |-> TRUE, matches |-> {high}, steps |-> <<AnyRole>>]}

TwoStepRule == {[on |-> TRUE, matches |-> {low}, steps |-> <<buyer, boss>>],
                [on |-> FALSE, matches |-> {low}, steps |-> <<AnyRole>>]}

OpenRule == {[on |-> TRUE, matches |-> {low}, steps |-> <<AnyRole>>]}
=============================================================================
