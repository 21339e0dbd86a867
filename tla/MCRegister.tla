------------------------------ MODULE MCRegister -----------------------------
(***************************************************************************)
(* Model checking the supplier register and what is written beside it: the *)
(* register itself, screenings, the portal, the rollups, the documents and *)
(* the scores of bids.  They are checked side by side: a behaviour is one  *)
(* of the component it picks at first, and the others rest.                *)
(***************************************************************************)
EXTENDS Screening, Portal, Rollups, Documents, BidScores, TLC

CONSTANTS Components,  \* those to check
          s1, b1, r1, fin, sec, tax, u1, p1

VARIABLE component

MCVars == <<allVars, portalVars, rollupVars, docVars, scoreVars, component>>

MCReach == u1 :> {s1}

MCWeight == (fin :> 60) @@ (sec :> 40)
Template(pass, conditional, review, required, papers) ==
    [pass |-> pass, conditional |-> conditional, review |-> review, failure |-> "",
     weight |-> MCWeight, required |-> required, papers |-> papers]
\* Without thresholds, as they were accepted once; with a required item, with a required paper.
MCOldTemplates == {Template(0, 0, 0, {}, {})}
MCTemplates == MCOldTemplates \cup {Template(10000, 5000, 4000, {fin}, {}), Template(10000, 5000, 4000, {}, {tax})}

\* With marks of 91 an average of two can lie just below the first rule, and be shown on it.
MCScorecards == {[weight |-> [price |-> 55, quality |-> 45],
                  rules |-> <<[min |-> 7053, grade |-> "A"], [min |-> 5000, grade |-> "B"]>>],
                 [weight |-> [price |-> 100], rules |-> <<[min |-> 6000, grade |-> "A"]>>]}

MCStanding == [b \in Bids |-> IF b = p1 THEN 50 ELSE 60]
MCWeights == {DefaultWeights, <<0, 0, 0, 0>>}

\* A company comes on file, which is all that screenings and the portal need.
FirstOnFile == \E r \in SupplierRequests : RegisterRead(r, s1, b1, "", NoValue) \/ RegisterInsert(r)

MCInit ==
    /\ component \in Components
    /\ ScreeningInit /\ PortalInit /\ RollupInit /\ DocumentsInit /\ ScoreInit
    /\ component \in {"screening", "portal"} => policy = [enabled |-> "off", bank |-> "on"]
    /\ component \in {"rollups", "documents", "scores"} => policy = [enabled |-> "off", bank |-> "off"]

RestButRegister == UNCHANGED <<rollupVars, docVars, scoreVars, component>>

MCNext ==
    \/ /\ component = "register" /\ RegisterNext
       /\ UNCHANGED <<screeningVars, portalVars>> /\ RestButRegister
    \/ /\ component = "screening"
       /\ (FirstOnFile /\ UNCHANGED screeningVars) \/ ScreeningStep
       /\ UNCHANGED portalVars /\ RestButRegister
    \/ /\ component = "portal"
       /\ (FirstOnFile /\ UNCHANGED portalVars) \/ PortalStep
       /\ UNCHANGED screeningVars /\ RestButRegister
    \/ component = "rollups" /\ RollupNext /\ UNCHANGED <<allVars, portalVars, docVars, scoreVars, component>>
    \/ component = "documents" /\ DocumentsNext /\ UNCHANGED <<allVars, portalVars, rollupVars, scoreVars, component>>
    \/ component = "scores" /\ ScoreNext /\ UNCHANGED <<allVars, portalVars, rollupVars, docVars, component>>

MCSpec == MCInit /\ [][MCNext]_MCVars
=============================================================================
