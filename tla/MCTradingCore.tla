--------------------------- MODULE MCTradingCore ---------------------------
(***************************************************************************)
(* Small instances of the trading core.                                    *)
(***************************************************************************)
EXTENDS TradingCore, TLC

CONSTANTS d1, d2, d3, d4, w1, w2, a1, a2, e1, e2

MCOneDecision == {d1}
MCThreeDecisions == {d1, d2, d3}
MCFourDecisions == {d1, d2, d3, d4}
MCNobody == {}
MCOneWorker == {w1}
MCOneCaller == {a1}
MCTwoCallers == {a1, a2}
MCTwoEvaluators == {e1, e2}

MCAllSizings == {"low_confidence", "notional_limit", "above", "below", "fits"}
MCFits == {"fits"}
MCAllModes == {"off", "live", "sim"}
MCSim == {"sim"}
MCNothing == {}
MCBelow == {"below"}

MCSymmetryTwo == Permutations({d2, d3})

MCSymmetry == Permutations(Decisions) \cup Permutations(Workers)
              \cup Permutations(Callers) \cup Permutations(Evaluators)

\* Bound: with one decision, nothing is claimed after its row was undone
MCNothingUndone == undone = {}

-----------------------------------------------------------------------------
\* Auto-execute calls one at a time, with no human request and no exits beside
\* them: the decider, the event bus and the clock go on.
MCUnattendedNext ==
    \/ /\ \/ \E w \in Workers : Decider(w) \/ Request(w)
          \/ Tick
       /\ UNCHANGED <<auto, undone, eval>>
    \/ (\E a \in Callers : AutoStep(a)) /\ UNCHANGED eval

\* A reachable state: auto-execute has bought one decision in second 0
MCOneBoughtInit ==
    /\ entries = <<[dec |-> d1, created |-> 0, status |-> "confirmed",
                   sizing |-> "fits", fill |-> 1, auto |-> TRUE, confirmedAt |-> 0]>>
    /\ llmRejects = [d \in Decisions |-> 0]
    /\ rejects = [d \in Decisions |-> 0]
    /\ expires = [d \in Decisions |-> 0]
    /\ costs = [d \in Decisions |-> IF d = d1 THEN 1 ELSE 0]
    /\ exits = <<>>
    /\ audits = <<[dec |-> d1, outcome |-> "pass"]>>
    /\ orders = <<d1>>
    /\ lost = {}
    /\ emitted = {}
    /\ attempts = [d \in Decisions |-> IF d = d1 THEN 1 ELSE 0]
    /\ now = 0
    /\ req = [w \in Workers |-> Idle]
    /\ AutoInit
    /\ ExitInit

MCUnattendedSpec == MCOneBoughtInit /\ [][MCUnattendedNext]_coreVars

\* A reachable state: three decisions were bought by auto-execute in second 0
\* and sold at a loss, every request has returned, one decision is left.
MCLosingStreakInit ==
    LET lost3 == <<d1, d2, d3>>
        before == {d1, d2, d3}
    IN
    /\ entries = [k \in 1..3 |->
          [dec |-> lost3[k], created |-> 0, status |-> "closed",
           sizing |-> "fits", fill |-> k, auto |-> TRUE, confirmedAt |-> 0]]
    /\ llmRejects = [d \in Decisions |-> 0]
    /\ rejects = [d \in Decisions |-> 0]
    /\ expires = [d \in Decisions |-> 0]
    /\ costs = [d \in Decisions |-> IF d \in before THEN 1 ELSE 0]
    /\ exits = [k \in 1..3 |-> [dec |-> lost3[k], loss |-> TRUE, at |-> 0,
                                source |-> "null"]]
    /\ audits = [k \in 1..3 |-> [dec |-> lost3[k], outcome |-> "pass"]]
    /\ orders = lost3
    /\ lost = {}
    /\ emitted = {}
    /\ attempts = [d \in Decisions |-> IF d \in before THEN 1 ELSE 0]
    /\ now = 0
    /\ req = [w \in Workers |-> Idle]
    /\ AutoInit
    /\ ExitInit

MCLosingStreakSpec == MCLosingStreakInit /\ [][CoreNext]_coreVars

=============================================================================
