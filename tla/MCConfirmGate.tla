--------------------------- MODULE MCConfirmGate ---------------------------
(***************************************************************************)
(* Small instances of the confirm gate.                                    *)
(***************************************************************************)
EXTENDS ConfirmGate, TLC

CONSTANTS d1, d2, w1, w2

MCOneDecision == {d1}
MCDecisions == {d1, d2}
MCOneWorker == {w1}
MCWorkers == {w1, w2}
MCSizings == {"fits"}
MCObserved == EventTypes
MCNothing == {}

\* Decisions are interchangeable, and so are requests
MCSymmetry == Permutations(Decisions) \cup Permutations(Workers)

=============================================================================
