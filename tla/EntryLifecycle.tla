--------------------------- MODULE EntryLifecycle ---------------------------
(***************************************************************************)
(* What the trading core promises about one decision, whatever requests    *)
(* race for it: it is entered at most once, bought or put aside at most    *)
(* once, and sold only after it was bought.  The promise ends where a      *)
(* stale copy of the entry is written over one that was decided already.   *)
(***************************************************************************)
CONSTANT Decisions

VARIABLE stage     \* where each decision stands

Stages == {"none", "pending_confirm", "confirmed", "closed", "rejected",
           "expired", "undone"}

TypeOK == stage \in [Decisions -> Stages]

Init == stage = [d \in Decisions |-> "none"]

Move(d, from, to) == /\ stage[d] = from
                     /\ stage' = [stage EXCEPT ![d] = to]

Enter(d) == Move(d, "none", "pending_confirm")
Buy(d) == Move(d, "pending_confirm", "confirmed")
PutAside(d) == Move(d, "pending_confirm", "rejected")
Sell(d) == Move(d, "confirmed", "closed")

\* A pending entry has no change to lose, and what was undone stays so
Undo(d) == /\ stage[d] \in {"confirmed", "closed", "rejected", "expired"}
           /\ stage' = [stage EXCEPT ![d] = "undone"]

\* One sweep expires any set of pending decisions
Expire(D) == /\ \A d \in D : stage[d] = "pending_confirm"
             /\ stage' = [d \in Decisions |->
                            IF d \in D THEN "expired" ELSE stage[d]]

Next == \/ \E D \in SUBSET Decisions : Expire(D)
        \/ \E d \in Decisions : \/ Enter(d) \/ Buy(d) \/ PutAside(d)
                              \/ Sell(d) \/ Undo(d)

Spec == Init /\ [][Next]_stage

=============================================================================
