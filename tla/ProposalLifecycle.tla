-------------------------- MODULE ProposalLifecycle --------------------------
(***************************************************************************)
(* What the five-state workflow of proposals/README.md promises: each      *)
(* proposal has one status, which moves along the five legal edges, for    *)
(* as long as requests are not cut off in the middle.  Nothing locks the   *)
(* files, so a proposal can drop out of the workflow: two requests race    *)
(* for it, or for the name it shares with another.                         *)
(***************************************************************************)
CONSTANT Drafts
VARIABLES status,
          calm      \* no request was cut off so far

Statuses == {"pending", "validating", "approved", "merged", "rejected"}

\* The five legal transitions
Edges == {<<"pending", "validating">>, <<"validating", "approved">>,
          <<"validating", "rejected">>, <<"approved", "merged">>,
          <<"approved", "rejected">>}

Init == status = [d \in Drafts |-> "none"]

Create(d) ==
    /\ status[d] = "none"
    /\ status'[d] = "pending"

Move(d) == <<status[d], status'[d]>> \in Edges

\* The proposal is out of the workflow, for good
Race(d) ==
    /\ status[d] \in Statuses
    /\ status'[d] = "raced"

\* One request takes one proposal on; it can race with others doing so
Next ==
    \E d \in Drafts :
        /\ Create(d) \/ Move(d) \/ Race(d)
        /\ \A e \in Drafts \ {d} : status'[e] = status[e] \/ Race(e)

Spec == Init /\ [][calm' => Next]_status

=============================================================================
