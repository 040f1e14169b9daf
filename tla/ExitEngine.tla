----------------------------- MODULE ExitEngine -----------------------------
(***************************************************************************)
(* evaluate_open_positions: one SELECT of the confirmed entries, then row  *)
(* by row a price lookup, the exit rules and a transaction of its own that *)
(* inserts the exit row and closes the entry.  The list of rows is not     *)
(* read again, so it can be stale when its last row is closed.             *)
(***************************************************************************)
EXTENDS ConfirmGate

CONSTANT Evaluators    \* exit-engine runs that can be in flight together

VARIABLE eval          \* exit-engine runs in flight

Resting == [pc |-> "idle", todo |-> {}, at |-> 0, out |-> <<>>]

\* todo are the ids of the rows still to look at
Evaluations == [pc : {"idle", "evaluating", "emitting"}, todo : SUBSET Nat,
                at : Time, out : Seq(Event)]

ExitInit == eval = [e \in Evaluators |-> Resting]

\* Mutant: positions already closed are selected again
ConfirmedInOrClosed(scope) ==
    {i \in DOMAIN entries : /\ entries[i].status \in {"confirmed", "closed"}
                            /\ entries[i].dec \in scope}

\* The confirmed rows in scope (every symbol, or one)
ConfirmedIn(scope) ==
    {i \in DOMAIN entries : /\ entries[i].status = "confirmed"
                            /\ entries[i].dec \in scope}

EvalStart(e, scope) ==
    /\ eval[e].pc = "idle"
    /\ eval' = [eval EXCEPT ![e] = [Resting EXCEPT !.pc = "evaluating",
                                       !.todo = ConfirmedIn(scope), !.at = now]]
    /\ UNCHANGED vars

\* The rows come in the order of their ids
NextRow(e, i) ==
    /\ eval[e].pc = "evaluating"
    /\ i \in eval[e].todo
    /\ \A j \in eval[e].todo : i <= j

\* No close price, a payload that cannot be evaluated, or nothing triggered
EvalPass(e) ==
    \E i \in eval[e].todo :
        /\ NextRow(e, i)
        /\ eval' = [eval EXCEPT ![e].todo = @ \ {i}]
        /\ UNCHANGED vars

\* _close_position_atomic and _flip_entry_to_closed: neither looks at the
\* status the entry has by now
ClosePosition(d, loss, at) ==
    \E i \in DOMAIN entries :
        /\ IsLatest(d, i)
        /\ SetRow(i, WithStatus(entries[i], "closed"))
        /\ exits' = Append(exits, [dec |-> d, loss |-> loss, at |-> at,
                                   source |-> "null"])

\* Stop loss, T1 or time stop: only whether it is a loss matters here
EvalClose(e, loss) ==
    \E i \in eval[e].todo :
        LET d == entries[i].dec IN
        /\ NextRow(e, i)
        /\ ClosePosition(d, loss, eval[e].at)
        /\ eval' = [eval EXCEPT ![e].pc = "emitting", ![e].todo = @ \ {i},
                                ![e].out = <<Msg("exit_journaled", d)>>]
        /\ UNCHANGED <<llmRejects, rejects, expires, costs, audits, brokerVars,
                       emitted, attempts, now, req>>

EvalEmit(e) ==
    /\ eval[e].pc = "emitting"
    /\ Publish(Head(eval[e].out))
    /\ eval' = [eval EXCEPT ![e].pc = "evaluating", ![e].out = <<>>]
    /\ UNCHANGED <<journal, brokerVars, attempts, now, req>>

\* Returns its results, or raises if a price was missing (the positions it
\* closed stay closed); or the process dies with rows still to do
EvalEnd(e) ==
    /\ eval[e].pc \in {"evaluating", "emitting"}
    /\ eval' = [eval EXCEPT ![e] = Resting]
    /\ UNCHANGED vars

Evaluate(e) ==
    \/ \E scope \in {Decisions} \cup {{d} : d \in Decisions} : EvalStart(e, scope)
    \/ EvalPass(e)
    \/ \E loss \in BOOLEAN : EvalClose(e, loss)
    \/ EvalEmit(e)
    \/ EvalEnd(e)

=============================================================================
