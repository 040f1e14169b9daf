---------------------------- MODULE EntryDecider ----------------------------
(***************************************************************************)
(* decide_entry: one LLM call between a clock read and one transaction     *)
(* that writes an entry or reject row together with the cost row, then the *)
(* events.                                                                 *)
(***************************************************************************)
EXTENDS TradeJournal

\* Waiting for the LLM
Deciding(d) == [Idle EXCEPT !.pc = "deciding", !.dec = d, !.at = now]

\* The decision id and created_at are taken before the LLM is called
DecideStart(w, d) ==
    /\ IsIdle(w)
    /\ attempts[d] < MaxAttempts
    /\ attempts' = [attempts EXCEPT ![d] = @ + 1]
    /\ req' = [req EXCEPT ![w] = Deciding(d)]
    /\ UNCHANGED <<journal, brokerVars, emitted, now>>

\* Mutant: the cap is not applied
CappedNever(sizing) == sizing

\* validate_decider_output, on what is not rejected: a sizing above the cap of
\* its stage is brought down to the cap
Capped(sizing) == IF sizing = "above" THEN "fits" ELSE sizing

\* The LLM said enter and the validator found nothing to force a reject
DecideEnter(w, s) ==
    LET d == req[w].dec IN
    /\ req[w].pc = "deciding"
    /\ entries' = Append(entries, NewEntry(d, req[w].at, Capped(s)))
    /\ costs' = AddRow(costs, d)
    /\ req' = [req EXCEPT ![w] = Emitting(<<Msg("entry_journaled", d),
                                            Msg("decision_made", d),
                                            Msg("awaiting_confirm", d)>>)]
    /\ UNCHANGED <<llmRejects, rejects, expires, exitRows, brokerVars, emitted,
                   attempts, now>>

\* Mutant: an answer that does not parse costs nothing
DecideRejectUnpaid(w, parsed) ==
    LET d == req[w].dec IN
    /\ req[w].pc = "deciding"
    /\ llmRejects' = AddRow(llmRejects, d)
    /\ costs' = IF parsed THEN AddRow(costs, d) ELSE costs
    /\ req' = [req EXCEPT ![w] = Emitting(<<Msg("reject_journaled", d)>>)]
    /\ UNCHANGED <<entries, rejects, expires, exitRows, brokerVars, emitted,
                   attempts, now>>

\* A reject row: the answer did not parse (the exception is raised again
\* before decision_made), or the LLM or the validator rejected
DecideReject(w, parsed) ==
    LET d == req[w].dec IN
    /\ req[w].pc = "deciding"
    /\ llmRejects' = AddRow(llmRejects, d)
    /\ costs' = AddRow(costs, d)
    /\ req' = [req EXCEPT ![w] = Emitting(
                  <<Msg("reject_journaled", d)>>
                  \o IF parsed THEN <<Msg("decision_made", d)>> ELSE <<>>)]
    /\ UNCHANGED <<entries, rejects, expires, exitRows, brokerVars, emitted, attempts,
                   now>>

Decider(w) ==
    \/ \E d \in Decisions : DecideStart(w, d)
    \/ \E s \in Sizings : DecideEnter(w, s)
    \/ \E parsed \in BOOLEAN : DecideReject(w, parsed)

=============================================================================
