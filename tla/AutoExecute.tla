---------------------------- MODULE AutoExecute ----------------------------
(***************************************************************************)
(* try_auto_execute: a chain of reads and commits on one connection, with  *)
(* only confirm itself inside a transaction.  Between any two of its steps *)
(* other requests run.                                                     *)
(***************************************************************************)
EXTENDS ConfirmGate

CONSTANTS Callers,       \* auto-execute calls that can be in flight together
          Modes,         \* settings a calling process can have, see Mode
          DailyLimit,    \* OHMYSTOCK_AUTO_EXECUTE_DAILY_LIMIT
          DayLength,     \* seconds in a day
          LockoutTime,   \* OHMYSTOCK_AUTO_EXECUTE_LOSS_LOCKOUT_HOURS, in seconds
          MaxAudits      \* bound: audit rows

ASSUME SettingsAssumption ==
    /\ Modes \subseteq {"off", "live", "sim"}
    /\ DailyLimit \in Nat \ {0}
    /\ DayLength \in Nat \ {0}
    /\ LockoutTime \in Nat \ {0}
    /\ MaxAudits \in Nat

VARIABLES auto,          \* auto-execute calls in flight
          undone         \* history: decisions whose row a clamp patch put back
                         \* to what it was before another request changed it

Quiet == [pc |-> "idle", mode |-> "", dec |-> <<>>, at |-> 0, sizing |-> "", outcome |-> "",
          row |-> <<>>]

AutoInit == /\ auto = [a \in Callers |-> Quiet]
            /\ undone = {}

Goto(a, pc) == auto' = [auto EXCEPT ![a].pc = pc]

Blocked(a, outcome) ==
    auto' = [auto EXCEPT ![a].pc = "auditing", ![a].outcome = outcome]

\* Mutant: the notional limit is not checked
PayloadBreakerSkipsNotional(mode, sizing) ==
    CASE mode = "off" -> "flag_off"
      [] mode = "live" -> "live_broker"
      [] mode = "sim" -> IF sizing = "notional_limit" THEN "fits" ELSE sizing

\* The breakers that look at the settings and the payload only, in order: the
\* flag is off, or it is on with the live broker, or on with the simulator
PayloadBreaker(mode, sizing) ==
    CASE mode = "off" -> "flag_off"
      [] mode = "live" -> "live_broker"
      [] mode = "sim" -> sizing

\* The sizings that trip a breaker, and those the deviation check clamps: too
\* much is brought down to the system's sizing, too little stays as it is
Blocking == {"low_confidence", "notional_limit"}
Deviating == {"above", "below"}

\* Mutant: the LLM's sizing is written back
ClampedNever(sizing) == sizing

Clamped(sizing) == IF sizing = "above" THEN "fits" ELSE sizing

-----------------------------------------------------------------------------

\* _parse_pending_entry, then breakers 2 to 5 on the payload just read
AutoParse(a, d, mode) ==
    \E i \in DOMAIN entries :
        LET breaker == PayloadBreaker(mode, entries[i].sizing) IN
        /\ auto[a].pc = "idle"
        /\ Len(audits) < MaxAudits
        /\ IsPending(d, i)
        /\ auto' = [auto EXCEPT ![a] =
              IF breaker \in Breakers
              THEN [Quiet EXCEPT !.pc = "auditing", !.mode = mode, !.dec = d,
                                 !.outcome = breaker]
              ELSE [Quiet EXCEPT !.pc = "counting", !.mode = mode, !.dec = d,
                                 !.sizing = entries[i].sizing]]
        /\ UNCHANGED vars

Midnight(t) == (t \div DayLength) * DayLength

\* _count_auto_executed_today, asked at second t: the upper bound is strict
AutoToday(t) ==
    Cardinality({i \in DOMAIN entries : /\ entries[i].auto
                                        /\ entries[i].confirmedAt >= Midnight(t)
                                        /\ entries[i].confirmedAt < t})

\* Mutant: the day's entries are counted up to one more than the limit
OverLimitByOne(t) == AutoToday(t) > DailyLimit

OverLimit(t) == AutoToday(t) >= DailyLimit

\* Breaker 6
AutoCount(a) ==
    /\ auto[a].pc = "counting"
    /\ IF OverLimit(now) THEN Blocked(a, "daily_limit")
                         ELSE Goto(a, "counted")
    /\ UNCHANGED vars

\* _check_loss_lockout: the last three exit rows of auto-executed entries
LockedOut ==
    LET FromAuto(x) == x.source = "auto"
        mine == SelectSeq(exits, FromAuto)
        lastThree == {mine[k] : k \in {k \in DOMAIN mine : k > Len(mine) - 3}}
    IN  /\ Len(mine) >= 3
        /\ \A x \in lastThree : x.loss
        /\ \E x \in lastThree : x.at + LockoutTime > now

\* Breaker 7, then the deviation check of step 8
AutoLockout(a) ==
    /\ auto[a].pc = "counted"
    /\ IF LockedOut THEN Blocked(a, "loss_lockout")
       ELSE auto' = [auto EXCEPT
              ![a].pc = IF auto[a].sizing \in Deviating THEN "clamping" ELSE "ready",
              ![a].outcome = IF auto[a].sizing \in Deviating
                             THEN "sizing_clamped_then_pass" ELSE "pass"]
    /\ UNCHANGED vars

\* _patch_entry_payload reads the latest payload ...
AutoPatchRead(a) ==
    \E i \in DOMAIN entries :
        /\ auto[a].pc = "clamping"
        /\ IsLatest(auto[a].dec, i)
        /\ auto' = [auto EXCEPT ![a].pc = "patching", ![a].at = i,
                                ![a].row = entries[i]]
        /\ UNCHANGED vars

\* ... and writes the whole payload back, with the clamped sizing: what was
\* committed to the row in between is lost
AutoPatchWrite(a) ==
    /\ auto[a].pc = "patching"
    /\ SetRow(auto[a].at,
              [auto[a].row EXCEPT !.sizing = Clamped(auto[a].sizing)])
    /\ auto' = [auto EXCEPT ![a].pc = "ready", ![a].at = 0, ![a].row = <<>>]
    /\ undone' = undone \cup {d \in {auto[a].dec} : entries[auto[a].at] # auto[a].row}
    /\ UNCHANGED <<llmRejects, rejects, expires, costs, exitRows, brokerVars,
                   emitted, attempts, now, req>>

\* Mutant: a failed confirm is swallowed and audited as a pass
AutoConfirmSwallows(a) ==
    /\ auto[a].pc = "ready"
    /\ ConfirmFills(auto[a].dec, TRUE) \/ ConfirmRolledBack(auto[a].dec)
    /\ Goto(a, "confirmed")
    /\ UNCHANGED <<emitted, attempts, now, req>>

\* Step 9: confirm, with auto_executed=True
AutoConfirm(a) ==
    /\ auto[a].pc = "ready"
    /\ \/ ConfirmFills(auto[a].dec, TRUE) /\ Goto(a, "confirmed")
       \/ ConfirmRolledBack(auto[a].dec) /\ auto' = [auto EXCEPT ![a] = Quiet]
    /\ UNCHANGED <<emitted, attempts, now, req>>

\* The event confirm emits after its commit
AutoSent(a) ==
    /\ auto[a].pc = "confirmed"
    /\ Publish(Msg("order_sent", auto[a].dec))
    /\ Goto(a, "auditing")
    /\ UNCHANGED <<journal, brokerVars, attempts, now, req>>

\* _write_audit, in a transaction of its own
AutoAudit(a) ==
    /\ auto[a].pc = "auditing"
    /\ audits' = Append(audits, [dec |-> auto[a].dec,
                                 outcome |-> auto[a].outcome])
    /\ Goto(a, "announcing")
    /\ UNCHANGED <<entries, llmRejects, rejects, expires, costs, exits,
                   brokerVars, emitted, attempts, now, req>>

\* emit_journal_written for the audit row; a pass returns
AutoAnnounce(a) ==
    /\ auto[a].pc = "announcing"
    /\ Publish(Msg("audit_journaled", auto[a].dec))
    /\ IF auto[a].outcome \in Breakers THEN Goto(a, "warning")
                                       ELSE auto' = [auto EXCEPT ![a] = Quiet]
    /\ UNCHANGED <<journal, brokerVars, attempts, now, req>>

\* _emit_risk_off for a breaker that tripped; the call returns
AutoWarn(a) ==
    /\ auto[a].pc = "warning"
    /\ Publish(Msg("risk_off_triggered", auto[a].dec))
    /\ auto' = [auto EXCEPT ![a] = Quiet]
    /\ UNCHANGED <<journal, brokerVars, attempts, now, req>>

\* confirm_failed (no longer pending, broker error), "database is locked", or
\* the process dies
AutoRaise(a) ==
    /\ auto[a].pc # "idle"
    /\ auto' = [auto EXCEPT ![a] = Quiet]
    /\ UNCHANGED vars

AutoStep(a) ==
    \/ AutoPatchWrite(a)
    \/ /\ \/ \E d \in Decisions, mode \in Modes : AutoParse(a, d, mode)
          \/ AutoCount(a)
          \/ AutoLockout(a)
          \/ AutoPatchRead(a)
          \/ AutoConfirm(a)
          \/ AutoSent(a)
          \/ AutoAudit(a)
          \/ AutoAnnounce(a)
          \/ AutoWarn(a)
          \/ AutoRaise(a)
       /\ UNCHANGED undone

=============================================================================
