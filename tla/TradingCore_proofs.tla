------------------------- MODULE TradingCore_proofs -------------------------
(***************************************************************************)
(* What the trading core promises, for any number of decisions, requests,  *)
(* auto-execute calls and evaluations: type correctness, and when each     *)
(* decision id is decided once (MaxAttempts = 1) the breakers and the      *)
(* story of every decision.  The clamp writes back a payload that may be   *)
(* stale and so undoes what was committed: the story of a decision ends    *)
(* there, and that of every other one goes on.                             *)
(***************************************************************************)
EXTENDS TradingCore, ConfirmGate_proofs

-----------------------------------------------------------------------------
\* Types

\* Calls that got past the breakers that look at the payload
Past == {"counting", "counted", "clamping", "patching", "ready", "confirmed"}

AutoStates == [pc : AutoPcs, mode : Modes \cup {""}, dec : Decisions \cup {<<>>},
               at : Nat, sizing : Sizings \cup {"fits", ""},
               outcome : Breakers \cup Passes \cup {""}, row : EntryRow \cup {<<>>}]

\* What a call in flight holds on to, by where it stands.
Holds(s) ==
    /\ s.pc # "idle" => s.dec \in Decisions
    /\ s.pc \in Past => s.mode = "sim" /\ s.sizing \in (Sizings \cup {"fits"}) \ Blocking
    /\ s.pc \in {"clamping", "patching", "ready", "confirmed"} => s.outcome \in Passes
    /\ s.pc \in {"auditing", "announcing", "warning"} => s.outcome \in Breakers \cup Passes
    /\ s.pc = "patching" => s.row \in EntryRow

AutoTyped ==
    /\ auto \in [Callers -> AutoStates]
    /\ \A a \in Callers : Holds(auto[a])

\* The patch a call is about to write goes to a row of the journal.
PatchInPlace ==
    \A a \in Callers : auto[a].pc = "patching" => auto[a].at \in DOMAIN entries

EvalTyped ==
    /\ eval \in [Evaluators -> Evaluations]
    /\ \A e \in Evaluators : eval[e].pc = "emitting" => eval[e].out # <<>>

CoreTypes ==
    /\ TypeOK
    /\ AutoTyped
    /\ PatchInPlace
    /\ EvalTyped

\* One call moves on, the others stay.
LEMMA SetAuto ==
    ASSUME AutoTyped, NEW a \in Callers, NEW s \in AutoStates, Holds(s),
           auto' = [auto EXCEPT ![a] = s]
    PROVE  /\ AutoTyped'
           /\ auto'[a] = s
           /\ \A b \in Callers : b # a => auto'[b] = auto[b]
  <1>1. /\ auto' \in [Callers -> AutoStates]
        /\ auto'[a] = s
        /\ \A b \in Callers : b # a => auto'[b] = auto[b]
    BY DEF AutoTyped
  <1>2. \A b \in Callers : Holds(auto'[b])
    BY <1>1 DEF AutoTyped
  <1>3. QED
    BY <1>1, <1>2 DEF AutoTyped, Holds

\* A call that has returned holds nothing.
LEMMA QuietHolds == Quiet \in AutoStates /\ Holds(Quiet) /\ Quiet.pc = "idle"
  BY DEF Quiet, AutoStates, AutoPcs, Holds, Past

-----------------------------------------------------------------------------
\* The steps of a call, each as the record the call goes on with

\* A call parses a pending entry and stops at a breaker of the payload, or
\* goes on with the sizing it read.
LEMMA ParseFacts ==
    ASSUME CoreTypes, NEW a \in Callers, NEW d \in Decisions, NEW mode \in Modes,
           AutoParse(a, d, mode)
    PROVE  \E s \in AutoStates, i \in DOMAIN entries :
              /\ auto' = [auto EXCEPT ![a] = s] /\ Holds(s)
              /\ s.dec = d /\ entries[i].dec = d
              /\ \/ s.pc = "auditing" /\ s.outcome \in Breakers
                 \/ s.pc = "counting" /\ s.sizing = entries[i].sizing
              /\ UNCHANGED vars
  <1>1. PICK i \in DOMAIN entries :
          LET breaker == PayloadBreaker(mode, entries[i].sizing) IN
          /\ IsPending(d, i)
          /\ auto' = [auto EXCEPT ![a] =
                IF breaker \in Breakers
                THEN [Quiet EXCEPT !.pc = "auditing", !.mode = mode, !.dec = d,
                                   !.outcome = breaker]
                ELSE [Quiet EXCEPT !.pc = "counting", !.mode = mode, !.dec = d,
                                   !.sizing = entries[i].sizing]]
          /\ UNCHANGED vars
    BY DEF AutoParse
  <1> DEFINE breaker == PayloadBreaker(mode, entries[i].sizing)
             stopped == [Quiet EXCEPT !.pc = "auditing", !.mode = mode, !.dec = d,
                                      !.outcome = breaker]
             goesOn == [Quiet EXCEPT !.pc = "counting", !.mode = mode, !.dec = d,
                                     !.sizing = entries[i].sizing]
  <1>2. entries[i].dec = d /\ entries[i].sizing \in Sizings \cup {"fits"}
    BY <1>1, EntryType DEF IsPending, IsLatest, CoreTypes, EntryRow
  <1>3. CASE breaker \in Breakers
    <2>1. stopped \in AutoStates /\ Holds(stopped) /\ stopped.pc = "auditing"
          /\ stopped.dec = d /\ stopped.outcome \in Breakers
      BY <1>3 DEF Quiet, AutoStates, AutoPcs, Holds, Past
    <2>2. auto' = [auto EXCEPT ![a] = stopped]
      BY <1>1, <1>3
    <2> HIDE DEF stopped
    <2>3. QED
      BY <1>1, <1>2, <2>1, <2>2
  <1>4. CASE breaker \notin Breakers
    <2>1. mode = "sim" /\ entries[i].sizing \notin Blocking
      BY <1>4, SettingsAssumption DEF PayloadBreaker, Breakers, Blocking
    <2>2. goesOn \in AutoStates /\ Holds(goesOn) /\ goesOn.pc = "counting"
          /\ goesOn.dec = d /\ goesOn.sizing = entries[i].sizing
      BY <1>2, <2>1 DEF Quiet, AutoStates, AutoPcs, Holds, Past
    <2>3. auto' = [auto EXCEPT ![a] = goesOn]
      BY <1>1, <1>4
    <2> HIDE DEF goesOn
    <2>4. QED
      BY <1>1, <1>2, <2>2, <2>3
  <1>5. QED
    BY <1>3, <1>4

\* Breakers 6 and 7: a call is stopped, or goes on with what it holds; when
\* nothing deviates it is ready.
LEMMA CountFacts ==
    ASSUME AutoTyped, NEW a \in Callers, AutoCount(a)
    PROVE  \E s \in AutoStates :
              /\ auto' = [auto EXCEPT ![a] = s] /\ Holds(s)
              /\ s.dec = auto[a].dec /\ auto[a].pc \in Past
              /\ \/ s.pc = "auditing" /\ s.outcome \in Breakers
                 \/ s.pc = "counted" /\ s.sizing = auto[a].sizing
              /\ UNCHANGED vars
  <1>1. /\ auto[a].pc = "counting" /\ UNCHANGED vars
        /\ \/ auto' = [auto EXCEPT ![a] = [auto[a] EXCEPT !.pc = "auditing",
                                                          !.outcome = "daily_limit"]]
           \/ auto' = [auto EXCEPT ![a] = [auto[a] EXCEPT !.pc = "counted"]]
    BY DEF AutoCount, Blocked, Goto
  <1>2. auto[a] \in AutoStates /\ Holds(auto[a])
    BY DEF AutoTyped
  <1> DEFINE stopped == [auto[a] EXCEPT !.pc = "auditing", !.outcome = "daily_limit"]
             goesOn == [auto[a] EXCEPT !.pc = "counted"]
  <1>3. /\ stopped \in AutoStates /\ Holds(stopped) /\ stopped.dec = auto[a].dec
        /\ stopped.pc = "auditing" /\ stopped.outcome \in Breakers
    BY <1>1, <1>2 DEF AutoStates, AutoPcs, Holds, Past, Breakers
  <1>4. /\ goesOn \in AutoStates /\ Holds(goesOn) /\ goesOn.dec = auto[a].dec
        /\ goesOn.pc = "counted" /\ goesOn.sizing = auto[a].sizing
    BY <1>1, <1>2 DEF AutoStates, AutoPcs, Holds, Past
  <1> HIDE DEF stopped, goesOn
  <1>5. auto[a].pc \in Past
    BY <1>1 DEF Past
  <1>6. auto' = [auto EXCEPT ![a] = stopped] \/ auto' = [auto EXCEPT ![a] = goesOn]
    BY <1>1 DEF stopped, goesOn
  <1>7. QED
    BY <1>1, <1>3, <1>4, <1>5, <1>6

\* Breaker 7 and the deviation check.
LEMMA LockoutFacts ==
    ASSUME AutoTyped, NEW a \in Callers, AutoLockout(a)
    PROVE  \E s \in AutoStates :
              /\ auto' = [auto EXCEPT ![a] = s] /\ Holds(s)
              /\ s.dec = auto[a].dec /\ auto[a].pc \in Past
              /\ \/ s.pc = "auditing" /\ s.outcome \in Breakers
                 \/ /\ s.sizing = auto[a].sizing
                    /\ s.pc = IF auto[a].sizing \in Deviating THEN "clamping" ELSE "ready"
              /\ UNCHANGED vars
  <1> DEFINE stopped == [auto[a] EXCEPT !.pc = "auditing", !.outcome = "loss_lockout"]
             to == IF auto[a].sizing \in Deviating THEN "clamping" ELSE "ready"
             pass == IF auto[a].sizing \in Deviating
                     THEN "sizing_clamped_then_pass" ELSE "pass"
             goesOn == [auto[a] EXCEPT !.pc = to, !.outcome = pass]
  <1>1. /\ auto[a].pc = "counted" /\ UNCHANGED vars
        /\ auto' = [auto EXCEPT ![a] = stopped] \/ auto' = [auto EXCEPT ![a] = goesOn]
    BY DEF AutoLockout, Blocked
  <1>2. auto[a] \in AutoStates /\ Holds(auto[a])
    BY DEF AutoTyped
  <1>3. /\ stopped \in AutoStates /\ Holds(stopped) /\ stopped.dec = auto[a].dec
        /\ stopped.pc = "auditing" /\ stopped.outcome \in Breakers
    BY <1>1, <1>2 DEF AutoStates, AutoPcs, Holds, Past, Breakers
  <1>4. to \in {"clamping", "ready"} /\ pass \in Passes
    BY DEF Passes
  <1> HIDE DEF to, pass
  <1>5. /\ goesOn \in AutoStates /\ Holds(goesOn) /\ goesOn.dec = auto[a].dec
        /\ goesOn.pc = to /\ goesOn.sizing = auto[a].sizing
    BY <1>1, <1>2, <1>4 DEF AutoStates, AutoPcs, Holds, Past
  <1> HIDE DEF stopped, goesOn
  <1>6. auto[a].pc \in Past
    BY <1>1 DEF Past
  <1>7. \E s \in {stopped, goesOn} : auto' = [auto EXCEPT ![a] = s]
    BY <1>1
  <1>8. QED
    BY <1>1, <1>3, <1>5, <1>6, <1>7 DEF to

\* The two halves of the patch: the row is read, and written with its sizing
\* clamped.
LEMMA PatchReadFacts ==
    ASSUME CoreTypes, NEW a \in Callers, AutoPatchRead(a)
    PROVE  \E s \in AutoStates :
              /\ auto' = [auto EXCEPT ![a] = s] /\ Holds(s)
              /\ s.dec = auto[a].dec /\ s.pc = "patching" /\ s.sizing = auto[a].sizing
              /\ s.at \in DOMAIN entries /\ s.row = entries[s.at] /\ s.row.dec = s.dec
              /\ auto[a].pc = "clamping" /\ UNCHANGED vars
  <1>1. PICK i \in DOMAIN entries :
           /\ auto[a].pc = "clamping" /\ entries[i].dec = auto[a].dec
           /\ auto' = [auto EXCEPT ![a] = [auto[a] EXCEPT !.pc = "patching", !.at = i,
                                                          !.row = entries[i]]]
           /\ UNCHANGED vars
    BY DEF AutoPatchRead, IsLatest
  <1>2. auto[a] \in AutoStates /\ Holds(auto[a])
    BY DEF AutoTyped, CoreTypes
  <1>3. entries[i] \in EntryRow /\ i \in Nat
    BY EntryType, LenProperties DEF CoreTypes, TypeOK
  <1> DEFINE s == [auto[a] EXCEPT !.pc = "patching", !.at = i, !.row = entries[i]]
  <1>4. /\ s \in AutoStates /\ Holds(s) /\ s.dec = auto[a].dec /\ s.pc = "patching"
        /\ s.sizing = auto[a].sizing /\ s.at = i /\ s.row = entries[i]
    BY <1>1, <1>2, <1>3 DEF AutoStates, AutoPcs, Holds, Past
  <1> HIDE DEF s
  <1>5. auto' = [auto EXCEPT ![a] = s]
    BY <1>1 DEF s
  <1>6. QED
    BY <1>1, <1>4, <1>5

\* The second half writes the row it read, whatever has become of it.
LEMMA PatchWriteFacts ==
    ASSUME CoreTypes, NEW a \in Callers, AutoPatchWrite(a)
    PROVE  /\ auto[a].pc = "patching" /\ auto[a].row \in EntryRow
           /\ auto[a].at \in DOMAIN entries
           /\ entries' \in Seq(EntryRow)
           /\ DOMAIN entries' = DOMAIN entries
           /\ \A j \in DOMAIN entries : j # auto[a].at => entries'[j] = entries[j]
           /\ entries'[auto[a].at].dec = auto[a].row.dec
           /\ entries'[auto[a].at].sizing = Clamped(auto[a].sizing)
           /\ auto[a].row.sizing = Clamped(auto[a].sizing) =>
                 entries'[auto[a].at] = auto[a].row
           /\ \E s \in AutoStates : /\ auto' = [auto EXCEPT ![a] = s] /\ Holds(s)
                                    /\ s.dec = auto[a].dec /\ s.pc = "ready"
                                    /\ s.sizing = auto[a].sizing
  <1>1. auto[a] \in AutoStates /\ Holds(auto[a])
    BY DEF AutoTyped, CoreTypes
  <1>2. /\ auto[a].pc = "patching"
        /\ SetRow(auto[a].at, [auto[a].row EXCEPT !.sizing = Clamped(auto[a].sizing)])
        /\ auto' = [auto EXCEPT ![a] = [auto[a] EXCEPT !.pc = "ready", !.at = 0,
                                                       !.row = <<>>]]
    BY DEF AutoPatchWrite
  <1>3. auto[a].row \in EntryRow /\ auto[a].at \in DOMAIN entries
        /\ auto[a].sizing \in Sizings \cup {"fits"}
    BY <1>1, <1>2 DEF CoreTypes, PatchInPlace, Holds, Past
  <1> DEFINE row == [auto[a].row EXCEPT !.sizing = Clamped(auto[a].sizing)]
             s == [auto[a] EXCEPT !.pc = "ready", !.at = 0, !.row = <<>>]
  <1>4. Clamped(auto[a].sizing) \in Sizings \cup {"fits"}
    BY <1>3 DEF Clamped
  <1>5. /\ row \in EntryRow /\ row.dec = auto[a].row.dec
        /\ row.sizing = Clamped(auto[a].sizing)
        /\ auto[a].row.sizing = Clamped(auto[a].sizing) => row = auto[a].row
    BY <1>3, <1>4 DEF EntryRow
  <1>6. /\ s \in AutoStates /\ Holds(s) /\ s.dec = auto[a].dec /\ s.pc = "ready"
        /\ s.sizing = auto[a].sizing
    BY <1>1, <1>2 DEF AutoStates, AutoPcs, Holds, Past
  <1> HIDE DEF row, s
  <1>7. SetRow(auto[a].at, row) /\ auto' = [auto EXCEPT ![a] = s]
    BY <1>2 DEF row, s
  <1>8. /\ entries' \in Seq(EntryRow) /\ DOMAIN entries' = DOMAIN entries
        /\ entries'[auto[a].at] = row
        /\ \A j \in DOMAIN entries : j # auto[a].at => entries'[j] = entries[j]
    BY <1>3, <1>5, <1>7, SetRowFacts DEF CoreTypes
  <1>9. QED
    BY <1>2, <1>3, <1>5, <1>6, <1>7, <1>8

\* A confirm that fills, one that is rolled back, and the steps after it.
LEMMA AutoConfirmFacts ==
    ASSUME AutoTyped, NEW a \in Callers, AutoConfirm(a)
    PROVE  /\ auto[a].pc = "ready" /\ auto[a].dec \in Decisions
           /\ UNCHANGED <<emitted, attempts, now, req>>
           /\ \E s \in AutoStates :
                 /\ auto' = [auto EXCEPT ![a] = s] /\ Holds(s)
                 /\ \/ /\ ConfirmFills(auto[a].dec, TRUE) /\ s.pc = "confirmed"
                       /\ s.dec = auto[a].dec /\ s.sizing = auto[a].sizing
                       /\ s.outcome \in Passes
                    \/ ConfirmRolledBack(auto[a].dec) /\ s.pc = "idle"
  <1>1. auto[a] \in AutoStates /\ Holds(auto[a])
    BY DEF AutoTyped
  <1>2. auto[a].pc = "ready" /\ auto[a].dec \in Decisions
        /\ UNCHANGED <<emitted, attempts, now, req>>
    BY <1>1 DEF AutoConfirm, Holds
  <1> DEFINE s == [auto[a] EXCEPT !.pc = "confirmed"]
  <1>3. /\ s \in AutoStates /\ Holds(s) /\ s.pc = "confirmed" /\ s.dec = auto[a].dec
        /\ s.sizing = auto[a].sizing /\ s.outcome \in Passes
    BY <1>1, <1>2 DEF AutoStates, AutoPcs, Holds, Past
  <1>4. CASE ConfirmFills(auto[a].dec, TRUE) /\ Goto(a, "confirmed")
    <2>1. auto' = [auto EXCEPT ![a] = s]
      BY <1>4 DEF Goto
    <2> HIDE DEF s
    <2>2. QED
      BY <1>2, <1>3, <1>4, <2>1
  <1>5. CASE ConfirmRolledBack(auto[a].dec) /\ auto' = [auto EXCEPT ![a] = Quiet]
    BY <1>2, <1>5, QuietHolds
  <1>6. QED
    BY <1>4, <1>5 DEF AutoConfirm

\* Publishing an event keeps the log a set of events.
LEMMA PublishType ==
    ASSUME emitted \subseteq Event, NEW e \in Event, Publish(e)
    PROVE  emitted' \subseteq Event
  BY DEF Publish

\* The events auto-execute and the exit engine announce.
LEMMA MoreEvents ==
    ASSUME NEW d \in Decisions
    PROVE  /\ Msg("order_sent", d) \in Event
           /\ Msg("audit_journaled", d) \in Event
           /\ Msg("risk_off_triggered", d) \in Event
           /\ <<Msg("exit_journaled", d)>> \in Seq(Event)
           /\ <<Msg("exit_journaled", d)>> # <<>>
  <1>1. /\ Msg("order_sent", d) \in Event
        /\ Msg("audit_journaled", d) \in Event
        /\ Msg("risk_off_triggered", d) \in Event
        /\ Msg("exit_journaled", d) \in Event
    BY DEF Msg, Event, EventTypes
  <1>2. QED
    BY <1>1

\* The steps after the confirm, or after a breaker: the journal stays, but for
\* the audit row, and the call is past buying anything.
LEMMA AfterFacts ==
    ASSUME CoreTypes, NEW a \in Callers,
           AutoSent(a) \/ AutoAudit(a) \/ AutoAnnounce(a) \/ AutoWarn(a) \/ AutoRaise(a)
    PROVE  /\ UNCHANGED <<entries, llmRejects, rejects, expires, costs, exits,
                          brokerVars, attempts, now, req>>
           /\ emitted' \subseteq Event
           /\ \E s \in AutoStates :
                 /\ auto' = [auto EXCEPT ![a] = s] /\ Holds(s) /\ s.pc \notin Past
                 /\ s.pc = "auditing" =>
                       /\ auto[a].pc = "confirmed"
                       /\ s.dec = auto[a].dec /\ s.outcome = auto[a].outcome
                 /\ \/ audits' = audits
                    \/ /\ auto[a].pc = "auditing" /\ s.pc = "announcing"
                       /\ audits' = Append(audits, [dec |-> auto[a].dec,
                                                    outcome |-> auto[a].outcome])
  <1> DEFINE Goal ==
         /\ UNCHANGED <<entries, llmRejects, rejects, expires, costs, exits,
                        brokerVars, attempts, now, req>>
         /\ emitted' \subseteq Event
         /\ \E s \in AutoStates :
               /\ auto' = [auto EXCEPT ![a] = s] /\ Holds(s) /\ s.pc \notin Past
               /\ s.pc = "auditing" =>
                     /\ auto[a].pc = "confirmed"
                     /\ s.dec = auto[a].dec /\ s.outcome = auto[a].outcome
               /\ \/ audits' = audits
                  \/ /\ auto[a].pc = "auditing" /\ s.pc = "announcing"
                     /\ audits' = Append(audits, [dec |-> auto[a].dec,
                                                  outcome |-> auto[a].outcome])
  <1>1. auto[a] \in AutoStates /\ Holds(auto[a])
    BY DEF AutoTyped, CoreTypes
  <1>2. emitted \subseteq Event
    BY DEF CoreTypes, TypeOK
  <1> DEFINE To(pc) == [auto[a] EXCEPT !.pc = pc]
  <1>3. \A pc \in AutoPcs : /\ To(pc) \in AutoStates /\ To(pc).pc = pc
                            /\ To(pc).dec = auto[a].dec
                            /\ To(pc).outcome = auto[a].outcome
    BY <1>1 DEF AutoStates
  <1>4. ASSUME AutoSent(a) PROVE Goal
    <2>1. /\ auto[a].pc = "confirmed" /\ Publish(Msg("order_sent", auto[a].dec))
          /\ auto' = [auto EXCEPT ![a] = To("auditing")]
          /\ UNCHANGED <<entries, llmRejects, rejects, expires, costs, exits, audits,
                         brokerVars, attempts, now, req>>
      BY <1>4 DEF AutoSent, Goto, journal, exitRows
    <2>2. emitted' \subseteq Event
      BY <1>1, <1>2, <2>1, MoreEvents, PublishType DEF Holds
    <2>3. "auditing" \in AutoPcs /\ "auditing" \notin Past
      BY DEF AutoPcs, Past
    <2>4. Holds(To("auditing"))
      BY <1>1, <1>3, <2>1, <2>3 DEF Holds
    <2> HIDE DEF To
    <2>5. QED
      BY <1>3, <2>1, <2>2, <2>3, <2>4
  <1>5. ASSUME AutoAudit(a) PROVE Goal
    <2>1. /\ auto[a].pc = "auditing"
          /\ auto' = [auto EXCEPT ![a] = To("announcing")]
          /\ audits' = Append(audits, [dec |-> auto[a].dec, outcome |-> auto[a].outcome])
          /\ UNCHANGED <<entries, llmRejects, rejects, expires, costs, exits,
                         brokerVars, emitted, attempts, now, req>>
      BY <1>5 DEF AutoAudit, Goto
    <2>2. "announcing" \in AutoPcs /\ "announcing" \notin Past
      BY DEF AutoPcs, Past
    <2>3. Holds(To("announcing"))
      BY <1>1, <1>3, <2>1, <2>2 DEF Holds
    <2> HIDE DEF To
    <2>4. QED
      BY <1>2, <1>3, <2>1, <2>2, <2>3
  <1>6. ASSUME AutoAnnounce(a) PROVE Goal
    <2>1. /\ auto[a].pc = "announcing" /\ Publish(Msg("audit_journaled", auto[a].dec))
          /\ \/ auto' = [auto EXCEPT ![a] = To("warning")]
             \/ auto' = [auto EXCEPT ![a] = Quiet]
          /\ UNCHANGED <<entries, llmRejects, rejects, expires, costs, exits, audits,
                         brokerVars, attempts, now, req>>
      BY <1>6 DEF AutoAnnounce, Goto, journal, exitRows
    <2>2. emitted' \subseteq Event
      BY <1>1, <1>2, <2>1, MoreEvents, PublishType DEF Holds
    <2>3. "warning" \in AutoPcs /\ {"warning", "idle"} \cap Past = {}
      BY DEF AutoPcs, Past
    <2>4. Holds(To("warning"))
      BY <1>1, <1>3, <2>1, <2>3 DEF Holds
    <2> HIDE DEF To
    <2>5. QED
      BY <1>3, <2>1, <2>2, <2>3, <2>4, QuietHolds
  <1>7. ASSUME AutoWarn(a) PROVE Goal
    <2>1. /\ auto[a].pc = "warning" /\ Publish(Msg("risk_off_triggered", auto[a].dec))
          /\ auto' = [auto EXCEPT ![a] = Quiet]
          /\ UNCHANGED <<entries, llmRejects, rejects, expires, costs, exits, audits,
                         brokerVars, attempts, now, req>>
      BY <1>7 DEF AutoWarn, journal, exitRows
    <2>2. emitted' \subseteq Event
      BY <1>1, <1>2, <2>1, MoreEvents, PublishType DEF Holds
    <2>3. "idle" \notin Past
      BY DEF Past
    <2>4. QED
      BY <2>1, <2>2, <2>3, QuietHolds
  <1>8. ASSUME AutoRaise(a) PROVE Goal
    <2>1. /\ auto' = [auto EXCEPT ![a] = Quiet]
          /\ UNCHANGED <<entries, llmRejects, rejects, expires, costs, exits, audits,
                         brokerVars, emitted, attempts, now, req>>
      BY <1>8 DEF AutoRaise, vars, journal, exitRows
    <2>2. "idle" \notin Past
      BY DEF Past
    <2>3. QED
      BY <1>2, <2>1, <2>2, QuietHolds
  <1>9. QED
    BY <1>4, <1>5, <1>6, <1>7, <1>8

\* An evaluation: only a sale touches the journal.
EvalRests(e) ==
    /\ UNCHANGED <<journal, brokerVars, attempts, now, req>>
    /\ emitted' \subseteq Event
    /\ \E s \in Evaluations :
          /\ eval' = [eval EXCEPT ![e] = s]
          /\ s.pc = "emitting" => s.out # <<>>
          /\ s.todo \subseteq eval[e].todo
                             \cup {i \in DOMAIN entries : entries[i].status = "confirmed"}

EvalSells(e) ==
    /\ UNCHANGED <<llmRejects, rejects, expires, costs, audits, brokerVars, emitted,
                   attempts, now, req>>
    /\ \E i \in eval[e].todo, k \in DOMAIN entries, x \in ExitRow, s \in Evaluations :
          /\ entries[k].dec = entries[i].dec /\ x.dec = entries[k].dec
          /\ entries' = [entries EXCEPT ![k] = WithStatus(entries[k], "closed")]
          /\ exits' = Append(exits, x)
          /\ eval' = [eval EXCEPT ![e] = s]
          /\ s.pc = "emitting" => s.out # <<>>
          /\ s.todo = eval[e].todo \ {i}

\* A step of an evaluation is a sale or leaves the journal alone.
LEMMA EvaluateFacts ==
    ASSUME CoreTypes, NEW e \in Evaluators, Evaluate(e)
    PROVE  EvalRests(e) \/ EvalSells(e)
  <1>1. eval[e] \in Evaluations /\ (eval[e].pc = "emitting" => eval[e].out # <<>>)
    BY DEF CoreTypes, EvalTyped
  <1>2. /\ emitted \subseteq Event /\ now \in Time
        /\ DOMAIN entries \subseteq Nat
    BY LenProperties DEF CoreTypes, TypeOK
  <1>3. ASSUME NEW scope, EvalStart(e, scope) PROVE EvalRests(e)
    <2> DEFINE s == [Resting EXCEPT !.pc = "evaluating", !.todo = ConfirmedIn(scope),
                                    !.at = now]
    <2>1. /\ ConfirmedIn(scope) \subseteq {i \in DOMAIN entries : entries[i].status = "confirmed"}
          /\ ConfirmedIn(scope) \in SUBSET Nat
          /\ <<>> \in Seq(Event)
      BY <1>2 DEF ConfirmedIn
    <2>2. s \in Evaluations /\ s.pc = "evaluating" /\ s.todo = ConfirmedIn(scope)
      BY <1>2, <2>1 DEF Resting, Evaluations
    <2>3. eval' = [eval EXCEPT ![e] = s] /\ UNCHANGED vars
      BY <1>3 DEF EvalStart
    <2> HIDE DEF s
    <2>4. QED
      BY <1>2, <2>1, <2>2, <2>3 DEF EvalRests, vars
  <1>4. ASSUME EvalPass(e) PROVE EvalRests(e)
    <2>1. PICK i \in eval[e].todo :
             /\ eval[e].pc = "evaluating"
             /\ eval' = [eval EXCEPT ![e] = [eval[e] EXCEPT !.todo = eval[e].todo \ {i}]]
             /\ UNCHANGED vars
      BY <1>4 DEF EvalPass, NextRow
    <2> DEFINE s == [eval[e] EXCEPT !.todo = eval[e].todo \ {i}]
    <2>2. eval[e].todo \ {i} \in SUBSET Nat
      BY <1>1 DEF Evaluations
    <2>3. s \in Evaluations /\ s.pc = "evaluating" /\ s.todo = eval[e].todo \ {i}
      BY <1>1, <2>1, <2>2 DEF Evaluations
    <2> HIDE DEF s
    <2>4. eval' = [eval EXCEPT ![e] = s]
      BY <2>1 DEF s
    <2>5. QED
      BY <1>2, <2>1, <2>3, <2>4 DEF EvalRests, vars
  <1>5. ASSUME NEW b \in BOOLEAN, EvalClose(e, b) PROVE EvalSells(e)
    <2>1. PICK i \in eval[e].todo :
             /\ ClosePosition(entries[i].dec, b, eval[e].at)
             /\ eval' = [eval EXCEPT ![e] = [eval[e] EXCEPT !.pc = "emitting",
                            !.todo = eval[e].todo \ {i},
                            !.out = <<Msg("exit_journaled", entries[i].dec)>>]]
             /\ UNCHANGED <<llmRejects, rejects, expires, costs, audits, brokerVars,
                            emitted, attempts, now, req>>
      BY <1>5 DEF EvalClose
    <2> DEFINE x == [dec |-> entries[i].dec, loss |-> b, at |-> eval[e].at,
                     source |-> "null"]
               s == [eval[e] EXCEPT !.pc = "emitting", !.todo = eval[e].todo \ {i},
                            !.out = <<Msg("exit_journaled", entries[i].dec)>>]
    <2>2. PICK k \in DOMAIN entries :
             /\ entries[k].dec = entries[i].dec
             /\ entries' = [entries EXCEPT ![k] = WithStatus(entries[k], "closed")]
             /\ exits' = Append(exits, x)
      BY <2>1 DEF ClosePosition, IsLatest, SetRow
    <2>3. entries[i].dec \in Decisions
      BY <2>2, EntryType DEF CoreTypes
    <2>4. x \in ExitRow /\ x.dec = entries[k].dec
      BY <1>1, <2>2, <2>3 DEF ExitRow, Evaluations
    <2>5. /\ <<Msg("exit_journaled", entries[i].dec)>> \in Seq(Event)
          /\ <<Msg("exit_journaled", entries[i].dec)>> # <<>>
          /\ eval[e].todo \ {i} \in SUBSET Nat
      BY <1>1, <2>3, MoreEvents DEF Evaluations
    <2>6. s \in Evaluations /\ s.todo = eval[e].todo \ {i} /\ s.out # <<>>
      BY <1>1, <2>5 DEF Evaluations
    <2> HIDE DEF s, x
    <2>7. eval' = [eval EXCEPT ![e] = s]
      BY <2>1 DEF s
    <2>8. QED
      BY <2>1, <2>2, <2>4, <2>6, <2>7 DEF EvalSells
  <1>6. ASSUME EvalEmit(e) PROVE EvalRests(e)
    <2>1. /\ eval[e].pc = "emitting" /\ Publish(Head(eval[e].out))
          /\ eval' = [eval EXCEPT ![e] = [eval[e] EXCEPT !.pc = "evaluating",
                                                         !.out = <<>>]]
          /\ UNCHANGED <<journal, brokerVars, attempts, now, req>>
      BY <1>6 DEF EvalEmit
    <2> DEFINE s == [eval[e] EXCEPT !.pc = "evaluating", !.out = <<>>]
    <2>2. Head(eval[e].out) \in Event
      BY <1>1, <2>1, HeadTailProperties DEF Evaluations
    <2>3. emitted' \subseteq Event
      BY <1>2, <2>1, <2>2, PublishType
    <2>4. <<>> \in Seq(Event)
      OBVIOUS
    <2>5. s \in Evaluations /\ s.pc = "evaluating" /\ s.todo = eval[e].todo
      BY <1>1, <2>4 DEF Evaluations
    <2> HIDE DEF s
    <2>6. eval' = [eval EXCEPT ![e] = s]
      BY <2>1 DEF s
    <2>7. QED
      BY <2>1, <2>3, <2>5, <2>6 DEF EvalRests
  <1>7. ASSUME EvalEnd(e) PROVE EvalRests(e)
    <2>1. eval' = [eval EXCEPT ![e] = Resting] /\ UNCHANGED vars
      BY <1>7 DEF EvalEnd
    <2>2. <<>> \in Seq(Event) /\ {} \in SUBSET Nat /\ 0 \in Time
      BY BoundsAssumption DEF Time
    <2>3. Resting \in Evaluations /\ Resting.pc = "idle" /\ Resting.todo = {}
      BY <2>2 DEF Resting, Evaluations
    <2>4. QED
      BY <1>2, <2>1, <2>3 DEF EvalRests, vars
  <1>8. QED
    BY <1>3, <1>4, <1>5, <1>6, <1>7 DEF Evaluate

-----------------------------------------------------------------------------
\* What the steps do to the rows

\* The sizings and the buyers of rows: what is not pending stays as it was
\* bought, only a confirm by auto-execute makes a row its own, and no row is
\* entered above the cap; nothing becomes pending again.
RowsKept ==
    /\ DOMAIN entries \subseteq DOMAIN entries'
    /\ \A i \in DOMAIN entries :
          /\ entries'[i].dec = entries[i].dec
          /\ entries'[i].sizing = entries[i].sizing
          /\ entries'[i].auto => entries[i].auto
          /\ entries[i].status # "pending_confirm" =>
                /\ entries'[i].fill = entries[i].fill /\ entries'[i].auto = entries[i].auto
                /\ entries'[i].confirmedAt = entries[i].confirmedAt
          /\ entries'[i].status = "pending_confirm" => entries'[i] = entries[i]
    /\ \A i \in DOMAIN entries' \ DOMAIN entries :
          /\ entries'[i].sizing # "above"
          /\ "below" \notin Sizings => entries'[i].sizing # "below"
          /\ ~entries'[i].auto

\* What a status change and a fill leave of a row.
LEMMA RowFieldsKept ==
    ASSUME NEW row \in EntryRow, NEW status, NEW order, NEW b
    PROVE  /\ WithStatus(row, status).sizing = row.sizing
           /\ WithStatus(row, status).auto = row.auto
           /\ WithStatus(row, status).fill = row.fill
           /\ WithStatus(row, status).dec = row.dec
           /\ WithStatus(row, status).status = status
           /\ WithStatus(row, status).confirmedAt = row.confirmedAt
           /\ Filled(row, order, b).sizing = row.sizing
           /\ b \in BOOLEAN => (Filled(row, order, b).auto <=> b)
           /\ Filled(row, order, b).dec = row.dec
  BY DEF WithStatus, Filled, EntryRow

\* A row after a change of status, field by field.
LEMMA StatusKeepsRow ==
    ASSUME NEW row \in EntryRow, NEW status, NEW after, after = WithStatus(row, status)
    PROVE  /\ after.dec = row.dec /\ after.sizing = row.sizing /\ after.fill = row.fill
           /\ after.auto = row.auto /\ (after.auto => row.auto)
           /\ after.status = status /\ after.confirmedAt = row.confirmedAt
  BY RowFieldsKept

\* A confirm that fills, for a human or for auto-execute, row by row.
FillsRow(i, d, b) ==
    /\ entries[i].dec = d /\ entries[i].status = "pending_confirm"
    /\ DOMAIN entries' = DOMAIN entries
    /\ entries'[i] \in EntryRow
    /\ entries'[i].dec = d /\ entries'[i].status = "confirmed"
    /\ entries'[i].created = entries[i].created
    /\ entries'[i].sizing = entries[i].sizing /\ (entries'[i].auto <=> b)
    /\ entries'[i].fill # 0
    /\ \A j \in DOMAIN entries : j # i => entries'[j] = entries[j]

\* A confirm fills the pending row of its decision.
LEMMA FillFacts ==
    ASSUME TypeOK, NEW d \in Decisions, NEW b \in BOOLEAN, ConfirmFills(d, b)
    PROVE  \E i \in DOMAIN entries : FillsRow(i, d, b)
  <1>1. PICK i \in DOMAIN entries :
           /\ IsPending(d, i)
           /\ SetRow(i, Filled(entries[i], Len(orders) + 1, b))
    BY DEF ConfirmFills
  <1>2. Len(orders) + 1 \in Nat /\ Len(orders) + 1 # 0
    BY LenProperties DEF TypeOK
  <1>3. Filled(entries[i], Len(orders) + 1, b) \in EntryRow /\ entries[i] \in EntryRow
    BY <1>2, EntryType, RowTypes DEF TypeOK
  <1>4. /\ DOMAIN entries' = DOMAIN entries
        /\ entries'[i] = Filled(entries[i], Len(orders) + 1, b)
        /\ \A j \in DOMAIN entries : j # i => entries'[j] = entries[j]
    BY <1>1, <1>3, SetRowFacts
  <1>5. QED
    BY <1>1, <1>2, <1>3, <1>4, RowFieldsKept, FilledFields DEF IsPending, IsLatest, FillsRow

\* A confirm by auto-execute keeps the types, whether it fills or not.
LEMMA ConfirmType ==
    ASSUME TypeOK, NEW d \in Decisions, NEW b \in BOOLEAN,
           ConfirmFills(d, b) \/ ConfirmRolledBack(d),
           UNCHANGED <<emitted, attempts, now, req>>
    PROVE  TypeOK'
  <1>1. /\ Append(orders, d) \in Seq(Decisions)
        /\ lost \cup {Len(orders) + 1} \subseteq DOMAIN Append(orders, d)
        /\ lost \subseteq DOMAIN Append(orders, d)
        /\ Len(orders) + 1 \in Nat
    BY AppendRow DEF TypeOK
  <1>2. CASE ConfirmFills(d, b)
    <2>1. PICK i \in DOMAIN entries : SetRow(i, Filled(entries[i], Len(orders) + 1, b))
      BY <1>2 DEF ConfirmFills
    <2>2. Filled(entries[i], Len(orders) + 1, b) \in EntryRow
      BY <1>1, EntryType, RowTypes DEF TypeOK
    <2>3. entries' \in Seq(EntryRow)
      BY <2>1, <2>2, SetRowFacts
    <2>4. QED
      BY <1>1, <1>2, <2>3 DEF ConfirmFills, TypeOK, exitRows
  <1>3. CASE ConfirmRolledBack(d)
    BY <1>1, <1>3 DEF ConfirmRolledBack, TypeOK, journal, exitRows
  <1>4. QED
    BY <1>2, <1>3

\* The decider, the gate, the bus and the clock keep the rows in that sense.
LEMMA NextKeepsRows ==
    ASSUME TypeOK, [Next]_vars
    PROVE  RowsKept
  <1> USE DEF RowsKept
  <1>1. CASE UNCHANGED entries
    BY <1>1
  <1>2. ASSUME NEW w \in Workers, NEW s \in Sizings, DecideEnter(w, s)
        PROVE  RowsKept
    <2> DEFINE row == NewEntry(req[w].dec, req[w].at, Capped(s))
    <2>1. /\ row \in EntryRow /\ ~row.auto /\ row.sizing # "above"
          /\ "below" \notin Sizings => row.sizing # "below"
      <3>1. req[w].dec \in Decisions /\ req[w].at \in Time
        BY <1>2 DEF DecideEnter, TypeOK, Requests
      <3>2. /\ Capped(s) \in Sizings \cup {"fits"} /\ Capped(s) # "above"
            /\ "below" \notin Sizings => Capped(s) # "below"
        BY DEF Capped
      <3>3. QED
        BY <3>1, <3>2, RowTypes DEF NewEntry
    <2>2. entries \in Seq(EntryRow) /\ entries' = Append(entries, row)
      BY <1>2 DEF DecideEnter, TypeOK
    <2> HIDE DEF row
    <2>3. QED
      BY <2>1, <2>2, AppendRow
  <1>3. ASSUME NEW w \in Workers, NEW d \in Decisions, Confirm(w, d)
        PROVE  RowsKept
    <2>1. CASE ConfirmFills(d, FALSE)
      <3>1. PICK i \in DOMAIN entries : FillsRow(i, d, FALSE)
        BY <2>1, FillFacts
      <3> USE DEF FillsRow
      <3>2. ASSUME NEW j \in DOMAIN entries
            PROVE  /\ entries'[j].dec = entries[j].dec
                   /\ entries'[j].sizing = entries[j].sizing
                   /\ entries'[j].auto => entries[j].auto
                   /\ entries[j].status # "pending_confirm" =>
                         /\ entries'[j].fill = entries[j].fill
                         /\ entries'[j].auto = entries[j].auto
                         /\ entries'[j].confirmedAt = entries[j].confirmedAt
                   /\ entries'[j].status = "pending_confirm" => entries'[j] = entries[j]
        <4>1. CASE j = i
          BY <3>1, <4>1
        <4>2. CASE j # i
          BY <3>1, <4>2
        <4>3. QED
          BY <4>1, <4>2
      <3>3. QED
        BY <3>1, <3>2
    <2>2. CASE ConfirmRolledBack(d)
      BY <2>2 DEF ConfirmRolledBack, journal
    <2>3. QED
      BY <1>3, <2>1, <2>2 DEF Confirm
  <1>4. ASSUME NEW w \in Workers, NEW d \in Decisions, Reject(w, d)
        PROVE  RowsKept
    <2>1. PICK i \in DOMAIN entries : SetRow(i, WithStatus(entries[i], "rejected"))
      BY <1>4 DEF Reject
    <2>2. /\ DOMAIN entries' = DOMAIN entries
          /\ entries'[i] = WithStatus(entries[i], "rejected")
          /\ \A j \in DOMAIN entries : j # i => entries'[j] = entries[j]
      BY <2>1, EntryType, SetRowFacts DEF Statuses
    <2>3. entries[i] \in EntryRow
      BY EntryType
    <2>4. QED
      BY <2>2, <2>3, StatusKeepsRow
  <1>5. ASSUME NEW w \in Workers, Sweep(w)
        PROVE  RowsKept
    <2>1. /\ DOMAIN entries' = DOMAIN entries
          /\ \A j \in DOMAIN entries :
                \/ entries'[j] = entries[j]
                \/ entries'[j] = WithStatus(entries[j], "expired")
      BY <1>5, SweepFacts
    <2>2. QED
      BY <2>1, EntryType, StatusKeepsRow
  <1>6. ASSUME NEW w \in Workers, Request(w)
        PROVE  UNCHANGED entries
    BY <1>6, RequestFacts DEF journal
  <1> USE DEF journal
  <1>7. QED
    BY <1>1, <1>2, <1>3, <1>4, <1>5, <1>6
       DEF Next, Decider, DecideStart, DecideReject, Gate, Refuse, SweepStart,
           Tick, vars

\* A sale of row k, seen when row i was looked at, row by row.
Sold(e, i, k, x, s) ==
    /\ entries[k].dec = entries[i].dec /\ x.dec = entries[k].dec
    /\ entries' \in Seq(EntryRow) /\ DOMAIN entries' = DOMAIN entries
    /\ entries'[k] = WithStatus(entries[k], "closed")
    /\ entries[k] \in EntryRow
    /\ \A j \in DOMAIN entries : j # k => entries'[j] = entries[j]
    /\ exits' = Append(exits, x) /\ exits' \in Seq(ExitRow)
    /\ eval' = [eval EXCEPT ![e] = s] /\ s.todo = eval[e].todo \ {i}
    /\ s.pc = "emitting" => s.out # <<>>

\* A sale closes one row, of the decision of the row it looked at.
LEMMA SaleFacts ==
    ASSUME CoreTypes, NEW e \in Evaluators, EvalSells(e)
    PROVE  \E i \in eval[e].todo, k \in DOMAIN entries, x \in ExitRow, s \in Evaluations :
              Sold(e, i, k, x, s)
  <1>1. PICK i \in eval[e].todo, k \in DOMAIN entries, x \in ExitRow, s \in Evaluations :
           /\ entries[k].dec = entries[i].dec /\ x.dec = entries[k].dec
           /\ entries' = [entries EXCEPT ![k] = WithStatus(entries[k], "closed")]
           /\ exits' = Append(exits, x)
           /\ eval' = [eval EXCEPT ![e] = s]
           /\ s.pc = "emitting" => s.out # <<>>
           /\ s.todo = eval[e].todo \ {i}
    BY DEF EvalSells
  <1>2. entries[k] \in EntryRow /\ WithStatus(entries[k], "closed") \in EntryRow
    BY EntryType DEF CoreTypes, Statuses
  <1>3. /\ entries' \in Seq(EntryRow) /\ DOMAIN entries' = DOMAIN entries
        /\ entries'[k] = WithStatus(entries[k], "closed")
        /\ \A j \in DOMAIN entries : j # k => entries'[j] = entries[j]
    BY <1>1, <1>2, SetRowFacts DEF CoreTypes, SetRow
  <1>4. exits' \in Seq(ExitRow)
    BY <1>1, AppendRow DEF CoreTypes, TypeOK
  <1>5. Sold(e, i, k, x, s)
    BY <1>1, <1>2, <1>3, <1>4 DEF Sold
  <1>6. QED
    BY <1>5

\* A sale keeps what its row was bought with.
LEMMA SalesKeepRows ==
    ASSUME CoreTypes, NEW e \in Evaluators, EvalSells(e)
    PROVE  RowsKept
  <1>1. PICK k \in DOMAIN entries :
           /\ DOMAIN entries' = DOMAIN entries
           /\ entries[k] \in EntryRow
           /\ entries'[k] = WithStatus(entries[k], "closed")
           /\ \A j \in DOMAIN entries : j # k => entries'[j] = entries[j]
    BY SaleFacts DEF Sold
  <1>2. /\ entries'[k].dec = entries[k].dec /\ entries'[k].sizing = entries[k].sizing
        /\ entries'[k].fill = entries[k].fill
        /\ entries'[k].auto = entries[k].auto /\ (entries'[k].auto => entries[k].auto)
        /\ entries'[k].confirmedAt = entries[k].confirmedAt /\ entries'[k].status = "closed"
    BY <1>1, StatusKeepsRow
  <1>3. QED
    BY <1>1, <1>2 DEF RowsKept

-----------------------------------------------------------------------------
\* Type correctness

\* One evaluation moves on, the others stay.
LEMMA EvalTypedStep ==
    ASSUME EvalTyped, NEW e \in Evaluators, NEW s \in Evaluations,
           s.pc = "emitting" => s.out # <<>>, eval' = [eval EXCEPT ![e] = s]
    PROVE  EvalTyped'
  BY DEF EvalTyped

\* An audit row is appended.
LEMMA AuditType ==
    ASSUME TypeOK, NEW d \in Decisions, NEW outcome \in Breakers \cup Passes,
           audits' = Append(audits, [dec |-> d, outcome |-> outcome])
    PROVE  /\ audits' \in Seq(AuditRow)
           /\ DOMAIN audits = 1..Len(audits) /\ Len(audits) \in Nat
           /\ DOMAIN audits' = 1..(Len(audits) + 1)
           /\ \A k \in DOMAIN audits : audits'[k] = audits[k]
           /\ audits'[Len(audits) + 1] = [dec |-> d, outcome |-> outcome]
  <1>1. [dec |-> d, outcome |-> outcome] \in AuditRow
    BY DEF AuditRow
  <1>2. QED
    BY <1>1, AppendRow DEF TypeOK

\* The types hold at the start.
LEMMA CoreTypesInit == CoreInit => CoreTypes
  <1> SUFFICES ASSUME CoreInit PROVE CoreTypes
    OBVIOUS
  <1>1. TypeOK
    BY InitType DEF CoreInit
  <1>2. auto = [a \in Callers |-> Quiet] /\ eval = [e \in Evaluators |-> Resting]
    BY DEF CoreInit, AutoInit, ExitInit
  <1>3. AutoTyped /\ PatchInPlace
    BY <1>2, QuietHolds DEF AutoTyped, PatchInPlace
  <1>4. <<>> \in Seq(Event) /\ {} \in SUBSET Nat /\ 0 \in Time
    BY BoundsAssumption DEF Time
  <1>5. Resting \in Evaluations /\ Resting.pc = "idle"
    BY <1>4 DEF Resting, Evaluations
  <1>6. QED
    BY <1>1, <1>2, <1>3, <1>5 DEF CoreTypes, EvalTyped

\* A step of one call keeps its patch in place if the rows stay.
LEMMA PatchStep ==
    ASSUME CoreTypes, NEW a \in Callers, NEW s \in AutoStates, Holds(s),
           auto' = [auto EXCEPT ![a] = s], DOMAIN entries \subseteq DOMAIN entries',
           s.pc = "patching" => s.at \in DOMAIN entries
    PROVE  AutoTyped' /\ PatchInPlace'
  BY SetAuto DEF CoreTypes, PatchInPlace

\* A step of auto-execute keeps the types.
LEMMA AutoTypes ==
    ASSUME CoreTypes, NEW a \in Callers, AutoStep(a), UNCHANGED eval
    PROVE  CoreTypes'
  <1>1. EvalTyped'
    BY DEF CoreTypes, EvalTyped
  <1>2. ASSUME UNCHANGED vars PROVE TypeOK' /\ DOMAIN entries' = DOMAIN entries
    BY <1>2, NextType DEF CoreTypes, vars, journal
  <1>3. ASSUME NEW d \in Decisions, NEW mode \in Modes, AutoParse(a, d, mode)
        PROVE  CoreTypes'
    BY <1>1, <1>2, <1>3, ParseFacts, PatchStep DEF CoreTypes
  <1>4. CASE AutoCount(a)
    BY <1>1, <1>2, <1>4, CountFacts, PatchStep DEF CoreTypes
  <1>5. CASE AutoLockout(a)
    BY <1>1, <1>2, <1>5, LockoutFacts, PatchStep DEF CoreTypes
  <1>6. CASE AutoPatchRead(a)
    BY <1>1, <1>2, <1>6, PatchReadFacts, PatchStep DEF CoreTypes
  <1>7. CASE AutoPatchWrite(a)
    <2>1. AutoTyped' /\ PatchInPlace'
      BY <1>7, PatchWriteFacts, PatchStep
    <2>2. entries' \in Seq(EntryRow)
      BY <1>7, PatchWriteFacts
    <2>3. TypeOK'
      BY <1>7, <2>2 DEF AutoPatchWrite, CoreTypes, TypeOK, brokerVars, exitRows
    <2>4. QED
      BY <1>1, <2>1, <2>3 DEF CoreTypes
  <1>8. CASE AutoConfirm(a)
    <2>1. PICK s \in AutoStates :
             /\ auto' = [auto EXCEPT ![a] = s] /\ Holds(s)
             /\ s.pc \in {"confirmed", "idle"}
             /\ ConfirmFills(auto[a].dec, TRUE) \/ ConfirmRolledBack(auto[a].dec)
      BY <1>8, AutoConfirmFacts DEF CoreTypes
    <2>2. auto[a].dec \in Decisions /\ UNCHANGED <<emitted, attempts, now, req>>
      BY <1>8, AutoConfirmFacts DEF CoreTypes
    <2>3. DOMAIN entries' = DOMAIN entries
      <3>1. CASE ConfirmFills(auto[a].dec, TRUE)
        BY <2>2, <3>1, FillFacts DEF CoreTypes, FillsRow
      <3>2. CASE ConfirmRolledBack(auto[a].dec)
        BY <3>2 DEF ConfirmRolledBack, journal
      <3>3. QED
        BY <2>1, <3>1, <3>2
    <2>4. TypeOK'
      BY <2>1, <2>2, ConfirmType DEF CoreTypes
    <2>5. QED
      BY <1>1, <2>1, <2>3, <2>4, PatchStep DEF CoreTypes
  <1>9. CASE AutoSent(a) \/ AutoAudit(a) \/ AutoAnnounce(a) \/ AutoWarn(a) \/ AutoRaise(a)
    <2>1. /\ UNCHANGED <<entries, llmRejects, rejects, expires, costs, exits,
                         brokerVars, attempts, now, req>>
          /\ emitted' \subseteq Event
      BY <1>9, AfterFacts
    <2>2. PICK s \in AutoStates :
             /\ auto' = [auto EXCEPT ![a] = s] /\ Holds(s) /\ s.pc \notin Past
             /\ \/ audits' = audits
                \/ /\ auto[a].pc = "auditing"
                   /\ audits' = Append(audits, [dec |-> auto[a].dec,
                                                outcome |-> auto[a].outcome])
      BY <1>9, AfterFacts
    <2>3. audits' \in Seq(AuditRow)
      <3>1. CASE audits' = audits
        BY <3>1 DEF CoreTypes, TypeOK
      <3>2. CASE /\ auto[a].pc = "auditing"
                 /\ audits' = Append(audits, [dec |-> auto[a].dec,
                                              outcome |-> auto[a].outcome])
        <4>1. auto[a].dec \in Decisions /\ auto[a].outcome \in Breakers \cup Passes
          BY <3>2 DEF CoreTypes, AutoTyped, Holds
        <4>2. QED
          BY <3>2, <4>1, AuditType DEF CoreTypes
      <3>3. QED
        BY <2>2, <3>1, <3>2
    <2>4. TypeOK'
      BY <2>1, <2>3 DEF CoreTypes, TypeOK, brokerVars
    <2>5. s.pc # "patching"
      BY <2>2 DEF Past
    <2>6. QED
      BY <1>1, <2>1, <2>2, <2>4, <2>5, PatchStep DEF CoreTypes
  <1>10. QED
    BY <1>3, <1>4, <1>5, <1>6, <1>7, <1>8, <1>9 DEF AutoStep

\* A step of the exit engine keeps the types.
LEMMA EvaluateTypes ==
    ASSUME CoreTypes, NEW e \in Evaluators, Evaluate(e), UNCHANGED auto
    PROVE  CoreTypes'
  <1>1. AutoTyped'
    BY DEF CoreTypes, AutoTyped
  <1>2. CASE EvalRests(e)
    <2>1. TypeOK' /\ UNCHANGED entries
      BY <1>2 DEF EvalRests, CoreTypes, TypeOK, journal, exitRows, brokerVars
    <2>2. PICK s \in Evaluations : /\ eval' = [eval EXCEPT ![e] = s]
                                   /\ s.pc = "emitting" => s.out # <<>>
      BY <1>2 DEF EvalRests
    <2>3. EvalTyped'
      BY <2>2, EvalTypedStep DEF CoreTypes
    <2>4. QED
      BY <1>1, <2>1, <2>3 DEF CoreTypes, PatchInPlace
  <1>3. CASE EvalSells(e)
    <2>1. PICK s \in Evaluations :
             /\ entries' \in Seq(EntryRow) /\ DOMAIN entries' = DOMAIN entries
             /\ exits' \in Seq(ExitRow)
             /\ eval' = [eval EXCEPT ![e] = s]
             /\ s.pc = "emitting" => s.out # <<>>
      BY <1>3, SaleFacts DEF Sold
    <2>2. TypeOK'
      BY <1>3, <2>1 DEF EvalSells, CoreTypes, TypeOK, brokerVars
    <2>3. EvalTyped'
      BY <2>1, EvalTypedStep DEF CoreTypes
    <2>4. QED
      BY <1>1, <2>1, <2>2, <2>3 DEF CoreTypes, PatchInPlace
  <1>4. QED
    BY <1>2, <1>3, EvaluateFacts

\* Every step of the core keeps the types.
LEMMA CoreTypesStep == CoreTypes /\ [CoreNext]_coreVars => CoreTypes'
  <1> SUFFICES ASSUME CoreTypes, [CoreNext]_coreVars PROVE CoreTypes'
    OBVIOUS
  <1>1. ASSUME [Next]_vars, UNCHANGED <<auto, eval>> PROVE CoreTypes'
    <2>1. TypeOK' /\ DOMAIN entries \subseteq DOMAIN entries'
      BY <1>1, NextType, NextKeepsRows DEF CoreTypes, RowsKept
    <2>2. QED
      BY <1>1, <2>1 DEF CoreTypes, AutoTyped, PatchInPlace, EvalTyped
  <1>2. CASE UNCHANGED coreVars
    BY <1>1, <1>2 DEF coreVars
  <1>3. QED
    BY <1>1, <1>2, AutoTypes, EvaluateTypes DEF CoreNext

\* The history names decisions.
LEMMA UndoneTyped ==
    CoreTypes /\ undone \subseteq Decisions /\ [CoreNext]_coreVars =>
        (undone \subseteq Decisions)'
  <1> SUFFICES ASSUME CoreTypes, undone \subseteq Decisions, [CoreNext]_coreVars
               PROVE  undone' \subseteq Decisions
    OBVIOUS
  <1>1. ASSUME NEW a \in Callers, AutoStep(a) PROVE undone' \subseteq Decisions
    BY <1>1 DEF AutoStep, AutoPatchWrite, CoreTypes, AutoTyped, Holds
  <1>2. QED
    BY <1>1 DEF CoreNext, coreVars

\* Every variable of the core keeps its type, and a call past the breakers of
\* the payload has the simulator as its broker.
THEOREM CoreTypeCorrect == CoreSpec => [](CoreTypes /\ undone \subseteq Decisions)
  <1>1. CoreInit => undone \subseteq Decisions
    BY DEF CoreInit, AutoInit
  <1>2. QED
    BY <1>1, CoreTypesInit, CoreTypesStep, UndoneTyped, PTL DEF CoreSpec

-----------------------------------------------------------------------------
\* The breakers.  A row is bought by auto-execute with the sizing a call has
\* checked because a decision has one row and a row keeps its sizing, but for
\* a patch, which writes a sizing that passed.

Guarded ==
    /\ \A i \in DOMAIN entries :
          /\ entries[i].sizing # "above"
          /\ entries[i].auto => entries[i].sizing \notin Blocking
    /\ \A a \in Callers : auto[a].pc \in Past =>
          \E i \in DOMAIN entries : /\ entries[i].dec = auto[a].dec
                                    /\ entries[i].sizing \notin Blocking
    /\ \A a \in Callers : auto[a].pc = "patching" =>
          auto[a].row.dec = entries[auto[a].at].dec

GuardInv == CoreTypes /\ IdsOnce /\ Guarded

\* What the steps of auto-execute and of the exit engine do to the ids.
LEMMA FillKeepsIds ==
    ASSUME TypeOK, NEW d \in Decisions, ConfirmFills(d, TRUE),
           UNCHANGED <<attempts, req>>
    PROVE  KeepsIds
  <1>1. PICK i \in DOMAIN entries : FillsRow(i, d, TRUE)
    BY FillFacts
  <1>2. UNCHANGED llmRejects
    BY DEF ConfirmFills
  <1>3. QED
    BY <1>1, <1>2 DEF FillsRow, KeepsIds

\* Auto-execute decides no id, and a patch writes a row of the same decision.
LEMMA CallsKeepIds ==
    ASSUME CoreTypes, Guarded, NEW a \in Callers, AutoStep(a)
    PROVE  KeepsIds
  <1>1. CASE UNCHANGED vars
    BY <1>1 DEF vars, journal, KeepsIds
  <1>2. CASE AutoPatchWrite(a)
    <2>1. UNCHANGED <<attempts, llmRejects, req>>
      BY <1>2 DEF AutoPatchWrite
    <2>2. entries'[auto[a].at].dec = entries[auto[a].at].dec
      BY <1>2, PatchWriteFacts DEF Guarded
    <2>3. /\ DOMAIN entries' = DOMAIN entries
          /\ \A j \in DOMAIN entries : j # auto[a].at => entries'[j] = entries[j]
      BY <1>2, PatchWriteFacts
    <2>4. QED
      BY <2>1, <2>2, <2>3 DEF KeepsIds
  <1>3. CASE AutoConfirm(a)
    <2>1. /\ auto[a].dec \in Decisions /\ UNCHANGED <<attempts, req>>
          /\ ConfirmFills(auto[a].dec, TRUE) \/ ConfirmRolledBack(auto[a].dec)
      BY <1>3, AutoConfirmFacts DEF CoreTypes
    <2>2. CASE ConfirmFills(auto[a].dec, TRUE)
      BY <2>1, <2>2, FillKeepsIds DEF CoreTypes
    <2>3. CASE ConfirmRolledBack(auto[a].dec)
      BY <2>1, <2>3 DEF ConfirmRolledBack, journal, KeepsIds
    <2>4. QED
      BY <2>1, <2>2, <2>3
  <1>4. CASE AutoSent(a) \/ AutoAudit(a) \/ AutoAnnounce(a) \/ AutoWarn(a) \/ AutoRaise(a)
    BY <1>4, AfterFacts DEF KeepsIds
  <1>5. QED
    BY <1>1, <1>2, <1>3, <1>4, CountFacts
       DEF AutoStep, AutoParse, AutoCount, AutoLockout, AutoPatchRead

\* The exit engine decides no id.
LEMMA EvaluationsKeepIds ==
    ASSUME CoreTypes, NEW e \in Evaluators, Evaluate(e)
    PROVE  KeepsIds
  <1>1. CASE EvalRests(e)
    BY <1>1 DEF EvalRests, journal, KeepsIds
  <1>2. CASE EvalSells(e)
    <2>1. UNCHANGED <<attempts, llmRejects, req>>
      BY <1>2 DEF EvalSells
    <2>2. DOMAIN entries' = DOMAIN entries
          /\ \A i \in DOMAIN entries : entries'[i].dec = entries[i].dec
      BY <1>2, SaleFacts, StatusKeepsRow DEF Sold
    <2>3. QED
      BY <2>1, <2>2 DEF KeepsIds
  <1>3. QED
    BY <1>1, <1>2, EvaluateFacts

\* Rows that are kept stay guarded, and one call may move on.
LEMMA GuardStep ==
    ASSUME CoreTypes, Guarded, RowsKept, NEW a \in Callers, NEW s \in AutoStates,
           auto' = [auto EXCEPT ![a] = s],
           s.pc \in Past => \E i \in DOMAIN entries : /\ entries[i].dec = s.dec
                                                      /\ entries[i].sizing \notin Blocking,
           s.pc = "patching" => /\ s.at \in DOMAIN entries
                                /\ s.row.dec = entries[s.at].dec
    PROVE  Guarded'
  <1>1. \A b \in Callers : auto'[b] = IF b = a THEN s ELSE auto[b]
    BY DEF CoreTypes, AutoTyped
  <1>2. ASSUME NEW i \in DOMAIN entries'
        PROVE  /\ entries'[i].sizing # "above"
               /\ entries'[i].auto => entries'[i].sizing \notin Blocking
    BY <1>2 DEF RowsKept, Guarded
  <1>3. ASSUME NEW b \in Callers, auto'[b].pc \in Past
        PROVE  \E i \in DOMAIN entries' : /\ entries'[i].dec = auto'[b].dec
                                          /\ entries'[i].sizing \notin Blocking
    <2>1. PICK i \in DOMAIN entries : /\ entries[i].dec = auto'[b].dec
                                      /\ entries[i].sizing \notin Blocking
      BY <1>1, <1>3 DEF Guarded
    <2>2. QED
      BY <2>1 DEF RowsKept
  <1>4. ASSUME NEW b \in Callers, auto'[b].pc = "patching"
        PROVE  auto'[b].row.dec = entries'[auto'[b].at].dec
    <2>1. /\ auto'[b].at \in DOMAIN entries
          /\ auto'[b].row.dec = entries[auto'[b].at].dec
      BY <1>1, <1>4 DEF Guarded, CoreTypes, PatchInPlace
    <2>2. QED
      BY <2>1 DEF RowsKept
  <1>5. QED
    BY <1>2, <1>3, <1>4 DEF Guarded

\* The same when no call moves.
LEMMA RowsGuard ==
    ASSUME CoreTypes, Guarded, RowsKept, UNCHANGED auto
    PROVE  Guarded'
  <1>1. ASSUME NEW i \in DOMAIN entries'
        PROVE  /\ entries'[i].sizing # "above"
               /\ entries'[i].auto => entries'[i].sizing \notin Blocking
    BY <1>1 DEF RowsKept, Guarded
  <1>2. ASSUME NEW b \in Callers, auto[b].pc \in Past
        PROVE  \E i \in DOMAIN entries' : /\ entries'[i].dec = auto[b].dec
                                          /\ entries'[i].sizing \notin Blocking
    <2>1. PICK i \in DOMAIN entries : /\ entries[i].dec = auto[b].dec
                                      /\ entries[i].sizing \notin Blocking
      BY <1>2 DEF Guarded
    <2>2. QED
      BY <2>1 DEF RowsKept
  <1>3. ASSUME NEW b \in Callers, auto[b].pc = "patching"
        PROVE  auto[b].row.dec = entries'[auto[b].at].dec
    <2>1. /\ auto[b].at \in DOMAIN entries
          /\ auto[b].row.dec = entries[auto[b].at].dec
      BY <1>3 DEF Guarded, CoreTypes, PatchInPlace
    <2>2. QED
      BY <2>1 DEF RowsKept
  <1>4. QED
    BY <1>1, <1>2, <1>3 DEF Guarded

\* A patch writes a sizing that passed the breakers.
LEMMA PatchWriteGuard ==
    ASSUME CoreTypes, Guarded, NEW a \in Callers, AutoPatchWrite(a)
    PROVE  Guarded'
  <1> DEFINE at == auto[a].at
  <1>1. PICK s \in AutoStates : /\ auto' = [auto EXCEPT ![a] = s]
                                /\ s.dec = auto[a].dec /\ s.pc = "ready"
    BY PatchWriteFacts
  <1>2. /\ DOMAIN entries' = DOMAIN entries /\ at \in DOMAIN entries
        /\ auto[a].pc = "patching"
        /\ \A j \in DOMAIN entries : j # at => entries'[j] = entries[j]
        /\ entries'[at].dec = entries[at].dec
        /\ entries'[at].sizing = Clamped(auto[a].sizing)
    BY PatchWriteFacts DEF Guarded
  <1>3. auto[a].sizing \notin Blocking /\ auto[a].pc \in Past
    BY <1>2 DEF CoreTypes, AutoTyped, Holds, Past
  <1>4. entries'[at].sizing \notin Blocking /\ entries'[at].sizing # "above"
    BY <1>2, <1>3 DEF Clamped, Blocking
  <1>5. \A b \in Callers : auto'[b] = IF b = a THEN s ELSE auto[b]
    BY <1>1 DEF CoreTypes, AutoTyped
  <1> HIDE DEF at
  <1>6. ASSUME NEW i \in DOMAIN entries'
        PROVE  /\ entries'[i].sizing # "above"
               /\ entries'[i].auto => entries'[i].sizing \notin Blocking
    BY <1>2, <1>4 DEF Guarded
  <1>7. \A i \in DOMAIN entries : /\ entries'[i].dec = entries[i].dec
                                  /\ entries[i].sizing \notin Blocking =>
                                        entries'[i].sizing \notin Blocking
    BY <1>2, <1>4
  <1>8. ASSUME NEW b \in Callers, auto'[b].pc \in Past
        PROVE  \E i \in DOMAIN entries' : /\ entries'[i].dec = auto'[b].dec
                                          /\ entries'[i].sizing \notin Blocking
    <2>1. PICK i \in DOMAIN entries : /\ entries[i].dec = auto'[b].dec
                                      /\ entries[i].sizing \notin Blocking
      BY <1>1, <1>3, <1>5, <1>8 DEF Guarded
    <2>2. QED
      BY <1>2, <1>7, <2>1
  <1>9. ASSUME NEW b \in Callers, auto'[b].pc = "patching"
        PROVE  auto'[b].row.dec = entries'[auto'[b].at].dec
    <2>1. /\ auto'[b].at \in DOMAIN entries
          /\ auto'[b].row.dec = entries[auto'[b].at].dec
      BY <1>1, <1>5, <1>9 DEF Guarded, CoreTypes, PatchInPlace
    <2>2. QED
      BY <1>7, <2>1
  <1>10. QED
    BY <1>6, <1>8, <1>9 DEF Guarded

\* The row a call buys is the one it checked: its decision has no other.
LEMMA AutoConfirmGuard ==
    ASSUME CoreTypes, IdsOnce, Guarded, NEW a \in Callers, AutoConfirm(a)
    PROVE  Guarded'
  <1>1. /\ auto[a].pc = "ready" /\ auto[a].dec \in Decisions /\ auto[a].pc \in Past
    BY AutoConfirmFacts DEF CoreTypes, Past
  <1>2. PICK s \in AutoStates :
           /\ auto' = [auto EXCEPT ![a] = s]
           /\ \/ /\ ConfirmFills(auto[a].dec, TRUE) /\ s.pc = "confirmed"
                 /\ s.dec = auto[a].dec
              \/ ConfirmRolledBack(auto[a].dec) /\ s.pc = "idle"
    BY AutoConfirmFacts DEF CoreTypes
  <1>3. CASE ConfirmRolledBack(auto[a].dec) /\ s.pc = "idle"
    <2>1. UNCHANGED entries
      BY <1>3 DEF ConfirmRolledBack, journal
    <2>2. RowsKept
      BY <2>1 DEF RowsKept
    <2>3. s.pc \notin Past /\ s.pc # "patching"
      BY <1>3 DEF Past
    <2>4. QED
      BY <1>2, <2>2, <2>3, GuardStep
  <1>4. CASE ConfirmFills(auto[a].dec, TRUE) /\ s.pc = "confirmed" /\ s.dec = auto[a].dec
    <2>1. PICK i \in DOMAIN entries : FillsRow(i, auto[a].dec, TRUE)
      BY <1>1, <1>4, FillFacts DEF CoreTypes
    <2>2. entries[i].sizing \notin Blocking
      BY <1>1, <2>1 DEF Guarded, IdsOnce, OneRow, FillsRow
    <2>3. /\ DOMAIN entries' = DOMAIN entries
          /\ \A j \in DOMAIN entries : /\ entries'[j].dec = entries[j].dec
                                       /\ entries'[j].sizing = entries[j].sizing
          /\ \A j \in DOMAIN entries : j # i => entries'[j] = entries[j]
      BY <2>1 DEF FillsRow
    <2>4. \A b \in Callers : auto'[b] = IF b = a THEN s ELSE auto[b]
      BY <1>2 DEF CoreTypes, AutoTyped
    <2>5. ASSUME NEW j \in DOMAIN entries'
          PROVE  /\ entries'[j].sizing # "above"
                 /\ entries'[j].auto => entries'[j].sizing \notin Blocking
      BY <2>2, <2>3 DEF Guarded
    <2>6. ASSUME NEW b \in Callers, auto'[b].pc \in Past
          PROVE  \E j \in DOMAIN entries' : /\ entries'[j].dec = auto'[b].dec
                                            /\ entries'[j].sizing \notin Blocking
      <3>1. PICK j \in DOMAIN entries : /\ entries[j].dec = auto'[b].dec
                                        /\ entries[j].sizing \notin Blocking
        BY <1>1, <1>4, <2>4, <2>6 DEF Guarded
      <3>2. QED
        BY <2>3, <3>1
    <2>7. ASSUME NEW b \in Callers, auto'[b].pc = "patching"
          PROVE  auto'[b].row.dec = entries'[auto'[b].at].dec
      <3>1. /\ auto'[b].at \in DOMAIN entries
            /\ auto'[b].row.dec = entries[auto'[b].at].dec
        BY <1>4, <2>4, <2>7 DEF Guarded, CoreTypes, PatchInPlace
      <3>2. QED
        BY <2>3, <3>1
    <2>8. QED
      BY <2>5, <2>6, <2>7 DEF Guarded
  <1>5. QED
    BY <1>2, <1>3, <1>4

\* Every step of a call keeps the guard.
LEMMA CallsGuard ==
    ASSUME CoreTypes, IdsOnce, Guarded, NEW a \in Callers, AutoStep(a)
    PROVE  Guarded'
  <1>1. ASSUME UNCHANGED entries PROVE RowsKept
    BY <1>1 DEF RowsKept
  <1>2. ASSUME UNCHANGED vars PROVE UNCHANGED entries
    BY <1>2 DEF vars, journal
  <1>3. ASSUME NEW s, s.dec = auto[a].dec, auto[a].pc \in Past
        PROVE  \E i \in DOMAIN entries : /\ entries[i].dec = s.dec
                                         /\ entries[i].sizing \notin Blocking
    BY <1>3 DEF Guarded
  <1>4. ASSUME NEW d \in Decisions, NEW mode \in Modes, AutoParse(a, d, mode)
        PROVE  Guarded'
    <2>1. PICK s \in AutoStates, i \in DOMAIN entries :
              /\ auto' = [auto EXCEPT ![a] = s] /\ Holds(s)
              /\ s.dec = d /\ entries[i].dec = d
              /\ \/ s.pc = "auditing" /\ s.outcome \in Breakers
                 \/ s.pc = "counting" /\ s.sizing = entries[i].sizing
              /\ UNCHANGED vars
      BY <1>4, ParseFacts
    <2>2. s.pc \in Past => /\ entries[i].dec = s.dec
                           /\ entries[i].sizing \notin Blocking
      BY <2>1 DEF Holds, Past
    <2>3. QED
      BY <1>1, <1>2, <2>1, <2>2, GuardStep
  <1>5. CASE AutoCount(a)
    <2>1. PICK s \in AutoStates :
              /\ auto' = [auto EXCEPT ![a] = s]
              /\ s.dec = auto[a].dec /\ auto[a].pc \in Past
              /\ s.pc # "patching"
              /\ UNCHANGED vars
      BY <1>5, CountFacts DEF CoreTypes
    <2>2. QED
      BY <1>1, <1>2, <1>3, <2>1, GuardStep
  <1>6. CASE AutoLockout(a)
    <2>1. PICK s \in AutoStates :
              /\ auto' = [auto EXCEPT ![a] = s]
              /\ s.dec = auto[a].dec /\ auto[a].pc \in Past
              /\ s.pc # "patching"
              /\ UNCHANGED vars
      BY <1>6, LockoutFacts DEF CoreTypes
    <2>2. QED
      BY <1>1, <1>2, <1>3, <2>1, GuardStep
  <1>7. CASE AutoPatchRead(a)
    <2>1. PICK s \in AutoStates :
              /\ auto' = [auto EXCEPT ![a] = s]
              /\ s.dec = auto[a].dec /\ auto[a].pc = "clamping"
              /\ s.at \in DOMAIN entries /\ s.row = entries[s.at]
              /\ UNCHANGED vars
      BY <1>7, PatchReadFacts
    <2>2. auto[a].pc \in Past
      BY <2>1 DEF Past
    <2>3. QED
      BY <1>1, <1>2, <1>3, <2>1, <2>2, GuardStep
  <1>8. CASE AutoSent(a) \/ AutoAudit(a) \/ AutoAnnounce(a) \/ AutoWarn(a) \/ AutoRaise(a)
    <2>1. PICK s \in AutoStates : /\ auto' = [auto EXCEPT ![a] = s]
                                  /\ s.pc \notin Past
      BY <1>8, AfterFacts
    <2>2. s.pc # "patching"
      BY <2>1 DEF Past
    <2>3. UNCHANGED entries
      BY <1>8, AfterFacts
    <2>4. QED
      BY <1>1, <2>1, <2>2, <2>3, GuardStep
  <1>9. QED
    BY <1>4, <1>5, <1>6, <1>7, <1>8, PatchWriteGuard, AutoConfirmGuard DEF AutoStep

\* The guard holds at the start.
LEMMA GuardInvInit == CoreInit => GuardInv
  <1> SUFFICES ASSUME CoreInit PROVE GuardInv
    OBVIOUS
  <1>1. IdsOnce
    BY OnceInit DEF CoreInit, OnceInv
  <1>2. entries = <<>> /\ auto = [a \in Callers |-> Quiet]
    BY DEF CoreInit, Init, JournalInit, AutoInit
  <1>3. \A a \in Callers : auto[a].pc = "idle"
    BY <1>2, QuietHolds
  <1>4. Guarded
    BY <1>2, <1>3 DEF Guarded, Past
  <1>5. QED
    BY <1>1, <1>4, CoreTypesInit DEF GuardInv

\* Every step of the core keeps the guard.
LEMMA GuardInvStep ==
    ASSUME MaxAttempts = 1
    PROVE  GuardInv /\ [CoreNext]_coreVars => GuardInv'
  <1> SUFFICES ASSUME GuardInv, [CoreNext]_coreVars PROVE GuardInv'
    OBVIOUS
  <1> USE DEF GuardInv
  <1>1. CoreTypes'
    BY CoreTypesStep
  <1>2. ASSUME [Next]_vars, UNCHANGED <<auto, eval>> PROVE IdsOnce' /\ Guarded'
    BY <1>2, IdsStep, NextKeepsRows, RowsGuard DEF CoreTypes
  <1>3. ASSUME NEW a \in Callers, AutoStep(a) PROVE IdsOnce' /\ Guarded'
    BY <1>3, CallsKeepIds, KeepsIdsStep, CallsGuard
  <1>4. ASSUME NEW e \in Evaluators, Evaluate(e), UNCHANGED auto
        PROVE  IdsOnce' /\ Guarded'
    <2>1. IdsOnce'
      BY <1>4, EvaluationsKeepIds, KeepsIdsStep
    <2>2. RowsKept
      <3>1. CASE EvalRests(e)
        BY <3>1 DEF EvalRests, journal, RowsKept
      <3>2. QED
        BY <1>4, <3>1, EvaluateFacts, SalesKeepRows
    <2>3. QED
      BY <1>4, <2>1, <2>2, RowsGuard
  <1>5. CASE UNCHANGED coreVars
    <2>1. [Next]_vars /\ UNCHANGED <<auto, eval>>
      BY <1>5 DEF coreVars
    <2>2. QED
      BY <1>1, <1>2, <2>1
  <1>6. CASE CoreNext
    <2>1. CASE Next /\ UNCHANGED <<auto, eval>>
      BY <1>1, <1>2, <2>1
    <2>2. QED
      BY <1>1, <1>3, <1>4, <1>6, <2>1 DEF CoreNext
  <1>7. QED
    BY <1>5, <1>6

\* Nothing is bought above the cap, auto-execute buys nothing a breaker stops,
\* and only calls that have the simulator as broker get as far as buying.
THEOREM BreakersHold ==
    ASSUME MaxAttempts = 1 PROVE CoreSpec => []BreakersRespected
  <1>1. GuardInv => BreakersRespected
    <2> SUFFICES ASSUME GuardInv PROVE BreakersRespected
      OBVIOUS
    <2>1. \A a \in Callers :
             auto[a].pc \in AutoPcs \ {"idle", "auditing", "announcing", "warning"} =>
                auto[a].mode = "sim"
      BY DEF GuardInv, CoreTypes, AutoTyped, Holds, AutoPcs, Past
    <2>2. QED
      BY <2>1 DEF BreakersRespected, GuardInv, Guarded
  <1>2. GuardInv /\ [CoreNext]_coreVars => GuardInv'
    BY GuardInvStep
  <1>3. QED
    BY <1>1, <1>2, GuardInvInit, PTL DEF CoreSpec


-----------------------------------------------------------------------------
\* The steps of a call, by what they do to the journal

\* The tables counted per decision
Counts == <<llmRejects, rejects, expires, costs>>

Thinks(a) ==
    /\ UNCHANGED <<entries, exits, audits, brokerVars, undone>>
    /\ \E s \in AutoStates :
          /\ auto' = [auto EXCEPT ![a] = s]
          /\ \/ s.pc = "auditing" /\ s.outcome \in Breakers
             \/ /\ s.pc = "counting"
                /\ \E i \in DOMAIN entries : /\ entries[i].dec = s.dec
                                             /\ entries[i].sizing = s.sizing
             \/ /\ s.pc \in {"counted", "clamping", "patching", "ready"}
                /\ s.pc = "clamping" => s.sizing \in Deviating
                /\ s.pc = "patching" =>
                      /\ auto[a].pc = "clamping"
                      /\ s.at \in DOMAIN entries /\ s.row = entries[s.at]
                      /\ s.row.dec = s.dec
                /\ auto[a].pc \in Past
                /\ s.dec = auto[a].dec /\ s.sizing = auto[a].sizing

Buys(a) ==
    /\ ConfirmFills(auto[a].dec, TRUE)
    /\ auto[a].pc \in Past /\ auto[a].dec \in Decisions /\ undone' = undone
    /\ \E s \in AutoStates : /\ auto' = [auto EXCEPT ![a] = s]
                             /\ s.pc = "confirmed" /\ s.outcome \in Passes
                             /\ s.dec = auto[a].dec /\ s.sizing = auto[a].sizing

LosesOrder(a) ==
    /\ ConfirmRolledBack(auto[a].dec)
    /\ auto[a].dec \in Decisions /\ undone' = undone
    /\ \E s \in AutoStates : auto' = [auto EXCEPT ![a] = s] /\ s.pc = "idle"

Reports(a) ==
    /\ UNCHANGED <<entries, exits, brokerVars, undone>>
    /\ \E s \in AutoStates :
          /\ auto' = [auto EXCEPT ![a] = s] /\ s.pc \notin Past
          /\ s.pc = "auditing" => /\ auto[a].pc = "confirmed"
                                  /\ s.dec = auto[a].dec /\ s.outcome = auto[a].outcome
          /\ \/ audits' = audits
             \/ /\ auto[a].pc = "auditing" /\ s.pc = "announcing"
                /\ audits' = Append(audits, [dec |-> auto[a].dec,
                                             outcome |-> auto[a].outcome])

\* The eleven steps of a call are these four, and the patch.
LEMMA CallKinds ==
    ASSUME CoreTypes, NEW a \in Callers, AutoStep(a)
    PROVE  /\ Thinks(a) \/ Buys(a) \/ LosesOrder(a) \/ Reports(a) \/ AutoPatchWrite(a)
           /\ UNCHANGED <<now, req>>
  <1>1. ASSUME UNCHANGED vars
        PROVE  UNCHANGED <<entries, exits, audits, brokerVars, now, req>>
    BY <1>1 DEF vars, journal, exitRows
  <1>2. ASSUME NEW d \in Decisions, NEW mode \in Modes, AutoParse(a, d, mode), undone' = undone
        PROVE  Thinks(a) /\ UNCHANGED <<now, req>>
    BY <1>1, <1>2, ParseFacts DEF Thinks
  <1>3. CASE AutoCount(a) /\ undone' = undone
    BY <1>1, <1>3, CountFacts DEF Thinks, CoreTypes
  <1>4. CASE AutoLockout(a) /\ undone' = undone
    BY <1>1, <1>4, LockoutFacts DEF Thinks, CoreTypes
  <1>5. CASE AutoPatchRead(a) /\ undone' = undone
    <2>1. auto[a].pc \in Past
      BY <1>5 DEF AutoPatchRead, Past
    <2>2. QED
      BY <1>1, <1>5, <2>1, PatchReadFacts DEF Thinks
  <1>6. CASE AutoConfirm(a) /\ undone' = undone
    <2>1. auto[a].pc \in Past
      BY <1>6 DEF AutoConfirm, Past
    <2>2. QED
      BY <1>6, <2>1, AutoConfirmFacts DEF Buys, LosesOrder, CoreTypes
  <1>7. CASE /\ AutoSent(a) \/ AutoAudit(a) \/ AutoAnnounce(a) \/ AutoWarn(a) \/ AutoRaise(a)
             /\ undone' = undone
    BY <1>7, AfterFacts DEF Reports
  <1>8. CASE AutoPatchWrite(a)
    BY <1>8 DEF AutoPatchWrite
  <1>9. QED
    BY <1>2, <1>3, <1>4, <1>5, <1>6, <1>7, <1>8 DEF AutoStep

\* A call holds the sizing its row has, and a patch writes to the row of its
\* decision.  The row it would write is the one that is there, or was decided
\* since, or was undone already.
Agreed ==
    /\ \A d \in undone : \E i \in DOMAIN entries : entries[i].dec = d
    /\ \A a \in Callers : auto[a].pc \in Past =>
          \A i \in DOMAIN entries : entries[i].dec = auto[a].dec =>
             entries[i].sizing = auto[a].sizing
    /\ \A a \in Callers : auto[a].pc = "patching" =>
          /\ auto[a].row.dec = auto[a].dec /\ auto[a].row.sizing = auto[a].sizing
          /\ entries[auto[a].at].dec = auto[a].dec
          /\ \/ auto[a].dec \in undone
             \/ entries[auto[a].at] = auto[a].row
             \/ entries[auto[a].at].status # "pending_confirm"

\* The patch puts back the row it read.
Patches(a) ==
    /\ auto[a].at \in DOMAIN entries /\ auto[a].row \in EntryRow
    /\ entries[auto[a].at].dec = auto[a].dec
    /\ auto[a].row.dec = auto[a].dec
    /\ auto[a].row.sizing = entries[auto[a].at].sizing
    /\ DOMAIN entries' = DOMAIN entries
    /\ entries'[auto[a].at] = auto[a].row
    /\ \A j \in DOMAIN entries : j # auto[a].at => entries'[j] = entries[j]
    /\ \/ undone' = undone /\ entries' = entries
       \/ /\ undone' = undone \cup {auto[a].dec}
          /\ \/ auto[a].dec \in undone
             \/ entries[auto[a].at].status # "pending_confirm"
    /\ UNCHANGED <<exits, audits, brokerVars, Counts, emitted, now, req>>
    /\ \E s \in AutoStates : /\ auto' = [auto EXCEPT ![a] = s] /\ s.pc = "ready"
                             /\ s.dec = auto[a].dec /\ s.sizing = auto[a].sizing

\* No row is above the cap, so the clamp has nothing to bring down.
LEMMA PatchFacts ==
    ASSUME GuardInv, Agreed, NEW a \in Callers, AutoPatchWrite(a)
    PROVE  Patches(a)
  <1> USE DEF GuardInv
  <1> DEFINE at == auto[a].at
             row == auto[a].row
  <1>1. auto[a].pc = "patching" /\ auto[a].pc \in Past
    BY DEF AutoPatchWrite, Past
  <1>2. at \in DOMAIN entries /\ row \in EntryRow
    BY PatchWriteFacts
  <1>3. /\ row.dec = auto[a].dec /\ row.sizing = auto[a].sizing
        /\ entries[at].dec = auto[a].dec /\ entries[at].sizing = auto[a].sizing
        /\ auto[a].dec \in undone \/ entries[at] = row
              \/ entries[at].status # "pending_confirm"
    BY <1>1, <1>2 DEF Agreed
  <1>4. auto[a].sizing # "above"
    BY <1>2, <1>3 DEF Guarded
  <1>5. Clamped(auto[a].sizing) = row.sizing
    BY <1>3, <1>4 DEF Clamped
  <1>6. /\ DOMAIN entries' = DOMAIN entries /\ entries'[at] = row
        /\ entries \in Seq(EntryRow) /\ entries' \in Seq(EntryRow)
        /\ \A j \in DOMAIN entries : j # at => entries'[j] = entries[j]
    BY <1>5, PatchWriteFacts DEF CoreTypes, TypeOK
  <1>7. undone' = undone \cup {d \in {auto[a].dec} : entries[at] # row}
    BY DEF AutoPatchWrite
  <1>8. entries[at] = row => entries' = entries
    <2> SUFFICES ASSUME entries[at] = row PROVE entries' = entries
      OBVIOUS
    <2>1. \A j \in DOMAIN entries : entries'[j] = entries[j]
      BY <1>6
    <2>2. Len(entries') = Len(entries) /\ DOMAIN entries = 1..Len(entries)
      BY <1>6, LenProperties
    <2>3. QED
      BY <1>6, <2>1, <2>2, SeqEqual
  <1>9. UNCHANGED <<exits, audits, brokerVars, Counts, emitted, now, req>>
    BY DEF AutoPatchWrite, exitRows, Counts
  <1>10. \E s \in AutoStates : /\ auto' = [auto EXCEPT ![a] = s] /\ s.pc = "ready"
                               /\ s.dec = auto[a].dec /\ s.sizing = auto[a].sizing
    BY PatchWriteFacts
  <1>11. QED
    BY <1>2, <1>3, <1>6, <1>7, <1>8, <1>9, <1>10 DEF Patches

-----------------------------------------------------------------------------
\* What a step of the core does to rows, orders and history

\* What becomes of a row no patch has undone
Moved(row, after) ==
    \/ after.status = row.status /\ after.fill = row.fill /\ (after.auto <=> row.auto)
    \/ /\ row.status = "pending_confirm" /\ after.status \in {"rejected", "expired"}
       /\ after.fill = row.fill
    \/ row.status = "pending_confirm" /\ after.status = "confirmed" /\ after.fill # 0
    \/ /\ row.status = "confirmed" /\ after.status = "closed"
       /\ after.fill = row.fill /\ (after.auto <=> row.auto)

RowsFollow ==
    /\ DOMAIN entries \subseteq DOMAIN entries'
    /\ \A i \in DOMAIN entries :
          /\ entries'[i].dec = entries[i].dec
          /\ entries'[i].sizing = entries[i].sizing
          /\ entries[i].dec \notin undone' => Moved(entries[i], entries'[i])
    /\ \A i \in DOMAIN entries' \ DOMAIN entries :
          /\ entries'[i].status = "pending_confirm" /\ entries'[i].fill = 0
          /\ entries'[i].sizing # "above" /\ ~entries'[i].auto
    /\ undone \subseteq undone'
    /\ \A d \in undone' : d \in undone \/ \E i \in DOMAIN entries : entries[i].dec = d

\* The broker's book: nothing, an order that a row was filled with, or one that
\* was lost
OrderStep ==
    \/ UNCHANGED brokerVars
    \/ \E d \in Decisions :
          /\ orders' = Append(orders, d)
          /\ \/ lost' = lost \cup {Len(orders) + 1}
             \/ /\ lost' = lost
                /\ \E i \in DOMAIN entries' : /\ entries'[i].dec = d
                                              /\ entries'[i].fill = Len(orders) + 1

\* Rows of decisions that were not undone carry a fill exactly when they were
\* bought, and the orders for those decisions are accounted for.
Sound(row) == row.fill # 0 <=> row.status \in {"confirmed", "closed"}

RowsSound == \A i \in DOMAIN entries : entries[i].dec \notin undone => Sound(entries[i])

OrdersKept ==
    \A o \in DOMAIN orders \ lost : orders[o] \notin undone =>
        \E i \in DOMAIN entries : entries[i].fill = o /\ entries[i].dec = orders[o]

\* An evaluation looks at rows that were bought, unless they were undone.
TodoBought ==
    \A e \in Evaluators : \A i \in eval[e].todo :
        /\ i \in DOMAIN entries
        /\ \/ entries[i].dec \in undone
           \/ entries[i].status \in {"confirmed", "closed"}

StoryInv ==
    /\ GuardInv
    /\ Agreed
    /\ ClocksBehind
    /\ RowsSound
    /\ OrdersKept
    /\ TodoBought

\* The row a sale closes is the row it looked at.
LEMMA SoldRow ==
    ASSUME StoryInv, NEW e \in Evaluators, EvalSells(e)
    PROVE  \E k \in eval[e].todo, x \in ExitRow, s \in Evaluations :
              /\ Sold(e, k, k, x, s) /\ k \in DOMAIN entries
              /\ entries[k].dec \in undone \/ entries[k].status \in {"confirmed", "closed"}
  <1> USE DEF StoryInv, GuardInv
  <1>1. PICK i \in eval[e].todo, k \in DOMAIN entries, x \in ExitRow, s \in Evaluations :
           Sold(e, i, k, x, s)
    BY SaleFacts
  <1>2. i \in DOMAIN entries
        /\ (entries[i].dec \in undone \/ entries[i].status \in {"confirmed", "closed"})
    BY DEF TodoBought
  <1>3. i = k
    BY <1>1, <1>2 DEF IdsOnce, OneRow, Sold
  <1>4. QED
    BY <1>1, <1>2, <1>3

\* A confirm fills a row with the order it placed.
LEMMA FillSteps ==
    ASSUME TypeOK, NEW d \in Decisions, NEW b \in BOOLEAN, ConfirmFills(d, b)
    PROVE  OrderStep
  <1>1. orders' = Append(orders, d) /\ lost' = lost
    BY DEF ConfirmFills
  <1>2. PICK i \in DOMAIN entries : /\ entries[i].dec = d
                                    /\ OneRowMoves(i, "pending_confirm", "confirmed")
                                    /\ entries'[i].fill = Len(orders) + 1
    BY ConfirmFacts
  <1>3. QED
    BY <1>1, <1>2 DEF OrderStep, OneRowMoves

\* The decider, the gate, the bus and the clock.
LEMMA NextFollows ==
    ASSUME StoryInv, [Next]_vars, undone' = undone
    PROVE  RowsFollow /\ OrderStep
  <1> USE DEF StoryInv, GuardInv
  <1>1. TypeOK /\ RowsKept /\ RowStep
    BY NextKeepsRows, RowSteps DEF CoreTypes
  <1>2. ASSUME NEW i \in DOMAIN entries PROVE Moved(entries[i], entries'[i])
    <2>1. /\ entries'[i].status # entries[i].status =>
                <<entries[i].status, entries'[i].status>> \in Edges
          /\ \/ /\ entries'[i].status = entries[i].status
                /\ entries'[i].fill = entries[i].fill
             \/ entries'[i].status = "confirmed" /\ entries'[i].fill # 0
             \/ /\ entries[i].status = "pending_confirm"
                /\ entries'[i].status \in {"rejected", "expired"}
                /\ entries'[i].fill = entries[i].fill
      BY <1>1 DEF RowStep
    <2>2. /\ entries[i].status # "pending_confirm" =>
                /\ entries'[i].fill = entries[i].fill /\ entries'[i].auto = entries[i].auto
          /\ entries'[i].status = "pending_confirm" => entries'[i] = entries[i]
      BY <1>1 DEF RowsKept
    <2>3. CASE entries[i].status = "pending_confirm"
      BY <2>1, <2>2, <2>3 DEF Moved
    <2>4. CASE entries[i].status # "pending_confirm"
      BY <2>1, <2>2, <2>4 DEF Moved, Edges
    <2>5. QED
      BY <2>3, <2>4
  <1>3. RowsFollow
    BY <1>1, <1>2 DEF RowsFollow, RowsKept, RowStep
  <1>4. OrderStep
    <2>1. ASSUME NEW w \in Workers, NEW d \in Decisions, Confirm(w, d)
          PROVE  OrderStep
      <3>1. CASE ConfirmFills(d, FALSE)
        BY <1>1, <3>1, FillSteps
      <3>2. CASE ConfirmRolledBack(d)
        BY <3>2 DEF ConfirmRolledBack, OrderStep
      <3>3. QED
        BY <2>1, <3>1, <3>2 DEF Confirm
    <2>2. QED
      BY <1>1, <2>1, OtherSteps DEF KeepsFills, OrderStep
  <1>5. QED
    BY <1>3, <1>4

\* Rows that stay as they are.
LEMMA SameFollow ==
    ASSUME UNCHANGED <<entries, undone>>
    PROVE  RowsFollow
  BY DEF RowsFollow, Moved

\* A call of auto-execute: its confirm is the gate's, its patch undoes a row.
LEMMA CallFollows ==
    ASSUME StoryInv, NEW a \in Callers, AutoStep(a)
    PROVE  RowsFollow /\ OrderStep
  <1> USE DEF StoryInv
  <1>1. CoreTypes /\ TypeOK
    BY DEF GuardInv, CoreTypes
  <1>2. CASE Thinks(a) \/ Reports(a)
    BY <1>2, SameFollow DEF Thinks, Reports, OrderStep
  <1>3. CASE LosesOrder(a)
    BY <1>3, SameFollow DEF LosesOrder, ConfirmRolledBack, journal, OrderStep
  <1>4. CASE Buys(a)
    <2>1. PICK i \in DOMAIN entries : FillsRow(i, auto[a].dec, TRUE)
      BY <1>1, <1>4, FillFacts DEF Buys
    <2>2. ASSUME NEW j \in DOMAIN entries
          PROVE  /\ entries'[j].dec = entries[j].dec
                 /\ entries'[j].sizing = entries[j].sizing
                 /\ Moved(entries[j], entries'[j])
      <3>1. CASE j = i
        BY <2>1, <3>1 DEF FillsRow, Moved
      <3>2. CASE j # i
        BY <2>1, <3>2 DEF FillsRow, Moved
      <3>3. QED
        BY <3>1, <3>2
    <2>3. DOMAIN entries' = DOMAIN entries /\ undone' = undone
      BY <1>4, <2>1 DEF FillsRow, Buys
    <2>4. QED
      BY <1>1, <1>4, <2>2, <2>3, FillSteps DEF Buys, RowsFollow
  <1>5. CASE AutoPatchWrite(a)
    <2>1. Patches(a)
      BY <1>5, PatchFacts
    <2>2. CASE UNCHANGED <<entries, undone>>
      BY <2>1, <2>2, SameFollow DEF Patches, OrderStep
    <2>3. CASE undone' = undone \cup {auto[a].dec}
      BY <2>1, <2>3 DEF Patches, OrderStep, RowsFollow, Moved
    <2>4. QED
      BY <2>1, <2>2, <2>3 DEF Patches
  <1>6. QED
    BY <1>1, <1>2, <1>3, <1>4, <1>5, CallKinds

\* An evaluation closes a row that was bought.
LEMMA EvaluationFollows ==
    ASSUME StoryInv, NEW e \in Evaluators, Evaluate(e), undone' = undone
    PROVE  RowsFollow /\ OrderStep
  <1>1. CASE EvalRests(e)
    BY <1>1, SameFollow DEF EvalRests, journal, OrderStep
  <1>2. CASE EvalSells(e)
    <2>1. PICK k \in eval[e].todo, x \in ExitRow, s \in Evaluations :
             /\ Sold(e, k, k, x, s) /\ k \in DOMAIN entries
             /\ entries[k].dec \in undone \/ entries[k].status \in {"confirmed", "closed"}
      BY <1>2, SoldRow
    <2>2. /\ entries'[k].dec = entries[k].dec /\ entries'[k].sizing = entries[k].sizing
          /\ entries'[k].fill = entries[k].fill /\ entries'[k].auto = entries[k].auto
          /\ entries'[k].status = "closed"
      BY <2>1, StatusKeepsRow DEF Sold
    <2>3. entries[k].dec \notin undone => Moved(entries[k], entries'[k])
      BY <2>1, <2>2 DEF Moved
    <2>4. /\ DOMAIN entries' = DOMAIN entries
          /\ \A j \in DOMAIN entries : j # k => entries'[j] = entries[j]
      BY <2>1 DEF Sold
    <2>5. RowsFollow
      <3>1. ASSUME NEW j \in DOMAIN entries
            PROVE  /\ entries'[j].dec = entries[j].dec
                   /\ entries'[j].sizing = entries[j].sizing
                   /\ entries[j].dec \notin undone' => Moved(entries[j], entries'[j])
        <4>1. CASE j = k
          BY <2>2, <2>3, <4>1
        <4>2. CASE j # k
          BY <2>4, <4>2 DEF Moved
        <4>3. QED
          BY <4>1, <4>2
      <3>2. QED
        BY <2>4, <3>1 DEF RowsFollow
    <2>6. QED
      BY <1>2, <2>5 DEF EvalSells, OrderStep
  <1>3. QED
    BY <1>1, <1>2, EvaluateFacts DEF StoryInv, GuardInv

\* Every step of the core.
LEMMA CoreFollows ==
    ASSUME StoryInv, [CoreNext]_coreVars
    PROVE  RowsFollow /\ OrderStep
  <1>1. CASE UNCHANGED coreVars
    BY <1>1, NextFollows DEF coreVars
  <1>2. CASE CoreNext
    BY <1>2, NextFollows, CallFollows, EvaluationFollows DEF CoreNext
  <1>3. QED
    BY <1>1, <1>2

-----------------------------------------------------------------------------
\* The invariant of the story is inductive.

\* Rows that follow are sound.
LEMMA RowsSoundStep ==
    ASSUME RowsSound, RowsFollow
    PROVE  RowsSound'
  <1> SUFFICES ASSUME NEW i \in DOMAIN entries', entries'[i].dec \notin undone'
               PROVE  Sound(entries'[i])
    BY DEF RowsSound
  <1>1. CASE i \in DOMAIN entries
    <2>1. Sound(entries[i]) /\ Moved(entries[i], entries'[i])
      BY <1>1 DEF RowsSound, RowsFollow
    <2>2. QED
      BY <2>1 DEF Sound, Moved
  <1>2. CASE i \notin DOMAIN entries
    BY <1>2 DEF RowsFollow, Sound
  <1>3. QED
    BY <1>1, <1>2

\* What a row was bought with stays with it.
LEMMA BoughtFollows ==
    ASSUME RowsSound, RowsFollow, NEW i \in DOMAIN entries,
           entries[i].dec \notin undone', entries[i].fill # 0
    PROVE  /\ i \in DOMAIN entries' /\ entries'[i].dec = entries[i].dec
           /\ entries'[i].fill = entries[i].fill
           /\ entries'[i].auto <=> entries[i].auto
  <1>1. Sound(entries[i]) /\ Moved(entries[i], entries'[i])
    BY DEF RowsSound, RowsFollow
  <1>2. QED
    BY <1>1 DEF RowsFollow, Sound, Moved

\* So every order that counts still has its row.
LEMMA OrdersKeptStep ==
    ASSUME TypeOK, RowsSound, OrdersKept, RowsFollow, OrderStep
    PROVE  OrdersKept'
  <1>1. /\ orders \in Seq(Decisions) /\ DOMAIN orders = 1..Len(orders)
        /\ Len(orders) \in Nat
    BY LenProperties DEF TypeOK
  <1>2. ASSUME NEW o \in DOMAIN orders \ lost, orders[o] \notin undone'
        PROVE  \E i \in DOMAIN entries' : entries'[i].fill = o /\ entries'[i].dec = orders[o]
    <2>1. PICK i \in DOMAIN entries : entries[i].fill = o /\ entries[i].dec = orders[o]
      BY <1>2 DEF OrdersKept, RowsFollow
    <2>2. o # 0
      BY <1>1
    <2>3. QED
      BY <1>2, <2>1, <2>2, BoughtFollows
  <1>3. CASE UNCHANGED brokerVars
    BY <1>2, <1>3 DEF brokerVars, OrdersKept
  <1>4. ASSUME NEW d \in Decisions, orders' = Append(orders, d),
               \/ lost' = lost \cup {Len(orders) + 1}
               \/ /\ lost' = lost
                  /\ \E i \in DOMAIN entries' : /\ entries'[i].dec = d
                                                /\ entries'[i].fill = Len(orders) + 1
        PROVE  OrdersKept'
    <2>1. /\ DOMAIN orders' = 1..(Len(orders) + 1)
          /\ orders'[Len(orders) + 1] = d
          /\ \A o \in DOMAIN orders : orders'[o] = orders[o]
      BY <1>1, <1>4, AppendRow
    <2>2. ASSUME NEW o \in DOMAIN orders' \ lost', orders'[o] \notin undone'
          PROVE  \E i \in DOMAIN entries' : entries'[i].fill = o /\ entries'[i].dec = orders'[o]
      <3>1. CASE o = Len(orders) + 1
        BY <1>4, <2>1, <2>2, <3>1
      <3>2. CASE o # Len(orders) + 1
        <4>1. o \in DOMAIN orders \ lost /\ orders'[o] = orders[o]
          BY <1>1, <1>4, <2>1, <2>2, <3>2
        <4>2. QED
          BY <1>2, <2>2, <4>1
      <3>3. QED
        BY <3>1, <3>2
    <2>3. QED
      BY <2>2 DEF OrdersKept
  <1>5. QED
    BY <1>3, <1>4 DEF OrderStep

\* An evaluation takes up rows that are bought, and those stay so.
LEMMA TodoStep ==
    ASSUME TodoBought, RowsFollow,
           \A e \in Evaluators : \A i \in eval'[e].todo :
              \/ i \in eval[e].todo
              \/ i \in DOMAIN entries /\ entries[i].status = "confirmed"
    PROVE  TodoBought'
  <1> SUFFICES ASSUME NEW e \in Evaluators, NEW i \in eval'[e].todo
               PROVE  /\ i \in DOMAIN entries'
                      /\ \/ entries'[i].dec \in undone'
                         \/ entries'[i].status \in {"confirmed", "closed"}
    BY DEF TodoBought
  <1>1. /\ i \in DOMAIN entries
        /\ entries[i].dec \in undone \/ entries[i].status \in {"confirmed", "closed"}
    BY DEF TodoBought
  <1>2. QED
    BY <1>1 DEF RowsFollow, Moved

\* What the evaluations look at, whatever the step.
LEMMA TodoGrows ==
    ASSUME StoryInv, [CoreNext]_coreVars
    PROVE  \A e \in Evaluators : \A i \in eval'[e].todo :
              \/ i \in eval[e].todo
              \/ i \in DOMAIN entries /\ entries[i].status = "confirmed"
  <1> USE DEF StoryInv, GuardInv
  <1>1. ASSUME NEW e \in Evaluators, NEW s, eval' = [eval EXCEPT ![e] = s],
               s.todo \subseteq eval[e].todo
                             \cup {i \in DOMAIN entries : entries[i].status = "confirmed"},
               NEW f \in Evaluators, NEW i \in eval'[f].todo
        PROVE  \/ i \in eval[f].todo
               \/ i \in DOMAIN entries /\ entries[i].status = "confirmed"
    <2>1. eval'[f] = IF f = e THEN s ELSE eval[f]
      BY <1>1 DEF CoreTypes, EvalTyped
    <2>2. QED
      BY <1>1, <2>1
  <1>2. ASSUME NEW e \in Evaluators, Evaluate(e)
        PROVE  \E s : /\ eval' = [eval EXCEPT ![e] = s]
                      /\ s.todo \subseteq eval[e].todo
                             \cup {i \in DOMAIN entries : entries[i].status = "confirmed"}
    <2>1. CASE EvalRests(e)
      BY <2>1 DEF EvalRests
    <2>2. CASE EvalSells(e)
      BY <2>2 DEF EvalSells
    <2>3. QED
      BY <1>2, <2>1, <2>2, EvaluateFacts
  <1>3. CASE UNCHANGED eval
    BY <1>3
  <1>4. ASSUME NEW e \in Evaluators, Evaluate(e),
               NEW f \in Evaluators, NEW i \in eval'[f].todo
        PROVE  \/ i \in eval[f].todo
               \/ i \in DOMAIN entries /\ entries[i].status = "confirmed"
    BY <1>1, <1>2, <1>4
  <1>5. QED
    BY <1>3, <1>4 DEF CoreNext, coreVars

\* A row that is pending after a step other than a patch was so before it, and
\* is the same row.
LEMMA PendingIsOld ==
    ASSUME StoryInv, [CoreNext]_coreVars, NEW i \in DOMAIN entries,
           \A a \in Callers : ~AutoPatchWrite(a),
           entries'[i].status = "pending_confirm"
    PROVE  entries'[i] = entries[i]
  <1> USE DEF StoryInv, GuardInv
  <1>1. ASSUME [Next]_vars PROVE entries'[i] = entries[i]
    BY <1>1, NextKeepsRows DEF RowsKept, CoreTypes
  <1>2. ASSUME NEW a \in Callers, AutoStep(a) PROVE entries'[i] = entries[i]
    <2>1. CASE Buys(a)
      <3>1. PICK j \in DOMAIN entries : FillsRow(j, auto[a].dec, TRUE)
        BY <2>1, FillFacts DEF Buys, CoreTypes
      <3>2. QED
        BY <3>1 DEF FillsRow
    <2>2. QED
      BY <1>2, <2>1, CallKinds DEF Thinks, Reports, LosesOrder, ConfirmRolledBack, journal
  <1>3. ASSUME NEW e \in Evaluators, Evaluate(e) PROVE entries'[i] = entries[i]
    <2>1. CASE EvalRests(e)
      BY <2>1 DEF EvalRests, journal
    <2>2. CASE EvalSells(e)
      BY <2>2, SalesKeepRows DEF RowsKept
    <2>3. QED
      BY <1>3, <2>1, <2>2, EvaluateFacts
  <1>4. QED
    BY <1>1, <1>2, <1>3 DEF CoreNext, coreVars, vars, journal

\* Rows that follow agree with what the calls hold, if the calls stay.
LEMMA HeldAgrees ==
    ASSUME StoryInv, RowsFollow, OneRow', NEW b \in Callers, auto[b].pc \in Past,
           NEW i \in DOMAIN entries', entries'[i].dec = auto[b].dec
    PROVE  entries'[i].sizing = auto[b].sizing
  <1>1. PICK j \in DOMAIN entries : entries[j].dec = auto[b].dec
    BY DEF StoryInv, GuardInv, Guarded
  <1>2. j \in DOMAIN entries' /\ entries'[j].dec = auto[b].dec
    BY <1>1 DEF RowsFollow
  <1>3. i = j
    BY <1>2 DEF OneRow
  <1>4. QED
    BY <1>1, <1>3 DEF RowsFollow, StoryInv, Agreed

\* A patch that waits still knows its row, or finds it decided or undone.
LEMMA WaitingAgrees ==
    ASSUME StoryInv, RowsFollow, [CoreNext]_coreVars, NEW b \in Callers,
           auto[b].pc = "patching"
    PROVE  /\ auto[b].row.dec = auto[b].dec /\ auto[b].row.sizing = auto[b].sizing
           /\ entries'[auto[b].at].dec = auto[b].dec
           /\ \/ auto[b].dec \in undone'
              \/ entries'[auto[b].at] = auto[b].row
              \/ entries'[auto[b].at].status # "pending_confirm"
  <1> DEFINE at == auto[b].at
  <1>1. /\ at \in DOMAIN entries
        /\ auto[b].row.dec = auto[b].dec /\ auto[b].row.sizing = auto[b].sizing
        /\ entries[at].dec = auto[b].dec
        /\ \/ auto[b].dec \in undone
           \/ entries[at] = auto[b].row
           \/ entries[at].status # "pending_confirm"
    BY DEF StoryInv, GuardInv, CoreTypes, PatchInPlace, Agreed
  <1>2. entries'[at].dec = auto[b].dec /\ undone \subseteq undone'
    BY <1>1 DEF RowsFollow
  <1>3. CASE \A a \in Callers : ~AutoPatchWrite(a)
    <2>1. entries'[at].status = "pending_confirm" => entries'[at] = entries[at]
      BY <1>1, <1>3, PendingIsOld
    <2>2. QED
      BY <1>1, <1>2, <2>1
  <1>4. ASSUME NEW a \in Callers, AutoPatchWrite(a)
        PROVE  \/ auto[b].dec \in undone'
               \/ entries'[at] = auto[b].row
               \/ entries'[at].status # "pending_confirm"
    <2>1. Patches(a)
      BY <1>4, PatchFacts DEF StoryInv
    <2>2. CASE undone' = undone /\ entries' = entries
      BY <1>1, <2>2
    <2>3. CASE undone' = undone \cup {auto[a].dec} /\ auto[a].dec = auto[b].dec
      BY <2>3
    <2>4. CASE undone' = undone \cup {auto[a].dec} /\ auto[a].dec # auto[b].dec
      <3>1. at # auto[a].at
        BY <1>1, <2>1, <2>4 DEF Patches
      <3>2. entries'[at] = entries[at]
        BY <1>1, <2>1, <3>1 DEF Patches
      <3>3. QED
        BY <1>1, <1>2, <3>2
    <2>5. QED
      BY <2>1, <2>2, <2>3, <2>4 DEF Patches
  <1>5. QED
    BY <1>1, <1>2, <1>3, <1>4

\* The calls go on agreeing with the rows.
LEMMA AgreedStep ==
    ASSUME StoryInv, RowsFollow, OneRow', [CoreNext]_coreVars
    PROVE  Agreed'
  <1> USE DEF StoryInv, GuardInv
  <1>1. \A d \in undone' : \E i \in DOMAIN entries' : entries'[i].dec = d
    BY DEF RowsFollow, Agreed
  <1>2. ASSUME NEW b \in Callers, auto'[b] = auto[b]
        PROVE  /\ auto'[b].pc \in Past =>
                    \A i \in DOMAIN entries' : entries'[i].dec = auto'[b].dec =>
                       entries'[i].sizing = auto'[b].sizing
               /\ auto'[b].pc = "patching" =>
                    /\ auto'[b].row.dec = auto'[b].dec
                    /\ auto'[b].row.sizing = auto'[b].sizing
                    /\ entries'[auto'[b].at].dec = auto'[b].dec
                    /\ \/ auto'[b].dec \in undone'
                       \/ entries'[auto'[b].at] = auto'[b].row
                       \/ entries'[auto'[b].at].status # "pending_confirm"
    BY <1>2, HeldAgrees, WaitingAgrees
  <1>3. CASE UNCHANGED auto
    BY <1>1, <1>2, <1>3 DEF Agreed
  <1>4. ASSUME NEW a \in Callers, NEW s, auto' = [auto EXCEPT ![a] = s],
               s.pc \in Past =>
                  \A i \in DOMAIN entries' : entries'[i].dec = s.dec =>
                     entries'[i].sizing = s.sizing,
               s.pc = "patching" => /\ s.row.dec = s.dec /\ s.row.sizing = s.sizing
                                    /\ entries'[s.at] = s.row
        PROVE  Agreed'
    <2>1. auto'[a] = s /\ \A b \in Callers : b # a => auto'[b] = auto[b]
      BY <1>4 DEF CoreTypes, AutoTyped
    <2>2. ASSUME NEW b \in Callers, auto'[b].pc \in Past, NEW i \in DOMAIN entries',
                 entries'[i].dec = auto'[b].dec
          PROVE  entries'[i].sizing = auto'[b].sizing
      BY <1>2, <1>4, <2>1, <2>2
    <2>3. ASSUME NEW b \in Callers, auto'[b].pc = "patching"
          PROVE  /\ auto'[b].row.dec = auto'[b].dec
                 /\ auto'[b].row.sizing = auto'[b].sizing
                 /\ entries'[auto'[b].at].dec = auto'[b].dec
                 /\ \/ auto'[b].dec \in undone'
                    \/ entries'[auto'[b].at] = auto'[b].row
                    \/ entries'[auto'[b].at].status # "pending_confirm"
      BY <1>2, <1>4, <2>1, <2>3
    <2>4. QED
      BY <1>1, <2>2, <2>3 DEF Agreed
  <1>5. ASSUME NEW a \in Callers, AutoStep(a) PROVE Agreed'
    <2>1. CASE Thinks(a)
      <3>1. PICK s \in AutoStates :
              /\ auto' = [auto EXCEPT ![a] = s] /\ UNCHANGED entries
              /\ \/ s.pc = "auditing"
                 \/ /\ s.pc = "counting"
                    /\ \E i \in DOMAIN entries : /\ entries[i].dec = s.dec
                                                 /\ entries[i].sizing = s.sizing
                 \/ /\ s.pc = "patching" => /\ s.at \in DOMAIN entries
                                            /\ s.row = entries[s.at] /\ s.row.dec = s.dec
                    /\ s.pc # "counting" /\ auto[a].pc \in Past
                    /\ s.dec = auto[a].dec /\ s.sizing = auto[a].sizing
        BY <2>1 DEF Thinks
      <3>2. ASSUME s.pc \in Past, NEW i \in DOMAIN entries', entries'[i].dec = s.dec
            PROVE  entries'[i].sizing = s.sizing
        <4>1. CASE s.pc = "counting"
          BY <3>1, <3>2, <4>1 DEF IdsOnce, OneRow
        <4>2. CASE s.pc # "counting"
          <5>1. auto[a].pc \in Past /\ s.dec = auto[a].dec /\ s.sizing = auto[a].sizing
            BY <3>1, <3>2, <4>2 DEF Past
          <5>2. QED
            BY <3>2, <5>1, HeldAgrees
        <4>3. QED
          BY <4>1, <4>2
      <3>3. ASSUME s.pc = "patching"
            PROVE  /\ s.row.dec = s.dec /\ s.row.sizing = s.sizing
                   /\ entries'[s.at] = s.row
        <4>1. /\ s.at \in DOMAIN entries /\ s.row = entries[s.at] /\ s.row.dec = s.dec
              /\ s.pc \in Past
          BY <3>1, <3>3 DEF Past
        <4>2. QED
          BY <3>1, <3>2, <4>1
      <3>4. QED
        BY <1>4, <3>1, <3>2, <3>3
    <2>2. CASE Buys(a) \/ AutoPatchWrite(a)
      <3>1. PICK s \in AutoStates :
              /\ auto' = [auto EXCEPT ![a] = s] /\ s.pc # "patching"
              /\ auto[a].pc \in Past /\ s.dec = auto[a].dec /\ s.sizing = auto[a].sizing
        <4>1. CASE AutoPatchWrite(a)
          <5>1. auto[a].pc \in Past
            BY <4>1 DEF AutoPatchWrite, Past
          <5>2. QED
            BY <4>1, <5>1, PatchFacts DEF Patches
        <4>2. QED
          BY <2>2, <4>1 DEF Buys
      <3>2. ASSUME NEW i \in DOMAIN entries', entries'[i].dec = s.dec
            PROVE  entries'[i].sizing = s.sizing
        BY <3>1, <3>2, HeldAgrees
      <3>3. QED
        BY <1>4, <3>1, <3>2
    <2>3. CASE LosesOrder(a) \/ Reports(a)
      <3>1. PICK s \in AutoStates : auto' = [auto EXCEPT ![a] = s] /\ s.pc \notin Past
        BY <2>3 DEF LosesOrder, Reports, Past
      <3>2. s.pc # "patching"
        BY <3>1 DEF Past
      <3>3. QED
        BY <1>4, <3>1, <3>2
    <2>4. QED
      BY <1>5, <2>1, <2>2, <2>3, CallKinds
  <1>6. QED
    BY <1>3, <1>5 DEF CoreNext, coreVars

\* The invariant holds at the start.
LEMMA StoryInit == CoreInit => StoryInv
  <1> SUFFICES ASSUME CoreInit PROVE StoryInv
    OBVIOUS
  <1>1. ClocksBehind
    BY OnceInit DEF CoreInit, OnceInv
  <1>2. /\ entries = <<>> /\ orders = <<>> /\ undone = {}
        /\ auto = [a \in Callers |-> Quiet] /\ eval = [e \in Evaluators |-> Resting]
    BY DEF CoreInit, Init, JournalInit, AutoInit, ExitInit
  <1>3. /\ \A a \in Callers : auto[a].pc = "idle"
        /\ \A e \in Evaluators : eval[e].todo = {}
    BY <1>2, QuietHolds DEF Resting
  <1>4. Agreed /\ RowsSound /\ OrdersKept /\ TodoBought
    BY <1>2, <1>3 DEF Agreed, RowsSound, OrdersKept, TodoBought, Past
  <1>5. QED
    BY <1>1, <1>4, GuardInvInit DEF StoryInv

\* Every step keeps it.
LEMMA StoryInvStep ==
    ASSUME MaxAttempts = 1
    PROVE  StoryInv /\ [CoreNext]_coreVars => StoryInv'
  <1> SUFFICES ASSUME StoryInv, [CoreNext]_coreVars PROVE StoryInv'
    OBVIOUS
  <1>1. GuardInv'
    BY GuardInvStep DEF StoryInv
  <1>2. RowsFollow /\ OrderStep
    BY CoreFollows
  <1>3. Agreed'
    BY <1>1, <1>2, AgreedStep DEF GuardInv, IdsOnce
  <1>4. RowsSound' /\ OrdersKept' /\ TodoBought'
    BY <1>2, RowsSoundStep, OrdersKeptStep, TodoGrows, TodoStep
       DEF StoryInv, GuardInv, CoreTypes
  <1>5. ClocksBehind'
    <2>1. ASSUME [Next]_vars PROVE ClocksBehind'
      BY <2>1, ClocksStep DEF StoryInv, GuardInv, CoreTypes
    <2>2. ASSUME UNCHANGED <<now, req>> PROVE ClocksBehind'
      BY <2>2 DEF StoryInv, ClocksBehind
    <2>3. ASSUME NEW a \in Callers, AutoStep(a) PROVE ClocksBehind'
      BY <2>2, <2>3, CallKinds DEF StoryInv, GuardInv
    <2>4. ASSUME NEW e \in Evaluators, Evaluate(e) PROVE ClocksBehind'
      BY <2>2, <2>4, EvaluateFacts DEF StoryInv, GuardInv, EvalRests, EvalSells
    <2>5. QED
      BY <2>1, <2>3, <2>4 DEF CoreNext, coreVars
  <1>6. QED
    BY <1>1, <1>3, <1>4, <1>5 DEF StoryInv

\* No decision is bought twice, by a human, by auto-execute or by both, unless a
\* patch has undone what was committed to its row.
THEOREM CoreBuysOnce ==
    ASSUME MaxAttempts = 1 PROVE CoreSpec => []OneBuyUnlessUndone
  <1>1. StoryInv => OneBuyUnlessUndone
    <2> SUFFICES ASSUME StoryInv, NEW o \in DOMAIN orders \ lost,
                        NEW p \in DOMAIN orders \ lost, orders[o] = orders[p],
                        orders[o] \notin undone
                 PROVE  o = p
      BY DEF OneBuyUnlessUndone
    <2>1. PICK i \in DOMAIN entries : entries[i].fill = o /\ entries[i].dec = orders[o]
      BY DEF StoryInv, OrdersKept
    <2>2. PICK j \in DOMAIN entries : entries[j].fill = p /\ entries[j].dec = orders[p]
      BY DEF StoryInv, OrdersKept
    <2>3. i = j
      BY <2>1, <2>2 DEF StoryInv, GuardInv, IdsOnce, OneRow
    <2>4. QED
      BY <2>1, <2>2, <2>3
  <1>2. StoryInv /\ [CoreNext]_coreVars => StoryInv'
    BY StoryInvStep
  <1>3. QED
    BY <1>1, <1>2, StoryInit, PTL DEF CoreSpec

-----------------------------------------------------------------------------
\* The audit trail: a call between its confirm and its audit row is the only
\* one to report a pass for its decision, and no pass is reported yet, unless a
\* patch has undone the row.

Passing(s) == s.pc \in {"confirmed", "auditing"} /\ s.outcome \in Passes

BoughtByAuto(rows, d) ==
    \E i \in DOMAIN rows : /\ rows[i].dec = d
                           /\ rows[i].auto
                           /\ rows[i].fill # 0

PassesUnique ==
    /\ \A a \in Callers : Passing(auto[a]) /\ auto[a].dec \notin undone =>
          /\ BoughtByAuto(entries, auto[a].dec)
          /\ \A k \in DOMAIN audits : audits[k].outcome \in Passes =>
                audits[k].dec # auto[a].dec
    /\ \A a, b \in Callers :
          /\ Passing(auto[a]) /\ Passing(auto[b]) /\ auto[a].dec = auto[b].dec
          /\ auto[a].dec \notin undone
          => a = b
    /\ \A k \in DOMAIN audits : audits[k].outcome \in Passes /\ audits[k].dec \notin undone =>
          BoughtByAuto(entries, audits[k].dec)
    /\ \A k, l \in DOMAIN audits :
          /\ audits[k].outcome \in Passes /\ audits[l].outcome \in Passes
          /\ audits[k].dec = audits[l].dec /\ audits[k].dec \notin undone
          => k = l

\* A purchase by auto-execute is kept, whichever row a step touches.
LEMMA KeptBought ==
    ASSUME RowsSound, RowsFollow, NEW d, d \notin undone', BoughtByAuto(entries, d)
    PROVE  BoughtByAuto(entries', d)
  <1>1. PICK i \in DOMAIN entries : /\ entries[i].dec = d
                                    /\ entries[i].auto
                                    /\ entries[i].fill # 0
    BY DEF BoughtByAuto
  <1>2. /\ i \in DOMAIN entries' /\ entries'[i].dec = d
        /\ entries'[i].auto /\ entries'[i].fill # 0
    BY <1>1, BoughtFollows
  <1>3. QED
    BY <1>2 DEF BoughtByAuto

\* No call comes to report a pass that did not already.
LEMMA PassesKept ==
    ASSUME PassesUnique, RowsSound, RowsFollow, UNCHANGED audits,
           \A a \in Callers : Passing(auto'[a]) =>
              Passing(auto[a]) /\ auto'[a].dec = auto[a].dec
    PROVE  PassesUnique'
  <1>1. undone \subseteq undone'
    BY DEF RowsFollow
  <1>2. ASSUME NEW a \in Callers, Passing(auto'[a]), auto'[a].dec \notin undone'
        PROVE  /\ BoughtByAuto(entries', auto'[a].dec)
               /\ \A k \in DOMAIN audits' : audits'[k].outcome \in Passes =>
                     audits'[k].dec # auto'[a].dec
    <2>1. Passing(auto[a]) /\ auto'[a].dec = auto[a].dec /\ auto[a].dec \notin undone
      BY <1>1, <1>2
    <2>2. BoughtByAuto(entries, auto[a].dec)
      BY <2>1 DEF PassesUnique
    <2>3. BoughtByAuto(entries', auto[a].dec)
      BY <1>2, <2>1, <2>2, KeptBought
    <2>4. QED
      BY <2>1, <2>3 DEF PassesUnique
  <1>3. ASSUME NEW k \in DOMAIN audits', audits'[k].outcome \in Passes,
               audits'[k].dec \notin undone'
        PROVE  BoughtByAuto(entries', audits'[k].dec)
    <2>1. BoughtByAuto(entries, audits[k].dec)
      BY <1>1, <1>3 DEF PassesUnique
    <2>2. QED
      BY <1>3, <2>1, KeptBought
  <1>4. /\ \A a, b \in Callers :
              /\ Passing(auto'[a]) /\ Passing(auto'[b]) /\ auto'[a].dec = auto'[b].dec
              /\ auto'[a].dec \notin undone'
              => a = b
        /\ \A k, l \in DOMAIN audits' :
              /\ audits'[k].outcome \in Passes /\ audits'[l].outcome \in Passes
              /\ audits'[k].dec = audits'[l].dec /\ audits'[k].dec \notin undone'
              => k = l
    BY <1>1 DEF PassesUnique
  <1>5. QED
    BY <1>2, <1>3, <1>4 DEF PassesUnique, Passing

\* The decider, the gate, the bus and the clock write neither exits nor audits.
LEMMA TrailKept == ASSUME TypeOK, [Next]_vars PROVE UNCHANGED <<exits, audits>>
  BY SweepFacts, RequestFacts
     DEF Next, Decider, DecideStart, DecideEnter, DecideReject, Gate, Confirm,
         ConfirmFills, ConfirmRolledBack, Refuse, Reject, SweepStart, Sweep, Tick,
         vars, journal, exitRows

\* A purchase by auto-execute makes its call the only one to report it.
LEMMA PassBought ==
    ASSUME StoryInv, RowsFollow, PassesUnique, NEW a \in Callers, Buys(a)
    PROVE  PassesUnique'
  <1> USE DEF StoryInv, GuardInv
  <1> DEFINE d == auto[a].dec
  <1>1. PICK s \in AutoStates : /\ auto' = [auto EXCEPT ![a] = s]
                                /\ s.pc = "confirmed" /\ s.dec = d
                                /\ s.outcome \in Passes
    BY DEF Buys
  <1>2. d \in Decisions /\ UNCHANGED <<audits, undone>>
    BY DEF Buys, ConfirmFills, exitRows
  <1>3. PICK i \in DOMAIN entries : FillsRow(i, d, TRUE)
    BY <1>2, FillFacts DEF Buys, CoreTypes
  <1>4. BoughtByAuto(entries', d)
    BY <1>3 DEF FillsRow, BoughtByAuto
  <1>5. d \notin undone => ~BoughtByAuto(entries, d)
    BY <1>3 DEF FillsRow, BoughtByAuto, IdsOnce, OneRow, RowsSound, Sound
  <1>6. \A b \in Callers : auto'[b] = IF b = a THEN s ELSE auto[b]
    BY <1>1 DEF CoreTypes, AutoTyped
  <1>7. d \notin undone =>
          /\ \A k \in DOMAIN audits : audits[k].outcome \in Passes => audits[k].dec # d
          /\ \A b \in Callers : Passing(auto[b]) => auto[b].dec # d
    BY <1>5 DEF PassesUnique
  <1> HIDE DEF d
  <1>8. ASSUME NEW b \in Callers, Passing(auto'[b]), auto'[b].dec \notin undone
        PROVE  /\ BoughtByAuto(entries', auto'[b].dec)
               /\ \A k \in DOMAIN audits : audits[k].outcome \in Passes =>
                     audits[k].dec # auto'[b].dec
               /\ b # a => Passing(auto[b]) /\ auto'[b].dec = auto[b].dec /\ auto[b].dec # d
               /\ b = a => auto'[b].dec = d
    <2>1. CASE b = a
      BY <1>1, <1>4, <1>6, <1>7, <1>8, <2>1
    <2>2. CASE b # a
      <3>1. auto'[b] = auto[b]
        BY <1>6, <2>2
      <3>2. Passing(auto[b]) /\ auto[b].dec \notin undone
        BY <1>8, <3>1
      <3>3. /\ BoughtByAuto(entries, auto[b].dec)
            /\ \A k \in DOMAIN audits : audits[k].outcome \in Passes =>
                  audits[k].dec # auto[b].dec
        BY <3>2 DEF PassesUnique
      <3>4. BoughtByAuto(entries', auto[b].dec)
        BY <1>2, <3>2, <3>3, KeptBought
      <3>5. auto[b].dec # d
        BY <1>7, <3>2
      <3>6. QED
        BY <2>2, <3>1, <3>2, <3>3, <3>4, <3>5
    <2>3. QED
      BY <2>1, <2>2
  <1>9. ASSUME NEW k \in DOMAIN audits', audits'[k].outcome \in Passes,
               audits'[k].dec \notin undone'
        PROVE  BoughtByAuto(entries', audits'[k].dec)
    <2>1. BoughtByAuto(entries, audits[k].dec)
      BY <1>2, <1>9 DEF PassesUnique
    <2>2. QED
      BY <1>2, <1>9, <2>1, KeptBought
  <1>10. ASSUME NEW b \in Callers, NEW c \in Callers, Passing(auto'[b]), Passing(auto'[c]),
                auto'[b].dec = auto'[c].dec, auto'[b].dec \notin undone'
         PROVE  b = c
    BY <1>2, <1>8, <1>10 DEF PassesUnique
  <1>11. QED
    BY <1>2, <1>8, <1>9, <1>10 DEF PassesUnique, Passing

\* The audit row of a pass is written by the call that reported it.
LEMMA PassAudited ==
    ASSUME StoryInv, RowsFollow, PassesUnique, NEW a \in Callers, Reports(a)
    PROVE  PassesUnique'
  <1> USE DEF StoryInv, GuardInv
  <1>1. PICK s \in AutoStates :
          /\ auto' = [auto EXCEPT ![a] = s] /\ s.pc \notin Past
          /\ s.pc = "auditing" => /\ auto[a].pc = "confirmed"
                                  /\ s.dec = auto[a].dec /\ s.outcome = auto[a].outcome
          /\ \/ audits' = audits
             \/ /\ auto[a].pc = "auditing" /\ s.pc = "announcing"
                /\ audits' = Append(audits, [dec |-> auto[a].dec,
                                             outcome |-> auto[a].outcome])
    BY DEF Reports
  <1>2. UNCHANGED <<entries, undone>>
    BY DEF Reports
  <1>3. \A b \in Callers : auto'[b] = IF b = a THEN s ELSE auto[b]
    BY <1>1 DEF CoreTypes, AutoTyped
  <1>4. ASSUME NEW b \in Callers, Passing(auto'[b])
        PROVE  Passing(auto[b]) /\ auto'[b].dec = auto[b].dec
    BY <1>1, <1>3, <1>4 DEF Passing, Past
  <1>5. CASE audits' = audits
    BY <1>4, <1>5, PassesKept
  <1>6. CASE /\ auto[a].pc = "auditing" /\ s.pc = "announcing"
             /\ audits' = Append(audits, [dec |-> auto[a].dec, outcome |-> auto[a].outcome])
    <2> DEFINE d == auto[a].dec
               n == Len(audits)
    <2>1. d \in Decisions /\ auto[a].outcome \in Breakers \cup Passes
      BY <1>6 DEF CoreTypes, AutoTyped, Holds
    <2>2. /\ DOMAIN audits = 1..n /\ n \in Nat
          /\ DOMAIN audits' = 1..(n + 1)
          /\ \A k \in DOMAIN audits : audits'[k] = audits[k]
          /\ audits'[n + 1].dec = d /\ audits'[n + 1].outcome = auto[a].outcome
      BY <1>6, <2>1, AuditType DEF CoreTypes
    <2>3. auto[a].outcome \in Passes => Passing(auto[a])
      BY <1>6 DEF Passing
    <2>4. \A b \in Callers : Passing(auto'[b]) => b # a
      BY <1>3, <1>6 DEF Passing
    <2>5. auto[a].outcome \in Passes /\ d \notin undone =>
             /\ BoughtByAuto(entries, d)
             /\ \A k \in DOMAIN audits : audits[k].outcome \in Passes => audits[k].dec # d
             /\ \A b \in Callers : Passing(auto'[b]) => auto'[b].dec # d
      BY <1>4, <2>3, <2>4 DEF PassesUnique
    <2> HIDE DEF d, n
    <2>6. ASSUME NEW b \in Callers, Passing(auto'[b]), auto'[b].dec \notin undone'
          PROVE  /\ BoughtByAuto(entries', auto'[b].dec)
                 /\ \A k \in DOMAIN audits' : audits'[k].outcome \in Passes =>
                       audits'[k].dec # auto'[b].dec
      <3>1. Passing(auto[b]) /\ auto'[b].dec = auto[b].dec /\ auto[b].dec \notin undone
        BY <1>2, <1>4, <2>6
      <3>2. BoughtByAuto(entries, auto[b].dec)
        BY <3>1 DEF PassesUnique
      <3>3. \A k \in DOMAIN audits : audits[k].outcome \in Passes => audits[k].dec # auto'[b].dec
        BY <3>1 DEF PassesUnique
      <3>4. \A k \in DOMAIN audits' : audits'[k].outcome \in Passes =>
               audits'[k].dec # auto'[b].dec
        BY <2>2, <2>5, <2>6, <3>1, <3>3
      <3>5. QED
        BY <1>2, <3>1, <3>2, <3>4
    <2>7. ASSUME NEW k \in DOMAIN audits', audits'[k].outcome \in Passes,
                 audits'[k].dec \notin undone'
          PROVE  BoughtByAuto(entries', audits'[k].dec)
      <3>1. BoughtByAuto(entries, audits'[k].dec)
        BY <1>2, <2>2, <2>5, <2>7 DEF PassesUnique
      <3>2. QED
        BY <1>2, <3>1
    <2>8. \A k, l \in DOMAIN audits' :
             /\ audits'[k].outcome \in Passes /\ audits'[l].outcome \in Passes
             /\ audits'[k].dec = audits'[l].dec /\ audits'[k].dec \notin undone'
             => k = l
      BY <1>2, <2>2, <2>5 DEF PassesUnique
    <2>9. \A b, c \in Callers :
             /\ Passing(auto'[b]) /\ Passing(auto'[c]) /\ auto'[b].dec = auto'[c].dec
             /\ auto'[b].dec \notin undone'
             => b = c
      BY <1>2, <1>4 DEF PassesUnique
    <2>10. QED
      BY <2>6, <2>7, <2>8, <2>9 DEF PassesUnique, Passing
  <1>7. QED
    BY <1>1, <1>5, <1>6

\* A call reports a pass only after its own confirm has filled.
LEMMA CallPasses ==
    ASSUME StoryInv, PassesUnique, NEW a \in Callers, AutoStep(a)
    PROVE  PassesUnique'
  <1> USE DEF StoryInv, GuardInv
  <1>1. RowsFollow
    BY CallFollows
  <1>2. ASSUME UNCHANGED audits, NEW s, auto' = [auto EXCEPT ![a] = s], ~Passing(s)
        PROVE  PassesUnique'
    <2>1. \A b \in Callers : auto'[b] = IF b = a THEN s ELSE auto[b]
      BY <1>2 DEF CoreTypes, AutoTyped
    <2>2. \A b \in Callers : Passing(auto'[b]) =>
             Passing(auto[b]) /\ auto'[b].dec = auto[b].dec
      BY <1>2, <2>1
    <2>3. QED
      BY <1>1, <1>2, <2>2, PassesKept
  <1>3. Breakers \cap Passes = {}
    BY DEF Breakers, Passes
  <1>4. CASE Thinks(a)
    BY <1>2, <1>3, <1>4 DEF Thinks, Passing
  <1>5. CASE LosesOrder(a)
    BY <1>2, <1>5 DEF LosesOrder, ConfirmRolledBack, journal, exitRows, Passing
  <1>6. CASE AutoPatchWrite(a)
    BY <1>2, <1>6, PatchFacts DEF Patches, Passing
  <1>7. QED
    BY <1>1, <1>4, <1>5, <1>6, CallKinds, PassBought, PassAudited

\* Every step keeps the audit trail in order.
LEMMA PassesStep ==
    ASSUME StoryInv, PassesUnique, [CoreNext]_coreVars
    PROVE  PassesUnique'
  <1> USE DEF StoryInv, GuardInv
  <1>1. RowsFollow
    BY CoreFollows
  <1>2. ASSUME UNCHANGED <<audits, auto>> PROVE PassesUnique'
    BY <1>1, <1>2, PassesKept
  <1>3. ASSUME [Next]_vars, UNCHANGED auto PROVE PassesUnique'
    BY <1>2, <1>3, TrailKept DEF CoreTypes
  <1>4. ASSUME NEW e \in Evaluators, Evaluate(e), UNCHANGED auto PROVE PassesUnique'
    BY <1>2, <1>4, EvaluateFacts DEF EvalRests, EvalSells, journal, exitRows
  <1>5. CASE UNCHANGED coreVars
    BY <1>3, <1>5 DEF coreVars
  <1>6. CASE CoreNext
    BY <1>3, <1>4, <1>6, CallPasses DEF CoreNext
  <1>7. QED
    BY <1>5, <1>6

\* A pass in the audit trail is a purchase by auto-execute, recorded once, unless
\* a patch has undone its row.
THEOREM PassesHonest ==
    ASSUME MaxAttempts = 1 PROVE CoreSpec => []PassAuditsFollowConfirms
  <1>1. CoreInit => StoryInv /\ PassesUnique
    <2> SUFFICES ASSUME CoreInit PROVE StoryInv /\ PassesUnique
      OBVIOUS
    <2>1. audits = <<>> /\ auto = [a \in Callers |-> Quiet]
      BY DEF CoreInit, Init, JournalInit, AutoInit
    <2>2. \A a \in Callers : auto[a].pc = "idle"
      BY <2>1, QuietHolds
    <2>3. QED
      BY <2>1, <2>2, StoryInit DEF PassesUnique, Passing
  <1>2. StoryInv /\ PassesUnique /\ [CoreNext]_coreVars => StoryInv' /\ PassesUnique'
    BY StoryInvStep, PassesStep
  <1>3. PassesUnique => PassAuditsFollowConfirms
    BY DEF PassesUnique, PassAuditsFollowConfirms, BoughtByAuto
  <1>4. QED
    BY <1>1, <1>2, <1>3, PTL DEF CoreSpec

-----------------------------------------------------------------------------
\* Events in the core: auto-execute and the exit engine announce what they, or
\* a confirm before them, committed.

\* What an evaluation has yet to announce are exit rows.
ExitsQueued ==
    \A e \in Evaluators : \A k \in DOMAIN eval[e].out : eval[e].out[k].type = "exit_journaled"

CoreEvents == StoryInv /\ PassesUnique /\ EventsInv(undone) /\ ExitsQueued

\* What was announced stays true when rows follow: a purchase that is no more
\* belongs to a row that was undone.
LEMMA TruthStays ==
    ASSUME RowsSound, RowsFollow, UNCHANGED Counts, NEW e \in Event, StaysTrue(undone, e)
    PROVE  StaysTrue(undone, e)'
  <1>1. undone \subseteq undone'
    BY DEF RowsFollow
  <1>2. CASE e.type = "order_sent"
    <2>1. CASE e.dec \in undone'
      BY <1>2, <2>1 DEF StaysTrue
    <2>2. CASE e.dec \notin undone'
      <3>1. PICK i \in DOMAIN entries : entries[i].dec = e.dec /\ entries[i].fill # 0
        BY <1>1, <1>2, <2>2 DEF StaysTrue, Announced
      <3>2. /\ i \in DOMAIN entries' /\ entries'[i].dec = e.dec
            /\ entries'[i].fill # 0
        BY <2>2, <3>1, BoughtFollows
      <3>3. QED
        BY <1>2, <3>2 DEF StaysTrue, Announced
    <2>3. QED
      BY <2>1, <2>2
  <1>3. CASE e.type # "order_sent"
    <2>1. HasEntry(e.dec) => HasEntry(e.dec)'
      BY DEF HasEntry, RowsFollow
    <2>2. QED
      BY <1>3, <2>1 DEF StaysTrue, Announced, Counts
  <1>4. QED
    BY <1>2, <1>3

\* A step that leaves the requests alone keeps what was announced, if what it
\* announces itself is true.
LEMMA AnnouncesTruly ==
    ASSUME EventsInv(undone), TypeOK', RowsSound, RowsFollow, UNCHANGED <<req, Counts>>,
           \A e \in emitted' \ emitted : StaysTrue(undone, e)'
    PROVE  EventsInv(undone)'
  <1>1. ASSUME NEW e \in emitted' PROVE StaysTrue(undone, e)'
    BY TruthStays DEF EventsInv, TypeOK
  <1>2. ASSUME NEW v \in Workers, NEW k \in DOMAIN req'[v].out
        PROVE  StaysTrue(undone, req[v].out[k])'
    <2>1. req'[v] = req[v] /\ req[v].out \in Seq(Event)
      BY DEF EventsInv, TypeOK, Requests
    <2>2. req[v].out[k] \in Event /\ StaysTrue(undone, req[v].out[k])
      BY <1>2, <2>1, ElementOfSeq, LenProperties DEF EventsInv
    <2>3. PICK e \in Event : e = req[v].out[k]
      BY <2>2
    <2>4. StaysTrue(undone, e)
      BY <2>2, <2>3
    <2>5. StaysTrue(undone, e)'
      BY <2>4, TruthStays
    <2>6. req'[v].out[k] = e
      BY <2>1, <2>3
    <2>7. QED
      BY <2>5, <2>6 DEF StaysTrue, Announced, HasEntry
  <1>3. QED
    BY <1>1, <1>2 DEF EventsInv

\* Publishing an event adds that event, if anything.
LEMMA PublishAdds ==
    ASSUME NEW e, Publish(e)
    PROVE  \A f \in emitted' \ emitted : f = e
  BY DEF Publish

\* What a call of auto-execute announces: its purchase after its confirm, and
\* what is true anyhow.
LEMMA CallTells ==
    ASSUME CoreEvents, NEW a \in Callers, AutoStep(a), ~AutoPatchWrite(a),
           NEW f \in emitted' \ emitted
    PROVE  StaysTrue(undone, f)'
  <1> USE DEF CoreEvents, StoryInv, GuardInv
  <1>1. CASE AutoSent(a)
    <2>1. /\ auto[a].pc = "confirmed" /\ UNCHANGED entries
          /\ Publish(Msg("order_sent", auto[a].dec))
      BY <1>1 DEF AutoSent, journal
    <2>2. undone' = undone
      BY DEF AutoStep
    <2>3. Passing(auto[a])
      BY <2>1 DEF CoreTypes, AutoTyped, Holds, Passing
    <2>4. f = Msg("order_sent", auto[a].dec)
      BY <2>1, PublishAdds
    <2>5. f.type = "order_sent" /\ f.dec = auto[a].dec
      BY <2>4 DEF Msg
    <2>6. auto[a].dec \in undone \/ BoughtByAuto(entries, f.dec)
      BY <2>3, <2>5 DEF PassesUnique
    <2>7. f.dec \in undone' \/ \E i \in DOMAIN entries' : /\ entries'[i].dec = f.dec
                                                          /\ entries'[i].fill # 0
      BY <2>1, <2>2, <2>5, <2>6 DEF BoughtByAuto
    <2>8. QED
      BY <2>5, <2>7 DEF StaysTrue, Announced
  <1>2. CASE AutoAnnounce(a) \/ AutoWarn(a)
    <2>1. f.type \in {"audit_journaled", "risk_off_triggered"}
      BY <1>2, PublishAdds DEF AutoAnnounce, AutoWarn, Msg
    <2>2. QED
      BY <2>1 DEF StaysTrue, Announced
  <1>3. CASE UNCHANGED emitted
    BY <1>3
  <1>4. QED
    BY <1>1, <1>2, <1>3
       DEF AutoStep, AutoParse, AutoCount, AutoLockout, AutoPatchRead, AutoConfirm,
           AutoAudit, AutoRaise, vars

\* So a call announces nothing but the truth.
LEMMA CallAnnounces ==
    ASSUME CoreEvents, CoreTypes', NEW a \in Callers, AutoStep(a)
    PROVE  EventsInv(undone)'
  <1> USE DEF CoreEvents, StoryInv, GuardInv
  <1>1. TypeOK' /\ UNCHANGED <<req, Counts>>
    <2>1. UNCHANGED Counts
      BY DEF AutoStep, AutoParse, AutoCount, AutoLockout, AutoPatchRead, AutoPatchWrite,
             AutoConfirm, ConfirmFills, ConfirmRolledBack, AutoSent, AutoAudit,
             AutoAnnounce, AutoWarn, AutoRaise, vars, journal, exitRows, Counts
    <2>2. QED
      BY <2>1, CallKinds DEF CoreTypes
  <1>2. \A f \in emitted' \ emitted : StaysTrue(undone, f)'
    <2>1. CASE AutoPatchWrite(a)
      BY <2>1, PatchFacts DEF Patches
    <2>2. QED
      BY <2>1, CallTells
  <1>3. QED
    BY <1>1, <1>2, CallFollows, AnnouncesTruly

\* The only evaluation whose queue a step changes queues the exit row it wrote.
LEMMA ExitsQueuedStep ==
    ASSUME CoreTypes, ExitsQueued, NEW e \in Evaluators, Evaluate(e)
    PROVE  ExitsQueued'
  <1>1. ASSUME NEW s, eval' = [eval EXCEPT ![e] = s],
               \A k \in DOMAIN s.out : s.out[k].type = "exit_journaled"
        PROVE  ExitsQueued'
    <2>1. \A f \in Evaluators : eval'[f] = IF f = e THEN s ELSE eval[f]
      BY <1>1 DEF CoreTypes, EvalTyped
    <2>2. QED
      BY <1>1, <2>1 DEF ExitsQueued
  <1>2. eval[e] \in Evaluations
    BY DEF CoreTypes, EvalTyped
  <1>3. ASSUME NEW scope, EvalStart(e, scope) PROVE ExitsQueued'
    <2> DEFINE s == [Resting EXCEPT !.pc = "evaluating", !.todo = ConfirmedIn(scope),
                                    !.at = now]
    <2>1. eval' = [eval EXCEPT ![e] = s] /\ s.out = <<>>
      BY <1>3 DEF EvalStart, Resting
    <2> HIDE DEF s
    <2>2. \A k \in DOMAIN s.out : s.out[k].type = "exit_journaled"
      BY <2>1
    <2>3. QED
      BY <1>1, <2>1, <2>2
  <1>4. ASSUME EvalPass(e) PROVE ExitsQueued'
    <2>1. PICK i \in eval[e].todo :
             eval' = [eval EXCEPT ![e] = [eval[e] EXCEPT !.todo = eval[e].todo \ {i}]]
      BY <1>4 DEF EvalPass
    <2> DEFINE s == [eval[e] EXCEPT !.todo = eval[e].todo \ {i}]
    <2>2. s.out = eval[e].out
      BY <1>2 DEF Evaluations
    <2>3. eval' = [eval EXCEPT ![e] = s]
      BY <2>1
    <2> HIDE DEF s
    <2>4. QED
      BY <1>1, <2>2, <2>3 DEF ExitsQueued
  <1>5. ASSUME NEW b \in BOOLEAN, EvalClose(e, b) PROVE ExitsQueued'
    <2>1. PICK i \in eval[e].todo :
             eval' = [eval EXCEPT ![e] = [eval[e] EXCEPT !.pc = "emitting",
                            !.todo = eval[e].todo \ {i},
                            !.out = <<Msg("exit_journaled", entries[i].dec)>>]]
      BY <1>5 DEF EvalClose
    <2> DEFINE s == [eval[e] EXCEPT !.pc = "emitting", !.todo = eval[e].todo \ {i},
                            !.out = <<Msg("exit_journaled", entries[i].dec)>>]
    <2>2. s.out = <<Msg("exit_journaled", entries[i].dec)>>
      BY <1>2 DEF Evaluations
    <2>3. eval' = [eval EXCEPT ![e] = s]
      BY <2>1
    <2> HIDE DEF s
    <2>4. \A k \in DOMAIN s.out : s.out[k].type = "exit_journaled"
      BY <2>2 DEF Msg
    <2>5. QED
      BY <1>1, <2>3, <2>4
  <1>6. ASSUME EvalEmit(e) PROVE ExitsQueued'
    <2> DEFINE s == [eval[e] EXCEPT !.pc = "evaluating", !.out = <<>>]
    <2>1. eval' = [eval EXCEPT ![e] = s] /\ s.out = <<>>
      BY <1>2, <1>6 DEF EvalEmit, Evaluations
    <2> HIDE DEF s
    <2>2. \A k \in DOMAIN s.out : s.out[k].type = "exit_journaled"
      BY <2>1
    <2>3. QED
      BY <1>1, <2>1, <2>2
  <1>7. ASSUME EvalEnd(e) PROVE ExitsQueued'
    <2>1. eval' = [eval EXCEPT ![e] = Resting] /\ Resting.out = <<>>
      BY <1>7 DEF EvalEnd, Resting
    <2>2. \A k \in DOMAIN Resting.out : Resting.out[k].type = "exit_journaled"
      BY <2>1
    <2>3. QED
      BY <1>1, <2>1, <2>2
  <1>8. QED
    BY <1>3, <1>4, <1>5, <1>6, <1>7 DEF Evaluate

\* An evaluation announces the exit rows it wrote.
LEMMA EvaluationAnnounces ==
    ASSUME CoreEvents, CoreTypes', NEW e \in Evaluators, Evaluate(e), undone' = undone
    PROVE  EventsInv(undone)'
  <1> USE DEF CoreEvents, StoryInv, GuardInv
  <1>1. TypeOK' /\ UNCHANGED <<req, Counts>>
    BY EvaluateFacts DEF EvalRests, EvalSells, journal, Counts, CoreTypes
  <1>2. \A f \in emitted' \ emitted : f.type = "exit_journaled"
    <2>1. CASE EvalEmit(e)
      <3>1. /\ eval[e].out # <<>> /\ eval[e].out \in Seq(Event)
            /\ Publish(Head(eval[e].out))
        BY <2>1 DEF EvalEmit, CoreTypes, EvalTyped, Evaluations
      <3>2. Head(eval[e].out) = eval[e].out[1] /\ 1 \in DOMAIN eval[e].out
        BY <3>1
      <3>3. QED
        BY <3>1, <3>2, PublishAdds DEF ExitsQueued
    <2>2. CASE ~EvalEmit(e)
      BY <2>2 DEF Evaluate, EvalStart, EvalPass, EvalClose, EvalEnd, vars
    <2>3. QED
      BY <2>1, <2>2
  <1>3. \A f \in emitted' \ emitted : StaysTrue(undone, f)'
    BY <1>2 DEF StaysTrue, Announced
  <1>4. QED
    BY <1>1, <1>3, EvaluationFollows, AnnouncesTruly

\* Every event of the core, whoever emits it, announces what a commit made true
\* and no later step takes back, but for the purchase of a row that was undone.
THEOREM CoreAnnouncesCommits ==
    ASSUME MaxAttempts = 1 PROVE CoreSpec => []EventsStayTrue
  <1>1. CoreInit => CoreEvents
    <2> SUFFICES ASSUME CoreInit PROVE CoreEvents
      OBVIOUS
    <2>1. TypeOK /\ StoryInv
      BY StoryInit, CoreTypesInit DEF CoreTypes
    <2>2. /\ emitted = {} /\ audits = <<>> /\ auto = [a \in Callers |-> Quiet]
          /\ \A w \in Workers : req[w].out = <<>>
          /\ \A e \in Evaluators : eval[e].out = <<>>
      BY RequestFields DEF CoreInit, Init, JournalInit, AutoInit, ExitInit, Resting
    <2>3. \A a \in Callers : auto[a].pc = "idle"
      BY <2>2, QuietHolds
    <2>4. PassesUnique
      BY <2>2, <2>3 DEF PassesUnique, Passing
    <2>5. QED
      BY <2>1, <2>2, <2>4 DEF CoreEvents, EventsInv, ExitsQueued
  <1>2. CoreEvents /\ [CoreNext]_coreVars => CoreEvents'
    <2> SUFFICES ASSUME CoreEvents, [CoreNext]_coreVars PROVE CoreEvents'
      OBVIOUS
    <2>1. StoryInv' /\ PassesUnique' /\ CoreTypes'
      BY StoryInvStep, PassesStep DEF CoreEvents, StoryInv, GuardInv
    <2>2. ASSUME [Next]_vars, UNCHANGED <<undone, eval>>
          PROVE  EventsInv(undone)' /\ ExitsQueued'
      <3>1. PICK X : X = undone
        OBVIOUS
      <3>2. EventsInv(X)
        BY <3>1 DEF CoreEvents
      <3>3. EventsInv(X)'
        BY <2>2, <3>2, EventsStep
      <3>4. QED
        BY <2>2, <3>1, <3>3 DEF CoreEvents, ExitsQueued
    <2>3. ASSUME NEW a \in Callers, AutoStep(a), UNCHANGED eval
          PROVE  EventsInv(undone)' /\ ExitsQueued'
      BY <2>1, <2>3, CallAnnounces DEF CoreEvents, ExitsQueued
    <2>4. ASSUME NEW e \in Evaluators, Evaluate(e), undone' = undone
          PROVE  EventsInv(undone)' /\ ExitsQueued'
      BY <2>1, <2>4, EvaluationAnnounces, ExitsQueuedStep DEF CoreEvents, StoryInv, GuardInv
    <2>5. CASE UNCHANGED coreVars
      BY <2>1, <2>2, <2>5 DEF coreVars, CoreEvents
    <2>6. QED
      BY <2>1, <2>2, <2>3, <2>4, <2>5 DEF CoreNext, CoreEvents
  <1>3. CoreEvents => EventsStayTrue
    BY DEF CoreEvents, EventsInv, EventsStayTrue, StaysTrue
  <1>4. QED
    BY <1>1, <1>2, <1>3, PTL DEF CoreSpec

-----------------------------------------------------------------------------
\* Exit rows.  A sale looks at no status, so evaluations that overlap sell one
\* position several times.  But an evaluation only takes up rows that are not
\* closed yet: the sales of a closed position that are still to come were in
\* flight when it was closed.

SoldFor(d) == \E i \in DOMAIN entries : entries[i].dec = d /\ entries[i].status = "closed"

Selling(d) ==
    {e \in Evaluators : \E i \in eval[e].todo : i \in DOMAIN entries /\ entries[i].dec = d}

SoldInv ==
    \A d \in Decisions \ undone :
        /\ ExitRows(d) # {} <=> SoldFor(d)
        /\ SoldFor(d) =>
              Cardinality(ExitRows(d)) + Cardinality(Selling(d)) <= Cardinality(Evaluators)

\* Statuses that were reached stay, in every step of the decider, the gate,
\* the bus and the clock.
LEMMA BoughtStays ==
    ASSUME RowStep, NEW i \in DOMAIN entries
    PROVE  entries'[i].status = "closed" => entries[i].status = "closed"
  BY DEF RowStep, Edges

\* What is counted is finite.
LEMMA SalesFinite ==
    ASSUME IsFiniteSet(Evaluators), CoreTypes, NEW d
    PROVE  /\ IsFiniteSet(ExitRows(d)) /\ Cardinality(ExitRows(d)) \in Nat
           /\ IsFiniteSet(Selling(d)) /\ Cardinality(Selling(d)) \in Nat
           /\ Cardinality(Selling(d)) <= Cardinality(Evaluators)
           /\ Cardinality(Evaluators) \in Nat
  <1>1. IsFiniteSet(DOMAIN exits)
    <2>1. DOMAIN exits = 1..Len(exits) /\ Len(exits) \in Nat /\ 1 \in Int
      BY LenProperties DEF CoreTypes, TypeOK
    <2>2. QED
      BY <2>1, FS_Interval
  <1>2. ExitRows(d) \subseteq DOMAIN exits /\ Selling(d) \subseteq Evaluators
    BY DEF ExitRows, Selling
  <1>3. QED
    BY <1>1, <1>2, FS_Subset, FS_CardinalityType

\* A closed position is not taken up again.
LEMMA SellingShrinks ==
    ASSUME StoryInv, RowsFollow, [CoreNext]_coreVars, NEW d, SoldFor(d)
    PROVE  Selling(d)' \subseteq Selling(d)
  <1> SUFFICES ASSUME NEW e \in Evaluators, NEW i \in eval'[e].todo,
                      i \in DOMAIN entries', entries'[i].dec = d
               PROVE  i \in eval[e].todo /\ i \in DOMAIN entries /\ entries[i].dec = d
    BY DEF Selling
  <1>1. \/ i \in eval[e].todo
        \/ i \in DOMAIN entries /\ entries[i].status = "confirmed"
    BY TodoGrows
  <1>2. i \in DOMAIN entries
    BY <1>1 DEF StoryInv, TodoBought
  <1>3. entries[i].dec = d
    BY <1>2 DEF RowsFollow
  <1>4. entries[i].status # "confirmed"
    BY <1>2, <1>3 DEF SoldFor, StoryInv, GuardInv, IdsOnce, OneRow
  <1>5. QED
    BY <1>1, <1>2, <1>3, <1>4

\* A step that sells nothing.
LEMMA NothingSold ==
    ASSUME IsFiniteSet(Evaluators), StoryInv, SoldInv, CoreTypes', RowsFollow,
           [CoreNext]_coreVars, UNCHANGED exits,
           \A i \in DOMAIN entries : entries[i].dec \notin undone' =>
              (entries'[i].status = "closed" => entries[i].status = "closed")
    PROVE  SoldInv'
  <1> SUFFICES ASSUME NEW d \in Decisions, d \notin undone'
               PROVE  /\ ExitRows(d)' # {} <=> SoldFor(d)'
                      /\ SoldFor(d)' => Cardinality(ExitRows(d)') + Cardinality(Selling(d)')
                                          <= Cardinality(Evaluators)
    BY DEF SoldInv
  <1>1. d \notin undone /\ CoreTypes
    BY DEF RowsFollow, StoryInv, GuardInv
  <1>2. ExitRows(d)' = ExitRows(d)
    BY DEF ExitRows
  <1>3. SoldFor(d)' => SoldFor(d)
    <2>1. ASSUME NEW i \in DOMAIN entries', entries'[i].dec = d, entries'[i].status = "closed"
          PROVE  SoldFor(d)
      <3>1. i \in DOMAIN entries
        BY <2>1 DEF RowsFollow
      <3>2. entries[i].dec = d /\ entries[i].status = "closed"
        BY <2>1, <3>1 DEF RowsFollow
      <3>3. QED
        BY <3>1, <3>2 DEF SoldFor
    <2>2. QED
      BY <2>1 DEF SoldFor
  <1>4. SoldFor(d) => SoldFor(d)'
    BY DEF SoldFor, RowsFollow, Moved
  <1>5. ASSUME SoldFor(d)
        PROVE  Cardinality(ExitRows(d)') + Cardinality(Selling(d)') <= Cardinality(Evaluators)
    <2>1. Selling(d)' \subseteq Selling(d)
      BY <1>5, SellingShrinks
    <2>2. Cardinality(Selling(d)') <= Cardinality(Selling(d)) /\ Cardinality(Selling(d)') \in Nat
      BY <1>1, <2>1, SalesFinite, FS_Subset, FS_CardinalityType
    <2>3. Cardinality(ExitRows(d)) + Cardinality(Selling(d)) <= Cardinality(Evaluators)
      BY <1>1, <1>5 DEF SoldInv
    <2>4. QED
      BY <1>1, <1>2, <2>2, <2>3, SalesFinite
  <1>6. QED
    BY <1>1, <1>2, <1>3, <1>4, <1>5 DEF SoldInv

\* A sale adds an exit row, and its evaluation has one sale less to come.
LEMMA SaleSold ==
    ASSUME IsFiniteSet(Evaluators), StoryInv, SoldInv, RowsFollow,
           NEW e \in Evaluators, Evaluate(e), EvalSells(e), undone' = undone,
           [CoreNext]_coreVars
    PROVE  SoldInv'
  <1> USE DEF StoryInv, GuardInv
  <1>1. PICK k \in eval[e].todo, x \in ExitRow, s \in Evaluations :
           Sold(e, k, k, x, s) /\ k \in DOMAIN entries
    BY SoldRow
  <1> DEFINE n == Len(exits)
  <1>2. /\ DOMAIN exits = 1..n /\ n \in Nat /\ DOMAIN exits' = 1..(n + 1)
        /\ \A l \in DOMAIN exits : exits'[l] = exits[l]
        /\ exits'[n + 1].dec = entries[k].dec
    BY <1>1, AppendRow DEF Sold, CoreTypes, TypeOK
  <1>3. /\ DOMAIN entries' = DOMAIN entries
        /\ entries'[k].dec = entries[k].dec /\ entries'[k].status = "closed"
        /\ \A j \in DOMAIN entries : j # k => entries'[j] = entries[j]
    BY <1>1, WithStatusFields DEF Sold
  <1>4. \A f \in Evaluators :
           eval'[f].todo = IF f = e THEN eval[e].todo \ {k} ELSE eval[f].todo
    BY <1>1 DEF Sold, CoreTypes, EvalTyped
  <1> HIDE DEF n
  <1>5. \A d : SoldFor(d)' <=> SoldFor(d) \/ d = entries[k].dec
    BY <1>1, <1>3 DEF SoldFor
  <1>6. \A d : ExitRows(d)' = IF d = entries[k].dec THEN ExitRows(d) \cup {n + 1}
                                                    ELSE ExitRows(d)
    BY <1>2 DEF ExitRows
  <1>7. \A d : Selling(d)' \subseteq Selling(d)
    BY <1>3, <1>4 DEF Selling
  <1>8. ASSUME NEW d, d = entries[k].dec
        PROVE  e \in Selling(d) /\ e \notin Selling(d)'
    <2>1. e \in Selling(d)
      BY <1>1, <1>8 DEF Selling
    <2>2. ASSUME NEW i \in eval'[e].todo, i \in DOMAIN entries', entries'[i].dec = d
          PROVE  FALSE
      <3>1. i \in eval[e].todo /\ i # k
        BY <1>4, <2>2
      <3>2. i \in DOMAIN entries /\ entries[i].dec = entries[k].dec
        BY <1>3, <1>8, <2>2, <3>1
      <3>3. QED
        BY <1>1, <3>1, <3>2 DEF IdsOnce, OneRow
    <2>3. QED
      BY <2>1, <2>2 DEF Selling
  <1>9. ASSUME NEW d \in Decisions, d \notin undone'
        PROVE  /\ ExitRows(d)' # {} <=> SoldFor(d)'
               /\ SoldFor(d)' => Cardinality(ExitRows(d)') + Cardinality(Selling(d)')
                                   <= Cardinality(Evaluators)
    <2>1. /\ IsFiniteSet(ExitRows(d)) /\ Cardinality(ExitRows(d)) \in Nat
          /\ IsFiniteSet(Selling(d)) /\ Cardinality(Selling(d)) \in Nat
          /\ Cardinality(Selling(d)) <= Cardinality(Evaluators)
          /\ Cardinality(Evaluators) \in Nat
      BY SalesFinite
    <2>2. /\ ExitRows(d) # {} <=> SoldFor(d)
          /\ SoldFor(d) => Cardinality(ExitRows(d)) + Cardinality(Selling(d))
                             <= Cardinality(Evaluators)
      BY <1>9 DEF SoldInv
    <2>3. CASE d = entries[k].dec
      <3>1. ExitRows(d)' = ExitRows(d) \cup {n + 1} /\ n + 1 \notin ExitRows(d)
        BY <1>2, <1>6, <2>3 DEF ExitRows
      <3>2. Cardinality(ExitRows(d)') = Cardinality(ExitRows(d)) + 1
        <4>1. Cardinality(ExitRows(d) \cup {n + 1}) = Cardinality(ExitRows(d)) + 1
          BY <2>1, <3>1, FS_AddElement
        <4>2. QED
          BY <3>1, <4>1
      <3>3. Selling(d)' \subseteq Selling(d) \ {e} /\ e \in Selling(d)
        BY <1>7, <1>8, <2>3
      <3>4. /\ IsFiniteSet(Selling(d) \ {e})
            /\ Cardinality(Selling(d) \ {e}) = Cardinality(Selling(d)) - 1
        BY <2>1, <3>3, FS_RemoveElement
      <3>5. /\ Cardinality(Selling(d)') <= Cardinality(Selling(d)) - 1
            /\ Cardinality(Selling(d)') \in Nat
        BY <3>3, <3>4, FS_Subset, FS_CardinalityType
      <3>6. ~SoldFor(d) => Cardinality(ExitRows(d)) = 0
        BY <2>2, FS_EmptySet
      <3>7. Cardinality(ExitRows(d)') + Cardinality(Selling(d)') <= Cardinality(Evaluators)
        BY <2>1, <2>2, <3>2, <3>5, <3>6
      <3>8. QED
        BY <1>5, <2>3, <3>1, <3>7
    <2>4. CASE d # entries[k].dec
      <3>1. ExitRows(d)' = ExitRows(d) /\ (SoldFor(d)' <=> SoldFor(d))
        BY <1>5, <1>6, <2>4
      <3>2. /\ Cardinality(Selling(d)') <= Cardinality(Selling(d))
            /\ Cardinality(Selling(d)') \in Nat
        BY <1>7, <2>1, FS_Subset, FS_CardinalityType
      <3>3. QED
        BY <2>1, <2>2, <3>1, <3>2
    <2>5. QED
      BY <2>3, <2>4
  <1>10. QED
    BY <1>9 DEF SoldInv

\* Every step of the core keeps exits and closed rows in step.
LEMMA SoldStep ==
    ASSUME IsFiniteSet(Evaluators), StoryInv, CoreTypes', SoldInv, [CoreNext]_coreVars
    PROVE  SoldInv'
  <1> USE DEF StoryInv, GuardInv
  <1>1. RowsFollow
    BY CoreFollows
  <1>2. ASSUME UNCHANGED <<entries, exits>> PROVE SoldInv'
    BY <1>1, <1>2, NothingSold
  <1>3. ASSUME [Next]_vars PROVE SoldInv'
    <2>1. RowStep /\ UNCHANGED exits
      BY <1>3, RowSteps, TrailKept DEF CoreTypes
    <2>2. QED
      BY <1>1, <2>1, BoughtStays, NothingSold
  <1>4. ASSUME NEW a \in Callers, AutoStep(a) PROVE SoldInv'
    <2>1. CASE Buys(a)
      <3>1. UNCHANGED exits
        BY <2>1 DEF Buys, ConfirmFills, exitRows
      <3>2. PICK i \in DOMAIN entries : FillsRow(i, auto[a].dec, TRUE)
        BY <2>1, FillFacts DEF Buys, CoreTypes
      <3>3. \A j \in DOMAIN entries : entries'[j].status = "closed" =>
                                         entries[j].status = "closed"
        BY <3>2 DEF FillsRow
      <3>4. QED
        BY <1>1, <3>1, <3>3, NothingSold
    <2>2. CASE LosesOrder(a)
      BY <1>2, <2>2 DEF LosesOrder, ConfirmRolledBack, journal, exitRows
    <2>3. CASE AutoPatchWrite(a)
      <3>1. Patches(a)
        BY <2>3, PatchFacts
      <3>2. \A j \in DOMAIN entries : entries[j].dec \notin undone' =>
               (entries'[j].status = "closed" => entries[j].status = "closed")
        BY <3>1 DEF Patches
      <3>3. QED
        BY <1>1, <3>1, <3>2, NothingSold DEF Patches
    <2>4. QED
      BY <1>2, <1>4, <2>1, <2>2, <2>3, CallKinds DEF Thinks, Reports
  <1>5. ASSUME NEW e \in Evaluators, Evaluate(e), undone' = undone PROVE SoldInv'
    <2>1. CASE EvalRests(e)
      BY <1>2, <2>1 DEF EvalRests, journal, exitRows
    <2>2. CASE EvalSells(e)
      BY <1>1, <1>5, <2>2, SaleSold
    <2>3. QED
      BY <1>5, <2>1, <2>2, EvaluateFacts
  <1>6. CASE UNCHANGED coreVars
    BY <1>3, <1>6 DEF coreVars
  <1>7. CASE CoreNext
    BY <1>3, <1>4, <1>5, <1>7 DEF CoreNext
  <1>8. QED
    BY <1>6, <1>7

\* Nothing is sold at the start.
LEMMA SoldInit == CoreInit => SoldInv
  BY DEF CoreInit, Init, JournalInit, SoldInv, SoldFor, ExitRows

\* A position whose row was not undone is closed exactly when it has an exit row,
\* and it has no more of them than evaluations can be in flight together.
THEOREM ClosedOnce ==
    ASSUME MaxAttempts = 1, IsFiniteSet(Evaluators)
    PROVE  CoreSpec => []ClosedIffExited
  <1>1. StoryInv /\ SoldInv => ClosedIffExited
    <2> SUFFICES ASSUME StoryInv, SoldInv, NEW d \in Decisions \ undone
                 PROVE  /\ ExitRows(d) # {} <=> SoldFor(d)
                        /\ Cardinality(ExitRows(d)) <= Cardinality(Evaluators)
      BY DEF ClosedIffExited, SoldFor
    <2>1. /\ Cardinality(ExitRows(d)) \in Nat /\ Cardinality(Selling(d)) \in Nat
          /\ Cardinality(Evaluators) \in Nat
      BY SalesFinite DEF StoryInv, GuardInv
    <2>2. ~SoldFor(d) => Cardinality(ExitRows(d)) = 0
      BY FS_EmptySet DEF SoldInv
    <2>3. QED
      BY <2>1, <2>2 DEF SoldInv
  <1>2. StoryInv /\ SoldInv /\ [CoreNext]_coreVars => StoryInv' /\ SoldInv'
    BY StoryInvStep, SoldStep DEF StoryInv, GuardInv
  <1>3. QED
    BY <1>1, <1>2, StoryInit, SoldInit, PTL DEF CoreSpec

-----------------------------------------------------------------------------
\* The refinement: the stage of a decision is the status of its one row until a
\* patch undoes it, and every step of the core is a move of one decision, an
\* expiry of several, or leaves them where they stand.

StageIn(rows, gone) ==
    [d \in Decisions |->
        IF d \in gone THEN "undone"
        ELSE IF \E i \in DOMAIN rows : rows[i].dec = d
        THEN rows[CHOOSE i \in DOMAIN rows :
                     /\ i \in DOMAIN rows /\ rows[i].dec = d
                     /\ \A j \in DOMAIN rows : rows[j].dec = d => j <= i].status
        ELSE "none"]

\* The stage, as an operator on the rows, before and after a step.
LEMMA StageIsStageIn ==
    Stage = StageIn(entries, undone) /\ Stage' = StageIn(entries', undone')
  BY DEF Stage, StageIn, HasEntry, IsLatest

\* The stage is a function on the decisions.
LEMMA StageShape ==
    /\ Stage = [d \in Decisions |-> Stage[d]]
    /\ Stage' = [d \in Decisions |-> Stage'[d]]
  BY DEF Stage

\* With one row per decision its stage is read off that row.
LEMMA StageFacts ==
    ASSUME NEW rows \in Seq(EntryRow), NEW gone,
           \A i, j \in DOMAIN rows : rows[i].dec = rows[j].dec => i = j
    PROVE  /\ \A i \in DOMAIN rows :
                 /\ rows[i].dec \in Decisions
                 /\ rows[i].dec \notin gone =>
                       StageIn(rows, gone)[rows[i].dec] = rows[i].status
           /\ \A d \in Decisions :
                 /\ d \in gone => StageIn(rows, gone)[d] = "undone"
                 /\ (\A i \in DOMAIN rows : rows[i].dec # d) /\ d \notin gone =>
                       StageIn(rows, gone)[d] = "none"
  <1>1. DOMAIN rows = 1..Len(rows) /\ Len(rows) \in Nat
    BY LenProperties
  <1>2. ASSUME NEW i \in DOMAIN rows
        PROVE  /\ rows[i].dec \in Decisions
               /\ rows[i].dec \notin gone => StageIn(rows, gone)[rows[i].dec] = rows[i].status
    <2> DEFINE Last(k) == /\ k \in DOMAIN rows /\ rows[k].dec = rows[i].dec
                          /\ \A j \in DOMAIN rows : rows[j].dec = rows[i].dec => j <= k
    <2>1. rows[i] \in EntryRow
      BY <1>1, ElementOfSeq
    <2>2. rows[i].dec \in Decisions
      BY <2>1 DEF EntryRow
    <2>3. Last(i) /\ \A k \in DOMAIN rows : Last(k) => k = i
      BY <1>1
    <2>4. (CHOOSE k \in DOMAIN rows : Last(k)) = i
      BY <2>3
    <2>5. QED
      BY <2>2, <2>4 DEF StageIn
  <1>3. QED
    BY <1>2 DEF StageIn

\* What a step does to a decision: one that was undone stays so, and the stage of
\* any other follows its row.
LEMMA StageFollows ==
    ASSUME TypeOK, TypeOK', OneRow, OneRow', RowsFollow, NEW d \in Decisions
    PROVE  /\ d \in undone => Stage[d] = "undone"
           /\ d \in undone' => Stage'[d] = "undone"
           /\ d \notin undone =>
                /\ \A i \in DOMAIN entries : entries[i].dec = d => Stage[d] = entries[i].status
                /\ (\A i \in DOMAIN entries : entries[i].dec # d) => Stage[d] = "none"
           /\ d \notin undone' =>
                /\ \A i \in DOMAIN entries' : entries'[i].dec = d => Stage'[d] = entries'[i].status
                /\ (\A i \in DOMAIN entries' : entries'[i].dec # d) => Stage'[d] = "none"
  <1>1. entries \in Seq(EntryRow) /\ entries' \in Seq(EntryRow)
    BY DEF TypeOK
  <1>2. /\ \A j, k \in DOMAIN entries : entries[j].dec = entries[k].dec => j = k
        /\ \A j, k \in DOMAIN entries' : entries'[j].dec = entries'[k].dec => j = k
    BY DEF OneRow
  <1>3. /\ d \in undone => Stage[d] = "undone"
        /\ d \notin undone =>
             /\ \A i \in DOMAIN entries : entries[i].dec = d => Stage[d] = entries[i].status
             /\ (\A i \in DOMAIN entries : entries[i].dec # d) => Stage[d] = "none"
    BY <1>1, <1>2, StageFacts, StageIsStageIn
  <1>4. /\ d \in undone' => Stage'[d] = "undone"
        /\ d \notin undone' =>
             /\ \A i \in DOMAIN entries' : entries'[i].dec = d => Stage'[d] = entries'[i].status
             /\ (\A i \in DOMAIN entries' : entries'[i].dec # d) => Stage'[d] = "none"
    BY <1>1, <1>2, StageFacts, StageIsStageIn
  <1>5. QED
    BY <1>3, <1>4

\* A decision whose row stays as it is, or that has none, stays where it stands.
LEMMA StageStays ==
    ASSUME TypeOK, TypeOK', OneRow, OneRow', RowsFollow, NEW d \in Decisions,
           d \in undone' => d \in undone,
           \A i \in DOMAIN entries : entries[i].dec = d => entries'[i].status = entries[i].status,
           \A i \in DOMAIN entries' \ DOMAIN entries : entries'[i].dec # d
    PROVE  Stage'[d] = Stage[d]
  <1>1. undone \subseteq undone'
    BY DEF RowsFollow
  <1>2. CASE d \in undone
    BY <1>1, <1>2, StageFollows
  <1>3. CASE d \notin undone /\ \E i \in DOMAIN entries : entries[i].dec = d
    <2>1. PICK i \in DOMAIN entries : entries[i].dec = d
      BY <1>3
    <2>2. i \in DOMAIN entries' /\ entries'[i].dec = d /\ entries'[i].status = entries[i].status
      BY <2>1 DEF RowsFollow
    <2>3. QED
      BY <1>3, <2>1, <2>2, StageFollows
  <1>4. CASE d \notin undone /\ \A i \in DOMAIN entries : entries[i].dec # d
    <2>1. \A i \in DOMAIN entries' : entries'[i].dec # d
      BY <1>4 DEF RowsFollow
    <2>2. QED
      BY <1>4, <2>1, StageFollows
  <1>5. QED
    BY <1>2, <1>3, <1>4

\* One row that moves is one decision that moves, or one that was undone.
LEMMA RowMoves ==
    ASSUME TypeOK, TypeOK', OneRow, OneRow', RowsFollow, undone' = undone,
           NEW i, NEW from, NEW to, OneRowMoves(i, from, to)
    PROVE  /\ entries[i].dec \in Decisions
           /\ Stage' = Stage \/ Decision!Move(entries[i].dec, from, to)
  <1>1. /\ i \in DOMAIN entries /\ entries[i].status = from
        /\ DOMAIN entries' = DOMAIN entries
        /\ entries'[i].dec = entries[i].dec /\ entries'[i].status = to
        /\ \A j \in DOMAIN entries : j # i => entries'[j] = entries[j]
    BY DEF OneRowMoves
  <1> DEFINE d == entries[i].dec
  <1>2. d \in Decisions
    BY <1>1, EntryType DEF EntryRow
  <1>3. \A c \in Decisions \ {d} : Stage'[c] = Stage[c]
    BY <1>1, StageStays
  <1>4. CASE d \in undone
    <2>1. Stage'[d] = Stage[d]
      BY <1>2, <1>4, StageFollows
    <2>2. QED
      BY <1>2, <1>3, <2>1, StageShape
  <1>5. CASE d \notin undone
    <2>1. Stage[d] = from /\ Stage'[d] = to
      BY <1>1, <1>2, <1>5, StageFollows
    <2>2. Stage' = [Stage EXCEPT ![d] = to]
      BY <1>3, <2>1, StageShape
    <2>3. QED
      BY <1>2, <2>1, <2>2 DEF Decision!Move
  <1>6. QED
    BY <1>4, <1>5

\* The sweep moves the decisions of the rows it found due.
LEMMA SweepExpires ==
    ASSUME TypeOK, TypeOK', OneRow, OneRow', RowsFollow, undone' = undone,
           NEW w \in Workers, Sweep(w)
    PROVE  \E D \in SUBSET Decisions : Decision!Expire(D)
  <1> DEFINE due == Due(req[w].at)
             D == {entries[j].dec : j \in due} \ undone
  <1>1. /\ DOMAIN entries' = DOMAIN entries
        /\ \A j \in DOMAIN entries :
             /\ entries'[j].dec = entries[j].dec
             /\ entries'[j].status = IF j \in due THEN "expired" ELSE entries[j].status
    BY SweepMoves
  <1>2. \A j \in due : j \in DOMAIN entries /\ entries[j].status = "pending_confirm"
    BY DEF Due
  <1> HIDE DEF due
  <1>3. ASSUME NEW d \in D PROVE d \in Decisions /\ Stage[d] = "pending_confirm"
    <2>1. PICK j \in due : entries[j].dec = d
      BY <1>3
    <2>2. j \in DOMAIN entries /\ entries[j].status = "pending_confirm"
      BY <1>2
    <2>3. d \in Decisions
      BY <2>1, <2>2, EntryType DEF EntryRow
    <2>4. QED
      BY <1>3, <2>1, <2>2, <2>3, StageFollows
  <1>4. ASSUME NEW d \in Decisions
        PROVE  Stage'[d] = IF d \in D THEN "expired" ELSE Stage[d]
    <2>1. CASE d \in D
      <3>1. PICK j \in due : entries[j].dec = d
        BY <2>1
      <3>2. j \in DOMAIN entries /\ d \notin undone
        BY <1>2, <2>1
      <3>3. j \in DOMAIN entries' /\ entries'[j].dec = d /\ entries'[j].status = "expired"
        BY <1>1, <3>1, <3>2
      <3>4. QED
        BY <2>1, <3>2, <3>3, StageFollows
    <2>2. CASE d \notin D
      <3>1. CASE d \in undone
        BY <2>2, <3>1, StageFollows
      <3>2. CASE d \notin undone
        <4>1. \A j \in DOMAIN entries : entries[j].dec = d =>
                 entries'[j].status = entries[j].status
          BY <1>1, <2>2, <3>2
        <4>2. QED
          BY <1>1, <2>2, <4>1, StageStays
      <3>3. QED
        BY <3>1, <3>2
    <2>3. QED
      BY <2>1, <2>2
  <1> HIDE DEF D
  <1>5. Stage' = [d \in Decisions |-> IF d \in D THEN "expired" ELSE Stage[d]]
    BY <1>4, StageShape
  <1>6. D \in SUBSET Decisions
    BY <1>3
  <1>7. QED
    BY <1>3, <1>5, <1>6 DEF Decision!Expire

\* The decider enters a decision that had no row, so none that was undone.
LEMMA EntryEnters ==
    ASSUME StoryInv, TypeOK', OneRow', RowsFollow, undone' = undone,
           NEW w \in Workers, NEW s \in Sizings, DecideEnter(w, s)
    PROVE  \E d \in Decisions : Decision!Enter(d)
  <1> USE DEF StoryInv, GuardInv, CoreTypes
  <1> DEFINE d == req[w].dec
  <1>1. PICK n \in Nat :
           /\ DOMAIN entries = 1..n /\ DOMAIN entries' = 1..(n + 1)
           /\ \A j \in DOMAIN entries : entries'[j] = entries[j]
           /\ entries'[n + 1].dec = d
           /\ entries'[n + 1].status = "pending_confirm"
    BY EnterFacts
  <1>2. d \in Decisions /\ \A j \in DOMAIN entries : entries[j].dec # d
    BY DEF DecideEnter, TypeOK, IdsOnce, DecidedByOne, HasEntry
  <1>3. d \notin undone /\ OneRow
    BY <1>2 DEF Agreed, IdsOnce
  <1> HIDE DEF d
  <1>4. Stage[d] = "none"
    BY <1>2, <1>3, StageFollows
  <1>5. Stage'[d] = "pending_confirm"
    <2>1. n + 1 \in DOMAIN entries'
      BY <1>1
    <2>2. QED
      BY <1>1, <1>2, <1>3, <2>1, StageFollows
  <1>6. ASSUME NEW c \in Decisions, c # d PROVE Stage'[c] = Stage[c]
    BY <1>1, <1>3, <1>6, StageStays
  <1>7. Stage' = [Stage EXCEPT ![d] = "pending_confirm"]
    BY <1>5, <1>6, StageShape
  <1>8. QED
    BY <1>2, <1>4, <1>7 DEF Decision!Enter, Decision!Move

\* A patch undoes a decision whose row has changed since it was read.
LEMMA PatchUndoes ==
    ASSUME StoryInv, TypeOK', OneRow', RowsFollow, NEW a \in Callers, AutoPatchWrite(a)
    PROVE  [Decision!Next]_Stage
  <1> USE DEF StoryInv, GuardInv, CoreTypes
  <1> DEFINE d == auto[a].dec
             at == auto[a].at
  <1>1. /\ at \in DOMAIN entries /\ entries[at].dec = d
        /\ DOMAIN entries' = DOMAIN entries
        /\ \A j \in DOMAIN entries : j # at => entries'[j] = entries[j]
        /\ \/ undone' = undone /\ entries' = entries
           \/ /\ undone' = undone \cup {d}
              /\ d \in undone \/ entries[at].status # "pending_confirm"
    BY PatchFacts DEF Patches
  <1>2. d \in Decisions /\ entries[at].status \in Statuses /\ OneRow
    BY <1>1, EntryType DEF EntryRow, IdsOnce
  <1>3. \A c \in Decisions \ {d} : Stage'[c] = Stage[c]
    BY <1>1, <1>2, StageStays
  <1>4. CASE UNCHANGED <<entries, undone>>
    BY <1>4, StageIsStageIn
  <1>5. CASE d \in undone
    <2>1. Stage'[d] = Stage[d]
      BY <1>2, <1>5, StageFollows DEF RowsFollow
    <2>2. QED
      BY <1>3, <2>1, StageShape
  <1>6. CASE /\ undone' = undone \cup {d} /\ d \notin undone
             /\ entries[at].status # "pending_confirm"
    <2>1. Stage[d] = entries[at].status /\ Stage'[d] = "undone"
      BY <1>1, <1>2, <1>6, StageFollows
    <2>2. Stage[d] \in {"confirmed", "closed", "rejected", "expired"}
      BY <1>2, <1>6, <2>1 DEF Statuses
    <2>3. Stage' = [Stage EXCEPT ![d] = "undone"]
      BY <1>3, <2>1, StageShape
    <2>4. QED
      BY <1>2, <2>2, <2>3 DEF Decision!Undo, Decision!Next
  <1>7. QED
    BY <1>1, <1>4, <1>5, <1>6

\* Every step of the core is a move of one decision, an expiry of several, or
\* leaves them where they stand.
LEMMA StageStep ==
    ASSUME StoryInv, StoryInv', [CoreNext]_coreVars
    PROVE  [Decision!Next]_Stage
  <1> USE DEF StoryInv, GuardInv
  <1>1. TypeOK /\ TypeOK' /\ OneRow /\ OneRow' /\ RowsFollow
    BY CoreFollows DEF CoreTypes, IdsOnce
  <1>2. CASE UNCHANGED <<entries, undone>>
    BY <1>2, StageIsStageIn
  <1>3. ASSUME NEW i, OneRowMoves(i, "pending_confirm", "confirmed"), undone' = undone
        PROVE  [Decision!Next]_Stage
    BY <1>1, <1>3, RowMoves DEF Decision!Next, Decision!Buy
  <1>4. ASSUME [Next]_vars, undone' = undone PROVE [Decision!Next]_Stage
    <2>1. ASSUME NEW w \in Workers, NEW s \in Sizings, DecideEnter(w, s)
          PROVE  [Decision!Next]_Stage
      BY <1>1, <1>4, <2>1, EntryEnters DEF Decision!Next
    <2>2. ASSUME NEW w \in Workers, NEW d \in Decisions, Confirm(w, d)
          PROVE  [Decision!Next]_Stage
      <3>1. CASE ConfirmFills(d, FALSE)
        BY <1>1, <1>3, <1>4, <3>1, ConfirmFacts
      <3>2. CASE ConfirmRolledBack(d)
        BY <1>2, <1>4, <3>2 DEF ConfirmRolledBack, journal
      <3>3. QED
        BY <2>2, <3>1, <3>2 DEF Confirm
    <2>3. ASSUME NEW w \in Workers, NEW d \in Decisions, Reject(w, d)
          PROVE  [Decision!Next]_Stage
      <3>1. PICK i \in DOMAIN entries : OneRowMoves(i, "pending_confirm", "rejected")
        BY <1>1, <2>3, RejectFacts
      <3>2. QED
        BY <1>1, <1>4, <3>1, RowMoves DEF Decision!Next, Decision!PutAside
    <2>4. ASSUME NEW w \in Workers, Sweep(w) PROVE Decision!Next
      BY <1>1, <1>4, <2>4, SweepExpires DEF Decision!Next
    <2>5. ASSUME NEW w \in Workers, Request(w) PROVE UNCHANGED entries
      BY <1>1, <2>5, RequestFacts DEF journal
    <2>6. QED
      BY <1>2, <1>4, <2>1, <2>2, <2>3, <2>4, <2>5
         DEF Next, Decider, DecideStart, DecideReject, Gate, Refuse, SweepStart,
             Tick, vars, journal
  <1>5. ASSUME NEW a \in Callers, AutoStep(a) PROVE [Decision!Next]_Stage
    <2>1. CASE Buys(a)
      <3>1. PICK i \in DOMAIN entries : FillsRow(i, auto[a].dec, TRUE)
        BY <1>1, <2>1, FillFacts DEF Buys
      <3>2. OneRowMoves(i, "pending_confirm", "confirmed")
        BY <3>1 DEF FillsRow, OneRowMoves
      <3>3. QED
        BY <1>3, <2>1, <3>2 DEF Buys
    <2>2. CASE LosesOrder(a)
      BY <1>2, <2>2 DEF LosesOrder, ConfirmRolledBack, journal
    <2>3. CASE AutoPatchWrite(a)
      BY <1>1, <2>3, PatchUndoes
    <2>4. QED
      BY <1>2, <1>5, <2>1, <2>2, <2>3, CallKinds DEF Thinks, Reports
  <1>6. ASSUME NEW e \in Evaluators, Evaluate(e), undone' = undone
        PROVE  [Decision!Next]_Stage
    <2>1. CASE EvalRests(e)
      BY <1>2, <1>6, <2>1 DEF EvalRests, journal
    <2>2. CASE EvalSells(e)
      <3>1. PICK k \in eval[e].todo, x \in ExitRow, s \in Evaluations :
               /\ Sold(e, k, k, x, s) /\ k \in DOMAIN entries
               /\ entries[k].dec \in undone \/ entries[k].status \in {"confirmed", "closed"}
        BY <2>2, SoldRow
      <3>2. OneRowMoves(k, entries[k].status, "closed")
        BY <3>1, WithStatusFields DEF Sold, OneRowMoves
      <3>3. PICK from : from = entries[k].status
        OBVIOUS
      <3>4. PICK d : d = entries[k].dec
        OBVIOUS
      <3>5. /\ d \in Decisions
            /\ Stage' = Stage \/ Decision!Move(d, from, "closed")
        BY <1>1, <1>6, <3>2, <3>3, <3>4, RowMoves
      <3>6. CASE from = "confirmed"
        BY <3>5, <3>6 DEF Decision!Next, Decision!Sell
      <3>7. CASE from # "confirmed"
        <4>1. Stage'[d] = Stage[d]
          <5>1. /\ k \in DOMAIN entries' /\ entries'[k].dec = d
                /\ entries'[k].status = "closed"
            BY <3>1, <3>4, WithStatusFields DEF Sold
          <5>2. d \in undone \/ from = "closed"
            BY <3>1, <3>3, <3>4, <3>7
          <5>3. QED
            BY <1>1, <1>6, <3>1, <3>3, <3>4, <3>5, <5>1, <5>2, StageFollows
        <4>2. Stage' = Stage
          BY <3>5, <4>1, StageShape DEF Decision!Move
        <4>3. QED
          BY <4>2
      <3>8. QED
        BY <3>6, <3>7
    <2>3. QED
      BY <1>6, <2>1, <2>2, EvaluateFacts
  <1>7. CASE UNCHANGED coreVars
    BY <1>2, <1>7 DEF coreVars, vars, journal
  <1>8. CASE CoreNext
    BY <1>4, <1>5, <1>6, <1>8 DEF CoreNext
  <1>9. QED
    BY <1>7, <1>8

\* The core implements the lifecycle of a decision.
THEOREM CoreImplementsLifecycle ==
    ASSUME MaxAttempts = 1 PROVE CoreSpec => ImplementsLifecycle
  <1>1. CoreInit => Decision!Init
    BY DEF CoreInit, Init, JournalInit, AutoInit, Decision!Init, Stage, HasEntry
  <1>2. StoryInv /\ [CoreNext]_coreVars => StoryInv'
    BY StoryInvStep
  <1>3. StoryInv /\ StoryInv' /\ [CoreNext]_coreVars => [Decision!Next]_Stage
    BY StageStep
  <1>4. QED
    BY <1>1, <1>2, <1>3, StoryInit, PTL DEF CoreSpec, ImplementsLifecycle, Decision!Spec

-----------------------------------------------------------------------------
\* When the LLM never sizes below the system, nothing is clamped: the cap of
\* the decider has done it, and no payload is written back.

Unclamped ==
    /\ \A i \in DOMAIN entries : entries[i].sizing \notin Deviating
    /\ \A a \in Callers : /\ auto[a].pc \notin {"clamping", "patching"}
                          /\ auto[a].pc \in Past => auto[a].sizing \notin Deviating

\* Rows that keep their sizing need no clamping later.
LEMMA KeptUnclamped ==
    ASSUME "below" \notin Sizings, Unclamped, RowsKept
    PROVE  \A i \in DOMAIN entries' : entries'[i].sizing \notin Deviating
  BY DEF Unclamped, RowsKept, Deviating

\* No step brings a sizing that would be clamped.
LEMMA UnclampedStep ==
    ASSUME "below" \notin Sizings, CoreTypes, Unclamped, [CoreNext]_coreVars
    PROVE  Unclamped'
  <1>1. ASSUME RowsKept, UNCHANGED auto PROVE Unclamped'
    BY <1>1, KeptUnclamped DEF Unclamped
  <1>2. ASSUME [Next]_vars, UNCHANGED auto PROVE Unclamped'
    BY <1>1, <1>2, NextKeepsRows DEF CoreTypes
  <1>3. ASSUME NEW e \in Evaluators, Evaluate(e), UNCHANGED auto PROVE Unclamped'
    <2>1. CASE EvalRests(e)
      BY <1>1, <1>3, <2>1 DEF EvalRests, journal, RowsKept
    <2>2. QED
      BY <1>1, <1>3, <2>1, EvaluateFacts, SalesKeepRows
  <1>4. ASSUME NEW a \in Callers, AutoStep(a) PROVE Unclamped'
    <2>1. ~AutoPatchWrite(a)
      BY DEF Unclamped, AutoPatchWrite
    <2>2. PICK s \in AutoStates :
             /\ auto' = [auto EXCEPT ![a] = s]
             /\ s.pc \notin {"clamping", "patching"}
             /\ s.pc \in Past => s.sizing \notin Deviating
      <3>1. CASE Thinks(a)
        <4>1. PICK s \in AutoStates :
                /\ auto' = [auto EXCEPT ![a] = s]
                /\ \/ s.pc = "auditing" /\ s.outcome \in Breakers
                   \/ /\ s.pc = "counting"
                      /\ \E i \in DOMAIN entries : /\ entries[i].dec = s.dec
                                                   /\ entries[i].sizing = s.sizing
                   \/ /\ s.pc \in {"counted", "clamping", "patching", "ready"}
                      /\ s.pc = "clamping" => s.sizing \in Deviating
                      /\ s.pc = "patching" => auto[a].pc = "clamping"
                      /\ auto[a].pc \in Past /\ s.sizing = auto[a].sizing
          BY <3>1 DEF Thinks
        <4>2. s.pc \notin {"clamping", "patching"} /\ (s.pc \in Past => s.sizing \notin Deviating)
          BY <4>1 DEF Unclamped, Past
        <4>3. QED
          BY <4>1, <4>2
      <3>2. CASE Buys(a)
        <4>1. auto[a].sizing \notin Deviating
          BY <3>2 DEF Buys, Unclamped
        <4>2. QED
          BY <3>2, <4>1 DEF Buys
      <3>3. CASE LosesOrder(a) \/ Reports(a)
        BY <3>3 DEF LosesOrder, Reports, Past
      <3>4. QED
        BY <1>4, <2>1, <3>1, <3>2, <3>3, CallKinds
    <2>3. \A b \in Callers : auto'[b] = IF b = a THEN s ELSE auto[b]
      BY <2>2 DEF CoreTypes, AutoTyped
    <2>4. \A i \in DOMAIN entries' : entries'[i].sizing \notin Deviating
      <3>1. CASE UNCHANGED entries
        BY <3>1 DEF Unclamped
      <3>2. CASE Buys(a)
        <4>1. PICK i \in DOMAIN entries : FillsRow(i, auto[a].dec, TRUE)
          BY <3>2, FillFacts DEF Buys, CoreTypes
        <4>2. QED
          BY <4>1 DEF FillsRow, Unclamped
      <3>3. CASE LosesOrder(a)
        BY <3>1, <3>3 DEF LosesOrder, ConfirmRolledBack, journal
      <3>4. QED
        BY <1>4, <2>1, <3>1, <3>2, <3>3, CallKinds DEF Thinks, Reports
    <2>5. QED
      BY <2>2, <2>3, <2>4 DEF Unclamped
  <1>5. CASE UNCHANGED coreVars
    BY <1>2, <1>5 DEF coreVars
  <1>6. CASE CoreNext
    BY <1>2, <1>3, <1>4, <1>6 DEF CoreNext
  <1>7. QED
    BY <1>5, <1>6

-----------------------------------------------------------------------------
\* The daily limit.  It does not hold, but how far it is overrun is bounded: what
\* a second bought up to the limit, only calls that had counted by then can add
\* to.  The invariant counts them together with what they have bought since.
\*
\* This needs rows to keep the second they were bought in, so patches that write
\* back what they read: either there is one call at a time, or none is clamped.

OneCaller == \A a, b \in Callers : a = b

\* What auto-execute bought on the day of t, up to t and afterwards
OnDay(row, t) == row.auto /\ Midnight(row.confirmedAt) = Midnight(t)

UpTo(rows, t) == {i \in DOMAIN rows : OnDay(rows[i], t) /\ rows[i].confirmedAt \leq t}

Afterwards(rows, t) == {i \in DOMAIN rows : OnDay(rows[i], t) /\ rows[i].confirmedAt > t}

\* Calls that have counted and may still buy, on the day of t
CountedPcs == {"counted", "clamping", "patching", "ready"}

Through(calls, clock, t) ==
    {a \in Callers : calls[a].pc \in CountedPcs /\ Midnight(clock) = Midnight(t)}

OverrunAt(t, rows, calls, clock) ==
    clock > t /\ Cardinality(UpTo(rows, t)) >= DailyLimit =>
        Cardinality(Afterwards(rows, t)) + Cardinality(Through(calls, clock, t))
            \leq Cardinality(Callers)

\* A row that is pending is nobody's, and none is bought in a second to come
Unbought(row) == row.status = "pending_confirm" => ~row.auto

Stamped ==
    \A i \in DOMAIN entries : /\ Unbought(entries[i])
                              /\ entries[i].auto => entries[i].confirmedAt \leq now

\* Two versions of a row say the same of who bought it and when
SameStamp(row, other) ==
    /\ row.auto <=> other.auto
    /\ row.auto => row.confirmedAt = other.confirmedAt

\* What a call is about to write back is not outdated in that respect
PatchesFresh ==
    \A a \in Callers : auto[a].pc = "patching" =>
        /\ Unbought(auto[a].row)
        /\ SameStamp(entries[auto[a].at], auto[a].row)

LimitInv ==
    /\ CoreTypes
    /\ Stamped
    /\ PatchesFresh
    /\ "below" \notin Sizings => Unclamped
    /\ \A t \in Time : OverrunAt(t, entries, auto, now)

\* A step that buys nothing for auto-execute
StampsKept ==
    /\ DOMAIN entries \subseteq DOMAIN entries'
    /\ \A i \in DOMAIN entries : /\ Unbought(entries'[i])
                                 /\ SameStamp(entries[i], entries'[i])
    /\ \A i \in DOMAIN entries' \ DOMAIN entries : ~entries'[i].auto

\* and one that buys row i
BuysRow(i) ==
    /\ DOMAIN entries' = DOMAIN entries
    /\ ~entries[i].auto /\ entries'[i].auto /\ entries'[i].confirmedAt = now
    /\ entries'[i].status # "pending_confirm"
    /\ \A j \in DOMAIN entries : j # i => entries'[j] = entries[j]

\* Midnight of a later second is not earlier, and never after the second itself.
LEMMA MidnightRises ==
    ASSUME NEW x \in Nat, NEW y \in Nat, x \leq y
    PROVE  /\ Midnight(x) \in Nat /\ Midnight(y) \in Nat
           /\ Midnight(x) \leq Midnight(y) /\ Midnight(x) \leq x
  <1> DEFINE p == x \div DayLength
             q == y \div DayLength
  <1>1. DayLength \in Nat \ {0}
    BY SettingsAssumption
  <1>2. p \in Nat /\ q \in Nat /\ p * DayLength \leq x
    BY <1>1
  <1>3. p \leq q
    BY <1>1
  <1> HIDE DEF p, q
  <1>4. p * DayLength \in Nat /\ q * DayLength \in Nat /\ p * DayLength \leq q * DayLength
    BY <1>1, <1>2, <1>3
  <1>5. QED
    BY <1>2, <1>4 DEF Midnight, p, q

\* The clock and the seconds rows were bought in are numbers, the rows finitely many.
LEMMA ClockFacts ==
    ASSUME CoreTypes
    PROVE  /\ now \in Nat /\ Time \subseteq Nat
           /\ \A i \in DOMAIN entries : entries[i].confirmedAt \in Nat
           /\ IsFiniteSet(DOMAIN entries)
  <1>1. Time \subseteq Nat /\ now \in Time
    BY BoundsAssumption DEF CoreTypes, TypeOK, Time
  <1>2. ASSUME NEW i \in DOMAIN entries PROVE entries[i].confirmedAt \in Time
    <2>1. entries[i] \in EntryRow
      BY <1>2, EntryType DEF CoreTypes
    <2>2. QED
      BY <2>1 DEF EntryRow
  <1>3. IsFiniteSet(DOMAIN entries)
    <2>1. DOMAIN entries = 1..Len(entries) /\ Len(entries) \in Nat /\ 1 \in Int
      BY LenProperties DEF CoreTypes, TypeOK
    <2>2. IsFiniteSet(1..Len(entries))
      BY <2>1, FS_Interval
    <2>3. QED
      BY <2>1, <2>2
  <1>4. QED
    BY <1>1, <1>2, <1>3

\* What is counted is finite.
LEMMA CountsFinite ==
    ASSUME IsFiniteSet(Callers), NEW rows \in Seq(EntryRow), NEW calls, NEW clock, NEW t
    PROVE  /\ IsFiniteSet(UpTo(rows, t)) /\ IsFiniteSet(Afterwards(rows, t))
           /\ IsFiniteSet(Through(calls, clock, t))
           /\ Cardinality(UpTo(rows, t)) \in Nat /\ Cardinality(Afterwards(rows, t)) \in Nat
           /\ Cardinality(Through(calls, clock, t)) \in Nat /\ Cardinality(Callers) \in Nat
           /\ Cardinality(Through(calls, clock, t)) \leq Cardinality(Callers)
  <1>1. IsFiniteSet(DOMAIN rows)
    <2>1. DOMAIN rows = 1..Len(rows) /\ Len(rows) \in Nat /\ 1 \in Int
      BY LenProperties
    <2>2. QED
      BY <2>1, FS_Interval
  <1>2. UpTo(rows, t) \subseteq DOMAIN rows /\ Afterwards(rows, t) \subseteq DOMAIN rows
        /\ Through(calls, clock, t) \subseteq Callers
    BY DEF UpTo, Afterwards, Through
  <1>3. QED
    BY <1>1, <1>2, FS_Subset, FS_CardinalityType

\* Who bought what, and when, stays: so do the counts.
LEMMA KeptCounts ==
    ASSUME CoreTypes, StampsKept, NEW t
    PROVE  UpTo(entries', t) = UpTo(entries, t) /\ Afterwards(entries', t) = Afterwards(entries, t)
  <1>1. ASSUME NEW i \in DOMAIN entries
        PROVE  /\ OnDay(entries'[i], t) <=> OnDay(entries[i], t)
               /\ OnDay(entries[i], t) => entries'[i].confirmedAt = entries[i].confirmedAt
    BY DEF StampsKept, SameStamp, OnDay
  <1>2. ASSUME NEW i \in DOMAIN entries' \ DOMAIN entries PROVE ~OnDay(entries'[i], t)
    BY DEF StampsKept, OnDay
  <1>3. DOMAIN entries \subseteq DOMAIN entries'
    BY DEF StampsKept
  <1>4. QED
    BY <1>1, <1>2, <1>3 DEF UpTo, Afterwards

\* Nothing is bought and no call gets through that was not: the bound stays.
LEMMA KeptBound ==
    ASSUME IsFiniteSet(Callers), CoreTypes, CoreTypes', StampsKept, now' = now,
           \A b \in Callers : auto'[b].pc \in CountedPcs => auto[b].pc \in CountedPcs,
           NEW t \in Time, OverrunAt(t, entries, auto, now)
    PROVE  OverrunAt(t, entries', auto', now')
  <1>1. UpTo(entries', t) = UpTo(entries, t) /\ Afterwards(entries', t) = Afterwards(entries, t)
    BY KeptCounts
  <1>2. Through(auto', now', t) \subseteq Through(auto, now, t)
    BY DEF Through
  <1>3. Cardinality(Through(auto', now', t)) \leq Cardinality(Through(auto, now, t))
    BY <1>2, CountsFinite, FS_Subset DEF CoreTypes, TypeOK
  <1>4. /\ Cardinality(Afterwards(entries, t)) \in Nat /\ Cardinality(Callers) \in Nat
        /\ Cardinality(Through(auto, now, t)) \in Nat
        /\ Cardinality(Through(auto', now', t)) \in Nat
    BY CountsFinite DEF CoreTypes, TypeOK
  <1>5. QED
    BY <1>1, <1>3, <1>4 DEF OverrunAt

\* A second passes.
LEMMA TickBound ==
    ASSUME IsFiniteSet(Callers), CoreTypes, Stamped, UNCHANGED <<entries, auto>>,
           now' = now + 1, NEW t \in Time, OverrunAt(t, entries, auto, now)
    PROVE  OverrunAt(t, entries', auto', now')
  <1>1. /\ t \in Nat /\ now \in Nat
        /\ \A i \in DOMAIN entries : entries[i].confirmedAt \in Nat
    BY ClockFacts
  <1>2. /\ Cardinality(Afterwards(entries, t)) \in Nat /\ Cardinality(Callers) \in Nat
        /\ Cardinality(Through(auto, now, t)) \in Nat
        /\ Cardinality(Through(auto, now + 1, t)) \in Nat
        /\ Cardinality(Through(auto, now + 1, t)) \leq Cardinality(Callers)
        /\ IsFiniteSet(Through(auto, now, t))
    BY CountsFinite DEF CoreTypes, TypeOK
  <1>3. CASE now > t
    <2>1. Midnight(now + 1) = Midnight(t) => Midnight(now) = Midnight(t)
      BY <1>1, <1>3, MidnightRises
    <2>2. Through(auto, now + 1, t) \subseteq Through(auto, now, t)
      BY <2>1 DEF Through
    <2>3. Cardinality(Through(auto, now + 1, t)) \leq Cardinality(Through(auto, now, t))
      BY <1>2, <2>2, FS_Subset
    <2>4. QED
      BY <1>2, <1>3, <2>3 DEF OverrunAt
  <1>4. CASE now <= t
    <2>1. Afterwards(entries, t) = {}
      BY <1>1, <1>4 DEF Afterwards, Stamped, OnDay
    <2>2. Cardinality(Afterwards(entries, t)) = 0
      BY <2>1, FS_EmptySet
    <2>3. QED
      BY <1>2, <2>2 DEF OverrunAt
  <1>5. QED
    BY <1>1, <1>3, <1>4

\* A call that counts after t counts all that was bought up to t.
LEMMA CountBound ==
    ASSUME IsFiniteSet(Callers), CoreTypes, UNCHANGED <<entries, now>>,
           NEW a \in Callers, ~OverLimit(now),
           \A b \in Callers : b # a => auto'[b] = auto[b],
           NEW t \in Time, OverrunAt(t, entries, auto, now)
    PROVE  OverrunAt(t, entries', auto', now')
  <1>1. /\ t \in Nat /\ now \in Nat /\ DailyLimit \in Nat
        /\ \A i \in DOMAIN entries : entries[i].confirmedAt \in Nat
    BY ClockFacts, SettingsAssumption
  <1>2. SUFFICES ASSUME now > t, Cardinality(UpTo(entries, t)) >= DailyLimit
                 PROVE  OverrunAt(t, entries', auto', now')
    BY DEF OverrunAt
  <1>3. Midnight(now) # Midnight(t)
    <2> SUFFICES ASSUME Midnight(now) = Midnight(t) PROVE FALSE
      OBVIOUS
    <2> DEFINE counted == {i \in DOMAIN entries : /\ entries[i].auto
                                                  /\ entries[i].confirmedAt >= Midnight(now)
                                                  /\ entries[i].confirmedAt < now}
    <2>1. ASSUME NEW i \in UpTo(entries, t) PROVE i \in counted
      <3>1. /\ i \in DOMAIN entries /\ entries[i].auto
            /\ Midnight(entries[i].confirmedAt) = Midnight(now)
            /\ entries[i].confirmedAt \leq t /\ entries[i].confirmedAt \in Nat
        BY <1>1 DEF UpTo, OnDay
      <3>2. Midnight(now) \leq entries[i].confirmedAt
        BY <1>1, <3>1, MidnightRises
      <3>3. Midnight(now) \in Nat
        BY <1>1, MidnightRises
      <3>4. QED
        BY <1>1, <1>2, <3>1, <3>2, <3>3
    <2>2. IsFiniteSet(counted)
      BY ClockFacts, FS_Subset
    <2>3. Cardinality(UpTo(entries, t)) \leq Cardinality(counted)
      BY <2>1, <2>2, FS_Subset
    <2>4. Cardinality(counted) \in Nat /\ Cardinality(UpTo(entries, t)) \in Nat
      BY <2>2, CountsFinite, FS_CardinalityType DEF CoreTypes, TypeOK
    <2>5. ~(Cardinality(counted) >= DailyLimit)
      BY DEF OverLimit, AutoToday
    <2> HIDE DEF counted
    <2>6. QED
      BY <1>1, <1>2, <2>3, <2>4, <2>5
  <1>4. Through(auto, now, t) = {} /\ Through(auto', now', t) = {}
    BY <1>3 DEF Through
  <1>5. QED
    BY <1>2, <1>4 DEF OverrunAt

\* A purchase is of a call that had counted: what it adds it was counted for.
LEMMA BuyBound ==
    ASSUME IsFiniteSet(Callers), CoreTypes, CoreTypes', NEW i \in DOMAIN entries, BuysRow(i),
           now' = now, NEW a \in Callers, auto[a].pc = "ready", auto'[a].pc = "confirmed",
           \A b \in Callers : b # a => auto'[b] = auto[b],
           NEW t \in Time, OverrunAt(t, entries, auto, now)
    PROVE  OverrunAt(t, entries', auto', now')
  <1>1. /\ t \in Nat /\ now \in Nat
        /\ \A j \in DOMAIN entries : entries[j].confirmedAt \in Nat
    BY ClockFacts
  <1>2. /\ Cardinality(Afterwards(entries, t)) \in Nat /\ Cardinality(Callers) \in Nat
        /\ Cardinality(Through(auto, now, t)) \in Nat
        /\ IsFiniteSet(Through(auto, now, t)) /\ IsFiniteSet(Afterwards(entries, t))
    BY CountsFinite DEF CoreTypes, TypeOK
  <1>3. SUFFICES ASSUME now > t PROVE OverrunAt(t, entries', auto', now')
    BY DEF OverrunAt
  <1>4. UpTo(entries', t) = UpTo(entries, t)
    BY <1>1, <1>3 DEF UpTo, OnDay, BuysRow
  <1>5. "ready" \in CountedPcs /\ "confirmed" \notin CountedPcs
    BY DEF CountedPcs
  <1>6. CASE Midnight(now) = Midnight(t)
    <2>1. Afterwards(entries', t) = Afterwards(entries, t) \cup {i}
          /\ i \notin Afterwards(entries, t)
      BY <1>1, <1>3, <1>6 DEF Afterwards, OnDay, BuysRow
    <2>2. Through(auto', now', t) = Through(auto, now, t) \ {a} /\ a \in Through(auto, now, t)
      BY <1>5, <1>6 DEF Through
    <2>3. Cardinality(Afterwards(entries', t)) = Cardinality(Afterwards(entries, t)) + 1
      BY <1>2, <2>1, FS_AddElement
    <2>4. Cardinality(Through(auto', now', t)) = Cardinality(Through(auto, now, t)) - 1
      BY <1>2, <2>2, FS_RemoveElement
    <2>5. QED
      BY <1>2, <1>4, <2>3, <2>4 DEF OverrunAt
  <1>7. CASE Midnight(now) # Midnight(t)
    <2>1. Afterwards(entries', t) = Afterwards(entries, t)
      BY <1>1, <1>7 DEF Afterwards, OnDay, BuysRow
    <2>2. Through(auto', now', t) = Through(auto, now, t)
      BY <1>7 DEF Through
    <2>3. QED
      BY <1>4, <2>1, <2>2 DEF OverrunAt
  <1>8. QED
    BY <1>6, <1>7

\* Steps that keep the rows but for their status buy nothing for auto-execute.
LEMMA RowsKeepStamps ==
    ASSUME Stamped, RowsKept
    PROVE  StampsKept
  <1>1. ASSUME NEW i \in DOMAIN entries
        PROVE  Unbought(entries'[i]) /\ SameStamp(entries[i], entries'[i])
    BY DEF Stamped, RowsKept, Unbought, SameStamp
  <1>2. QED
    BY <1>1 DEF StampsKept, RowsKept

\* Rows that do not change at all are kept, too.
LEMMA SameRowsKeepStamps ==
    ASSUME Stamped, UNCHANGED entries
    PROVE  StampsKept
  BY DEF Stamped, StampsKept, SameStamp

\* A patch writes back the row it read, which says who bought it and when.
LEMMA PatchKeepsStamps ==
    ASSUME CoreTypes, Stamped, PatchesFresh, NEW a \in Callers, AutoPatchWrite(a)
    PROVE  StampsKept
  <1> DEFINE at == auto[a].at
             row == [auto[a].row EXCEPT !.sizing = Clamped(auto[a].sizing)]
  <1>1. /\ auto[a].row \in EntryRow /\ at \in DOMAIN entries /\ entries \in Seq(EntryRow)
        /\ Unbought(auto[a].row) /\ SameStamp(entries[at], auto[a].row)
    BY PatchWriteFacts DEF PatchesFresh, CoreTypes, TypeOK
  <1>2. entries' = [entries EXCEPT ![at] = row]
    BY DEF AutoPatchWrite, SetRow
  <1>3. /\ row.auto = auto[a].row.auto /\ row.confirmedAt = auto[a].row.confirmedAt
        /\ row.status = auto[a].row.status
    BY <1>1 DEF EntryRow
  <1> HIDE DEF at, row
  <1>4. /\ DOMAIN entries' = DOMAIN entries /\ entries'[at] = row
        /\ \A j \in DOMAIN entries : j # at => entries'[j] = entries[j]
    BY <1>1, <1>2
  <1>5. Unbought(row) /\ SameStamp(entries[at], row)
    BY <1>1, <1>3 DEF Unbought, SameStamp
  <1>6. ASSUME NEW i \in DOMAIN entries
        PROVE  Unbought(entries'[i]) /\ SameStamp(entries[i], entries'[i])
    <2>1. CASE i = at
      BY <1>4, <1>5, <2>1
    <2>2. CASE i # at
      BY <1>4, <2>2 DEF Stamped, SameStamp
    <2>3. QED
      BY <2>1, <2>2
  <1>7. QED
    BY <1>4, <1>6 DEF StampsKept

\* What a step of a call does to the rows and to where the call stands.
CallEffect(a, s) ==
    /\ auto' = [auto EXCEPT ![a] = s]
    /\ now' = now
    /\ s.pc = "patching" => /\ s.at \in DOMAIN entries /\ s.row = entries[s.at]
                            /\ UNCHANGED entries
    /\ \/ /\ StampsKept
          /\ s.pc \in CountedPcs => auto[a].pc \in CountedPcs
       \/ UNCHANGED entries /\ s.pc = "counted" /\ ~OverLimit(now)
       \/ /\ auto[a].pc = "ready" /\ s.pc = "confirmed"
          /\ \E i \in DOMAIN entries : BuysRow(i)

\* A confirm by auto-execute buys a row that was nobody's, in this second.
LEMMA FillBuysRow ==
    ASSUME TypeOK, Stamped, NEW d \in Decisions, ConfirmFills(d, TRUE)
    PROVE  \E i \in DOMAIN entries : BuysRow(i)
  <1>1. PICK i \in DOMAIN entries :
           /\ entries[i].status = "pending_confirm"
           /\ SetRow(i, Filled(entries[i], Len(orders) + 1, TRUE))
    BY DEF ConfirmFills, IsPending
  <1>2. entries[i] \in EntryRow /\ entries \in Seq(EntryRow)
    BY EntryType DEF TypeOK
  <1> DEFINE row == Filled(entries[i], Len(orders) + 1, TRUE)
  <1>3. row.auto /\ row.confirmedAt = now /\ row.status = "confirmed"
    BY <1>2 DEF Filled, EntryRow
  <1>4. ~entries[i].auto
    BY <1>1 DEF Stamped, Unbought
  <1> HIDE DEF row
  <1>5. entries' = [entries EXCEPT ![i] = row]
    BY <1>1 DEF SetRow, row
  <1>6. /\ DOMAIN entries' = DOMAIN entries /\ entries'[i] = row
        /\ \A j \in DOMAIN entries : j # i => entries'[j] = entries[j]
    BY <1>2, <1>5
  <1>7. BuysRow(i)
    BY <1>3, <1>4, <1>6 DEF BuysRow
  <1>8. QED
    BY <1>7

\* Every step of a call has that effect.
LEMMA CallEffects ==
    ASSUME CoreTypes, Stamped, PatchesFresh, NEW a \in Callers, AutoStep(a)
    PROVE  \E s \in AutoStates : CallEffect(a, s)
  <1>1. ASSUME UNCHANGED vars PROVE StampsKept /\ UNCHANGED <<entries, now>>
    <2>1. UNCHANGED <<entries, now>>
      BY <1>1 DEF vars, journal
    <2>2. QED
      BY <2>1, SameRowsKeepStamps
  <1>2. ASSUME NEW d \in Decisions, NEW mode \in Modes, AutoParse(a, d, mode)
        PROVE  \E s \in AutoStates : CallEffect(a, s)
    <2>1. PICK s \in AutoStates : /\ auto' = [auto EXCEPT ![a] = s]
                                  /\ s.pc \in {"auditing", "counting"}
                                  /\ UNCHANGED vars
      BY <1>2, ParseFacts
    <2>2. CallEffect(a, s)
      BY <1>1, <2>1 DEF CallEffect, CountedPcs
    <2>3. QED
      BY <2>2
  <1>3. ASSUME AutoCount(a)
        PROVE  \E s \in AutoStates : CallEffect(a, s)
    <2>1. PICK s \in AutoStates : /\ auto' = [auto EXCEPT ![a] = s]
                                  /\ s.pc \in {"auditing", "counted"}
                                  /\ UNCHANGED vars
      BY <1>3, CountFacts DEF CoreTypes
    <2>2. s.pc = "counted" => ~OverLimit(now)
      <3> SUFFICES ASSUME OverLimit(now) PROVE s.pc # "counted"
        OBVIOUS
      <3>1. auto' = [auto EXCEPT ![a].pc = "auditing", ![a].outcome = "daily_limit"]
        BY <1>3 DEF AutoCount, Blocked
      <3>2. auto[a] \in AutoStates /\ auto \in [Callers -> AutoStates]
        BY DEF CoreTypes, AutoTyped
      <3>3. auto'[a].pc = "auditing"
        BY <3>1, <3>2 DEF AutoStates
      <3>4. auto'[a] = s
        BY <2>1, <3>2
      <3>5. QED
        BY <3>3, <3>4
    <2>3. CallEffect(a, s)
      BY <1>1, <2>1, <2>2 DEF CallEffect, CountedPcs
    <2>4. QED
      BY <2>3
  <1>4. ASSUME AutoLockout(a)
        PROVE  \E s \in AutoStates : CallEffect(a, s)
    <2>1. PICK s \in AutoStates : /\ auto' = [auto EXCEPT ![a] = s]
                                  /\ s.pc \in {"auditing", "clamping", "ready"}
                                  /\ UNCHANGED vars
      BY <1>4, LockoutFacts DEF CoreTypes
    <2>2. auto[a].pc \in CountedPcs
      BY <1>4 DEF AutoLockout, CountedPcs
    <2>3. CallEffect(a, s)
      BY <1>1, <2>1, <2>2 DEF CallEffect
    <2>4. QED
      BY <2>3
  <1>5. ASSUME AutoPatchRead(a)
        PROVE  \E s \in AutoStates : CallEffect(a, s)
    <2>1. PICK s \in AutoStates :
             /\ auto' = [auto EXCEPT ![a] = s]
             /\ s.at \in DOMAIN entries /\ s.row = entries[s.at]
             /\ auto[a].pc = "clamping" /\ UNCHANGED vars
      BY <1>5, PatchReadFacts
    <2>2. auto[a].pc \in CountedPcs
      BY <2>1 DEF CountedPcs
    <2>3. CallEffect(a, s)
      BY <1>1, <2>1, <2>2 DEF CallEffect
    <2>4. QED
      BY <2>3
  <1>6. ASSUME AutoPatchWrite(a)
        PROVE  \E s \in AutoStates : CallEffect(a, s)
    <2>1. PICK s \in AutoStates : auto' = [auto EXCEPT ![a] = s] /\ s.pc = "ready"
      BY <1>6, PatchWriteFacts
    <2>2. auto[a].pc \in CountedPcs /\ now' = now
      BY <1>6 DEF AutoPatchWrite, CountedPcs
    <2>3. CallEffect(a, s)
      BY <1>6, <2>1, <2>2, PatchKeepsStamps DEF CallEffect
    <2>4. QED
      BY <2>3
  <1>7. ASSUME AutoConfirm(a)
        PROVE  \E s \in AutoStates : CallEffect(a, s)
    <2>1. PICK s \in AutoStates :
             /\ auto' = [auto EXCEPT ![a] = s]
             /\ auto[a].pc = "ready" /\ auto[a].dec \in Decisions /\ now' = now
             /\ \/ ConfirmFills(auto[a].dec, TRUE) /\ s.pc = "confirmed"
                \/ ConfirmRolledBack(auto[a].dec) /\ s.pc = "idle"
      BY <1>7, AutoConfirmFacts DEF CoreTypes
    <2>2. CASE ConfirmFills(auto[a].dec, TRUE) /\ s.pc = "confirmed"
      <3>1. \E i \in DOMAIN entries : BuysRow(i)
        BY <2>1, <2>2, FillBuysRow DEF CoreTypes
      <3>2. CallEffect(a, s)
        BY <2>1, <2>2, <3>1 DEF CallEffect
      <3>3. QED
        BY <3>2
    <2>3. CASE ConfirmRolledBack(auto[a].dec) /\ s.pc = "idle"
      <3>1. StampsKept
        BY <2>3, SameRowsKeepStamps DEF ConfirmRolledBack, journal
      <3>2. CallEffect(a, s)
        BY <2>1, <2>3, <3>1 DEF CallEffect, CountedPcs
      <3>3. QED
        BY <3>2
    <2>4. QED
      BY <2>1, <2>2, <2>3
  <1>8. ASSUME AutoSent(a) \/ AutoAudit(a) \/ AutoAnnounce(a) \/ AutoWarn(a) \/ AutoRaise(a)
        PROVE  \E s \in AutoStates : CallEffect(a, s)
    <2>1. PICK s \in AutoStates : auto' = [auto EXCEPT ![a] = s] /\ s.pc \notin Past
      BY <1>8, AfterFacts
    <2>2. UNCHANGED <<entries, now>>
      BY <1>8, AfterFacts
    <2>3. s.pc \notin CountedPcs /\ s.pc # "patching"
      BY <2>1 DEF Past, CountedPcs
    <2>4. CallEffect(a, s)
      BY <2>1, <2>2, <2>3, SameRowsKeepStamps DEF CallEffect
    <2>5. QED
      BY <2>4
  <1>9. QED
    BY <1>2, <1>3, <1>4, <1>5, <1>6, <1>7, <1>8 DEF AutoStep

\* Rows are stamped with seconds that have come, whatever the step.
LEMMA StampedStep ==
    ASSUME CoreTypes, Stamped, now' = now \/ now' = now + 1,
           StampsKept \/ \E i \in DOMAIN entries : BuysRow(i)
    PROVE  Stamped'
  <1>1. now' \in Nat /\ now \in Nat /\ now \leq now'
    BY ClockFacts
  <1>2. ASSUME StampsKept PROVE Stamped'
    <2>1. ASSUME NEW i \in DOMAIN entries, entries'[i].auto
          PROVE  entries'[i].confirmedAt \leq now'
      <3>1. entries[i].auto /\ entries'[i].confirmedAt = entries[i].confirmedAt
        BY <1>2, <2>1 DEF StampsKept, SameStamp
      <3>2. entries[i].confirmedAt \in Nat /\ entries[i].confirmedAt \leq now
        BY <3>1, ClockFacts DEF Stamped
      <3>3. QED
        BY <1>1, <3>1, <3>2
    <2>2. QED
      BY <1>2, <2>1 DEF Stamped, StampsKept, Unbought
  <1>3. ASSUME NEW i \in DOMAIN entries, BuysRow(i) PROVE Stamped'
    <2>1. ASSUME NEW j \in DOMAIN entries
          PROVE  /\ Unbought(entries'[j])
                 /\ entries'[j].auto => entries'[j].confirmedAt \leq now'
      <3>1. CASE j = i
        BY <1>1, <1>3, <3>1 DEF BuysRow, Unbought
      <3>2. CASE j # i
        <4>1. entries'[j] = entries[j]
          BY <1>3, <3>2 DEF BuysRow
        <4>2. entries[j].confirmedAt \in Nat
          BY ClockFacts
        <4>3. QED
          BY <1>1, <4>1, <4>2 DEF Stamped
      <3>3. QED
        BY <3>1, <3>2
    <2>2. QED
      BY <1>3, <2>1 DEF Stamped, BuysRow
  <1>4. QED
    BY <1>2, <1>3

\* The clock of the journal moves alone.
LEMMA ClockMoves ==
    ASSUME TypeOK, [Next]_vars
    PROVE  now' = now \/ (now' = now + 1 /\ UNCHANGED entries)
  <1>1. ASSUME NEW w \in Workers, Request(w) PROVE now' = now
    BY <1>1, RequestFacts
  <1>2. ASSUME NEW w \in Workers, Decider(w) PROVE now' = now
    BY <1>2 DEF Decider, DecideStart, DecideEnter, DecideReject
  <1>3. ASSUME NEW w \in Workers, Gate(w) PROVE now' = now
    BY <1>3 DEF Gate, Confirm, Reject, Refuse, SweepStart, Sweep
  <1>4. QED
    BY <1>1, <1>2, <1>3 DEF Next, Tick, vars, journal

\* When no call moves, a patch stays as fresh as it was.
LEMMA PatchesStayFresh ==
    ASSUME CoreTypes, PatchesFresh, StampsKept, UNCHANGED auto
    PROVE  PatchesFresh'
  <1> SUFFICES ASSUME NEW a \in Callers, auto[a].pc = "patching"
               PROVE  Unbought(auto[a].row) /\ SameStamp(entries'[auto[a].at], auto[a].row)
    BY DEF PatchesFresh
  <1>1. /\ auto[a].at \in DOMAIN entries /\ Unbought(auto[a].row)
        /\ SameStamp(entries[auto[a].at], auto[a].row)
    BY DEF CoreTypes, PatchInPlace, PatchesFresh
  <1>2. SameStamp(entries[auto[a].at], entries'[auto[a].at])
    BY <1>1 DEF StampsKept
  <1>3. QED
    BY <1>1, <1>2 DEF SameStamp

\* The only call there is has read what it will write, or there are no patches.
LEMMA CallPatchesFresh ==
    ASSUME CoreTypes, Stamped, NEW a \in Callers, NEW s \in AutoStates, CallEffect(a, s),
           OneCaller \/ Unclamped'
    PROVE  PatchesFresh'
  <1>1. CASE Unclamped'
    BY <1>1 DEF Unclamped, PatchesFresh
  <1>2. CASE OneCaller
    <2> SUFFICES ASSUME NEW b \in Callers, auto'[b].pc = "patching"
                 PROVE  /\ Unbought(auto'[b].row)
                        /\ SameStamp(entries'[auto'[b].at], auto'[b].row)
      BY DEF PatchesFresh
    <2>1. auto'[b] = s
      BY <1>2 DEF OneCaller, CallEffect, CoreTypes, AutoTyped
    <2>2. s.at \in DOMAIN entries /\ s.row = entries[s.at] /\ entries' = entries
      BY <2>1 DEF CallEffect
    <2>3. Unbought(s.row) /\ SameStamp(entries'[s.at], s.row)
      BY <2>2 DEF Stamped, SameStamp
    <2>4. QED
      BY <2>1, <2>3
  <1>3. QED
    BY <1>1, <1>2

\* A step of a call keeps the bound.
LEMMA CallBound ==
    ASSUME IsFiniteSet(Callers), CoreTypes, CoreTypes', Stamped, NEW a \in Callers,
           NEW s \in AutoStates, CallEffect(a, s),
           NEW t \in Time, OverrunAt(t, entries, auto, now)
    PROVE  OverrunAt(t, entries', auto', now')
  <1>1. /\ now' = now /\ auto'[a] = s
        /\ \A b \in Callers : b # a => auto'[b] = auto[b]
    BY DEF CallEffect, CoreTypes, AutoTyped
  <1>2. CASE /\ StampsKept
             /\ s.pc \in CountedPcs => auto[a].pc \in CountedPcs
    <2>1. \A b \in Callers : auto'[b].pc \in CountedPcs => auto[b].pc \in CountedPcs
      BY <1>1, <1>2
    <2>2. QED
      BY <1>1, <1>2, <2>1, KeptBound
  <1>3. CASE UNCHANGED entries /\ s.pc = "counted" /\ ~OverLimit(now)
    BY <1>1, <1>3, CountBound
  <1>4. CASE /\ auto[a].pc = "ready" /\ s.pc = "confirmed"
             /\ \E i \in DOMAIN entries : BuysRow(i)
    BY <1>1, <1>4, BuyBound
  <1>5. QED
    BY <1>2, <1>3, <1>4 DEF CallEffect

\* The invariant holds at the start: nothing is bought yet.
LEMMA LimitInit == ASSUME IsFiniteSet(Callers) PROVE CoreInit => LimitInv
  <1> SUFFICES ASSUME CoreInit PROVE LimitInv
    OBVIOUS
  <1>1. CoreTypes
    BY CoreTypesInit
  <1>2. entries = <<>> /\ auto = [a \in Callers |-> Quiet] /\ now = 0
    BY DEF CoreInit, Init, JournalInit, AutoInit
  <1>3. \A a \in Callers : auto[a].pc = "idle"
    BY <1>2, QuietHolds
  <1>4. Stamped /\ PatchesFresh /\ Unclamped
    BY <1>2, <1>3 DEF Stamped, PatchesFresh, Unclamped, Past
  <1>5. ASSUME NEW t \in Time PROVE OverrunAt(t, entries, auto, now)
    <2>1. t \in Nat
      BY <1>1, ClockFacts
    <2>2. ~(now > t)
      BY <1>2, <2>1
    <2>3. QED
      BY <2>2 DEF OverrunAt
  <1>6. QED
    BY <1>1, <1>4, <1>5 DEF LimitInv

\* Every step keeps it.
LEMMA LimitStep ==
    ASSUME IsFiniteSet(Callers), OneCaller \/ "below" \notin Sizings
    PROVE  LimitInv /\ [CoreNext]_coreVars => LimitInv'
  <1> SUFFICES ASSUME LimitInv, [CoreNext]_coreVars PROVE LimitInv'
    OBVIOUS
  <1>1. CoreTypes /\ CoreTypes' /\ TypeOK /\ Stamped /\ PatchesFresh
    BY CoreTypesStep DEF LimitInv, CoreTypes
  <1>2. "below" \notin Sizings => Unclamped'
    BY <1>1, UnclampedStep DEF LimitInv
  <1>3. ASSUME StampsKept, UNCHANGED auto, now' = now PROVE LimitInv'
    <2>1. Stamped' /\ PatchesFresh'
      BY <1>1, <1>3, StampedStep, PatchesStayFresh
    <2>2. ASSUME NEW t \in Time PROVE OverrunAt(t, entries', auto', now')
      BY <1>1, <1>3, KeptBound DEF LimitInv
    <2>3. QED
      BY <1>1, <1>2, <2>1, <2>2 DEF LimitInv
  <1>4. ASSUME UNCHANGED <<entries, auto>>, now' = now + 1 PROVE LimitInv'
    <2>1. StampsKept
      BY <1>1, <1>4, SameRowsKeepStamps
    <2>2. Stamped' /\ PatchesFresh'
      BY <1>1, <1>4, <2>1, StampedStep, PatchesStayFresh
    <2>3. ASSUME NEW t \in Time PROVE OverrunAt(t, entries', auto', now')
      BY <1>1, <1>4, TickBound DEF LimitInv
    <2>4. QED
      BY <1>1, <1>2, <2>2, <2>3 DEF LimitInv
  <1>5. ASSUME [Next]_vars, UNCHANGED <<auto, eval>> PROVE LimitInv'
    <2>1. StampsKept
      BY <1>1, <1>5, NextKeepsRows, RowsKeepStamps
    <2>2. QED
      BY <1>1, <1>3, <1>4, <1>5, <2>1, ClockMoves
  <1>6. ASSUME NEW a \in Callers, AutoStep(a) PROVE LimitInv'
    <2>1. PICK s \in AutoStates : CallEffect(a, s)
      BY <1>1, <1>6, CallEffects
    <2>2. PatchesFresh'
      BY <1>1, <1>2, <2>1, CallPatchesFresh
    <2>3. Stamped'
      <3>1. now' = now /\ (StampsKept \/ \E i \in DOMAIN entries : BuysRow(i))
        BY <1>1, <2>1, SameRowsKeepStamps DEF CallEffect
      <3>2. QED
        BY <1>1, <3>1, StampedStep
    <2>4. ASSUME NEW t \in Time PROVE OverrunAt(t, entries', auto', now')
      BY <1>1, <2>1, CallBound DEF LimitInv
    <2>5. QED
      BY <1>1, <1>2, <2>2, <2>3, <2>4 DEF LimitInv
  <1>7. ASSUME NEW e \in Evaluators, Evaluate(e), UNCHANGED auto PROVE LimitInv'
    <2>1. RowsKept /\ now' = now
      <3>1. CASE EvalRests(e)
        BY <3>1 DEF EvalRests, journal, RowsKept
      <3>2. CASE EvalSells(e)
        BY <1>1, <3>2, SalesKeepRows DEF EvalSells
      <3>3. QED
        BY <1>1, <1>7, <3>1, <3>2, EvaluateFacts
    <2>2. QED
      BY <1>1, <1>3, <1>7, <2>1, RowsKeepStamps
  <1>8. CASE UNCHANGED coreVars
    <2>1. [Next]_vars /\ UNCHANGED <<auto, eval>>
      BY <1>8 DEF coreVars
    <2>2. QED
      BY <1>5, <2>1
  <1>9. CASE CoreNext
    <2>1. CASE Next /\ UNCHANGED <<auto, eval>>
      BY <1>5, <2>1
    <2>2. QED
      BY <1>6, <1>7, <1>9, <2>1 DEF CoreNext
  <1>10. QED
    BY <1>8, <1>9

\* The daily limit of auto-execute (safety/auto_execute.py:_count_auto_executed_today)
\* is overrun by one entry per call in flight at most, on every day, whatever the
\* calls, the humans beside them and the clock do: a call that counts later counts
\* them all.  With calls that overlap this needs payloads that are not clamped,
\* because a patch that is written back undoes a purchase, and with it the count.
THEOREM OverrunByCallers ==
    ASSUME IsFiniteSet(Callers), OneCaller \/ "below" \notin Sizings
    PROVE  CoreSpec => []LimitOverrunBounded
  <1>1. LimitInv => LimitOverrunBounded
    <2> SUFFICES ASSUME LimitInv PROVE LimitOverrunBounded
      OBVIOUS
    <2>0. ASSUME NEW t \in Time
          PROVE  LET today      == {i \in DOMAIN entries :
                                      /\ entries[i].auto
                                      /\ Midnight(entries[i].confirmedAt) = Midnight(t)}
                     afterwards == {i \in today : entries[i].confirmedAt > t}
                 IN  afterwards = Afterwards(entries, t) /\ today \ afterwards = UpTo(entries, t)
      <3>1. /\ t \in Nat
            /\ \A i \in DOMAIN entries : entries[i].confirmedAt \in Nat
        BY ClockFacts DEF LimitInv
      <3>2. QED
        BY <3>1 DEF Afterwards, UpTo, OnDay
    <2> SUFFICES ASSUME NEW t \in Time, Cardinality(UpTo(entries, t)) >= DailyLimit
                 PROVE  Cardinality(Afterwards(entries, t)) \leq Cardinality(Callers)
      BY <2>0 DEF LimitOverrunBounded
    <2>1. /\ t \in Nat /\ now \in Nat
          /\ \A i \in DOMAIN entries : entries[i].confirmedAt \in Nat
      BY ClockFacts DEF LimitInv
    <2>2. /\ Cardinality(Afterwards(entries, t)) \in Nat /\ Cardinality(Callers) \in Nat
          /\ Cardinality(Through(auto, now, t)) \in Nat
      BY CountsFinite DEF LimitInv, CoreTypes, TypeOK
    <2>3. CASE now > t
      BY <2>2, <2>3 DEF LimitInv, OverrunAt
    <2>4. CASE now <= t
      <3>1. Afterwards(entries, t) = {}
        BY <2>1, <2>4 DEF Afterwards, OnDay, LimitInv, Stamped
      <3>2. Cardinality(Afterwards(entries, t)) = 0
        BY <3>1, FS_EmptySet
      <3>3. QED
        BY <2>2, <3>2
    <2>5. QED
      BY <2>1, <2>3, <2>4
  <1>2. LimitInv /\ [CoreNext]_coreVars => LimitInv'
    BY LimitStep
  <1>3. QED
    BY <1>1, <1>2, LimitInit, PTL DEF CoreSpec

=============================================================================
