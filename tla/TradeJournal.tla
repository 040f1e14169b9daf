---------------------------- MODULE TradeJournal ----------------------------
(***************************************************************************)
(* The state the trading core shares: the journal_entries and llm_costs    *)
(* tables, the broker's order book, the event bus log, the clock and the   *)
(* requests in flight.  Every request (an API call in the thread pool or a *)
(* CLI process) has its own sqlite connection, so a transaction is one     *)
(* step and anything outside a transaction is a step of its own.           *)
(*                                                                         *)
(* Rows with kind='entry' are kept in id order in "entries", because the   *)
(* code reads "the latest entry row" of a decision id.  The rows of the    *)
(* other kinds are never updated; exit and audit rows are kept in id order *)
(* because they are read back, of the rest only their number matters.      *)
(***************************************************************************)
EXTENDS Naturals, Sequences, FiniteSets

CONSTANTS Decisions,    \* decision ids ("dec_<trigger second>_<symbol>")
          Workers,      \* requests that can be in flight together
          Sizings,      \* what the LLM's confidence and sizing can amount to
          MaxClock,     \* bound: last second of the modelled history
          Timeout,      \* confirm timeout, in seconds
          MaxAttempts,  \* bound: decider runs on one decision id
          MaxOrders,    \* bound: orders the broker can take
          Observed      \* event types a bus subscriber listens to

ASSUME BoundsAssumption == 
    /\ MaxClock \in Nat
    /\ Timeout \in Nat \ {0}
    /\ MaxAttempts \in Nat
    /\ MaxOrders \in Nat

Time == 0..MaxClock

Statuses == {"pending_confirm", "confirmed", "closed", "rejected", "expired"}

\* An entry row.  fill is the broker order the row's actual_* fields come
\* from (0: null), confirmedAt is human_confirmed_at (meaningful once filled).
EntryRow == [dec : Decisions, created : Time, status : Statuses,
             sizing : Sizings \cup {"fits"}, fill : Nat, auto : BOOLEAN, confirmedAt : Time]

\* An exit row.  No writer sets the source field that auto-execute reads.
ExitRow == [dec : Decisions, loss : BOOLEAN, at : Time, source : {"null"}]

Breakers == {"flag_off", "live_broker", "low_confidence", "notional_limit",
             "daily_limit", "loss_lockout"}
Passes == {"pass", "sizing_clamped_then_pass"}

AuditRow == [dec : Decisions, outcome : Breakers \cup Passes]

EventTypes == {"entry_journaled", "reject_journaled", "expire_journaled",
               "audit_journaled", "exit_journaled",
               "decision_made", "awaiting_confirm", "order_sent",
               "risk_off_triggered"}

Event == [type : EventTypes, dec : Decisions]

VARIABLES entries,     \* rows kind='entry', by id
          llmRejects,  \* rows kind='reject', reject_layer='llm'
          rejects,     \* rows kind='reject', reject_layer='human'
          expires,     \* rows kind='expire'
          costs,       \* rows of llm_costs
          exits,       \* rows kind='exit', by id
          audits,      \* rows kind='auto_execute_audit', by id
          orders,      \* the decision each order the broker took was for
          lost,        \* orders whose confirm transaction was rolled back
          emitted,     \* events that reached the bus
          attempts,    \* decider runs started, per decision id
          now,         \* the clock, in seconds
          req          \* requests in flight

exitRows == <<exits, audits>>
journal == <<entries, llmRejects, rejects, expires, costs, exitRows>>
brokerVars == <<orders, lost>>
vars == <<journal, brokerVars, emitted, attempts, now, req>>

Idle == [pc |-> "idle", dec |-> <<>>, at |-> 0, out |-> <<>>]

\* A request: where it stands, the decision and the clock value it holds on
\* to between two steps, the events it still has to emit
Requests == [pc : {"idle", "deciding", "sweeping", "emitting", "refused"},
             dec : Decisions \cup {<<>>}, at : Time, out : Seq(Event)]

JournalInit ==
    /\ entries = <<>>
    /\ llmRejects = [d \in Decisions |-> 0]
    /\ rejects = [d \in Decisions |-> 0]
    /\ expires = [d \in Decisions |-> 0]
    /\ costs = [d \in Decisions |-> 0]
    /\ exits = <<>>
    /\ audits = <<>>
    /\ orders = <<>>
    /\ lost = {}
    /\ emitted = {}
    /\ attempts = [d \in Decisions |-> 0]
    /\ now = 0
    /\ req = [w \in Workers |-> Idle]

-----------------------------------------------------------------------------
\* Reading and writing the journal

\* SELECT ... WHERE decision_id=d AND kind='entry' ORDER BY id DESC LIMIT 1
IsLatest(d, i) ==
    /\ i \in DOMAIN entries
    /\ entries[i].dec = d
    /\ \A j \in DOMAIN entries : entries[j].dec = d => j <= i

HasEntry(d) == \E i \in DOMAIN entries : entries[i].dec = d

\* The row both confirm and reject act on
IsPending(d, i) == IsLatest(d, i) /\ entries[i].status = "pending_confirm"

NewEntry(d, t, s) ==
    [dec |-> d, created |-> t, status |-> "pending_confirm", sizing |-> s,
     fill |-> 0, auto |-> FALSE, confirmedAt |-> 0]

AddRow(table, d) == [table EXCEPT ![d] = @ + 1]

\* Payload merge on one row
WithStatus(row, status) == [row EXCEPT !.status = status]

SetRow(i, row) == entries' = [entries EXCEPT ![i] = row]

-----------------------------------------------------------------------------
\* Requests and events

Msg(type, d) == [type |-> type, dec |-> d]

\* What a subscriber gets to see of an event
Publish(e) == emitted' = IF e.type \in Observed THEN emitted \cup {e}
                         ELSE emitted

\* A committed request goes on to emit its events, one by one
Emitting(events) == [Idle EXCEPT !.pc = "emitting", !.out = events]

\* A request that raised: the connection is rolled back, the caller told
Refused == [Idle EXCEPT !.pc = "refused"]

IsIdle(w) == req[w].pc = "idle"

\* safe_emit_sync of the next event, after the commit it announces
Emit(w) ==
    /\ req[w].pc = "emitting"
    /\ req[w].out # <<>>
    /\ Publish(Head(req[w].out))
    /\ req' = [req EXCEPT ![w].out = Tail(@)]
    /\ UNCHANGED <<journal, brokerVars, attempts, now>>

\* The call returns (or raises) to its caller
Return(w) ==
    /\ \/ req[w].pc = "emitting" /\ req[w].out = <<>>
       \/ req[w].pc = "refused"
    /\ req' = [req EXCEPT ![w] = Idle]
    /\ UNCHANGED <<journal, brokerVars, emitted, attempts, now>>

\* The process or thread dies between two steps; sqlite keeps what it
\* committed, the events not yet emitted are gone
Crash(w) ==
    /\ req[w].pc \in {"deciding", "sweeping", "emitting"}
    /\ req' = [req EXCEPT ![w] = Idle]
    /\ UNCHANGED <<journal, brokerVars, emitted, attempts, now>>

Tick ==
    /\ now < MaxClock
    /\ now' = now + 1
    /\ UNCHANGED <<journal, brokerVars, emitted, attempts, req>>

=============================================================================
