---------------------------- MODULE ConfirmGate ----------------------------
(***************************************************************************)
(* confirm, reject and sweep_expired: the three ways a pending entry stops *)
(* being pending.  Each body runs inside BEGIN IMMEDIATE ... COMMIT and so *)
(* is one step; the broker is called inside the transaction, so an order   *)
(* can survive the rollback of the row it was for.                         *)
(***************************************************************************)
EXTENDS EntryDecider

Filled(row, order, auto) ==
    [row EXCEPT !.status = "confirmed", !.fill = order, !.auto = auto,
                !.confirmedAt = now]

\* Mutant: the status is not looked at again under the lock
ConfirmFillsAnyStatus(d, auto) ==
    \E i \in DOMAIN entries :
        /\ IsLatest(d, i)
        /\ Len(orders) < MaxOrders
        /\ orders' = Append(orders, d)
        /\ SetRow(i, Filled(entries[i], Len(orders) + 1, auto))
        /\ UNCHANGED <<llmRejects, rejects, expires, costs, exitRows, lost>>

\* The broker fills, the row is updated and the transaction commits
ConfirmFills(d, auto) ==
    \E i \in DOMAIN entries :
        /\ IsPending(d, i)
        /\ Len(orders) < MaxOrders
        /\ orders' = Append(orders, d)
        /\ SetRow(i, Filled(entries[i], Len(orders) + 1, auto))
        /\ UNCHANGED <<llmRejects, rejects, expires, costs, exitRows, lost>>

\* The broker fills, then the update or the commit fails, or the process
\* dies: the row is rolled back, the order is not
ConfirmRolledBack(d) ==
    /\ \E i \in DOMAIN entries : IsPending(d, i)
    /\ Len(orders) < MaxOrders
    /\ orders' = Append(orders, d)
    /\ lost' = lost \cup {Len(orders) + 1}
    /\ UNCHANGED journal

\* Mutant: order_sent goes out before the commit it should follow
ConfirmAnnouncesFirst(w, d) ==
    /\ IsIdle(w)
    /\ ConfirmFills(d, FALSE) \/ ConfirmRolledBack(d)
    /\ req' = [req EXCEPT ![w] = Emitting(<<Msg("order_sent", d)>>)]
    /\ UNCHANGED <<emitted, attempts, now>>

Confirm(w, d) ==
    /\ IsIdle(w)
    /\ \/ /\ ConfirmFills(d, FALSE)
          /\ req' = [req EXCEPT ![w] = Emitting(<<Msg("order_sent", d)>>)]
       \/ /\ ConfirmRolledBack(d)
          /\ req' = [req EXCEPT ![w] = Refused]
    /\ UNCHANGED <<emitted, attempts, now>>

\* not_found and not_pending, or on a pending row payload_invalid,
\* qty_exceeds_notional_limit and broker_failed; a blank reason for reject
Refuse(w) ==
    /\ IsIdle(w)
    /\ req' = [req EXCEPT ![w] = Refused]
    /\ UNCHANGED <<journal, brokerVars, emitted, attempts, now>>

\* Mutant: an entry that was bought can still be rejected
RejectAnyStatus(w, d) ==
    /\ IsIdle(w)
    /\ \E i \in DOMAIN entries :
          /\ IsLatest(d, i)
          /\ SetRow(i, WithStatus(entries[i], "rejected"))
    /\ rejects' = AddRow(rejects, d)
    /\ req' = [req EXCEPT ![w] = Emitting(<<Msg("reject_journaled", d)>>)]
    /\ UNCHANGED <<llmRejects, expires, costs, exitRows, brokerVars, emitted,
                   attempts, now>>

Reject(w, d) ==
    /\ IsIdle(w)
    /\ \E i \in DOMAIN entries :
          /\ IsPending(d, i)
          /\ SetRow(i, WithStatus(entries[i], "rejected"))
    /\ rejects' = AddRow(rejects, d)
    /\ req' = [req EXCEPT ![w] = Emitting(<<Msg("reject_journaled", d)>>)]
    /\ UNCHANGED <<llmRejects, expires, costs, exitRows, brokerVars, emitted, attempts,
                   now>>

\* sweep_expired reads the clock before it asks for the write lock
Sweeping == [Idle EXCEPT !.pc = "sweeping", !.at = now]

SweepStart(w) ==
    /\ IsIdle(w)
    /\ req' = [req EXCEPT ![w] = Sweeping]
    /\ UNCHANGED <<journal, brokerVars, emitted, attempts, now>>

\* Mutants: a second early, a second late, and whatever the status
DueEarly(t) == {i \in DOMAIN entries : /\ entries[i].status = "pending_confirm"
                                       /\ entries[i].created + Timeout <= t}

DueLate(t) == {i \in DOMAIN entries : /\ entries[i].status = "pending_confirm"
                                      /\ entries[i].created + Timeout + 1 < t}

DueAnyStatus(t) == {i \in DOMAIN entries : entries[i].created + Timeout < t}

\* The rows a sweep whose clock read t expires
Due(t) == {i \in DOMAIN entries : /\ entries[i].status = "pending_confirm"
                                  /\ entries[i].created + Timeout < t}

\* One expire row per due row, and the latest row of its decision flipped
Sweep(w) ==
    LET due == Due(req[w].at)
        swept == {entries[i].dec : i \in due}
    IN
    /\ req[w].pc = "sweeping"
    /\ entries' = [j \in DOMAIN entries |->
                     IF entries[j].dec \in swept /\ IsLatest(entries[j].dec, j)
                     THEN WithStatus(entries[j], "expired")
                     ELSE entries[j]]
    /\ expires' = [d \in Decisions |->
                     expires[d] + Cardinality({i \in due : entries[i].dec = d})]
    /\ \E order \in [1..Cardinality(due) -> due] :
          /\ \A i \in due : \E k \in DOMAIN order : order[k] = i
          /\ \A k \in 1..Cardinality(due) - 1 :
                entries[order[k]].created <= entries[order[k+1]].created
          /\ req' = [req EXCEPT ![w] = Emitting(
                        [k \in DOMAIN order |->
                           Msg("expire_journaled", entries[order[k]].dec)])]
    /\ UNCHANGED <<llmRejects, rejects, costs, exitRows, brokerVars, emitted, attempts,
                   now>>

Gate(w) ==
    \/ \E d \in Decisions : Confirm(w, d) \/ Reject(w, d)
    \/ Refuse(w)
    \/ SweepStart(w)
    \/ Sweep(w)

Request(w) == Emit(w) \/ Return(w) \/ Crash(w)

Init == JournalInit

Next ==
    \/ \E w \in Workers : Decider(w) \/ Gate(w) \/ Request(w)
    \/ Tick

Spec == Init /\ [][Next]_vars

-----------------------------------------------------------------------------
\* Properties

\* Every variable has its type.
TypeOK ==
    /\ entries \in Seq(EntryRow)
    /\ llmRejects \in [Decisions -> Nat]
    /\ rejects \in [Decisions -> Nat]
    /\ expires \in [Decisions -> Nat]
    /\ costs \in [Decisions -> Nat]
    /\ exits \in Seq(ExitRow)
    /\ audits \in Seq(AuditRow)
    /\ orders \in Seq(Decisions)
    /\ lost \subseteq DOMAIN orders
    /\ emitted \subseteq Event
    /\ attempts \in [Decisions -> Nat]
    /\ now \in Time
    /\ req \in [Workers -> Requests]
    /\ \A w \in Workers : req[w].pc = "deciding" => req[w].dec \in Decisions

\* Every order the broker took is either the fill of exactly one entry row of
\* the decision it was for, or was lost with a rolled back confirm: racing
\* confirms, rejects and sweeps never buy for a row they do not also update.
OrdersAccounted ==
    /\ \A o \in DOMAIN orders \ lost :
          \E i \in DOMAIN entries : /\ entries[i].fill = o
                                    /\ entries[i].dec = orders[o]
    /\ \A i \in DOMAIN entries : entries[i].fill # 0 =>
          /\ entries[i].fill \in DOMAIN orders \ lost
          /\ \A j \in DOMAIN entries :
                entries[j].fill = entries[i].fill => j = i

\* A decision is bought at most once, whatever races: two orders for one
\* decision mean that one of them was lost with its transaction.  (The
\* decider runs once per decision id: MaxAttempts = 1.)
OneBuyPerDecision ==
    \A o, p \in DOMAIN orders \ lost : orders[o] = orders[p] => o = p

\* The status of a row and its fill agree: a row carries a fill exactly when
\* it is confirmed or closed, so no rejected or expired entry was bought.
FillMatchesStatus ==
    \A i \in DOMAIN entries :
        entries[i].fill # 0 <=> entries[i].status \in {"confirmed", "closed"}

\* The journal tells one story per decision: its rows of the other kinds are
\* exactly those its status calls for (so at most one expire row, as
\* trade-journal-schema/spec.md:241 has it), with one cost row for the decider
\* run that wrote it.
OneStoryPerDecision ==
    \A d \in Decisions :
        LET with(status) == \E i \in DOMAIN entries :
                               /\ entries[i].dec = d
                               /\ entries[i].status = status
            one(P) == IF P THEN 1 ELSE 0
        IN  /\ rejects[d] = one(with("rejected"))
            /\ expires[d] = one(with("expired"))
            /\ costs[d] = llmRejects[d] + one(HasEntry(d))
            /\ HasEntry(d) => llmRejects[d] = 0

\* A row expires only once its timeout has passed, although the sweep
\* compares with a clock it read before it had the write lock.
NoEarlyExpiry ==
    \A i \in DOMAIN entries :
        entries[i].status = "expired" => entries[i].created + Timeout < now

\* What an event announces is in the journal (and, for order_sent, bought)
Announced(e) ==
    CASE e.type \in {"entry_journaled", "awaiting_confirm"} -> HasEntry(e.dec)
      [] e.type = "reject_journaled" -> llmRejects[e.dec] + rejects[e.dec] > 0
      [] e.type = "expire_journaled" -> expires[e.dec] > 0
      [] e.type = "decision_made" -> costs[e.dec] > 0
      [] e.type = "order_sent" ->
            \E i \in DOMAIN entries : /\ entries[i].dec = e.dec
                                      /\ entries[i].fill # 0
      [] OTHER -> TRUE

\* A subscriber can rely on what it is told: every event on the bus announces
\* something already committed (journal/__init__.py emits after the commit).
EventsFollowCommits == \A e \in emitted : Announced(e)

Edges == {<<"pending_confirm", "confirmed">>, <<"pending_confirm", "rejected">>,
          <<"pending_confirm", "expired">>, <<"confirmed", "closed">>}

\* Rows are never removed or reassigned, and a status only moves along the
\* documented lifecycle: rejected, expired and closed are final.
Lifecycle ==
    [][\A i \in DOMAIN entries :
          /\ i \in DOMAIN entries'
          /\ entries'[i].dec = entries[i].dec
          /\ entries'[i].created = entries[i].created
          /\ entries'[i].status # entries[i].status =>
                <<entries[i].status, entries'[i].status>> \in Edges]_vars

\* The clock goes on and a request that is open goes on by itself: the thread
\* pool and the processes run what was called, they may still crash.
FairSpec ==
    /\ Spec
    /\ WF_vars(Tick)
    /\ \A w \in Workers : WF_vars(Emit(w)) /\ WF_vars(Return(w))

\* Nothing in the code calls sweep_expired by itself: the admin page's button,
\* or a scheduled CLI call, has to come again and again
SweptForever == []<><<\E w \in Workers : Sweep(w)>>_vars

\* If sweeps keep being requested and run, no entry stays pending for ever:
\* each one whose timeout passes is confirmed, rejected or expired for good.
PendingResolved ==
    SweptForever =>
        \A i \in 1..Cardinality(Decisions) * MaxAttempts :
            <>[](i \in DOMAIN entries =>
                   \/ entries[i].status # "pending_confirm"
                   \/ entries[i].created + Timeout >= now)

=============================================================================
