---------------------------- MODULE TradingCore ----------------------------
(***************************************************************************)
(* The trading core: decider, confirm gate, auto-execute and exit engine   *)
(* on one journal, each in any number of requests, interleaved at their    *)
(* transactions.                                                           *)
(***************************************************************************)
EXTENDS AutoExecute, ExitEngine

coreVars == <<vars, auto, undone, eval>>

CoreInit == Init /\ AutoInit /\ ExitInit

CoreNext ==
    \/ Next /\ UNCHANGED <<auto, undone, eval>>
    \/ (\E a \in Callers : AutoStep(a)) /\ UNCHANGED eval
    \/ (\E e \in Evaluators : Evaluate(e)) /\ UNCHANGED <<auto, undone>>

CoreSpec == CoreInit /\ [][CoreNext]_coreVars

-----------------------------------------------------------------------------
\* Properties

AutoPcs == {"idle", "counting", "counted", "clamping", "patching", "ready",
            "confirmed", "auditing", "announcing", "warning"}

\* A decision is bought at most once, whatever human requests and auto-execute
\* calls race for it, unless a clamp patch undid what was committed to its row:
\* two orders for any other decision mean that one was lost with its transaction.
OneBuyUnlessUndone ==
    \A o, p \in DOMAIN orders \ lost :
        /\ orders[o] = orders[p]
        /\ orders[o] \notin undone
        => o = p

ExitRows(d) == {k \in DOMAIN exits : exits[k].dec = d}

\* Exit rows and closed positions go together, wherever an evaluation fails and
\* whatever its list of rows has missed: a position whose row was not undone is
\* closed exactly when the journal has an exit row for it, and however often it
\* is evaluated it gets no more of them than evaluations were in flight together.
ClosedIffExited ==
    \A d \in Decisions \ undone :
        /\ ExitRows(d) # {} <=> \E i \in DOMAIN entries : /\ entries[i].dec = d
                                                         /\ entries[i].status = "closed"
        /\ Cardinality(ExitRows(d)) <= Cardinality(Evaluators)

\* "One entry has 0 or 1 matching exits" (journal/repository.py:4).
OneExitPerEntry == \A d \in Decisions : Cardinality(ExitRows(d)) <= 1

\* Nothing was bought with a sizing above the cap of its stage, whoever
\* confirmed it; no entry was bought by auto-execute with a payload a breaker
\* stops, and only calls with the flag on and the simulator as broker get as
\* far as buying.
BreakersRespected ==
    /\ \A i \in DOMAIN entries :
          /\ entries[i].fill # 0 => entries[i].sizing # "above"
          /\ entries[i].auto => entries[i].sizing \notin Blocking
    /\ \A a \in Callers :
          auto[a].pc \in AutoPcs \ {"idle", "auditing", "announcing", "warning"} =>
              auto[a].mode = "sim"

\* A pass in the audit trail means the entry really was bought by auto-execute,
\* and is recorded once, unless the row of the entry was undone; the other way
\* round an audit row can be missing.
PassAuditsFollowConfirms ==
    \A k \in DOMAIN audits :
        /\ audits[k].outcome \in Passes
        /\ audits[k].dec \notin undone
        =>
        /\ \E i \in DOMAIN entries : /\ entries[i].dec = audits[k].dec
                                     /\ entries[i].auto
                                     /\ entries[i].fill # 0
        /\ \A l \in DOMAIN audits :
              /\ audits[l].outcome \in Passes
              /\ audits[l].dec = audits[k].dec
              => l = k

\* Once a second has brought the entries that auto-execute bought on a day up to
\* the limit, at most one more per caller is bought that day: by the calls that
\* had counted by then.  (The limit itself does not hold: a call does not count
\* its own second.)
LimitOverrunBounded ==
    \A t \in Time :
        LET today     == {i \in DOMAIN entries : /\ entries[i].auto
                                                /\ Midnight(entries[i].confirmedAt) = Midnight(t)}
            afterwards == {i \in today : entries[i].confirmedAt > t}
        IN  Cardinality(today \ afterwards) >= DailyLimit
                => Cardinality(afterwards) \leq Cardinality(Callers)

\* The exits of auto-executed entries, and the lockout they call for
AutoExits ==
    LET FromAuto(x) == \E i \in DOMAIN entries : /\ entries[i].dec = x.dec
                                                 /\ entries[i].auto
    IN  SelectSeq(exits, FromAuto)

LockoutDue ==
    LET n == Len(AutoExits) IN
    /\ n >= 3
    /\ \A k \in n-2..n : AutoExits[k].loss
    /\ \E k \in n-2..n : AutoExits[k].at + LockoutTime > now

\* Three losing exits of auto-executed entries in a row stop auto-execute for
\* the lockout time (docs/workflow-cheatsheet.md:469): no call gets past
\* breaker 7 meanwhile.
LockoutHolds ==
    [][\A a \in Callers :
          /\ auto[a].pc = "counted"
          /\ auto'[a].pc \in {"clamping", "ready"}
          => ~LockoutDue]_coreVars

\* Every event of the core, whoever emitted it, announces what a commit made
\* true and no later step takes back; only the purchase an order_sent announced
\* can be undone.
EventsStayTrue ==
    \A e \in emitted :
        Announced(e) \/ (e.type = "order_sent" /\ e.dec \in undone)

\* The stage of a decision is the status of its entry, as long as no patch has
\* undone a change of it
Stage == [d \in Decisions |->
            IF d \in undone THEN "undone"
            ELSE IF HasEntry(d)
            THEN entries[CHOOSE i \in DOMAIN entries : IsLatest(d, i)].status
            ELSE "none"]

Decision == INSTANCE EntryLifecycle WITH stage <- Stage

\* The core implements the lifecycle of a decision (EntryLifecycle).
ImplementsLifecycle == Decision!Spec

=============================================================================
