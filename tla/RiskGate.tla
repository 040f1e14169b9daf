------------------------------ MODULE RiskGate ------------------------------
(***************************************************************************)
(* The market risk light of the dashboard: conditions that are fulfilled,  *)
(* not fulfilled or unknown, each from a series of the market data, and a  *)
(* colour that is kept for some seconds.                                   *)
(***************************************************************************)
EXTENDS MarketData

CONSTANTS Conditions,   \* in the order they are evaluated
          SeriesFor,    \* the series of a condition, "futures" for futures_fn
          TTL,          \* how long a colour is kept
          MaxClock      \* bound: the monotonic clock

ASSUME RiskGateAssumption ==
    /\ TTL \in Nat \ {0} /\ MaxClock \in Nat
    /\ Conditions \in Seq(DOMAIN SeriesFor)
    /\ \A k \in DOMAIN SeriesFor : SeriesFor[k] \in Series \cup {"futures"}

VARIABLES clock,   \* time.monotonic()
          kept     \* _CACHE: a result by day, with when it was kept

gateVars == <<dataVars, clock, kept>>

NoResult == [stamp |-> 0, began |-> 0, asof |-> 0, status |-> "none"]

GateInit ==
    /\ DataInit
    /\ clock = 0
    /\ kept = [d \in Days |-> NoResult]

-----------------------------------------------------------------------------
Fresh(result, now) == result # NoResult /\ now - result.stamp < TTL

\* evaluate_risk_gate_cached, for today
GateAsk(c) ==
    /\ call[c].pc = "idle" /\ calls < MaxCalls
    /\ calls' = calls + 1
    /\ call' = [call EXCEPT ![c].pc = IF Fresh(kept[today], clock) THEN "answered" ELSE "evaluating",
                            ![c].user = "gate", ![c].since = clock, ![c].asof = today,
                            ![c].answer = IF Fresh(kept[today], clock) THEN kept[today]
                                          ELSE <<>>]
    /\ UNCHANGED <<today, cached, clock, kept>>

Evaluated(c) == Len(call[c].known) = Len(Conditions)

NextSeries(c) == SeriesFor[Conditions[Len(call[c].known) + 1]]

\* A condition of bars calls get_kline
Evaluate(c) ==
    /\ call[c].pc = "evaluating" /\ ~Evaluated(c) /\ NextSeries(c) # "futures"
    /\ call' = [call EXCEPT ![c] = Looking(c, "gate", NextSeries(c), @.asof)]
    /\ UNCHANGED <<today, cached, calls, clock, kept>>

\* _closes: without an answer the condition is unknown
Judge(c, verdict) ==
    /\ call[c].pc = "reading" /\ call[c].user = "gate"
    /\ ~Envelope(c).ok => verdict = "unknown"
    /\ call' = [call EXCEPT ![c] = [Quiet EXCEPT !.pc = "evaluating", !.user = "gate",
                                      !.since = call[c].since, !.asof = call[c].asof,
                                      !.known = Append(call[c].known, verdict)]]
    /\ UNCHANGED <<today, cached, calls, clock, kept>>

\* The futures come from FinMind at every evaluation
JudgeFutures(c, verdict) ==
    /\ call[c].pc = "evaluating" /\ ~Evaluated(c) /\ NextSeries(c) = "futures"
    /\ call' = [call EXCEPT ![c].known = Append(@, verdict)]
    /\ UNCHANGED <<today, cached, calls, clock, kept>>

\* red before yellow before green
Colour(known) ==
    IF \E i \in DOMAIN known : known[i] = "true" THEN "red"
    ELSE IF \E i \in DOMAIN known : known[i] = "unknown" THEN "yellow"
    ELSE "green"

\* Mutant: the clock is read after the evaluation
StampLate(c) == clock

\* Read before it
Stamp(c) == call[c].since

GateStore(c) ==
    LET result == [stamp |-> Stamp(c), began |-> call[c].since, asof |-> call[c].asof,
                   status |-> Colour(call[c].known)]
    IN
    /\ call[c].pc = "evaluating" /\ Evaluated(c)
    /\ kept' = [kept EXCEPT ![call[c].asof] = result]
    /\ call' = [call EXCEPT ![c].pc = "answered", ![c].answer = result, ![c].known = <<>>]
    /\ UNCHANGED <<today, cached, calls, clock>>

Tick ==
    /\ clock < MaxClock
    /\ clock' = clock + 1
    /\ UNCHANGED <<dataVars, kept>>

Verdicts == {"true", "false", "unknown"}

GateNext ==
    \/ DataNext /\ UNCHANGED <<clock, kept>>
    \/ \E c \in Callers :
         \/ GateAsk(c)
         \/ Evaluate(c)
         \/ \E v \in Verdicts : Judge(c, v) \/ JudgeFutures(c, v)
         \/ GateStore(c)
    \/ Tick

GateSpec == GateInit /\ [][GateNext]_gateVars

-----------------------------------------------------------------------------
\* Properties

\* No colour is shown whose evaluation began TTL or longer before it was asked
\* for, or that is of another day, whatever evaluations overlap and in which
\* order they end.
ServedFresh ==
    \A c \in Callers : call[c].pc = "answered" /\ call[c].user = "gate" =>
        /\ call[c].answer.began > call[c].since - TTL
        /\ call[c].answer.asof = call[c].asof

=============================================================================
