------------------------------ MODULE Scoring ------------------------------
(***************************************************************************)
(* score_watchlist: for each symbol of a list the bars and the chip flows, *)
(* the sub-scorers in the order of their names, and a candidate; then the  *)
(* best of them.  One sub-scorer reads or makes the ratings of the day,    *)
(* and one emits an event for a pattern.                                   *)
(***************************************************************************)
EXTENDS RsRatings

CONSTANTS BarsAsked,   \* bars: how many weekdays get_kline is asked for
          Weekend,     \* the days that are Saturdays or Sundays
          FlowOf,      \* the net lots of five days of a symbol, [foreign, trust], or none
          Scans        \* the calls of score_watchlist, valid or not

ASSUME ScoringAssumption ==
    /\ BarsAsked \in Nat \ {0} /\ Weekend \subseteq Days
    /\ FlowOf \in [Symbols -> {<<>>} \cup [foreign : Int, trust : Int]]
    /\ \A scan \in Scans : /\ scan.symbols \in Seq(Symbols) /\ scan.asof \in Days
                           /\ scan.topn \subseteq Int /\ IsFiniteSet(scan.topn)

-----------------------------------------------------------------------------
\* A candidate

\* foreign_5d_net_buy and trust_5d_net_buy; without enough rows they are skipped
NoFlow == <<>>

ForeignFlow(flow) ==
    IF flow = NoFlow THEN Skipped
    ELSE Scored(CASE flow.foreign \leq 0 -> 0
                  [] flow.foreign \in 1..200 -> 1
                  [] flow.foreign \in 201..500 -> 2
                  [] flow.foreign \in 501..1000 -> 3
                  [] flow.foreign > 1000 -> 5)

TrustFlow(flow) ==
    IF flow = NoFlow THEN Skipped
    ELSE Scored(CASE flow.trust \leq 0 -> 0
                  [] flow.trust \in 1..100 -> 1
                  [] flow.trust \in 101..300 -> 2
                  [] flow.trust > 300 -> 4)

\* rs_percentile
RsPoints(rating) ==
    CASE rating = Raised -> Failed
      [] rating = 0 -> Skipped
      [] rating \in 1..64 -> Scored(0)
      [] rating \in 65..79 -> Scored(3)
      [] rating \in 80..89 -> Scored(5)
      [] rating >= 90 -> Scored(7)

\* _run_subscorers; the deferred ones are always skipped
Technical(context, rating) ==
    <<RsPoints(rating), Stage2Confirmed(context.bars), TrendStructureMa(context.bars),
      TrendTemplate8(context.bars), VcpPivot(context.bars), VolumeBreakoutObv(context.bars)>>

Chip(context) == <<ForeignFlow(context.flow), TrustFlow(context.flow)>>

Subtotal(results, cap) ==
    LET points == [i \in DOMAIN results |-> IF results[i].status = "scored" THEN results[i].points ELSE 0]
    IN  Max({0, Min({cap, Sum(points)})})

Classification(final) ==
    CASE final >= 65 -> "green" [] final \in 50..64 -> "yellow" [] final < 50 -> "red"

\* _aggregate and _extract_sepa_fields; a field that is missing is 0
Candidate(symbol, context, rating, riskOff) ==
    LET technical == Technical(context, rating)
        total     == Min({100, Subtotal(technical, 40) + Subtotal(Chip(context), 25)})
        final     == IF riskOff THEN Min({total, 50}) ELSE total
        template  == technical[4]
    IN  [symbol   |-> symbol,
         final    |-> final,
         class    |-> Classification(final),
         stage    |-> IF technical[2].points > 0 THEN 2 ELSE 0,
         rs       |-> IF rating = Raised THEN 0 ELSE rating,
         template |-> IF template.status = "scored"
                      THEN LET passed == Cardinality({i \in 1..7 : TemplateConditions(context.bars)[i]})
                           IN  IF passed = 7 THEN 8 ELSE passed
                      ELSE 0,
         vcp      |-> VcpOf(context.bars)]

-----------------------------------------------------------------------------
\* _validate_inputs
ValidScan(request) == request.symbols # <<>> /\ \A n \in request.topn : n >= 1

Scan(c, request) ==
    /\ Free(c)
    /\ ops' = ops + 1
    /\ op' = [op EXCEPT ![c] =
                IF ~ValidScan(request)
                THEN [Idle EXCEPT !.pc = "answered", !.kind = "scan", !.answer = Refused("INVALID_INPUT")]
                ELSE IF request.resolver = "raises"
                THEN [Idle EXCEPT !.pc = "answered", !.kind = "scan", !.answer = Refused("INTERNAL_ERROR")]
                ELSE [Idle EXCEPT !.pc = "scoring", !.kind = "scan", !.asof = request.asof,
                                  !.request = request, !.rows = <<>>]]
    /\ UNCHANGED <<busVars, roster, bars, ratings>>

\* get_kline's bars: those between the first and the last of the weekdays that are
\* asked for, if none of these is missing
KlineBars(s, asof) ==
    LET weekdays == {d \in 1..asof : d \notin Weekend}
        wanted   == {d \in weekdays : Cardinality({e \in weekdays : e >= d}) \leq BarsAsked}
        there    == Ascending({d \in Min(wanted)..Max(wanted) : bars[s][d] # NoBar})
    IN  IF Cardinality(wanted) = BarsAsked /\ \A d \in wanted : bars[s][d] # NoBar
        THEN [i \in DOMAIN there |-> bars[s][there[i]]] ELSE <<>>

\* _build_context: what cannot be read is empty
BuildContext(c) ==
    LET symbol == op[c].request.symbols[Len(op[c].rows) + 1] IN
    /\ op[c].pc = "scoring" /\ ~Emitting(c)
    /\ Len(op[c].rows) < Len(op[c].request.symbols)
    /\ op' = [op EXCEPT ![c].pc = "looking", ![c].symbol = symbol,
                        ![c].context = [bars |-> KlineBars(symbol, op[c].asof), flow |-> FlowOf[symbol]]]
    /\ UNCHANGED <<busVars, roster, bars, ops, ratings>>

\* The rating is there: the other sub-scorers, of which vcp_pivot emits, and the sum
ScoreSymbol(c) ==
    LET context   == [op[c].context EXCEPT !.bars = [i \in DOMAIN @ |-> BarOf[@[i]]]]
        candidate == Candidate(op[c].symbol, context, op[c].answer,
                               op[c].request.resolver = "risk_off")
    IN
    /\ op[c].pc = "rated" /\ op[c].kind = "scan"
    /\ op' = [op EXCEPT ![c].pc = "scoring", ![c].rows = Append(@, candidate),
                        ![c].symbol = 0, ![c].context = <<>>, ![c].answer = <<>>]
    /\ IF candidate.vcp.pivot = 0 THEN UNCHANGED busVars
       ELSE Emit(c, "pattern_detected", [symbol |-> op[c].symbol, pattern |-> "VCP",
                                         score |-> VcpPivot(context.bars).points])
    /\ UNCHANGED <<roster, bars, ops, ratings>>

\* By score and then by symbol
Before(a, b) == a.final > b.final \/ (a.final = b.final /\ a.symbol < b.symbol)

\* sort is stable: rows that tie stay in their order
Ahead(rows, i, j) == Before(rows[i], rows[j]) \/ (~Before(rows[j], rows[i]) /\ i < j)

\* The number of rows that come before the i-th
Place(rows, i) == Cardinality({j \in DOMAIN rows : Ahead(rows, j, i)})

Sorted(rows) == [k \in DOMAIN rows |-> rows[CHOOSE i \in DOMAIN rows : Place(rows, i) = k - 1]]

First(rows, topn) == IF topn = {} THEN rows ELSE SubSeq(rows, 1, Min(topn \cup {Len(rows)}))

\* Mutant: the cut comes first
CutThenRanked(rows, topn) == Sorted(First(rows, topn))

Ranked(rows, topn) == First(Sorted(rows), topn)

\* The answer; all that were scored and the request are kept for the properties
AnswerScan(c) ==
    /\ op[c].pc = "scoring" /\ ~Emitting(c)
    /\ Len(op[c].rows) = Len(op[c].request.symbols)
    /\ AnswerWith(c, [ok |-> TRUE, candidates |-> Ranked(op[c].rows, op[c].request.topn),
                      scored |-> op[c].rows, topn |-> op[c].request.topn])
    /\ UNCHANGED <<busVars, roster, bars, ops, ratings>>

ScoreNext ==
    \/ RsNext
    \/ \E c \in Callers :
         \/ \E request \in Scans : Scan(c, request)
         \/ BuildContext(c) \/ ScoreSymbol(c) \/ AnswerScan(c)

ScoreSpec == RsInit /\ [][ScoreNext]_rsVars

-----------------------------------------------------------------------------
\* Properties

IsScan(c) == op[c].pc = "answered" /\ op[c].kind = "scan" /\ op[c].answer.ok

\* The rows from k on that have a pivot and were announced
AnnouncedFrom(scored, k) == {i \in DOMAIN scored : i >= k /\ scored[i].vcp.pivot # 0}

\* Whatever sub-scorer fails and whoever rates the day meanwhile, a scan answers
\* with the best of all its symbols, as many as were asked for, none of those left
\* out before any that is in; every symbol with a pivot was announced once, in the
\* order of the list; and as long as the fourteen sub-scorers are deferred nobody
\* gets to 50 of the 65 points a candidate for an entry needs.
ScansRanked ==
    \A c \in Callers : IsScan(c) =>
        LET all    == op[c].answer.scored
            best   == op[c].answer.candidates
            n      == Len(best)
            events == emitted[c]
        IN  /\ n = Min(op[c].answer.topn \cup {Len(all)})
            /\ Range(best) \subseteq Range(all)
            /\ \A i, j \in 1..n : i < j => ~Before(best[j], best[i])
            /\ \A row \in Range(all) \ Range(best) : \A i \in 1..n : ~Before(row, best[i])
            /\ \A k \in DOMAIN all : all[k].vcp.pivot # 0 =>
                 LET event == events[Len(events) + 1 - Cardinality(AnnouncedFrom(all, k))].event
                 IN  event.type = "pattern_detected" /\ event.payload.symbol = all[k].symbol
            /\ \A row \in Range(all) : row.class = "red"

\* The page of a symbol, the sub-scorers and the template judge the same bars by
\* rules of their own, and never against each other: a symbol in stage 4 has no
\* confirmed stage 2 and no template; one that passes the template is in stage 2 or
\* 3 and fulfils all conditions of the sub-scorer but that the long average has
\* risen, which it may only not have fallen.
StagesAgree ==
    \A c \in Callers : op[c].pc = "answered" /\ op[c].kind = "page" =>
        LET window == PageBars(op[c].symbol, op[c].asof, W.need252) IN
        Len(window) = W.need252 =>
            /\ Stage(window) = 4 => /\ Stage2Confirmed(window).points = 0
                                    /\ TrendTemplate8(window).points = 0
            /\ TemplatePassed(window, 99) =>
                 /\ Stage(window) \in {2, 3}
                 /\ \A i \in 1..7 \ {3} : TemplateConditions(window)[i]

=============================================================================
