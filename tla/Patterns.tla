------------------------------ MODULE Patterns ------------------------------
(***************************************************************************)
(* What the daily bars of a symbol say: the technical sub-scorers of       *)
(* Phase 2B, and the stage that the page of a symbol shows.  All are pure  *)
(* functions of the bars, oldest first.                                    *)
(*                                                                         *)
(* A bar is [c, h, l, v, amount].  The windows are a record named after    *)
(* the source's numbers, so that an instance can shorten them; prices are  *)
(* multiples of every period, and a moving average is a whole number.      *)
(***************************************************************************)
EXTENDS Integers, Sequences, SequencesExt, FiniteSetsExt, Functions

CONSTANT W   \* the windows, in bars

Windows == {"ma5", "ma20", "ma60", "ma50", "ma150", "ma200", "need21", "need60", "need252", "year",
            "slope20", "ago22", "ago5", "base", "swing", "contractions", "obv", "range30"}

ASSUME WindowsAssumption ==
    /\ W \in [Windows -> Nat \ {0}]
    /\ W.need60 >= Max({W.ma60, W.base}) /\ W.need21 > W.base
    /\ W.need252 >= W.year /\ W.need252 >= W.ma200 + Max({W.slope20, W.ago22})
    /\ W.need252 >= W.ma150 + W.ago5 /\ W.need252 >= W.ma50

-----------------------------------------------------------------------------
LastOf(seq, n) == SubSeq(seq, Len(seq) - n + 1, Len(seq))

Sum(seq) ==
    LET upTo[n \in 0..Len(seq)] == IF n = 0 THEN 0 ELSE upTo[n - 1] + seq[n]
    IN  upTo[Len(seq)]

Highest(bars) == Max({bars[i].h : i \in DOMAIN bars})

Lowest(bars) == Min({bars[i].l : i \in DOMAIN bars})

Close(bars) == bars[Len(bars)].c

\* sma(closes, period)[-1 - ago]
Ma(bars, period, ago) ==
    LET n == Len(bars) - ago
    IN  Sum([i \in 1..period |-> bars[n - period + i].c]) \div period

Skipped == [status |-> "skipped", points |-> 0]

Failed == [status |-> "error", points |-> 0]

Scored(points) == [status |-> "scored", points |-> points]

AllOr(max, holds) == Scored(IF holds THEN max ELSE 0)

-----------------------------------------------------------------------------
\* The sub-scorers

TrendStructureMa(bars) ==
    IF Len(bars) < W.need60 THEN Skipped
    ELSE AllOr(10, /\ Close(bars) > Ma(bars, W.ma5, 0)
                   /\ Ma(bars, W.ma5, 0) > Ma(bars, W.ma20, 0)
                   /\ Ma(bars, W.ma20, 0) > Ma(bars, W.ma60, 0))

NearTheHigh(bars) == 100 * Close(bars) >= 75 * Highest(LastOf(bars, W.year))

AboveTheLow(bars) == 100 * Close(bars) >= 130 * Lowest(LastOf(bars, W.year))

Stage2Confirmed(bars) ==
    IF Len(bars) < W.need252 THEN Skipped
    ELSE AllOr(5, /\ Close(bars) > Ma(bars, W.ma150, 0)
                  /\ Ma(bars, W.ma150, 0) > Ma(bars, W.ma150, W.ago5)
                  /\ AboveTheLow(bars) /\ NearTheHigh(bars))

\* The seven conditions of trend_template_8
TemplateConditions(bars) ==
    LET close == Close(bars)
        ma50  == Ma(bars, W.ma50, 0)
        ma150 == Ma(bars, W.ma150, 0)
        ma200 == Ma(bars, W.ma200, 0)
    IN  <<close > ma150 /\ close > ma200,
          ma150 > ma200,
          ma200 > Ma(bars, W.ma200, W.ago22),
          ma50 > ma150 /\ ma50 > ma200,
          close > ma50,
          AboveTheLow(bars),
          NearTheHigh(bars)>>

TrendTemplate8(bars) ==
    IF Len(bars) < W.need252 THEN Skipped
    ELSE AllOr(5, Range(TemplateConditions(bars)) = {TRUE})

\* _count_lower_high_contractions: the swings, above their neighbours on both sides,
\* that are lower than the swing before
Contractions(highs) ==
    LET around(i) == (i - W.swing .. i + W.swing) \ {i}
        swings    == {i \in DOMAIN highs : /\ around(i) \subseteq DOMAIN highs
                                           /\ \A j \in around(i) : highs[i] > highs[j]}
    IN  Cardinality({i \in swings :
            LET before == {j \in swings : j < i}
            IN  before # {} /\ highs[i] < highs[Max(before)]})

\* (high - low) / low below a percentage, which no range above a low of zero is
Tighter(base, percent) ==
    /\ Lowest(base) > 0
    /\ 100 * (Highest(base) - Lowest(base)) < percent * Lowest(base)

\* The last volume is 1.4 times the average before it, if there is one
VolumeBreaks(bars) ==
    LET before == Front(LastOf(bars, W.base + 1))
        total  == Sum([i \in DOMAIN before |-> before[i].v])
    IN  total > 0 /\ 10 * W.base * bars[Len(bars)].v >= 14 * total

NoVcp == [quality |-> "", pivot |-> 0]

\* vcp_pivot; a pivot of zero is none
VcpOf(bars) ==
    LET base   == LastOf(bars, W.base)
        before == Front(base)
        far    == LastOf(bars, Min({Len(bars), W.need60}))
        highs  == [i \in 1..(Len(far) - W.base) |-> far[i].h]
    IN  IF Len(bars) < W.need60 THEN NoVcp
        ELSE IF /\ Close(bars) > Highest(before)
                /\ Len(bars) > W.base /\ VolumeBreaks(bars)
        THEN [quality |-> "breakout", pivot |-> Highest(before)]
        ELSE IF Tighter(base, 10) /\ Contractions(highs) >= W.contractions
        THEN [quality |-> "textbook", pivot |-> Highest(base)]
        ELSE IF Tighter(base, 15) THEN [quality |-> "forming", pivot |-> 0]
        ELSE [quality |-> "none", pivot |-> 0]

VcpPivot(bars) ==
    LET quality == VcpOf(bars).quality
    IN  CASE quality = ""         -> Skipped
          [] quality = "breakout" -> Scored(8)
          [] quality = "textbook" -> Scored(6)
          [] quality = "forming"  -> Scored(3)
          [] quality = "none"     -> Scored(0)

\* obv[-1] - obv[-6]
ObvSlope(bars) ==
    LET n == Len(bars)
        flow(i) == IF bars[i].c > bars[i-1].c THEN bars[i].v
                   ELSE IF bars[i].c < bars[i-1].c THEN -bars[i].v ELSE 0
    IN  Sum([k \in 1..W.obv |-> flow(n - W.obv + k)])

VolumeBreakoutObv(bars) ==
    IF Len(bars) < W.need21 THEN Skipped
    ELSE AllOr(5, /\ Close(bars) > Highest(Front(LastOf(bars, W.base + 1)))
                  /\ VolumeBreaks(bars)
                  /\ ObvSlope(bars) > 0)

-----------------------------------------------------------------------------
\* classify_stage

\* _ma200_rising: not below the day before, on each of the last days
Ma200Rising(bars) ==
    \A ago \in 0..(W.slope20 - 1) : Ma(bars, W.ma200, ago) >= Ma(bars, W.ma200, ago + 1)

IsStage4(bars) ==
    /\ Ma(bars, W.ma50, 0) < Ma(bars, W.ma150, 0) /\ Ma(bars, W.ma150, 0) < Ma(bars, W.ma200, 0)
    /\ Close(bars) < Ma(bars, W.ma50, 0)
    /\ ~Ma200Rising(bars)

\* Mutant: the close is not compared with the shortest average
LooselyStacked(bars) ==
    /\ Ma(bars, W.ma50, 0) > Ma(bars, W.ma150, 0)
    /\ Ma(bars, W.ma150, 0) > Ma(bars, W.ma200, 0)

Stacked(bars) ==
    /\ Close(bars) > Ma(bars, W.ma50, 0) /\ Ma(bars, W.ma50, 0) > Ma(bars, W.ma150, 0)
    /\ Ma(bars, W.ma150, 0) > Ma(bars, W.ma200, 0)

\* The range of the last bars is more than a fifth of the close
WideRange(bars) ==
    LET recent == LastOf(bars, W.range30)
    IN  100 * (Highest(recent) - Lowest(recent)) > 20 * Close(bars)

\* classify_stage, and 0 for bars that are too few
Stage(bars) ==
    CASE Len(bars) < W.need252 -> 0
      [] OTHER ->
         CASE IsStage4(bars) -> 4
           [] Stacked(bars) /\ Ma200Rising(bars) /\ Close(bars) # 0 -> IF WideRange(bars) THEN 3 ELSE 2
           [] OTHER -> 1

-----------------------------------------------------------------------------
\* evaluate_trend_template, which no part of the program calls: passed
TemplatePassed(bars, rs) ==
    /\ Stacked(bars)
    /\ Close(bars) > Ma(bars, W.ma150, 0) /\ Close(bars) > Ma(bars, W.ma200, 0)
    /\ Ma200Rising(bars)
    /\ NearTheHigh(bars)
    /\ rs # 0 /\ AboveTheLow(bars) /\ rs >= 65

=============================================================================
