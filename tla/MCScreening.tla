----------------------------- MODULE MCScreening -----------------------------
(***************************************************************************)
(* A TLC instance of the screener, the ratings, the scores, the page of a  *)
(* symbol and the public stream.  Two codes are of the two markets, the    *)
(* third is not; the windows are shortened in their proportions, so that   *)
(* a scan asks for one weekday less than the long windows need.            *)
(***************************************************************************)
EXTENDS Scoring

CONSTANTS c1, c2, s1, s2

MCCallers == {c1, c2}

MCStreams == {s1, s2}

MCSymmetry == Permutations(MCCallers) \cup Permutations(MCStreams)

MCWhitelist ==
    "screener_started" :> {"universe_size"} @@ "screener_completed" :> {"candidate_count"}
    @@ "pattern_detected" :> {"masked_symbol", "industry_hint", "pattern", "score"}

MCLookbacks == <<1, 2>>

MCMarketOf == <<"TWSE", "OTC", "EMERGING">>

MCW == [ma5 |-> 2, ma20 |-> 3, ma60 |-> 4, ma50 |-> 2, ma150 |-> 3, ma200 |-> 4,
        need21 |-> 3, need60 |-> 7, need252 |-> 8, year |-> 8, slope20 |-> 2, ago22 |-> 3,
        ago5 |-> 1, base |-> 2, swing |-> 1, contractions |-> 1, obv |-> 2, range30 |-> 3]

\* A bar for each close, with little volume, and the highest with much
Closes == <<36, 48, 60, 72, 84, 96, 120>>

MCBarOf ==
    [b \in 1..7 |-> LET volume == IF b = 7 THEN 3 ELSE 1
                    IN  [c |-> Closes[b], h |-> Closes[b] + 2, l |-> Closes[b] - 2, v |-> volume,
                         amount |-> Closes[b] * volume]]

\* The first rises, the second falls and has no bar of the weekend day, the third
\* narrows and then breaks out; the last bar of the first, a lower one, may come in
MCBarsToCome == {[symbol |-> 1, day |-> 9, bar |-> 5]}

MCHistories ==
    {<<<<1, 1, 2, 2, 3, 3, 3, 6, 0>>,
       <<6, 6, 0, 5, 5, 4, 4, 3, 2>>,
       <<4, 5, 4, 4, 5, 4, 4, 4, 7>>>>}

Volume(min, policy) == [kind |-> "volume_filter", min |-> min, policy |-> policy, exclude |-> {}]
Negative(exclude)   == [kind |-> "negative_filter", min |-> 0, policy |-> "", exclude |-> exclude]

\* One is filtered, one meets a filter that is not known, one a symbol with too few
\* bars, and one is refused
MCRequests ==
    {[universe |-> "TWSE+OTC", custom |-> {}, asof |-> 9,
      filters |-> <<Negative({"KY"}), Volume(60, "skip_missing")>>],
     [universe |-> "TWSE", custom |-> {}, asof |-> 1, filters |-> <<Negative({"ETF"})>>],
     [universe |-> "custom", custom |-> {1, 3}, asof |-> 1, filters |-> <<Volume(60, "fail_fast")>>],
     [universe |-> "custom", custom |-> {}, asof |-> 9, filters |-> <<>>]}

MCPages ==
    {[symbol |-> 1, today |-> 9, days |-> 8], [symbol |-> 2, today |-> 9, days |-> 8],
     [symbol |-> 3, today |-> 9, days |-> 0]}

MCFlowOf == <<NoFlow, [foreign |-> -1, trust |-> 100], [foreign |-> 600, trust |-> 400]>>

MCScans ==
    {[symbols |-> <<1, 3>>, topn |-> {1}, resolver |-> "risk_off", asof |-> 9],
     [symbols |-> <<3>>, topn |-> {}, resolver |-> "off", asof |-> 8],
     [symbols |-> <<1>>, topn |-> {}, resolver |-> "raises", asof |-> 9],
     [symbols |-> <<>>, topn |-> {}, resolver |-> "off", asof |-> 9]}

=============================================================================
