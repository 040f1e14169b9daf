----------------------------- MODULE RsRatings -----------------------------
(***************************************************************************)
(* compute_rs_rating: the rank of a symbol among the rostered symbols of a *)
(* day, by its weighted returns.  The first call for a day rates all of    *)
(* them, from the roster the screener has kept and the bars that are there *)
(* then, and keeps the ratings; later calls read what was kept.            *)
(*                                                                         *)
(* The page of a symbol (aggregate_symbol) reads the latest kept rating.   *)
(***************************************************************************)
EXTENDS Screener, Patterns

CONSTANTS MinCloses,     \* _MIN_CLOSES
          HistoryDays,   \* history_calendar_days
          Lookbacks,     \* _RS_LOOKBACKS, all of one weight
          Scale,         \* a multiple of all closes: scores are multiplied by it
          Disposed,      \* disposition_list_cache, which nothing in src/ fills
          Trigger,       \* _TRIGGER_SYMBOL
          Asofs,         \* the days that are rated
          Pages          \* the pages that are asked for: symbol, today, number of bars

ASSUME RsRatingsAssumption ==
    /\ MinCloses \in Nat \ {0} /\ HistoryDays \in Nat /\ Scale \in Nat \ {0}
    /\ \A b \in DOMAIN BarOf : BarOf[b].c > 0 => Scale % BarOf[b].c = 0
    /\ Disposed \subseteq Symbols /\ Trigger \in Symbols /\ Asofs \subseteq Days
    /\ \A page \in Pages : page.symbol \in Symbols /\ page.today \in Days

VARIABLE ratings   \* rs_rating_cache: the ratings by day

rsVars == <<screenVars, ratings>>

Nothing == <<>>

RsInit ==
    /\ ScreenInit
    /\ ratings = [d \in Days |-> Nothing]

-----------------------------------------------------------------------------
\* The arithmetic of a rating

\* _weighted_score, times four and Scale; there is none with fewer closes than the
\* longest lookback needs, or from a close that is not positive
HasScore(closes) ==
    /\ Len(closes) > Max(Range(Lookbacks))
    /\ \A n \in Range(Lookbacks) \cup {0} : closes[Len(closes) - n] > 0

Score(closes) ==
    LET last == closes[Len(closes)]
    IN  FoldSeq(LAMBDA n, sum : sum + (last * Scale) \div closes[Len(closes) - n], 0, Lookbacks)

\* _rank_min: ties have the lowest rank
RankMin(scores, s) == 1 + Cardinality({t \in DOMAIN scores : scores[t] < scores[s]})

\* _percentile_from_rank
Percentile(rank, n) ==
    LET pct == (99 * (rank - 1)) \div n + 1
    IN  IF pct > 99 THEN 99 ELSE pct

\* _compute_universe_ratings
Ratings(closes) ==
    LET scored == {s \in DOMAIN closes : HasScore(closes[s])}
        scores == [s \in scored |-> Score(closes[s])]
    IN  [s \in scored |-> Percentile(RankMin(scores, s), Cardinality(scored))]

-----------------------------------------------------------------------------
\* The backfill script rates a day by asking for one symbol
Rate(c, d) ==
    /\ Free(c)
    /\ ops' = ops + 1
    /\ op' = [op EXCEPT ![c] = [Idle EXCEPT !.pc = "looking", !.kind = "rate",
                                            !.symbol = Trigger, !.asof = d]]
    /\ UNCHANGED <<busVars, roster, bars, ratings>>

\* compute_rs_rating raises instead of returning a rating
Raised == -1

\* cached.get(sym), None as 0
RatingIn(table, s) == IF s \in DOMAIN table THEN table[s] ELSE 0

\* Mutant: a symbol that has no rating is looked for again
HitBySymbol(table, s) == s \in DOMAIN table

\* _read_cached: any row of the day
Hit(table, s) == table # Nothing

\* The rating is there: None as 0
HasRating(c, rating) ==
    op' = [op EXCEPT ![c].pc = "rated", ![c].answer = rating, ![c].closes = <<>>]

LookUp(c) ==
    LET table == ratings[op[c].asof] IN
    /\ op[c].pc = "looking"
    /\ IF Hit(table, op[c].symbol) THEN HasRating(c, RatingIn(table, op[c].symbol))
       ELSE op' = [op EXCEPT ![c].pc = "rostering"]
    /\ UNCHANGED <<busVars, roster, bars, ops, ratings>>

\* The loader: the roster of exactly that day, without the disposed symbols
LoadRoster(c) ==
    /\ op[c].pc = "rostering"
    /\ op' = [op EXCEPT ![c].pc = "loading",
                        ![c].left = roster[op[c].asof] \ Disposed]
    /\ UNCHANGED <<busVars, roster, bars, ops, ratings>>

\* select_bars over the history: the closes of the days that have a bar
ClosesOf(s, asof) ==
    LET days == {d \in 1..asof : d >= asof - HistoryDays /\ bars[s][d] # NoBar}
        seq  == Ascending(days)
    IN  [i \in DOMAIN seq |-> BarOf[bars[s][seq[i]]].c]

\* One symbol, read by a statement of its own
LoadCloses(c) ==
    LET s == Min(op[c].left)
        closes == ClosesOf(s, op[c].asof)
    IN
    /\ op[c].pc = "loading" /\ op[c].left # {}
    /\ op' = [op EXCEPT
         ![c].left = @ \ {s},
         ![c].closes = IF Len(closes) < MinCloses THEN @
                       ELSE [t \in DOMAIN @ \cup {s} |-> IF t = s THEN closes ELSE @[t]]]
    /\ UNCHANGED <<busVars, roster, bars, ops, ratings>>

\* _write_cache: INSERT OR REPLACE of all that were rated, if any was
Kept(old, new) == [s \in DOMAIN old \cup DOMAIN new |-> IF s \in DOMAIN new THEN new[s] ELSE old[s]]

WriteRatings(c) ==
    LET new == Ratings(op[c].closes) IN
    /\ op[c].pc = "loading" /\ op[c].left = {}
    /\ ratings' = [ratings EXCEPT ![op[c].asof] = Kept(@, new)]
    /\ HasRating(c, RatingIn(new, op[c].symbol))
    /\ UNCHANGED <<busVars, roster, bars, ops>>

\* No loader is wired, as in the processes of the command line
RatingFails(c) ==
    /\ op[c].pc = "rostering"
    /\ HasRating(c, Raised)
    /\ UNCHANGED <<busVars, roster, bars, ops, ratings>>

Rated(c) ==
    /\ op[c].pc = "rated" /\ op[c].kind = "rate"
    /\ AnswerWith(c, op[c].answer)
    /\ UNCHANGED <<busVars, roster, bars, ops, ratings>>

\* The steps of a call up to its rating
Rating(c) == LookUp(c) \/ LoadRoster(c) \/ LoadCloses(c) \/ WriteRatings(c) \/ RatingFails(c)

-----------------------------------------------------------------------------
\* The page of a symbol: the last bars, the change between the last two, the stage
\* they are in, and the rating of the latest day that has one; without a bar there
\* is no page
LatestRating(s) ==
    LET there == {d \in Days : s \in DOMAIN ratings[d]}
    IN  IF there = {} THEN [value |-> 0, asof |-> 0]
        ELSE [value |-> ratings[Max(there)][s], asof |-> Max(there)]

\* _fetch_bars: of the calendar days in reach
PageBars(s, today, days) ==
    LET reach == {d \in 1..today : bars[s][d] # NoBar /\ d >= today - ((8 * days) \div 5 + 14)}
        last  == Ascending({d \in reach : Cardinality({e \in reach : e >= d}) \leq days})
    IN  [i \in DOMAIN last |-> BarOf[bars[s][last[i]]]]

Page(s, today, days) ==
    LET window == PageBars(s, today, days)
        n      == Len(window)
    IN  IF days \notin 1..W.need252 THEN Refused("invalid_days")
        ELSE IF n = 0 THEN Refused("market_symbol_not_found")
        ELSE [ok     |-> TRUE,
              price  |-> Close(window),
              change |-> IF n = 1 THEN 0 ELSE window[n].c - window[n-1].c,
              stage  |-> Stage(window),
              rs     |-> LatestRating(s)]

ShowPage(c, page) ==
    /\ Free(c)
    /\ ops' = ops + 1
    /\ op' = [op EXCEPT ![c] = [Idle EXCEPT !.pc = "answered", !.kind = "page",
                                            !.symbol = page.symbol, !.asof = page.today,
                                            !.answer = Page(page.symbol, page.today, page.days)]]
    /\ UNCHANGED <<busVars, roster, bars, ratings>>

RsNext ==
    \/ ScreenNext /\ UNCHANGED ratings
    \/ \E c \in Callers :
         \/ \E d \in Asofs : Rate(c, d)
         \/ \E page \in Pages : ShowPage(c, page)
         \/ Rating(c)
         \/ Rated(c)

-----------------------------------------------------------------------------
\* Properties

\* The callers that rate all of a day
Computing(d) == {c \in Callers : op[c].pc \in {"rostering", "loading"} /\ op[c].asof = d}

\* A day that has ratings is not rated again: calls that began before may still
\* finish and write theirs, and once they have, the ratings of the day stand,
\* whatever symbols are asked for and whatever bars come in.
RatingsSettle ==
    [][\A d \in Days : ratings[d] # Nothing =>
          /\ Computing(d)' \subseteq Computing(d)
          /\ Computing(d) = {} => ratings'[d] = ratings[d]]_rsVars

=============================================================================
