--------------------------- MODULE BacktestReport ---------------------------
(***************************************************************************)
(* What is reported of a finished back-test: the engine's metrics and the  *)
(* API's detail page, each computed on its own from the trade rows and the *)
(* equity curve.  Ratios are pairs and are compared by multiplication.  A  *)
(* loop over a list is a function on the number of its rounds.             *)
(***************************************************************************)
EXTENDS Backtest

-----------------------------------------------------------------------------
\* Round trips: sales close the oldest lots of their symbol

Used(at, lot) == IF at.remaining < lot.qty THEN at.remaining ELSE lot.qty

\* Mutant: the newest lot first
CloseNewest(sale, at) ==
    LET newest == Len(at.lots)
        lot    == at.lots[newest]
        used   == Used(at, lot)
    IN  [remaining |-> at.remaining - used,
         lots      |-> IF used = lot.qty THEN SubSeq(at.lots, 1, newest - 1)
                       ELSE [at.lots EXCEPT ![newest].qty = @ - used],
         trips     |-> Append(at.trips, [buy |-> lot.row, sale |-> sale, qty |-> used])]

\* A round: the oldest lot, or as much of it as the sale still needs
CloseLot(sale, at) ==
    LET lot  == Head(at.lots)
        used == Used(at, lot)
    IN  [remaining |-> at.remaining - used,
         lots      |-> IF used = lot.qty THEN Tail(at.lots)
                       ELSE [at.lots EXCEPT ![1].qty = @ - used],
         trips     |-> Append(at.trips, [buy |-> lot.row, sale |-> sale, qty |-> used])]

\* The rounds of a sale: each closes a lot or is the last one
CloseLots(sale, qty, lots, trips) ==
    LET after[n \in 0..Len(lots)] ==
          IF n = 0 THEN [remaining |-> qty, lots |-> lots, trips |-> trips]
          ELSE IF after[n-1].remaining > 0 /\ after[n-1].lots # <<>>
               THEN CloseLot(sale, after[n-1])
               ELSE after[n-1]
    IN  after[Len(lots)]

\* One row of the trades, over the open lots of each symbol
Pair(acc, i) ==
    LET t     == trades[i]
        lots  == acc.lots[t.symbol]
        after == CloseLots(i, t.qty, lots, acc.trips)
    IN  IF t.side = "buy"
        THEN [acc EXCEPT !.lots[t.symbol] = Append(lots, [row |-> i, qty |-> t.qty])]
        ELSE [lots |-> [acc.lots EXCEPT ![t.symbol] = after.lots], trips |-> after.trips]

\* The rows that count, one after the other
Trips(rows) ==
    LET upTo[n \in 0..Len(trades)] ==
          IF n = 0 THEN [lots |-> [s \in Symbols |-> <<>>], trips |-> <<>>]
          ELSE IF n \in rows THEN Pair(upTo[n-1], n) ELSE upTo[n-1]
    IN  upTo[Len(trades)].trips

\* _closed_round_trips
ClosedRoundTrips == Trips({i \in DOMAIN trades : trades[i].status = "filled"})

\* _pair_trades: without rows that have no quantity or no fill date
PairTrades == Trips({i \in DOMAIN trades : /\ trades[i].status = "filled"
                                           /\ trades[i].qty > 0 /\ trades[i].fill > 0})

-----------------------------------------------------------------------------
\* Drawdowns

Deeper(x, y) == x[1] * y[2] < y[1] * x[2]

\* Mutant: the peak is the first equity
DropFromStart(at, equity) ==
    LET worst == IF at.peak > 0 /\ Deeper(<<equity, at.peak>>, at.worst)
                 THEN <<equity, at.peak>> ELSE at.worst
    IN  [peak |-> at.peak, worst |-> worst,
         returned |-> Deeper(worst, <<1, 1>>) /\ equity >= worst[2]]

\* One day of _max_drawdown, which returns when the curve has recovered from the
\* worst drop so far
Drop(at, equity) ==
    LET peak  == IF equity > at.peak THEN equity ELSE at.peak
        worst == IF peak > 0 /\ Deeper(<<equity, peak>>, at.worst) THEN <<equity, peak>>
                 ELSE at.worst
    IN  [peak |-> peak, worst |-> worst,
         returned |-> Deeper(worst, <<1, 1>>) /\ equity >= worst[2]]

MaxDrawdown(q) ==
    LET upTo[n \in 0..Len(q)] ==
          IF n = 0 THEN [peak |-> q[1], worst |-> <<1, 1>>, returned |-> FALSE]
          ELSE IF upTo[n-1].returned THEN upTo[n-1] ELSE Drop(upTo[n-1], q[n])
    IN  upTo[Len(q)].worst

\* _derive_drawdown: the drop from the highest equity so far, day by day
Chart(q) ==
    [i \in DOMAIN q |-> LET peak == Max({q[k] : k \in 1..i})
                        IN  IF peak > 0 THEN <<q[i], peak>> ELSE <<1, 1>>]

-----------------------------------------------------------------------------
\* The two reports

\* compute_metrics, without its statistics
Metrics == [maxDrawdown |-> MaxDrawdown(curve), trips |-> ClosedRoundTrips]

\* get_job_detail: a job that failed has neither a chart nor trades
Detail ==
    IF job = "completed" THEN [drawdown |-> Chart(curve), trades |-> PairTrades]
    ELSE [drawdown |-> <<>>, trades |-> <<>>]

-----------------------------------------------------------------------------
\* Properties

\* The shares that a row moved, in the order in which its symbol's shares were
\* bought, or sold
Shares(k) ==
    LET before == Total([n \in 1..(k-1) |-> IF /\ trades[n].status = "filled"
                                               /\ trades[n].side = trades[k].side
                                               /\ trades[n].symbol = trades[k].symbol
                                            THEN trades[n].qty ELSE 0])
    IN  (before + 1)..(before + trades[k].qty)

\* The shares that row i bought and row j sold
Overlap(i, j) == Shares(i) \cap Shares(j)

\* What row j sold of row i
Meet(i, j) ==
    /\ IsBuy(trades[i]) /\ IsSale(trades[j]) /\ trades[i].symbol = trades[j].symbol
    /\ Overlap(i, j) # {}

\* First in, first out: the n-th share sold of a symbol is the n-th that was
\* bought, each trip is listed once, sale by sale and the oldest lot first, and the
\* engine's metrics and the detail page see the same trips.
TripsAreFifo ==
    job = "completed" =>
        LET trips == Detail.trades IN
        /\ trips = Metrics.trips
        /\ Range(trips) =
              {[buy |-> p[1], sale |-> p[2], qty |-> Cardinality(Overlap(p[1], p[2]))] :
                 p \in {q \in (DOMAIN trades) \X (DOMAIN trades) : Meet(q[1], q[2])}}
        /\ \A m, n \in DOMAIN trips : m < n =>
             \/ trips[m].sale < trips[n].sale
             \/ trips[m].sale = trips[n].sale /\ trips[m].buy < trips[n].buy

\* The chart of the detail page goes deeper than the maximum drawdown of the metrics
\* only on days after the curve has recovered from that drawdown; before, they agree.
DrawdownsAgree ==
    job = "completed" =>
        LET worst == Metrics.maxDrawdown
            chart == Detail.drawdown
            same(x, y)   == ~Deeper(x, y) /\ ~Deeper(y, x)
            Recovered(i) == /\ Deeper(worst, <<1, 1>>)
                            /\ \E k \in 1..i : same(chart[k], worst) /\ curve[i] >= chart[k][2]
        IN  /\ \E i \in DOMAIN chart : same(chart[i], worst)
            /\ \A i \in DOMAIN chart : Deeper(chart[i], worst) =>
                   \E j \in 1..(i-1) : Recovered(j)

=============================================================================
