------------------------------ MODULE Backtest ------------------------------
(***************************************************************************)
(* The back-test engine, day by day: orders of the day before are filled   *)
(* at the open or refused, the strategy sees the bars up to the close and  *)
(* emits intents, the equity is noted.  Sales are paid two trading days    *)
(* later.  The API stores what came out as a job.                          *)
(*                                                                         *)
(* Days are the positions of the timeline, the union of the days on which  *)
(* some symbol has a bar.  Amounts are integers of a currency unit and are *)
(* rounded down.  The bars are not known in advance: each day opens with   *)
(* any that the instance allows.  A strategy asks at most once a call and  *)
(* about the symbol it was called with, as SmaCross does.                  *)
(***************************************************************************)
EXTENDS Integers, Sequences, FiniteSets, FiniteSetsExt, Functions

CONSTANTS Symbols,       \* numbers: symbols are visited in sorted order
          LastDay,       \* the length of the timeline
          Bars,          \* the bars there can be of a symbol: [o |-> open, c |-> close]
          Quantities,    \* quantities of an intent
          SmaQuantity,   \* qty of the crossing strategy
          Capital,       \* initial_capital
          Slippage,      \* slippage, in thousandths
          FeeFloor,      \* FEE_FLOOR_TWD
          FeeRate,       \* FEE_RATE times the discount, in millionths
          TaxRate,       \* the tax on sales, regular or day-trade, in 1/10000
          Warmup,        \* warmup_bars of the strategy
          MaxIntents     \* bound: intents emitted

ASSUME BacktestAssumption ==
    /\ Symbols \subseteq Nat /\ IsFiniteSet(Symbols) /\ Symbols # {}
    /\ LastDay \in Nat \ {0}
    /\ \A s \in Symbols : Bars[s] \subseteq [o : Nat \ {0}, c : Nat \ {0}]
    /\ Quantities \subseteq Nat \ {0}
    /\ SmaQuantity \in Nat \ {0}
    /\ {Capital, Slippage, FeeFloor, FeeRate, TaxRate, Warmup, MaxIntents} \subseteq Nat

VARIABLES day,        \* today, 0 before the first
          phase,      \* of today, or how the run ended
          strategy,   \* "any" strategy, or "sma_cross"
          bar,        \* today's bars, by symbol
          last,       \* the latest close by symbol, 0 before the first bar
          seen,       \* bars seen by symbol, up to one more than Warmup
          cash,       \* the portfolio: booked cash,
          available,  \* settled cash,
          settling,   \* pending_settlements, by day,
          held,       \* and positions
          orders,     \* pending orders still to be looked at today
          waiting,    \* pending orders that wait for another day
          todo,       \* symbols whose strategy call is still to come
          trades,     \* the trade rows
          curve,      \* the equity curve
          emitted,    \* history: the number of intents
          job         \* the backtest_jobs row: its status

backtestVars == <<day, phase, strategy, bar, last, seen, cash, available, settling, held,
                  orders, waiting, todo, trades, curve, emitted, job>>

account == <<cash, available, settling, held>>
feed    == <<bar, last, seen>>

Days == 1..LastDay

\* One more than the days: what settles there is never paid
PayDays == 1..(LastDay + 1)

NoBar == [o |-> 0, c |-> 0]

Sides == {"buy", "sell"}

Intents == [side : Sides, qty : Quantities]

Init ==
    /\ day = 0
    /\ phase = "idle"
    /\ strategy \in {"any", "sma_cross"}
    /\ bar = [s \in Symbols |-> NoBar]
    /\ last = [s \in Symbols |-> 0]
    /\ seen = [s \in Symbols |-> 0]
    /\ cash = Capital
    /\ available = Capital
    /\ settling = [d \in PayDays |-> 0]
    /\ held = [s \in Symbols |-> 0]
    /\ orders = <<>>
    /\ waiting = <<>>
    /\ todo = {}
    /\ trades = <<>>
    /\ curve = <<>>
    /\ emitted = 0
    /\ job = "none"

-----------------------------------------------------------------------------
\* Prices and costs

\* At the limit: the open is 10% above or below the close before
AtLimitUp(open, close)   == close > 0 /\ 10 * open = 11 * close
AtLimitDown(open, close) == close > 0 /\ 10 * open = 9 * close

\* compute_fill: whether a side is refused, and its price
Refusal(side, open, close) ==
    IF AtLimitUp(open, close) /\ side = "buy" THEN "rejected_limit_up"
    ELSE IF AtLimitDown(open, close) /\ side = "sell" THEN "rejected_limit_down"
    ELSE "filled"

SlippageOf(open, close) ==
    IF AtLimitUp(open, close) \/ AtLimitDown(open, close) THEN 10 ELSE Slippage

FillPrice(side, open, close) ==
    IF side = "buy" THEN (open * (1000 + SlippageOf(open, close))) \div 1000
    ELSE (open * (1000 - SlippageOf(open, close))) \div 1000

\* transaction_cost: a fee with a floor, and for sales the tax
Cost(side, notional) ==
    LET raw == (notional * FeeRate) \div 1000000
        fee == IF notional = 0 THEN 0 ELSE IF raw > FeeFloor THEN raw ELSE FeeFloor
        tax == IF side = "sell" THEN (notional * TaxRate) \div 10000 ELSE 0
    IN  fee + tax

\* What a buy takes and a sale brings
Outflow(price, qty)  == price * qty + Cost("buy", price * qty)
Proceeds(price, qty) == price * qty - Cost("sell", price * qty)

\* Mutant: the key is the day of the sale, which is past when it is looked for
SettlementDayToday(d) == d

\* _settlement_date: the day after next of the timeline.  Beyond its end the
\* key is "<d>+sentinel", which as a string is after d and before every later
\* day: on the last day but one that is the last day.
SettlementDay(d) == IF d + 2 \leq LastDay THEN d + 2 ELSE d + 1

-----------------------------------------------------------------------------
\* A day

\* advance_to: what is due is available.  Every symbol has a bar in the period.
OpenDay(bars) ==
    LET today == day + 1
        with  == {s \in Symbols : bars[s] # NoBar}
    IN
    /\ phase = "idle" /\ day < LastDay
    /\ with # {} /\ \A s \in with : bars[s] \in Bars[s]
    /\ today = LastDay => \A s \in Symbols : s \in with \/ seen[s] > 0
    /\ day' = today
    /\ phase' = "filling"
    /\ bar' = bars
    /\ todo' = with
    /\ available' = available + settling[today]
    /\ settling' = [settling EXCEPT ![today] = 0]
    /\ orders' = waiting
    /\ waiting' = <<>>
    /\ UNCHANGED <<strategy, last, seen, cash, held, trades, curve, emitted, job>>

Row(order, status, price, cost) ==
    [symbol |-> order.symbol, signal |-> order.signal, side |-> order.side,
     qty |-> order.qty, fill |-> IF status = "cancelled_eob" THEN 0 ELSE day,
     status |-> status, price |-> price, cost |-> cost]

Refused(order, status) == Append(trades, Row(order, status, 0, 0))

\* No bar of the symbol today
Postpone ==
    /\ phase = "filling" /\ orders # <<>>
    /\ bar[Head(orders).symbol] = NoBar
    /\ waiting' = Append(waiting, Head(orders))
    /\ orders' = Tail(orders)
    /\ UNCHANGED <<account, trades>>

\* Mutant: cash that is not settled pays for it
AffordsOnBook(outflow) == cash >= outflow

Affords(outflow) == available >= outflow

FillBuy ==
    LET order   == Head(orders)
        open    == bar[order.symbol].o
        close   == last[order.symbol]
        refusal == Refusal("buy", open, close)
        price   == FillPrice("buy", open, close)
        outflow == Outflow(price, order.qty)
    IN
    /\ phase = "filling" /\ orders # <<>>
    /\ order.side = "buy" /\ bar[order.symbol] # NoBar
    /\ orders' = Tail(orders)
    /\ \/ /\ refusal # "filled"
          /\ trades' = Refused(order, refusal)
          /\ UNCHANGED account
       \/ /\ refusal = "filled" /\ ~Affords(outflow)
          /\ trades' = Refused(order, "rejected_insufficient_cash")
          /\ UNCHANGED account
       \/ /\ refusal = "filled" /\ Affords(outflow)
          /\ cash' = cash - outflow
          /\ available' = available - outflow
          /\ held' = [held EXCEPT ![order.symbol] = @ + order.qty]
          /\ trades' = Append(trades, Row(order, "filled", price, Cost("buy", price * order.qty)))
          /\ UNCHANGED settling
    /\ UNCHANGED waiting

FillSell ==
    LET order   == Head(orders)
        open    == bar[order.symbol].o
        close   == last[order.symbol]
        refusal == Refusal("sell", open, close)
        price   == FillPrice("sell", open, close)
        net     == Proceeds(price, order.qty)
    IN
    /\ phase = "filling" /\ orders # <<>>
    /\ order.side = "sell" /\ bar[order.symbol] # NoBar
    /\ orders' = Tail(orders)
    /\ \/ /\ refusal # "filled"
          /\ trades' = Refused(order, refusal)
          /\ UNCHANGED account
       \/ /\ refusal = "filled" /\ order.qty > held[order.symbol]
          /\ trades' = Refused(order, "rejected_no_position")
          /\ UNCHANGED account
       \/ /\ refusal = "filled" /\ order.qty \leq held[order.symbol]
          /\ cash' = cash + net
          /\ settling' = [settling EXCEPT ![SettlementDay(day)] = @ + net]
          /\ held' = [held EXCEPT ![order.symbol] = @ - order.qty]
          /\ trades' = Append(trades, Row(order, "filled", price, Cost("sell", price * order.qty)))
          /\ UNCHANGED available
    /\ UNCHANGED waiting

Fill ==
    /\ Postpone \/ FillBuy \/ FillSell
    /\ UNCHANGED <<day, phase, strategy, feed, todo, curve, emitted, job>>

\* The orders are done; the strategy gets to see today's bars
CloseBars ==
    /\ phase = "filling" /\ orders = <<>>
    /\ phase' = "signalling"
    /\ last' = [s \in Symbols |-> IF bar[s] = NoBar THEN last[s] ELSE bar[s].c]
    /\ seen' = [s \in Symbols |-> IF bar[s] = NoBar \/ seen[s] > Warmup THEN seen[s]
                                  ELSE seen[s] + 1]
    /\ todo' = {s \in todo : seen'[s] >= Warmup}
    /\ UNCHANGED <<day, strategy, bar, account, orders, waiting, trades, curve, emitted, job>>

\* Mutant: it buys whatever it holds
SmaIntentsPyramid(s) == {[side |-> "buy", qty |-> SmaQuantity]}

\* SmaCross.on_bar: a cross upwards when nothing is held, or downwards
SmaIntents(s) ==
    IF held[s] = 0 THEN {[side |-> "buy", qty |-> SmaQuantity]}
    ELSE {[side |-> "sell", qty |-> held[s]]}

Allowed(s) == IF strategy = "sma_cross" THEN SmaIntents(s) ELSE Intents

NextSymbol == CHOOSE s \in todo : \A t \in todo : s \leq t

Stay ==
    /\ todo # {} /\ phase = "signalling"
    /\ todo' = todo \ {NextSymbol}
    /\ UNCHANGED <<waiting, trades, emitted>>

\* Mutant: what the last day asks for waits as well
EmitAnyDay(intent) ==
    LET order == [symbol |-> NextSymbol, side |-> intent.side, qty |-> intent.qty,
                  signal |-> day]
    IN  waiting' = Append(waiting, order) /\ UNCHANGED trades

\* An intent waits for the next bar; on the last day it is cancelled
Emit(intent) ==
    LET order == [symbol |-> NextSymbol, side |-> intent.side, qty |-> intent.qty,
                  signal |-> day]
    IN  \/ /\ day = LastDay
           /\ trades' = Refused(order, "cancelled_eob")
           /\ UNCHANGED waiting
        \/ /\ day < LastDay
           /\ waiting' = Append(waiting, order)
           /\ UNCHANGED trades

Ask(intent) ==
    /\ todo # {} /\ phase = "signalling" /\ emitted < MaxIntents
    /\ Emit(intent)
    /\ emitted' = emitted + 1
    /\ todo' = todo \ {NextSymbol}

Signal ==
    /\ Stay \/ (todo # {} /\ \E intent \in Allowed(NextSymbol) : Ask(intent))
    /\ UNCHANGED <<day, phase, strategy, feed, account, orders, curve, job>>

\* The equity at the latest closes
Equity == cash + MapThenSumSet(LAMBDA s : held[s] * last[s], Symbols)

CloseDay ==
    /\ phase = "signalling" /\ todo = {}
    /\ curve' = Append(curve, Equity)
    /\ phase' = IF day = LastDay THEN "done" ELSE "idle"
    /\ UNCHANGED <<day, strategy, feed, account, orders, waiting, todo, trades, emitted, job>>

\* on_bar raises: INTERNAL_ERROR
Fail ==
    /\ phase = "signalling" /\ todo # {}
    /\ phase' = "raised"
    /\ UNCHANGED <<day, strategy, feed, account, orders, waiting, todo, trades, curve, emitted,
                   job>>

\* The API refuses the request (invalid_input, input_too_large, missing_bars)
Refuse ==
    /\ phase = "idle" /\ day = 0
    /\ phase' = "refused"
    /\ UNCHANGED <<day, strategy, feed, account, orders, waiting, todo, trades, curve, emitted,
                   job>>

\* post_run stores what came of it
StoreJob ==
    /\ phase \in {"done", "raised"} /\ job = "none"
    /\ job' = IF phase = "done" THEN "completed" ELSE "failed"
    /\ UNCHANGED <<day, phase, strategy, feed, account, orders, waiting, todo, trades, curve,
                   emitted>>

Next ==
    \/ \E bars \in [Symbols -> UNION Range(Bars) \cup {NoBar}] : OpenDay(bars)
    \/ Fill
    \/ CloseBars
    \/ Signal
    \/ CloseDay
    \/ Fail
    \/ Refuse
    \/ StoreJob

Spec == Init /\ [][Next]_backtestVars

-----------------------------------------------------------------------------
\* Properties

\* The numbers of a sequence added up
Total(seq) ==
    LET upTo[n \in 0..Len(seq)] == IF n = 0 THEN 0 ELSE upTo[n - 1] + seq[n]
    IN  upTo[Len(seq)]

\* Sums over the trade rows of a kind
Sum(Op(_), Test(_)) ==
    Total([i \in DOMAIN trades |-> IF Test(trades[i]) THEN Op(trades[i]) ELSE 0])

IsBuy(t)  == t.status = "filled" /\ t.side = "buy"
IsSale(t) == t.status = "filled" /\ t.side = "sell"
Amount(t) == t.price * t.qty
Paid(t)   == Amount(t) + t.cost
Earned(t) == Amount(t) - t.cost

\* Every variable has its type, and a position is never short.
BacktestTypeOK ==
    /\ day \in 0..LastDay
    /\ phase \in {"idle", "filling", "signalling", "done", "raised", "refused"}
    /\ cash \in Int /\ available \in Int /\ settling \in [PayDays -> Int]
    /\ held \in [Symbols -> Nat]
    /\ todo \subseteq Symbols
    /\ emitted \in Nat
    /\ \A s \in Symbols : bar[s] \in Bars[s] \cup {NoBar}
    /\ last \in [Symbols -> Nat]

\* What is still to be paid on a day
Unpaid(d) == IF d \in PayDays THEN settling[d] ELSE 0

\* Money is neither made nor lost: what is booked is what is settled and what
\* the sales of this day and the day before still have to bring.
Conserved ==
    /\ cash = available + Unpaid(day + 1) + Unpaid(day + 2)
    /\ \A d \in PayDays \ {day + 1, day + 2} : settling[d] = 0

\* The account is the trade rows added up, and a sale is spendable two trading
\* days later, not before and not later (backtest-engine/spec.md:146); on the
\* last day, sales of the day before already are.
Booked ==
    /\ cash = Capital - Sum(Paid, IsBuy) + Sum(Earned, IsSale)
    /\ day < LastDay =>
         available = Capital - Sum(Paid, IsBuy)
                       + Sum(Earned, LAMBDA t : IsSale(t) /\ t.fill + 2 \leq day)
    /\ \A s \in Symbols :
          held[s] = Sum(LAMBDA t : t.qty, LAMBDA t : IsBuy(t) /\ t.symbol = s)
                      - Sum(LAMBDA t : t.qty, LAMBDA t : IsSale(t) /\ t.symbol = s)

\* Quantities that a strategy asks for
Lots == Quantities \cup {SmaQuantity}

\* Every sale brings at least its fee and tax.  The code does not see to it: it
\* depends on the prices and quantities of the input.
SalesPay ==
    \A s \in Symbols : \A b \in Bars[s], slip \in {10, Slippage}, qty \in Lots :
        Proceeds((b.o * (1000 - slip)) \div 1000, qty) >= 0

\* So it is, and only settled cash was spent.
BooksBalance == Booked /\ available >= 0

\* No intent is lost or answered twice: each is a row of the trades or still
\* pending, at the end only without a later bar of its symbol.  And there is no
\* look-ahead: what the bars of a day make the strategy ask for is filled on a
\* later day.
IntentsAccounted ==
    /\ emitted = Len(orders) + Len(waiting) + Len(trades)
    /\ \A i \in DOMAIN orders : orders[i].signal < day
    /\ \A i \in DOMAIN trades : trades[i].status = "cancelled_eob"
                                    \/ trades[i].signal < trades[i].fill
    /\ phase = "done" => \A i \in DOMAIN waiting : /\ waiting[i].signal < LastDay
                                                  /\ bar[waiting[i].symbol] = NoBar

\* The crossing strategy neither adds to a position nor sells what it has
\* not, although its orders wait while the symbol has no bar and are refused
\* at the limits and for want of cash.
SmaHoldsOneLot ==
    strategy = "sma_cross" =>
        /\ \A i \in DOMAIN trades : trades[i].status # "rejected_no_position"
        /\ \A s \in Symbols : held[s] \in {0, SmaQuantity}
        /\ \A s \in Symbols : phase = "idle" =>
              Cardinality({i \in DOMAIN waiting : waiting[i].symbol = s}) \leq 1

=============================================================================
