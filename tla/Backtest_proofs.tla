--------------------------- MODULE Backtest_proofs ---------------------------
(***************************************************************************)
(* For any symbols, bars, costs and number of days: the account of the     *)
(* back-test neither makes nor loses money, a position is never short, and *)
(* no intent of the strategy is lost, answered twice or filled on the day  *)
(* it was made.  The crossing strategy holds one lot at most.  The account *)
(* is the trade rows added up.  And the two reports agree: on the round    *)
(* trips, which are first in first out, and on the drawdown until the      *)
(* curve has recovered from it.                                            *)
(*                                                                         *)
(* Beside what is to be shown the invariant says where orders can be:      *)
(* those still to be looked at only while a day is being filled, and those *)
(* that wait are, until the strategy is called, orders without a bar.      *)
(* Sums are over columns, functions from the rows there can be to numbers: *)
(* a row more is its number more in each column.  The reports are loops,   *)
(* functions on the number of rounds: what every round keeps holds after   *)
(* the last one (EveryRound).  The shares of a symbol are numbered as they *)
(* were bought, and so are those sold: a trip is where the two meet.       *)
(***************************************************************************)
EXTENDS BacktestReport, FiniteSetTheorems, SequenceTheorems, WellFoundedInduction, TLAPS

Order == [symbol : Symbols, side : Sides, qty : Nat, signal : Days]

Statuses == {"filled", "rejected_limit_up", "rejected_limit_down", "rejected_no_position",
             "rejected_insufficient_cash", "cancelled_eob"}

TradeRow == [symbol : Symbols, signal : Days, side : Sides, qty : Nat, fill : 0..LastDay,
             status : Statuses, price : Int, cost : Int]

ListsOK ==
    /\ orders \in Seq(Order) /\ waiting \in Seq(Order)
    /\ trades \in Seq(TradeRow)

DaysInTurn ==
    /\ phase = "idle" => day < LastDay
    /\ phase \in {"filling", "signalling"} => day \in Days
    /\ phase = "done" => day = LastDay
    /\ phase # "filling" => orders = <<>>

\* Orders that wait: of the day before or earlier, and without a bar today, unless
\* the strategy may have asked since
WaitingOK ==
    \A i \in 1..Len(waiting) :
        /\ waiting[i].signal \leq day
        /\ phase = "filling" \/ day = LastDay =>
              /\ waiting[i].signal < day
              /\ bar[waiting[i].symbol] = NoBar

BacktestInv ==
    /\ BacktestTypeOK
    /\ ListsOK
    /\ DaysInTurn
    /\ WaitingOK
    /\ Conserved
    /\ IntentsAccounted

-----------------------------------------------------------------------------
\* The arithmetic stays within the integers

\* Fees and taxes are rounded to units of the currency
LEMMA CostIsInt ==
    ASSUME NEW side, NEW notional \in Int
    PROVE  Cost(side, notional) \in Int
<1>1. FeeRate \in Nat /\ FeeFloor \in Nat /\ TaxRate \in Nat
  BY BacktestAssumption
<1>2. (notional * FeeRate) \div 1000000 \in Int /\ (notional * TaxRate) \div 10000 \in Int
  BY <1>1
<1> QED
  BY <1>1, <1>2 DEF Cost

\* So are prices after slippage
LEMMA PriceIsInt ==
    ASSUME NEW side, NEW open \in Int, NEW close \in Int
    PROVE  FillPrice(side, open, close) \in Int
<1>1. SlippageOf(open, close) \in Int
  BY BacktestAssumption DEF SlippageOf
<1>2. /\ (open * (1000 + SlippageOf(open, close))) \div 1000 \in Int
      /\ (open * (1000 - SlippageOf(open, close))) \div 1000 \in Int
  BY <1>1
<1> QED
  BY <1>2 DEF FillPrice

\* What is sold on a day settles on one of the next two, beyond the end too
LEMMA SettlesSoon ==
    ASSUME NEW d \in Days
    PROVE  SettlementDay(d) \in PayDays /\ SettlementDay(d) \in {d + 1, d + 2}
BY BacktestAssumption DEF SettlementDay, Days, PayDays

\* A refusal is a status other than those of the account
LEMMA RefusalIsStatus ==
    ASSUME NEW side, NEW open, NEW close
    PROVE  Refusal(side, open, close) \in
               {"filled", "rejected_limit_up", "rejected_limit_down"}
BY DEF Refusal


\* What an order of a sequence is made of
LEMMA OrderFields ==
    ASSUME NEW list \in Seq(Order), NEW i \in 1..Len(list)
    PROVE  /\ list[i] \in Order
           /\ list[i].signal \in Days /\ list[i].signal \in Int
           /\ list[i].symbol \in Symbols /\ list[i].side \in Sides /\ list[i].qty \in Nat
<1>1. list[i] \in Order
  OBVIOUS
<1>2. \A o \in Order : o.signal \in Days /\ o.symbol \in Symbols /\ o.side \in Sides /\ o.qty \in Nat
  BY DEF Order
<1>3. Days \subseteq Int
  BY BacktestAssumption DEF Days
<1> QED
  BY <1>1, <1>2, <1>3

-----------------------------------------------------------------------------
\* The steps

\* A run starts with nothing but its capital
LEMMA InvInit == Init => BacktestInv
<1> SUFFICES ASSUME Init PROVE BacktestInv
  OBVIOUS
<1> USE BacktestAssumption
<1>1. BacktestTypeOK
  BY DEF Init, BacktestTypeOK, PayDays
<1>2. ListsOK /\ DaysInTurn /\ WaitingOK
  BY DEF Init, ListsOK, DaysInTurn, WaitingOK
<1>3. Conserved
  BY DEF Init, Conserved, Unpaid, PayDays
<1>4. IntentsAccounted
  BY DEF Init, IntentsAccounted
<1> QED
  BY <1>1, <1>2, <1>3, <1>4 DEF BacktestInv

\* A day opens: what is due becomes available and what waited is looked at
LEMMA OpenDayStep ==
    ASSUME BacktestInv, NEW bars, OpenDay(bars)
    PROVE  BacktestInv'
<1> USE BacktestAssumption
<1>1. /\ day \in 0..LastDay /\ day < LastDay /\ day' = day + 1 /\ day' \in Days
      /\ phase' = "filling" /\ orders = <<>> /\ orders' = waiting /\ waiting' = <<>>
      /\ trades' = trades /\ emitted' = emitted
  BY DEF BacktestInv, BacktestTypeOK, DaysInTurn, OpenDay, Days
<1>2. BacktestTypeOK'
  <2>1. \A s \in Symbols : bars[s] \in Bars[s] \cup {NoBar}
    BY DEF OpenDay
  <2>2. settling[day + 1] \in Int /\ settling' \in [PayDays -> Int]
    BY <1>1 DEF BacktestInv, BacktestTypeOK, OpenDay, PayDays
  <2>3. available' \in Int
    BY <2>2 DEF BacktestInv, BacktestTypeOK, OpenDay
  <2> QED
    BY <1>1, <2>1, <2>2, <2>3 DEF BacktestInv, BacktestTypeOK, OpenDay, Days
<1>3. ListsOK'
  BY <1>1 DEF BacktestInv, ListsOK
<1>4. DaysInTurn' /\ WaitingOK'
  BY <1>1 DEF DaysInTurn, WaitingOK
<1>5. Conserved'
  <2>1. /\ cash = available + Unpaid(day + 1) + Unpaid(day + 2)
        /\ \A d \in PayDays \ {day + 1, day + 2} : settling[d] = 0
        /\ settling \in [PayDays -> Int] /\ cash \in Int /\ available \in Int
    BY DEF BacktestInv, BacktestTypeOK, Conserved
  <2>2. /\ cash' = cash /\ available' = available + settling[day + 1]
        /\ settling' = [settling EXCEPT ![day + 1] = 0]
    BY DEF OpenDay
  <2>3. day + 1 \in PayDays /\ Unpaid(day + 1) = settling[day + 1]
    BY <1>1 DEF PayDays, Unpaid
  <2>4. /\ (IF day + 2 \in PayDays THEN settling'[day + 2] ELSE 0) = Unpaid(day + 2)
        /\ (IF day + 3 \in PayDays THEN settling'[day + 3] ELSE 0) = 0
        /\ Unpaid(day + 2) \in Int
    BY <1>1, <2>1, <2>2 DEF PayDays, Unpaid
  <2>5. \A d \in PayDays \ {day + 2, day + 3} : settling'[d] = 0
    BY <1>1, <2>1, <2>2 DEF PayDays
  <2>6. day' + 1 = day + 2 /\ day' + 2 = day + 3
    BY <1>1
  <2>7. cash' = available' + Unpaid(day + 2) + 0
    BY <2>1, <2>2, <2>3, <2>4 DEF PayDays
  <2> QED
    BY <2>4, <2>5, <2>6, <2>7 DEF Conserved, Unpaid
<1>6. IntentsAccounted'
  <2>1. Len(orders) = 0
    BY <1>1
  <2>2. \A i \in DOMAIN orders' : orders'[i].signal < day'
    <3>1. waiting \in Seq(Order) /\ DOMAIN waiting = 1..Len(waiting)
      BY DEF BacktestInv, ListsOK
    <3>2. ASSUME NEW i \in 1..Len(waiting) PROVE waiting[i].signal < day + 1
      <4>1. waiting[i].signal \in Int
        BY <3>1, OrderFields
      <4>2. waiting[i].signal \leq day
        BY DEF BacktestInv, WaitingOK
      <4> QED
        BY <1>1, <4>1, <4>2
    <3> QED
      BY <1>1, <3>1, <3>2
  <2> QED
    BY <1>1, <2>1, <2>2 DEF BacktestInv, IntentsAccounted, ListsOK
<1> QED
  BY <1>2, <1>3, <1>4, <1>5, <1>6 DEF BacktestInv

\* The order that is looked at, and those after it
LEMMA HeadOrder ==
    ASSUME BacktestInv, phase = "filling", orders # <<>>
    PROVE  /\ day \in Days /\ day \in Int
           /\ Head(orders) \in Order /\ Head(orders).signal < day
           /\ Head(orders).signal \in Int /\ Head(orders).symbol \in Symbols
           /\ Head(orders).qty \in Nat
           /\ Tail(orders) \in Seq(Order) /\ Len(Tail(orders)) = Len(orders) - 1
           /\ \A i \in DOMAIN Tail(orders) : Tail(orders)[i].signal < day
           /\ Len(orders) \in Nat
<1>1. day \in Days /\ day \in Int
  BY BacktestAssumption DEF BacktestInv, DaysInTurn, Days
<1>2. /\ orders \in Seq(Order)
      /\ \A i \in DOMAIN orders : orders[i].signal < day
  BY DEF BacktestInv, ListsOK, IntentsAccounted
<1>3. /\ Len(orders) \in Nat \ {0} /\ DOMAIN orders = 1..Len(orders)
      /\ Head(orders) = orders[1]
  BY <1>2
<1>4. /\ Tail(orders) \in Seq(Order) /\ Len(Tail(orders)) = Len(orders) - 1
      /\ DOMAIN Tail(orders) = 1..(Len(orders) - 1)
      /\ \A i \in 1..(Len(orders) - 1) : Tail(orders)[i] = orders[i + 1]
  BY <1>2, <1>3
<1>5. \A i \in 1..(Len(orders) - 1) : i + 1 \in 1..Len(orders)
  BY <1>3
<1>6. 1 \in 1..Len(orders)
  BY <1>3
<1>7. /\ orders[1] \in Order /\ orders[1].signal \in Int /\ orders[1].symbol \in Symbols
      /\ orders[1].qty \in Nat
  BY <1>2, <1>6, OrderFields
<1> QED
  BY <1>1, <1>2, <1>3, <1>4, <1>5, <1>6, <1>7

\* A row whose fill is after its signal, or that cancels, is one more row
LEMMA RowAdded ==
    ASSUME BacktestInv, NEW row \in TradeRow, trades' = Append(trades, row),
           row.status = "cancelled_eob" \/ row.signal < row.fill
    PROVE  /\ trades' \in Seq(TradeRow) /\ Len(trades') = Len(trades) + 1
           /\ Len(trades) \in Nat
           /\ \A i \in DOMAIN trades' : trades'[i].status = "cancelled_eob"
                                            \/ trades'[i].signal < trades'[i].fill
<1>1. /\ trades \in Seq(TradeRow) /\ Len(trades) \in Nat /\ DOMAIN trades = 1..Len(trades)
      /\ \A i \in DOMAIN trades : trades[i].status = "cancelled_eob"
                                      \/ trades[i].signal < trades[i].fill
  BY DEF BacktestInv, ListsOK, IntentsAccounted
<1>2. /\ trades' \in Seq(TradeRow) /\ Len(trades') = Len(trades) + 1
      /\ DOMAIN trades' = 1..(Len(trades) + 1)
      /\ trades'[Len(trades) + 1] = row
      /\ \A i \in 1..Len(trades) : trades'[i] = trades[i]
  BY <1>1
<1>3. \A i \in 1..(Len(trades) + 1) : i \in 1..Len(trades) \/ i = Len(trades) + 1
  BY <1>1
<1> QED
  BY <1>1, <1>2, <1>3

\* What a row of the order looked at says
LEMMA RowOfHead ==
    ASSUME BacktestInv, phase = "filling", orders # <<>>,
           NEW status \in Statuses \ {"cancelled_eob"}, NEW price \in Int, NEW cost \in Int
    PROVE  /\ Row(Head(orders), status, price, cost) \in TradeRow
           /\ Row(Head(orders), status, price, cost).signal
                < Row(Head(orders), status, price, cost).fill
<1>1. /\ day \in Days /\ Head(orders) \in Order /\ Head(orders).signal < day
  BY HeadOrder
<1>2. day \in 0..LastDay
  BY <1>1, BacktestAssumption DEF Days
<1>3. /\ Head(orders).symbol \in Symbols /\ Head(orders).signal \in Days
      /\ Head(orders).side \in Sides /\ Head(orders).qty \in Nat
  BY <1>1 DEF Order
<1> QED
  BY <1>1, <1>2, <1>3 DEF Row, TradeRow

\* An order that is answered by a row leaves the lists in order
LEMMA OrderAnswered ==
    ASSUME BacktestInv, phase = "filling", orders # <<>>,
           orders' = Tail(orders), waiting' = waiting,
           day' = day, phase' = phase, bar' = bar, emitted' = emitted,
           NEW status \in Statuses \ {"cancelled_eob"}, NEW price \in Int, NEW cost \in Int,
           trades' = Append(trades, Row(Head(orders), status, price, cost))
    PROVE  ListsOK' /\ DaysInTurn' /\ WaitingOK' /\ IntentsAccounted'
<1>1. /\ Row(Head(orders), status, price, cost) \in TradeRow
      /\ Row(Head(orders), status, price, cost).signal
            < Row(Head(orders), status, price, cost).fill
  BY RowOfHead
<1>2. /\ trades' \in Seq(TradeRow) /\ Len(trades') = Len(trades) + 1 /\ Len(trades) \in Nat
      /\ \A i \in DOMAIN trades' : trades'[i].status = "cancelled_eob"
                                       \/ trades'[i].signal < trades'[i].fill
  BY <1>1, RowAdded
<1>3. /\ Tail(orders) \in Seq(Order) /\ Len(Tail(orders)) = Len(orders) - 1
      /\ \A i \in DOMAIN Tail(orders) : Tail(orders)[i].signal < day
      /\ Len(orders) \in Nat
  BY HeadOrder
<1>4. ListsOK'
  BY <1>2, <1>3 DEF BacktestInv, ListsOK
<1>5. DaysInTurn' /\ WaitingOK'
  BY DEF BacktestInv, DaysInTurn, WaitingOK
<1>6. IntentsAccounted'
  <2>1. emitted = Len(orders) + Len(waiting) + Len(trades) /\ Len(waiting) \in Nat
    BY DEF BacktestInv, IntentsAccounted, ListsOK
  <2>2. emitted' = Len(orders') + Len(waiting') + Len(trades')
    BY <1>2, <1>3, <2>1
  <2> QED
    BY <1>2, <1>3, <2>2 DEF IntentsAccounted
<1> QED
  BY <1>4, <1>5, <1>6

\* The account, its types and its balance stay when nothing of it changes
LEMMA AccountKept ==
    ASSUME BacktestInv, account' = account, day' = day, phase' = phase, bar' = bar,
           last' = last, todo' = todo, emitted' = emitted
    PROVE  BacktestTypeOK' /\ Conserved'
<1>1. BacktestTypeOK'
  BY DEF BacktestInv, BacktestTypeOK, account
<1>2. Conserved'
  BY DEF BacktestInv, Conserved, Unpaid, account
<1> QED
  BY <1>1, <1>2

\* An order whose symbol has no bar goes back to those that wait
LEMMA PostponeStep ==
    ASSUME BacktestInv, Fill, Postpone
    PROVE  BacktestInv'
<1>1. /\ phase = "filling" /\ orders # <<>> /\ bar[Head(orders).symbol] = NoBar
      /\ waiting' = Append(waiting, Head(orders)) /\ orders' = Tail(orders)
      /\ account' = account /\ trades' = trades /\ day' = day /\ phase' = phase
      /\ bar' = bar /\ last' = last /\ todo' = todo /\ emitted' = emitted
  BY DEF Postpone, Fill, feed
<1>2. /\ Head(orders) \in Order /\ Head(orders).signal < day /\ Head(orders).signal \in Int
      /\ day \in Int /\ Len(orders) \in Nat
      /\ Tail(orders) \in Seq(Order) /\ Len(Tail(orders)) = Len(orders) - 1
      /\ \A i \in DOMAIN Tail(orders) : Tail(orders)[i].signal < day
  BY <1>1, HeadOrder
<1>3. waiting \in Seq(Order) /\ trades \in Seq(TradeRow) /\ Len(waiting) \in Nat
  BY DEF BacktestInv, ListsOK
<1>4. /\ waiting' \in Seq(Order) /\ Len(waiting') = Len(waiting) + 1
      /\ waiting'[Len(waiting) + 1] = Head(orders)
      /\ \A i \in 1..Len(waiting) : waiting'[i] = waiting[i]
  BY <1>1, <1>2, <1>3
<1>5. ListsOK' /\ DaysInTurn'
  BY <1>1, <1>2, <1>3, <1>4 DEF BacktestInv, ListsOK, DaysInTurn
<1>6. WaitingOK'
  <2>1. ASSUME NEW i \in 1..Len(waiting')
        PROVE  /\ waiting'[i].signal \leq day
               /\ waiting'[i].signal < day /\ bar[waiting'[i].symbol] = NoBar
    <3>1. CASE i \in 1..Len(waiting)
      BY <1>1, <1>4, <3>1 DEF BacktestInv, WaitingOK
    <3>2. CASE i = Len(waiting) + 1
      BY <1>1, <1>2, <1>4, <3>2
    <3> QED
      BY <1>3, <1>4, <3>1, <3>2
  <2> QED
    BY <1>1, <2>1 DEF WaitingOK
<1>7. IntentsAccounted'
  <2>1. /\ emitted = Len(orders) + Len(waiting) + Len(trades) /\ Len(trades) \in Nat
        /\ \A i \in DOMAIN trades : trades[i].status = "cancelled_eob"
                                        \/ trades[i].signal < trades[i].fill
    BY <1>3 DEF BacktestInv, IntentsAccounted
  <2>2. emitted' = Len(orders') + Len(waiting') + Len(trades')
    BY <1>1, <1>2, <1>3, <1>4, <2>1
  <2> QED
    BY <1>1, <1>2, <2>1, <2>2 DEF IntentsAccounted
<1>8. BacktestTypeOK' /\ Conserved'
  BY <1>1, AccountKept
<1> QED
  BY <1>5, <1>6, <1>7, <1>8 DEF BacktestInv

\* A refusal leaves the account alone and is a row
LEMMA RefusedStep ==
    ASSUME BacktestInv, phase = "filling", orders # <<>>, orders' = Tail(orders),
           UNCHANGED <<waiting, day, phase, strategy, feed, todo, curve, emitted, job>>,
           account' = account,
           NEW status \in Statuses \ {"cancelled_eob"},
           trades' = Refused(Head(orders), status)
    PROVE  BacktestInv'
<1>1. BacktestTypeOK' /\ Conserved'
  BY AccountKept DEF feed
<1>2. trades' = Append(trades, Row(Head(orders), status, 0, 0))
  BY DEF Refused
<1>3. ListsOK' /\ DaysInTurn' /\ WaitingOK' /\ IntentsAccounted'
  BY <1>2, OrderAnswered DEF feed
<1> QED
  BY <1>1, <1>3 DEF BacktestInv

\* The price of the order looked at, and what it takes or brings, are integers
LEMMA FillIsInt ==
    ASSUME BacktestInv, phase = "filling", orders # <<>>,
           bar[Head(orders).symbol] # NoBar, NEW side
    PROVE  LET order == Head(orders)
               price == FillPrice(side, bar[order.symbol].o, last[order.symbol])
           IN  /\ price \in Int /\ price * order.qty \in Int
               /\ Cost(side, price * order.qty) \in Int
               /\ price * order.qty + Cost(side, price * order.qty) \in Int
               /\ price * order.qty - Cost(side, price * order.qty) \in Int
<1> DEFINE order == Head(orders)
           price == FillPrice(side, bar[order.symbol].o, last[order.symbol])
<1>1. order.symbol \in Symbols /\ order.qty \in Nat
  BY HeadOrder
<1>2. bar[order.symbol] \in [o : Nat \ {0}, c : Nat \ {0}] /\ last[order.symbol] \in Nat
  BY <1>1, BacktestAssumption DEF BacktestInv, BacktestTypeOK
<1>3. price \in Int
  BY <1>2, PriceIsInt
<1> HIDE DEF price
<1>4. price * order.qty \in Int
  BY <1>1, <1>3
<1>5. Cost(side, price * order.qty) \in Int
  BY <1>4, CostIsInt
<1> QED
  BY <1>3, <1>4, <1>5 DEF price

\* A buy is refused or takes from booked and settled cash alike
LEMMA FillBuyStep ==
    ASSUME BacktestInv, Fill, FillBuy
    PROVE  BacktestInv'
<1> DEFINE order   == Head(orders)
           open    == bar[order.symbol].o
           close   == last[order.symbol]
           price   == FillPrice("buy", open, close)
           outflow == Outflow(price, order.qty)
<1>1. /\ phase = "filling" /\ orders # <<>> /\ bar[order.symbol] # NoBar
      /\ orders' = Tail(orders)
      /\ UNCHANGED <<waiting, day, phase, strategy, feed, todo, curve, emitted, job>>
  BY DEF FillBuy, Fill
<1>2. CASE /\ account' = account
           /\ \E status \in Statuses \ {"cancelled_eob"} : trades' = Refused(order, status)
  BY <1>1, <1>2, RefusedStep
<1>3. CASE /\ cash' = cash - outflow /\ available' = available - outflow
           /\ held' = [held EXCEPT ![order.symbol] = @ + order.qty]
           /\ trades' = Append(trades, Row(order, "filled", price,
                                           Cost("buy", price * order.qty)))
           /\ settling' = settling
  <2>1. /\ price \in Int /\ Cost("buy", price * order.qty) \in Int /\ outflow \in Int
    BY <1>1, FillIsInt DEF Outflow
  <2>2. order.symbol \in Symbols /\ order.qty \in Nat
    BY <1>1, HeadOrder
  <2> HIDE DEF outflow, price
  <2>3. BacktestTypeOK'
    BY <1>1, <1>3, <2>1, <2>2 DEF BacktestInv, BacktestTypeOK, feed
  <2>4. Conserved'
    <3>1. /\ cash = available + Unpaid(day + 1) + Unpaid(day + 2)
          /\ \A d \in PayDays \ {day + 1, day + 2} : settling[d] = 0
          /\ settling \in [PayDays -> Int] /\ cash \in Int /\ available \in Int
      BY DEF BacktestInv, BacktestTypeOK, Conserved
    <3>2. Unpaid(day + 1) \in Int /\ Unpaid(day + 2) \in Int
      BY <3>1 DEF Unpaid
    <3>3. cash' = available' + Unpaid(day + 1) + Unpaid(day + 2)
      BY <1>3, <2>1, <3>1, <3>2
    <3> QED
      BY <1>1, <1>3, <3>1, <3>3 DEF Conserved, Unpaid
  <2>5. "filled" \in Statuses \ {"cancelled_eob"}
    BY DEF Statuses
  <2>6. ListsOK' /\ DaysInTurn' /\ WaitingOK' /\ IntentsAccounted'
    BY <1>1, <1>3, <2>1, <2>5, OrderAnswered DEF feed
  <2> QED
    BY <2>3, <2>4, <2>6 DEF BacktestInv
<1>4. /\ Refusal("buy", open, close) # "filled"
            => Refusal("buy", open, close) \in Statuses \ {"cancelled_eob"}
      /\ "rejected_insufficient_cash" \in Statuses \ {"cancelled_eob"}
  BY RefusalIsStatus DEF Statuses
<1> QED
  BY <1>2, <1>3, <1>4 DEF FillBuy, account

\* A sale is refused or is booked now and settles later
LEMMA FillSellStep ==
    ASSUME BacktestInv, Fill, FillSell
    PROVE  BacktestInv'
<1> DEFINE order == Head(orders)
           open  == bar[order.symbol].o
           close == last[order.symbol]
           price == FillPrice("sell", open, close)
           net   == Proceeds(price, order.qty)
           pays  == SettlementDay(day)
<1>1. /\ phase = "filling" /\ orders # <<>> /\ bar[order.symbol] # NoBar
      /\ orders' = Tail(orders)
      /\ UNCHANGED <<waiting, day, phase, strategy, feed, todo, curve, emitted, job>>
  BY DEF FillSell, Fill
<1>2. CASE /\ account' = account
           /\ \E status \in Statuses \ {"cancelled_eob"} : trades' = Refused(order, status)
  BY <1>1, <1>2, RefusedStep
<1>3. CASE /\ order.qty \leq held[order.symbol]
           /\ cash' = cash + net /\ available' = available
           /\ settling' = [settling EXCEPT ![pays] = @ + net]
           /\ held' = [held EXCEPT ![order.symbol] = @ - order.qty]
           /\ trades' = Append(trades, Row(order, "filled", price,
                                           Cost("sell", price * order.qty)))
  <2>1. /\ price \in Int /\ Cost("sell", price * order.qty) \in Int /\ net \in Int
    BY <1>1, FillIsInt DEF Proceeds
  <2>2. order.symbol \in Symbols /\ order.qty \in Nat /\ day \in Days /\ day \in Int
    BY <1>1, HeadOrder
  <2>3. pays \in PayDays /\ pays \in {day + 1, day + 2}
    BY <2>2, SettlesSoon
  <2> HIDE DEF net, price, pays
  <2>4. BacktestTypeOK'
    <3>1. held' \in [Symbols -> Nat]
      <4>1. held[order.symbol] \in Nat /\ held \in [Symbols -> Nat]
        BY <2>2 DEF BacktestInv, BacktestTypeOK
      <4>2. held[order.symbol] - order.qty \in Nat
        BY <1>3, <2>2, <4>1
      <4> QED
        BY <1>3, <4>1, <4>2
    <3>2. settling' \in [PayDays -> Int]
      <4>1. settling \in [PayDays -> Int] /\ settling[pays] \in Int
        BY <2>3 DEF BacktestInv, BacktestTypeOK
      <4>2. settling[pays] + net \in Int
        BY <2>1, <4>1
      <4> QED
        BY <1>3, <4>1, <4>2
    <3>3. cash' \in Int /\ available' \in Int
      BY <1>3, <2>1 DEF BacktestInv, BacktestTypeOK
    <3> QED
      BY <1>1, <3>1, <3>2, <3>3 DEF BacktestInv, BacktestTypeOK, feed
  <2>5. Conserved'
    <3>1. /\ cash = available + Unpaid(day + 1) + Unpaid(day + 2)
          /\ \A d \in PayDays \ {day + 1, day + 2} : settling[d] = 0
          /\ settling \in [PayDays -> Int] /\ cash \in Int /\ available \in Int
      BY DEF BacktestInv, BacktestTypeOK, Conserved
    <3>2. Unpaid(day + 1) \in Int /\ Unpaid(day + 2) \in Int
      BY <3>1 DEF Unpaid
    <3>3. \A d \in PayDays \ {day + 1, day + 2} : settling'[d] = 0
      BY <1>3, <2>3, <3>1
    <3>4. (IF day + 1 \in PayDays THEN settling'[day + 1] ELSE 0)
             + (IF day + 2 \in PayDays THEN settling'[day + 2] ELSE 0)
          = Unpaid(day + 1) + Unpaid(day + 2) + net
      <4>1. day + 1 # day + 2
        BY <2>2
      <4>2. CASE pays = day + 1
        <5>1. settling'[day + 1] = settling[day + 1] + net /\ settling[day + 1] \in Int
          BY <1>3, <2>3, <3>1, <4>2
        <5>2. day + 2 \in PayDays => settling'[day + 2] = settling[day + 2]
          BY <1>3, <2>3, <3>1, <4>1, <4>2
        <5> QED
          BY <2>1, <2>3, <3>2, <4>2, <5>1, <5>2 DEF Unpaid
      <4>3. CASE pays = day + 2
        <5>1. settling'[day + 2] = settling[day + 2] + net /\ settling[day + 2] \in Int
          BY <1>3, <2>3, <3>1, <4>3
        <5>2. day + 1 \in PayDays => settling'[day + 1] = settling[day + 1]
          BY <1>3, <2>3, <3>1, <4>1, <4>3
        <5> QED
          BY <2>1, <2>3, <3>2, <4>3, <5>1, <5>2 DEF Unpaid
      <4> QED
        BY <2>3, <4>2, <4>3
    <3>5. (IF day + 1 \in PayDays THEN settling'[day + 1] ELSE 0) \in Int
          /\ (IF day + 2 \in PayDays THEN settling'[day + 2] ELSE 0) \in Int
      BY <2>4 DEF BacktestTypeOK
    <3>6. cash' = available' + (IF day + 1 \in PayDays THEN settling'[day + 1] ELSE 0)
                     + (IF day + 2 \in PayDays THEN settling'[day + 2] ELSE 0)
      <4> DEFINE first  == IF day + 1 \in PayDays THEN settling'[day + 1] ELSE 0
                 second == IF day + 2 \in PayDays THEN settling'[day + 2] ELSE 0
      <4>1. first + second = Unpaid(day + 1) + Unpaid(day + 2) + net
        BY <3>4
      <4>2. first \in Int /\ second \in Int
        BY <3>5
      <4> HIDE DEF first, second
      <4>3. cash' = available' + first + second
        BY <1>3, <2>1, <3>1, <3>2, <4>1, <4>2
      <4> QED
        BY <4>3 DEF first, second
    <3> QED
      BY <1>1, <3>3, <3>6 DEF Conserved, Unpaid
  <2>6. "filled" \in Statuses \ {"cancelled_eob"}
    BY DEF Statuses
  <2>7. ListsOK' /\ DaysInTurn' /\ WaitingOK' /\ IntentsAccounted'
    BY <1>1, <1>3, <2>1, <2>6, OrderAnswered DEF feed
  <2> QED
    BY <2>4, <2>5, <2>7 DEF BacktestInv
<1>4. /\ Refusal("sell", open, close) # "filled"
            => Refusal("sell", open, close) \in Statuses \ {"cancelled_eob"}
      /\ "rejected_no_position" \in Statuses \ {"cancelled_eob"}
  BY RefusalIsStatus DEF Statuses
<1> QED
  BY <1>2, <1>3, <1>4 DEF FillSell, account

-----------------------------------------------------------------------------
\* The strategy

\* The symbols, being numbers, have a first one among those still to be visited
LEMMA NextIsToDo ==
    ASSUME todo \subseteq Symbols, todo # {}
    PROVE  NextSymbol \in todo
<1>1. Symbols \subseteq Nat
  BY BacktestAssumption
<1>2. \E s \in todo : \A t \in todo : ~(<<t, s>> \in OpToRel(<, Nat))
  <2> DEFINE Less == OpToRel(<, Nat)
  <2>1. IsWellFoundedOn(Less, Nat) /\ todo \subseteq Nat
    BY <1>1, NatLessThanWellFounded
  <2> HIDE DEF Less
  <2>2. \E s \in todo : \A t \in todo : ~(<<t, s>> \in Less)
    BY <2>1, WFMin
  <2> QED
    BY <2>2 DEF Less
<1>3. PICK s \in todo : \A t \in todo : ~(<<t, s>> \in OpToRel(<, Nat))
  BY <1>2
<1>4. ASSUME NEW t \in todo PROVE s \leq t
  <2>1. s \in Nat /\ t \in Nat
    BY <1>1
  <2>2. <<t, s>> \notin {pair \in Nat \X Nat : pair[1] < pair[2]}
    BY <1>3 DEF OpToRel
  <2>3. ~(t < s)
    BY <2>1, <2>2
  <2> QED
    BY <2>1, <2>3
<1> QED
  BY <1>4 DEF NextSymbol

\* At the close nothing is left to be looked at, and no symbol that waits has a bar
LEMMA CloseBarsStep ==
    ASSUME BacktestInv, CloseBars
    PROVE  BacktestInv'
<1>1. /\ phase = "filling" /\ phase' = "signalling" /\ orders = <<>>
      /\ orders' = orders /\ waiting' = waiting /\ trades' = trades /\ emitted' = emitted
      /\ day' = day /\ bar' = bar /\ account' = account
  BY DEF CloseBars
<1>2. BacktestTypeOK'
  <2>1. todo' \subseteq Symbols
    BY DEF CloseBars, BacktestInv, BacktestTypeOK
  <2>2. ASSUME NEW s \in Symbols
        PROVE  (IF bar[s] = NoBar THEN last[s] ELSE bar[s].c) \in Nat
    <3>1. last[s] \in Nat /\ bar[s] \in Bars[s] \cup {NoBar}
      BY DEF BacktestInv, BacktestTypeOK
    <3>2. bar[s] # NoBar => bar[s] \in [o : Nat \ {0}, c : Nat \ {0}]
      BY <3>1, BacktestAssumption
    <3> QED
      BY <3>1, <3>2
  <2>3. last' \in [Symbols -> Nat]
    BY <2>2 DEF CloseBars
  <2> QED
    BY <1>1, <2>1, <2>3 DEF BacktestInv, BacktestTypeOK, account
<1>3. ListsOK' /\ DaysInTurn' /\ WaitingOK'
  BY <1>1 DEF BacktestInv, ListsOK, DaysInTurn, WaitingOK
<1>4. Conserved'
  BY <1>1 DEF BacktestInv, Conserved, Unpaid, account
<1>5. IntentsAccounted'
  BY <1>1 DEF BacktestInv, IntentsAccounted
<1> QED
  BY <1>2, <1>3, <1>4, <1>5 DEF BacktestInv

\* A strategy may let a symbol pass
LEMMA StayStep ==
    ASSUME BacktestInv, Signal, Stay
    PROVE  BacktestInv'
<1>1. /\ phase' = phase /\ phase = "signalling" /\ todo' = todo \ {NextSymbol}
      /\ orders' = orders /\ waiting' = waiting /\ trades' = trades /\ emitted' = emitted
      /\ day' = day /\ bar' = bar /\ last' = last /\ account' = account
  BY DEF Signal, Stay, feed
<1>2. BacktestTypeOK'
  BY <1>1 DEF BacktestInv, BacktestTypeOK, account
<1>3. ListsOK' /\ DaysInTurn' /\ WaitingOK'
  BY <1>1 DEF BacktestInv, ListsOK, DaysInTurn, WaitingOK
<1>4. Conserved' /\ IntentsAccounted'
  BY <1>1 DEF BacktestInv, Conserved, Unpaid, account, IntentsAccounted
<1> QED
  BY <1>2, <1>3, <1>4 DEF BacktestInv

\* What the crossing strategy, or any other, asks for is a positive quantity
LEMMA AllowedIntent ==
    ASSUME BacktestInv, NEW s \in Symbols, NEW intent \in Allowed(s)
    PROVE  intent.side \in Sides /\ intent.qty \in Nat
<1>1. held[s] \in Nat /\ SmaQuantity \in Nat /\ Quantities \subseteq Nat
  BY BacktestAssumption DEF BacktestInv, BacktestTypeOK
<1>2. CASE intent \in Intents
  BY <1>1, <1>2 DEF Intents
<1>3. CASE intent \in SmaIntents(s)
  BY <1>1, <1>3 DEF SmaIntents, Sides
<1> QED
  BY <1>2, <1>3 DEF Allowed

\* An intent waits or, on the last day, is cancelled
LEMMA AskStep ==
    ASSUME BacktestInv, Signal, todo # {}, NEW intent \in Allowed(NextSymbol), Ask(intent),
           UNCHANGED <<day, phase, strategy, feed, account, orders, curve, job>>
    PROVE  BacktestInv'
<1> DEFINE order == [symbol |-> NextSymbol, side |-> intent.side, qty |-> intent.qty,
                     signal |-> day]
<1>1. /\ phase = "signalling" /\ phase' = phase /\ todo' = todo \ {NextSymbol}
      /\ orders = <<>> /\ orders' = orders /\ emitted' = emitted + 1
      /\ day' = day /\ bar' = bar /\ last' = last /\ account' = account
      /\ day \in Days /\ day \in 0..LastDay /\ day \in Int
  BY BacktestAssumption DEF Ask, feed, BacktestInv, BacktestTypeOK, DaysInTurn, Days
<1>2. NextSymbol \in Symbols
  BY NextIsToDo DEF BacktestInv, BacktestTypeOK
<1>3. intent.side \in Sides /\ intent.qty \in Nat
  BY <1>2, AllowedIntent
<1>4. /\ waiting \in Seq(Order) /\ Len(waiting) \in Nat
      /\ trades \in Seq(TradeRow) /\ Len(trades) \in Nat
      /\ emitted = Len(orders) + Len(waiting) + Len(trades) /\ Len(orders) = 0
      /\ emitted \in Nat
  BY <1>1 DEF BacktestInv, BacktestTypeOK, ListsOK, IntentsAccounted
<1>5. BacktestTypeOK'
  BY <1>1, <1>4 DEF BacktestInv, BacktestTypeOK, account
<1>6. DaysInTurn'
  BY <1>1 DEF BacktestInv, DaysInTurn
<1>7. Conserved'
  BY <1>1 DEF BacktestInv, Conserved, Unpaid, account
<1>8. CASE /\ day = LastDay /\ trades' = Refused(order, "cancelled_eob")
           /\ waiting' = waiting
  <2>1. Row(order, "cancelled_eob", 0, 0) \in TradeRow
    BY <1>1, <1>2, <1>3, BacktestAssumption DEF Row, TradeRow, Statuses
  <2>2. Row(order, "cancelled_eob", 0, 0).status = "cancelled_eob"
    BY DEF Row
  <2>3. trades' = Append(trades, Row(order, "cancelled_eob", 0, 0))
    BY <1>8 DEF Refused
  <2>4. /\ trades' \in Seq(TradeRow) /\ Len(trades') = Len(trades) + 1
        /\ \A i \in DOMAIN trades' : trades'[i].status = "cancelled_eob"
                                         \/ trades'[i].signal < trades'[i].fill
    BY <2>1, <2>2, <2>3, RowAdded
  <2>5. ListsOK' /\ WaitingOK'
    BY <1>1, <1>8, <2>4 DEF BacktestInv, ListsOK, WaitingOK
  <2>6. IntentsAccounted'
    <3>1. emitted' = Len(orders') + Len(waiting') + Len(trades')
      <4>1. Len(waiting') = Len(waiting) /\ Len(orders') = 0
        BY <1>1, <1>4, <1>8
      <4> QED
        BY <1>1, <1>4, <2>4, <4>1
    <3> QED
      BY <1>1, <2>4, <3>1 DEF BacktestInv, IntentsAccounted
  <2> QED
    BY <1>5, <1>6, <1>7, <2>5, <2>6 DEF BacktestInv
<1>9. CASE day < LastDay /\ waiting' = Append(waiting, order) /\ trades' = trades
  <2>1. order \in Order
    BY <1>1, <1>2, <1>3 DEF Order
  <2> HIDE DEF order
  <2>2. /\ waiting' \in Seq(Order) /\ Len(waiting') = Len(waiting) + 1
        /\ waiting'[Len(waiting) + 1] = order
        /\ \A i \in 1..Len(waiting) : waiting'[i] = waiting[i]
    BY <1>4, <1>9, <2>1
  <2>3. ListsOK'
    BY <1>1, <1>9, <2>2 DEF BacktestInv, ListsOK
  <2>4. WaitingOK'
    <3>1. ASSUME NEW i \in 1..Len(waiting') PROVE waiting'[i].signal \leq day
      <4>1. CASE i \in 1..Len(waiting)
        BY <2>2, <4>1 DEF BacktestInv, WaitingOK
      <4>2. CASE i = Len(waiting) + 1
        BY <1>1, <2>2, <4>2 DEF order
      <4> QED
        BY <1>4, <2>2, <4>1, <4>2
    <3>2. day # LastDay
      BY <1>1, <1>9, BacktestAssumption
    <3> QED
      BY <1>1, <3>1, <3>2 DEF WaitingOK
  <2>5. IntentsAccounted'
    <3>1. emitted' = Len(orders') + Len(waiting') + Len(trades')
      BY <1>1, <1>4, <1>9, <2>2
    <3> QED
      BY <1>1, <1>9, <3>1 DEF BacktestInv, IntentsAccounted
  <2> QED
    BY <1>5, <1>6, <1>7, <2>3, <2>4, <2>5 DEF BacktestInv
<1> QED
  BY <1>8, <1>9 DEF Ask, Emit

\* A day ends; on the last one nothing of that day waits
LEMMA CloseDayStep ==
    ASSUME BacktestInv, CloseDay
    PROVE  BacktestInv'
<1>1. /\ phase = "signalling" /\ phase' = IF day = LastDay THEN "done" ELSE "idle"
      /\ day \in Days /\ orders = <<>>
      /\ orders' = orders /\ waiting' = waiting /\ trades' = trades /\ emitted' = emitted
      /\ day' = day /\ bar' = bar /\ last' = last /\ todo' = todo /\ account' = account
  BY DEF CloseDay, feed, BacktestInv, DaysInTurn
<1>2. BacktestTypeOK' /\ ListsOK'
  BY <1>1 DEF BacktestInv, BacktestTypeOK, ListsOK, account
<1>3. DaysInTurn' /\ WaitingOK'
  BY <1>1, BacktestAssumption DEF BacktestInv, DaysInTurn, WaitingOK, Days
<1>4. Conserved'
  BY <1>1 DEF BacktestInv, Conserved, Unpaid, account
<1>5. IntentsAccounted'
  <2>1. phase' = "done" => \A i \in DOMAIN waiting : /\ waiting[i].signal < LastDay
                                                    /\ bar[waiting[i].symbol] = NoBar
    BY <1>1 DEF BacktestInv, ListsOK, WaitingOK
  <2> QED
    BY <1>1, <2>1 DEF BacktestInv, IntentsAccounted
<1> QED
  BY <1>2, <1>3, <1>4, <1>5 DEF BacktestInv

\* A run that stops, and its job, leave account and lists as they are
LEMMA EndStep ==
    ASSUME BacktestInv, Fail \/ Refuse \/ StoreJob \/ UNCHANGED backtestVars
    PROVE  BacktestInv'
<1>1. /\ phase' \in {phase, "raised", "refused"} /\ (phase' # phase => phase # "filling")
      /\ orders' = orders /\ waiting' = waiting /\ trades' = trades /\ emitted' = emitted
      /\ day' = day /\ bar' = bar /\ last' = last /\ todo' = todo /\ account' = account
  BY DEF Fail, Refuse, StoreJob, backtestVars, feed, account
<1>2. BacktestTypeOK' /\ ListsOK'
  BY <1>1 DEF BacktestInv, BacktestTypeOK, ListsOK, account
<1>3. DaysInTurn' /\ WaitingOK'
  BY <1>1 DEF BacktestInv, DaysInTurn, WaitingOK
<1>4. Conserved' /\ IntentsAccounted'
  BY <1>1 DEF BacktestInv, Conserved, Unpaid, account, IntentsAccounted
<1> QED
  BY <1>2, <1>3, <1>4 DEF BacktestInv

-----------------------------------------------------------------------------
\* The theorems

\* Every step keeps the invariant
LEMMA InvNext == BacktestInv /\ [Next]_backtestVars => BacktestInv'
<1> SUFFICES ASSUME BacktestInv, [Next]_backtestVars PROVE BacktestInv'
  OBVIOUS
<1>1. ASSUME NEW bars \in [Symbols -> UNION Range(Bars) \cup {NoBar}], OpenDay(bars)
      PROVE  BacktestInv'
  BY <1>1, OpenDayStep
<1>2. CASE Fill
  BY <1>2, PostponeStep, FillBuyStep, FillSellStep DEF Fill
<1>3. CASE CloseBars
  BY <1>3, CloseBarsStep
<1>4. CASE Signal
  BY <1>4, StayStep, AskStep DEF Signal
<1>5. CASE CloseDay
  BY <1>5, CloseDayStep
<1>6. CASE Fail \/ Refuse \/ StoreJob \/ UNCHANGED backtestVars
  BY <1>6, EndStep
<1> QED
  BY <1>1, <1>2, <1>3, <1>4, <1>5, <1>6 DEF Next

\* and so every behaviour has it throughout
LEMMA InvAlways == Spec => []BacktestInv
BY InvInit, InvNext, PTL DEF Spec

\* The variables of the engine (backtest/engine.py:run_backtest) keep their types
\* and no sale is filled for more than is held: a position is never short.
THEOREM NeverShort == Spec => []BacktestTypeOK
<1>1. BacktestInv => BacktestTypeOK
  BY DEF BacktestInv
<1> QED
  BY <1>1, InvAlways, PTL

\* Whatever the bars, the fees and the order of sales and purchases, booked cash
\* is settled cash and what the sales of the last two days still bring: the
\* portfolio (backtest/portfolio.py) neither makes nor loses money, and nothing
\* settles on a day that has passed.
THEOREM MoneyConserved == Spec => []Conserved
<1>1. BacktestInv => Conserved
  BY DEF BacktestInv
<1> QED
  BY <1>1, InvAlways, PTL

\* Every intent of the strategy is a trade row or still pending, in no run is it
\* both or neither; it is filled, if ever, on a later day than it was made; and at
\* the end only orders without a bar on the last day are pending.
THEOREM NoIntentLost == Spec => []IntentsAccounted
<1>1. BacktestInv => IntentsAccounted
  BY DEF BacktestInv
<1> QED
  BY <1>1, InvAlways, PTL

-----------------------------------------------------------------------------
\* The crossing strategy
\*
\* That the positions are right is not inductive: it depends on the orders that
\* wait.  The invariant says that there is at most one order of a symbol, waiting
\* or to be looked at, that it is the one its position calls for, and that none
\* of a symbol waits whose call is still to come.

\* The order the position of its symbol calls for: a lot when there is none, or
\* all there is
Fits(order, hs) ==
    /\ order.qty = SmaQuantity
    /\ hs[order.symbol] = IF order.side = "buy" THEN 0 ELSE SmaQuantity

\* No two orders of a symbol in a list
OneEach(list) == \A i, j \in 1..Len(list) : list[i].symbol = list[j].symbol => i = j

\* or in two
Apart(list, others) ==
    \A i \in 1..Len(list), j \in 1..Len(others) : list[i].symbol # others[j].symbol

AllFit(list, hs) == \A i \in 1..Len(list) : Fits(list[i], hs)

Positions(hs) == \A s \in Symbols : hs[s] \in {0, SmaQuantity}

NeverWithout(rows) == \A i \in 1..Len(rows) : rows[i].status # "rejected_no_position"

\* Whose call is to come has a bar, so its orders have been looked at
CallsOK(ph, calls, bars, list) ==
    /\ ph = "filling" => \A s \in calls : bars[s] # NoBar
    /\ ph = "signalling" => \A i \in 1..Len(list) : list[i].symbol \notin calls

SmaInv ==
    strategy = "sma_cross" =>
        /\ Positions(held)
        /\ NeverWithout(trades)
        /\ OneEach(orders) /\ OneEach(waiting) /\ Apart(orders, waiting)
        /\ AllFit(orders, held) /\ AllFit(waiting, held)
        /\ CallsOK(phase, todo, bar, waiting)

\* One more order, of a symbol that has none, and the rest as it was
LEMMA OneMore ==
    ASSUME NEW list \in Seq(Order), NEW order \in Order, OneEach(list),
           \A i \in 1..Len(list) : list[i].symbol # order.symbol
    PROVE  /\ OneEach(Append(list, order))
           /\ \A i \in 1..Len(Append(list, order)) :
                 Append(list, order)[i] = order
                   \/ \E j \in 1..Len(list) : Append(list, order)[i] = list[j]
<1> DEFINE more == Append(list, order)
<1>1. /\ Len(list) \in Nat /\ Len(more) = Len(list) + 1
      /\ more[Len(list) + 1] = order
      /\ \A i \in 1..Len(list) : more[i] = list[i]
  OBVIOUS
<1> HIDE DEF more
<1>2. \A i \in 1..Len(more) : i \in 1..Len(list) \/ i = Len(list) + 1
  BY <1>1
<1>3. OneEach(more)
  <2> SUFFICES ASSUME NEW i \in 1..Len(more), NEW j \in 1..Len(more),
                      more[i].symbol = more[j].symbol
               PROVE  i = j
    BY DEF OneEach
  <2>1. CASE i \in 1..Len(list) /\ j \in 1..Len(list)
    BY <1>1, <2>1 DEF OneEach
  <2>2. CASE i = Len(list) + 1 \/ j = Len(list) + 1
    BY <1>1, <1>2, <2>2
  <2> QED
    BY <1>2, <2>1, <2>2
<1>4. \A i \in 1..Len(more) : more[i] = order \/ \E j \in 1..Len(list) : more[i] = list[j]
  BY <1>1, <1>2
<1> QED
  BY <1>3, <1>4 DEF more

\* The first order of a list is of a symbol of its own
LEMMA FirstOfMany ==
    ASSUME NEW list \in Seq(Order), list # <<>>, OneEach(list)
    PROVE  /\ OneEach(Tail(list))
           /\ \A i \in 1..Len(Tail(list)) : /\ Tail(list)[i].symbol # Head(list).symbol
                                            /\ \E j \in 1..Len(list) : Tail(list)[i] = list[j]
           /\ \E j \in 1..Len(list) : Head(list) = list[j]
<1>1. /\ Len(list) \in Nat \ {0} /\ Head(list) = list[1] /\ 1 \in 1..Len(list)
      /\ Len(Tail(list)) = Len(list) - 1
      /\ \A i \in 1..Len(Tail(list)) : /\ Tail(list)[i] = list[i + 1]
                                       /\ i + 1 \in 1..Len(list) /\ i + 1 # 1
  OBVIOUS
<1>2. OneEach(Tail(list))
  <2> SUFFICES ASSUME NEW i \in 1..Len(Tail(list)), NEW j \in 1..Len(Tail(list)),
                      Tail(list)[i].symbol = Tail(list)[j].symbol
               PROVE  i = j
    BY DEF OneEach
  <2>1. i + 1 = j + 1
    BY <1>1 DEF OneEach
  <2> QED
    BY <1>1, <2>1
<1>3. ASSUME NEW i \in 1..Len(Tail(list))
      PROVE  Tail(list)[i].symbol # Head(list).symbol
  BY <1>1 DEF OneEach
<1> QED
  BY <1>1, <1>2, <1>3

\* Nothing of the strategy's book changes
LEMMA SmaKept ==
    ASSUME SmaInv, strategy' = strategy, held' = held, trades' = trades,
           orders' = orders, waiting' = waiting,
           CallsOK(phase, todo, bar, waiting) => CallsOK(phase', todo', bar', waiting)
    PROVE  SmaInv'
BY DEF SmaInv

\* A day opens: what waited is looked at, and the symbols called are those with a bar
LEMMA SmaOpenDay ==
    ASSUME BacktestInv, SmaInv, NEW bars, OpenDay(bars)
    PROVE  SmaInv'
<1> SUFFICES ASSUME strategy = "sma_cross" PROVE SmaInv'
  BY DEF SmaInv, OpenDay
<1>1. /\ orders' = waiting /\ waiting' = <<>> /\ phase' = "filling" /\ bar' = bars
      /\ held' = held /\ trades' = trades /\ strategy' = strategy
      /\ \A s \in todo' : bars[s] # NoBar
  BY DEF OpenDay
<1>2. OneEach(<<>>) /\ Apart(waiting, <<>>) /\ AllFit(<<>>, held)
  BY DEF OneEach, Apart, AllFit
<1>3. CallsOK(phase', todo', bar', waiting')
  BY <1>1 DEF CallsOK
<1> QED
  BY <1>1, <1>2, <1>3 DEF SmaInv

\* An order is looked at and is gone from those to be looked at
LEMMA SmaHead ==
    ASSUME BacktestInv, SmaInv, strategy = "sma_cross", phase = "filling", orders # <<>>
    PROVE  /\ Head(orders) \in Order /\ Fits(Head(orders), held)
           /\ OneEach(Tail(orders)) /\ Apart(Tail(orders), waiting)
           /\ AllFit(Tail(orders), held)
           /\ \A i \in 1..Len(Tail(orders)) : Tail(orders)[i].symbol # Head(orders).symbol
           /\ \A i \in 1..Len(waiting) : waiting[i].symbol # Head(orders).symbol
<1>1. orders \in Seq(Order) /\ OneEach(orders) /\ Apart(orders, waiting) /\ AllFit(orders, held)
  BY DEF BacktestInv, ListsOK, SmaInv
<1>2. /\ OneEach(Tail(orders))
      /\ \A i \in 1..Len(Tail(orders)) :
            /\ Tail(orders)[i].symbol # Head(orders).symbol
            /\ \E j \in 1..Len(orders) : Tail(orders)[i] = orders[j]
      /\ \E j \in 1..Len(orders) : Head(orders) = orders[j]
  BY <1>1, FirstOfMany
<1>3. Apart(Tail(orders), waiting)
  BY <1>1, <1>2 DEF Apart
<1>4. AllFit(Tail(orders), held) /\ Fits(Head(orders), held)
  BY <1>1, <1>2 DEF AllFit
<1>5. \A i \in 1..Len(waiting) : waiting[i].symbol # Head(orders).symbol
  BY <1>1, <1>2 DEF Apart
<1> QED
  BY <1>2, <1>3, <1>4, <1>5, HeadOrder

\* An order without a bar goes back to those that wait
LEMMA SmaPostpone ==
    ASSUME BacktestInv, SmaInv, Fill, Postpone
    PROVE  SmaInv'
<1> SUFFICES ASSUME strategy = "sma_cross" PROVE SmaInv'
  BY DEF SmaInv, Fill
<1>1. /\ phase = "filling" /\ orders # <<>>
      /\ waiting' = Append(waiting, Head(orders)) /\ orders' = Tail(orders)
      /\ held' = held /\ trades' = trades /\ phase' = phase /\ bar' = bar /\ todo' = todo
      /\ strategy' = strategy
  BY DEF Postpone, Fill, feed, account
<1>2. waiting \in Seq(Order)
  BY DEF BacktestInv, ListsOK
<1>3. /\ Head(orders) \in Order /\ Fits(Head(orders), held)
      /\ OneEach(Tail(orders)) /\ Apart(Tail(orders), waiting)
      /\ AllFit(Tail(orders), held)
      /\ \A i \in 1..Len(Tail(orders)) : Tail(orders)[i].symbol # Head(orders).symbol
      /\ \A i \in 1..Len(waiting) : waiting[i].symbol # Head(orders).symbol
  BY <1>1, SmaHead
<1>4. /\ OneEach(waiting')
      /\ \A i \in 1..Len(waiting') :
            waiting'[i] = Head(orders) \/ \E j \in 1..Len(waiting) : waiting'[i] = waiting[j]
  BY <1>1, <1>2, <1>3, OneMore DEF SmaInv
<1>5. Apart(Tail(orders), waiting')
  BY <1>3, <1>4 DEF Apart
<1>6. AllFit(waiting', held)
  BY <1>3, <1>4 DEF AllFit, SmaInv
<1>7. CallsOK(phase', todo', bar', waiting')
  BY <1>1 DEF SmaInv, CallsOK
<1> QED
  BY <1>1, <1>3, <1>4, <1>5, <1>6, <1>7 DEF SmaInv

\* A row that is not for want of a position is one more of the same
LEMMA RowWithPosition ==
    ASSUME BacktestInv, NeverWithout(trades), NEW row \in TradeRow,
           row.status # "rejected_no_position"
    PROVE  NeverWithout(Append(trades, row))
<1> DEFINE more == Append(trades, row)
<1>1. trades \in Seq(TradeRow)
  BY DEF BacktestInv, ListsOK
<1>2. /\ Len(trades) \in Nat /\ Len(more) = Len(trades) + 1
      /\ more[Len(trades) + 1] = row
      /\ \A i \in 1..Len(trades) : more[i] = trades[i]
  BY <1>1
<1> HIDE DEF more
<1>3. \A i \in 1..Len(more) : i \in 1..Len(trades) \/ i = Len(trades) + 1
  BY <1>2
<1> QED
  BY <1>2, <1>3 DEF NeverWithout, more

\* An order is answered: its symbol has none any more, and the others fit as before
LEMMA SmaAnswered ==
    ASSUME BacktestInv, SmaInv, strategy = "sma_cross", phase = "filling", orders # <<>>,
           orders' = Tail(orders), waiting' = waiting, phase' = phase, bar' = bar,
           todo' = todo, strategy' = strategy,
           NEW status \in Statuses \ {"cancelled_eob", "rejected_no_position"},
           NEW price \in Int, NEW cost \in Int,
           trades' = Append(trades, Row(Head(orders), status, price, cost)),
           Positions(held'),
           \A s \in Symbols : s # Head(orders).symbol => held'[s] = held[s]
    PROVE  SmaInv'
<1>1. /\ Head(orders) \in Order /\ Fits(Head(orders), held)
      /\ OneEach(Tail(orders)) /\ Apart(Tail(orders), waiting)
      /\ AllFit(Tail(orders), held)
      /\ \A i \in 1..Len(Tail(orders)) : Tail(orders)[i].symbol # Head(orders).symbol
      /\ \A i \in 1..Len(waiting) : waiting[i].symbol # Head(orders).symbol
  BY SmaHead
<1>2. /\ Row(Head(orders), status, price, cost) \in TradeRow
      /\ Row(Head(orders), status, price, cost).status = status
  BY RowOfHead DEF Row
<1>3. NeverWithout(trades')
  BY <1>2, RowWithPosition DEF SmaInv
<1>4. waiting \in Seq(Order) /\ Tail(orders) \in Seq(Order)
  BY HeadOrder DEF BacktestInv, ListsOK
<1>5. AllFit(Tail(orders), held')
  BY <1>1, <1>4, OrderFields DEF AllFit, Fits
<1>6. AllFit(waiting, held')
  BY <1>1, <1>4, OrderFields DEF AllFit, Fits, SmaInv
<1>7. OneEach(waiting) /\ CallsOK(phase, todo, bar, waiting)
  BY DEF SmaInv
<1> QED
  BY <1>1, <1>3, <1>5, <1>6, <1>7 DEF SmaInv

\* A buy adds a lot to nothing, or is refused
LEMMA SmaFillBuy ==
    ASSUME BacktestInv, SmaInv, Fill, FillBuy
    PROVE  SmaInv'
<1> DEFINE order   == Head(orders)
           open    == bar[order.symbol].o
           close   == last[order.symbol]
           refusal == Refusal("buy", open, close)
           price   == FillPrice("buy", open, close)
<1> SUFFICES ASSUME strategy = "sma_cross" PROVE SmaInv'
  BY DEF SmaInv, Fill
<1>1. /\ phase = "filling" /\ orders # <<>> /\ order.side = "buy"
      /\ bar[order.symbol] # NoBar
      /\ orders' = Tail(orders) /\ waiting' = waiting /\ phase' = phase /\ bar' = bar
      /\ todo' = todo /\ strategy' = strategy
  BY DEF FillBuy, Fill, feed
<1>2. /\ order.symbol \in Symbols /\ order.qty = SmaQuantity /\ held[order.symbol] = 0
      /\ Positions(held) /\ held \in [Symbols -> Nat] /\ SmaQuantity \in Nat
  BY <1>1, SmaHead, HeadOrder, BacktestAssumption
     DEF Fits, SmaInv, BacktestInv, BacktestTypeOK
<1>3. ASSUME NEW status \in Statuses \ {"cancelled_eob", "rejected_no_position"},
             trades' = Refused(order, status), account' = account
      PROVE  SmaInv'
  <2>1. trades' = Append(trades, Row(Head(orders), status, 0, 0)) /\ held' = held
    BY <1>3 DEF Refused, account
  <2> QED
    BY <1>1, <1>2, <2>1, SmaAnswered
<1>4. ASSUME held' = [held EXCEPT ![order.symbol] = @ + order.qty],
             trades' = Append(trades, Row(order, "filled", price,
                                          Cost("buy", price * order.qty)))
      PROVE  SmaInv'
  <2>1. price \in Int /\ Cost("buy", price * order.qty) \in Int
    BY <1>1, FillIsInt
  <2> HIDE DEF price
  <2>2. held'[order.symbol] = SmaQuantity
    BY <1>2, <1>4
  <2>3. \A s \in Symbols : s # order.symbol => held'[s] = held[s]
    BY <1>2, <1>4
  <2>4. Positions(held')
    BY <1>2, <2>2, <2>3 DEF Positions
  <2>5. "filled" \in Statuses \ {"cancelled_eob", "rejected_no_position"}
    BY DEF Statuses
  <2> QED
    BY <1>1, <1>4, <2>1, <2>3, <2>4, <2>5, SmaAnswered
<1>5. /\ refusal # "filled"
            => refusal \in Statuses \ {"cancelled_eob", "rejected_no_position"}
      /\ "rejected_insufficient_cash" \in Statuses \ {"cancelled_eob", "rejected_no_position"}
  BY RefusalIsStatus DEF Statuses
<1> QED
  BY <1>3, <1>4, <1>5 DEF FillBuy, account

\* A sale sells the lot, or is refused, but never for want of it
LEMMA SmaFillSell ==
    ASSUME BacktestInv, SmaInv, Fill, FillSell
    PROVE  SmaInv'
<1> DEFINE order   == Head(orders)
           open    == bar[order.symbol].o
           close   == last[order.symbol]
           refusal == Refusal("sell", open, close)
           price   == FillPrice("sell", open, close)
<1> SUFFICES ASSUME strategy = "sma_cross" PROVE SmaInv'
  BY DEF SmaInv, Fill
<1>1. /\ phase = "filling" /\ orders # <<>> /\ order.side = "sell"
      /\ bar[order.symbol] # NoBar
      /\ orders' = Tail(orders) /\ waiting' = waiting /\ phase' = phase /\ bar' = bar
      /\ todo' = todo /\ strategy' = strategy
  BY DEF FillSell, Fill, feed
<1>2. /\ order.symbol \in Symbols /\ order.qty = SmaQuantity
      /\ held[order.symbol] = SmaQuantity
      /\ Positions(held) /\ held \in [Symbols -> Nat] /\ SmaQuantity \in Nat
  BY <1>1, SmaHead, HeadOrder, BacktestAssumption
     DEF Fits, SmaInv, BacktestInv, BacktestTypeOK
<1>3. ASSUME NEW status \in Statuses \ {"cancelled_eob", "rejected_no_position"},
             trades' = Refused(order, status), account' = account
      PROVE  SmaInv'
  <2>1. trades' = Append(trades, Row(Head(orders), status, 0, 0)) /\ held' = held
    BY <1>3 DEF Refused, account
  <2> QED
    BY <1>1, <1>2, <2>1, SmaAnswered
<1>4. ASSUME held' = [held EXCEPT ![order.symbol] = @ - order.qty],
             trades' = Append(trades, Row(order, "filled", price,
                                          Cost("sell", price * order.qty)))
      PROVE  SmaInv'
  <2>1. price \in Int /\ Cost("sell", price * order.qty) \in Int
    BY <1>1, FillIsInt
  <2> HIDE DEF price
  <2>2. held'[order.symbol] = 0
    BY <1>2, <1>4
  <2>3. \A s \in Symbols : s # order.symbol => held'[s] = held[s]
    BY <1>2, <1>4
  <2>4. Positions(held')
    BY <1>2, <2>2, <2>3 DEF Positions
  <2>5. "filled" \in Statuses \ {"cancelled_eob", "rejected_no_position"}
    BY DEF Statuses
  <2> QED
    BY <1>1, <1>4, <2>1, <2>3, <2>4, <2>5, SmaAnswered
<1>5. refusal # "filled"
        => refusal \in Statuses \ {"cancelled_eob", "rejected_no_position"}
  BY RefusalIsStatus DEF Statuses
<1>6. ~(order.qty > held[order.symbol])
  BY <1>2
<1> QED
  BY <1>3, <1>4, <1>5, <1>6 DEF FillSell, account

\* At the close no order is left of a symbol that will be called
LEMMA SmaCloseBars ==
    ASSUME BacktestInv, SmaInv, CloseBars
    PROVE  SmaInv'
<1>1. /\ strategy' = strategy /\ held' = held /\ trades' = trades
      /\ orders' = orders /\ waiting' = waiting /\ bar' = bar
      /\ phase = "filling" /\ phase' = "signalling" /\ todo' \subseteq todo
  BY DEF CloseBars, account
<1>2. \A i \in 1..Len(waiting) : bar[waiting[i].symbol] = NoBar
  BY <1>1 DEF BacktestInv, WaitingOK
<1>3. CallsOK(phase, todo, bar, waiting) => CallsOK(phase', todo', bar', waiting)
  BY <1>1, <1>2 DEF CallsOK
<1> QED
  BY <1>1, <1>3, SmaKept

\* A call that asks for nothing leaves fewer to come
LEMMA SmaStay ==
    ASSUME SmaInv, Signal, Stay
    PROVE  SmaInv'
<1>1. /\ strategy' = strategy /\ held' = held /\ trades' = trades
      /\ orders' = orders /\ waiting' = waiting /\ bar' = bar
      /\ phase' = phase /\ todo' \subseteq todo
  BY DEF Signal, Stay, feed, account
<1>2. CallsOK(phase, todo, bar, waiting) => CallsOK(phase', todo', bar', waiting)
  BY <1>1 DEF CallsOK
<1> QED
  BY <1>1, <1>2, SmaKept

\* What the crossing strategy asks for is what the position calls for, of a symbol
\* that has no order
LEMMA SmaAsk ==
    ASSUME BacktestInv, SmaInv, Signal, todo # {},
           NEW intent \in Allowed(NextSymbol), Ask(intent)
    PROVE  SmaInv'
<1> DEFINE order == [symbol |-> NextSymbol, side |-> intent.side, qty |-> intent.qty,
                     signal |-> day]
<1> SUFFICES ASSUME strategy = "sma_cross" PROVE SmaInv'
  BY DEF SmaInv, Signal
<1>1. /\ phase = "signalling" /\ phase' = phase /\ todo' = todo \ {NextSymbol}
      /\ orders = <<>> /\ orders' = orders /\ held' = held /\ bar' = bar
      /\ strategy' = strategy
  BY DEF Signal, Ask, feed, account, BacktestInv, DaysInTurn
<1>2. NextSymbol \in todo /\ NextSymbol \in Symbols
  BY NextIsToDo DEF BacktestInv, BacktestTypeOK
<1>3. /\ Positions(held) /\ NeverWithout(trades) /\ OneEach(waiting)
      /\ AllFit(waiting, held) /\ CallsOK(phase, todo, bar, waiting)
  BY DEF SmaInv
<1>4. intent.qty = SmaQuantity /\ intent.side \in Sides
      /\ held[NextSymbol] = IF intent.side = "buy" THEN 0 ELSE SmaQuantity
  BY <1>2, <1>3, BacktestAssumption DEF Allowed, SmaIntents, Positions, Sides
<1>5. order \in Order /\ Fits(order, held) /\ order.symbol = NextSymbol
  BY <1>2, <1>4, BacktestAssumption DEF Order, Fits, BacktestInv, DaysInTurn, Ask
<1>6. CASE /\ trades' = Refused(order, "cancelled_eob")
           /\ waiting' = waiting
  <2>1. /\ trades' = Append(trades, Row(order, "cancelled_eob", 0, 0))
        /\ Row(order, "cancelled_eob", 0, 0).status = "cancelled_eob"
    BY <1>6 DEF Refused, Row
  <2>2. Row(order, "cancelled_eob", 0, 0) \in TradeRow
    BY <1>5, BacktestAssumption DEF Row, TradeRow, Statuses, Order
  <2>3. NeverWithout(trades')
    BY <1>3, <2>1, <2>2, RowWithPosition
  <2>4. CallsOK(phase', todo', bar', waiting')
    BY <1>1, <1>3, <1>6 DEF CallsOK
  <2> QED
    BY <1>1, <1>6, <2>3, <2>4 DEF SmaInv
<1>7. CASE waiting' = Append(waiting, order) /\ trades' = trades
  <2> HIDE DEF order
  <2>1. waiting \in Seq(Order)
    BY DEF BacktestInv, ListsOK
  <2>2. \A i \in 1..Len(waiting) : waiting[i].symbol # order.symbol
    BY <1>1, <1>2, <1>3, <1>5 DEF CallsOK
  <2>3. /\ OneEach(waiting')
        /\ \A i \in 1..Len(waiting') :
              waiting'[i] = order \/ \E j \in 1..Len(waiting) : waiting'[i] = waiting[j]
    BY <1>3, <1>5, <1>7, <2>1, <2>2, OneMore
  <2>4. AllFit(waiting', held)
    BY <1>3, <1>5, <2>3 DEF AllFit
  <2>5. Apart(orders, waiting')
    BY <1>1 DEF Apart
  <2>6. CallsOK(phase', todo', bar', waiting')
    BY <1>1, <1>3, <1>5, <2>3 DEF CallsOK
  <2> QED
    BY <1>1, <1>7, <2>3, <2>4, <2>5, <2>6 DEF SmaInv
<1> QED
  BY <1>6, <1>7 DEF Ask, Emit

\* A day that ends, and a run that stops, leave the strategy's book as it is
LEMMA SmaEnd ==
    ASSUME SmaInv, CloseDay \/ Fail \/ Refuse \/ StoreJob \/ UNCHANGED backtestVars
    PROVE  SmaInv'
<1>1. /\ strategy' = strategy /\ held' = held /\ trades' = trades
      /\ orders' = orders /\ waiting' = waiting /\ bar' = bar /\ todo' = todo
      /\ phase' \in {phase, "done", "idle", "raised", "refused"}
  BY DEF CloseDay, Fail, Refuse, StoreJob, backtestVars, feed, account
<1>2. CallsOK(phase, todo, bar, waiting) => CallsOK(phase', todo', bar', waiting)
  BY <1>1 DEF CallsOK
<1> QED
  BY <1>1, <1>2, SmaKept

\* Every step keeps it
LEMMA SmaNext == BacktestInv /\ SmaInv /\ [Next]_backtestVars => SmaInv'
<1> SUFFICES ASSUME BacktestInv, SmaInv, [Next]_backtestVars PROVE SmaInv'
  OBVIOUS
<1>1. ASSUME NEW bars \in [Symbols -> UNION Range(Bars) \cup {NoBar}], OpenDay(bars)
      PROVE  SmaInv'
  BY <1>1, SmaOpenDay
<1>2. CASE Fill
  BY <1>2, SmaPostpone, SmaFillBuy, SmaFillSell DEF Fill
<1>3. CASE CloseBars
  BY <1>3, SmaCloseBars
<1>4. CASE Signal
  BY <1>4, SmaStay, SmaAsk DEF Signal
<1>5. CASE CloseDay \/ Fail \/ Refuse \/ StoreJob \/ UNCHANGED backtestVars
  BY <1>5, SmaEnd
<1> QED
  BY <1>1, <1>2, <1>3, <1>4, <1>5 DEF Next

\* and every run has it throughout
LEMMA SmaAlways == Spec => []SmaInv
<1>1. Init => SmaInv
  BY DEF Init, SmaInv, Positions, NeverWithout, OneEach, Apart, AllFit, CallsOK
<1> QED
  BY <1>1, SmaNext, InvAlways, PTL DEF Spec

\* Of a symbol with no two orders there is at most one
LEMMA AtMostOne ==
    ASSUME NEW list \in Seq(Order), OneEach(list), NEW s
    PROVE  Cardinality({i \in DOMAIN list : list[i].symbol = s}) \leq 1
<1> DEFINE S == {i \in DOMAIN list : list[i].symbol = s}
<1>1. DOMAIN list = 1..Len(list)
  OBVIOUS
<1>2. CASE S = {}
  <2>1. Cardinality(S) = 0
    BY <1>2, FS_EmptySet
  <2> QED
    BY <2>1
<1>3. CASE S # {}
  <2>1. PICK i \in S : TRUE
    BY <1>3
  <2>2. S = {i}
    BY <1>1, <2>1 DEF OneEach
  <2>3. Cardinality({i}) = 1
    BY FS_Singleton
  <2> HIDE DEF S
  <2>4. Cardinality(S) = 1
    BY <2>2, <2>3
  <2> QED
    BY <2>4 DEF S
<1> QED
  BY <1>2, <1>3

\* The crossing strategy (backtest/strategy/sma_cross.py) asks for what its
\* position calls for, and although what it asks for may wait for days, or be
\* refused, it holds one lot or none, has one order pending of a symbol at most, and
\* never sells what it has not: the state the strategy does not keep is in the
\* order of the day.
THEOREM CrossingHoldsOneLot == Spec => []SmaHoldsOneLot
<1>1. BacktestInv /\ SmaInv => SmaHoldsOneLot
  <2> SUFFICES ASSUME BacktestInv, SmaInv, strategy = "sma_cross"
               PROVE  /\ \A i \in DOMAIN trades : trades[i].status # "rejected_no_position"
                      /\ \A s \in Symbols : held[s] \in {0, SmaQuantity}
                      /\ \A s \in Symbols :
                            Cardinality({i \in DOMAIN waiting : waiting[i].symbol = s}) \leq 1
    BY DEF SmaHoldsOneLot
  <2>1. /\ trades \in Seq(TradeRow) /\ waiting \in Seq(Order) /\ OneEach(waiting)
        /\ NeverWithout(trades) /\ Positions(held)
    BY DEF BacktestInv, ListsOK, SmaInv
  <2>2. \A s \in Symbols : Cardinality({i \in DOMAIN waiting : waiting[i].symbol = s}) \leq 1
    BY <2>1, AtMostOne
  <2>3. \A i \in DOMAIN trades : trades[i].status # "rejected_no_position"
    BY <2>1 DEF NeverWithout
  <2> QED
    BY <2>1, <2>2, <2>3 DEF Positions
<1> QED
  BY <1>1, InvAlways, SmaAlways, PTL

-----------------------------------------------------------------------------
\* Sums of trade rows
\*
\* A total is a recursive function over the natural numbers.  What it does when a
\* row is added, or two columns are, is shown by a least number at which it would
\* not: the library's induction rules take operators, a least number does not.

\* A set of naturals that is not empty has a least element.
LEMMA LeastNatural ==
    ASSUME NEW T \in SUBSET Nat, T # {}
    PROVE  \E m \in T : \A n \in T : m \leq n
  <1> DEFINE R == {p \in Nat \X Nat : p[1] < p[2]}
  <1>1. IsWellFoundedOn(R, Nat)
    BY NatLessThanWellFounded DEF OpToRel
  <1>2. PICK m \in T : \A n \in T : <<n, m>> \notin R
    <2> HIDE DEF R
    <2> QED BY <1>1, WFMin
  <1>3. ASSUME NEW n \in T PROVE m \leq n
    <2>1. n \in Nat /\ m \in Nat
      OBVIOUS
    <2>2. ~(n < m)
      BY <1>2, <2>1
    <2>3. QED
      BY <2>1, <2>2
  <1>4. QED
    BY <1>3

\* The running totals of a sequence up to n
Running(u, seq, n) == u = [k \in 0..n |-> IF k = 0 THEN 0 ELSE u[k - 1] + seq[k]]

\* There are running totals
LEMMA RunningExists ==
    ASSUME NEW seq \in Seq(Int), NEW n \in 0..Len(seq)
    PROVE  \E u \in [0..n -> Int] : Running(u, seq, n)
  <1> DEFINE T == {k \in 0..Len(seq) : ~ \E u \in [0..k -> Int] : Running(u, seq, k)}
  <1>1. Len(seq) \in Nat /\ \A k \in 1..Len(seq) : seq[k] \in Int
    OBVIOUS
  <1>2. T \in SUBSET Nat
    BY <1>1
  <1>3. ASSUME T # {} PROVE FALSE
    <2>1. PICK m \in T : \A k \in T : m \leq k
      <3> HIDE DEF T
      <3> QED BY <1>2, <1>3, LeastNatural
    <2>2. m \in 0..Len(seq) /\ ~ \E u \in [0..m -> Int] : Running(u, seq, m)
      BY <2>1
    <2>3. CASE m = 0
      <3> DEFINE u == [k \in 0..0 |-> 0]
      <3>1. u \in [0..0 -> Int] /\ Running(u, seq, 0)
        BY DEF Running
      <3>2. QED
        BY <2>2, <2>3, <3>1
    <2>4. CASE m # 0
      <3>1. m - 1 \in 0..Len(seq) /\ ~(m \leq m - 1) /\ m \in 1..Len(seq)
        BY <1>1, <2>2, <2>4
      <3>2. PICK v \in [0..(m - 1) -> Int] : Running(v, seq, m - 1)
        BY <2>1, <3>1
      <3> DEFINE u == [k \in 0..m |-> IF k = m THEN v[m - 1] + seq[m] ELSE v[k]]
      <3>3. v \in [0..(m - 1) -> Int] /\ v[m - 1] \in Int /\ seq[m] \in Int
        BY <1>1, <3>1, <3>2 DEF Running
      <3>4. u \in [0..m -> Int]
        BY <3>1, <3>3
      <3>5. ASSUME NEW k \in 0..m
            PROVE  u[k] = IF k = 0 THEN 0 ELSE u[k - 1] + seq[k]
        <4>1. CASE k = m
          BY <3>1, <4>1
        <4>2. CASE k # m
          <5>1. k \in 0..(m - 1) /\ u[k] = v[k] /\ (k # 0 => k - 1 \in 0..(m - 1) /\ u[k - 1] = v[k - 1])
            BY <3>1, <4>2
          <5>2. v[k] = IF k = 0 THEN 0 ELSE v[k - 1] + seq[k]
            BY <3>2, <5>1 DEF Running
          <5>3. QED
            BY <5>1, <5>2
        <4>3. QED
          BY <4>1, <4>2
      <3>6. Running(u, seq, m)
        BY <3>4, <3>5 DEF Running
      <3>7. QED
        BY <2>2, <3>4, <3>6
    <2>5. QED
      BY <2>3, <2>4
  <1>4. QED
    BY <1>3

\* Running totals of sequences that agree on their first n numbers agree up to n
LEMMA RunningAgrees ==
    ASSUME NEW f \in Seq(Int), NEW g \in Seq(Int), NEW u, NEW v,
           Running(u, f, Len(f)), Running(v, g, Len(g)),
           NEW n \in Nat, n \leq Len(f), n \leq Len(g), \A k \in 1..n : f[k] = g[k]
    PROVE  u[n] = v[n]
  <1> DEFINE T == {k \in 0..n : u[k] # v[k]}
  <1>1. T \in SUBSET Nat
    OBVIOUS
  <1>2. ASSUME T # {} PROVE FALSE
    <2>1. PICK m \in T : \A k \in T : m \leq k
      <3> HIDE DEF T
      <3> QED BY <1>1, <1>2, LeastNatural
    <2>2. m \in 0..n /\ u[m] # v[m] /\ m \in 0..Len(f) /\ m \in 0..Len(g)
      BY <2>1
    <2>3. /\ u[m] = IF m = 0 THEN 0 ELSE u[m - 1] + f[m]
          /\ v[m] = IF m = 0 THEN 0 ELSE v[m - 1] + g[m]
      BY <2>2 DEF Running
    <2>4. m # 0 /\ m \in 1..n /\ m - 1 \in 0..n /\ ~(m \leq m - 1)
      BY <2>2, <2>3
    <2>5. u[m - 1] = v[m - 1]
      BY <2>1, <2>4
    <2>6. QED
      BY <2>2, <2>3, <2>4, <2>5
  <1>3. QED
    BY <1>2

\* The total is an integer, and the last of any running totals
LEMMA TotalIsLast ==
    ASSUME NEW seq \in Seq(Int)
    PROVE  Total(seq) \in Int /\ \E u : Running(u, seq, Len(seq)) /\ Total(seq) = u[Len(seq)]
  <1> DEFINE w == CHOOSE u : u = [n \in 0..Len(seq) |-> IF n = 0 THEN 0 ELSE u[n - 1] + seq[n]]
  <1>1. Len(seq) \in Nat /\ Len(seq) \in 0..Len(seq)
    OBVIOUS
  <1>2. PICK u \in [0..Len(seq) -> Int] : Running(u, seq, Len(seq))
    BY <1>1, RunningExists
  <1>3. Running(w, seq, Len(seq))
    BY <1>2 DEF Running
  <1>4. Total(seq) = w[Len(seq)]
    BY DEF Total
  <1> HIDE DEF w
  <1>5. w[Len(seq)] = u[Len(seq)]
    BY <1>1, <1>2, <1>3, RunningAgrees
  <1>6. QED
    BY <1>1, <1>2, <1>3, <1>4, <1>5

\* One more number adds to the total.
LEMMA TotalAppend ==
    ASSUME NEW f \in Seq(Int), NEW g \in Seq(Int), Len(g) = Len(f) + 1,
           \A k \in 1..Len(f) : g[k] = f[k]
    PROVE  Total(g) = Total(f) + g[Len(f) + 1]
  <1>1. Len(f) \in Nat /\ Len(f) + 1 \in 0..Len(g) /\ Len(f) + 1 # 0 /\ Len(f) + 1 - 1 = Len(f)
    OBVIOUS
  <1>2. PICK u : Running(u, f, Len(f)) /\ Total(f) = u[Len(f)]
    BY TotalIsLast
  <1>3. PICK v : Running(v, g, Len(g)) /\ Total(g) = v[Len(g)]
    BY TotalIsLast
  <1>4. u[Len(f)] = v[Len(f)]
    BY <1>1, <1>2, <1>3, RunningAgrees
  <1>5. v[Len(f) + 1] = v[Len(f)] + g[Len(f) + 1]
    BY <1>1, <1>3 DEF Running
  <1>6. QED
    BY <1>2, <1>3, <1>4, <1>5

\* The total of nothing is zero.
LEMMA TotalEmpty == Total(<<>>) = 0
  <1>1. PICK u : Running(u, <<>>, Len(<<>>)) /\ Total(<<>>) = u[Len(<<>>)]
    <2>1. <<>> \in Seq(Int)
      OBVIOUS
    <2>2. QED
      BY <2>1, TotalIsLast
  <1>2. Len(<<>>) = 0
    OBVIOUS
  <1>3. QED
    BY <1>1, <1>2 DEF Running

\* Totals of the sums are sums of the totals.
LEMMA TotalPlus ==
    ASSUME NEW f \in Seq(Int), NEW g \in Seq(Int), NEW h \in Seq(Int),
           Len(g) = Len(f), Len(h) = Len(f),
           \A k \in 1..Len(f) : h[k] = f[k] + g[k]
    PROVE  Total(h) = Total(f) + Total(g)
  <1>1. PICK u : Running(u, f, Len(f)) /\ Total(f) = u[Len(f)]
    BY TotalIsLast
  <1>2. PICK v : Running(v, g, Len(g)) /\ Total(g) = v[Len(g)]
    BY TotalIsLast
  <1>3. PICK w : Running(w, h, Len(h)) /\ Total(h) = w[Len(h)]
    BY TotalIsLast
  <1>0. Len(f) \in Nat /\ Len(f) \in 0..Len(f) /\ Len(g) \in 0..Len(g)
    OBVIOUS
  <1>4. PICK z \in [0..Len(f) -> Int] : Running(z, f, Len(f))
    BY <1>0, RunningExists
  <1>5. PICK y \in [0..Len(f) -> Int] : Running(y, g, Len(f))
    BY <1>0, RunningExists
  <1> DEFINE T == {k \in 0..Len(f) : w[k] # z[k] + y[k]}
  <1>6. T \in SUBSET Nat
    OBVIOUS
  <1>7. ASSUME T # {} PROVE FALSE
    <2>1. PICK m \in T : \A k \in T : m \leq k
      <3> HIDE DEF T
      <3> QED BY <1>6, <1>7, LeastNatural
    <2>2. m \in 0..Len(f) /\ w[m] # z[m] + y[m]
      BY <2>1
    <2>3. /\ z[m] = IF m = 0 THEN 0 ELSE z[m - 1] + f[m]
          /\ y[m] = IF m = 0 THEN 0 ELSE y[m - 1] + g[m]
          /\ w[m] = IF m = 0 THEN 0 ELSE w[m - 1] + h[m]
      BY <1>3, <1>4, <1>5, <2>2 DEF Running
    <2>4. m # 0 /\ m \in 1..Len(f) /\ m - 1 \in 0..Len(f) /\ ~(m \leq m - 1)
      BY <2>2, <2>3
    <2>5. w[m - 1] = z[m - 1] + y[m - 1]
      BY <2>1, <2>4
    <2>6. z[m - 1] \in Int /\ y[m - 1] \in Int /\ f[m] \in Int /\ g[m] \in Int /\ h[m] = f[m] + g[m]
      <3>1. z[m - 1] \in Int /\ y[m - 1] \in Int
        BY <2>4, <1>4, <1>5
      <3>2. f[m] \in Int /\ g[m] \in Int
        BY <2>4
      <3>3. QED
        BY <2>4, <3>1, <3>2
    <2>7. QED
      BY <2>2, <2>3, <2>4, <2>5, <2>6
  <1>8. w[Len(f)] = z[Len(f)] + y[Len(f)]
    BY <1>7
  <1>9. u[Len(f)] = z[Len(f)] /\ v[Len(f)] = y[Len(f)]
    BY <1>0, <1>1, <1>2, <1>4, <1>5, RunningAgrees
  <1>10. QED
    BY <1>1, <1>2, <1>3, <1>8, <1>9

-----------------------------------------------------------------------------
\* Columns of the trade rows: a number for each row there can be

Book(rows, column) == Total([i \in DOMAIN rows |-> column[rows[i]]])

PaidFor == [t \in TradeRow |-> IF IsBuy(t) THEN Paid(t) ELSE 0]

EarnedBy == [t \in TradeRow |-> IF IsSale(t) THEN Earned(t) ELSE 0]

\* Sales that settle up to a day, and on a day
SettledBy(d) ==
    [t \in TradeRow |-> IF IsSale(t) /\ SettlementDay(t.fill) \leq d THEN Earned(t) ELSE 0]

DueOn(d) ==
    [t \in TradeRow |-> IF IsSale(t) /\ SettlementDay(t.fill) = d THEN Earned(t) ELSE 0]

BoughtOf(s) == [t \in TradeRow |-> IF IsBuy(t) /\ t.symbol = s THEN t.qty ELSE 0]

SoldOf(s) == [t \in TradeRow |-> IF IsSale(t) /\ t.symbol = s THEN t.qty ELSE 0]

Columns == [TradeRow -> Int]

\* The columns hold integers.
LEMMA ColumnsAreInt ==
    /\ PaidFor \in Columns /\ EarnedBy \in Columns
    /\ \A d : SettledBy(d) \in Columns /\ DueOn(d) \in Columns
    /\ \A s : BoughtOf(s) \in Columns /\ SoldOf(s) \in Columns
  <1>1. \A t \in TradeRow : t.price \in Int /\ t.qty \in Int /\ t.cost \in Int
    BY DEF TradeRow
  <1>2. \A t \in TradeRow : Paid(t) \in Int /\ Earned(t) \in Int
    BY <1>1 DEF Paid, Earned, Amount
  <1>3. PaidFor \in Columns /\ EarnedBy \in Columns
    BY <1>2 DEF PaidFor, EarnedBy, Columns
  <1>4. \A d : SettledBy(d) \in Columns /\ DueOn(d) \in Columns
    BY <1>2 DEF SettledBy, DueOn, Columns
  <1>5. \A s : BoughtOf(s) \in Columns /\ SoldOf(s) \in Columns
    BY <1>1 DEF BoughtOf, SoldOf, Columns
  <1>6. QED
    BY <1>3, <1>4, <1>5

\* The column of a sequence of rows is a sequence of numbers.
LEMMA ColumnIsSeq ==
    ASSUME NEW rows \in Seq(TradeRow), NEW column \in Columns
    PROVE  /\ [i \in DOMAIN rows |-> column[rows[i]]] \in Seq(Int)
           /\ Len([i \in DOMAIN rows |-> column[rows[i]]]) = Len(rows)
  <1>1. DOMAIN rows = 1..Len(rows) /\ Len(rows) \in Nat
    OBVIOUS
  <1>2. \A i \in 1..Len(rows) : column[rows[i]] \in Int
    BY <1>1 DEF Columns
  <1>3. QED
    BY <1>1, <1>2

\* A row more is its number more.
LEMMA BookAppend ==
    ASSUME NEW rows \in Seq(TradeRow), NEW row \in TradeRow, NEW column \in Columns
    PROVE  /\ Book(Append(rows, row), column) = Book(rows, column) + column[row]
           /\ Book(rows, column) \in Int
  <1> DEFINE more == Append(rows, row)
             f == [i \in DOMAIN rows |-> column[rows[i]]]
             g == [i \in DOMAIN more |-> column[more[i]]]
  <1>1. /\ more \in Seq(TradeRow) /\ Len(more) = Len(rows) + 1 /\ Len(rows) \in Nat
        /\ DOMAIN rows = 1..Len(rows) /\ DOMAIN more = 1..(Len(rows) + 1)
        /\ \A i \in 1..Len(rows) : more[i] = rows[i]
        /\ more[Len(rows) + 1] = row
    BY AppendProperties, LenProperties
  <1> HIDE DEF more
  <1>2. f \in Seq(Int) /\ Len(f) = Len(rows) /\ g \in Seq(Int) /\ Len(g) = Len(rows) + 1
    BY <1>1, ColumnIsSeq
  <1>3. /\ \A i \in 1..Len(rows) : g[i] = f[i]
        /\ g[Len(rows) + 1] = column[row]
    BY <1>1
  <1> HIDE DEF f, g
  <1>4. Total(g) = Total(f) + g[Len(f) + 1] /\ Total(f) \in Int
    BY <1>2, <1>3, TotalAppend, TotalIsLast
  <1>5. QED
    BY <1>2, <1>3, <1>4 DEF Book, f, g, more

\* The book of a sum of columns is the sum of their books.
LEMMA BookPlus ==
    ASSUME NEW rows \in Seq(TradeRow), NEW first \in Columns, NEW second \in Columns,
           NEW both \in Columns, \A t \in TradeRow : both[t] = first[t] + second[t]
    PROVE  /\ Book(rows, both) = Book(rows, first) + Book(rows, second)
           /\ Book(rows, first) \in Int /\ Book(rows, second) \in Int
  <1> DEFINE f == [i \in DOMAIN rows |-> first[rows[i]]]
             g == [i \in DOMAIN rows |-> second[rows[i]]]
             h == [i \in DOMAIN rows |-> both[rows[i]]]
  <1>1. DOMAIN rows = 1..Len(rows) /\ \A i \in 1..Len(rows) : rows[i] \in TradeRow
    OBVIOUS
  <1>2. /\ f \in Seq(Int) /\ Len(f) = Len(rows) /\ g \in Seq(Int) /\ Len(g) = Len(rows)
        /\ h \in Seq(Int) /\ Len(h) = Len(rows)
    BY ColumnIsSeq
  <1>3. \A i \in 1..Len(rows) : h[i] = f[i] + g[i]
    BY <1>1
  <1> HIDE DEF f, g, h
  <1>4. Total(h) = Total(f) + Total(g) /\ Total(f) \in Int /\ Total(g) \in Int
    BY <1>2, <1>3, TotalPlus, TotalIsLast
  <1>5. QED
    BY <1>4 DEF Book, f, g, h

\* No rows add up to nothing.
LEMMA BookEmpty == ASSUME NEW column PROVE Book(<<>>, column) = 0
  <1>1. [i \in DOMAIN <<>> |-> column[<<>>[i]]] = <<>>
    OBVIOUS
  <1>2. QED
    BY <1>1, TotalEmpty DEF Book

-----------------------------------------------------------------------------
\* The account and its rows
\*
\* What is available are the sales whose day of settlement has come; what settles
\* on a later day are the sales that are due then.

BookedInv ==
    /\ cash = Capital - Book(trades, PaidFor) + Book(trades, EarnedBy)
    /\ available = Capital - Book(trades, PaidFor) + Book(trades, SettledBy(day))
    /\ \A d \in PayDays : d > day => settling[d] = Book(trades, DueOn(d))
    /\ \A s \in Symbols : held[s] = Book(trades, BoughtOf(s)) - Book(trades, SoldOf(s))

\* The books of the rows there are hold integers.
LEMMA BooksAreInt ==
    ASSUME BacktestInv
    PROVE  /\ Book(trades, PaidFor) \in Int /\ Book(trades, EarnedBy) \in Int
           /\ \A d : Book(trades, SettledBy(d)) \in Int /\ Book(trades, DueOn(d)) \in Int
           /\ \A s : Book(trades, BoughtOf(s)) \in Int /\ Book(trades, SoldOf(s)) \in Int
  <1>1. trades \in Seq(TradeRow)
    BY DEF BacktestInv, ListsOK
  <1>2. ASSUME NEW column \in Columns PROVE Book(trades, column) \in Int
    <2> DEFINE f == [i \in DOMAIN trades |-> column[trades[i]]]
    <2>1. f \in Seq(Int)
      BY <1>1, ColumnIsSeq
    <2> HIDE DEF f
    <2>2. Total(f) \in Int
      BY <2>1, TotalIsLast
    <2>3. QED
      BY <2>2 DEF Book, f
  <1>3. QED
    BY <1>2, ColumnsAreInt

\* Nothing is booked before the first day.
LEMMA BookedInit == Init => BookedInv
  <1> SUFFICES ASSUME Init PROVE BookedInv
    OBVIOUS
  <1>1. /\ trades = <<>> /\ cash = Capital /\ available = Capital
        /\ \A d \in PayDays : settling[d] = 0
        /\ \A s \in Symbols : held[s] = 0
        /\ Capital \in Nat
    BY BacktestAssumption DEF Init
  <1>2. \A column : Book(trades, column) = 0
    BY <1>1, BookEmpty
  <1>3. QED
    BY <1>1, <1>2 DEF BookedInv

\* A step that touches neither account nor rows nor the day keeps the books.
LEMMA BookedKept ==
    ASSUME BookedInv, UNCHANGED <<account, trades, day>>
    PROVE  BookedInv'
  <1>1. /\ cash' = cash /\ available' = available /\ settling' = settling /\ held' = held
        /\ trades' = trades /\ day' = day
    BY DEF account
  <1>2. QED
    BY <1>1 DEF BookedInv

\* What a row adds to each column.
LEMMA RowInColumns ==
    ASSUME BacktestInv, NEW row \in TradeRow, trades' = Append(trades, row)
    PROVE  \A column \in Columns :
              /\ Book(trades', column) = Book(trades, column) + column[row]
              /\ Book(trades, column) \in Int
  <1>1. trades \in Seq(TradeRow)
    BY DEF BacktestInv, ListsOK
  <1>2. QED
    BY <1>1, BookAppend

\* A row that is not filled adds nothing to any of them.
LEMMA BookedRefused ==
    ASSUME BacktestInv, BookedInv, UNCHANGED <<account, day>>,
           NEW row \in TradeRow, row.status # "filled", trades' = Append(trades, row)
    PROVE  BookedInv'
  <1>1. /\ PaidFor[row] = 0 /\ EarnedBy[row] = 0
        /\ \A d : SettledBy(d)[row] = 0 /\ DueOn(d)[row] = 0
        /\ \A s : BoughtOf(s)[row] = 0 /\ SoldOf(s)[row] = 0
    BY DEF PaidFor, EarnedBy, SettledBy, DueOn, BoughtOf, SoldOf, IsBuy, IsSale
  <1>2. \A column \in Columns : column[row] = 0 => Book(trades', column) = Book(trades, column)
    BY RowInColumns
  <1>3. /\ Book(trades', PaidFor) = Book(trades, PaidFor)
        /\ Book(trades', EarnedBy) = Book(trades, EarnedBy)
        /\ \A d : /\ Book(trades', SettledBy(d)) = Book(trades, SettledBy(d))
                  /\ Book(trades', DueOn(d)) = Book(trades, DueOn(d))
        /\ \A s : /\ Book(trades', BoughtOf(s)) = Book(trades, BoughtOf(s))
                  /\ Book(trades', SoldOf(s)) = Book(trades, SoldOf(s))
    BY <1>1, <1>2, ColumnsAreInt
  <1>4. /\ cash' = cash /\ available' = available /\ settling' = settling /\ held' = held
        /\ day' = day
    BY DEF account
  <1>5. QED
    BY <1>3, <1>4 DEF BookedInv

\* A buy is paid from booked and from settled cash, and held.
LEMMA BookedBuy ==
    ASSUME BacktestInv, BookedInv, day' = day, settling' = settling,
           NEW row \in TradeRow, row.status = "filled", row.side = "buy",
           trades' = Append(trades, row),
           cash' = cash - Paid(row), available' = available - Paid(row),
           held' = [held EXCEPT ![row.symbol] = @ + row.qty]
    PROVE  BookedInv'
  <1>0. row.symbol \in Symbols /\ row.qty \in Nat /\ row.price \in Int /\ row.cost \in Int
    BY DEF TradeRow
  <1>1. Paid(row) \in Int
    BY <1>0 DEF Paid, Amount
  <1>2. /\ PaidFor[row] = Paid(row) /\ EarnedBy[row] = 0
        /\ \A d : SettledBy(d)[row] = 0 /\ DueOn(d)[row] = 0
        /\ \A s : BoughtOf(s)[row] = (IF s = row.symbol THEN row.qty ELSE 0) /\ SoldOf(s)[row] = 0
    BY DEF PaidFor, EarnedBy, SettledBy, DueOn, BoughtOf, SoldOf, IsBuy, IsSale
  <1>3. /\ Book(trades', PaidFor) = Book(trades, PaidFor) + Paid(row)
        /\ Book(trades', EarnedBy) = Book(trades, EarnedBy)
        /\ \A d : /\ Book(trades', SettledBy(d)) = Book(trades, SettledBy(d))
                  /\ Book(trades', DueOn(d)) = Book(trades, DueOn(d))
        /\ \A s : /\ Book(trades', BoughtOf(s)) = Book(trades, BoughtOf(s))
                                                    + (IF s = row.symbol THEN row.qty ELSE 0)
                  /\ Book(trades', SoldOf(s)) = Book(trades, SoldOf(s))
    <2>1. \A column \in Columns : Book(trades', column) = Book(trades, column) + column[row]
      BY RowInColumns
    <2>2. \A column \in Columns : column[row] = 0 => Book(trades', column) = Book(trades, column)
      BY RowInColumns
    <2>3. Book(trades', PaidFor) = Book(trades, PaidFor) + Paid(row)
      BY <1>2, <2>1, ColumnsAreInt
    <2>4. /\ Book(trades', EarnedBy) = Book(trades, EarnedBy)
          /\ \A d : /\ Book(trades', SettledBy(d)) = Book(trades, SettledBy(d))
                    /\ Book(trades', DueOn(d)) = Book(trades, DueOn(d))
          /\ \A s : Book(trades', SoldOf(s)) = Book(trades, SoldOf(s))
      BY <1>2, <2>2, ColumnsAreInt
    <2>5. ASSUME NEW s
          PROVE  Book(trades', BoughtOf(s)) = Book(trades, BoughtOf(s))
                                                 + (IF s = row.symbol THEN row.qty ELSE 0)
      <3>1. Book(trades', BoughtOf(s)) = Book(trades, BoughtOf(s)) + BoughtOf(s)[row]
        BY <2>1, ColumnsAreInt
      <3>2. QED
        BY <1>2, <3>1
    <2>6. QED
      BY <2>3, <2>4, <2>5
  <1>4. /\ cash \in Int /\ available \in Int /\ held \in [Symbols -> Nat] /\ Capital \in Int
    BY BacktestAssumption DEF BacktestInv, BacktestTypeOK
  <1>5. cash' = Capital - Book(trades', PaidFor) + Book(trades', EarnedBy)
    <2>1. cash = Capital - Book(trades, PaidFor) + Book(trades, EarnedBy)
      BY DEF BookedInv
    <2>2. Book(trades, PaidFor) \in Int /\ Book(trades, EarnedBy) \in Int
      BY BooksAreInt
    <2>3. QED
      BY <1>1, <1>3, <1>4, <2>1, <2>2
  <1>6. available' = Capital - Book(trades', PaidFor) + Book(trades', SettledBy(day))
    <2>1. available = Capital - Book(trades, PaidFor) + Book(trades, SettledBy(day))
      BY DEF BookedInv
    <2>2. Book(trades, PaidFor) \in Int /\ Book(trades, SettledBy(day)) \in Int
      BY BooksAreInt
    <2>3. QED
      BY <1>1, <1>3, <1>4, <2>1, <2>2
  <1>7. ASSUME NEW s \in Symbols
        PROVE  held'[s] = Book(trades', BoughtOf(s)) - Book(trades', SoldOf(s))
    <2>1. held'[s] = held[s] + (IF s = row.symbol THEN row.qty ELSE 0)
      BY <1>0, <1>4
    <2>2. QED
      BY <1>0, <1>3, <1>4, <2>1, BooksAreInt DEF BookedInv
  <1>8. \A d \in PayDays : d > day => settling'[d] = Book(trades', DueOn(d))
    BY <1>3 DEF BookedInv
  <1>9. QED
    BY <1>5, <1>6, <1>7, <1>8 DEF BookedInv

\* A sale is booked at once, and due on the day it settles.
LEMMA BookedSale ==
    ASSUME BacktestInv, BookedInv, day \in Days, day' = day, available' = available,
           NEW row \in TradeRow, row.status = "filled", row.side = "sell", row.fill = day,
           trades' = Append(trades, row),
           cash' = cash + Earned(row),
           settling' = [settling EXCEPT ![SettlementDay(day)] = @ + Earned(row)],
           held' = [held EXCEPT ![row.symbol] = @ - row.qty]
    PROVE  BookedInv'
  <1> DEFINE pays == SettlementDay(day)
  <1>0. row.symbol \in Symbols /\ row.qty \in Nat /\ row.price \in Int /\ row.cost \in Int
    BY DEF TradeRow
  <1>1. Earned(row) \in Int /\ day \in Int
    BY <1>0, BacktestAssumption DEF Earned, Amount, Days
  <1>2. pays \in PayDays /\ pays > day /\ pays \in Int
    BY <1>1, SettlesSoon, BacktestAssumption DEF PayDays
  <1>3. /\ PaidFor[row] = 0 /\ EarnedBy[row] = Earned(row)
        /\ SettledBy(day)[row] = 0
        /\ \A d : DueOn(d)[row] = IF d = pays THEN Earned(row) ELSE 0
        /\ \A s : BoughtOf(s)[row] = 0 /\ SoldOf(s)[row] = IF s = row.symbol THEN row.qty ELSE 0
    <2>1. ~(pays \leq day)
      BY <1>1, <1>2
    <2>2. IsSale(row) /\ ~IsBuy(row) /\ SettlementDay(row.fill) = pays
      BY DEF IsSale, IsBuy
    <2> HIDE DEF pays
    <2>3. QED
      BY <2>1, <2>2 DEF PaidFor, EarnedBy, SettledBy, DueOn, BoughtOf, SoldOf
  <1> HIDE DEF pays
  <1>4. /\ Book(trades', PaidFor) = Book(trades, PaidFor)
        /\ Book(trades', EarnedBy) = Book(trades, EarnedBy) + Earned(row)
        /\ Book(trades', SettledBy(day)) = Book(trades, SettledBy(day))
        /\ \A d : Book(trades', DueOn(d)) = Book(trades, DueOn(d))
                                               + (IF d = pays THEN Earned(row) ELSE 0)
        /\ \A s : /\ Book(trades', BoughtOf(s)) = Book(trades, BoughtOf(s))
                  /\ Book(trades', SoldOf(s)) = Book(trades, SoldOf(s))
                                                  + (IF s = row.symbol THEN row.qty ELSE 0)
    <2>1. \A column \in Columns : column[row] = 0 => Book(trades', column) = Book(trades, column)
      BY RowInColumns
    <2>2. \A column \in Columns : Book(trades', column) = Book(trades, column) + column[row]
      BY RowInColumns
    <2>3. /\ Book(trades', PaidFor) = Book(trades, PaidFor)
          /\ Book(trades', SettledBy(day)) = Book(trades, SettledBy(day))
          /\ \A s : Book(trades', BoughtOf(s)) = Book(trades, BoughtOf(s))
      BY <1>3, <2>1, ColumnsAreInt
    <2>4. Book(trades', EarnedBy) = Book(trades, EarnedBy) + Earned(row)
      BY <1>3, <2>2, ColumnsAreInt
    <2>5. ASSUME NEW d
          PROVE  Book(trades', DueOn(d)) = Book(trades, DueOn(d))
                                              + (IF d = pays THEN Earned(row) ELSE 0)
      <3>1. Book(trades', DueOn(d)) = Book(trades, DueOn(d)) + DueOn(d)[row]
        BY <2>2, ColumnsAreInt
      <3>2. QED
        BY <1>3, <3>1
    <2>6. ASSUME NEW s
          PROVE  Book(trades', SoldOf(s)) = Book(trades, SoldOf(s))
                                               + (IF s = row.symbol THEN row.qty ELSE 0)
      <3>1. Book(trades', SoldOf(s)) = Book(trades, SoldOf(s)) + SoldOf(s)[row]
        BY <2>2, ColumnsAreInt
      <3>2. QED
        BY <1>3, <3>1
    <2>7. QED
      BY <2>3, <2>4, <2>5, <2>6
  <1>5. /\ cash \in Int /\ available \in Int /\ held \in [Symbols -> Nat] /\ Capital \in Int
        /\ settling \in [PayDays -> Int]
    BY BacktestAssumption DEF BacktestInv, BacktestTypeOK
  <1>6. cash' = Capital - Book(trades', PaidFor) + Book(trades', EarnedBy)
    BY <1>1, <1>4, <1>5, BooksAreInt DEF BookedInv
  <1>7. available' = Capital - Book(trades', PaidFor) + Book(trades', SettledBy(day))
    BY <1>4 DEF BookedInv
  <1>8. ASSUME NEW s \in Symbols
        PROVE  held'[s] = Book(trades', BoughtOf(s)) - Book(trades', SoldOf(s))
    <2>1. held'[s] = held[s] - (IF s = row.symbol THEN row.qty ELSE 0)
      BY <1>0, <1>5
    <2>2. QED
      BY <1>0, <1>4, <1>5, <2>1, BooksAreInt DEF BookedInv
  <1>9. ASSUME NEW d \in PayDays, d > day
        PROVE  settling'[d] = Book(trades', DueOn(d))
    <2>1. settling'[d] = settling[d] + (IF d = pays THEN Earned(row) ELSE 0)
      BY <1>1, <1>2, <1>5 DEF pays
    <2>2. settling[d] = Book(trades, DueOn(d))
      BY <1>9 DEF BookedInv
    <2>3. QED
      BY <1>4, <2>1, <2>2
  <1>10. QED
    BY <1>6, <1>7, <1>8, <1>9 DEF BookedInv

\* When a day opens the sales that are due become available.
LEMMA BookedOpenDay ==
    ASSUME BacktestInv, BookedInv, NEW bars, OpenDay(bars)
    PROVE  BookedInv'
  <1>1. /\ day \in Int /\ day' = day + 1 /\ day + 1 \in PayDays /\ day + 1 > day
        /\ trades' = trades /\ cash' = cash /\ held' = held
        /\ available' = available + settling[day + 1]
        /\ settling' = [settling EXCEPT ![day + 1] = 0]
        /\ settling \in [PayDays -> Int]
    BY BacktestAssumption DEF BacktestInv, BacktestTypeOK, OpenDay, PayDays
  <1>2. trades \in Seq(TradeRow)
    BY DEF BacktestInv, ListsOK
  <1>3. \A t \in TradeRow : SettledBy(day + 1)[t] = SettledBy(day)[t] + DueOn(day + 1)[t]
    <2>1. ASSUME NEW t \in TradeRow PROVE SettlementDay(t.fill) \in Int /\ Earned(t) \in Int
      <3>1. t.fill \in Int /\ t.price \in Int /\ t.qty \in Int /\ t.cost \in Int
        BY BacktestAssumption DEF TradeRow
      <3>2. SettlementDay(t.fill) \in Int
        BY <3>1, BacktestAssumption DEF SettlementDay
      <3>3. QED
        BY <3>1, <3>2 DEF Earned, Amount
    <2>2. QED
      BY <1>1, <2>1 DEF SettledBy, DueOn
  <1>4. /\ Book(trades, SettledBy(day + 1))
             = Book(trades, SettledBy(day)) + Book(trades, DueOn(day + 1))
    <2>1. /\ SettledBy(day + 1) \in Columns /\ SettledBy(day) \in Columns
          /\ DueOn(day + 1) \in Columns
      BY ColumnsAreInt
    <2>2. QED
      BY <1>2, <1>3, <2>1, BookPlus
  <1>5. settling[day + 1] = Book(trades, DueOn(day + 1))
    BY <1>1 DEF BookedInv
  <1>6. Capital \in Int
    BY BacktestAssumption
  <1>7. available' = Capital - Book(trades, PaidFor) + Book(trades, SettledBy(day + 1))
    BY <1>1, <1>4, <1>5, <1>6, BooksAreInt DEF BookedInv
  <1>8. ASSUME NEW d \in PayDays, d > day + 1
        PROVE  settling'[d] = Book(trades, DueOn(d))
    <2>1. d \in Int /\ d # day + 1 /\ d > day
      BY <1>1, <1>8, BacktestAssumption DEF PayDays
    <2>2. QED
      BY <1>1, <2>1 DEF BookedInv
  <1>9. QED
    BY <1>1, <1>7, <1>8 DEF BookedInv

\* A refusal adds a row and nothing else.
LEMMA BookedRefusal ==
    ASSUME BacktestInv, BookedInv, phase = "filling", orders # <<>>,
           UNCHANGED <<account, day>>,
           NEW status \in Statuses \ {"cancelled_eob", "filled"},
           trades' = Refused(Head(orders), status)
    PROVE  BookedInv'
  <1>1. trades' = Append(trades, Row(Head(orders), status, 0, 0))
    BY DEF Refused
  <1>2. /\ Row(Head(orders), status, 0, 0) \in TradeRow
        /\ Row(Head(orders), status, 0, 0).status # "filled"
    BY RowOfHead DEF Row
  <1>3. QED
    BY <1>1, <1>2, BookedRefused

\* The orders of a day keep the books.
LEMMA BookedFillBuy ==
    ASSUME BacktestInv, BookedInv, Fill, FillBuy
    PROVE  BookedInv'
  <1> DEFINE order   == Head(orders)
             open    == bar[order.symbol].o
             close   == last[order.symbol]
             price   == FillPrice("buy", open, close)
             outflow == Outflow(price, order.qty)
             row     == Row(order, "filled", price, Cost("buy", price * order.qty))
  <1>1. /\ phase = "filling" /\ orders # <<>> /\ bar[order.symbol] # NoBar
        /\ order.side = "buy" /\ day' = day
    BY DEF FillBuy, Fill
  <1>2. CASE /\ account' = account
             /\ \E status \in Statuses \ {"cancelled_eob", "filled"} : trades' = Refused(order, status)
    BY <1>1, <1>2, BookedRefusal
  <1>3. CASE /\ cash' = cash - outflow /\ available' = available - outflow
             /\ held' = [held EXCEPT ![order.symbol] = @ + order.qty]
             /\ trades' = Append(trades, row)
             /\ settling' = settling
    <2>1. price \in Int /\ Cost("buy", price * order.qty) \in Int
      BY <1>1, FillIsInt
    <2> HIDE DEF price
    <2>2. "filled" \in Statuses \ {"cancelled_eob"}
      BY DEF Statuses
    <2>3. row \in TradeRow
      BY <1>1, <2>1, <2>2, RowOfHead
    <2>4. /\ row.status = "filled" /\ row.side = "buy" /\ row.symbol = order.symbol
          /\ row.qty = order.qty /\ Paid(row) = outflow
      BY <1>1 DEF Row, Paid, Amount, Outflow
    <2> HIDE DEF row, outflow
    <2>5. QED
      BY <1>1, <1>3, <2>3, <2>4, BookedBuy
  <1>4. /\ Refusal("buy", open, close) # "filled"
              => Refusal("buy", open, close) \in Statuses \ {"cancelled_eob", "filled"}
        /\ "rejected_insufficient_cash" \in Statuses \ {"cancelled_eob", "filled"}
    BY RefusalIsStatus DEF Statuses
  <1>5. QED
    BY <1>2, <1>3, <1>4 DEF FillBuy, account

\* So does a sale, which is booked now and due later.
LEMMA BookedFillSell ==
    ASSUME BacktestInv, BookedInv, Fill, FillSell
    PROVE  BookedInv'
  <1> DEFINE order == Head(orders)
             open  == bar[order.symbol].o
             close == last[order.symbol]
             price == FillPrice("sell", open, close)
             net   == Proceeds(price, order.qty)
             row   == Row(order, "filled", price, Cost("sell", price * order.qty))
  <1>1. /\ phase = "filling" /\ orders # <<>> /\ bar[order.symbol] # NoBar
        /\ order.side = "sell" /\ day' = day
    BY DEF FillSell, Fill
  <1>2. CASE /\ account' = account
             /\ \E status \in Statuses \ {"cancelled_eob", "filled"} : trades' = Refused(order, status)
    BY <1>1, <1>2, BookedRefusal
  <1>3. CASE /\ cash' = cash + net /\ available' = available
             /\ settling' = [settling EXCEPT ![SettlementDay(day)] = @ + net]
             /\ held' = [held EXCEPT ![order.symbol] = @ - order.qty]
             /\ trades' = Append(trades, row)
    <2>1. price \in Int /\ Cost("sell", price * order.qty) \in Int
      BY <1>1, FillIsInt
    <2> HIDE DEF price
    <2>2. "filled" \in Statuses \ {"cancelled_eob"}
      BY DEF Statuses
    <2>3. row \in TradeRow
      BY <1>1, <2>1, <2>2, RowOfHead
    <2>4. /\ row.status = "filled" /\ row.side = "sell" /\ row.symbol = order.symbol
          /\ row.qty = order.qty /\ row.fill = day /\ Earned(row) = net
      BY <1>1 DEF Row, Earned, Amount, Proceeds
    <2>5. day \in Days
      BY <1>1, HeadOrder
    <2> HIDE DEF row, net
    <2>6. QED
      BY <1>1, <1>3, <2>3, <2>4, <2>5, BookedSale
  <1>4. /\ Refusal("sell", open, close) # "filled"
              => Refusal("sell", open, close) \in Statuses \ {"cancelled_eob", "filled"}
        /\ "rejected_no_position" \in Statuses \ {"cancelled_eob", "filled"}
    BY RefusalIsStatus DEF Statuses
  <1>5. QED
    BY <1>2, <1>3, <1>4 DEF FillSell, account

\* An intent waits, or is a row that is not filled.
LEMMA BookedAsk ==
    ASSUME BacktestInv, BookedInv, todo # {}, NEW intent \in Allowed(NextSymbol), Ask(intent),
           UNCHANGED <<day, account>>
    PROVE  BookedInv'
  <1> DEFINE order == [symbol |-> NextSymbol, side |-> intent.side, qty |-> intent.qty,
                       signal |-> day]
             row   == Row(order, "cancelled_eob", 0, 0)
  <1>1. NextSymbol \in Symbols
    BY NextIsToDo DEF BacktestInv, BacktestTypeOK
  <1>2. intent.side \in Sides /\ intent.qty \in Nat
    BY <1>1, AllowedIntent
  <1>3. day \in Days
    BY DEF Ask, BacktestInv, DaysInTurn
  <1>4. row \in TradeRow /\ row.status # "filled"
    BY <1>1, <1>2, <1>3, BacktestAssumption DEF Row, TradeRow, Statuses
  <1>5. CASE trades' = Append(trades, row)
    BY <1>4, <1>5, BookedRefused
  <1>6. CASE trades' = trades
    BY <1>6, BookedKept
  <1>7. QED
    BY <1>5, <1>6 DEF Ask, Emit, Refused

\* Every step keeps the books.
LEMMA BookedNext == BacktestInv /\ BookedInv /\ [Next]_backtestVars => BookedInv'
  <1> SUFFICES ASSUME BacktestInv, BookedInv, [Next]_backtestVars PROVE BookedInv'
    OBVIOUS
  <1>1. ASSUME NEW bars \in [Symbols -> UNION Range(Bars) \cup {NoBar}], OpenDay(bars)
        PROVE  BookedInv'
    BY <1>1, BookedOpenDay
  <1>2. CASE Fill /\ Postpone
    BY <1>2, BookedKept DEF Fill, Postpone
  <1>3. CASE Fill /\ ~Postpone
    BY <1>3, BookedFillBuy, BookedFillSell DEF Fill
  <1>4. CASE CloseBars
    BY <1>4, BookedKept DEF CloseBars
  <1>5. CASE Signal
    <2>1. UNCHANGED <<day, account>>
      BY <1>5 DEF Signal
    <2>2. CASE Stay
      BY <2>1, <2>2, BookedKept DEF Stay
    <2>3. ASSUME NEW intent \in Allowed(NextSymbol), todo # {}, Ask(intent) PROVE BookedInv'
      BY <2>1, <2>3, BookedAsk
    <2>4. QED
      BY <1>5, <2>2, <2>3 DEF Signal
  <1>6. CASE CloseDay
    BY <1>6, BookedKept DEF CloseDay
  <1>7. CASE Fail \/ Refuse \/ StoreJob
    BY <1>7, BookedKept DEF Fail, Refuse, StoreJob
  <1>8. CASE UNCHANGED backtestVars
    BY <1>8, BookedKept DEF backtestVars, account
  <1>9. QED
    BY <1>1, <1>2, <1>3, <1>4, <1>5, <1>6, <1>7, <1>8 DEF Next

\* The books agree with the account throughout.
LEMMA BookedAlways == Spec => []BookedInv
  BY InvAlways, BookedInit, BookedNext, PTL DEF Spec

-----------------------------------------------------------------------------
\* What the property says of the rows is what the books say

\* A sale settles two days later, and beyond the end on the last day but for those
\* of that day.
LEMMA SettledInTime ==
    ASSUME NEW d \in 0..LastDay, d < LastDay, NEW fill \in 0..LastDay
    PROVE  SettlementDay(fill) \leq d <=> fill + 2 \leq d
  BY BacktestAssumption DEF SettlementDay

\* Each sum is a book.
LEMMA SumsAreBooks ==
    ASSUME BacktestInv
    PROVE  /\ Sum(Paid, IsBuy) = Book(trades, PaidFor)
           /\ Sum(Earned, IsSale) = Book(trades, EarnedBy)
           /\ day < LastDay => Sum(Earned, LAMBDA t : IsSale(t) /\ t.fill + 2 \leq day)
                                 = Book(trades, SettledBy(day))
           /\ \A s : /\ Sum(LAMBDA t : t.qty, LAMBDA t : IsBuy(t) /\ t.symbol = s)
                           = Book(trades, BoughtOf(s))
                     /\ Sum(LAMBDA t : t.qty, LAMBDA t : IsSale(t) /\ t.symbol = s)
                           = Book(trades, SoldOf(s))
  <1>1. \A i \in DOMAIN trades : trades[i] \in TradeRow
    BY DEF BacktestInv, ListsOK
  <1>2. Sum(Paid, IsBuy) = Book(trades, PaidFor)
    <2>1. [i \in DOMAIN trades |-> IF IsBuy(trades[i]) THEN Paid(trades[i]) ELSE 0]
            = [i \in DOMAIN trades |-> PaidFor[trades[i]]]
      BY <1>1 DEF PaidFor
    <2>2. QED
      BY <2>1 DEF Sum, Book
  <1>3. Sum(Earned, IsSale) = Book(trades, EarnedBy)
    <2>1. [i \in DOMAIN trades |-> IF IsSale(trades[i]) THEN Earned(trades[i]) ELSE 0]
            = [i \in DOMAIN trades |-> EarnedBy[trades[i]]]
      BY <1>1 DEF EarnedBy
    <2>2. QED
      BY <2>1 DEF Sum, Book
  <1>4. ASSUME day < LastDay
        PROVE  Sum(Earned, LAMBDA t : IsSale(t) /\ t.fill + 2 \leq day)
                 = Book(trades, SettledBy(day))
    <2>1. \A t \in TradeRow : SettlementDay(t.fill) \leq day <=> t.fill + 2 \leq day
      BY <1>4, SettledInTime DEF BacktestInv, BacktestTypeOK, TradeRow
    <2>2. [i \in DOMAIN trades |-> IF IsSale(trades[i]) /\ trades[i].fill + 2 \leq day
                                   THEN Earned(trades[i]) ELSE 0]
            = [i \in DOMAIN trades |-> SettledBy(day)[trades[i]]]
      BY <1>1, <2>1 DEF SettledBy
    <2>3. QED
      BY <2>2 DEF Sum, Book
  <1>5. ASSUME NEW s
        PROVE  /\ Sum(LAMBDA t : t.qty, LAMBDA t : IsBuy(t) /\ t.symbol = s)
                     = Book(trades, BoughtOf(s))
               /\ Sum(LAMBDA t : t.qty, LAMBDA t : IsSale(t) /\ t.symbol = s)
                     = Book(trades, SoldOf(s))
    <2>1. [i \in DOMAIN trades |-> IF IsBuy(trades[i]) /\ trades[i].symbol = s
                                   THEN trades[i].qty ELSE 0]
            = [i \in DOMAIN trades |-> BoughtOf(s)[trades[i]]]
      BY <1>1 DEF BoughtOf
    <2>2. [i \in DOMAIN trades |-> IF IsSale(trades[i]) /\ trades[i].symbol = s
                                   THEN trades[i].qty ELSE 0]
            = [i \in DOMAIN trades |-> SoldOf(s)[trades[i]]]
      BY <1>1 DEF SoldOf
    <2>3. QED
      BY <2>1, <2>2 DEF Sum, Book
  <1>6. QED
    BY <1>2, <1>3, <1>4, <1>5

\* For any bars, quantities, costs and number of days, whatever the strategy: booked
\* cash, settled cash and the positions are the trade rows added up, a sale with the
\* cash that is spendable from the second trading day after it.
THEOREM AccountIsItsRows == Spec => []Booked
  <1>1. BacktestInv /\ BookedInv => Booked
    <2> SUFFICES ASSUME BacktestInv, BookedInv PROVE Booked
      OBVIOUS
    <2>1. cash = Capital - Sum(Paid, IsBuy) + Sum(Earned, IsSale)
      BY SumsAreBooks DEF BookedInv
    <2>2. day < LastDay =>
            available = Capital - Sum(Paid, IsBuy)
                          + Sum(Earned, LAMBDA t : IsSale(t) /\ t.fill + 2 \leq day)
      BY SumsAreBooks DEF BookedInv
    <2>3. ASSUME NEW s \in Symbols
          PROVE  held[s] = Sum(LAMBDA t : t.qty, LAMBDA t : IsBuy(t) /\ t.symbol = s)
                             - Sum(LAMBDA t : t.qty, LAMBDA t : IsSale(t) /\ t.symbol = s)
      BY SumsAreBooks DEF BookedInv
    <2>4. QED
      BY <2>1, <2>2, <2>3 DEF Booked
  <1>2. QED
    BY <1>1, InvAlways, BookedAlways, PTL

-----------------------------------------------------------------------------
\* Only settled cash is spent
\*
\* The code checks what a buy takes against what is available, but not what a sale
\* brings: with a floor for the fee, a sale of less than the floor brings less than
\* nothing, and settles all the same.  The premise, SalesPay, excludes such sales.

OfLots(list) == \A i \in 1..Len(list) : list[i].qty \in Lots

PaysInv ==
    /\ available >= 0
    /\ \A d \in PayDays : settling[d] >= 0
    /\ OfLots(orders) /\ OfLots(waiting)

\* An order of a lot more
LEMMA LotMore ==
    ASSUME NEW list \in Seq(Order), NEW order \in Order, OfLots(list), order.qty \in Lots
    PROVE  OfLots(Append(list, order))
  <1> DEFINE more == Append(list, order)
  <1>1. /\ Len(list) \in Nat /\ Len(more) = Len(list) + 1
        /\ more[Len(list) + 1] = order
        /\ \A i \in 1..Len(list) : more[i] = list[i]
    OBVIOUS
  <1> HIDE DEF more
  <1>2. \A i \in 1..Len(more) : i \in 1..Len(list) \/ i = Len(list) + 1
    BY <1>1
  <1>3. QED
    BY <1>1, <1>2 DEF OfLots, more

\* The first order and the others are of lots when all are.
LEMMA LotFirst ==
    ASSUME NEW list \in Seq(Order), list # <<>>, OfLots(list)
    PROVE  Head(list).qty \in Lots /\ OfLots(Tail(list))
  <1>1. /\ Len(list) \in Nat \ {0} /\ Head(list) = list[1] /\ 1 \in 1..Len(list)
        /\ \A i \in 1..Len(Tail(list)) : Tail(list)[i] = list[i + 1] /\ i + 1 \in 1..Len(list)
    OBVIOUS
  <1>2. QED
    BY <1>1 DEF OfLots

\* Nothing is owed and nothing waits at first.
LEMMA PaysInit == Init => PaysInv
  BY BacktestAssumption DEF Init, PaysInv, OfLots

\* A step that touches neither settled cash nor the orders
LEMMA PaysKept ==
    ASSUME PaysInv, UNCHANGED <<available, settling, orders, waiting>>
    PROVE  PaysInv'
  BY DEF PaysInv

\* What settles as a day opens is not negative, and what waited is looked at.
LEMMA PaysOpenDay ==
    ASSUME BacktestInv, PaysInv, NEW bars, OpenDay(bars)
    PROVE  PaysInv'
  <1>1. /\ day + 1 \in PayDays /\ settling \in [PayDays -> Int] /\ available \in Int
        /\ settling[day + 1] >= 0 /\ available >= 0
    BY BacktestAssumption DEF BacktestInv, BacktestTypeOK, OpenDay, PayDays, PaysInv
  <1>2. /\ available' = available + settling[day + 1]
        /\ settling' = [settling EXCEPT ![day + 1] = 0]
        /\ orders' = waiting /\ waiting' = <<>>
    BY DEF OpenDay
  <1>3. available' >= 0
    BY <1>1, <1>2
  <1>4. \A d \in PayDays : settling'[d] >= 0
    BY <1>1, <1>2 DEF PaysInv
  <1>5. OfLots(orders') /\ OfLots(waiting')
    BY <1>2 DEF PaysInv, OfLots
  <1>6. QED
    BY <1>3, <1>4, <1>5 DEF PaysInv

\* Answering an order leaves lots in both lists.
LEMMA LotsLeft ==
    ASSUME BacktestInv, OfLots(orders), OfLots(waiting), phase = "filling", orders # <<>>
    PROVE  /\ Head(orders).qty \in Lots /\ OfLots(Tail(orders))
           /\ OfLots(Append(waiting, Head(orders)))
  <1>1. orders \in Seq(Order) /\ waiting \in Seq(Order) /\ OfLots(orders) /\ OfLots(waiting)
    BY DEF BacktestInv, ListsOK
  <1>2. Head(orders).qty \in Lots /\ OfLots(Tail(orders))
    BY <1>1, LotFirst
  <1>3. Head(orders) \in Order
    BY HeadOrder
  <1>4. QED
    BY <1>1, <1>2, <1>3, LotMore

\* A buy takes no more than is available.
LEMMA PaysFillBuy ==
    ASSUME BacktestInv, PaysInv, Fill, FillBuy
    PROVE  PaysInv'
  <1> DEFINE order   == Head(orders)
             price   == FillPrice("buy", bar[order.symbol].o, last[order.symbol])
             outflow == Outflow(price, order.qty)
  <1>1. /\ phase = "filling" /\ orders # <<>> /\ bar[order.symbol] # NoBar
        /\ orders' = Tail(orders) /\ waiting' = waiting
    BY DEF FillBuy, Fill
  <1>2. outflow \in Int
    BY <1>1, FillIsInt DEF Outflow
  <1>3. /\ settling' = settling
        /\ \/ available' = available
           \/ available' = available - outflow /\ Affords(outflow)
    <2>1. CASE account' = account
      BY <2>1 DEF account
    <2>2. CASE /\ Affords(outflow) /\ available' = available - outflow
               /\ settling' = settling
      BY <2>2
    <2> HIDE DEF outflow
    <2>3. QED
      BY <2>1, <2>2 DEF FillBuy, outflow
  <1>4. available \in Int
    BY DEF BacktestInv, BacktestTypeOK
  <1> HIDE DEF outflow
  <1>5. available' >= 0
    BY <1>2, <1>3, <1>4 DEF PaysInv, Affords
  <1>6. OfLots(orders') /\ OfLots(waiting')
    BY <1>1, LotsLeft DEF PaysInv
  <1>7. QED
    BY <1>3, <1>5, <1>6 DEF PaysInv

\* A sale brings something.
LEMMA PaysFillSell ==
    ASSUME SalesPay, BacktestInv, PaysInv, Fill, FillSell
    PROVE  PaysInv'
  <1> DEFINE order == Head(orders)
             open  == bar[order.symbol].o
             close == last[order.symbol]
             price == FillPrice("sell", open, close)
             net   == Proceeds(price, order.qty)
             pays  == SettlementDay(day)
  <1>1. /\ phase = "filling" /\ orders # <<>> /\ bar[order.symbol] # NoBar
        /\ orders' = Tail(orders) /\ waiting' = waiting
    BY DEF FillSell, Fill
  <1>2. net \in Int
    BY <1>1, FillIsInt DEF Proceeds
  <1>3. net >= 0
    <2>1. order.symbol \in Symbols /\ order.qty \in Lots
      BY <1>1, HeadOrder, LotsLeft DEF PaysInv
    <2>2. bar[order.symbol] \in Bars[order.symbol]
      BY <1>1, <2>1 DEF BacktestInv, BacktestTypeOK
    <2>3. price = (open * (1000 - SlippageOf(open, close))) \div 1000
      BY DEF FillPrice
    <2>4. SlippageOf(open, close) \in {10, Slippage}
      BY DEF SlippageOf
    <2>5. QED
      BY <2>1, <2>2, <2>3, <2>4 DEF SalesPay
  <1>4. pays \in PayDays
    BY <1>1, HeadOrder, SettlesSoon
  <1>5. /\ available' = available
        /\ settling' = settling \/ settling' = [settling EXCEPT ![pays] = @ + net]
    BY DEF FillSell, account
  <1> HIDE DEF net, pays
  <1>6. \A d \in PayDays : settling'[d] >= 0
    <2>1. settling \in [PayDays -> Int] /\ \A d \in PayDays : settling[d] >= 0
      BY DEF BacktestInv, BacktestTypeOK, PaysInv
    <2>2. settling[pays] + net >= 0
      BY <1>2, <1>3, <1>4, <2>1
    <2>3. QED
      BY <1>4, <1>5, <2>1, <2>2
  <1>7. OfLots(orders') /\ OfLots(waiting')
    BY <1>1, LotsLeft DEF PaysInv
  <1>8. QED
    BY <1>5, <1>6, <1>7 DEF PaysInv

\* The strategy asks for lots: the crossing one for what it holds, which is one.
LEMMA LotsAsked ==
    ASSUME BacktestInv, SmaInv, OfLots(waiting), todo # {},
           NEW intent \in Allowed(NextSymbol), Ask(intent)
    PROVE  OfLots(waiting')
  <1> DEFINE order == [symbol |-> NextSymbol, side |-> intent.side, qty |-> intent.qty,
                       signal |-> day]
  <1>1. NextSymbol \in Symbols
    BY NextIsToDo DEF BacktestInv, BacktestTypeOK
  <1>2. intent.side \in Sides /\ intent.qty \in Nat
    BY <1>1, AllowedIntent
  <1>3. intent.qty \in Lots
    <2>1. CASE strategy = "sma_cross"
      <3>1. held[NextSymbol] \in {0, SmaQuantity}
        BY <1>1, <2>1 DEF SmaInv, Positions
      <3>2. intent \in SmaIntents(NextSymbol)
        BY <2>1 DEF Allowed
      <3>3. QED
        BY <3>1, <3>2 DEF SmaIntents, Lots
    <2>2. CASE strategy # "sma_cross"
      BY <2>2 DEF Allowed, Intents, Lots
    <2>3. QED
      BY <2>1, <2>2
  <1>4. order \in Order /\ order.qty \in Lots
    BY <1>1, <1>2, <1>3 DEF Order, Ask, BacktestInv, DaysInTurn
  <1>5. waiting' = waiting \/ waiting' = Append(waiting, order)
    BY DEF Ask, Emit
  <1> HIDE DEF order
  <1>6. OfLots(waiting')
    <2>1. waiting \in Seq(Order) /\ OfLots(waiting)
      BY DEF BacktestInv, ListsOK
    <2>2. QED
      BY <1>4, <1>5, <2>1, LotMore
  <1>7. QED
    BY <1>6

\* An intent leaves settled cash as it is.
LEMMA PaysAsk ==
    ASSUME BacktestInv, SmaInv, PaysInv, todo # {},
           NEW intent \in Allowed(NextSymbol), Ask(intent),
           UNCHANGED <<account, orders>>
    PROVE  PaysInv'
  BY LotsAsked DEF PaysInv, account

\* Every step leaves settled cash.
LEMMA PaysNext ==
    ASSUME SalesPay
    PROVE  BacktestInv /\ SmaInv /\ PaysInv /\ [Next]_backtestVars => PaysInv'
  <1> SUFFICES ASSUME BacktestInv, SmaInv, PaysInv, [Next]_backtestVars PROVE PaysInv'
    OBVIOUS
  <1>1. ASSUME NEW bars \in [Symbols -> UNION Range(Bars) \cup {NoBar}], OpenDay(bars)
        PROVE  PaysInv'
    BY <1>1, PaysOpenDay
  <1>2. CASE Fill /\ Postpone
    <2>1. /\ phase = "filling" /\ orders # <<>> /\ orders' = Tail(orders)
          /\ waiting' = Append(waiting, Head(orders))
          /\ available' = available /\ settling' = settling
      BY <1>2 DEF Postpone, account
    <2>2. QED
      BY <2>1, LotsLeft DEF PaysInv
  <1>3. CASE Fill /\ ~Postpone
    BY <1>3, PaysFillBuy, PaysFillSell DEF Fill
  <1>4. CASE CloseBars
    BY <1>4, PaysKept DEF CloseBars, account
  <1>5. CASE Signal
    <2>1. UNCHANGED <<account, orders>>
      BY <1>5 DEF Signal
    <2>2. CASE Stay
      BY <2>1, <2>2, PaysKept DEF Stay, account
    <2>3. ASSUME NEW intent \in Allowed(NextSymbol), todo # {}, Ask(intent) PROVE PaysInv'
      BY <2>1, <2>3, PaysAsk
    <2>4. QED
      BY <1>5, <2>2, <2>3 DEF Signal
  <1>6. CASE CloseDay
    BY <1>6, PaysKept DEF CloseDay, account
  <1>7. CASE Fail \/ Refuse \/ StoreJob
    BY <1>7, PaysKept DEF Fail, Refuse, StoreJob, account
  <1>8. CASE UNCHANGED backtestVars
    BY <1>8, PaysKept DEF backtestVars
  <1>9. QED
    BY <1>1, <1>2, <1>3, <1>4, <1>5, <1>6, <1>7, <1>8 DEF Next

\* Where every sale brings at least its costs, the account is its rows and only
\* settled cash was spent, whatever the strategy asks for.
THEOREM OnlySettledCash == ASSUME SalesPay PROVE Spec => []BooksBalance
  <1>1. PaysInv => available >= 0
    BY DEF PaysInv
  <1>2. Spec => []PaysInv
    <2>1. BacktestInv /\ SmaInv /\ PaysInv /\ [Next]_backtestVars => PaysInv'
      BY PaysNext
    <2>2. QED
      BY <2>1, PaysInit, InvAlways, SmaAlways, PTL DEF Spec
  <1>3. Booked /\ available >= 0 => BooksBalance
    BY DEF BooksBalance
  <1>4. QED
    BY <1>1, <1>2, <1>3, AccountIsItsRows, PTL

-----------------------------------------------------------------------------
\* Rounds of a loop

\* What holds before the first round and is kept by each holds after all of them.
LEMMA EveryRound ==
    ASSUME NEW N \in Nat, NEW P, 0 \in P, \A n \in 1..N : n - 1 \in P => n \in P
    PROVE  \A n \in 0..N : n \in P
  <1> DEFINE T == {n \in 0..N : n \notin P}
  <1>1. T \in SUBSET Nat
    OBVIOUS
  <1>2. ASSUME T # {} PROVE FALSE
    <2>1. PICK m \in T : \A k \in T : m \leq k
      <3> HIDE DEF T
      <3> QED BY <1>1, <1>2, LeastNatural
    <2>2. m \in 0..N /\ m \notin P /\ m # 0 /\ m - 1 \in 0..N /\ m \in 1..N /\ ~(m \leq m - 1)
      BY <2>1
    <2>3. m - 1 \in P
      BY <2>1, <2>2
    <2>4. QED
      BY <2>2, <2>3
  <1>3. QED
    BY <1>2

-----------------------------------------------------------------------------
\* The two drawdowns
\*
\* A ratio has a positive denominator.  Up to the day on which the metrics return, their
\* worst drop is the deepest point of the chart, and it is a point of the chart.

Ratio == {r \in Int \X Int : r[2] > 0}

Par == <<1, 1>>

\* What is no deeper than one ratio is no deeper than one below it.
LEMMA DeeperOrder ==
    ASSUME NEW x \in Ratio, NEW y \in Ratio, NEW z \in Ratio, Deeper(x, y), ~Deeper(z, y)
    PROVE  ~Deeper(z, x)
  <1> DEFINE a == x[1]
             p == x[2]
             b == y[1]
             q == y[2]
             c == z[1]
             r == z[2]
  <1>1. /\ a \in Int /\ b \in Int /\ c \in Int /\ p \in Int /\ q \in Int /\ r \in Int
        /\ p > 0 /\ q > 0 /\ r > 0
    BY DEF Ratio
  <1>2. a * q < b * p /\ b * r \leq c * q
    BY <1>1 DEF Deeper
  <1> HIDE DEF a, b, c, p, q, r
  <1>3. \A m, n, k \in Int : k > 0 /\ m \leq n => m * k \leq n * k
    OBVIOUS
  <1>4. a * q \in Int /\ b * p \in Int /\ b * r \in Int /\ c * q \in Int
    BY <1>1
  <1>5. (a * q) * r \leq (b * p) * r /\ (b * r) * p \leq (c * q) * p
    BY <1>1, <1>2, <1>3, <1>4
  <1>6. (a * r) * q \leq (c * p) * q
    BY <1>1, <1>5
  <1>7. ASSUME c * p < a * r PROVE FALSE
    <2>1. a * r \in Int /\ c * p \in Int /\ c * p + 1 \leq a * r
      BY <1>1, <1>7
    <2>2. (c * p + 1) * q \leq (a * r) * q
      BY <1>1, <1>3, <2>1
    <2>3. (c * p) * q + q \leq (a * r) * q
      BY <1>1, <2>1, <2>2
    <2>4. (c * p) * q \in Int /\ (a * r) * q \in Int
      BY <1>1, <2>1
    <2>5. QED
      BY <1>1, <1>6, <2>3, <2>4
  <1>8. QED
    BY <1>7 DEF Deeper, a, c, p, r

\* The highest of the first numbers
LEMMA PeakFacts ==
    ASSUME NEW q \in Seq(Int), NEW i \in 1..Len(q), NEW peak, peak = Max({q[k] : k \in 1..i})
    PROVE  /\ peak \in Int
           /\ \A k \in 1..i : q[k] \leq peak
           /\ \E k \in 1..i : q[k] = peak
  <1>1. Len(q) \in Nat /\ i \in Nat /\ \A k \in 1..Len(q) : q[k] \in Int
    OBVIOUS
  <1> DEFINE P == {n \in Nat : n > 0 /\ n \leq i => \E m \in 1..n : \A k \in 1..n : q[k] \leq q[m]}
  <1>2. 0 \in P
    OBVIOUS
  <1>3. ASSUME NEW n \in 1..i, n - 1 \in P PROVE n \in P
    <2> SUFFICES \E m \in 1..n : \A k \in 1..n : q[k] \leq q[m]
      BY <1>1
    <2>1. CASE n = 1
      <3>1. \A k \in 1..1 : q[k] \leq q[1]
        BY <1>1
      <3>2. QED
        BY <2>1, <3>1
    <2>2. CASE n # 1
      <3>1. n - 1 > 0 /\ n - 1 \leq i
        BY <1>1, <2>2
      <3>2. PICK m \in 1..(n - 1) : \A k \in 1..(n - 1) : q[k] \leq q[m]
        BY <1>3, <3>1
      <3>3. /\ q[m] \in Int /\ q[n] \in Int /\ m \in 1..n /\ n \in 1..n
            /\ \A k \in 1..n : q[k] \in Int /\ (k \in 1..(n - 1) \/ k = n)
        BY <1>1
      <3>4. CASE q[n] \leq q[m]
        <4>1. \A k \in 1..n : q[k] \leq q[m]
          BY <3>2, <3>3, <3>4
        <4>2. QED
          BY <3>3, <4>1
      <3>5. CASE q[n] > q[m]
        <4>1. \A k \in 1..n : q[k] \leq q[n]
          BY <3>2, <3>3, <3>5
        <4>2. QED
          BY <3>3, <4>1
      <3>6. q[n] \leq q[m] \/ q[n] > q[m]
        BY <3>3
      <3>7. QED
        BY <3>4, <3>5, <3>6
    <2>3. QED
      BY <2>1, <2>2
  <1>4. i \in P
    <2> HIDE DEF P
    <2>1. i \in 0..i
      BY <1>1
    <2>2. \A n \in 1..i : n - 1 \in P => n \in P
      BY <1>3
    <2>3. \A n \in 0..i : n \in P
      BY <1>1, <1>2, <2>2, EveryRound
    <2>4. QED
      BY <2>1, <2>3
  <1>5. PICK m \in 1..i : \A k \in 1..i : q[k] \leq q[m]
    BY <1>1, <1>4
  <1> DEFINE S == {q[k] : k \in 1..i}
  <1>6. q[m] \in S /\ \A y \in S : q[m] >= y
    BY <1>1, <1>5
  <1>7. peak \in S /\ \A y \in S : peak >= y
    <2> HIDE DEF S
    <2>1. peak = CHOOSE x \in S : \A y \in S : x >= y
      BY DEF Max, S
    <2>2. QED
      BY <1>6, <2>1
  <1>8. \A k \in 1..i : q[k] \in Int /\ q[k] \in S
    BY <1>1
  <1>9. PICK k \in 1..i : peak = q[k]
    BY <1>7
  <1>10. QED
    BY <1>7, <1>8, <1>9

\* N rounds on what is in V
IsLoop(N, V, base, step) == N \in Nat /\ base \in V /\ step \in [1..N -> [V -> V]]

\* There is a run of a loop whose rounds are a function on what it works with.
LEMMA LoopRuns ==
    ASSUME NEW N, NEW V, NEW base, NEW step, IsLoop(N, V, base, step)
    PROVE  \E u \in [0..N -> V] : /\ u[0] = base
                                  /\ \A n \in 1..N : u[n] = step[n][u[n-1]]
  <1> DEFINE P == {n \in Nat : n \leq N =>
                     \E u \in [0..n -> V] : /\ u[0] = base
                                            /\ \A m \in 1..n : u[m] = step[m][u[m-1]]}
  <1> USE DEF IsLoop
  <1>1. 0 \in P
    <2> DEFINE u == [n \in 0..0 |-> base]
    <2>1. u \in [0..0 -> V] /\ u[0] = base /\ \A m \in 1..0 : u[m] = step[m][u[m-1]]
      OBVIOUS
    <2> HIDE DEF u
    <2>2. QED
      BY <2>1
  <1>2. ASSUME NEW n \in 1..N, n - 1 \in P PROVE n \in P
    <2> SUFFICES \E u \in [0..n -> V] : /\ u[0] = base
                                        /\ \A m \in 1..n : u[m] = step[m][u[m-1]]
      OBVIOUS
    <2>1. PICK v \in [0..(n - 1) -> V] : /\ v[0] = base
                                         /\ \A m \in 1..(n - 1) : v[m] = step[m][v[m-1]]
      BY <1>2
    <2> DEFINE u == [m \in 0..n |-> IF m = n THEN step[n][v[n-1]] ELSE v[m]]
    <2>2. step[n] \in [V -> V] /\ v[n-1] \in V
      OBVIOUS
    <2>3. step[n][v[n-1]] \in V
      BY <2>2
    <2>4. \A m \in 0..n : m = n \/ (m # n /\ m \in 0..(n - 1))
      OBVIOUS
    <2>5. u \in [0..n -> V]
      BY <2>3, <2>4
    <2>6. u[0] = base /\ u[n] = step[n][v[n-1]] /\ \A m \in 0..(n - 1) : u[m] = v[m]
      BY <2>1
    <2> HIDE DEF u
    <2>7. ASSUME NEW m \in 1..n PROVE u[m] = step[m][u[m-1]]
      <3>1. m - 1 \in 0..(n - 1) /\ (m = n \/ m \in 1..(n - 1))
        OBVIOUS
      <3>2. u[m-1] = v[m-1]
        BY <2>6, <3>1
      <3>3. CASE m = n
        BY <2>6, <3>2, <3>3
      <3>4. CASE m \in 1..(n - 1)
        <4>1. u[m] = v[m] /\ v[m] = step[m][v[m-1]]
          BY <2>1, <2>6, <3>4
        <4>2. QED
          BY <3>2, <4>1
      <3>5. QED
        BY <3>1, <3>3, <3>4
    <2>8. QED
      BY <2>5, <2>6, <2>7
  <1>3. N \in P
    <2> HIDE DEF P
    <2>1. \A n \in 1..N : n - 1 \in P => n \in P
      BY <1>2
    <2>2. \A n \in 0..N : n \in P
      BY <1>1, <2>1, EveryRound
    <2>3. QED
      BY <2>2
  <1>4. QED
    BY <1>3

\* What the loop of the maximum drawdown works with
DropState == [peak : Int, worst : Ratio, returned : BOOLEAN]

DropRound(at, equity) == IF at.returned THEN at ELSE Drop(at, equity)

Dropping(u, q) ==
    u = [n \in 0..Len(q) |-> IF n = 0 THEN [peak |-> q[1], worst |-> <<1, 1>>, returned |-> FALSE]
                             ELSE IF u[n-1].returned THEN u[n-1] ELSE Drop(u[n-1], q[n])]

\* A day leaves a state of the loop.
LEMMA DropTyped ==
    ASSUME NEW at \in DropState, NEW equity \in Int
    PROVE  DropRound(at, equity) \in DropState
  <1> DEFINE peak  == IF equity > at.peak THEN equity ELSE at.peak
             worst == IF peak > 0 /\ Deeper(<<equity, peak>>, at.worst) THEN <<equity, peak>>
                      ELSE at.worst
             back  == Deeper(worst, <<1, 1>>) /\ equity >= worst[2]
  <1>1. at.peak \in Int /\ at.worst \in Ratio
    BY DEF DropState
  <1>2. peak \in Int
    BY <1>1
  <1>3. worst \in Ratio
    BY <1>1, <1>2 DEF Ratio
  <1>4. back \in BOOLEAN
    OBVIOUS
  <1>5. Drop(at, equity) = [peak |-> peak, worst |-> worst, returned |-> back]
    BY DEF Drop
  <1> HIDE DEF peak, worst, back
  <1>6. QED
    BY <1>2, <1>3, <1>4, <1>5 DEF DropRound, DropState

\* The loop runs, and the maximum drawdown is the worst drop after it.
LEMMA DropsRun ==
    ASSUME NEW q \in Seq(Int), q # <<>>
    PROVE  \E u : Dropping(u, q) /\ MaxDrawdown(q) = u[Len(q)].worst
  <1> DEFINE N    == Len(q)
             base == [peak |-> q[1], worst |-> <<1, 1>>, returned |-> FALSE]
             step == [n \in 1..N |-> [at \in DropState |-> DropRound(at, q[n])]]
             w    == CHOOSE u : u = [n \in 0..Len(q) |->
                               IF n = 0 THEN [peak |-> q[1], worst |-> <<1, 1>>, returned |-> FALSE]
                               ELSE IF u[n-1].returned THEN u[n-1] ELSE Drop(u[n-1], q[n])]
  <1>1. N \in Nat /\ N # 0 /\ \A n \in 1..N : q[n] \in Int
    OBVIOUS
  <1>2. base \in DropState
    BY <1>1 DEF DropState, Ratio
  <1>3. step \in [1..N -> [DropState -> DropState]]
    BY <1>1, DropTyped
  <1>4. PICK u \in [0..N -> DropState] : u[0] = base /\ \A n \in 1..N : u[n] = step[n][u[n-1]]
    <2>1. IsLoop(N, DropState, base, step)
      BY <1>1, <1>2, <1>3 DEF IsLoop
    <2> HIDE DEF N, base, step
    <2>2. QED
      BY <2>1, LoopRuns
  <1>5. ASSUME NEW n \in 1..N PROVE u[n] = DropRound(u[n-1], q[n])
    <2>1. n - 1 \in 0..N
      BY <1>1
    <2>2. u[n-1] \in DropState
      BY <2>1
    <2>3. QED
      BY <1>4, <2>2
  <1>6. Dropping(u, q)
    <2>1. \A n \in 0..N : n = 0 \/ (n # 0 /\ n \in 1..N)
      BY <1>1
    <2> HIDE DEF N
    <2>2. u = [n \in 0..N |-> IF n = 0 THEN base ELSE DropRound(u[n-1], q[n])]
      BY <1>4, <1>5, <2>1
    <2>3. QED
      BY <2>2 DEF Dropping, DropRound, N
  <1>7. Dropping(w, q)
    BY <1>6 DEF Dropping
  <1>8. MaxDrawdown(q) = w[Len(q)].worst
    BY DEF MaxDrawdown
  <1> HIDE DEF w
  <1>9. QED
    BY <1>7, <1>8

\* The peaks of a curve, day by day
Peaks(q, P) ==
    /\ P \in [1..Len(q) -> Int]
    /\ q # <<>> => P[1] = q[1]
    /\ \A n \in 2..Len(q) : P[n] = IF q[n] > P[n-1] THEN q[n] ELSE P[n-1]

\* The chart is the ratios of the curve to its peaks.
LEMMA ChartFacts ==
    ASSUME NEW q \in Seq(Int)
    PROVE  \E P : /\ Peaks(q, P)
                  /\ Chart(q) = [i \in 1..Len(q) |-> IF P[i] > 0 THEN <<q[i], P[i]>> ELSE Par]
                  /\ Chart(q) \in [1..Len(q) -> Ratio]
  <1> DEFINE P == [i \in 1..Len(q) |-> Max({q[k] : k \in 1..i})]
  <1>1. DOMAIN q = 1..Len(q) /\ Len(q) \in Nat /\ \A i \in 1..Len(q) : q[i] \in Int
    OBVIOUS
  <1>2. \A i \in 1..Len(q) : P[i] = Max({q[k] : k \in 1..i})
    OBVIOUS
  <1> HIDE DEF P
  <1>3. ASSUME NEW i \in 1..Len(q)
        PROVE  /\ P[i] \in Int
               /\ \A k \in 1..i : q[k] \leq P[i]
               /\ \E k \in 1..i : q[k] = P[i]
    BY <1>2, PeakFacts
  <1>4. P \in [1..Len(q) -> Int]
    BY <1>3 DEF P
  <1>5. q # <<>> => P[1] = q[1]
    <2> SUFFICES ASSUME q # <<>> PROVE P[1] = q[1]
      OBVIOUS
    <2>1. 1 \in 1..Len(q)
      BY <1>1
    <2>2. PICK k \in 1..1 : q[k] = P[1]
      BY <1>3, <2>1
    <2>3. QED
      BY <2>2
  <1>6. ASSUME NEW n \in 2..Len(q) PROVE P[n] = IF q[n] > P[n-1] THEN q[n] ELSE P[n-1]
    <2>1. /\ n \in 1..Len(q) /\ n - 1 \in 1..Len(q) /\ n \in 1..n
          /\ \A k \in 1..(n - 1) : k \in 1..n
          /\ \A k \in 1..n : k = n \/ k \in 1..(n - 1)
      BY <1>1
    <2>2. PICK k \in 1..n : q[k] = P[n]
      BY <1>3, <2>1
    <2>3. PICK m \in 1..(n - 1) : q[m] = P[n-1]
      BY <1>3, <2>1
    <2>4. q[n] \leq P[n] /\ P[n-1] \leq P[n]
      BY <1>3, <2>1, <2>3
    <2>5. k = n \/ P[n] \leq P[n-1]
      BY <1>3, <2>1, <2>2
    <2>6. P[n] \in Int /\ P[n-1] \in Int /\ q[n] \in Int
      BY <1>1, <1>3, <2>1
    <2>7. QED
      BY <2>2, <2>4, <2>5, <2>6
  <1>7. Chart(q) = [i \in 1..Len(q) |-> IF P[i] > 0 THEN <<q[i], P[i]>> ELSE Par]
    BY <1>1, <1>2 DEF Chart, Par
  <1>8. Chart(q) \in [1..Len(q) -> Ratio]
    BY <1>1, <1>4, <1>7 DEF Ratio, Par
  <1>9. QED
    BY <1>4, <1>5, <1>6, <1>7, <1>8 DEF Peaks

\* After n days of the loop: the worst drop is a point of the chart and none goes deeper,
\* until the metrics return on a day that has recovered from it.
DropsUpTo(at, q, chart, P, n) ==
    /\ at \in DropState
    /\ ~Deeper(Par, at.worst)
    /\ at.worst = Par \/ \E k \in 1..n : chart[k] = at.worst
    /\ ~at.returned => /\ at.peak = IF n = 0 THEN q[1] ELSE P[n]
                       /\ \A k \in 1..n : ~Deeper(chart[k], at.worst)
    /\ at.returned => /\ Deeper(at.worst, Par)
                      /\ \E j \in 1..n : /\ \A k \in 1..j : ~Deeper(chart[k], at.worst)
                                         /\ \E k \in 1..j : chart[k] = at.worst
                                         /\ q[j] >= at.worst[2]

\* One day more
LEMMA DropsOn ==
    ASSUME NEW q \in Seq(Int), NEW P, Peaks(q, P), NEW chart \in [1..Len(q) -> Ratio],
           chart = [i \in 1..Len(q) |-> IF P[i] > 0 THEN <<q[i], P[i]>> ELSE Par],
           NEW n \in 1..Len(q), NEW at, DropsUpTo(at, q, chart, P, n - 1)
    PROVE  DropsUpTo(DropRound(at, q[n]), q, chart, P, n)
  <1>1. /\ Len(q) \in Nat /\ q[n] \in Int /\ n - 1 \in Nat
        /\ \A k \in 1..(n - 1) : k \in 1..n /\ k \in 1..Len(q)
        /\ \A k \in 1..n : k = n \/ k \in 1..(n - 1)
        /\ n \in 1..n
    OBVIOUS
  <1>2. at \in DropState /\ at.worst \in Ratio /\ at.peak \in Int /\ at.returned \in BOOLEAN
    BY DEF DropsUpTo, DropState
  <1>3. CASE at.returned
    <2>1. DropRound(at, q[n]) = at
      BY <1>3 DEF DropRound
    <2>2. QED
      BY <1>1, <1>3, <2>1 DEF DropsUpTo
  <1>4. CASE ~at.returned
    <2> DEFINE peak  == IF q[n] > at.peak THEN q[n] ELSE at.peak
               worst == IF Deeper(chart[n], at.worst) THEN chart[n] ELSE at.worst
               back  == Deeper(worst, Par) /\ q[n] >= worst[2]
               next  == DropRound(at, q[n])
    <2>1. peak = P[n]
      <3>1. CASE n = 1
        <4>1. at.peak = q[1] /\ P[1] = q[1]
          BY <1>1, <1>4, <3>1 DEF DropsUpTo, Peaks
        <4>2. QED
          BY <1>1, <3>1, <4>1
      <3>2. CASE n # 1
        <4>1. at.peak = P[n-1] /\ n \in 2..Len(q)
          BY <1>1, <1>4, <3>2 DEF DropsUpTo
        <4>2. QED
          BY <4>1 DEF Peaks
      <3>3. QED
        BY <3>1, <3>2
    <2>2. chart[n] = IF P[n] > 0 THEN <<q[n], P[n]>> ELSE Par
      OBVIOUS
    <2>3. chart[n] \in Ratio
      OBVIOUS
    <2>4. ~Deeper(Par, at.worst)
      BY DEF DropsUpTo
    <2>5. worst = IF peak > 0 /\ Deeper(<<q[n], peak>>, at.worst) THEN <<q[n], peak>> ELSE at.worst
      BY <2>1, <2>2, <2>4
    <2>6. next.peak = peak /\ next.worst = worst /\ next.returned = back
      <3> HIDE DEF peak, worst
      <3>1. Drop(at, q[n]) = [peak |-> peak, worst |-> worst, returned |-> back]
        BY <2>5 DEF Drop, Par, peak
      <3> HIDE DEF back
      <3>2. QED
        BY <1>4, <3>1 DEF DropRound
    <2>7. next \in DropState
      BY <1>1, <1>2, DropTyped
    <2>8. worst \in Ratio /\ ~Deeper(Par, worst)
      <3>1. Par \in Ratio
        BY DEF Par, Ratio
      <3>2. QED
        BY <1>2, <2>3, <2>4, <3>1, DeeperOrder
    <2>9. \A k \in 1..(n - 1) : ~Deeper(chart[k], at.worst) /\ chart[k] \in Ratio
      BY <1>1, <1>4 DEF DropsUpTo
    <2>10. ASSUME NEW k \in 1..n PROVE ~Deeper(chart[k], worst)
      <3>1. CASE k = n
        <4>1. ~Deeper(chart[n], chart[n])
          BY <2>3 DEF Ratio, Deeper
        <4>2. QED
          BY <3>1, <4>1
      <3>2. CASE k \in 1..(n - 1)
        BY <1>2, <2>3, <2>9, <3>2, DeeperOrder
      <3>3. QED
        BY <1>1, <3>1, <3>2
    <2>11. worst = Par \/ \E k \in 1..n : chart[k] = worst
      <3>1. at.worst = Par \/ \E k \in 1..(n - 1) : chart[k] = at.worst
        BY DEF DropsUpTo
      <3>2. QED
        BY <1>1, <3>1
    <2> HIDE DEF peak, worst, next
    <2>12. back => \E k \in 1..n : chart[k] = worst
      <3>1. ~Deeper(Par, Par)
        BY DEF Par, Deeper
      <3>2. QED
        BY <2>11, <3>1
    <2>13. n # 0
      OBVIOUS
    <2>14. DropsUpTo(next, q, chart, P, n)
      BY <1>1, <2>1, <2>6, <2>7, <2>8, <2>10, <2>11, <2>12, <2>13 DEF DropsUpTo
    <2>15. QED
      BY <2>14 DEF next
  <1>5. QED
    BY <1>2, <1>3, <1>4

\* Two ratios that are equal are not deeper than one another.
LEMMA ParOfRatios ==
    ASSUME NEW x \in Ratio
    PROVE  ~Deeper(x, x)
  BY DEF Ratio, Deeper

\* A chart shows a drop, and deeper ones only after the curve has recovered from it.
Shows(q, chart, worst) ==
    /\ \E i \in DOMAIN chart : ~Deeper(chart[i], worst) /\ ~Deeper(worst, chart[i])
    /\ \A i \in DOMAIN chart : Deeper(chart[i], worst) =>
         \E j \in 1..(i - 1) :
             /\ Deeper(worst, Par)
             /\ \E k \in 1..j : /\ ~Deeper(chart[k], worst) /\ ~Deeper(worst, chart[k])
                                /\ q[j] >= chart[k][2]

\* The chart and the maximum drawdown of a curve agree until the curve has recovered.
LEMMA DrawdownFacts ==
    ASSUME NEW q \in Seq(Int), q # <<>>, NEW worst, worst = MaxDrawdown(q),
           NEW chart, chart = Chart(q)
    PROVE  Shows(q, chart, worst)
  <1> DEFINE N == Len(q)
  <1>1. N \in Nat /\ N # 0 /\ 1 \in 1..N /\ N \in 0..N
    OBVIOUS
  <1>2. PICK P : /\ Peaks(q, P)
                 /\ chart = [i \in 1..N |-> IF P[i] > 0 THEN <<q[i], P[i]>> ELSE Par]
                 /\ chart \in [1..N -> Ratio]
    BY ChartFacts
  <1>3. PICK u : Dropping(u, q) /\ worst = u[N].worst
    BY DropsRun
  <1> DEFINE T == {n \in 0..N : DropsUpTo(u[n], q, chart, P, n)}
  <1>4. 0 \in T
    <2>1. 0 \in 0..N
      BY <1>1
    <2> DEFINE at == [peak |-> q[1], worst |-> Par, returned |-> FALSE]
    <2>2. u[0] = at
      BY <1>3, <2>1 DEF Dropping, Par
    <2>3. q[1] \in Int /\ Par \in Ratio
      BY <1>1 DEF Ratio, Par
    <2>4. ~Deeper(Par, Par)
      BY <2>3, ParOfRatios
    <2>5. DropsUpTo(at, q, chart, P, 0)
      BY <2>3, <2>4 DEF DropsUpTo, DropState
    <2>6. QED
      BY <2>1, <2>2, <2>5
  <1>5. ASSUME NEW n \in 1..N, n - 1 \in T PROVE n \in T
    <2>1. n \in 0..N /\ n # 0
      BY <1>1
    <2>2. u[n] = DropRound(u[n-1], q[n])
      BY <1>3, <2>1 DEF Dropping, DropRound
    <2>3. DropsUpTo(u[n-1], q, chart, P, n - 1)
      BY <1>5
    <2>4. DropsUpTo(DropRound(u[n-1], q[n]), q, chart, P, n)
      BY <1>2, <2>3, DropsOn
    <2>5. QED
      BY <2>1, <2>2, <2>4
  <1>6. DropsUpTo(u[N], q, chart, P, N)
    <2>1. \A n \in 1..N : n - 1 \in T => n \in T
      BY <1>5
    <2> HIDE DEF T, N
    <2>2. \A n \in 0..N : n \in T
      BY <1>1, <1>4, <2>1, EveryRound
    <2>3. QED
      BY <1>1, <2>2 DEF T
  <1> DEFINE at == u[N]
  <1>7. /\ at \in DropState /\ at.worst = worst /\ worst \in Ratio /\ DOMAIN chart = 1..N
        /\ at.returned \in BOOLEAN
    BY <1>2, <1>3, <1>6 DEF DropsUpTo, DropState
  <1> HIDE DEF at, N
  <1>8. ~Deeper(worst, worst)
    BY <1>7, ParOfRatios
  <1>9. \E i \in 1..N : ~Deeper(chart[i], worst) /\ ~Deeper(worst, chart[i])
    <2>1. CASE \E k \in 1..N : chart[k] = worst
      BY <1>8, <2>1
    <2>2. CASE worst = Par
      <3>1. P[1] = q[1] /\ q[1] \in Int
        BY <1>1, <1>2 DEF Peaks, N
      <3>2. chart[1] = IF q[1] > 0 THEN <<q[1], q[1]>> ELSE Par
        BY <1>1, <1>2, <3>1
      <3>3. ~Deeper(chart[1], worst) /\ ~Deeper(worst, chart[1])
        BY <2>2, <3>1, <3>2 DEF Deeper, Par
      <3>4. QED
        BY <1>1, <3>3
    <2>3. QED
      BY <1>6, <1>7, <2>1, <2>2 DEF DropsUpTo, at
  <1>10. ASSUME NEW i \in 1..N, Deeper(chart[i], worst)
         PROVE  \E j \in 1..(i - 1) :
                    /\ Deeper(worst, Par)
                    /\ \E k \in 1..j : /\ ~Deeper(chart[k], worst) /\ ~Deeper(worst, chart[k])
                                       /\ q[j] >= chart[k][2]
    <2>1. at.returned
      BY <1>6, <1>7, <1>10 DEF DropsUpTo, at
    <2>2. PICK j \in 1..N : /\ \A k \in 1..j : ~Deeper(chart[k], worst)
                            /\ \E k \in 1..j : chart[k] = worst
                            /\ q[j] >= worst[2]
      BY <1>6, <1>7, <2>1 DEF DropsUpTo, at
    <2>3. Deeper(worst, Par)
      BY <1>6, <1>7, <2>1 DEF DropsUpTo, at
    <2>4. PICK k \in 1..j : chart[k] = worst
      BY <2>2
    <2>5. i \notin 1..j
      BY <1>10, <2>2
    <2>6. j \in 1..(i - 1)
      BY <1>1, <2>5
    <2>7. QED
      BY <1>8, <2>2, <2>3, <2>4, <2>6
  <1>11. QED
    BY <1>7, <1>9, <1>10 DEF Shows

-----------------------------------------------------------------------------
\* The equity is an integer
\*
\* It is a sum over the set of symbols, a function on its subsets.

\* Sums of worth over the subsets of a set
SumsOf(g, S, worth) ==
    g = [s \in SUBSET S |-> IF s = {} THEN 0
                            ELSE worth[CHOOSE x \in s : TRUE] + g[s \ {CHOOSE x \in s : TRUE}]]

\* One element less
LEMMA OneLess ==
    ASSUME NEW S, IsFiniteSet(S), NEW s \in SUBSET S, s # {}, NEW x, x = CHOOSE y \in s : TRUE
    PROVE  /\ x \in S /\ s \ {x} \in SUBSET S /\ IsFiniteSet(s) /\ Cardinality(s) \in Nat
           /\ Cardinality(s \ {x}) = Cardinality(s) - 1
           /\ Cardinality(s) # 0
  <1>1. x \in s
    OBVIOUS
  <1>2. IsFiniteSet(s) /\ Cardinality(s) \in Nat
    BY FS_Subset, FS_CardinalityType
  <1>3. Cardinality(s \ {x}) = Cardinality(s) - 1
    BY <1>1, <1>2, FS_RemoveElement
  <1>4. Cardinality(s) # 0
    BY <1>2, FS_EmptySet
  <1>5. QED
    BY <1>1, <1>2, <1>3, <1>4

\* There are such sums.
LEMMA SumsExist ==
    ASSUME NEW S, IsFiniteSet(S), NEW worth
    PROVE  \E g : SumsOf(g, S, worth)
  <1> DEFINE First == [s \in SUBSET S |-> CHOOSE x \in s : TRUE]
             F     == [n \in Nat |-> {s \in SUBSET S : Cardinality(s) \leq n}]
             P == {n \in Nat : \E g : \A s \in F[n] :
                     g[s] = IF s = {} THEN 0 ELSE worth[First[s]] + g[s \ {First[s]}]}
  <1>1. \A s \in SUBSET S : IsFiniteSet(s) /\ Cardinality(s) \in Nat
    BY FS_Subset, FS_CardinalityType
  <1>2. ASSUME NEW s \in SUBSET S, s # {}
        PROVE  /\ s \ {First[s]} \in SUBSET S
               /\ Cardinality(s \ {First[s]}) = Cardinality(s) - 1 /\ Cardinality(s) # 0
    BY <1>2, OneLess
  <1>3. 0 \in P
    <2> DEFINE g == [s \in {{}} |-> 0]
    <2>1. F[0] = {{}}
      <3>1. ASSUME NEW s \in SUBSET S, Cardinality(s) \leq 0 PROVE s = {}
        <4>1. Cardinality(s) = 0 /\ IsFiniteSet(s)
          BY <1>1, <3>1
        <4>2. QED
          BY <4>1, FS_EmptySet
      <3>2. Cardinality({}) = 0
        BY FS_EmptySet
      <3>3. QED
        BY <3>1, <3>2
    <2>2. \A s \in F[0] : g[s] = IF s = {} THEN 0 ELSE worth[First[s]] + g[s \ {First[s]}]
      BY <2>1
    <2> HIDE DEF g, F, First
    <2>3. QED
      BY <2>2
  <1>4. ASSUME NEW n \in Nat, n - 1 \in P PROVE n \in P
    <2>1. PICK g : \A s \in F[n-1] :
                     g[s] = IF s = {} THEN 0 ELSE worth[First[s]] + g[s \ {First[s]}]
      BY <1>4
    <2> DEFINE h == [s \in SUBSET S |-> IF s \in F[n-1] THEN g[s]
                                        ELSE worth[First[s]] + g[s \ {First[s]}]]
    <2>2. n - 1 \in Nat
      BY <1>4
    <2>3. F[n-1] = {s \in SUBSET S : Cardinality(s) \leq n - 1}
      BY <2>2
    <2>4. F[n] = {s \in SUBSET S : Cardinality(s) \leq n}
      OBVIOUS
    <2>5. ASSUME NEW s \in F[n]
          PROVE  h[s] = IF s = {} THEN 0 ELSE worth[First[s]] + h[s \ {First[s]}]
      <3>1. s \in SUBSET S /\ Cardinality(s) \leq n
        BY <2>4
      <3>2. CASE s = {}
        <4>1. Cardinality({}) = 0
          BY FS_EmptySet
        <4>2. s \in F[n-1]
          BY <2>2, <2>3, <3>1, <3>2, <4>1
        <4>3. QED
          BY <2>1, <3>1, <3>2, <4>2
      <3>3. CASE s # {}
        <4> DEFINE rest == s \ {First[s]}
        <4>1. rest \in SUBSET S /\ rest \in F[n-1]
          BY <1>1, <1>2, <2>3, <3>1, <3>3
        <4>2. h[rest] = g[rest]
          BY <4>1
        <4>3. h[s] = worth[First[s]] + g[rest]
          BY <2>1, <3>1, <3>3
        <4>4. QED
          BY <3>3, <4>2, <4>3
      <3>4. QED
        BY <3>2, <3>3
    <2> HIDE DEF h
    <2>6. QED
      BY <2>5
  <1>5. Cardinality(S) \in P
    <2>1. Cardinality(S) \in Nat
      BY <1>1
    <2> HIDE DEF P
    <2>2. \A n \in 1..Cardinality(S) : n - 1 \in P => n \in P
      BY <1>4, <2>1
    <2>3. \A n \in 0..Cardinality(S) : n \in P
      BY <1>3, <2>1, <2>2, EveryRound
    <2>4. QED
      BY <2>1, <2>3
  <1>6. \A s \in SUBSET S : s \in F[Cardinality(S)]
    <2>1. \A s \in SUBSET S : Cardinality(s) \leq Cardinality(S)
      BY FS_Subset
    <2>2. QED
      BY <1>1, <2>1
  <1>7. PICK g : \A s \in SUBSET S :
                   g[s] = IF s = {} THEN 0 ELSE worth[First[s]] + g[s \ {First[s]}]
    BY <1>5, <1>6
  <1> DEFINE h == [s \in SUBSET S |-> g[s]]
  <1>8. ASSUME NEW s \in SUBSET S
        PROVE  h[s] = IF s = {} THEN 0 ELSE worth[First[s]] + h[s \ {First[s]}]
    BY <1>2, <1>7
  <1>9. h = [s \in SUBSET S |-> IF s = {} THEN 0 ELSE worth[First[s]] + h[s \ {First[s]}]]
    BY <1>8
  <1>10. SumsOf(h, S, worth)
    BY <1>9 DEF SumsOf
  <1>11. QED
    BY <1>10

\* Sums of integers are integers.
LEMMA SumsAreInt ==
    ASSUME NEW S, IsFiniteSet(S), NEW worth \in [S -> Int], NEW g, SumsOf(g, S, worth)
    PROVE  g[S] \in Int
  <1> DEFINE P == {n \in Nat : \A s \in SUBSET S : Cardinality(s) = n => g[s] \in Int}
  <1>1. \A s \in SUBSET S : IsFiniteSet(s) /\ Cardinality(s) \in Nat
    BY FS_Subset, FS_CardinalityType
  <1>2. 0 \in P
    <2>1. \A s \in SUBSET S : Cardinality(s) = 0 => s = {}
      BY <1>1, FS_EmptySet
    <2>2. g[{}] = 0
      BY DEF SumsOf
    <2>3. QED
      BY <2>1, <2>2
  <1>3. ASSUME NEW n \in Nat \ {0}, n - 1 \in P PROVE n \in P
    <2>1. ASSUME NEW s \in SUBSET S, Cardinality(s) = n PROVE g[s] \in Int
      <3> DEFINE x == CHOOSE y \in s : TRUE
      <3>1. s # {}
        BY <2>1, FS_EmptySet
      <3>2. x \in S /\ s \ {x} \in SUBSET S /\ Cardinality(s \ {x}) = n - 1
        BY <2>1, <3>1, OneLess
      <3>3. g[s \ {x}] \in Int
        BY <1>3, <3>2
      <3>4. g[s] = worth[x] + g[s \ {x}]
        BY <3>1 DEF SumsOf
      <3> HIDE DEF x
      <3>5. QED
        BY <3>2, <3>3, <3>4
    <2>2. QED
      BY <2>1
  <1>4. Cardinality(S) \in P
    <2>1. Cardinality(S) \in Nat
      BY <1>1
    <2> HIDE DEF P
    <2>2. \A n \in 1..Cardinality(S) : n - 1 \in P => n \in P
      BY <1>3, <2>1
    <2>3. \A n \in 0..Cardinality(S) : n \in P
      BY <1>2, <2>1, <2>2, EveryRound
    <2>4. QED
      BY <2>1, <2>3
  <1>5. QED
    BY <1>4

\* What is booked and what is held at the latest closes
LEMMA EquityIsInt ==
    ASSUME BacktestTypeOK
    PROVE  Equity \in Int
  <1> DEFINE worth == [s \in Symbols |-> held[s] * last[s]]
             g     == CHOOSE sums : sums =
                        [s \in SUBSET Symbols |->
                           IF s = {} THEN 0
                           ELSE held[CHOOSE x \in s : TRUE] * last[CHOOSE x \in s : TRUE]
                                  + sums[s \ {CHOOSE x \in s : TRUE}]]
  <1>1. IsFiniteSet(Symbols)
    BY BacktestAssumption
  <1>2. worth \in [Symbols -> Int] /\ cash \in Int
    BY DEF BacktestTypeOK
  <1>3. ASSUME NEW s \in SUBSET Symbols, s # {}
        PROVE  worth[CHOOSE x \in s : TRUE]
                 = held[CHOOSE x \in s : TRUE] * last[CHOOSE x \in s : TRUE]
    BY <1>3
  <1>4. PICK sums : SumsOf(sums, Symbols, worth)
    BY <1>1, SumsExist
  <1>5. sums = [s \in SUBSET Symbols |->
                  IF s = {} THEN 0
                  ELSE held[CHOOSE x \in s : TRUE] * last[CHOOSE x \in s : TRUE]
                         + sums[s \ {CHOOSE x \in s : TRUE}]]
    BY <1>3, <1>4 DEF SumsOf
  <1>6. g = [s \in SUBSET Symbols |->
               IF s = {} THEN 0
               ELSE held[CHOOSE x \in s : TRUE] * last[CHOOSE x \in s : TRUE]
                      + g[s \ {CHOOSE x \in s : TRUE}]]
    BY <1>5
  <1>7. Equity = cash + g[Symbols]
    BY DEF Equity, MapThenSumSet, MapThenFoldSet
  <1> HIDE DEF g
  <1>8. SumsOf(g, Symbols, worth)
    BY <1>3, <1>6 DEF SumsOf
  <1> HIDE DEF worth
  <1>9. QED
    BY <1>1, <1>2, <1>7, <1>8, SumsAreInt

-----------------------------------------------------------------------------
\* The loop that closes lots

Lot == [row : Nat, qty : Int]

Trip == [buy : Nat, sale : Nat, qty : Int]

\* What the loop of a sale works with
CloseState == [remaining : Int, lots : Seq(Lot), trips : Seq(Trip)]

CloseRound(sale, at) == IF at.remaining > 0 /\ at.lots # <<>> THEN CloseLot(sale, at) ELSE at

Closing(u, sale, qty, lots, trips) ==
    u = [n \in 0..Len(lots) |->
           IF n = 0 THEN [remaining |-> qty, lots |-> lots, trips |-> trips]
           ELSE IF u[n-1].remaining > 0 /\ u[n-1].lots # <<>> THEN CloseLot(sale, u[n-1])
                ELSE u[n-1]]

\* What a round closes, and what is left
LEMMA RoundFacts ==
    ASSUME NEW at \in CloseState, NEW sale \in Nat, at.remaining > 0, at.lots # <<>>,
           NEW lot, lot = at.lots[1], NEW used, used = Used(at, lot), NEW next,
           next = CloseRound(sale, at)
    PROVE  /\ lot \in Lot /\ used \in Int
           /\ next.remaining = at.remaining - used
           /\ used = lot.qty => next.lots = Tail(at.lots)
           /\ used # lot.qty =>
                next.lots = [at.lots EXCEPT ![1] = [row |-> lot.row, qty |-> lot.qty - used]]
           /\ next.trips = Append(at.trips, [buy |-> lot.row, sale |-> sale, qty |-> used])
           /\ next \in CloseState
  <1>1. /\ at.remaining \in Int /\ at.lots \in Seq(Lot) /\ at.trips \in Seq(Trip)
    BY DEF CloseState
  <1>2. Head(at.lots) = lot /\ lot \in Lot /\ 1 \in 1..Len(at.lots)
    BY <1>1
  <1>3. lot.row \in Nat /\ lot.qty \in Int /\ lot = [row |-> lot.row, qty |-> lot.qty]
    BY <1>2 DEF Lot
  <1>4. used \in Int
    BY <1>1, <1>3 DEF Used
  <1> DEFINE less == [row |-> lot.row, qty |-> lot.qty - used]
             trip == [buy |-> lot.row, sale |-> sale, qty |-> used]
  <1>5. [at.lots EXCEPT ![1].qty = @ - used] = [at.lots EXCEPT ![1] = less]
    <2>1. [lot EXCEPT !.qty = @ - used] = less
      BY <1>3
    <2>2. [at.lots EXCEPT ![1].qty = @ - used] = [at.lots EXCEPT ![1] = [lot EXCEPT !.qty = @ - used]]
      BY <1>1, <1>2
    <2>3. QED
      BY <2>1, <2>2
  <1>6. next = [remaining |-> at.remaining - used,
                lots      |-> IF used = lot.qty THEN Tail(at.lots)
                              ELSE [at.lots EXCEPT ![1].qty = @ - used],
                trips     |-> Append(at.trips, trip)]
    BY <1>2 DEF CloseRound, CloseLot
  <1>7. trip \in Trip /\ less \in Lot
    BY <1>3, <1>4 DEF Trip, Lot
  <1>8. /\ Append(at.trips, trip) \in Seq(Trip)
        /\ Tail(at.lots) \in Seq(Lot)
        /\ [at.lots EXCEPT ![1] = less] \in Seq(Lot)
    <2> HIDE DEF trip, less
    <2>1. Append(at.trips, trip) \in Seq(Trip)
      BY <1>1, <1>7
    <2>2. Tail(at.lots) \in Seq(Lot)
      BY <1>1
    <2>3. [at.lots EXCEPT ![1] = less] \in Seq(Lot)
      BY <1>1, <1>7, ExceptSeq
    <2>4. QED
      BY <2>1, <2>2, <2>3
  <1> HIDE DEF trip, less
  <1>9. next \in CloseState
    <2> DEFINE rest == IF used = lot.qty THEN Tail(at.lots) ELSE [at.lots EXCEPT ![1] = less]
               more == Append(at.trips, trip)
               left == at.remaining - used
    <2>1. next = [remaining |-> left, lots |-> rest, trips |-> more]
      BY <1>5, <1>6
    <2>2. left \in Int /\ rest \in Seq(Lot) /\ more \in Seq(Trip)
      BY <1>1, <1>4, <1>8
    <2> HIDE DEF left, rest, more
    <2>3. QED
      BY <2>1, <2>2 DEF CloseState
  <1>10. QED
    BY <1>2, <1>4, <1>5, <1>6, <1>9 DEF trip, less

\* A round leaves a state of the loop.
LEMMA CloseTyped ==
    ASSUME NEW at \in CloseState, NEW sale \in Nat
    PROVE  CloseRound(sale, at) \in CloseState
  <1>1. CASE at.remaining > 0 /\ at.lots # <<>>
    BY <1>1, RoundFacts
  <1>2. CASE ~(at.remaining > 0 /\ at.lots # <<>>)
    BY <1>2 DEF CloseRound
  <1>3. QED
    BY <1>1, <1>2

\* The loop runs, and a sale closes what is closed after it.
LEMMA CloseRuns ==
    ASSUME NEW sale \in Nat, NEW qty \in Int, NEW lots \in Seq(Lot), NEW trips \in Seq(Trip)
    PROVE  \E u : /\ Closing(u, sale, qty, lots, trips)
                  /\ CloseLots(sale, qty, lots, trips) = u[Len(lots)]
  <1> DEFINE N    == Len(lots)
             base == [remaining |-> qty, lots |-> lots, trips |-> trips]
             step == [n \in 1..N |-> [at \in CloseState |-> CloseRound(sale, at)]]
             w    == CHOOSE u : u = [n \in 0..Len(lots) |->
                       IF n = 0 THEN [remaining |-> qty, lots |-> lots, trips |-> trips]
                       ELSE IF u[n-1].remaining > 0 /\ u[n-1].lots # <<>>
                            THEN CloseLot(sale, u[n-1])
                            ELSE u[n-1]]
  <1>1. N \in Nat
    OBVIOUS
  <1>2. base \in CloseState
    BY DEF CloseState
  <1>3. step \in [1..N -> [CloseState -> CloseState]]
    BY CloseTyped
  <1>4. PICK u \in [0..N -> CloseState] : u[0] = base /\ \A n \in 1..N : u[n] = step[n][u[n-1]]
    <2>1. IsLoop(N, CloseState, base, step)
      BY <1>1, <1>2, <1>3 DEF IsLoop
    <2> HIDE DEF N, base, step
    <2>2. QED
      BY <2>1, LoopRuns
  <1>5. ASSUME NEW n \in 1..N PROVE u[n] = CloseRound(sale, u[n-1])
    <2>1. n - 1 \in 0..N
      BY <1>1
    <2>2. u[n-1] \in CloseState
      BY <2>1
    <2>3. QED
      BY <1>4, <2>2
  <1>6. Closing(u, sale, qty, lots, trips)
    <2>1. \A n \in 0..N : n = 0 \/ (n # 0 /\ n \in 1..N)
      BY <1>1
    <2> HIDE DEF N
    <2>2. u = [n \in 0..N |-> IF n = 0 THEN base ELSE CloseRound(sale, u[n-1])]
      BY <1>4, <1>5, <2>1
    <2>3. QED
      BY <2>2 DEF Closing, CloseRound, N
  <1>7. Closing(w, sale, qty, lots, trips)
    BY <1>6 DEF Closing
  <1>8. CloseLots(sale, qty, lots, trips) = w[Len(lots)]
    BY DEF CloseLots
  <1> HIDE DEF w
  <1>9. QED
    BY <1>7, <1>8

-----------------------------------------------------------------------------
\* Shares are numbered, and lots are shares
\*
\* B counts what the first rows bought of a symbol, S what they sold.  Row i bought the
\* shares after B[i-1] up to B[i]; when x of them are sold, what is open of the
\* rows that bought later ones is all, and of one the shares after x.

Rows == 1..Len(trades)

BuyOf(s, i) == i \in Rows /\ IsBuy(trades[i]) /\ trades[i].symbol = s

SaleOf(s, i) == i \in Rows /\ IsSale(trades[i]) /\ trades[i].symbol = s

Flow(s, B, S) ==
    /\ B \in [0..Len(trades) -> Nat] /\ S \in [0..Len(trades) -> Nat]
    /\ B[0] = 0 /\ S[0] = 0
    /\ \A k \in Rows : /\ B[k] = B[k-1] + IF BuyOf(s, k) THEN trades[k].qty ELSE 0
                       /\ S[k] = S[k-1] + IF SaleOf(s, k) THEN trades[k].qty ELSE 0
                       /\ S[k] \leq B[k]
                       /\ BuyOf(s, k) => /\ trades[k].qty \in Nat \ {0}
                                         /\ Shares(k) = (B[k-1] + 1)..B[k]
                       /\ SaleOf(s, k) => /\ trades[k].qty \in Nat \ {0}
                                          /\ Shares(k) = (S[k-1] + 1)..S[k]

\* What is bought only grows.
LEMMA FlowGrows ==
    ASSUME NEW s, NEW B, NEW S, Flow(s, B, S),
           NEW i \in 0..Len(trades), NEW j \in 0..Len(trades), i \leq j, Len(trades) \in Nat
    PROVE  B[i] \leq B[j]
  <1> DEFINE P == {n \in Nat : i \leq n /\ n \leq Len(trades) => B[i] \leq B[n]}
  <1>1. B \in [0..Len(trades) -> Nat] /\ B[i] \in Nat
    BY DEF Flow
  <1>2. 0 \in P
    BY <1>1
  <1>3. ASSUME NEW n \in 1..j, n - 1 \in P PROVE n \in P
    <2> SUFFICES ASSUME i \leq n, n \leq Len(trades) PROVE B[i] \leq B[n]
      OBVIOUS
    <2>1. CASE i = n
      BY <1>1, <2>1
    <2>2. CASE i # n
      <3>1. n - 1 \in 0..Len(trades) /\ i \leq n - 1 /\ n \in Rows /\ n \in 0..Len(trades)
        BY <2>2 DEF Rows
      <3>2. B[i] \leq B[n-1] /\ B[n-1] \in Nat
        BY <1>1, <1>3, <3>1
      <3>3. B[n] = B[n-1] \/ (trades[n].qty \in Nat /\ B[n] = B[n-1] + trades[n].qty)
        BY <3>1, <3>2 DEF Flow
      <3>4. QED
        BY <1>1, <3>2, <3>3
    <2>3. QED
      BY <2>1, <2>2
  <1>4. j \in P
    <2>1. j \in Nat /\ j \in 0..j /\ \A n \in 1..j : n - 1 \in P => n \in P
      BY <1>3
    <2> HIDE DEF P
    <2>2. \A n \in 0..j : n \in P
      BY <1>2, <2>1, EveryRound
    <2>3. QED
      BY <2>1, <2>2
  <1>5. QED
    BY <1>4

\* What is common to a buy and a sale of the symbol
LEMMA OverlapFacts ==
    ASSUME NEW s, NEW B, NEW S, Flow(s, B, S), Len(trades) \in Nat,
           NEW i, BuyOf(s, i), NEW j, SaleOf(s, j)
    PROVE  /\ \A y : y \in Overlap(i, j) <=>
                       y \in Int /\ B[i-1] < y /\ y \leq B[i] /\ S[j-1] < y /\ y \leq S[j]
           /\ B[i-1] \in Nat /\ B[i] \in Nat /\ S[j-1] \in Nat /\ S[j] \in Nat
           /\ B[i-1] < B[i] /\ S[j-1] < S[j] /\ S[j] \leq B[j]
  <1>1. /\ i \in Rows /\ j \in Rows /\ i \in 0..Len(trades) /\ i - 1 \in 0..Len(trades)
        /\ j \in 0..Len(trades) /\ j - 1 \in 0..Len(trades)
    BY DEF BuyOf, SaleOf, Rows
  <1>2. B[i-1] \in Nat /\ B[i] \in Nat /\ S[j-1] \in Nat /\ S[j] \in Nat
    BY <1>1 DEF Flow
  <1>3. /\ trades[i].qty \in Nat \ {0} /\ B[i] = B[i-1] + trades[i].qty
        /\ trades[j].qty \in Nat \ {0} /\ S[j] = S[j-1] + trades[j].qty
        /\ S[j] \leq B[j]
    BY <1>1 DEF Flow
  <1>4. Shares(i) = (B[i-1] + 1)..B[i] /\ Shares(j) = (S[j-1] + 1)..S[j]
    BY <1>1 DEF Flow
  <1>5. \A y : y \in Overlap(i, j) <=> y \in (B[i-1] + 1)..B[i] /\ y \in (S[j-1] + 1)..S[j]
    BY <1>4 DEF Overlap
  <1>6. QED
    BY <1>2, <1>3, <1>5

\* A share was bought by one row.
LEMMA OneBuyer ==
    ASSUME NEW s, NEW B, NEW S, Flow(s, B, S), Len(trades) \in Nat,
           NEW i, BuyOf(s, i), NEW k, BuyOf(s, k),
           NEW y \in Int, B[i-1] < y, y \leq B[i], B[k-1] < y, y \leq B[k]
    PROVE  i = k
  <1>1. /\ i \in Int /\ k \in Int /\ i \in 0..Len(trades) /\ i - 1 \in 0..Len(trades)
        /\ k \in 0..Len(trades) /\ k - 1 \in 0..Len(trades)
    BY DEF BuyOf, Rows
  <1>2. B[i-1] \in Nat /\ B[i] \in Nat /\ B[k-1] \in Nat /\ B[k] \in Nat
    BY <1>1 DEF Flow
  <1>3. ASSUME i \leq k - 1 PROVE FALSE
    <2>1. B[i] \leq B[k-1]
      BY <1>1, <1>3, FlowGrows
    <2>2. QED
      BY <1>2, <2>1
  <1>4. ASSUME k \leq i - 1 PROVE FALSE
    <2>1. B[k] \leq B[i-1]
      BY <1>1, <1>4, FlowGrows
    <2>2. QED
      BY <1>2, <2>1
  <1>5. QED
    BY <1>1, <1>3, <1>4

\* The lots that are open when x shares were sold of what the first n rows bought
Open(lots, s, B, x, n) ==
    /\ \A k \in 1..Len(lots) :
         /\ lots[k].row \in 1..n /\ BuyOf(s, lots[k].row)
         /\ lots[k].qty = B[lots[k].row] - (IF k = 1 THEN x ELSE B[lots[k].row - 1])
         /\ lots[k].qty > 0
         /\ k > 1 => B[lots[k].row - 1] = B[lots[k-1].row]
    /\ lots # <<>> => B[lots[1].row - 1] \leq x
    /\ B[n] = IF lots = <<>> THEN x ELSE B[lots[Len(lots)].row]

\* The first lot is closed, all its shares being sold.
LEMMA OpenTail ==
    ASSUME NEW lots \in Seq(Lot), lots # <<>>, NEW s, NEW B, NEW x, NEW n,
           Open(lots, s, B, x, n), B[lots[1].row] \in Int
    PROVE  /\ Open(Tail(lots), s, B, B[lots[1].row], n)
           /\ Tail(lots) # <<>> => B[Tail(lots)[1].row - 1] = B[lots[1].row]
           /\ Len(Tail(lots)) = Len(lots) - 1
  <1> DEFINE rest == Tail(lots)
             y    == B[lots[1].row]
  <1>1. /\ Len(lots) \in Nat \ {0} /\ rest \in Seq(Lot) /\ Len(rest) = Len(lots) - 1
        /\ \A k \in 1..Len(rest) : rest[k] = lots[k+1] /\ k + 1 \in 1..Len(lots) /\ k + 1 > 1
        /\ rest # <<>> <=> Len(rest) > 0
    <2>1. Len(lots) \in Nat \ {0} /\ rest \in Seq(Lot) /\ Len(rest) = Len(lots) - 1
      OBVIOUS
    <2>2. \A k \in 1..Len(rest) : rest[k] = lots[k+1] /\ k + 1 \in 1..Len(lots) /\ k + 1 > 1
      BY <2>1
    <2> HIDE DEF rest
    <2>3. rest # <<>> <=> Len(rest) > 0
      BY <2>1
    <2>4. QED
      BY <2>1, <2>2, <2>3
  <1> HIDE DEF rest, y
  <1>2. ASSUME NEW k \in 1..Len(rest)
        PROVE  /\ rest[k].row \in 1..n /\ BuyOf(s, rest[k].row)
               /\ rest[k].qty = B[rest[k].row] - (IF k = 1 THEN y ELSE B[rest[k].row - 1])
               /\ rest[k].qty > 0
               /\ k > 1 => B[rest[k].row - 1] = B[rest[k-1].row]
               /\ k = 1 => B[rest[1].row - 1] = y
    <2>1. /\ lots[k+1].row \in 1..n /\ BuyOf(s, lots[k+1].row)
          /\ lots[k+1].qty = B[lots[k+1].row] - B[lots[k+1].row - 1]
          /\ lots[k+1].qty > 0
          /\ B[lots[k+1].row - 1] = B[lots[k].row]
      <3>1. k + 1 \in 1..Len(lots) /\ k + 1 > 1 /\ k + 1 # 1 /\ (k + 1) - 1 = k
        BY <1>1
      <3>2. QED
        BY <3>1 DEF Open
    <2>2. CASE k = 1
      BY <1>1, <2>1, <2>2 DEF y
    <2>3. CASE k # 1
      <3>1. k - 1 \in 1..Len(rest) /\ (k - 1) + 1 = k
        BY <1>1, <2>3
      <3>2. rest[k-1] = lots[k]
        BY <1>1, <3>1
      <3>3. QED
        BY <1>1, <2>1, <2>3, <3>2
    <2>4. QED
      BY <2>2, <2>3
  <1>3. rest # <<>> => B[rest[1].row - 1] = y
    BY <1>1, <1>2
  <1>4. B[n] = IF rest = <<>> THEN y ELSE B[rest[Len(rest)].row]
    <2>1. B[n] = B[lots[Len(lots)].row]
      BY DEF Open
    <2>2. CASE rest = <<>>
      BY <1>1, <2>1, <2>2 DEF y
    <2>3. CASE rest # <<>>
      <3>1. rest[Len(rest)] = lots[Len(lots)]
        BY <1>1, <2>3
      <3>2. QED
        BY <2>1, <2>3, <3>1
    <2>4. QED
      BY <2>2, <2>3
  <1>5. Open(rest, s, B, y, n)
    BY <1>2, <1>3, <1>4 DEF Open, y
  <1>6. QED
    BY <1>1, <1>3, <1>5 DEF rest, y

\* Some shares of the first lot are sold.
LEMMA OpenHead ==
    ASSUME NEW lots \in Seq(Lot), lots # <<>>, NEW s, NEW B, NEW x \in Int, NEW n,
           Open(lots, s, B, x, n), B[lots[1].row] \in Int, B[lots[1].row - 1] \in Int,
           NEW used \in Int, used > 0, used < lots[1].qty,
           NEW less, less = [lots EXCEPT ![1] = [row |-> lots[1].row, qty |-> lots[1].qty - used]]
    PROVE  Open(less, s, B, x + used, n) /\ Len(less) = Len(lots)
  <1> DEFINE lot == [row |-> lots[1].row, qty |-> lots[1].qty - used]
  <1>1. Len(lots) \in Nat \ {0} /\ 1 \in 1..Len(lots) /\ lots[1] \in Lot
    OBVIOUS
  <1>2. lot \in Lot
    BY <1>1 DEF Lot
  <1>3. /\ Len(less) = Len(lots) /\ less \in Seq(Lot)
        /\ \A k \in 1..Len(lots) : less[k] = IF k = 1 THEN lot ELSE lots[k]
    <2> HIDE DEF lot
    <2>1. less = [lots EXCEPT ![1] = lot]
      BY DEF lot
    <2>2. QED
      BY <1>1, <1>2, <2>1, ExceptSeq
  <1>4. \A k \in 1..Len(lots) : less[k].row = lots[k].row
    BY <1>3
  <1>5. less # <<>>
    BY <1>1, <1>3
  <1>6. lots[1].qty = B[lots[1].row] - x /\ lots[1].qty \in Int
    BY <1>1 DEF Open, Lot
  <1>7. ASSUME NEW k \in 1..Len(less)
        PROVE  /\ less[k].row \in 1..n /\ BuyOf(s, less[k].row)
               /\ less[k].qty = B[less[k].row] - (IF k = 1 THEN x + used ELSE B[less[k].row - 1])
               /\ less[k].qty > 0
               /\ k > 1 => B[less[k].row - 1] = B[less[k-1].row]
    <2>1. /\ lots[k].row \in 1..n /\ BuyOf(s, lots[k].row)
          /\ lots[k].qty = B[lots[k].row] - (IF k = 1 THEN x ELSE B[lots[k].row - 1])
          /\ lots[k].qty > 0
          /\ k > 1 => B[lots[k].row - 1] = B[lots[k-1].row]
      BY <1>3 DEF Open
    <2>2. less[k].row = lots[k].row
      BY <1>3, <1>4
    <2>3. k > 1 => less[k-1].row = lots[k-1].row
      BY <1>3, <1>4
    <2>4. CASE k = 1
      <3>1. less[k].qty = lots[1].qty - used
        BY <1>1, <1>3, <2>4
      <3>2. less[k].qty = B[lots[1].row] - (x + used) /\ less[k].qty > 0
        BY <1>6, <3>1
      <3>3. QED
        BY <2>1, <2>2, <2>4, <3>2
    <2>5. CASE k # 1
      <3>1. less[k] = lots[k]
        BY <1>3, <2>5
      <3>2. QED
        BY <2>1, <2>2, <2>3, <2>5, <3>1
    <2>6. QED
      BY <2>4, <2>5
  <1>8. B[less[1].row - 1] \leq x + used
    <2>1. B[lots[1].row - 1] \leq x
      BY DEF Open
    <2>2. less[1].row = lots[1].row
      BY <1>1, <1>4
    <2>3. QED
      BY <2>1, <2>2
  <1>9. B[n] = B[less[Len(less)].row]
    <2>1. B[n] = B[lots[Len(lots)].row]
      BY DEF Open
    <2>2. less[Len(less)].row = lots[Len(lots)].row
      BY <1>1, <1>3, <1>4
    <2>3. QED
      BY <2>1, <2>2
  <1>10. QED
    BY <1>3, <1>5, <1>7, <1>8, <1>9 DEF Open

\* A row buys a lot more.
LEMMA OpenBuy ==
    ASSUME NEW lots \in Seq(Lot), NEW s, NEW B, NEW S, Flow(s, B, S), Len(trades) \in Nat,
           NEW n \in Rows, BuyOf(s, n), NEW x \in Int, Open(lots, s, B, x, n - 1),
           NEW more, more = Append(lots, [row |-> n, qty |-> trades[n].qty])
    PROVE  Open(more, s, B, x, n) /\ more \in Seq(Lot)
  <1> DEFINE lot == [row |-> n, qty |-> trades[n].qty]
             m   == Len(lots)
  <1>0. n \in 0..Len(trades) /\ n - 1 \in 0..Len(trades)
    BY DEF Rows
  <1>1. /\ B[n] = B[n-1] + trades[n].qty /\ trades[n].qty \in Nat \ {0}
        /\ B[n] \in Nat /\ B[n-1] \in Nat
    BY <1>0 DEF Flow
  <1>2. lot \in Lot /\ lot.row = n /\ lot.qty = trades[n].qty
    BY <1>1 DEF Lot, Rows
  <1> HIDE DEF lot
  <1>3. /\ m \in Nat /\ more \in Seq(Lot) /\ Len(more) = m + 1 /\ more # <<>>
        /\ \A k \in 1..m : more[k] = lots[k]
        /\ more[m + 1] = lot
        /\ lots = <<>> <=> m = 0
    <2>1. more = Append(lots, lot)
      BY DEF lot
    <2>2. QED
      BY <1>2, <2>1
  <1> HIDE DEF m
  <1>4. \A k \in 1..(n - 1) : k \in 1..n
    BY <1>0
  <1>5. ASSUME NEW k \in 1..m
        PROVE  /\ more[k].row \in 1..n /\ BuyOf(s, more[k].row)
               /\ more[k].qty = B[more[k].row] - (IF k = 1 THEN x ELSE B[more[k].row - 1])
               /\ more[k].qty > 0
               /\ k > 1 => B[more[k].row - 1] = B[more[k-1].row]
    <2>1. k > 1 => k - 1 \in 1..m
      BY <1>3
    <2>2. QED
      BY <1>3, <1>4, <2>1 DEF Open, m
  <1>6. B[n-1] = IF m = 0 THEN x ELSE B[lots[m].row]
    BY <1>3 DEF Open, m
  <1>7. /\ more[m+1].row \in 1..n /\ BuyOf(s, more[m+1].row)
        /\ more[m+1].qty = B[more[m+1].row] - (IF m + 1 = 1 THEN x ELSE B[more[m+1].row - 1])
        /\ more[m+1].qty > 0
        /\ m + 1 > 1 => B[more[m+1].row - 1] = B[more[(m+1)-1].row]
    <2>1. n \in 1..n
      BY DEF Rows
    <2>2. CASE m = 0
      BY <1>1, <1>2, <1>3, <1>6, <2>1, <2>2
    <2>3. CASE m # 0
      <3>1. m \in 1..m /\ (m + 1) - 1 = m /\ m + 1 # 1
        BY <1>3, <2>3
      <3>2. more[(m+1)-1] = lots[m]
        BY <1>3, <3>1
      <3>3. QED
        BY <1>1, <1>2, <1>3, <1>6, <2>1, <2>3, <3>1, <3>2
    <2>4. QED
      BY <2>2, <2>3
  <1>8. ASSUME NEW k \in 1..Len(more)
        PROVE  /\ more[k].row \in 1..n /\ BuyOf(s, more[k].row)
               /\ more[k].qty = B[more[k].row] - (IF k = 1 THEN x ELSE B[more[k].row - 1])
               /\ more[k].qty > 0
               /\ k > 1 => B[more[k].row - 1] = B[more[k-1].row]
    <2>1. k \in 1..m \/ k = m + 1
      BY <1>3
    <2>2. CASE k \in 1..m
      BY <1>5, <2>2
    <2>3. CASE k = m + 1
      BY <1>7, <2>3
    <2>4. QED
      BY <2>1, <2>2, <2>3
  <1>9. B[more[1].row - 1] \leq x
    <2>1. CASE m = 0
      <3>1. more[1] = lot /\ B[n-1] = x
        BY <1>3, <1>6, <2>1
      <3>2. QED
        BY <1>2, <3>1
    <2>2. CASE m # 0
      <3>1. more[1] = lots[1] /\ lots # <<>>
        BY <1>3, <2>2
      <3>2. QED
        BY <3>1 DEF Open
    <2>3. QED
      BY <2>1, <2>2
  <1>10. B[n] = B[more[Len(more)].row]
    BY <1>2, <1>3
  <1>11. QED
    BY <1>3, <1>8, <1>9, <1>10 DEF Open

\* A row that buys nothing of the symbol leaves its lots.
LEMMA OpenOther ==
    ASSUME NEW lots, NEW s, NEW B, NEW S, Flow(s, B, S), Len(trades) \in Nat,
           NEW n \in Rows, ~BuyOf(s, n), NEW x, Open(lots, s, B, x, n - 1)
    PROVE  Open(lots, s, B, x, n)
  <1>1. B[n] = B[n-1]
    <2>1. B[n-1] \in Nat
      BY DEF Flow, Rows
    <2>2. QED
      BY <2>1 DEF Flow
  <1>2. \A k \in 1..(n - 1) : k \in 1..n
    BY DEF Rows
  <1>3. QED
    BY <1>1, <1>2 DEF Open

-----------------------------------------------------------------------------
\* The trips of a sale

InOrder(trips) ==
    \A m, n \in 1..Len(trips) : m < n =>
        \/ trips[m].sale < trips[n].sale
        \/ trips[m].sale = trips[n].sale /\ trips[m].buy < trips[n].buy

\* Each trip is what a sale up to row n sold of a buy.
TripsTrue(trips, n) ==
    \A m \in 1..Len(trips) :
        /\ trips[m].sale \in 1..n /\ trips[m].buy \in Rows
        /\ Meet(trips[m].buy, trips[m].sale)
        /\ trips[m].qty = Cardinality(Overlap(trips[m].buy, trips[m].sale))

Listed(trips, i, j) == \E m \in 1..Len(trips) : trips[m].buy = i /\ trips[m].sale = j

\* All trips of the sales up to row n
TripsUpTo(trips, n) ==
    /\ TripsTrue(trips, n)
    /\ \A i \in Rows, j \in 1..n : Meet(i, j) => Listed(trips, i, j)
    /\ InOrder(trips)

\* Row j is selling its shares of s and has still some left: the lots are what is open,
\* the trips are those of what was sold.
Selling(at, j, s, B, S) ==
    LET x == S[j] - at.remaining IN
    /\ at \in CloseState /\ at.remaining >= 0 /\ x >= S[j-1]
    /\ Open(at.lots, s, B, x, j - 1)
    /\ at.remaining > 0 /\ at.lots # <<>> => x = S[j-1] \/ B[at.lots[1].row - 1] = x
    /\ TripsTrue(at.trips, j) /\ InOrder(at.trips)
    /\ \A i \in Rows, k \in 1..(j - 1) : Meet(i, k) => Listed(at.trips, i, k)
    /\ \A i \in Rows : Meet(i, j) /\ (\E y \in Overlap(i, j) : y \leq x) => Listed(at.trips, i, j)
    /\ at.remaining > 0 =>
         \A m \in 1..Len(at.trips) : at.trips[m].sale = j => B[at.trips[m].buy] \leq x

\* The trip closes a younger lot than those that its sale has closed.
YoungerLot(trips, trip) ==
    \A m \in 1..Len(trips) : trips[m].sale = trip.sale => trips[m].buy < trip.buy

Lengthened(more, trips, trip, j) ==
    /\ TripsTrue(more, j) /\ InOrder(more) /\ Listed(more, trip.buy, j)
    /\ \A i, k : Listed(trips, i, k) => Listed(more, i, k)
    /\ \A m \in 1..Len(more) : (m \in 1..Len(trips) /\ more[m] = trips[m]) \/ more[m] = trip

\* A trip more
LEMMA TripMore ==
    ASSUME NEW trips \in Seq(Trip), NEW j, TripsTrue(trips, j), InOrder(trips), j \in Nat,
           NEW trip \in Trip, trip.sale = j, j \in 1..j, trip.buy \in Rows, Meet(trip.buy, j),
           trip.qty = Cardinality(Overlap(trip.buy, j)),
           YoungerLot(trips, trip),
           NEW more, more = Append(trips, trip)
    PROVE  Lengthened(more, trips, trip, j)
  <1>1. /\ Len(trips) \in Nat /\ Len(more) = Len(trips) + 1
        /\ more[Len(trips) + 1] = trip
        /\ \A m \in 1..Len(trips) : more[m] = trips[m]
    OBVIOUS
  <1>2. \A m \in 1..Len(more) : m \in 1..Len(trips) \/ m = Len(trips) + 1
    BY <1>1
  <1>3. \A m \in 1..Len(trips) : m \in 1..Len(more)
    BY <1>1
  <1>4. Len(trips) + 1 \in 1..Len(more)
    BY <1>1
  <1>5. TripsTrue(more, j)
    BY <1>1, <1>2 DEF TripsTrue
  <1>6. Listed(more, trip.buy, j)
    BY <1>1, <1>4 DEF Listed
  <1>7. \A i, k : Listed(trips, i, k) => Listed(more, i, k)
    BY <1>1, <1>3 DEF Listed
  <1>8. ASSUME NEW m \in 1..Len(more), NEW n \in 1..Len(more), m < n
        PROVE  \/ more[m].sale < more[n].sale
               \/ more[m].sale = more[n].sale /\ more[m].buy < more[n].buy
    <2>1. m \in 1..Len(trips) /\ more[m] = trips[m]
      BY <1>1, <1>8
    <2>2. CASE n \in 1..Len(trips)
      BY <1>1, <1>8, <2>1, <2>2 DEF InOrder
    <2>3. CASE n = Len(trips) + 1
      <3>1. trips[m].sale \in 1..j
        BY <2>1 DEF TripsTrue
      <3>2. trips[m].sale = j \/ trips[m].sale < j
        BY <3>1
      <3>3. QED
        BY <1>1, <2>1, <2>3, <3>2 DEF YoungerLot
    <2>4. QED
      BY <1>2, <2>2, <2>3
  <1>9. QED
    BY <1>1, <1>2, <1>5, <1>6, <1>7, <1>8 DEF InOrder, Lengthened

\* A round of the sale
LEMMA SaleRound ==
    ASSUME NEW s, NEW B, NEW S, Flow(s, B, S), Len(trades) \in Nat, NEW j, SaleOf(s, j),
           NEW at, Selling(at, j, s, B, S), at.remaining > 0, at.lots # <<>>
    PROVE  /\ Selling(CloseRound(j, at), j, s, B, S)
           /\ CloseRound(j, at).remaining = 0 \/ Len(CloseRound(j, at).lots) = Len(at.lots) - 1
  <1> DEFINE next == CloseRound(j, at)
             x    == S[j] - at.remaining
             lot  == at.lots[1]
             r    == lot.row
             used == Used(at, lot)
             z    == S[j] - next.remaining
             trip == [buy |-> r, sale |-> j, qty |-> used]
  <1>1. /\ at \in CloseState /\ at.remaining \in Int /\ at.lots \in Seq(Lot) /\ at.trips \in Seq(Trip)
        /\ j \in Rows /\ j \in Nat /\ j - 1 \in 0..Len(trades) /\ 1 \in 1..Len(at.lots)
    BY DEF Selling, CloseState, SaleOf, Rows
  <1>2. /\ Open(at.lots, s, B, x, j - 1) /\ x >= S[j-1]
        /\ x = S[j-1] \/ B[r - 1] = x
        /\ TripsTrue(at.trips, j) /\ InOrder(at.trips)
    BY DEF Selling
  <1>3. /\ lot \in Lot /\ lot.qty \in Int /\ r \in Nat /\ used \in Int
        /\ next.remaining = at.remaining - used
        /\ used = lot.qty => next.lots = Tail(at.lots)
        /\ used # lot.qty =>
             next.lots = [at.lots EXCEPT ![1] = [row |-> lot.row, qty |-> lot.qty - used]]
        /\ next.trips = Append(at.trips, trip)
        /\ next \in CloseState
    <2> HIDE DEF used, lot
    <2>1. /\ lot \in Lot /\ used \in Int
          /\ next.remaining = at.remaining - used
          /\ used = lot.qty => next.lots = Tail(at.lots)
          /\ used # lot.qty =>
               next.lots = [at.lots EXCEPT ![1] = [row |-> lot.row, qty |-> lot.qty - used]]
          /\ next.trips = Append(at.trips, trip)
          /\ next \in CloseState
      <3>1. next = CloseRound(j, at)
        OBVIOUS
      <3> HIDE DEF next
      <3>2. QED
        BY <1>1, <3>1, RoundFacts DEF used, lot
    <2>2. QED
      BY <2>1 DEF Lot
  <1>4. r \in 1..(j - 1) /\ BuyOf(s, r) /\ lot.qty = B[r] - x /\ lot.qty > 0 /\ B[r - 1] \leq x
    BY <1>1, <1>2 DEF Open
  <1>5. /\ \A y : y \in Overlap(r, j) <=>
                    y \in Int /\ B[r-1] < y /\ y \leq B[r] /\ S[j-1] < y /\ y \leq S[j]
        /\ B[r-1] \in Nat /\ B[r] \in Nat /\ S[j-1] \in Nat /\ S[j] \in Nat
    BY <1>4, OverlapFacts
  <1>6. used = IF at.remaining < lot.qty THEN at.remaining ELSE lot.qty
    BY DEF Used
  <1> HIDE DEF used, lot, r, next
  <1>7. /\ x \in Int /\ z \in Int /\ z = x + used /\ x < z /\ z \leq B[r] /\ z \leq S[j]
        /\ used > 0 /\ used \leq lot.qty /\ next.remaining >= 0 /\ next.remaining \in Int
        /\ used < lot.qty => next.remaining = 0
        /\ used = lot.qty => z = B[r]
        /\ z = B[r] \/ z = S[j]
    <2>1. /\ at.remaining \in Int /\ S[j] \in Int /\ B[r] \in Int /\ used \in Int
          /\ lot.qty \in Int
      BY <1>1, <1>3, <1>5
    <2>2. next.remaining = at.remaining - used
      BY <1>3
    <2>3. /\ used = lot.qty \/ used = at.remaining
          /\ used \leq lot.qty /\ used \leq at.remaining /\ used > 0
      BY <1>4, <1>6, <2>1
    <2>4. lot.qty = B[r] - x
      BY <1>4
    <2>5. x \in Int /\ z \in Int /\ z = x + used
      BY <2>1, <2>2
    <2>6. x + at.remaining = S[j] /\ x + lot.qty = B[r]
      BY <2>1, <2>4
    <2> HIDE DEF x, z
    <2>7. QED
      BY <2>1, <2>2, <2>3, <2>5, <2>6
  <1>8. Overlap(r, j) = (x + 1)..z
    <2>1. \A y : y \in Overlap(r, j) <=> y \in (x + 1)..z
      BY <1>2, <1>4, <1>5, <1>7
    <2>2. QED
      BY <2>1
  <1>9. Cardinality(Overlap(r, j)) = used /\ Overlap(r, j) # {}
    <2>1. Cardinality((x + 1)..z) = z - (x + 1) + 1
      BY <1>7, FS_Interval
    <2>2. x + 1 \in (x + 1)..z
      BY <1>7
    <2> HIDE DEF x, z
    <2>3. z - (x + 1) + 1 = used
      BY <1>3, <1>7
    <2>4. QED
      BY <1>8, <2>1, <2>2, <2>3
  <1>10. Meet(r, j)
    BY <1>4, <1>9 DEF Meet, BuyOf, SaleOf
  <1>11. ASSUME NEW m \in 1..Len(at.trips), at.trips[m].sale = j
         PROVE  B[at.trips[m].buy] \leq x /\ at.trips[m].buy < r
    <2>1. B[at.trips[m].buy] \leq x /\ at.trips[m].buy \in Rows
      BY <1>11 DEF Selling, TripsTrue
    <2>2. CASE r \leq at.trips[m].buy
      <3>1. r \in 0..Len(trades) /\ at.trips[m].buy \in 0..Len(trades)
        BY <1>4, <2>1 DEF Rows, BuyOf
      <3>2. B[r] \leq B[at.trips[m].buy] /\ B[at.trips[m].buy] \in Nat
        BY <2>2, <3>1, FlowGrows DEF Flow
      <3>3. QED
        BY <1>5, <1>7, <2>1, <3>2
    <2>3. r \in Int /\ at.trips[m].buy \in Int
      BY <1>4, <2>1 DEF Rows
    <2>4. QED
      BY <2>1, <2>2, <2>3
  <1>12. trip \in Trip /\ trip.sale = j /\ trip.buy = r /\ trip.qty = used /\ r \in Rows /\ j \in 1..j
    BY <1>1, <1>3, <1>4 DEF Trip, BuyOf, Rows
  <1> HIDE DEF trip
  <1>13. /\ TripsTrue(next.trips, j) /\ InOrder(next.trips) /\ Listed(next.trips, r, j)
         /\ \A i, k : Listed(at.trips, i, k) => Listed(next.trips, i, k)
         /\ \A m \in 1..Len(next.trips) :
              (m \in 1..Len(at.trips) /\ next.trips[m] = at.trips[m]) \/ next.trips[m] = trip
    <2>1. YoungerLot(at.trips, trip)
      BY <1>11, <1>12 DEF YoungerLot
    <2>2. Meet(trip.buy, j) /\ trip.qty = Cardinality(Overlap(trip.buy, j)) /\ trip.buy \in Rows
      BY <1>9, <1>10, <1>12
    <2>3. /\ TripsTrue(next.trips, j) /\ InOrder(next.trips) /\ Listed(next.trips, trip.buy, j)
          /\ \A i, k : Listed(at.trips, i, k) => Listed(next.trips, i, k)
          /\ \A m \in 1..Len(next.trips) :
               (m \in 1..Len(at.trips) /\ next.trips[m] = at.trips[m]) \/ next.trips[m] = trip
      <3> DEFINE old  == at.trips
                 more == next.trips
      <3>1. old \in Seq(Trip) /\ TripsTrue(old, j) /\ InOrder(old) /\ YoungerLot(old, trip)
        BY <1>1, <1>2, <2>1
      <3>2. more = Append(old, trip)
        BY <1>3
      <3>3. j \in Nat /\ j \in 1..j /\ trip \in Trip /\ trip.sale = j
        BY <1>1, <1>12
      <3> HIDE DEF old, more
      <3>4. Lengthened(more, old, trip, j)
        BY <2>2, <3>1, <3>2, <3>3, TripMore
      <3>5. QED
        BY <3>4 DEF old, more, Lengthened
    <2>4. QED
      BY <1>12, <2>3
  <1>14. /\ Open(next.lots, s, B, z, j - 1)
         /\ next.remaining > 0 /\ next.lots # <<>> => B[next.lots[1].row - 1] = z
         /\ next.remaining = 0 \/ Len(next.lots) = Len(at.lots) - 1
    <2>1. CASE used = lot.qty
      <3>1. /\ Open(Tail(at.lots), s, B, B[at.lots[1].row], j - 1)
            /\ Tail(at.lots) # <<>> => B[Tail(at.lots)[1].row - 1] = B[at.lots[1].row]
            /\ Len(Tail(at.lots)) = Len(at.lots) - 1
        <4>1. B[at.lots[1].row] \in Int
          BY <1>5 DEF r, lot
        <4> HIDE DEF x
        <4>2. QED
          BY <1>1, <1>2, <4>1, OpenTail
      <3>2. B[at.lots[1].row] = z
        BY <1>7, <2>1 DEF r, lot
      <3>3. QED
        BY <1>3, <2>1, <3>1, <3>2
    <2>2. CASE used # lot.qty
      <3>1. next.remaining = 0 /\ used < lot.qty
        BY <1>3, <1>7, <2>2
      <3>2. Open(next.lots, s, B, x + used, j - 1)
        <4>1. /\ B[at.lots[1].row] \in Int /\ B[at.lots[1].row - 1] \in Int
              /\ used < at.lots[1].qty
              /\ next.lots = [at.lots EXCEPT ![1] = [row |-> at.lots[1].row,
                                                     qty |-> at.lots[1].qty - used]]
          BY <1>3, <1>5, <2>2, <3>1 DEF r, lot
        <4>2. x \in Int /\ used \in Int /\ used > 0
          BY <1>3, <1>7
        <4> HIDE DEF x
        <4>3. QED
          BY <1>1, <1>2, <4>1, <4>2, OpenHead
      <3>3. QED
        BY <1>7, <3>1, <3>2
    <2>3. QED
      BY <2>1, <2>2
  <1>15. ASSUME NEW i \in Rows, Meet(i, j), NEW y \in Overlap(i, j), y \leq z
         PROVE  Listed(next.trips, i, j)
    <2>1. CASE y \leq x
      <3>1. Listed(at.trips, i, j)
        BY <1>15, <2>1 DEF Selling
      <3>2. QED
        BY <1>13, <3>1
    <2>2. CASE ~(y \leq x)
      <3>1. BuyOf(s, i)
        BY <1>15 DEF Meet, BuyOf, SaleOf
      <3>2. y \in Int /\ B[i-1] < y /\ y \leq B[i]
        BY <3>1, <1>15, OverlapFacts
      <3>3. B[r-1] < y /\ y \leq B[r]
        BY <1>4, <1>5, <1>7, <1>15, <2>2, <3>2
      <3>4. i = r
        BY <1>4, <3>1, <3>2, <3>3, OneBuyer
      <3>5. QED
        BY <1>13, <3>4
    <2>3. QED
      BY <2>1, <2>2
  <1>16. ASSUME next.remaining > 0, NEW m \in 1..Len(next.trips), next.trips[m].sale = j
         PROVE  B[next.trips[m].buy] \leq z
    <2>1. used = lot.qty /\ z = B[r]
      BY <1>3, <1>7, <1>16
    <2>2. CASE m \in 1..Len(at.trips) /\ next.trips[m] = at.trips[m]
      <3>1. B[at.trips[m].buy] \leq x /\ at.trips[m].buy \in Rows
        BY <1>2, <1>11, <1>16, <2>2 DEF TripsTrue
      <3>2. B[at.trips[m].buy] \in Nat
        <4>1. at.trips[m].buy \in 0..Len(trades)
          BY <3>1 DEF Rows
        <4>2. QED
          BY <4>1 DEF Flow
      <3>3. QED
        BY <1>7, <2>2, <3>1, <3>2
    <2>3. CASE next.trips[m] = trip
      BY <1>7, <1>12, <2>1, <2>3
    <2>4. QED
      BY <1>13, <2>2, <2>3
  <1>17. \A i \in Rows, k \in 1..(j - 1) : Meet(i, k) => Listed(next.trips, i, k)
    BY <1>13 DEF Selling
  <1>18. z >= S[j-1]
    BY <1>2, <1>5, <1>7
  <1>19. Selling(next, j, s, B, S)
    BY <1>3, <1>7, <1>13, <1>14, <1>15, <1>16, <1>17, <1>18 DEF Selling
  <1>20. QED
    BY <1>14, <1>19 DEF next

\* The loop's rounds leave states of the loop.
LEMMA ClosingTyped ==
    ASSUME NEW sale \in Nat, NEW qty \in Int, NEW lots \in Seq(Lot), NEW trips \in Seq(Trip),
           NEW u, Closing(u, sale, qty, lots, trips)
    PROVE  /\ \A n \in 0..Len(lots) : u[n] \in CloseState
           /\ u[0] = [remaining |-> qty, lots |-> lots, trips |-> trips]
           /\ \A n \in 1..Len(lots) : n - 1 \in 0..Len(lots) /\ u[n] = CloseRound(sale, u[n-1])
  <1> DEFINE P == {n \in 0..Len(lots) : u[n] \in CloseState}
  <1>1. Len(lots) \in Nat
    OBVIOUS
  <1>2. u[0] = [remaining |-> qty, lots |-> lots, trips |-> trips]
    <2>1. 0 \in 0..Len(lots)
      BY <1>1
    <2>2. QED
      BY <2>1 DEF Closing
  <1>3. ASSUME NEW n \in 1..Len(lots)
        PROVE  n - 1 \in 0..Len(lots) /\ n \in 0..Len(lots) /\ u[n] = CloseRound(sale, u[n-1])
    <2>1. n \in 0..Len(lots) /\ n # 0 /\ n - 1 \in 0..Len(lots)
      BY <1>1
    <2>2. QED
      BY <2>1 DEF Closing, CloseRound
  <1>4. 0 \in P
    BY <1>1, <1>2 DEF CloseState
  <1>5. \A n \in 1..Len(lots) : n - 1 \in P => n \in P
    BY <1>3, CloseTyped
  <1> HIDE DEF P
  <1>6. \A n \in 0..Len(lots) : n \in P
    BY <1>1, <1>4, <1>5, EveryRound
  <1>7. QED
    BY <1>2, <1>3, <1>6 DEF P

\* A sale begins with the trips of the sales before.
LEMMA SaleBegins ==
    ASSUME NEW s, NEW B, NEW S, Flow(s, B, S), Len(trades) \in Nat, NEW j, SaleOf(s, j),
           NEW lots \in Seq(Lot), NEW trips \in Seq(Trip),
           Open(lots, s, B, S[j-1], j - 1), TripsUpTo(trips, j - 1),
           NEW at, at = [remaining |-> trades[j].qty, lots |-> lots, trips |-> trips]
    PROVE  Selling(at, j, s, B, S)
  <1>1. /\ j \in Rows /\ j \in Nat /\ j - 1 \in 0..Len(trades) /\ j \in 0..Len(trades)
    BY DEF SaleOf, Rows
  <1>2. /\ S[j] = S[j-1] + trades[j].qty /\ trades[j].qty \in Nat \ {0}
        /\ S[j] \in Nat /\ S[j-1] \in Nat
    BY <1>1 DEF Flow
  <1>3. at.remaining = trades[j].qty /\ at.lots = lots /\ at.trips = trips /\ at \in CloseState
    BY <1>2 DEF CloseState
  <1>4. S[j] - at.remaining = S[j-1] /\ at.remaining >= 0
    BY <1>2, <1>3
  <1>5. \A k \in 1..(j - 1) : k \in 1..j /\ k # j
    BY <1>1
  <1>6. TripsTrue(trips, j) /\ \A m \in 1..Len(trips) : trips[m].sale # j
    BY <1>5 DEF TripsUpTo, TripsTrue
  <1>7. ASSUME NEW i \in Rows, Meet(i, j), NEW y \in Overlap(i, j), y \leq S[j-1] PROVE FALSE
    <2>1. BuyOf(s, i)
      BY <1>7 DEF Meet, BuyOf, SaleOf
    <2>2. y \in Int /\ S[j-1] < y
      BY <1>7, <2>1, OverlapFacts
    <2>3. QED
      BY <1>2, <1>7, <2>2
  <1>8. InOrder(trips) /\ \A i \in Rows, k \in 1..(j - 1) : Meet(i, k) => Listed(trips, i, k)
    BY DEF TripsUpTo
  <1>9. S[j-1] >= S[j-1]
    BY <1>2
  <1> DEFINE x == S[j] - at.remaining
  <1>10. x = S[j-1]
    BY <1>4
  <1> HIDE DEF x
  <1>11. /\ at \in CloseState /\ at.remaining >= 0 /\ x >= S[j-1]
         /\ Open(at.lots, s, B, x, j - 1)
         /\ TripsTrue(at.trips, j) /\ InOrder(at.trips)
         /\ \A i \in Rows, k \in 1..(j - 1) : Meet(i, k) => Listed(at.trips, i, k)
         /\ \A i \in Rows : Meet(i, j) /\ (\E y \in Overlap(i, j) : y \leq x) => Listed(at.trips, i, j)
         /\ \A m \in 1..Len(at.trips) : at.trips[m].sale # j
    BY <1>3, <1>4, <1>6, <1>7, <1>8, <1>9, <1>10
  <1>12. QED
    BY <1>10, <1>11 DEF Selling, x

\* It ends with all that it had to sell sold.
LEMMA SaleDone ==
    ASSUME NEW s, NEW B, NEW S, Flow(s, B, S), Len(trades) \in Nat, NEW j, SaleOf(s, j),
           NEW lots \in Seq(Lot), NEW trips \in Seq(Trip),
           Open(lots, s, B, S[j-1], j - 1), TripsUpTo(trips, j - 1),
           NEW after, after = CloseLots(j, trades[j].qty, lots, trips)
    PROVE  /\ after \in CloseState
           /\ Open(after.lots, s, B, S[j], j)
           /\ TripsUpTo(after.trips, j)
  <1> DEFINE L == Len(lots)
  <1>1. /\ j \in Rows /\ j \in Nat /\ j \in 0..Len(trades) /\ j - 1 \in 0..Len(trades) /\ L \in Nat
    BY DEF SaleOf, Rows
  <1>2. trades[j].qty \in Int /\ S[j] \in Nat /\ S[j] \leq B[j] /\ B[j] \in Nat
    BY <1>1 DEF Flow
  <1>3. PICK u : Closing(u, j, trades[j].qty, lots, trips) /\ after = u[L]
    BY <1>1, <1>2, CloseRuns
  <1>4. /\ \A n \in 0..L : u[n] \in CloseState
        /\ u[0] = [remaining |-> trades[j].qty, lots |-> lots, trips |-> trips]
        /\ \A n \in 1..L : n - 1 \in 0..L /\ u[n] = CloseRound(j, u[n-1])
    BY <1>1, <1>2, <1>3, ClosingTyped
  <1>r. ASSUME NEW at, Selling(at, j, s, B, S), at.remaining > 0, at.lots # <<>>
        PROVE  /\ Selling(CloseRound(j, at), j, s, B, S)
               /\ CloseRound(j, at).remaining = 0 \/ Len(CloseRound(j, at).lots) = Len(at.lots) - 1
    BY <1>r, SaleRound
  <1> DEFINE P == {n \in 0..L : Selling(u[n], j, s, B, S) /\ (u[n].remaining = 0 \/ Len(u[n].lots) = L - n)}
  <1>5. 0 \in P
    <2>1. Selling(u[0], j, s, B, S)
      BY <1>4, SaleBegins
    <2>2. Len(u[0].lots) = L - 0
      BY <1>1, <1>4
    <2>3. QED
      BY <1>1, <2>1, <2>2
  <1>6. ASSUME NEW n \in 1..L, n - 1 \in P PROVE n \in P
    <2> DEFINE at == u[n-1]
               m  == n - 1
    <2>0. Selling(u[m], j, s, B, S) /\ (u[m].remaining = 0 \/ Len(u[m].lots) = L - m)
      <3>1. m \in P
        BY <1>6
      <3> HIDE DEF m
      <3>2. QED
        BY <3>1
    <2>1. /\ Selling(at, j, s, B, S) /\ (at.remaining = 0 \/ Len(at.lots) = L - (n - 1))
          /\ u[n] = CloseRound(j, at) /\ n \in 0..L
      <3>1. n \in 0..L /\ u[n] = CloseRound(j, at)
        BY <1>1, <1>4
      <3>2. QED
        BY <2>0, <3>1
    <2>2. at.remaining \in Int /\ at.remaining >= 0 /\ at.lots \in Seq(Lot)
      BY <2>1 DEF Selling, CloseState
    <2> HIDE DEF at
    <2>3. CASE at.remaining = 0
      BY <2>1, <2>2, <2>3 DEF CloseRound
    <2>4. CASE at.remaining # 0
      <3>1. at.remaining > 0 /\ Len(at.lots) = L - (n - 1) /\ Len(at.lots) > 0
        BY <1>1, <2>1, <2>2, <2>4
      <3>2. at.lots # <<>>
        BY <3>1
      <3>3. Selling(u[n], j, s, B, S) /\ (u[n].remaining = 0 \/ Len(u[n].lots) = Len(at.lots) - 1)
        <4>1. /\ Selling(CloseRound(j, at), j, s, B, S)
              /\ CloseRound(j, at).remaining = 0 \/ Len(CloseRound(j, at).lots) = Len(at.lots) - 1
          BY <2>1, <3>1, <3>2, <1>r
        <4>2. QED
          BY <2>1, <4>1
      <3>4. Len(at.lots) - 1 = L - n
        BY <1>1, <3>1
      <3>5. QED
        BY <2>1, <3>3, <3>4
    <2>5. QED
      BY <2>3, <2>4
  <1>7. L \in P
    <2>1. \A n \in 1..L : n - 1 \in P => n \in P
      BY <1>6
    <2> HIDE DEF P, L
    <2>2. \A n \in 0..L : n \in P
      BY <1>1, <1>5, <2>1, EveryRound
    <2>3. QED
      BY <1>1, <2>2
  <1>8. /\ Selling(after, j, s, B, S) /\ (after.remaining = 0 \/ Len(after.lots) = 0)
    BY <1>1, <1>3, <1>7
  <1>9. /\ after \in CloseState /\ after.remaining \in Int /\ after.remaining >= 0
        /\ after.lots \in Seq(Lot)
        /\ Open(after.lots, s, B, S[j] - after.remaining, j - 1)
    BY <1>8 DEF Selling, CloseState
  <1>10. ~BuyOf(s, j)
    BY DEF BuyOf, SaleOf, IsBuy, IsSale
  <1>11. B[j] = B[j-1]
    <2>1. B[j-1] \in Nat
      BY <1>1 DEF Flow
    <2>2. QED
      BY <1>1, <1>10, <2>1 DEF Flow
  <1>12. after.remaining = 0
    <2> SUFFICES ASSUME after.remaining # 0 PROVE FALSE
      OBVIOUS
    <2>1. after.lots = <<>>
      BY <1>8, <1>9
    <2>2. B[j-1] = S[j] - after.remaining
      BY <1>9, <2>1 DEF Open
    <2>3. QED
      BY <1>2, <1>9, <1>11, <2>2
  <1>13. S[j] - after.remaining = S[j]
    BY <1>2, <1>12
  <1>14. Open(after.lots, s, B, S[j], j)
    BY <1>1, <1>9, <1>10, <1>13, OpenOther
  <1>15. TripsTrue(after.trips, j) /\ InOrder(after.trips)
    BY <1>8 DEF Selling
  <1>16. ASSUME NEW i \in Rows, NEW k \in 1..j, Meet(i, k) PROVE Listed(after.trips, i, k)
    <2>1. CASE k \in 1..(j - 1)
      BY <1>8, <1>16, <2>1 DEF Selling
    <2>2. CASE k = j
      <3>1. PICK y : y \in Overlap(i, j)
        BY <1>16, <2>2 DEF Meet
      <3>2. BuyOf(s, i)
        BY <1>16, <2>2 DEF Meet, BuyOf, SaleOf
      <3>3. y \leq S[j]
        BY <3>1, <3>2, OverlapFacts
      <3>4. QED
        BY <1>8, <1>13, <1>16, <2>2, <3>1, <3>3 DEF Selling
    <2>3. k \in 1..(j - 1) \/ k = j
      BY <1>1
    <2>4. QED
      BY <2>1, <2>2, <2>3
  <1>17. QED
    BY <1>9, <1>14, <1>15, <1>16 DEF TripsUpTo

\* What is left of a sale is a state of its loop.
LEMMA SaleLeaves ==
    ASSUME NEW sale \in Nat, NEW qty \in Int, NEW lots \in Seq(Lot), NEW trips \in Seq(Trip)
    PROVE  CloseLots(sale, qty, lots, trips) \in CloseState
  <1>1. PICK u : /\ Closing(u, sale, qty, lots, trips)
                 /\ CloseLots(sale, qty, lots, trips) = u[Len(lots)]
    BY CloseRuns
  <1>2. Len(lots) \in 0..Len(lots)
    OBVIOUS
  <1>3. QED
    <2>1. \A n \in 0..Len(lots) : u[n] \in CloseState
      BY <1>1, ClosingTyped
    <2>2. QED
      BY <1>1, <1>2, <2>1

-----------------------------------------------------------------------------
\* Row by row

\* What the pairing works with
PairState == [lots : [Symbols -> Seq(Lot)], trips : Seq(Trip)]

Flows(Bs, Ss) == \A s \in Symbols : Flow(s, Bs[s], Ss[s])

\* The rows up to n are paired: of each symbol the open lots, and all trips.
Paired(acc, Bs, Ss, n) ==
    /\ acc \in PairState
    /\ \A s \in Symbols : Open(acc.lots[s], s, Bs[s], Ss[s][n], n)
    /\ TripsUpTo(acc.trips, n)

\* The row is paired, and nothing else of the state is changed.
RowPaired(next, acc, i, t) ==
    /\ t \in TradeRow /\ t.symbol \in Symbols /\ acc.lots[t.symbol] \in Seq(Lot)
    /\ acc.trips \in Seq(Trip)
    /\ t.side = "buy" =>
         /\ next.lots = [acc.lots EXCEPT ![t.symbol] =
                           Append(acc.lots[t.symbol], [row |-> i, qty |-> t.qty])]
         /\ next.trips = acc.trips
    /\ t.side # "buy" =>
         \E after : /\ after = CloseLots(i, t.qty, acc.lots[t.symbol], acc.trips)
                    /\ after \in CloseState
                    /\ next.lots = [acc.lots EXCEPT ![t.symbol] = after.lots]
                    /\ next.trips = after.trips
    /\ next \in PairState

\* What a row changes
LEMMA PairFields ==
    ASSUME trades \in Seq(TradeRow), NEW acc \in PairState, NEW i \in Rows
    PROVE  RowPaired(Pair(acc, i), acc, i, trades[i])
  <1> DEFINE t == trades[i]
  <1>1. /\ t \in TradeRow /\ i \in Nat
    BY DEF Rows
  <1>2. t.symbol \in Symbols /\ t.qty \in Nat
    BY <1>1 DEF TradeRow
  <1>3. /\ acc.lots \in [Symbols -> Seq(Lot)] /\ acc.trips \in Seq(Trip)
        /\ acc = [lots |-> acc.lots, trips |-> acc.trips]
    BY DEF PairState
  <1>4. acc.lots[t.symbol] \in Seq(Lot)
    BY <1>2, <1>3
  <1> DEFINE lots  == acc.lots[t.symbol]
             more  == Append(lots, [row |-> i, qty |-> t.qty])
             after == CloseLots(i, t.qty, lots, acc.trips)
  <1>5. more \in Seq(Lot)
    <2>1. [row |-> i, qty |-> t.qty] \in Lot
      BY <1>1, <1>2 DEF Lot
    <2>2. QED
      BY <1>4, <2>1
  <1>6. after \in CloseState
    <2> HIDE DEF lots
    <2>1. lots \in Seq(Lot) /\ t.qty \in Int
      BY <1>2, <1>4 DEF lots
    <2>2. QED
      BY <1>1, <1>3, <2>1, SaleLeaves
  <1>7. after.lots \in Seq(Lot) /\ after.trips \in Seq(Trip)
    BY <1>6 DEF CloseState
  <1>8. Pair(acc, i) = IF t.side = "buy" THEN [acc EXCEPT !.lots[t.symbol] = more]
                       ELSE [lots |-> [acc.lots EXCEPT ![t.symbol] = after.lots],
                             trips |-> after.trips]
    BY DEF Pair
  <1> HIDE DEF more, after
  <1>9. [acc EXCEPT !.lots[t.symbol] = more]
          = [lots |-> [acc.lots EXCEPT ![t.symbol] = more], trips |-> acc.trips]
    <2> DEFINE open == acc.lots
               ends == acc.trips
    <2>1. acc = [lots |-> open, trips |-> ends]
      BY <1>3
    <2> HIDE DEF open, ends
    <2>2. [acc EXCEPT !.lots[t.symbol] = more] = [lots |-> [open EXCEPT ![t.symbol] = more],
                                                  trips |-> ends]
      BY <2>1
    <2>3. QED
      BY <2>2 DEF open, ends
  <1>10. Pair(acc, i) \in PairState
    <2>1. /\ [acc.lots EXCEPT ![t.symbol] = more] \in [Symbols -> Seq(Lot)]
          /\ [acc.lots EXCEPT ![t.symbol] = after.lots] \in [Symbols -> Seq(Lot)]
      BY <1>2, <1>3, <1>5, <1>7
    <2> DEFINE bought == [acc.lots EXCEPT ![t.symbol] = more]
               sold   == [acc.lots EXCEPT ![t.symbol] = after.lots]
    <2>2. Pair(acc, i) = [lots |-> bought, trips |-> acc.trips]
            \/ Pair(acc, i) = [lots |-> sold, trips |-> after.trips]
      BY <1>8, <1>9
    <2>3. bought \in [Symbols -> Seq(Lot)] /\ sold \in [Symbols -> Seq(Lot)]
      BY <2>1
    <2> HIDE DEF bought, sold
    <2>4. QED
      BY <1>3, <1>7, <2>2, <2>3 DEF PairState
  <1>11. t.side = "buy" =>
                /\ Pair(acc, i).lots = [acc.lots EXCEPT ![t.symbol] = more]
                /\ Pair(acc, i).trips = acc.trips
    BY <1>8, <1>9
  <1>12. t.side # "buy" => /\ Pair(acc, i).lots = [acc.lots EXCEPT ![t.symbol] = after.lots]
                           /\ Pair(acc, i).trips = after.trips
    BY <1>8
  <1>13. t.side # "buy" =>
            \E z : /\ z = CloseLots(i, t.qty, acc.lots[t.symbol], acc.trips)
                   /\ z \in CloseState
                   /\ Pair(acc, i).lots = [acc.lots EXCEPT ![t.symbol] = z.lots]
                   /\ Pair(acc, i).trips = z.trips
    BY <1>6, <1>12 DEF after
  <1>14. QED
    BY <1>1, <1>2, <1>3, <1>4, <1>10, <1>11, <1>13 DEF more, RowPaired

\* A row that sells nothing ends no trip.
LEMMA NoTrip ==
    ASSUME NEW trips, NEW n \in Rows, Len(trades) \in Nat, ~IsSale(trades[n]),
           TripsUpTo(trips, n - 1)
    PROVE  TripsUpTo(trips, n)
  <1>1. \A k \in 1..n : k \in 1..(n - 1) \/ k = n
    BY DEF Rows
  <1>2. \A k \in 1..(n - 1) : k \in 1..n
    BY DEF Rows
  <1>3. \A i \in Rows : ~Meet(i, n)
    BY DEF Meet
  <1>4. TripsTrue(trips, n)
    BY <1>2 DEF TripsUpTo, TripsTrue
  <1>5. QED
    BY <1>1, <1>3, <1>4 DEF TripsUpTo

\* The lots of a symbol that the row is not about
LEMMA OpenStill ==
    ASSUME NEW lots, NEW s, NEW B, NEW S, Flow(s, B, S), Len(trades) \in Nat,
           NEW n \in Rows, ~BuyOf(s, n), ~SaleOf(s, n), Open(lots, s, B, S[n-1], n - 1)
    PROVE  Open(lots, s, B, S[n], n)
  <1>1. n - 1 \in 0..Len(trades)
    BY DEF Rows
  <1>2. S[n] = S[n-1]
    BY <1>1 DEF Flow
  <1>3. QED
    BY <1>2, OpenOther

\* A row that is not filled
LEMMA PairSkip ==
    ASSUME NEW Bs, NEW Ss, Flows(Bs, Ss), trades \in Seq(TradeRow), NEW n \in Rows,
           trades[n].status # "filled", NEW acc, Paired(acc, Bs, Ss, n - 1)
    PROVE  Paired(acc, Bs, Ss, n)
  <1>1. ~IsBuy(trades[n]) /\ ~IsSale(trades[n]) /\ Len(trades) \in Nat
    BY DEF IsBuy, IsSale
  <1>2. TripsUpTo(acc.trips, n)
    BY <1>1, NoTrip DEF Paired
  <1>3. ASSUME NEW s \in Symbols PROVE Open(acc.lots[s], s, Bs[s], Ss[s][n], n)
    <2>1. Flow(s, Bs[s], Ss[s]) /\ ~BuyOf(s, n) /\ ~SaleOf(s, n)
      BY <1>1 DEF Flows, BuyOf, SaleOf
    <2>2. Open(acc.lots[s], s, Bs[s], Ss[s][n-1], n - 1)
      BY DEF Paired
    <2>3. QED
      BY <1>1, <2>1, <2>2, OpenStill
  <1>4. QED
    BY <1>2, <1>3 DEF Paired

\* A row that is
LEMMA PairRow ==
    ASSUME NEW Bs, NEW Ss, Flows(Bs, Ss), trades \in Seq(TradeRow), NEW n \in Rows,
           trades[n].status = "filled", NEW acc, Paired(acc, Bs, Ss, n - 1)
    PROVE  Paired(Pair(acc, n), Bs, Ss, n)
  <1> DEFINE t    == trades[n]
             next == Pair(acc, n)
             lots == acc.lots[t.symbol]
  <1>1. /\ acc \in PairState /\ TripsUpTo(acc.trips, n - 1)
        /\ \A s \in Symbols : Open(acc.lots[s], s, Bs[s], Ss[s][n-1], n - 1)
    BY DEF Paired
  <1>2. /\ t \in TradeRow /\ t.symbol \in Symbols /\ acc.lots[t.symbol] \in Seq(Lot)
        /\ acc.trips \in Seq(Trip)
        /\ t.side = "buy" =>
             /\ next.lots = [acc.lots EXCEPT ![t.symbol] =
                               Append(acc.lots[t.symbol], [row |-> n, qty |-> t.qty])]
             /\ next.trips = acc.trips
        /\ t.side # "buy" =>
             \E after : /\ after = CloseLots(n, t.qty, acc.lots[t.symbol], acc.trips)
                        /\ after \in CloseState
                        /\ next.lots = [acc.lots EXCEPT ![t.symbol] = after.lots]
                        /\ next.trips = after.trips
        /\ next \in PairState
    <2>1. RowPaired(next, acc, n, t)
      BY <1>1, PairFields
    <2> HIDE DEF next, t
    <2>2. QED
      BY <2>1 DEF RowPaired
  <1> HIDE DEF next
  <1>3. acc.lots \in [Symbols -> Seq(Lot)] /\ Len(trades) \in Nat /\ n - 1 \in 0..Len(trades)
    BY <1>1 DEF PairState, Rows
  <1>4. t.side \in {"buy", "sell"}
    BY <1>2 DEF TradeRow, Sides
  <1>5. ASSUME NEW s \in Symbols, s # t.symbol, next.lots[s] = acc.lots[s]
        PROVE  Open(next.lots[s], s, Bs[s], Ss[s][n], n)
    <2>1. Flow(s, Bs[s], Ss[s]) /\ ~BuyOf(s, n) /\ ~SaleOf(s, n)
      BY <1>5 DEF Flows, BuyOf, SaleOf
    <2>2. Open(acc.lots[s], s, Bs[s], Ss[s][n-1], n - 1)
      BY <1>1
    <2>3. QED
      BY <1>3, <1>5, <2>1, <2>2, OpenStill
  <1>6. Flow(t.symbol, Bs[t.symbol], Ss[t.symbol]) /\ Open(lots, t.symbol, Bs[t.symbol], Ss[t.symbol][n-1], n - 1)
    BY <1>1, <1>2 DEF Flows
  <1>7. CASE t.side = "buy"
    <2> DEFINE more == Append(lots, [row |-> n, qty |-> t.qty])
    <2>1. IsBuy(t) /\ ~IsSale(t)
      BY <1>7 DEF IsBuy, IsSale
    <2>2. TripsUpTo(next.trips, n)
      BY <1>1, <1>2, <1>3, <1>7, <2>1, NoTrip
    <2>3. next.lots = [acc.lots EXCEPT ![t.symbol] = more]
      BY <1>2, <1>7
    <2> HIDE DEF more
    <2>4. next.lots[t.symbol] = more /\ \A s \in Symbols : s # t.symbol => next.lots[s] = acc.lots[s]
      BY <1>2, <1>3, <2>3
    <2>5. BuyOf(t.symbol, n) /\ ~SaleOf(t.symbol, n)
      BY <2>1 DEF BuyOf, SaleOf
    <2>6. Ss[t.symbol][n] = Ss[t.symbol][n-1] /\ Ss[t.symbol][n-1] \in Int
      BY <1>3, <1>6, <2>5 DEF Flow
    <2>7. Open(more, t.symbol, Bs[t.symbol], Ss[t.symbol][n], n)
      <3>1. more = Append(lots, [row |-> n, qty |-> trades[n].qty])
        BY DEF more
      <3> DEFINE s == t.symbol
                 B == Bs[s]
                 S == Ss[s]
      <3>2. /\ lots \in Seq(Lot) /\ Flow(s, B, S) /\ BuyOf(s, n) /\ S[n-1] \in Int
            /\ Open(lots, s, B, S[n-1], n - 1)
        BY <1>2, <1>6, <2>5, <2>6
      <3> HIDE DEF s, B, S, lots
      <3>3. Open(more, s, B, S[n-1], n)
        BY <1>3, <3>1, <3>2, OpenBuy
      <3>4. QED
        BY <2>6, <3>3 DEF s, B, S
    <2>8. ASSUME NEW s \in Symbols PROVE Open(next.lots[s], s, Bs[s], Ss[s][n], n)
      BY <1>5, <2>4, <2>7
    <2>9. QED
      BY <1>2, <2>2, <2>8 DEF Paired, next
  <1>8. CASE t.side = "sell"
    <2>1. PICK after : /\ after = CloseLots(n, t.qty, acc.lots[t.symbol], acc.trips)
                       /\ after \in CloseState
                       /\ next.lots = [acc.lots EXCEPT ![t.symbol] = after.lots]
                       /\ next.trips = after.trips
      BY <1>2, <1>8
    <2>2. SaleOf(t.symbol, n)
      BY <1>8 DEF SaleOf, IsSale
    <2>3. Open(after.lots, t.symbol, Bs[t.symbol], Ss[t.symbol][n], n) /\ TripsUpTo(after.trips, n)
      <3> DEFINE s  == t.symbol
                 B  == Bs[s]
                 S  == Ss[s]
                 ts == acc.trips
      <3>1. /\ lots \in Seq(Lot) /\ Flow(s, B, S) /\ SaleOf(s, n) /\ ts \in Seq(Trip)
            /\ Open(lots, s, B, S[n-1], n - 1) /\ TripsUpTo(ts, n - 1)
            /\ after = CloseLots(n, trades[n].qty, lots, ts)
        BY <1>1, <1>2, <1>6, <2>1, <2>2
      <3> HIDE DEF s, B, S, lots, ts
      <3>2. Open(after.lots, s, B, S[n], n) /\ TripsUpTo(after.trips, n)
        BY <1>3, <3>1, SaleDone
      <3>3. QED
        BY <3>2 DEF s, B, S
    <2>4. next.lots[t.symbol] = after.lots /\ \A s \in Symbols : s # t.symbol => next.lots[s] = acc.lots[s]
      BY <1>2, <1>3, <2>1
    <2>5. ASSUME NEW s \in Symbols PROVE Open(next.lots[s], s, Bs[s], Ss[s][n], n)
      BY <1>5, <2>3, <2>4
    <2>6. QED
      BY <1>2, <2>1, <2>3, <2>5 DEF Paired, next
  <1>9. QED
    BY <1>4, <1>7, <1>8

\* A row keeps the types.
LEMMA PairTyped ==
    ASSUME trades \in Seq(TradeRow), NEW acc \in PairState, NEW i \in Rows
    PROVE  Pair(acc, i) \in PairState
  BY PairFields DEF RowPaired

PairLoop(rows) ==
    CHOOSE u : u = [n \in 0..Len(trades) |->
                      IF n = 0 THEN [lots |-> [s \in Symbols |-> <<>>], trips |-> <<>>]
                      ELSE IF n \in rows THEN Pair(u[n-1], n) ELSE u[n-1]]

\* The loop over the rows runs.
LEMMA PairRuns ==
    ASSUME trades \in Seq(TradeRow), NEW rows
    PROVE  /\ Trips(rows) = PairLoop(rows)[Len(trades)].trips
           /\ PairLoop(rows)[0] = [lots |-> [s \in Symbols |-> <<>>], trips |-> <<>>]
           /\ \A n \in Rows : PairLoop(rows)[n] = IF n \in rows THEN Pair(PairLoop(rows)[n-1], n)
                                                  ELSE PairLoop(rows)[n-1]
  <1> DEFINE N    == Len(trades)
             base == [lots |-> [s \in Symbols |-> <<>>], trips |-> <<>>]
             step == [n \in 1..N |-> [acc \in PairState |-> IF n \in rows THEN Pair(acc, n) ELSE acc]]
             w    == PairLoop(rows)
  <1>1. N \in Nat
    OBVIOUS
  <1>2. base \in PairState
    <2>1. <<>> \in Seq(Lot) /\ <<>> \in Seq(Trip)
      OBVIOUS
    <2>2. [s \in Symbols |-> <<>>] \in [Symbols -> Seq(Lot)]
      BY <2>1
    <2>3. QED
      BY <2>1, <2>2 DEF PairState
  <1>3. step \in [1..N -> [PairState -> PairState]]
    BY PairTyped DEF Rows
  <1>4. PICK u \in [0..N -> PairState] : u[0] = base /\ \A n \in 1..N : u[n] = step[n][u[n-1]]
    <2>1. IsLoop(N, PairState, base, step)
      BY <1>1, <1>2, <1>3 DEF IsLoop
    <2> HIDE DEF N, base, step
    <2>2. QED
      BY <2>1, LoopRuns
  <1>5. ASSUME NEW n \in 1..N PROVE u[n] = IF n \in rows THEN Pair(u[n-1], n) ELSE u[n-1]
    <2>1. n - 1 \in 0..N
      BY <1>1
    <2>2. u[n-1] \in PairState
      BY <2>1
    <2>3. QED
      BY <1>4, <2>2
  <1>6. u = [n \in 0..N |-> IF n = 0 THEN base
                            ELSE IF n \in rows THEN Pair(u[n-1], n) ELSE u[n-1]]
    <2>1. \A n \in 0..N : n = 0 \/ (n # 0 /\ n \in 1..N)
      BY <1>1
    <2> HIDE DEF N, base
    <2>2. QED
      BY <1>4, <1>5, <2>1
  <1>7. w = [n \in 0..N |-> IF n = 0 THEN base
                            ELSE IF n \in rows THEN Pair(w[n-1], n) ELSE w[n-1]]
    BY <1>6 DEF PairLoop
  <1>8. Trips(rows) = w[N].trips
    BY DEF Trips, PairLoop
  <1> HIDE DEF w
  <1>9. w[0] = base /\ \A n \in 1..N : w[n] = IF n \in rows THEN Pair(w[n-1], n) ELSE w[n-1]
    <2>1. 0 \in 0..N /\ \A n \in 1..N : n \in 0..N /\ n # 0
      BY <1>1
    <2> HIDE DEF N, base
    <2>2. QED
      BY <1>7, <2>1
  <1>10. QED
    BY <1>8, <1>9 DEF w, Rows

\* When the rows that count are the filled ones, what is listed is all that every sale
\* sold of every buy.
LEMMA TripsPaired ==
    ASSUME trades \in Seq(TradeRow), NEW Bs, NEW Ss, Flows(Bs, Ss), NEW rows,
           \A n \in Rows : n \in rows <=> trades[n].status = "filled"
    PROVE  Trips(rows) \in Seq(Trip) /\ TripsUpTo(Trips(rows), Len(trades))
  <1> DEFINE N == Len(trades)
             u == PairLoop(rows)
             P == {n \in 0..N : Paired(u[n], Bs, Ss, n)}
  <1>1. N \in Nat
    OBVIOUS
  <1>2. /\ Trips(rows) = u[N].trips
        /\ u[0] = [lots |-> [s \in Symbols |-> <<>>], trips |-> <<>>]
        /\ \A n \in Rows : u[n] = IF n \in rows THEN Pair(u[n-1], n) ELSE u[n-1]
    BY PairRuns
  <1> HIDE DEF u
  <1>3. 0 \in P
    <2>1. <<>> \in Seq(Lot) /\ <<>> \in Seq(Trip) /\ Len(<<>>) = 0
      OBVIOUS
    <2>2. u[0].trips = <<>> /\ u[0].lots = [s \in Symbols |-> <<>>] /\ u[0] \in PairState
      <3>1. [s \in Symbols |-> <<>>] \in [Symbols -> Seq(Lot)]
        BY <2>1
      <3>2. QED
        BY <1>2, <2>1, <3>1 DEF PairState
    <2>3. ASSUME NEW s \in Symbols PROVE Open(u[0].lots[s], s, Bs[s], Ss[s][0], 0)
      <3>1. Bs[s][0] = 0 /\ Ss[s][0] = 0
        BY DEF Flows, Flow
      <3>2. u[0].lots[s] = <<>>
        BY <2>2
      <3>3. QED
        BY <2>1, <3>1, <3>2 DEF Open
    <2>4. TripsUpTo(u[0].trips, 0)
      BY <2>1, <2>2 DEF TripsUpTo, TripsTrue, InOrder
    <2>5. QED
      BY <1>1, <2>2, <2>3, <2>4 DEF Paired
  <1>4. ASSUME NEW n \in 1..N, n - 1 \in P PROVE n \in P
    <2> DEFINE m == n - 1
    <2>1. m \in P /\ n \in Rows /\ n \in 0..N
      BY <1>1, <1>4 DEF Rows
    <2>2. Paired(u[n-1], Bs, Ss, n - 1)
      <3> HIDE DEF m
      <3>1. Paired(u[m], Bs, Ss, m)
        BY <2>1
      <3>2. QED
        BY <3>1 DEF m
    <2>3. Paired(u[n], Bs, Ss, n)
      <3>1. CASE trades[n].status = "filled"
        <4>1. u[n] = Pair(u[n-1], n)
          BY <1>2, <2>1, <3>1
        <4>2. QED
          BY <2>1, <2>2, <3>1, <4>1, PairRow
      <3>2. CASE trades[n].status # "filled"
        <4>1. u[n] = u[n-1]
          BY <1>2, <2>1, <3>2
        <4>2. QED
          BY <2>1, <2>2, <3>2, <4>1, PairSkip
      <3>3. QED
        BY <3>1, <3>2
    <2>4. QED
      BY <2>1, <2>3
  <1>5. N \in P
    <2>1. \A n \in 1..N : n - 1 \in P => n \in P
      BY <1>4
    <2> HIDE DEF P
    <2>2. \A n \in 0..N : n \in P
      BY <1>1, <1>3, <2>1, EveryRound
    <2>3. QED
      BY <1>1, <2>2
  <1>6. QED
    BY <1>2, <1>5 DEF Paired, PairState

-----------------------------------------------------------------------------
\* What the reports rely on
\*
\* Every filled row has a quantity and a fill date, of no symbol more was ever sold than
\* bought before, and a job is completed when its run is: then the curve has a day.

RowsCounted ==
    \A i \in 1..Len(trades) :
        trades[i].status = "filled" => trades[i].qty \in Nat \ {0} /\ trades[i].fill > 0

First(n) == SubSeq(trades, 1, n)

Covered ==
    \A s \in Symbols, n \in 0..Len(trades) :
        Book(First(n), SoldOf(s)) \leq Book(First(n), BoughtOf(s))

CurveInv ==
    /\ curve \in Seq(Int)
    /\ phase = "done" => curve # <<>>
    /\ job = "completed" => phase = "done"

ReportInv ==
    /\ OfLots(orders) /\ OfLots(waiting)
    /\ RowsCounted
    /\ Covered
    /\ CurveInv

\* At most a row more
NextRow ==
    \/ trades' = trades
    \/ \E row \in TradeRow : /\ trades' = Append(trades, row)
                             /\ row.status = "filled" => row.qty \in Lots /\ row.fill \in Days

\* The orders stay orders of lots.
LEMMA LotsNext ==
    ASSUME BacktestInv, SmaInv, OfLots(orders), OfLots(waiting), [Next]_backtestVars
    PROVE  OfLots(orders') /\ OfLots(waiting')
  <1>1. ASSUME NEW bars, OpenDay(bars) PROVE OfLots(orders') /\ OfLots(waiting')
    BY <1>1 DEF OpenDay, OfLots
  <1>2. CASE Fill
    <2>1. phase = "filling" /\ orders # <<>> /\ orders' = Tail(orders)
      BY <1>2 DEF Fill, Postpone, FillBuy, FillSell
    <2>2. waiting' = waiting \/ waiting' = Append(waiting, Head(orders))
      BY <1>2 DEF Fill, Postpone, FillBuy, FillSell
    <2>3. QED
      BY <2>1, <2>2, LotsLeft
  <1>3. CASE Signal
    <2>1. orders' = orders
      BY <1>3 DEF Signal
    <2>2. CASE Stay
      BY <2>1, <2>2 DEF Stay
    <2>3. ASSUME NEW intent \in Allowed(NextSymbol), todo # {}, Ask(intent) PROVE OfLots(waiting')
      BY <2>3, LotsAsked
    <2>4. QED
      BY <1>3, <2>1, <2>2, <2>3 DEF Signal
  <1>4. CASE CloseBars \/ CloseDay \/ Fail \/ Refuse \/ StoreJob \/ UNCHANGED backtestVars
    <2>1. orders' = orders /\ waiting' = waiting
      BY <1>4 DEF CloseBars, CloseDay, Fail, Refuse, StoreJob, backtestVars
    <2>2. QED
      BY <2>1
  <1>5. QED
    BY <1>1, <1>2, <1>3, <1>4 DEF Next

\* A step adds a row at most, and one that is filled is of a lot and of a day.
LEMMA RowNext ==
    ASSUME BacktestInv, OfLots(orders), OfLots(waiting), [Next]_backtestVars
    PROVE  NextRow
  <1>1. CASE Fill /\ Postpone
    BY <1>1 DEF Postpone, NextRow
  <1>2. CASE Fill /\ ~Postpone
    <2> DEFINE order == Head(orders)
    <2>1. phase = "filling" /\ orders # <<>>
      BY <1>2 DEF Fill, FillBuy, FillSell
    <2>2. order.qty \in Lots /\ day \in Days
      BY <2>1, LotsLeft, HeadOrder
    <2>3. ASSUME NEW status \in Statuses \ {"cancelled_eob"}, NEW price \in Int, NEW cost \in Int,
                 trades' = Append(trades, Row(order, status, price, cost))
          PROVE  NextRow
      <3> DEFINE row == Row(order, status, price, cost)
      <3>1. row \in TradeRow
        BY <2>1, RowOfHead
      <3>2. row.qty \in Lots /\ row.fill \in Days
        BY <2>2 DEF Row
      <3> HIDE DEF row
      <3>3. trades' = Append(trades, row)
        BY <2>3 DEF row
      <3>4. QED
        BY <3>1, <3>2, <3>3 DEF NextRow
    <2>4. ASSUME NEW status \in Statuses \ {"cancelled_eob"}, trades' = Refused(order, status)
          PROVE  NextRow
      BY <2>3, <2>4 DEF Refused
    <2>5. CASE FillBuy
      <3> DEFINE open  == bar[order.symbol].o
                 close == last[order.symbol]
                 price == FillPrice("buy", open, close)
                 cost  == Cost("buy", price * order.qty)
      <3>1. bar[order.symbol] # NoBar
        BY <2>5 DEF FillBuy
      <3>2. price \in Int /\ cost \in Int
        BY <2>1, <3>1, FillIsInt
      <3>3. /\ Refusal("buy", open, close) \in Statuses \ {"cancelled_eob"}
            /\ "rejected_insufficient_cash" \in Statuses \ {"cancelled_eob"}
            /\ "filled" \in Statuses \ {"cancelled_eob"}
        BY RefusalIsStatus DEF Statuses
      <3>4. \/ trades' = Refused(order, Refusal("buy", open, close))
            \/ trades' = Refused(order, "rejected_insufficient_cash")
            \/ trades' = Append(trades, Row(order, "filled", price, cost))
        BY <2>5 DEF FillBuy
      <3> HIDE DEF price, cost, order
      <3>5. QED
        BY <2>3, <2>4, <3>2, <3>3, <3>4
    <2>6. CASE FillSell
      <3> DEFINE open  == bar[order.symbol].o
                 close == last[order.symbol]
                 price == FillPrice("sell", open, close)
                 cost  == Cost("sell", price * order.qty)
      <3>1. bar[order.symbol] # NoBar
        BY <2>6 DEF FillSell
      <3>2. price \in Int /\ cost \in Int
        BY <2>1, <3>1, FillIsInt
      <3>3. /\ Refusal("sell", open, close) \in Statuses \ {"cancelled_eob"}
            /\ "rejected_no_position" \in Statuses \ {"cancelled_eob"}
            /\ "filled" \in Statuses \ {"cancelled_eob"}
        BY RefusalIsStatus DEF Statuses
      <3>4. \/ trades' = Refused(order, Refusal("sell", open, close))
            \/ trades' = Refused(order, "rejected_no_position")
            \/ trades' = Append(trades, Row(order, "filled", price, cost))
        BY <2>6 DEF FillSell
      <3> HIDE DEF price, cost, order
      <3>5. QED
        BY <2>3, <2>4, <3>2, <3>3, <3>4
    <2>7. QED
      BY <1>2, <2>5, <2>6 DEF Fill
  <1>3. CASE Signal
    <2>1. CASE Stay
      BY <2>1 DEF Stay, NextRow
    <2>2. ASSUME NEW intent \in Allowed(NextSymbol), todo # {}, Ask(intent) PROVE NextRow
      <3> DEFINE order == [symbol |-> NextSymbol, side |-> intent.side, qty |-> intent.qty,
                           signal |-> day]
                 row   == Row(order, "cancelled_eob", 0, 0)
      <3>1. NextSymbol \in Symbols
        BY <2>2, NextIsToDo DEF BacktestInv, BacktestTypeOK
      <3>2. intent.side \in Sides /\ intent.qty \in Nat
        BY <3>1, <2>2, AllowedIntent DEF BacktestInv, BacktestTypeOK
      <3>3. day \in Days
        BY <2>2 DEF Ask, BacktestInv, DaysInTurn
      <3>4. row \in TradeRow /\ row.status # "filled"
        BY <3>1, <3>2, <3>3, BacktestAssumption DEF Row, TradeRow, Statuses
      <3>5. trades' = trades \/ trades' = Append(trades, row)
        BY <2>2 DEF Ask, Emit, Refused
      <3> HIDE DEF row
      <3>6. QED
        BY <3>4, <3>5 DEF NextRow
    <2>3. QED
      BY <1>3, <2>1, <2>2 DEF Signal
  <1>4. CASE (\E bars : OpenDay(bars)) \/ CloseBars \/ CloseDay \/ Fail \/ Refuse \/ StoreJob
               \/ UNCHANGED backtestVars
    BY <1>4 DEF OpenDay, CloseBars, CloseDay, Fail, Refuse, StoreJob, backtestVars, NextRow
  <1>5. QED
    BY <1>1, <1>2, <1>3, <1>4 DEF Next

\* The first rows stay when one is added.
LEMMA FirstRows ==
    ASSUME trades \in Seq(TradeRow), NEW row \in TradeRow, trades' = Append(trades, row)
    PROVE  /\ Len(trades') = Len(trades) + 1 /\ Len(trades) \in Nat
           /\ \A n \in 0..Len(trades) : SubSeq(trades', 1, n) = SubSeq(trades, 1, n)
           /\ SubSeq(trades', 1, Len(trades) + 1) = trades'
           /\ trades'[Len(trades) + 1] = row
           /\ \A i \in 1..Len(trades) : trades'[i] = trades[i]
  <1> DEFINE N == Len(trades)
  <1>1. /\ N \in Nat /\ Len(trades') = N + 1 /\ trades' \in Seq(TradeRow)
        /\ trades'[N + 1] = row
        /\ \A i \in 1..N : trades'[i] = trades[i]
    OBVIOUS
  <1>2. ASSUME NEW n \in 0..N PROVE SubSeq(trades', 1, n) = SubSeq(trades, 1, n)
    <2>1. /\ SubSeq(trades', 1, n) \in Seq(TradeRow) /\ SubSeq(trades, 1, n) \in Seq(TradeRow)
          /\ Len(SubSeq(trades', 1, n)) = n /\ Len(SubSeq(trades, 1, n)) = n
          /\ \A i \in 1..n : /\ SubSeq(trades', 1, n)[i] = trades'[i]
                             /\ SubSeq(trades, 1, n)[i] = trades[i]
                             /\ i \in 1..N
      BY <1>1
    <2> DEFINE a == SubSeq(trades', 1, n)
               b == SubSeq(trades, 1, n)
    <2>2. a \in Seq(TradeRow) /\ b \in Seq(TradeRow) /\ Len(a) = Len(b)
          /\ \A i \in 1..Len(a) : a[i] = b[i]
      BY <1>1, <2>1
    <2> HIDE DEF a, b
    <2>3. a = b
      BY <2>2, SeqEqual
    <2>4. QED
      BY <2>3 DEF a, b
  <1>3. SubSeq(trades', 1, N + 1) = trades'
    <2> DEFINE a == SubSeq(trades', 1, N + 1)
    <2>1. a \in Seq(TradeRow) /\ Len(a) = Len(trades') /\ \A i \in 1..Len(a) : a[i] = trades'[i]
      BY <1>1
    <2> HIDE DEF a
    <2>2. a = trades'
      BY <1>1, <2>1, SeqEqual
    <2>3. QED
      BY <2>2 DEF a
  <1>4. QED
    BY <1>1, <1>2, <1>3

\* Filled rows have a quantity and a date.
LEMMA CountedNext ==
    ASSUME trades \in Seq(TradeRow), RowsCounted, NextRow
    PROVE  RowsCounted'
  <1>1. CASE trades' = trades
    BY <1>1 DEF RowsCounted
  <1>2. ASSUME NEW row \in TradeRow, trades' = Append(trades, row),
               row.status = "filled" => row.qty \in Lots /\ row.fill \in Days
        PROVE  RowsCounted'
    <2>1. row.status = "filled" => row.qty \in Nat \ {0} /\ row.fill > 0
      <3>1. Lots \subseteq Nat \ {0}
        BY BacktestAssumption DEF Lots
      <3>2. \A d \in Days : d > 0
        BY BacktestAssumption DEF Days
      <3>3. QED
        BY <1>2, <3>1, <3>2
    <2>2. /\ Len(trades') = Len(trades) + 1 /\ Len(trades) \in Nat
          /\ trades'[Len(trades) + 1] = row
          /\ \A i \in 1..Len(trades) : trades'[i] = trades[i]
      BY <1>2, FirstRows
    <2>3. \A i \in 1..Len(trades') : i \in 1..Len(trades) \/ i = Len(trades) + 1
      BY <2>2
    <2>4. QED
      BY <2>1, <2>2, <2>3 DEF RowsCounted
  <1>3. QED
    BY <1>1, <1>2 DEF NextRow

CoveredAtLast ==
    \A s \in Symbols : Book(trades, SoldOf(s)) \leq Book(trades, BoughtOf(s))

\* All rows were sold from what was bought: the position says so.
LEMMA CoveredNow == BacktestInv /\ BookedInv => CoveredAtLast
  <1> SUFFICES ASSUME BacktestInv, BookedInv, NEW s \in Symbols
               PROVE  Book(trades, SoldOf(s)) \leq Book(trades, BoughtOf(s))
    BY DEF CoveredAtLast
  <1>1. /\ held[s] \in Nat /\ held[s] = Book(trades, BoughtOf(s)) - Book(trades, SoldOf(s))
        /\ Book(trades, BoughtOf(s)) \in Int /\ Book(trades, SoldOf(s)) \in Int
    BY BooksAreInt DEF BacktestInv, BacktestTypeOK, BookedInv
  <1> DEFINE bought == Book(trades, BoughtOf(s))
             sold   == Book(trades, SoldOf(s))
  <1> HIDE DEF bought, sold
  <1>2. held[s] \in Nat /\ held[s] = bought - sold /\ bought \in Int /\ sold \in Int
    BY <1>1 DEF bought, sold
  <1>3. sold \leq bought
    BY <1>2
  <1>4. QED
    BY <1>3 DEF bought, sold

\* So it was after each row.
LEMMA CoveredNext ==
    ASSUME BacktestInv, Covered, NextRow, CoveredAtLast'
    PROVE  Covered'
  <1>1. CASE trades' = trades
    BY <1>1 DEF Covered, First
  <1>2. ASSUME NEW row \in TradeRow, trades' = Append(trades, row) PROVE Covered'
    <2>1. trades \in Seq(TradeRow)
      BY DEF BacktestInv, ListsOK
    <2>2. /\ Len(trades') = Len(trades) + 1 /\ Len(trades) \in Nat
          /\ \A n \in 0..Len(trades) : SubSeq(trades', 1, n) = SubSeq(trades, 1, n)
          /\ SubSeq(trades', 1, Len(trades) + 1) = trades'
      BY <1>2, <2>1, FirstRows
    <2>3. \A s \in Symbols : Book(trades', SoldOf(s)) \leq Book(trades', BoughtOf(s))
      BY DEF CoveredAtLast
    <2>4. ASSUME NEW s \in Symbols, NEW n \in 0..Len(trades')
          PROVE  Book(SubSeq(trades', 1, n), SoldOf(s)) \leq Book(SubSeq(trades', 1, n), BoughtOf(s))
      <3>1. n \in 0..Len(trades) \/ n = Len(trades) + 1
        BY <2>2
      <3>2. CASE n \in 0..Len(trades)
        BY <2>2, <3>2 DEF Covered, First
      <3>3. CASE n = Len(trades) + 1
        BY <2>2, <2>3, <3>3
      <3>4. QED
        BY <3>1, <3>2, <3>3
    <2>5. QED
      BY <2>4 DEF Covered, First
  <1>3. QED
    BY <1>1, <1>2 DEF NextRow

\* The curve is of integers, and has a day when the run is done.
LEMMA CurveNext ==
    ASSUME BacktestInv, CurveInv, [Next]_backtestVars
    PROVE  CurveInv'
  <1>1. CASE CloseDay
    <2>1. Equity \in Int
      BY EquityIsInt DEF BacktestInv
    <2> DEFINE e == Equity
    <2>2. e \in Int /\ curve' = Append(curve, e) /\ job' = job /\ phase \notin {"done"}
      BY <1>1, <2>1 DEF CloseDay
    <2> HIDE DEF e
    <2>3. curve' \in Seq(Int) /\ Len(curve') = Len(curve) + 1 /\ Len(curve) \in Nat
      BY <2>2 DEF CurveInv
    <2>4. curve' # <<>> /\ job' # "completed"
      BY <2>2, <2>3 DEF CurveInv
    <2>5. QED
      BY <2>3, <2>4 DEF CurveInv
  <1>2. CASE StoreJob
    BY <1>2 DEF StoreJob, CurveInv
  <1>3. CASE UNCHANGED backtestVars
    BY <1>3 DEF CurveInv, backtestVars
  <1>4. CASE (\E bars : OpenDay(bars)) \/ Fill \/ CloseBars \/ Signal \/ Fail \/ Refuse
    <2>1. /\ curve' = curve /\ job' = job
          /\ phase' # "done" /\ (phase = "done" => FALSE)
      <3>1. phase \in {"idle", "filling", "signalling"}
        BY <1>4 DEF OpenDay, Fill, Postpone, FillBuy, FillSell, CloseBars, Signal, Stay, Ask,
                    Fail, Refuse
      <3>2. curve' = curve /\ job' = job
        BY <1>4 DEF OpenDay, Fill, CloseBars, Signal, Fail, Refuse
      <3>3. phase' = phase \/ phase' \in {"filling", "signalling", "raised", "refused"}
        BY <1>4 DEF OpenDay, Fill, CloseBars, Signal, Fail, Refuse
      <3>4. QED
        BY <3>1, <3>2, <3>3
    <2>2. QED
      BY <2>1 DEF CurveInv
  <1>5. QED
    BY <1>1, <1>2, <1>3, <1>4 DEF Next

\* Before the first day there are neither rows nor a curve.
LEMMA ReportInit == Init => ReportInv
  <1> SUFFICES ASSUME Init PROVE ReportInv
    OBVIOUS
  <1>1. /\ orders = <<>> /\ waiting = <<>> /\ trades = <<>> /\ curve = <<>>
        /\ phase = "idle" /\ job = "none"
    BY DEF Init
  <1>2. Len(<<>>) = 0 /\ <<>> \in Seq(Int)
    OBVIOUS
  <1>3. OfLots(orders) /\ OfLots(waiting) /\ RowsCounted /\ CurveInv
    BY <1>1, <1>2 DEF OfLots, RowsCounted, CurveInv
  <1>4. Covered
    <2>1. \A n \in 0..Len(trades) : First(n) = trades
      BY <1>1, <1>2 DEF First
    <2>2. \A s : Book(trades, SoldOf(s)) = 0 /\ Book(trades, BoughtOf(s)) = 0
      BY <1>1, BookEmpty
    <2>3. QED
      BY <2>1, <2>2 DEF Covered
  <1>5. QED
    BY <1>3, <1>4 DEF ReportInv

\* Every step keeps what the reports rely on.
LEMMA ReportNext ==
    BacktestInv /\ SmaInv /\ ReportInv /\ CoveredAtLast' /\ [Next]_backtestVars => ReportInv'
  <1> SUFFICES ASSUME BacktestInv, SmaInv, ReportInv, CoveredAtLast', [Next]_backtestVars
               PROVE  ReportInv'
    OBVIOUS
  <1>1. OfLots(orders) /\ OfLots(waiting) /\ RowsCounted /\ Covered /\ CurveInv
    BY DEF ReportInv
  <1>2. trades \in Seq(TradeRow)
    BY DEF BacktestInv, ListsOK
  <1>3. OfLots(orders') /\ OfLots(waiting')
    BY <1>1, LotsNext
  <1>4. NextRow
    BY <1>1, RowNext
  <1>5. RowsCounted' /\ Covered'
    BY <1>1, <1>2, <1>4, CountedNext, CoveredNext
  <1>6. CurveInv'
    BY <1>1, CurveNext
  <1>7. QED
    BY <1>3, <1>5, <1>6 DEF ReportInv

\* The reports can rely on it throughout.
LEMMA ReportAlways == Spec => []ReportInv
  BY InvAlways, SmaAlways, BookedAlways, CoveredNow, ReportInit, ReportNext, PTL DEF Spec

-----------------------------------------------------------------------------
\* The two drawdowns of a completed job

\* For any bars, costs and number of days: the chart of the detail page shows the maximum
\* drawdown of the metrics, and goes deeper only after the curve has recovered from it.
THEOREM DrawdownsAlwaysAgree == Spec => []DrawdownsAgree
  <1>1. ReportInv => DrawdownsAgree
    <2> SUFFICES ASSUME ReportInv, job = "completed" PROVE DrawdownsAgree
      BY DEF DrawdownsAgree
    <2>1. curve \in Seq(Int) /\ curve # <<>>
      BY DEF ReportInv, CurveInv
    <2>2. Metrics.maxDrawdown = MaxDrawdown(curve) /\ Detail.drawdown = Chart(curve)
      BY DEF Metrics, Detail
    <2> DEFINE worst == Metrics.maxDrawdown
               chart == Detail.drawdown
    <2>3. Shows(curve, chart, worst)
      <3> HIDE DEF worst, chart
      <3>1. worst = MaxDrawdown(curve) /\ chart = Chart(curve)
        BY <2>2 DEF worst, chart
      <3>2. QED
        BY <2>1, <3>1, DrawdownFacts
    <2>4. QED
      <3>1. DrawdownsAgree <=>
              (job = "completed" =>
                 /\ \E i \in DOMAIN chart : ~Deeper(chart[i], worst) /\ ~Deeper(worst, chart[i])
                 /\ \A i \in DOMAIN chart : Deeper(chart[i], worst) =>
                      \E j \in 1..(i - 1) :
                          /\ Deeper(worst, <<1, 1>>)
                          /\ \E k \in 1..j :
                               /\ ~Deeper(chart[k], worst) /\ ~Deeper(worst, chart[k])
                               /\ curve[j] >= chart[k][2])
        BY DEF DrawdownsAgree
      <3> HIDE DEF worst, chart
      <3>2. QED
        BY <2>3, <3>1 DEF Shows, Par
  <1>2. QED
    BY <1>1, ReportAlways, PTL

-----------------------------------------------------------------------------
\* The trips of a completed job

\* The first rows are one more each time.
LEMMA FirstMore ==
    ASSUME trades \in Seq(TradeRow), NEW n \in Rows
    PROVE  /\ First(n - 1) \in Seq(TradeRow) /\ trades[n] \in TradeRow
           /\ First(n) = Append(First(n - 1), trades[n])
  <1> DEFINE before == SubSeq(trades, 1, n - 1)
             upto   == SubSeq(trades, 1, n)
             more   == Append(before, trades[n])
  <1>1. n \in Nat /\ n - 1 \in Nat /\ n \in 1..Len(trades) /\ n - 1 \in 0..Len(trades)
    BY DEF Rows
  <1>2. trades[n] \in TradeRow
    BY <1>1
  <1>3. /\ before \in Seq(TradeRow) /\ Len(before) = n - 1
        /\ \A i \in 1..(n - 1) : before[i] = trades[i]
    BY <1>1
  <1>4. /\ upto \in Seq(TradeRow) /\ Len(upto) = n
        /\ \A i \in 1..n : upto[i] = trades[i]
    BY <1>1
  <1> HIDE DEF before, upto
  <1>5. /\ more \in Seq(TradeRow) /\ Len(more) = n /\ more[n] = trades[n]
        /\ \A i \in 1..(n - 1) : more[i] = before[i]
    BY <1>1, <1>2, <1>3
  <1> HIDE DEF more
  <1>6. \A i \in 1..n : upto[i] = more[i]
    <2>1. \A i \in 1..n : i \in 1..(n - 1) \/ i = n
      BY <1>1
    <2>2. QED
      BY <1>3, <1>4, <1>5, <2>1
  <1>7. upto = more
    BY <1>4, <1>5, <1>6, SeqEqual
  <1>8. QED
    BY <1>2, <1>3, <1>7 DEF First, before, upto, more

BookUpTo(column) == [n \in 0..Len(trades) |-> Book(First(n), column)]

\* A book that grows row by row
LEMMA BookGrows ==
    ASSUME trades \in Seq(TradeRow), NEW column \in Columns, \A t \in TradeRow : column[t] \in Nat
    PROVE  /\ BookUpTo(column) \in [0..Len(trades) -> Nat] /\ BookUpTo(column)[0] = 0
           /\ \A n \in Rows : BookUpTo(column)[n] = BookUpTo(column)[n-1] + column[trades[n]]
  <1> DEFINE u == BookUpTo(column)
             N == Len(trades)
             P == {n \in 0..N : u[n] \in Nat}
  <1>1. N \in Nat /\ 0 \in 0..N /\ \A n \in Rows : n \in 0..N /\ n - 1 \in 0..N
    BY DEF Rows
  <1>2. \A n \in 0..N : u[n] = Book(First(n), column)
    BY DEF BookUpTo
  <1>3. u[0] = 0
    <2>1. First(0) = <<>>
      BY DEF First
    <2>2. QED
      BY <1>1, <1>2, <2>1, BookEmpty
  <1>4. ASSUME NEW n \in Rows
        PROVE  u[n] = u[n-1] + column[trades[n]] /\ column[trades[n]] \in Nat
    <2>1. First(n - 1) \in Seq(TradeRow) /\ trades[n] \in TradeRow
          /\ First(n) = Append(First(n - 1), trades[n])
      BY FirstMore
    <2>2. Book(First(n), column) = Book(First(n - 1), column) + column[trades[n]]
      BY <2>1, BookAppend
    <2>3. QED
      BY <1>1, <1>2, <2>1, <2>2
  <1> HIDE DEF u
  <1>5. 0 \in P
    BY <1>1, <1>3
  <1>6. ASSUME NEW n \in 1..N, n - 1 \in P PROVE n \in P
    <2>1. n \in Rows /\ n \in 0..N
      BY <1>1 DEF Rows
    <2>2. u[n-1] \in Nat
      BY <1>6
    <2>3. QED
      BY <1>4, <2>1, <2>2
  <1>7. \A n \in 0..N : u[n] \in Nat
    <2>1. \A n \in 1..N : n - 1 \in P => n \in P
      BY <1>6
    <2> HIDE DEF P
    <2>2. \A n \in 0..N : n \in P
      BY <1>1, <1>5, <2>1, EveryRound
    <2>3. QED
      BY <2>2 DEF P
  <1>8. u \in [0..N -> Nat]
    <2>1. u = [n \in 0..N |-> u[n]]
      BY DEF u, BookUpTo
    <2>2. QED
      BY <1>7, <2>1
  <1>9. QED
    BY <1>3, <1>4, <1>8 DEF u

\* The shares of a row are those after its book.
LEMMA SharesFollow ==
    ASSUME trades \in Seq(TradeRow), NEW k \in Rows, NEW column \in Columns,
           \A t \in TradeRow : column[t] = IF /\ t.status = "filled" /\ t.side = trades[k].side
                                              /\ t.symbol = trades[k].symbol
                                           THEN t.qty ELSE 0
    PROVE  Shares(k) = (BookUpTo(column)[k-1] + 1)..(BookUpTo(column)[k-1] + trades[k].qty)
  <1> DEFINE before == First(k - 1)
             f      == [n \in 1..(k - 1) |-> IF /\ trades[n].status = "filled"
                                                /\ trades[n].side = trades[k].side
                                                /\ trades[n].symbol = trades[k].symbol
                                             THEN trades[n].qty ELSE 0]
  <1>1. k - 1 \in 0..Len(trades) /\ k - 1 \in Nat /\ Len(trades) \in Nat
    BY DEF Rows
  <1>2. /\ before \in Seq(TradeRow) /\ DOMAIN before = 1..(k - 1)
        /\ \A n \in 1..(k - 1) : before[n] = trades[n] /\ trades[n] \in TradeRow
    <2>1. \A n \in 1..(k - 1) : n \in 1..Len(trades)
      BY <1>1 DEF Rows
    <2>2. QED
      BY <1>1, <2>1 DEF First
  <1> HIDE DEF before
  <1>3. [n \in DOMAIN before |-> column[before[n]]] = f
    BY <1>2
  <1>4. Book(before, column) = Total(f)
    BY <1>3 DEF Book
  <1>5. Shares(k) = (Total(f) + 1)..(Total(f) + trades[k].qty)
    BY DEF Shares
  <1>6. BookUpTo(column)[k-1] = Book(before, column)
    BY <1>1 DEF BookUpTo, before
  <1>7. QED
    BY <1>4, <1>5, <1>6

\* What a symbol's books say is how its shares flow.
LEMMA BooksFlow ==
    ASSUME trades \in Seq(TradeRow), RowsCounted, Covered, NEW s \in Symbols
    PROVE  Flow(s, BookUpTo(BoughtOf(s)), BookUpTo(SoldOf(s)))
  <1> DEFINE B == BookUpTo(BoughtOf(s))
             S == BookUpTo(SoldOf(s))
  <1>1. /\ BoughtOf(s) \in Columns /\ SoldOf(s) \in Columns
        /\ \A t \in TradeRow : /\ t.qty \in Nat
                               /\ BoughtOf(s)[t] = IF IsBuy(t) /\ t.symbol = s THEN t.qty ELSE 0
                               /\ SoldOf(s)[t] = IF IsSale(t) /\ t.symbol = s THEN t.qty ELSE 0
    BY ColumnsAreInt DEF BoughtOf, SoldOf, TradeRow
  <1>2. /\ B \in [0..Len(trades) -> Nat] /\ B[0] = 0
        /\ \A n \in Rows : B[n] = B[n-1] + BoughtOf(s)[trades[n]]
    BY <1>1, BookGrows
  <1>3. /\ S \in [0..Len(trades) -> Nat] /\ S[0] = 0
        /\ \A n \in Rows : S[n] = S[n-1] + SoldOf(s)[trades[n]]
    BY <1>1, BookGrows
  <1>4. ASSUME NEW k \in Rows
        PROVE  /\ B[k] = B[k-1] + IF BuyOf(s, k) THEN trades[k].qty ELSE 0
               /\ S[k] = S[k-1] + IF SaleOf(s, k) THEN trades[k].qty ELSE 0
               /\ S[k] \leq B[k]
               /\ BuyOf(s, k) => /\ trades[k].qty \in Nat \ {0}
                                 /\ Shares(k) = (B[k-1] + 1)..B[k]
               /\ SaleOf(s, k) => /\ trades[k].qty \in Nat \ {0}
                                  /\ Shares(k) = (S[k-1] + 1)..S[k]
    <2>1. trades[k] \in TradeRow /\ k \in 1..Len(trades) /\ k \in 0..Len(trades)
      BY DEF Rows
    <2>2. B[k] = B[k-1] + IF BuyOf(s, k) THEN trades[k].qty ELSE 0
      BY <1>1, <1>2, <2>1 DEF BuyOf
    <2>3. S[k] = S[k-1] + IF SaleOf(s, k) THEN trades[k].qty ELSE 0
      BY <1>1, <1>3, <2>1 DEF SaleOf
    <2>4. S[k] \leq B[k]
      BY <2>1 DEF Covered, BookUpTo
    <2>5. ASSUME BuyOf(s, k)
          PROVE  trades[k].qty \in Nat \ {0} /\ Shares(k) = (B[k-1] + 1)..B[k]
      <3>1. trades[k].qty \in Nat \ {0}
        BY <2>1, <2>5 DEF RowsCounted, BuyOf, IsBuy
      <3>2. \A t \in TradeRow : BoughtOf(s)[t] = IF /\ t.status = "filled" /\ t.side = trades[k].side
                                                    /\ t.symbol = trades[k].symbol
                                                 THEN t.qty ELSE 0
        BY <1>1, <2>5 DEF BuyOf, IsBuy
      <3>3. Shares(k) = (B[k-1] + 1)..(B[k-1] + trades[k].qty)
        BY <1>1, <3>2, SharesFollow
      <3>4. QED
        BY <2>2, <2>5, <3>1, <3>3
    <2>6. ASSUME SaleOf(s, k)
          PROVE  trades[k].qty \in Nat \ {0} /\ Shares(k) = (S[k-1] + 1)..S[k]
      <3>1. trades[k].qty \in Nat \ {0}
        BY <2>1, <2>6 DEF RowsCounted, SaleOf, IsSale
      <3>2. \A t \in TradeRow : SoldOf(s)[t] = IF /\ t.status = "filled" /\ t.side = trades[k].side
                                                  /\ t.symbol = trades[k].symbol
                                               THEN t.qty ELSE 0
        BY <1>1, <2>6 DEF SaleOf, IsSale
      <3>3. Shares(k) = (S[k-1] + 1)..(S[k-1] + trades[k].qty)
        BY <1>1, <3>2, SharesFollow
      <3>4. QED
        BY <2>3, <2>6, <3>1, <3>3
    <2>7. QED
      BY <2>2, <2>3, <2>4, <2>5, <2>6
  <1> HIDE DEF B, S
  <1>5. Flow(s, B, S)
    BY <1>2, <1>3, <1>4 DEF Flow
  <1>6. QED
    BY <1>5 DEF B, S

\* A list with all trips in order is the set of all overlaps in order.
LEMMA TripsListed ==
    ASSUME Len(trades) \in Nat, NEW trips \in Seq(Trip), TripsUpTo(trips, Len(trades))
    PROVE  /\ Range(trips) =
                {[buy |-> p[1], sale |-> p[2], qty |-> Cardinality(Overlap(p[1], p[2]))] :
                   p \in {q \in Rows \X Rows : Meet(q[1], q[2])}}
           /\ InOrder(trips)
  <1> DEFINE pairs == {q \in Rows \X Rows : Meet(q[1], q[2])}
             closed(i, j) == [buy |-> i, sale |-> j, qty |-> Cardinality(Overlap(i, j))]
             all   == {closed(p[1], p[2]) : p \in pairs}
  <1>1. /\ TripsTrue(trips, Len(trades)) /\ InOrder(trips)
        /\ \A i \in Rows, j \in Rows : Meet(i, j) => Listed(trips, i, j)
    BY DEF TripsUpTo, Rows
  <1>2. DOMAIN trips = 1..Len(trips)
    OBVIOUS
  <1>3. ASSUME NEW m \in 1..Len(trips)
        PROVE  /\ trips[m] = closed(trips[m].buy, trips[m].sale)
               /\ <<trips[m].buy, trips[m].sale>> \in pairs
    <2>1. /\ trips[m].sale \in Rows /\ trips[m].buy \in Rows
          /\ Meet(trips[m].buy, trips[m].sale)
          /\ trips[m].qty = Cardinality(Overlap(trips[m].buy, trips[m].sale))
      BY <1>1 DEF TripsTrue, Rows
    <2>2. trips[m] \in Trip
      BY <1>2
    <2>3. trips[m] = [buy |-> trips[m].buy, sale |-> trips[m].sale, qty |-> trips[m].qty]
      BY <2>2 DEF Trip
    <2>4. QED
      BY <2>1, <2>3
  <1>4. ASSUME NEW p \in pairs
        PROVE  \E m \in 1..Len(trips) : trips[m] = closed(p[1], p[2])
    <2>1. p[1] \in Rows /\ p[2] \in Rows /\ Meet(p[1], p[2])
      OBVIOUS
    <2>2. PICK m \in 1..Len(trips) : trips[m].buy = p[1] /\ trips[m].sale = p[2]
      BY <1>1, <2>1 DEF Listed
    <2>3. QED
      BY <1>3, <2>2
  <1>5. ASSUME NEW t \in Range(trips) PROVE t \in all
    <2>1. PICK m \in 1..Len(trips) : t = trips[m]
      BY <1>2, <1>5 DEF Range
    <2> DEFINE p == <<trips[m].buy, trips[m].sale>>
    <2>2. p \in pairs /\ p[1] = trips[m].buy /\ p[2] = trips[m].sale
      BY <1>3
    <2>3. t = closed(p[1], p[2])
      BY <1>3, <2>1
    <2> HIDE DEF p, pairs
    <2>4. QED
      BY <2>2, <2>3
  <1>6. ASSUME NEW t \in all PROVE t \in Range(trips)
    <2>1. PICK p \in pairs : t = closed(p[1], p[2])
      OBVIOUS
    <2>2. PICK m \in 1..Len(trips) : trips[m] = closed(p[1], p[2])
      BY <1>4
    <2>3. QED
      BY <1>2, <2>1, <2>2 DEF Range
  <1>7. Range(trips) = all
    BY <1>5, <1>6
  <1>8. QED
    BY <1>1, <1>7

\* For any bars, costs and number of days, whatever the strategy: the trips of a completed
\* job are first in, first out, listed once each sale by sale, and the same in the metrics
\* and on the detail page.
THEOREM TripsAlwaysFifo == Spec => []TripsAreFifo
  <1>1. BacktestInv /\ ReportInv => TripsAreFifo
    <2> SUFFICES ASSUME BacktestInv, ReportInv, job = "completed" PROVE TripsAreFifo
      BY DEF TripsAreFifo
    <2> DEFINE filled == {i \in DOMAIN trades : trades[i].status = "filled"}
               ts     == Trips(filled)
               Bs     == [s \in Symbols |-> BookUpTo(BoughtOf(s))]
               Ss     == [s \in Symbols |-> BookUpTo(SoldOf(s))]
    <2>1. trades \in Seq(TradeRow) /\ RowsCounted /\ Covered
      BY DEF BacktestInv, ListsOK, ReportInv
    <2>2. DOMAIN trades = Rows /\ Len(trades) \in Nat
      BY <2>1 DEF Rows
    <2>3. {i \in DOMAIN trades : /\ trades[i].status = "filled"
                                 /\ trades[i].qty > 0 /\ trades[i].fill > 0} = filled
      BY <2>1, <2>2 DEF RowsCounted, Rows
    <2>4. Metrics.trips = ts /\ Detail.trades = ts
      BY <2>3 DEF Metrics, Detail, ClosedRoundTrips, PairTrades
    <2>5. Flows(Bs, Ss)
      BY <2>1, BooksFlow DEF Flows
    <2>6. \A n \in Rows : n \in filled <=> trades[n].status = "filled"
      BY <2>2
    <2>7. ts \in Seq(Trip) /\ TripsUpTo(ts, Len(trades))
      <3> HIDE DEF Bs, Ss, filled
      <3>1. QED
        BY <2>1, <2>5, <2>6, TripsPaired
    <2> HIDE DEF ts, filled
    <2>8. /\ Range(ts) =
               {[buy |-> p[1], sale |-> p[2], qty |-> Cardinality(Overlap(p[1], p[2]))] :
                  p \in {q \in Rows \X Rows : Meet(q[1], q[2])}}
          /\ InOrder(ts)
      BY <2>2, <2>7, TripsListed
    <2>9. DOMAIN ts = 1..Len(ts)
      BY <2>7
    <2>10. QED
      BY <2>2, <2>4, <2>8, <2>9 DEF TripsAreFifo, InOrder
  <1>2. QED
    BY <1>1, InvAlways, ReportAlways, PTL

=============================================================================
