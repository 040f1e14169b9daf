------------------------------ MODULE Screener ------------------------------
(***************************************************************************)
(* screen_universe: the roster of a day, or of the latest day in reach,    *)
(* fetched and kept when there is none; the rows of a market or of a list; *)
(* the filters one after the other; an event before them and one after.    *)
(*                                                                         *)
(* Days and symbols are numbers, ordered like the dates and the codes.     *)
(* Requests run in worker threads on connections of their own, and every   *)
(* statement sees what is committed by then.                               *)
(***************************************************************************)
EXTENDS EventStream

CONSTANTS Symbols,      \* the codes FinMind may list
          MarketOf,     \* "TWSE", "OTC", or a type that is not recognised
          KY,           \* the codes that end in "KY"
          Listings,     \* the sets of codes that FinMind may list
          MaxDay,       \* bound: the last day
          Lookback,     \* lookback_days
          AvgDays,      \* five: the bars an average is taken of
          BarOf,        \* bars are numbers: what each of them holds, [c, h, l, v, amount]
          BarsToCome,   \* what other parts may store: a symbol, a day and a bar
          Histories,    \* the bars that can be there at the beginning
          Requests,     \* the calls of screen_universe, valid or not
          MaxOps        \* bound: calls

Days == 1..MaxDay

ASSUME ScreenerAssumption ==
    /\ Symbols \subseteq Nat /\ IsFiniteSet(Symbols) /\ KY \subseteq Symbols
    /\ Listings \subseteq SUBSET Symbols
    /\ 0 \notin DOMAIN BarOf
    /\ \A b \in DOMAIN BarOf : BarOf[b] \in [c : Nat, h : Nat, l : Nat, v : Nat, amount : Nat]
    /\ Histories \subseteq [Symbols -> [Days -> DOMAIN BarOf \cup {0}]]
    /\ BarsToCome \subseteq [symbol : Symbols, day : Days, bar : DOMAIN BarOf]
    /\ \A request \in Requests : request.asof \in Days
    /\ MaxDay \in Nat \ {0} /\ Lookback \in Nat /\ AvgDays \in Nat \ {0} /\ MaxOps \in Nat

\* PUBLIC_WHITELIST lets the two numbers of a screen through
ASSUME ScreenEventsPublic ==
    /\ "universe_size" \in Whitelist["screener_started"] \ Denylist
    /\ "candidate_count" \in Whitelist["screener_completed"] \ Denylist

VARIABLES roster,   \* universe_daily: the symbols by day
          bars,     \* bars_daily: a bar by symbol and day
          op,       \* the call each caller is in
          ops       \* history: the number of calls

screenVars == <<busVars, roster, bars, op, ops>>

-----------------------------------------------------------------------------
NoBar == 0

\* The locals of a call: those of a screen, and those of a rating and of a scan
Idle == [pc |-> "idle", kind |-> "", asof |-> 0, request |-> <<>>, filters |-> <<>>,
         rows |-> {}, left |-> {}, size |-> 0,
         symbol |-> 0, context |-> <<>>, closes |-> <<>>, answer |-> <<>>]

Free(c) == op[c].pc = "idle" /\ ~Emitting(c) /\ ops < MaxOps

ScreenInit ==
    /\ BusInit
    /\ roster = [d \in Days |-> {}]
    /\ bars \in Histories
    /\ op = [c \in Callers |-> Idle]
    /\ ops = 0

\* Numbers in ascending order
Ascending(S) == [k \in 1..Cardinality(S) |-> CHOOSE x \in S : Cardinality({y \in S : y < x}) = k - 1]

Refused(code) == [ok |-> FALSE, code |-> code]

AnswerWith(c, answer) ==
    op' = [op EXCEPT ![c] = [Idle EXCEPT !.pc = "answered", !.kind = op[c].kind,
                                         !.asof = op[c].asof, !.answer = answer]]

-----------------------------------------------------------------------------
\* The roster

\* _validate_inputs
Valid(request) ==
    /\ request.universe \in {"TWSE", "OTC", "TWSE+OTC", "custom"}
    /\ request.universe = "custom" <=> request.custom # {}

Screen(c, request) ==
    /\ Free(c)
    /\ ops' = ops + 1
    /\ op' = [op EXCEPT ![c] =
                IF Valid(request)
                THEN [Idle EXCEPT !.pc = "resolving", !.kind = "screen", !.asof = request.asof,
                                  !.request = request, !.filters = request.filters]
                ELSE [Idle EXCEPT !.pc = "answered", !.kind = "screen",
                                  !.answer = Refused("INVALID_INPUT")]]
    /\ UNCHANGED <<busVars, roster, bars>>

\* The requested day, or the latest before it within reach
InReach(asof) == {d \in Days : roster[d] # {} /\ asof - Lookback \leq d /\ d \leq asof}

Resolve(c) ==
    /\ op[c].pc = "resolving"
    /\ op' = [op EXCEPT
         ![c].pc = IF InReach(op[c].asof) = {} THEN "fetching" ELSE "selecting",
         ![c].asof = IF InReach(@) = {} THEN @ ELSE Max(InReach(@))]
    /\ UNCHANGED <<busVars, roster, bars, ops>>

FetchFails(c, code) ==
    /\ op[c].pc = "fetching"
    /\ AnswerWith(c, Refused(code))
    /\ UNCHANGED <<busVars, roster, bars, ops>>

\* aggregate_universe_rows: types that are not recognised are left out
Aggregated(raw) == {s \in raw : MarketOf[s] \in {"TWSE", "OTC"}}

\* What FinMind lists is kept, beside what another request has kept meanwhile
Fetch(c, raw) ==
    /\ op[c].pc = "fetching"
    /\ IF Aggregated(raw) = {}
       THEN AnswerWith(c, Refused("DATA_UNAVAILABLE")) /\ UNCHANGED roster
       ELSE /\ roster' = [roster EXCEPT ![op[c].asof] = @ \cup Aggregated(raw)]
            /\ op' = [op EXCEPT ![c].pc = "selecting"]
    /\ UNCHANGED <<busVars, bars, ops>>

\* select_universe_rows and the custom list; then the first event
Selected(request, asof) ==
    {s \in roster[asof] :
        CASE request.universe = "TWSE+OTC" -> TRUE
          [] request.universe = "custom"   -> s \in request.custom
          [] OTHER                         -> MarketOf[s] = request.universe}

Select(c) ==
    LET rows == Selected(op[c].request, op[c].asof) IN
    /\ op[c].pc = "selecting"
    /\ op' = [op EXCEPT ![c].pc = "filtering", ![c].rows = rows, ![c].size = Cardinality(rows)]
    /\ Emit(c, "screener_started", [universe_size |-> Cardinality(rows)])
    /\ UNCHANGED <<roster, bars, ops>>

-----------------------------------------------------------------------------
\* The filters.  One that is malformed ends the call, after the first event

\* apply_negative_filter; of the flags only KY is ever set
NegativeFilter(rows, exclude) == {s \in rows : ~("KY" \in exclude /\ s \in KY)}

BadFilter(f) ==
    IF f.kind = "negative_filter" THEN ~f.exclude \subseteq {"warning", "disposal", "fully_paid", "KY"}
    ELSE f.policy \notin {"skip_missing", "fail_fast"}

FilterFails(c) ==
    /\ op[c].pc = "filtering" /\ ~Emitting(c)
    /\ op[c].filters # <<>> /\ BadFilter(Head(op[c].filters))
    /\ AnswerWith(c, Refused("INVALID_INPUT"))
    /\ UNCHANGED <<busVars, roster, bars, ops>>

Filter(c) ==
    LET f == Head(op[c].filters) IN
    /\ op[c].pc = "filtering" /\ ~Emitting(c)
    /\ op[c].filters # <<>> /\ ~BadFilter(f)
    /\ \/ /\ f.kind = "negative_filter"
          /\ op' = [op EXCEPT ![c].rows = NegativeFilter(@, f.exclude), ![c].filters = Tail(@)]
       \/ /\ f.kind = "volume_filter"
          /\ op' = [op EXCEPT ![c].pc = "averaging", ![c].left = op[c].rows, ![c].rows = {}]
    /\ UNCHANGED <<busVars, roster, bars, ops>>

\* The last bars of a symbol up to a day, however old they are
LastBars(s, asof) ==
    LET there == {d \in 1..asof : bars[s][d] # NoBar}
    IN  {d \in there : Cardinality({e \in there : e >= d}) \leq AvgDays}

\* The next row of the volume filter, which reads the bars as they are then
Average(c) ==
    LET f      == Head(op[c].filters)
        s      == Min(op[c].left)
        days   == LastBars(s, op[c].asof)
        amount == FoldSet(LAMBDA d, sum : sum + BarOf[bars[s][d]].amount, 0, days)
    IN
    /\ op[c].pc = "averaging" /\ op[c].left # {}
    /\ IF Cardinality(days) < AvgDays /\ f.policy = "fail_fast"
       THEN AnswerWith(c, Refused("DATA_UNAVAILABLE"))
       ELSE op' = [op EXCEPT
              ![c].left = @ \ {s},
              ![c].rows = IF Cardinality(days) = AvgDays /\ amount >= f.min * AvgDays
                          THEN @ \cup {s} ELSE @]
    /\ UNCHANGED <<busVars, roster, bars, ops>>

Averaged(c) ==
    /\ op[c].pc = "averaging" /\ op[c].left = {}
    /\ op' = [op EXCEPT ![c].pc = "filtering", ![c].filters = Tail(@)]
    /\ UNCHANGED <<busVars, roster, bars, ops>>

-----------------------------------------------------------------------------
\* Mutant: the count of the rows before the filters
CountSelected(c) == op[c].size

\* len(candidates)
CandidateCount(c) == Cardinality(op[c].rows)

\* The second event
Complete(c) ==
    /\ op[c].pc = "filtering" /\ op[c].filters = <<>> /\ ~Emitting(c)
    /\ op' = [op EXCEPT ![c].pc = "completing"]
    /\ Emit(c, "screener_completed",
            [candidate_count |-> CandidateCount(c), symbols |-> op[c].rows])
    /\ UNCHANGED <<roster, bars, ops>>

Answer(c) ==
    /\ op[c].pc = "completing" /\ ~Emitting(c)
    /\ AnswerWith(c, [ok |-> TRUE, asof |-> op[c].asof, candidates |-> op[c].rows,
                      size |-> op[c].size])
    /\ UNCHANGED <<busVars, roster, bars, ops>>

Done(c) ==
    /\ op[c].pc = "answered"
    /\ op' = [op EXCEPT ![c] = Idle]
    /\ UNCHANGED <<busVars, roster, bars, ops>>

\* Another part stores a bar that was missing
StoreBar(b) ==
    /\ bars[b.symbol][b.day] = NoBar
    /\ bars' = [bars EXCEPT ![b.symbol][b.day] = b.bar]
    /\ UNCHANGED <<busVars, roster, op, ops>>

Screening(c) ==
    \/ \E request \in Requests : Screen(c, request)
    \/ Resolve(c)
    \/ \E code \in {"RATE_LIMIT", "AUTH_FAILED", "UPSTREAM_ERROR"} : FetchFails(c, code)
    \/ \E raw \in Listings : Fetch(c, raw)
    \/ Select(c) \/ FilterFails(c) \/ Filter(c) \/ Average(c) \/ Averaged(c)
    \/ Complete(c) \/ Answer(c) \/ Done(c)

ScreenNext ==
    \/ BusNext /\ UNCHANGED <<roster, bars, op, ops>>
    \/ \E c \in Callers : Screening(c)
    \/ \E b \in BarsToCome : StoreBar(b)

-----------------------------------------------------------------------------
\* Properties

\* The positions before j at which a stream was sent something of a caller's screens
SentBefore(c, s, j) ==
    {i \in 1..(j-1) : /\ frames[s][i].event.by = c
                      /\ frames[s][i].event.type \in {"screener_started", "screener_completed"}}

\* Whoever watches sees a screen as it is answered.  An answer with candidates was
\* announced by a start with the size of its universe and then by a completion
\* with the number of its candidates, with no other event between them; and in
\* what a stream is sent of a caller, a completion follows directly on its start,
\* with no more candidates than that had, unless the stream opened between the
\* two or was not given every event.
ScreensPublished ==
    \A c \in Callers :
        /\ op[c].pc = "answered" /\ op[c].kind = "screen" /\ op[c].answer.ok =>
             LET n     == Len(emitted[c])
                 first == emitted[c][n-1].event
                 last  == emitted[c][n].event
             IN  /\ first.type = "screener_started" /\ last.type = "screener_completed"
                 /\ first.payload.universe_size = op[c].answer.size
                 /\ last.payload.candidate_count = Cardinality(op[c].answer.candidates)
        /\ \A s \in Streams : missed[s] = {} =>
             \A j \in DOMAIN frames[s] :
                 LET before == SentBefore(c, s, j)
                     first  == frames[s][Max(before)]
                     last   == frames[s][j]
                 IN  last.event.by = c /\ last.event.type = "screener_completed" /\ before # {} =>
                       /\ first.event.type = "screener_started"
                       /\ last.sent.fields.candidate_count \leq first.sent.fields.universe_size

=============================================================================
