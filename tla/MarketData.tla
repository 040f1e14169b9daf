----------------------------- MODULE MarketData -----------------------------
(***************************************************************************)
(* Daily series behind a cache: bars from three sources in order of        *)
(* preference, and the chip series from one.  A call looks for the days it *)
(* wants, asks for the range of those that are missing, stores what comes  *)
(* back unless a row is there already, and reads again.                    *)
(*                                                                         *)
(* Days are numbers.  A row is where it came from and whether its day was  *)
(* over when it was fetched.  Calls run in threads or processes of their   *)
(* own on one database.                                                    *)
(***************************************************************************)
EXTENDS Integers, Sequences, FiniteSets, FiniteSetsExt, Functions

CONSTANTS Callers,      \* threads and processes
          Series,       \* what is cached: bars of a symbol, or its chip rows
          SourcesOf,    \* the sources of a series, in the order they are asked
          MaxDay,       \* bound: the last day
          Weekend,      \* days that are Saturdays or Sundays
          FirstToday,   \* the day on which the behaviour begins
          Window,       \* bars, or days: how many weekdays a call wants
          Index,        \* the series of the market's index
          StaleDays,    \* _STALE_BUSINESS_DAYS
          MaxCalls      \* bound: calls of get_kline and of the chip functions

Days == 1..MaxDay

Sources == UNION {Range(SourcesOf[s]) : s \in Series}

ASSUME MarketDataAssumption ==
    /\ MaxDay \in Nat \ {0} /\ Weekend \subseteq Days
    /\ FirstToday \in Days /\ Window \in Nat \ {0}
    /\ Cardinality({d \in Days \ Weekend : d \leq FirstToday}) >= Window
    /\ Index \in Series /\ StaleDays \in Nat /\ MaxCalls \in Nat
    /\ \A s \in Series : SourcesOf[s] \in Seq(Sources) \ {<<>>}

VARIABLES today,    \* the date
          cached,   \* bars_daily and the chip tables: a row by series and day
          call,     \* the state of each caller
          calls     \* history: the number of calls

dataVars == <<today, cached, call, calls>>

-----------------------------------------------------------------------------
Rows == [source : Sources, final : BOOLEAN]

NoRow == [source |-> "none", final |-> FALSE]

\* _CODE_PRIORITY, without an entry for "none"
Priority(code) ==
    CASE code = "AUTH_FAILED" -> 3
      [] code = "RATE_LIMIT" -> 2
      [] code = "UPSTREAM_ERROR" -> 1
      [] OTHER -> 0

\* _classify_exception
Codes == {"AUTH_FAILED", "RATE_LIMIT", "UPSTREAM_ERROR"}

Retriable(code) == code \in {"RATE_LIMIT", "UPSTREAM_ERROR"}

Quiet == [pc |-> "idle", user |-> "", series |-> "", wanted |-> {}, left |-> <<>>,
          rows |-> <<>>, code |-> "none", answer |-> <<>>, since |-> 0, asof |-> 0, known |-> <<>>]

\* _business_day_range: the last weekdays up to a day, holidays among them
Wanted(end) ==
    LET weekdays == {d \in Days \ Weekend : d \leq end}
    IN  {d \in weekdays : Cardinality({e \in weekdays : e >= d}) \leq Window}

Has(s, d) == cached[s][d] # NoRow

Missing(s, wanted) == {d \in wanted : ~Has(s, d)}

\* select_bars: the rows between the first and the last of the days, also those
\* of days that were not asked for
SelectRows(s, wanted) ==
    LET there == {d \in Min(wanted)..Max(wanted) : Has(s, d)}
    IN  [d \in there |-> cached[s][d]]

DataInit ==
    /\ today = FirstToday
    /\ cached = [s \in Series |-> [d \in Days |-> NoRow]]
    /\ call = [c \in Callers |-> Quiet]
    /\ calls = 0

-----------------------------------------------------------------------------
\* A call, from the check of its arguments on

Looking(c, user, s, end) ==
    [call[c] EXCEPT !.pc = "looking", !.user = user, !.series = s, !.wanted = Wanted(end),
                    !.code = "none", !.answer = <<>>]

\* get_kline and the chip functions, called for themselves: up to today, or to a
\* day before; or get_kline for the snapshot of the index
Ask(c, user, s, end) ==
    /\ call[c].pc = "idle" /\ calls < MaxCalls
    /\ end \in {today, today - 1} /\ Cardinality(Wanted(end)) = Window
    /\ user = "snapshot" => s = Index
    /\ call' = [call EXCEPT ![c] = [Looking(c, user, s, end) EXCEPT
                                     !.asof = IF user = "snapshot" THEN end ELSE 0]]
    /\ calls' = calls + 1
    /\ UNCHANGED <<today, cached>>

\* INVALID_INPUT: nothing is looked up
AskWrongly(c) ==
    /\ call[c].pc = "idle" /\ calls < MaxCalls
    /\ call' = [call EXCEPT ![c].pc = "answered", ![c].user = "reader",
                            ![c].answer = [ok |-> FALSE, code |-> "INVALID_INPUT",
                                           retriable |-> FALSE]]
    /\ calls' = calls + 1
    /\ UNCHANGED <<today, cached>>

Look(c) ==
    LET missing == Missing(call[c].series, call[c].wanted) IN
    /\ call[c].pc = "looking"
    /\ call' = [call EXCEPT ![c].pc = IF missing = {} THEN "reading" ELSE "fetching",
                            ![c].left = IF missing = {} THEN <<>> ELSE SourcesOf[call[c].series],
                            ![c].rows = [d \in missing |-> NoRow]]
    /\ UNCHANGED <<today, cached, calls>>

\* Where a call goes when a source has nothing for it
NextSource(c) == IF Len(call[c].left) = 1 THEN "reading" ELSE "fetching"

\* The code of the highest priority
Kept(old, code) == IF Priority(code) > Priority(old) THEN code ELSE old

\* The source raises
FetchFails(c, code) ==
    /\ call[c].pc = "fetching" /\ call[c].left # <<>>
    /\ call' = [call EXCEPT
         ![c].pc = NextSource(c),
         ![c].left = Tail(@),
         ![c].rows = IF NextSource(c) = "reading" THEN <<>> ELSE @,
         ![c].code = Kept(@, code)]
    /\ UNCHANGED <<today, cached, calls>>

\* It answers with rows of the range, none of them of a day to come
FetchRows(c, got) ==
    LET missing == DOMAIN call[c].rows
        source  == Head(call[c].left)
    IN
    /\ call[c].pc = "fetching" /\ call[c].left # <<>>
    /\ got \subseteq (Min(missing)..Max(missing)) \cap 1..today
    /\ \/ /\ got = {}
          /\ call' = [call EXCEPT
               ![c].pc = NextSource(c),
               ![c].left = Tail(@),
               ![c].rows = IF NextSource(c) = "reading" THEN <<>> ELSE @]
       \/ /\ got # {}
          /\ call' = [call EXCEPT
               ![c].pc = "storing",
               ![c].rows = [d \in got |-> [source |-> source, final |-> d < today]]]
    /\ UNCHANGED <<today, cached, calls>>

\* Mutant: INSERT OR REPLACE
InsertReplacing(s, rows) ==
    [d \in Days |-> IF d \in DOMAIN rows THEN rows[d] ELSE cached[s][d]]

\* INSERT OR IGNORE
Insert(s, rows) ==
    [d \in Days |-> IF d \in DOMAIN rows /\ ~Has(s, d) THEN rows[d] ELSE cached[s][d]]

Store(c) ==
    LET s == call[c].series IN
    /\ call[c].pc = "storing"
    /\ cached' = [cached EXCEPT ![s] = Insert(s, call[c].rows)]
    /\ call' = [call EXCEPT ![c].pc = "reading", ![c].code = "none", ![c].left = <<>>, ![c].rows = <<>>]
    /\ UNCHANGED <<today, calls>>

\* The envelope: all the days that were wanted, or why not
Envelope(c) ==
    LET s    == call[c].series
        code == IF call[c].code = "none" THEN "DATA_UNAVAILABLE" ELSE call[c].code
    IN  IF Missing(s, call[c].wanted) = {}
        THEN [ok |-> TRUE, rows |-> SelectRows(s, call[c].wanted)]
        ELSE [ok |-> FALSE, code |-> code, retriable |-> Retriable(code)]

\* The answer to a reader
Read(c) ==
    /\ call[c].pc = "reading" /\ call[c].user = "reader"
    /\ call' = [call EXCEPT ![c].pc = "answered", ![c].answer = Envelope(c)]
    /\ UNCHANGED <<today, cached, calls>>

BusinessDaysBetween(start, end) == Cardinality({d \in Days \ Weekend : start < d /\ d \leq end})

\* compute_taiex_snapshot: the codes of LiveProviderError, or the bars that the
\* close, its change and the risk-off flag are taken from
SnapshotOf(c) ==
    LET envelope == Envelope(c) IN
    IF ~envelope.ok
    THEN [envelope EXCEPT !.code = IF @ \in {"INVALID_INPUT", "RATE_LIMIT"}
                                   THEN "UPSTREAM_ERROR" ELSE @]
    ELSE IF BusinessDaysBetween(Max(DOMAIN envelope.rows), call[c].asof) > StaleDays
    THEN [ok |-> FALSE, code |-> "STALE_DATA", retriable |-> FALSE]
    ELSE envelope

ReadSnapshot(c) ==
    /\ call[c].pc = "reading" /\ call[c].user = "snapshot"
    /\ call' = [call EXCEPT ![c].pc = "answered", ![c].answer = SnapshotOf(c)]
    /\ UNCHANGED <<today, cached, calls>>

Done(c) ==
    /\ call[c].pc = "answered"
    /\ call' = [call EXCEPT ![c] = Quiet]
    /\ UNCHANGED <<today, cached, calls>>

\* Midnight
NextDay ==
    /\ today < MaxDay
    /\ today' = today + 1
    /\ UNCHANGED <<cached, call, calls>>

\* The steps of a call that has begun, up to its answer
Fetching(c) ==
    \/ Look(c)
    \/ \E code \in Codes : FetchFails(c, code)
    \/ \E got \in SUBSET (1..today) : FetchRows(c, got)
    \/ Store(c)

DataNext ==
    \/ \E c \in Callers :
         \/ \E user \in {"reader", "snapshot"}, s \in Series, end \in Days : Ask(c, user, s, end)
         \/ AskWrongly(c)
         \/ Fetching(c)
         \/ Read(c)
         \/ ReadSnapshot(c)
         \/ Done(c)
    \/ NextDay

-----------------------------------------------------------------------------
\* Properties

IsRows(c) == call[c].pc = "answered" /\ call[c].user # "gate" /\ call[c].answer.ok

\* Whoever asks is told the same: no two answers hold different rows of one day,
\* although callers fetch the same days at once from different sources and on
\* different dates; and an answer has a row for each weekday it wants and none of
\* a day to come, so that the snapshot never finds the index stale.
AnswersAgree ==
    \A c, other \in Callers : IsRows(c) =>
        LET rows   == call[c].answer.rows
            theirs == call[other].answer.rows
        IN  /\ call[c].wanted \subseteq DOMAIN rows /\ DOMAIN rows \subseteq 1..today
            /\ IsRows(other) /\ call[c].series = call[other].series =>
                 \A d \in DOMAIN rows \cap DOMAIN theirs : rows[d] = theirs[d]

=============================================================================
