--------------------------- MODULE RiskGate_proofs ---------------------------
(***************************************************************************)
(* For any callers, series, sources, calendar and conditions: what the     *)
(* market data has told once is never told otherwise, and the light never  *)
(* shows a colour older than it may be.                                    *)
(*                                                                         *)
(* A row that is cached stays, so an answer is always a part of the cache  *)
(* as it is now; and the colours that are kept carry the time at which     *)
(* their evaluation began, for the day they are kept under.                *)
(***************************************************************************)
EXTENDS RiskGate, FiniteSetTheorems, WellFoundedInduction, TLAPS

AnyRow == [source : Sources \cup {"none"}, final : BOOLEAN]

Tables == UNION {[D -> AnyRow] : D \in SUBSET Days}

AllCodes == Codes \cup {"none", "DATA_UNAVAILABLE", "INVALID_INPUT", "STALE_DATA"}

Failures == [ok : {FALSE}, code : AllCodes, retriable : BOOLEAN]

Tellings == [ok : {TRUE}, rows : Tables]

Results == [stamp : Nat, began : Nat, asof : 0..MaxDay,
            status : {"none", "green", "yellow", "red"}]

Answers == {<<>>} \cup Failures \cup Tellings \cup Results

CallStates ==
    [pc : {"idle", "looking", "fetching", "storing", "reading", "evaluating", "answered"},
     user : {"", "reader", "snapshot", "gate"}, series : Series \cup {""}, wanted : SUBSET Days,
     left : Seq(Sources), rows : Tables \cup {<<>>}, code : AllCodes, answer : Answers,
     since : Nat, asof : 0..MaxDay, known : Seq(Verdicts)]

DataTypes ==
    /\ today \in Days /\ clock \in Nat
    /\ cached \in [Series -> [Days -> AnyRow]]
    /\ call \in [Callers -> CallStates]
    /\ kept \in [Days -> Results]

\* Nothing is cached of a day to come
CachedPast == \A s \in Series, d \in Days : Has(s, d) => d \leq today

\* An answer with rows is a part of the cache
PartOf(me, db) ==
    /\ me.series \in Series /\ me.wanted \subseteq DOMAIN me.answer.rows
    /\ DOMAIN me.answer.rows \subseteq Days
    /\ \A d \in DOMAIN me.answer.rows :
          db[me.series][d] # NoRow /\ me.answer.rows[d] = db[me.series][d]

\* The colour shown is that of the day, and began in time
InTime(me) == me.answer.began > me.since - TTL /\ me.answer.asof = me.asof

\* What a call holds, on a day and beside a cache
CallOK(me, date, db) ==
    /\ me.pc \in {"looking", "fetching", "storing", "reading"} =>
         /\ me.series \in Series
         /\ me.user \in {"reader", "snapshot"} => me.wanted # {}
         /\ me.user = "gate" => Len(me.known) < Len(Conditions)
    /\ me.pc = "storing" => me.rows \in Tables /\ DOMAIN me.rows \subseteq 1..date
    /\ me.pc = "idle" => me.known = <<>>
    /\ me.pc = "evaluating" => me.user = "gate" /\ Len(me.known) \leq Len(Conditions)
    /\ me.user = "gate" => me.asof \in Days
    /\ me.pc = "answered" /\ me.user = "gate" => InTime(me)
    /\ me.pc = "answered" /\ me.user # "gate" =>
         me.answer \in Failures \/ (me.answer \in Tellings /\ PartOf(me, db))

CallsOK == \A c \in Callers : CallOK(call[c], today, cached)

KeptOK ==
    \A d \in Days : kept[d] # NoResult => kept[d].stamp = kept[d].began /\ kept[d].asof = d

GateInv == DataTypes /\ CachedPast /\ CallsOK /\ KeptOK

-----------------------------------------------------------------------------
\* The days

\* A set of natural numbers has a smallest element
LEMMA Smallest ==
    ASSUME NEW S \in SUBSET Nat, S # {}
    PROVE  \E x \in S : \A y \in S : x \leq y
<1>1. \E x \in S : \A y \in S : <<y, x>> \notin OpToRel(<, Nat)
  <2> DEFINE Less == OpToRel(<, Nat)
  <2>1. IsWellFoundedOn(Less, Nat)
    BY NatLessThanWellFounded
  <2> HIDE DEF Less
  <2>2. \E x \in S : \A y \in S : <<y, x>> \notin Less
    BY <2>1, WFMin
  <2> QED
    BY <2>2 DEF Less
<1>2. PICK x \in S : \A y \in S : <<y, x>> \notin OpToRel(<, Nat)
  BY <1>1
<1>3. ASSUME NEW y \in S PROVE x \leq y
  <2>1. x \in Nat /\ y \in Nat
    OBVIOUS
  <2>2. <<y, x>> \notin {pair \in Nat \X Nat : pair[1] < pair[2]}
    BY <1>2 DEF OpToRel
  <2>3. ~(y < x)
    BY <2>1, <2>2
  <2> QED
    BY <2>1, <2>3
<1> QED
  BY <1>3

\* So days have a first and a last among them
LEMMA FirstAndLast ==
    ASSUME NEW S \in SUBSET Days, S # {}
    PROVE  /\ Min(S) \in S /\ Max(S) \in S
           /\ \A d \in S : Min(S) \leq d /\ d \leq Max(S)
<1>1. S \subseteq Nat /\ MaxDay \in Nat /\ \A d \in S : d \leq MaxDay
  BY MarketDataAssumption DEF Days
<1>2. \E x \in S : \A y \in S : x \leq y
  BY <1>1, Smallest
<1>3. \E x \in S : \A y \in S : y \leq x
  <2> DEFINE T == {MaxDay - d : d \in S}
  <2>1. \A d \in S : MaxDay - d \in Nat
    BY <1>1
  <2>2. T \in SUBSET Nat /\ T # {}
    BY <2>1
  <2>3. PICK t \in T : \A y \in T : t \leq y
    BY <2>2, Smallest
  <2>4. PICK x \in S : t = MaxDay - x
    OBVIOUS
  <2>5. ASSUME NEW y \in S PROVE y \leq x
    <3>1. MaxDay - x \leq MaxDay - y
      BY <2>3, <2>4
    <3> QED
      BY <1>1, <3>1
  <2> QED
    BY <2>5
<1>4. /\ Min(S) \in S /\ \A y \in S : Min(S) \leq y
  BY <1>2 DEF Min
<1>5. /\ Max(S) \in S /\ \A y \in S : Max(S) >= y
  <2>1. \E x \in S : \A y \in S : x >= y
    BY <1>1, <1>3
  <2> QED
    BY <2>1 DEF Max
<1> QED
  BY <1>1, <1>4, <1>5

\* The rows between the first and the last of the days wanted, when none of
\* these is missing, are a table that has them all
LEMMA SelectedRows ==
    ASSUME GateInv, NEW s \in Series, NEW wanted \in SUBSET Days, wanted # {},
           Missing(s, wanted) = {}
    PROVE  /\ SelectRows(s, wanted) \in Tables
           /\ wanted \subseteq DOMAIN SelectRows(s, wanted)
           /\ DOMAIN SelectRows(s, wanted) \subseteq Days
           /\ \A d \in DOMAIN SelectRows(s, wanted) :
                 Has(s, d) /\ SelectRows(s, wanted)[d] = cached[s][d]
<1> DEFINE there == {d \in Min(wanted)..Max(wanted) : Has(s, d)}
<1>1. /\ Min(wanted) \in Days /\ Max(wanted) \in Days
      /\ \A d \in wanted : Min(wanted) \leq d /\ d \leq Max(wanted)
  BY FirstAndLast
<1>2. there \subseteq Days
  BY <1>1, MarketDataAssumption DEF Days
<1>3. wanted \subseteq there
  <2>1. wanted \subseteq Int /\ Min(wanted) \in Int /\ Max(wanted) \in Int
    BY <1>1, MarketDataAssumption DEF Days
  <2>2. \A d \in wanted : Has(s, d)
    BY DEF Missing
  <2> QED
    BY <1>1, <2>1, <2>2
<1>4. SelectRows(s, wanted) = [d \in there |-> cached[s][d]]
  BY DEF SelectRows
<1> HIDE DEF there
<1>5. [d \in there |-> cached[s][d]] \in [there -> AnyRow]
  BY <1>2 DEF GateInv, DataTypes
<1>6. SelectRows(s, wanted) \in Tables
  BY <1>2, <1>4, <1>5 DEF Tables
<1>7. \A d \in there : Has(s, d)
  BY DEF there
<1> QED
  BY <1>2, <1>3, <1>4, <1>6, <1>7

-----------------------------------------------------------------------------
\* A step of one caller

\* The date goes on, and what is cached stays
Grows ==
    /\ today \leq today' /\ today' \in Days
    /\ cached' \in [Series -> [Days -> AnyRow]]
    /\ \A s \in Series, d \in Days : Has(s, d) => cached'[s][d] = cached[s][d]

\* So what another call holds stays true
LEMMA CallOKStays ==
    ASSUME DataTypes, Grows, NEW me \in CallStates, CallOK(me, today, cached)
    PROVE  CallOK(me, today', cached')
<1>1. 1..today \subseteq 1..today'
  BY MarketDataAssumption DEF Grows, DataTypes, Days
<1>2. PartOf(me, cached) => PartOf(me, cached')
  BY DEF PartOf, Grows, Has
<1> QED
  BY <1>1, <1>2 DEF CallOK

\* A step of one call leaves the others alone
LEMMA CallStep ==
    ASSUME GateInv, Grows, NEW c \in Callers, NEW me \in CallStates,
           call' = [call EXCEPT ![c] = me], CallOK(me, today', cached')
    PROVE  call' \in [Callers -> CallStates] /\ CallsOK'
<1>1. /\ call' \in [Callers -> CallStates] /\ call'[c] = me
      /\ \A other \in Callers \ {c} : call'[other] = call[other]
  BY DEF GateInv, DataTypes
<1>2. ASSUME NEW other \in Callers PROVE CallOK(call'[other], today', cached')
  <2>1. CASE other = c
    BY <1>1, <2>1
  <2>2. CASE other # c
    <3>1. call[other] \in CallStates /\ CallOK(call[other], today, cached)
      BY DEF GateInv, DataTypes, CallsOK
    <3> QED
      BY <1>1, <2>2, <3>1, CallOKStays DEF GateInv
  <2> QED
    BY <2>1, <2>2
<1> QED
  BY <1>1, <1>2 DEF CallsOK

\* Most steps of a call change nothing else
LEMMA OwnStep ==
    ASSUME GateInv, NEW c \in Callers, NEW me \in CallStates,
           call' = [call EXCEPT ![c] = me], UNCHANGED <<today, cached, clock, kept>>,
           CallOK(me, today, cached)
    PROVE  GateInv'
<1>1. Grows
  BY MarketDataAssumption DEF Grows, GateInv, DataTypes, Days
<1>2. call' \in [Callers -> CallStates] /\ CallsOK'
  BY <1>1, CallStep
<1>3. CachedPast' /\ KeptOK'
  BY DEF GateInv, CachedPast, KeptOK, Has
<1> QED
  BY <1>2, <1>3 DEF GateInv, DataTypes

\* The state of a caller
LEMMA MyCall ==
    ASSUME GateInv, NEW c \in Callers
    PROVE  /\ call[c] \in CallStates /\ CallOK(call[c], today, cached)
           /\ today \in Days /\ today \in Int /\ clock \in Nat
BY MarketDataAssumption DEF GateInv, DataTypes, CallsOK, Days

\* A call that waits
LEMMA QuietOK ==
    Quiet \in CallStates /\ CallOK(Quiet, today, cached)
<1>1. <<>> \in Seq(Sources) /\ <<>> \in Seq(Verdicts) /\ 0 \in 0..MaxDay /\ <<>> \in Answers
  BY MarketDataAssumption DEF Answers
<1>2. Quiet \in CallStates
  BY <1>1 DEF Quiet, CallStates, AllCodes
<1> QED
  BY <1>2 DEF CallOK, Quiet

\* At the start every call is idle, nothing is cached and no colour is kept
LEMMA GateInvInit == GateInit => GateInv
<1> SUFFICES ASSUME GateInit PROVE GateInv
  OBVIOUS
<1>1. DataTypes
  <2>1. NoRow \in AnyRow
    BY DEF NoRow, AnyRow
  <2>2. NoResult \in Results
    BY MarketDataAssumption DEF NoResult, Results
  <2> QED
    BY <2>1, <2>2, QuietOK, MarketDataAssumption DEF GateInit, DataInit, DataTypes
<1>2. CachedPast /\ KeptOK
  BY DEF GateInit, DataInit, CachedPast, KeptOK, Has
<1>3. CallsOK
  BY QuietOK DEF GateInit, DataInit, CallsOK
<1> QED
  BY <1>1, <1>2, <1>3 DEF GateInv

-----------------------------------------------------------------------------
\* The steps of a call of the market data

\* A call that looks for its days
LEMMA LookingOK ==
    ASSUME NEW old \in CallStates, NEW user \in {"reader", "snapshot", "gate"},
           NEW s \in Series, NEW wanted \in SUBSET Days, NEW asof \in 0..MaxDay,
           user = "gate" => asof \in Days /\ Len(old.known) < Len(Conditions),
           user # "gate" => wanted # {}
    PROVE  LET me == [old EXCEPT !.pc = "looking", !.user = user, !.series = s,
                                 !.wanted = wanted, !.code = "none", !.answer = <<>>,
                                 !.asof = asof]
           IN  me \in CallStates /\ CallOK(me, today, cached)
<1> DEFINE me == [old EXCEPT !.pc = "looking", !.user = user, !.series = s,
                             !.wanted = wanted, !.code = "none", !.answer = <<>>,
                             !.asof = asof]
<1>1. <<>> \in Answers
  BY DEF Answers
<1>2. me \in CallStates
  BY <1>1 DEF CallStates, AllCodes
<1>3. /\ me.pc = "looking" /\ me.user = user /\ me.series = s /\ me.wanted = wanted /\ me.asof = asof
      /\ me.known = old.known
  BY DEF CallStates
<1> QED
  BY <1>2, <1>3 DEF CallOK

\* A call of get_kline starts to look for the days it wants
LEMMA AskStep ==
    ASSUME GateInv, NEW c \in Callers, NEW user \in {"reader", "snapshot"}, NEW s \in Series,
           NEW end \in Days, Ask(c, user, s, end), UNCHANGED <<clock, kept>>
    PROVE  GateInv'
<1>1. call[c] \in CallStates
  BY MyCall
<1>2. Wanted(end) \in SUBSET Days /\ Wanted(end) # {}
  <2>1. Wanted(end) \subseteq Days
    BY DEF Wanted
  <2>2. Cardinality(Wanted(end)) # 0
    BY MarketDataAssumption DEF Ask
  <2> QED
    BY <2>1, <2>2, FS_EmptySet
<1>3. PICK asof \in 0..MaxDay :
         call' = [call EXCEPT ![c] = [call[c] EXCEPT
                    !.pc = "looking", !.user = user, !.series = s, !.wanted = Wanted(end),
                    !.code = "none", !.answer = <<>>, !.asof = asof]]
  <2>1. 0 \in 0..MaxDay /\ end \in 0..MaxDay
    BY MarketDataAssumption DEF Days
  <2> QED
    BY <1>1, <2>1 DEF Ask, Looking, CallStates
<1>4. PICK me : me = [call[c] EXCEPT
                    !.pc = "looking", !.user = user, !.series = s, !.wanted = Wanted(end),
                    !.code = "none", !.answer = <<>>, !.asof = asof]
  OBVIOUS
<1>5. me \in CallStates /\ CallOK(me, today, cached)
  BY <1>1, <1>2, <1>4, LookingOK
<1> QED
  BY <1>3, <1>4, <1>5, OwnStep DEF Ask

\* A call for an unknown series or no days is answered at once with a failure
LEMMA AskWronglyStep ==
    ASSUME GateInv, NEW c \in Callers, AskWrongly(c), UNCHANGED <<clock, kept>>
    PROVE  GateInv'
<1> DEFINE answer == [ok |-> FALSE, code |-> "INVALID_INPUT", retriable |-> FALSE]
<1>1. call[c] \in CallStates
  BY MyCall
<1>2. answer \in Failures /\ answer \in Answers
  BY DEF Failures, Answers, AllCodes
<1> HIDE DEF answer
<1>3. PICK me : me = [call[c] EXCEPT !.pc = "answered", !.user = "reader", !.answer = answer]
  OBVIOUS
<1>4. me \in CallStates /\ CallOK(me, today, cached)
  BY <1>1, <1>2, <1>3 DEF CallStates, CallOK
<1>5. call' = [call EXCEPT ![c] = me]
  BY <1>1, <1>3 DEF AskWrongly, GateInv, DataTypes, CallStates, answer
<1> QED
  BY <1>4, <1>5, OwnStep DEF AskWrongly

\* The days that are missing are asked for, of each source in turn
LEMMA LookStep ==
    ASSUME GateInv, NEW c \in Callers, Look(c), UNCHANGED <<clock, kept>>
    PROVE  GateInv'
<1> DEFINE missing == Missing(call[c].series, call[c].wanted)
           pc      == IF missing = {} THEN "reading" ELSE "fetching"
           left    == IF missing = {} THEN <<>> ELSE SourcesOf[call[c].series]
           rows    == [d \in missing |-> NoRow]
<1>1. call[c] \in CallStates /\ CallOK(call[c], today, cached) /\ call[c].pc = "looking"
  BY MyCall DEF Look
<1>2. left \in Seq(Sources) /\ pc \in {"reading", "fetching"}
  BY <1>1, MarketDataAssumption DEF CallOK
<1>3. rows \in Tables
  <2>1. missing \subseteq Days
    BY <1>1 DEF Missing, CallStates
  <2>2. NoRow \in AnyRow
    BY DEF NoRow, AnyRow
  <2> HIDE DEF missing
  <2>3. rows \in [missing -> AnyRow]
    BY <2>2
  <2> QED
    BY <2>1, <2>3 DEF Tables
<1>4. call' = [call EXCEPT ![c].pc = pc, ![c].left = left, ![c].rows = rows]
  BY DEF Look
<1> HIDE DEF missing, pc, left, rows
<1>5. PICK me : me = [call[c] EXCEPT !.pc = pc, !.left = left, !.rows = rows]
  OBVIOUS
<1>6. me \in CallStates
  BY <1>1, <1>2, <1>3, <1>5 DEF CallStates
<1>7. /\ me.pc = pc /\ me.user = call[c].user /\ me.series = call[c].series
      /\ me.wanted = call[c].wanted /\ me.asof = call[c].asof
      /\ me.known = call[c].known
  BY <1>1, <1>5 DEF CallStates
<1>8. CallOK(me, today, cached)
  BY <1>1, <1>2, <1>7 DEF CallOK
<1>9. call' = [call EXCEPT ![c] = me]
  BY <1>1, <1>4, <1>5 DEF GateInv, DataTypes, CallStates
<1> QED
  BY <1>6, <1>8, <1>9, OwnStep DEF Look

\* A source that has nothing is passed over
LEMMA PassedOver ==
    ASSUME GateInv, NEW c \in Callers, call[c].pc = "fetching", call[c].left # <<>>,
           NEW code \in AllCodes,
           call' = [call EXCEPT ![c].pc = NextSource(c), ![c].left = Tail(@),
                                ![c].rows = IF NextSource(c) = "reading" THEN <<>> ELSE @,
                                ![c].code = code],
           UNCHANGED <<today, cached, clock, kept>>
    PROVE  GateInv'
<1> DEFINE rows == IF NextSource(c) = "reading" THEN <<>> ELSE call[c].rows
<1>1. call[c] \in CallStates /\ CallOK(call[c], today, cached)
  BY MyCall
<1>2. NextSource(c) \in {"reading", "fetching"}
  BY DEF NextSource
<1>3. Tail(call[c].left) \in Seq(Sources) /\ rows \in Tables \cup {<<>>}
  <2>1. call[c].left \in Seq(Sources) /\ call[c].rows \in Tables \cup {<<>>}
    BY <1>1 DEF CallStates
  <2> QED
    BY <2>1
<1>4. PICK me : me = [call[c] EXCEPT !.pc = NextSource(c), !.left = Tail(@), !.rows = rows,
                                     !.code = code]
  OBVIOUS
<1>5. me \in CallStates
  BY <1>1, <1>2, <1>3, <1>4 DEF CallStates
<1>6. /\ me.pc = NextSource(c) /\ me.user = call[c].user /\ me.series = call[c].series
      /\ me.wanted = call[c].wanted /\ me.asof = call[c].asof
      /\ me.known = call[c].known
  BY <1>1, <1>4 DEF CallStates
<1>7. CallOK(me, today, cached)
  BY <1>1, <1>2, <1>6 DEF CallOK
<1>8. call' = [call EXCEPT ![c] = me]
  BY <1>1, <1>4 DEF GateInv, DataTypes, CallStates
<1> QED
  BY <1>5, <1>7, <1>8, OwnStep

\* A source that fails leaves the rest of its sources, or no rows at all
LEMMA FetchFailsStep ==
    ASSUME GateInv, NEW c \in Callers, NEW code \in Codes, FetchFails(c, code),
           UNCHANGED <<clock, kept>>
    PROVE  GateInv'
<1>1. Kept(call[c].code, code) \in AllCodes
  <2>1. call[c].code \in AllCodes
    BY MyCall DEF CallStates
  <2> QED
    BY <2>1 DEF Kept, AllCodes
<1> QED
  BY <1>1, PassedOver DEF FetchFails

\* One that answers does so with rows of days that have begun
LEMMA FetchRowsStep ==
    ASSUME GateInv, NEW c \in Callers, NEW got \in SUBSET (1..today), FetchRows(c, got),
           UNCHANGED <<clock, kept>>
    PROVE  GateInv'
<1>1. call[c] \in CallStates /\ CallOK(call[c], today, cached) /\ today \in Days
  BY MyCall
<1>2. call[c].pc = "fetching" /\ call[c].left # <<>> /\ UNCHANGED <<today, cached>>
  BY DEF FetchRows
<1>3. CASE got = {}
  <2>1. call' = [call EXCEPT ![c].pc = NextSource(c), ![c].left = Tail(@),
                             ![c].rows = IF NextSource(c) = "reading" THEN <<>> ELSE @]
    BY <1>3 DEF FetchRows
  <2>2. call[c].code \in AllCodes
    BY <1>1 DEF CallStates
  <2>3. call' = [call EXCEPT ![c].pc = NextSource(c), ![c].left = Tail(@),
                             ![c].rows = IF NextSource(c) = "reading" THEN <<>> ELSE @,
                             ![c].code = call[c].code]
    BY <1>1, <2>1 DEF GateInv, DataTypes, CallStates
  <2> QED
    BY <1>2, <2>2, <2>3, PassedOver
<1>4. CASE got # {}
  <2> DEFINE source == Head(call[c].left)
             rows   == [d \in got |-> [source |-> source, final |-> d < today]]
  <2>1. source \in Sources
    <3>1. call[c].left \in Seq(Sources) /\ call[c].left # <<>>
      BY <1>1, <1>2 DEF CallStates
    <3> QED
      BY <3>1
  <2>2. got \subseteq Days
    BY <1>1, MarketDataAssumption DEF Days
  <2>3. rows \in [got -> AnyRow]
    BY <2>1 DEF AnyRow
  <2>4. rows \in Tables /\ DOMAIN rows \subseteq 1..today
    BY <2>2, <2>3 DEF Tables
  <2>5. call' = [call EXCEPT ![c].pc = "storing", ![c].rows = rows]
    BY <1>4 DEF FetchRows
  <2> HIDE DEF source, rows
  <2>6. PICK me : me = [call[c] EXCEPT !.pc = "storing", !.rows = rows]
    OBVIOUS
  <2>7. me \in CallStates
    BY <1>1, <2>4, <2>6 DEF CallStates
  <2>8. /\ me.pc = "storing" /\ me.rows = rows /\ me.user = call[c].user
        /\ me.series = call[c].series /\ me.wanted = call[c].wanted /\ me.asof = call[c].asof
        /\ me.known = call[c].known
    BY <1>1, <2>6 DEF CallStates
  <2>9. CallOK(me, today, cached)
    BY <1>1, <1>2, <2>4, <2>8 DEF CallOK
  <2>10. call' = [call EXCEPT ![c] = me]
    BY <1>1, <2>5, <2>6 DEF GateInv, DataTypes, CallStates
  <2> QED
    BY <1>2, <2>7, <2>9, <2>10, OwnStep
<1> QED
  BY <1>3, <1>4

\* What comes back is stored where there is nothing yet, and the call reads again
LEMMA StoreStep ==
    ASSUME GateInv, NEW c \in Callers, Store(c), UNCHANGED <<clock, kept>>
    PROVE  GateInv'
<1> DEFINE s    == call[c].series
           rows == call[c].rows
<1>1. call[c] \in CallStates /\ CallOK(call[c], today, cached) /\ today \in Days
  BY MyCall
<1>2. /\ call[c].pc = "storing" /\ today' = today
      /\ cached' = [cached EXCEPT ![s] = Insert(s, rows)]
  BY DEF Store
<1>3. s \in Series /\ rows \in Tables /\ DOMAIN rows \subseteq 1..today
  BY <1>1, <1>2 DEF CallOK
<1>4. \A d \in DOMAIN rows : rows[d] \in AnyRow
  BY <1>3 DEF Tables
<1> HIDE DEF s, rows
<1>5. cached \in [Series -> [Days -> AnyRow]]
  BY DEF GateInv, DataTypes
<1>6. Insert(s, rows) \in [Days -> AnyRow]
  BY <1>3, <1>4, <1>5 DEF Insert
<1>7. /\ cached' \in [Series -> [Days -> AnyRow]]
      /\ cached'[s] = Insert(s, rows)
      /\ \A t \in Series \ {s} : cached'[t] = cached[t]
  BY <1>2, <1>3, <1>5, <1>6
<1>8. \A d \in Days : /\ Has(s, d) => Insert(s, rows)[d] = cached[s][d]
                      /\ Insert(s, rows)[d] # NoRow => Has(s, d) \/ d \in DOMAIN rows
  BY DEF Insert, Has
<1>9. Grows
  <2>1. today \leq today' /\ today' \in Days
    BY <1>1, <1>2, MarketDataAssumption DEF Days
  <2>2. \A t \in Series, d \in Days : Has(t, d) => cached'[t][d] = cached[t][d]
    BY <1>7, <1>8
  <2> QED
    BY <1>7, <2>1, <2>2 DEF Grows
<1>10. CachedPast'
  <2>1. ASSUME NEW t \in Series, NEW d \in Days, cached'[t][d] # NoRow
        PROVE  d \leq today
    <3>1. CASE Has(t, d)
      BY <3>1 DEF GateInv, CachedPast
    <3>2. CASE t = s /\ d \in DOMAIN rows
      BY <1>1, <1>3, <3>2, MarketDataAssumption DEF Days
    <3> QED
      BY <1>7, <1>8, <2>1, <3>1, <3>2 DEF Has
  <2> QED
    BY <1>2, <2>1 DEF CachedPast, Has
<1>11. PICK me : me = [call[c] EXCEPT !.pc = "reading", !.code = "none", !.left = <<>>,
                                      !.rows = <<>>]
  OBVIOUS
<1>12. me \in CallStates
  <2>1. <<>> \in Seq(Sources) /\ "none" \in AllCodes
    BY DEF AllCodes
  <2> QED
    BY <1>1, <1>11, <2>1 DEF CallStates
<1>13. /\ me.pc = "reading" /\ me.user = call[c].user
       /\ me.series = call[c].series /\ me.wanted = call[c].wanted /\ me.asof = call[c].asof
       /\ me.known = call[c].known
  BY <1>1, <1>11 DEF CallStates
<1>14. CallOK(me, today', cached')
  BY <1>1, <1>2, <1>13 DEF CallOK
<1>15. call' = [call EXCEPT ![c] = me]
  BY <1>1, <1>11 DEF Store, GateInv, DataTypes, CallStates
<1>16. call' \in [Callers -> CallStates] /\ CallsOK'
  BY <1>9, <1>12, <1>14, <1>15, CallStep
<1>17. KeptOK'
  BY DEF GateInv, KeptOK
<1> QED
  BY <1>2, <1>7, <1>10, <1>16, <1>17, <1>1 DEF GateInv, DataTypes

\* The envelope is a part of the cache, or a failure
LEMMA EnvelopeOK ==
    ASSUME GateInv, NEW c \in Callers, call[c].pc = "reading",
           call[c].user \in {"reader", "snapshot"}
    PROVE  \/ Envelope(c) \in Failures
           \/ /\ Envelope(c) \in Tellings /\ call[c].series \in Series
              /\ call[c].wanted \subseteq DOMAIN Envelope(c).rows
              /\ DOMAIN Envelope(c).rows \subseteq Days
              /\ \A d \in DOMAIN Envelope(c).rows :
                    /\ cached[call[c].series][d] # NoRow
                    /\ Envelope(c).rows[d] = cached[call[c].series][d]
<1> DEFINE s == call[c].series
           wanted == call[c].wanted
<1>1. /\ s \in Series /\ wanted \in SUBSET Days /\ wanted # {}
      /\ call[c].code \in AllCodes
  BY MyCall DEF CallOK, CallStates
<1> HIDE DEF s, wanted
<1>2. CASE Missing(s, wanted) = {}
  <2> DEFINE rows == SelectRows(s, wanted)
  <2>1. /\ rows \in Tables /\ wanted \subseteq DOMAIN rows /\ DOMAIN rows \subseteq Days
        /\ \A d \in DOMAIN rows : cached[s][d] # NoRow /\ rows[d] = cached[s][d]
    BY <1>1, <1>2, SelectedRows DEF Has
  <2>2. Envelope(c) = [ok |-> TRUE, rows |-> rows]
    BY <1>2 DEF Envelope, s, wanted
  <2> HIDE DEF rows
  <2>3. Envelope(c) \in Tellings /\ Envelope(c).rows = rows
    BY <2>1, <2>2 DEF Tellings
  <2> QED
    BY <1>1, <2>1, <2>3 DEF s, wanted
<1>3. CASE Missing(s, wanted) # {}
  <2> DEFINE code == IF call[c].code = "none" THEN "DATA_UNAVAILABLE" ELSE call[c].code
  <2>1. code \in AllCodes
    BY <1>1 DEF AllCodes
  <2>2. Envelope(c) = [ok |-> FALSE, code |-> code, retriable |-> Retriable(code)]
    BY <1>3 DEF Envelope, s, wanted
  <2> HIDE DEF code
  <2>3. Retriable(code) \in BOOLEAN
    BY DEF Retriable
  <2>4. Envelope(c) \in Failures
    BY <2>1, <2>2, <2>3 DEF Failures
  <2> QED
    BY <2>4
<1> QED
  BY <1>2, <1>3

\* An answer to a reader or for the snapshot
LEMMA Answered ==
    ASSUME GateInv, NEW c \in Callers, call[c].pc = "reading",
           call[c].user \in {"reader", "snapshot"}, NEW answer,
           answer = Envelope(c) \/ answer \in Failures,
           call' = [call EXCEPT ![c].pc = "answered", ![c].answer = answer],
           UNCHANGED <<today, cached, clock, kept>>
    PROVE  GateInv'
<1>1. call[c] \in CallStates
  BY MyCall
<1>2. \/ answer \in Failures
      \/ /\ answer \in Tellings /\ call[c].series \in Series
         /\ call[c].wanted \subseteq DOMAIN answer.rows /\ DOMAIN answer.rows \subseteq Days
         /\ \A d \in DOMAIN answer.rows :
               /\ cached[call[c].series][d] # NoRow
               /\ answer.rows[d] = cached[call[c].series][d]
  BY EnvelopeOK
<1>3. PICK me : me = [call[c] EXCEPT !.pc = "answered", !.answer = answer]
  OBVIOUS
<1>4. me \in CallStates
  BY <1>1, <1>2, <1>3 DEF CallStates, Answers
<1>5. /\ me.pc = "answered" /\ me.answer = answer /\ me.user = call[c].user
      /\ me.series = call[c].series /\ me.wanted = call[c].wanted
  BY <1>1, <1>3 DEF CallStates
<1>6. CallOK(me, today, cached)
  <2>1. answer \in Failures \/ (answer \in Tellings /\ PartOf(me, cached))
    BY <1>2, <1>5 DEF PartOf
  <2> QED
    BY <1>5, <2>1 DEF CallOK
<1>7. call' = [call EXCEPT ![c] = me]
  BY <1>1, <1>3 DEF GateInv, DataTypes, CallStates
<1> QED
  BY <1>4, <1>6, <1>7, OwnStep

\* The envelope of a reader is read from the cache as it is now
LEMMA ReadStep ==
    ASSUME GateInv, NEW c \in Callers, Read(c), UNCHANGED <<clock, kept>>
    PROVE  GateInv'
BY Answered DEF Read

\* So is that of the index snapshot
LEMMA ReadSnapshotStep ==
    ASSUME GateInv, NEW c \in Callers, ReadSnapshot(c), UNCHANGED <<clock, kept>>
    PROVE  GateInv'
<1>1. call[c].pc = "reading" /\ call[c].user = "snapshot"
  BY DEF ReadSnapshot
<1>2. SnapshotOf(c) = Envelope(c) \/ SnapshotOf(c) \in Failures
  <2>1. CASE Envelope(c) \in Failures
    <3>1. Envelope(c).ok = FALSE /\ Envelope(c).code \in AllCodes
      BY <2>1 DEF Failures
    <3>2. SnapshotOf(c) = [Envelope(c) EXCEPT !.code =
                             IF @ \in {"INVALID_INPUT", "RATE_LIMIT"} THEN "UPSTREAM_ERROR" ELSE @]
      BY <3>1 DEF SnapshotOf
    <3>3. "UPSTREAM_ERROR" \in AllCodes
      BY DEF AllCodes, Codes
    <3> QED
      BY <2>1, <3>1, <3>2, <3>3 DEF Failures
  <2>2. CASE Envelope(c) \in Tellings
    <3>1. Envelope(c).ok = TRUE
      BY <2>2 DEF Tellings
    <3>2. [ok |-> FALSE, code |-> "STALE_DATA", retriable |-> FALSE] \in Failures
      BY DEF Failures, AllCodes
    <3> QED
      BY <3>1, <3>2 DEF SnapshotOf
  <2> QED
    BY <1>1, <2>1, <2>2, EnvelopeOK
<1> QED
  BY <1>1, <1>2, Answered DEF ReadSnapshot

\* The caller takes its answer and is idle again
LEMMA DoneStep ==
    ASSUME GateInv, NEW c \in Callers, Done(c), UNCHANGED <<clock, kept>>
    PROVE  GateInv'
BY QuietOK, OwnStep DEF Done

\* At midnight answers stay parts of the cache
LEMMA NextDayStep ==
    ASSUME GateInv, NextDay, UNCHANGED <<clock, kept>>
    PROVE  GateInv'
<1>1. today \in Days /\ today < MaxDay /\ today' = today + 1 /\ UNCHANGED <<cached, call>>
  BY DEF NextDay, GateInv, DataTypes
<1>2. today \leq today' /\ today' \in Days /\ today \in Int
  BY <1>1, MarketDataAssumption DEF Days
<1>3. Grows
  BY <1>1, <1>2 DEF Grows, GateInv, DataTypes
<1>4. CallsOK'
  <2>1. ASSUME NEW c \in Callers PROVE CallOK(call[c], today', cached')
    BY <1>3, MyCall, CallOKStays DEF GateInv
  <2> QED
    BY <1>1, <2>1 DEF CallsOK
<1>5. CachedPast'
  <2>1. \A d \in Days : d \leq today => d \leq today'
    BY <1>1, <1>2, MarketDataAssumption DEF Days
  <2> QED
    BY <1>1, <2>1 DEF GateInv, CachedPast, Has
<1> QED
  BY <1>1, <1>2, <1>4, <1>5 DEF GateInv, DataTypes, KeptOK

-----------------------------------------------------------------------------
\* The steps of the light

\* A colour that is kept and fresh began less than TTL ago
LEMMA GateAskStep ==
    ASSUME GateInv, NEW c \in Callers, GateAsk(c)
    PROVE  GateInv'
<1> DEFINE fresh  == Fresh(kept[today], clock)
           pc     == IF fresh THEN "answered" ELSE "evaluating"
           answer == IF fresh THEN kept[today] ELSE <<>>
<1>1. call[c] \in CallStates /\ today \in Days /\ today \in 0..MaxDay /\ clock \in Nat
  BY MyCall, MarketDataAssumption DEF Days
<1>2. /\ kept[today] \in Results
      /\ fresh => /\ kept[today].began > clock - TTL
                  /\ kept[today].asof = today
  <2>1. kept[today] \in Results
    BY <1>1 DEF GateInv, DataTypes
  <2>2. fresh => /\ kept[today].stamp = kept[today].began /\ kept[today].asof = today
                 /\ clock - kept[today].stamp < TTL
    BY <1>1 DEF GateInv, KeptOK, Fresh
  <2>3. kept[today].stamp \in Nat /\ kept[today].began \in Nat
    BY <2>1 DEF Results
  <2> QED
    BY <1>1, <2>1, <2>2, <2>3, RiskGateAssumption
<1>3. answer \in Answers /\ pc \in {"answered", "evaluating"}
  BY <1>2 DEF Answers
<1>4. call' = [call EXCEPT ![c].pc = pc, ![c].user = "gate", ![c].since = clock,
                           ![c].asof = today, ![c].answer = answer]
  BY DEF GateAsk
<1>5. pc = "answered" => answer.began > clock - TTL /\ answer.asof = today
  BY <1>2
<1> HIDE DEF fresh, pc, answer
<1>6. PICK me : me = [call[c] EXCEPT !.pc = pc, !.user = "gate", !.since = clock,
                                     !.asof = today, !.answer = answer]
  OBVIOUS
<1>7. me \in CallStates
  BY <1>1, <1>3, <1>6 DEF CallStates
<1>8. /\ me.pc = pc /\ me.user = "gate" /\ me.since = clock /\ me.asof = today
      /\ me.answer = answer /\ me.known = call[c].known
  BY <1>1, <1>6 DEF CallStates
<1>9. CallOK(me, today, cached)
  <2>1. call[c].known = <<>>
    BY MyCall DEF GateAsk, CallOK
  <2>2. Len(me.known) \leq Len(Conditions)
    <3>1. Len(Conditions) \in Nat /\ Len(<<>>) = 0
      BY RiskGateAssumption
    <3> QED
      BY <1>8, <2>1, <3>1
  <2> QED
    BY <1>1, <1>3, <1>5, <1>8, <2>2 DEF CallOK, InTime
<1>10. call' = [call EXCEPT ![c] = me]
  BY <1>1, <1>4, <1>6 DEF GateInv, DataTypes, CallStates
<1> QED
  BY <1>7, <1>9, <1>10, OwnStep DEF GateAsk

\* The gate asks the market data for the series of its next condition
LEMMA EvaluateStep ==
    ASSUME GateInv, NEW c \in Callers, Evaluate(c)
    PROVE  GateInv'
<1>1. /\ call[c] \in CallStates /\ call[c].pc = "evaluating" /\ call[c].user = "gate"
      /\ call[c].asof \in Days /\ call[c].asof \in 0..MaxDay /\ NextSeries(c) # "futures"
      /\ ~Evaluated(c)
  BY MyCall DEF Evaluate, CallOK, CallStates
<1>2. Len(call[c].known) < Len(Conditions) /\ NextSeries(c) \in Series
  <2>1. /\ call[c].known \in Seq(Verdicts) /\ Len(call[c].known) \in Nat
        /\ Len(Conditions) \in Nat /\ DOMAIN Conditions = 1..Len(Conditions)
    <3>1. call[c].known \in Seq(Verdicts)
      BY <1>1 DEF CallStates
    <3>2. Len(call[c].known) \in Nat
      BY <3>1
    <3>3. Conditions \in Seq(DOMAIN SeriesFor)
      BY RiskGateAssumption
    <3>4. Len(Conditions) \in Nat /\ DOMAIN Conditions = 1..Len(Conditions)
      BY <3>3
    <3> QED
      BY <3>1, <3>2, <3>4
  <2>2. Len(call[c].known) < Len(Conditions)
    BY <1>1, <2>1, MyCall DEF Evaluated, CallOK
  <2>3. Conditions[Len(call[c].known) + 1] \in DOMAIN SeriesFor
    BY <2>1, <2>2, RiskGateAssumption
  <2> QED
    BY <1>1, <2>2, <2>3, RiskGateAssumption DEF NextSeries
<1>3. Wanted(call[c].asof) \in SUBSET Days
  BY DEF Wanted
<1>4. PICK me : me = [call[c] EXCEPT !.pc = "looking", !.user = "gate", !.series = NextSeries(c),
                                     !.wanted = Wanted(call[c].asof), !.code = "none",
                                     !.answer = <<>>, !.asof = call[c].asof]
  OBVIOUS
<1>5. me \in CallStates /\ CallOK(me, today, cached)
  BY <1>1, <1>2, <1>3, <1>4, LookingOK
<1>6. call' = [call EXCEPT ![c] = me]
  BY <1>1, <1>4 DEF Evaluate, Looking, GateInv, DataTypes, CallStates
<1> QED
  BY <1>5, <1>6, OwnStep DEF Evaluate

\* A verdict is one more that is known
LEMMA KnownGrows ==
    ASSUME NEW known \in Seq(Verdicts), NEW verdict \in Verdicts
    PROVE  /\ Append(known, verdict) \in Seq(Verdicts)
           /\ Len(Append(known, verdict)) = Len(known) + 1 /\ Len(known) \in Nat
OBVIOUS

\* A condition of bars gets its verdict, and the gate goes on to evaluate
LEMMA JudgeStep ==
    ASSUME GateInv, NEW c \in Callers, NEW verdict \in Verdicts, Judge(c, verdict)
    PROVE  GateInv'
<1> DEFINE known == Append(call[c].known, verdict)
<1>1. /\ call[c] \in CallStates /\ call[c].user = "gate" /\ call[c].asof \in Days
      /\ call[c].known \in Seq(Verdicts) /\ Len(call[c].known) < Len(Conditions)
  BY MyCall DEF Judge, CallOK, CallStates
<1>2. known \in Seq(Verdicts) /\ Len(known) \leq Len(Conditions)
  BY <1>1, KnownGrows, RiskGateAssumption
<1> HIDE DEF known
<1>3. PICK me : me = [Quiet EXCEPT !.pc = "evaluating", !.user = "gate",
                                   !.since = call[c].since, !.asof = call[c].asof,
                                   !.known = known]
  OBVIOUS
<1>4. me \in CallStates
  BY <1>1, <1>2, <1>3, QuietOK DEF CallStates
<1>5. /\ me.pc = "evaluating" /\ me.user = "gate" /\ me.asof = call[c].asof
      /\ me.known = known
  BY <1>1, <1>2, <1>3, QuietOK DEF CallStates
<1>6. CallOK(me, today, cached)
  BY <1>1, <1>2, <1>5 DEF CallOK
<1>7. call' = [call EXCEPT ![c] = me]
  BY <1>3 DEF Judge, known
<1> QED
  BY <1>4, <1>6, <1>7, OwnStep DEF Judge

\* So does the condition of the futures
LEMMA JudgeFuturesStep ==
    ASSUME GateInv, NEW c \in Callers, NEW verdict \in Verdicts, JudgeFutures(c, verdict)
    PROVE  GateInv'
<1> DEFINE known == Append(call[c].known, verdict)
<1>1. /\ call[c] \in CallStates /\ CallOK(call[c], today, cached)
      /\ call[c].pc = "evaluating" /\ call[c].known \in Seq(Verdicts)
      /\ Len(call[c].known) # Len(Conditions)
  BY MyCall DEF JudgeFutures, Evaluated, CallStates
<1>2. known \in Seq(Verdicts) /\ Len(known) \leq Len(Conditions)
  <2>1. /\ known \in Seq(Verdicts) /\ Len(known) = Len(call[c].known) + 1
        /\ Len(call[c].known) \in Nat /\ Len(Conditions) \in Nat
    BY <1>1, KnownGrows, RiskGateAssumption
  <2>2. Len(call[c].known) \leq Len(Conditions)
    BY <1>1 DEF CallOK
  <2> QED
    BY <1>1, <2>1, <2>2
<1> HIDE DEF known
<1>3. PICK me : me = [call[c] EXCEPT !.known = known]
  OBVIOUS
<1>4. me \in CallStates
  BY <1>1, <1>2, <1>3 DEF CallStates
<1>5. /\ me.pc = call[c].pc /\ me.user = call[c].user /\ me.asof = call[c].asof
      /\ me.known = known
  BY <1>1, <1>2, <1>3 DEF CallStates
<1>6. CallOK(me, today, cached)
  BY <1>1, <1>2, <1>5 DEF CallOK
<1>7. call' = [call EXCEPT ![c] = me]
  BY <1>1, <1>3 DEF JudgeFutures, known, GateInv, DataTypes, CallStates
<1> QED
  BY <1>4, <1>6, <1>7, OwnStep DEF JudgeFutures

\* A colour is kept with the time its evaluation began, for the day it is of
LEMMA GateStoreStep ==
    ASSUME GateInv, NEW c \in Callers, GateStore(c)
    PROVE  GateInv'
<1> DEFINE result == [stamp |-> Stamp(c), began |-> call[c].since, asof |-> call[c].asof,
                      status |-> Colour(call[c].known)]
<1>1. /\ call[c] \in CallStates /\ call[c].pc = "evaluating" /\ call[c].user = "gate"
      /\ call[c].asof \in Days /\ call[c].asof \in 0..MaxDay /\ call[c].since \in Nat
  BY MyCall DEF GateStore, CallOK, CallStates
<1>2. Colour(call[c].known) \in {"green", "yellow", "red"}
  BY DEF Colour
<1>3. /\ result \in Results /\ result.stamp = result.began /\ result.began = call[c].since
      /\ result.asof = call[c].asof
  BY <1>1, <1>2 DEF Results, Stamp
<1>4. /\ call' = [call EXCEPT ![c].pc = "answered", ![c].answer = result, ![c].known = <<>>]
      /\ kept' = [kept EXCEPT ![call[c].asof] = result]
      /\ UNCHANGED <<today, cached, clock>>
  BY DEF GateStore
<1> HIDE DEF result
<1>5. PICK me : me = [call[c] EXCEPT !.pc = "answered", !.answer = result, !.known = <<>>]
  OBVIOUS
<1>6. me \in CallStates
  <2>1. result \in Answers /\ <<>> \in Seq(Verdicts)
    BY <1>3 DEF Answers
  <2> QED
    BY <1>1, <1>5, <2>1 DEF CallStates
<1>7. /\ me.pc = "answered" /\ me.user = "gate" /\ me.asof = call[c].asof
      /\ me.since = call[c].since /\ me.answer = result
  BY <1>1, <1>5 DEF CallStates
<1>8. CallOK(me, today, cached)
  <2>1. InTime(me)
    BY <1>1, <1>3, <1>7, RiskGateAssumption DEF InTime
  <2> QED
    BY <1>1, <1>7, <2>1 DEF CallOK
<1>9. call' = [call EXCEPT ![c] = me]
  BY <1>1, <1>4, <1>5 DEF GateInv, DataTypes, CallStates
<1>10. Grows
  BY <1>4, MarketDataAssumption DEF Grows, GateInv, DataTypes, Days
<1>11. call' \in [Callers -> CallStates] /\ CallsOK'
  BY <1>4, <1>6, <1>8, <1>9, <1>10, CallStep
<1>12. kept' \in [Days -> Results] /\ KeptOK'
  BY <1>1, <1>3, <1>4 DEF GateInv, DataTypes, KeptOK
<1>13. CachedPast'
  BY <1>4 DEF GateInv, CachedPast, Has
<1> QED
  BY <1>4, <1>11, <1>12, <1>13 DEF GateInv, DataTypes

\* The clock alone changes nothing that was promised
LEMMA TickStep ==
    ASSUME GateInv, Tick
    PROVE  GateInv'
<1>1. clock \in Nat /\ clock' = clock + 1 /\ UNCHANGED <<today, cached, call, kept>>
  BY DEF Tick, dataVars, GateInv, DataTypes
<1> QED
  BY <1>1 DEF GateInv, DataTypes, CachedPast, CallsOK, KeptOK, Has

-----------------------------------------------------------------------------
\* The theorems

\* Every step of the gate and of the market data keeps the invariant
LEMMA GateInvNext == GateInv /\ [GateNext]_gateVars => GateInv'
<1> SUFFICES ASSUME GateInv, [GateNext]_gateVars PROVE GateInv'
  OBVIOUS
<1>1. CASE DataNext /\ UNCHANGED <<clock, kept>>
  <2>1. ASSUME NEW c \in Callers, Fetching(c) PROVE GateInv'
    BY <1>1, <2>1, LookStep, FetchFailsStep, FetchRowsStep, StoreStep DEF Fetching
  <2>2. ASSUME NEW c \in Callers, NEW user \in {"reader", "snapshot"}, NEW s \in Series,
               NEW end \in Days, Ask(c, user, s, end)
        PROVE  GateInv'
    BY <1>1, <2>2, AskStep
  <2>3. ASSUME NEW c \in Callers, AskWrongly(c) \/ Read(c) \/ ReadSnapshot(c) \/ Done(c)
        PROVE  GateInv'
    BY <1>1, <2>3, AskWronglyStep, ReadStep, ReadSnapshotStep, DoneStep
  <2> QED
    BY <1>1, <2>1, <2>2, <2>3, NextDayStep DEF DataNext
<1>2. ASSUME NEW c \in Callers,
             \/ GateAsk(c) \/ Evaluate(c) \/ GateStore(c)
             \/ \E v \in Verdicts : Judge(c, v) \/ JudgeFutures(c, v)
      PROVE  GateInv'
  BY <1>2, GateAskStep, EvaluateStep, GateStoreStep, JudgeStep, JudgeFuturesStep
<1>3. CASE Tick
  BY <1>3, TickStep
<1>4. CASE UNCHANGED gateVars
  BY <1>4 DEF gateVars, dataVars, GateInv, DataTypes, CachedPast, CallsOK, KeptOK, Has
<1> QED
  BY <1>1, <1>2, <1>3, <1>4 DEF GateNext

\* The invariant holds in every behaviour
LEMMA GateInvAlways == GateSpec => []GateInv
BY GateInvInit, GateInvNext, PTL DEF GateSpec

\* However many threads and processes fetch the same days (data/market_data.py:83),
\* from whatever sources and on whatever dates, two answers that hold a row of the
\* same day hold the same row; each has all the days it wants and none to come.
THEOREM ToldOnce == GateSpec => []AnswersAgree
<1>1. GateInv => AnswersAgree
  <2> SUFFICES ASSUME GateInv, NEW c \in Callers, NEW other \in Callers, IsRows(c)
               PROVE  LET rows   == call[c].answer.rows
                          theirs == call[other].answer.rows
                      IN  /\ call[c].wanted \subseteq DOMAIN rows /\ DOMAIN rows \subseteq 1..today
                          /\ IsRows(other) /\ call[c].series = call[other].series =>
                               \A d \in DOMAIN rows \cap DOMAIN theirs : rows[d] = theirs[d]
    BY DEF AnswersAgree
  <2>1. ASSUME NEW k \in Callers, IsRows(k) PROVE PartOf(call[k], cached)
    <3>1. /\ call[k].pc = "answered" /\ call[k].user # "gate" /\ call[k].answer.ok
          /\ CallOK(call[k], today, cached)
      BY <2>1, MyCall DEF IsRows
    <3>2. call[k].answer \notin Failures
      BY <3>1 DEF Failures
    <3> QED
      BY <3>1, <3>2 DEF CallOK
  <2>2. PartOf(call[c], cached)
    BY <2>1
  <2>3. DOMAIN call[c].answer.rows \subseteq 1..today
    <3>1. \A d \in DOMAIN call[c].answer.rows : d \in Days /\ d \leq today
      BY <2>2 DEF PartOf, GateInv, CachedPast, Has
    <3> QED
      BY <3>1, MarketDataAssumption, MyCall DEF Days
  <2> QED
    BY <2>1, <2>2, <2>3 DEF PartOf
<1> QED
  BY <1>1, GateInvAlways, PTL

\* Whatever evaluations of the light overlap, and in which order they end
\* (swarm/market_risk_gate.py:240), no colour is shown that began TTL or longer
\* before it was asked for, or that is of another day.
THEOREM NeverStale == GateSpec => []ServedFresh
<1>1. GateInv => ServedFresh
  BY MyCall DEF ServedFresh, CallOK, InTime
<1> QED
  BY <1>1, GateInvAlways, PTL
=============================================================================
