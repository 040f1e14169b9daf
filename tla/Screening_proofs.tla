-------------------------- MODULE Screening_proofs --------------------------
(***************************************************************************)
(* What is proved of the screener, the ratings, the scores and the bus,    *)
(* for any callers, streams, symbols, days, bars and requests:             *)
(*                                                                         *)
(*   RatingsOnce          a day that has ratings is not rated again;       *)
(*   StreamsStayFaithful  an open stream loses nothing but what did not    *)
(*                        fit in its queue or was in a walk that ended     *)
(*                        before it, and keeps each caller's order; its    *)
(*                        queue is bounded, its labels are everyone's;     *)
(*   ScreensAlwaysPublished   a screen is told as it is answered;          *)
(*   ScansAlwaysRanked    a scan answers with the best of its rows;        *)
(*   StagesAlwaysAgree    stage, sub-scorers and template never contradict *)
(*                        each other.                                      *)
(***************************************************************************)
EXTENDS Scoring, FiniteSetTheorems, SequenceTheorems, WellFoundedInduction, TLAPS

-----------------------------------------------------------------------------
\* The calls

\* A call has the locals of a call, and is one of a caller's
IsCall(call) == DOMAIN call = DOMAIN Idle

Calls ==
    /\ DOMAIN op = Callers
    /\ \A c \in Callers : IsCall(op[c])
    /\ DOMAIN ratings = Days

\* The places between the look that found no ratings of the day and the write
RatingPlaces == {"rostering", "loading"}

\* One caller's call becomes another one
BecomesOf(c, call) == op' = [op EXCEPT ![c] = call]

\* What a step may do to a day that has ratings
KeepsDay(d) ==
    ratings[d] # Nothing =>
        /\ Computing(d)' \subseteq Computing(d)
        /\ Computing(d) = {} => ratings'[d] = ratings[d]

\* The calls and the days stay what they are
Fine == Calls' /\ \A d \in Days : KeepsDay(d)

\* A step that puts a call outside the rating places, and keeps the ratings, is
\* fine: it is what all steps of a screen, a page and a scan do.
LEMMA QuietStep ==
    ASSUME Calls, NEW c \in Callers, NEW call, BecomesOf(c, call), IsCall(call),
           call.pc \notin RatingPlaces, ratings' = ratings
    PROVE  Fine
<1>1. /\ DOMAIN op' = Callers
      /\ op'[c] = call
      /\ \A e \in Callers \ {c} : op'[e] = op[e]
    BY DEF Calls, BecomesOf
<1>2. Calls'
    BY <1>1 DEF Calls
<1>3. ASSUME NEW d \in Days
      PROVE  Computing(d)' \subseteq Computing(d)
    BY <1>1 DEF Computing, RatingPlaces
<1>4. QED
    BY <1>2, <1>3 DEF Fine, KeepsDay

\* A step that leaves the calls and the ratings as they are is fine.
LEMMA OtherStep ==
    ASSUME Calls, op' = op, ratings' = ratings
    PROVE  Fine
    BY DEF Calls, Fine, KeepsDay, Computing

\* A step of a call that stays in the rating places, with its day, is fine.
LEMMA RatingStep ==
    ASSUME Calls, NEW c \in Callers, NEW call, BecomesOf(c, call), IsCall(call),
           op[c].pc \in RatingPlaces, call.asof = op[c].asof, ratings' = ratings
    PROVE  Fine
<1>1. /\ DOMAIN op' = Callers
      /\ op'[c] = call
      /\ \A e \in Callers \ {c} : op'[e] = op[e]
    BY DEF Calls, BecomesOf
<1>2. Calls'
    BY <1>1 DEF Calls
<1>3. ASSUME NEW d \in Days
      PROVE  Computing(d)' \subseteq Computing(d)
    BY <1>1 DEF Computing, RatingPlaces
<1>4. QED
    BY <1>2, <1>3 DEF Fine, KeepsDay

\* The answer of a call is a call outside the rating places.
LEMMA AnswersQuietly ==
    ASSUME Calls, NEW c \in Callers, NEW answer, AnswerWith(c, answer), ratings' = ratings
    PROVE  Fine
<1> DEFINE call == [Idle EXCEPT !.pc = "answered", !.kind = op[c].kind,
                                !.asof = op[c].asof, !.answer = answer]
<1>1. IsCall(call) /\ call.pc = "answered"
    BY DEF IsCall, Idle
<1>2. BecomesOf(c, call)
    BY DEF AnswerWith, BecomesOf
<1> HIDE DEF call
<1>3. call.pc \notin RatingPlaces
    BY <1>1 DEF RatingPlaces
<1>4. QED
    BY <1>1, <1>2, <1>3, QuietStep

-----------------------------------------------------------------------------
\* The screener

\* A call that only gets another place, its other locals whatever they are.
LEMMA PlacesQuietly ==
    ASSUME Calls, NEW c \in Callers, NEW call, BecomesOf(c, call),
           DOMAIN call = DOMAIN op[c], call.pc \notin RatingPlaces, ratings' = ratings
    PROVE  Fine
    BY QuietStep DEF Calls, IsCall

\* The steps of a screen rate nothing.
LEMMA ScreeningIsFine ==
    ASSUME Calls, NEW c \in Callers, Screening(c), ratings' = ratings
    PROVE  Fine
<1>0. IsCall(op[c]) /\ "pc" \in DOMAIN op[c] /\ "asof" \in DOMAIN op[c]
    BY DEF Calls, IsCall, Idle
<1>1. ASSUME NEW request \in Requests, Screen(c, request)
      PROVE  Fine
    <2> DEFINE begun   == [Idle EXCEPT !.pc = "resolving", !.kind = "screen", !.asof = request.asof,
                                       !.request = request, !.filters = request.filters]
               refused == [Idle EXCEPT !.pc = "answered", !.kind = "screen",
                                       !.answer = Refused("INVALID_INPUT")]
               call    == IF Valid(request) THEN begun ELSE refused
    <2>1. IsCall(begun) /\ begun.pc = "resolving"
        BY DEF IsCall, Idle
    <2>2. IsCall(refused) /\ refused.pc = "answered"
        BY DEF IsCall, Idle
    <2>3. BecomesOf(c, call)
        BY <1>1 DEF Screen, BecomesOf
    <2> HIDE DEF begun, refused
    <2>4. IsCall(call) /\ call.pc \notin RatingPlaces
        BY <2>1, <2>2 DEF RatingPlaces
    <2> HIDE DEF call
    <2>5. QED
        BY <2>3, <2>4, QuietStep
<1>2. CASE Resolve(c)
    <2> DEFINE call == [op[c] EXCEPT
                          !.pc = IF InReach(op[c].asof) = {} THEN "fetching" ELSE "selecting",
                          !.asof = IF InReach(@) = {} THEN @ ELSE Max(InReach(@))]
    <2>1. DOMAIN call = DOMAIN op[c] /\ call.pc \in {"fetching", "selecting"}
        BY <1>0
    <2>2. BecomesOf(c, call)
        BY <1>2 DEF Resolve, BecomesOf
    <2> HIDE DEF call
    <2>3. QED
        BY <2>1, <2>2, PlacesQuietly DEF RatingPlaces
<1>3. ASSUME NEW code, FetchFails(c, code)
      PROVE  Fine
    BY <1>3, AnswersQuietly DEF FetchFails
<1>4. ASSUME NEW raw \in Listings, Fetch(c, raw)
      PROVE  Fine
    <2>1. CASE Aggregated(raw) = {}
        BY <1>4, <2>1, AnswersQuietly DEF Fetch
    <2>2. CASE Aggregated(raw) # {}
        <3> DEFINE call == [op[c] EXCEPT !.pc = "selecting"]
        <3>1. DOMAIN call = DOMAIN op[c] /\ call.pc = "selecting"
            BY <1>0
        <3>2. BecomesOf(c, call)
            BY <1>4, <2>2 DEF Fetch, BecomesOf
        <3> HIDE DEF call
        <3>3. QED
            BY <3>1, <3>2, PlacesQuietly DEF RatingPlaces
    <2>3. QED
        BY <2>1, <2>2
<1>5. CASE Select(c)
    <2> DEFINE rows == Selected(op[c].request, op[c].asof)
               call == [op[c] EXCEPT !.pc = "filtering", !.rows = rows,
                                     !.size = Cardinality(rows)]
    <2>1. DOMAIN call = DOMAIN op[c] /\ call.pc = "filtering"
        BY <1>0
    <2>2. BecomesOf(c, call)
        BY <1>5 DEF Select, BecomesOf
    <2> HIDE DEF call
    <2>3. QED
        BY <2>1, <2>2, PlacesQuietly DEF RatingPlaces
<1>6. CASE FilterFails(c)
    BY <1>6, AnswersQuietly DEF FilterFails
<1>7. CASE Filter(c)
    <2> DEFINE f    == Head(op[c].filters)
               left == [op[c] EXCEPT !.rows = NegativeFilter(@, f.exclude), !.filters = Tail(@)]
               read == [op[c] EXCEPT !.pc = "averaging", !.left = op[c].rows, !.rows = {}]
    <2>1. DOMAIN left = DOMAIN op[c] /\ left.pc = op[c].pc
        BY <1>0
    <2>2. DOMAIN read = DOMAIN op[c] /\ read.pc = "averaging"
        BY <1>0
    <2>3. op[c].pc = "filtering" /\ (BecomesOf(c, left) \/ BecomesOf(c, read))
        BY <1>7 DEF Filter, BecomesOf
    <2> HIDE DEF left, read
    <2>4. QED
        BY <2>1, <2>2, <2>3, PlacesQuietly DEF RatingPlaces
<1>8. CASE Average(c)
    <2> DEFINE s      == Min(op[c].left)
               days   == LastBars(s, op[c].asof)
               f      == Head(op[c].filters)
               amount == FoldSet(LAMBDA d, sum : sum + BarOf[bars[s][d]].amount, 0, days)
               enough == Cardinality(days) = AvgDays /\ amount >= f.min * AvgDays
               call   == [op[c] EXCEPT !.left = @ \ {s},
                                     !.rows = IF enough THEN @ \cup {s} ELSE @]
    <2>1. DOMAIN call = DOMAIN op[c] /\ call.pc = op[c].pc
        BY <1>0
    <2>2. op[c].pc = "averaging"
          /\ (AnswerWith(c, Refused("DATA_UNAVAILABLE")) \/ BecomesOf(c, call))
        BY <1>8 DEF Average, BecomesOf
    <2> HIDE DEF call
    <2>3. QED
        BY <2>1, <2>2, PlacesQuietly, AnswersQuietly DEF RatingPlaces
<1>9. CASE Averaged(c)
    <2> DEFINE call == [op[c] EXCEPT !.pc = "filtering", !.filters = Tail(@)]
    <2>1. DOMAIN call = DOMAIN op[c] /\ call.pc = "filtering"
        BY <1>0
    <2>2. BecomesOf(c, call)
        BY <1>9 DEF Averaged, BecomesOf
    <2> HIDE DEF call
    <2>3. QED
        BY <2>1, <2>2, PlacesQuietly DEF RatingPlaces
<1>10. CASE Complete(c)
    <2> DEFINE call == [op[c] EXCEPT !.pc = "completing"]
    <2>1. DOMAIN call = DOMAIN op[c] /\ call.pc = "completing"
        BY <1>0
    <2>2. BecomesOf(c, call)
        BY <1>10 DEF Complete, BecomesOf
    <2> HIDE DEF call
    <2>3. QED
        BY <2>1, <2>2, PlacesQuietly DEF RatingPlaces
<1>11. CASE Answer(c)
    BY <1>11, AnswersQuietly DEF Answer
<1>12. CASE Done(c)
    <2>1. IsCall(Idle) /\ Idle.pc \notin RatingPlaces
        BY DEF IsCall, Idle, RatingPlaces
    <2>2. BecomesOf(c, Idle)
        BY <1>12 DEF Done, BecomesOf
    <2>3. QED
        BY <2>1, <2>2, QuietStep
<1>13. QED
    BY <1>1, <1>2, <1>3, <1>4, <1>5, <1>6, <1>7, <1>8, <1>9, <1>10, <1>11, <1>12
    DEF Screening

\* Whatever the bus and the streams, the screens and the other parts do, they rate
\* nothing.
LEMMA ScreenerIsFine ==
    ASSUME Calls, ScreenNext, ratings' = ratings
    PROVE  Fine
<1>1. CASE BusNext /\ UNCHANGED <<roster, bars, op, ops>>
    BY <1>1, OtherStep
<1>2. ASSUME NEW c \in Callers, Screening(c)
      PROVE  Fine
    BY <1>2, ScreeningIsFine
<1>3. ASSUME NEW b \in BarsToCome, StoreBar(b)
      PROVE  Fine
    BY <1>3, OtherStep DEF StoreBar
<1>4. QED
    BY <1>1, <1>2, <1>3 DEF ScreenNext

-----------------------------------------------------------------------------
\* The ratings

\* The step of a call that has its rating takes it out of the rating places.
LEMMA HasRatingQuietly ==
    ASSUME Calls, NEW c \in Callers, NEW rating, HasRating(c, rating)
    PROVE  \E call : /\ BecomesOf(c, call) /\ IsCall(call)
                     /\ call.pc = "rated" /\ call.asof = op[c].asof
<1> DEFINE call == [op[c] EXCEPT !.pc = "rated", !.answer = rating, !.closes = <<>>]
<1>1. IsCall(op[c]) /\ "pc" \in DOMAIN op[c] /\ "asof" \in DOMAIN op[c]
    BY DEF Calls, IsCall, Idle
<1>2. IsCall(call) /\ call.pc = "rated" /\ call.asof = op[c].asof
    BY <1>1 DEF IsCall
<1>3. BecomesOf(c, call)
    BY DEF HasRating, BecomesOf
<1> HIDE DEF call
<1>4. QED
    BY <1>2, <1>3

\* A call enters the rating places only for a day without ratings.
LEMMA LookUpIsFine ==
    ASSUME Calls, NEW c \in Callers, LookUp(c)
    PROVE  Fine
<1> DEFINE table == ratings[op[c].asof]
           call  == [op[c] EXCEPT !.pc = "rostering"]
<1>0. ratings' = ratings /\ op[c].pc = "looking"
    BY DEF LookUp
<1>1. CASE Hit(table, op[c].symbol)
    <2>1. HasRating(c, RatingIn(table, op[c].symbol))
        BY <1>1 DEF LookUp
    <2>2. QED
        BY <1>0, <2>1, HasRatingQuietly, QuietStep DEF RatingPlaces
<1>2. CASE ~Hit(table, op[c].symbol)
    <2>1. table = Nothing
        BY <1>2 DEF Hit
    <2>2. IsCall(op[c]) /\ "pc" \in DOMAIN op[c] /\ "asof" \in DOMAIN op[c]
        BY DEF Calls, IsCall, Idle
    <2>3. IsCall(call) /\ call.asof = op[c].asof
        BY <2>2 DEF IsCall
    <2>4. BecomesOf(c, call)
        BY <1>2 DEF LookUp, BecomesOf
    <2> HIDE DEF call
    <2>5. /\ DOMAIN op' = Callers
          /\ op'[c] = call
          /\ \A e \in Callers \ {c} : op'[e] = op[e]
        BY <2>4 DEF Calls, BecomesOf
    <2>6. Calls'
        BY <1>0, <2>3, <2>5 DEF Calls
    <2>7. ASSUME NEW d \in Days, ratings[d] # Nothing
          PROVE  Computing(d)' \subseteq Computing(d)
        BY <2>1, <2>3, <2>5, <2>7 DEF Computing
    <2>8. QED
        BY <1>0, <2>6, <2>7 DEF Fine, KeepsDay
<1>3. QED
    BY <1>1, <1>2

\* Only a call in the rating places writes, and only the ratings of its day.
LEMMA WriteIsFine ==
    ASSUME Calls, NEW c \in Callers, WriteRatings(c)
    PROVE  Fine
<1>1. PICK call : BecomesOf(c, call) /\ IsCall(call) /\ call.pc = "rated"
    BY HasRatingQuietly DEF WriteRatings
<1>2. /\ DOMAIN op' = Callers
      /\ op'[c] = call
      /\ \A e \in Callers \ {c} : op'[e] = op[e]
    BY <1>1 DEF Calls, BecomesOf
<1>3. DOMAIN ratings' = Days /\ \A d \in Days \ {op[c].asof} : ratings'[d] = ratings[d]
    BY DEF WriteRatings, Calls
<1>4. Calls'
    BY <1>1, <1>2, <1>3 DEF Calls
<1>5. ASSUME NEW d \in Days
      PROVE  Computing(d)' \subseteq Computing(d)
    BY <1>1, <1>2 DEF Computing
<1>6. ASSUME NEW d \in Days, Computing(d) = {}
      PROVE  ratings'[d] = ratings[d]
    <2>1. op[c].pc = "loading"
        BY DEF WriteRatings
    <2>2. d # op[c].asof
        BY <1>6, <2>1 DEF Computing
    <2>3. QED
        BY <1>3, <2>2
<1>7. QED
    BY <1>4, <1>5, <1>6 DEF Fine, KeepsDay

\* The steps of a call up to its rating are fine.
LEMMA RatingIsFine ==
    ASSUME Calls, NEW c \in Callers, Rating(c)
    PROVE  Fine
<1>0. IsCall(op[c]) /\ "pc" \in DOMAIN op[c] /\ "asof" \in DOMAIN op[c]
    BY DEF Calls, IsCall, Idle
<1>1. CASE LookUp(c)
    BY <1>1, LookUpIsFine
<1>2. CASE LoadRoster(c)
    <2> DEFINE call == [op[c] EXCEPT !.pc = "loading",
                                     !.left = roster[op[c].asof] \ Disposed]
    <2>1. IsCall(call) /\ call.asof = op[c].asof
        BY <1>0 DEF IsCall
    <2>2. BecomesOf(c, call) /\ op[c].pc = "rostering" /\ ratings' = ratings
        BY <1>2 DEF LoadRoster, BecomesOf
    <2> HIDE DEF call
    <2>3. QED
        BY <2>1, <2>2, RatingStep DEF RatingPlaces
<1>3. CASE LoadCloses(c)
    <2> DEFINE s      == Min(op[c].left)
               closes == ClosesOf(s, op[c].asof)
               call   == [op[c] EXCEPT
                            !.left = @ \ {s},
                            !.closes = IF Len(closes) < MinCloses THEN @
                                       ELSE [t \in DOMAIN @ \cup {s} |-> IF t = s THEN closes ELSE @[t]]]
    <2>1. IsCall(call) /\ call.asof = op[c].asof
        BY <1>0 DEF IsCall
    <2>2. BecomesOf(c, call) /\ op[c].pc = "loading" /\ ratings' = ratings
        BY <1>3 DEF LoadCloses, BecomesOf
    <2> HIDE DEF call
    <2>3. QED
        BY <2>1, <2>2, RatingStep DEF RatingPlaces
<1>4. CASE WriteRatings(c)
    BY <1>4, WriteIsFine
<1>5. CASE RatingFails(c)
    BY <1>5, HasRatingQuietly, QuietStep DEF RatingFails, RatingPlaces
<1>6. QED
    BY <1>1, <1>2, <1>3, <1>4, <1>5 DEF Rating

-----------------------------------------------------------------------------
\* All steps

\* A step of the ratings, or of what they rest on, is fine.
LEMMA RsStepIsFine ==
    ASSUME Calls, RsNext
    PROVE  Fine
<1>1. CASE ScreenNext /\ UNCHANGED ratings
    BY <1>1, ScreenerIsFine
<1>2. ASSUME NEW c \in Callers, NEW d \in Asofs, Rate(c, d)
      PROVE  Fine
    <2> DEFINE call == [Idle EXCEPT !.pc = "looking", !.kind = "rate", !.symbol = Trigger, !.asof = d]
    <2>1. IsCall(call) /\ call.pc = "looking"
        BY DEF IsCall, Idle
    <2>2. BecomesOf(c, call) /\ ratings' = ratings
        BY <1>2 DEF Rate, BecomesOf
    <2> HIDE DEF call
    <2>3. QED
        BY <2>1, <2>2, QuietStep DEF RatingPlaces
<1>3. ASSUME NEW c \in Callers, NEW page \in Pages, ShowPage(c, page)
      PROVE  Fine
    <2> DEFINE shown == Page(page.symbol, page.today, page.days)
               call  == [Idle EXCEPT !.pc = "answered", !.kind = "page", !.symbol = page.symbol,
                                     !.asof = page.today, !.answer = shown]
    <2>1. BecomesOf(c, call) /\ ratings' = ratings
        BY <1>3 DEF ShowPage, BecomesOf
    <2> HIDE DEF shown
    <2>2. IsCall(call) /\ call.pc = "answered"
        BY DEF IsCall, Idle
    <2> HIDE DEF call
    <2>3. QED
        BY <2>1, <2>2, QuietStep DEF RatingPlaces
<1>4. ASSUME NEW c \in Callers, Rating(c)
      PROVE  Fine
    BY <1>4, RatingIsFine
<1>5. ASSUME NEW c \in Callers, Rated(c)
      PROVE  Fine
    BY <1>5, AnswersQuietly DEF Rated
<1>6. QED
    BY <1>1, <1>2, <1>3, <1>4, <1>5 DEF RsNext

\* The steps of a scan are fine.
LEMMA ScanIsFine ==
    ASSUME Calls, NEW c \in Callers,
           \/ \E request \in Scans : Scan(c, request)
           \/ BuildContext(c) \/ ScoreSymbol(c) \/ AnswerScan(c)
    PROVE  Fine
<1>0. IsCall(op[c]) /\ "pc" \in DOMAIN op[c] /\ "asof" \in DOMAIN op[c]
    BY DEF Calls, IsCall, Idle
<1>1. ASSUME NEW request \in Scans, Scan(c, request)
      PROVE  Fine
    <2> DEFINE refused == [Idle EXCEPT !.pc = "answered", !.kind = "scan",
                                       !.answer = Refused("INVALID_INPUT")]
               raised  == [Idle EXCEPT !.pc = "answered", !.kind = "scan",
                                       !.answer = Refused("INTERNAL_ERROR")]
               begun   == [Idle EXCEPT !.pc = "scoring", !.kind = "scan", !.asof = request.asof,
                                       !.request = request, !.rows = <<>>]
    <2>1. BecomesOf(c, refused) \/ BecomesOf(c, raised) \/ BecomesOf(c, begun)
        BY <1>1 DEF Scan, BecomesOf
    <2>2. ratings' = ratings
        BY <1>1 DEF Scan
    <2>3. IsCall(refused) /\ refused.pc = "answered"
        BY DEF IsCall, Idle
    <2>4. IsCall(raised) /\ raised.pc = "answered"
        BY DEF IsCall, Idle
    <2>5. IsCall(begun) /\ begun.pc = "scoring"
        BY DEF IsCall, Idle
    <2> HIDE DEF refused, raised, begun
    <2>6. QED
        BY <2>1, <2>2, <2>3, <2>4, <2>5, QuietStep DEF RatingPlaces
<1>2. CASE BuildContext(c)
    <2> DEFINE symbol == op[c].request.symbols[Len(op[c].rows) + 1]
               read   == [bars |-> KlineBars(symbol, op[c].asof), flow |-> FlowOf[symbol]]
               call   == [op[c] EXCEPT !.pc = "looking", !.symbol = symbol, !.context = read]
    <2>1. BecomesOf(c, call) /\ ratings' = ratings
        BY <1>2 DEF BuildContext, BecomesOf
    <2> HIDE DEF read, symbol
    <2>2. DOMAIN call = DOMAIN op[c] /\ call.pc = "looking"
        BY <1>0
    <2> HIDE DEF call
    <2>3. QED
        BY <2>1, <2>2, PlacesQuietly DEF RatingPlaces
<1>3. CASE ScoreSymbol(c)
    <2> DEFINE context   == [op[c].context EXCEPT !.bars = [i \in DOMAIN @ |-> BarOf[@[i]]]]
               candidate == Candidate(op[c].symbol, context, op[c].answer,
                                      op[c].request.resolver = "risk_off")
               call      == [op[c] EXCEPT !.pc = "scoring", !.rows = Append(@, candidate),
                                          !.symbol = 0, !.context = <<>>, !.answer = <<>>]
    <2>1. BecomesOf(c, call) /\ ratings' = ratings
        BY <1>3 DEF ScoreSymbol, BecomesOf
    <2> HIDE DEF candidate
    <2>2. DOMAIN call = DOMAIN op[c] /\ call.pc = "scoring"
        BY <1>0
    <2> HIDE DEF call
    <2>3. QED
        BY <2>1, <2>2, PlacesQuietly DEF RatingPlaces
<1>4. CASE AnswerScan(c)
    BY <1>4, AnswersQuietly DEF AnswerScan
<1>5. QED
    BY <1>1, <1>2, <1>3, <1>4

\* The calls begin, and stay, calls of the callers, whatever happens.
LEMMA CallsBegin == RsInit => Calls
<1>1. IsCall(Idle)
    BY DEF IsCall, Idle
<1>2. RsInit => op = [c \in Callers |-> Idle] /\ DOMAIN ratings = Days
    BY DEF RsInit, ScreenInit
<1>3. QED
    BY <1>1, <1>2 DEF Calls

\* Every step keeps the calls calls, and does to a day that has ratings only what it may.
LEMMA StepIsFine ==
    ASSUME Calls, [ScoreNext]_rsVars
    PROVE  Fine
<1>1. CASE RsNext
    BY <1>1, RsStepIsFine
<1>2. ASSUME NEW c \in Callers,
             \/ \E request \in Scans : Scan(c, request)
             \/ BuildContext(c) \/ ScoreSymbol(c) \/ AnswerScan(c)
      PROVE  Fine
    BY <1>2, ScanIsFine
<1>3. CASE UNCHANGED rsVars
    BY <1>3, OtherStep DEF rsVars, screenVars
<1>4. QED
    BY <1>1, <1>2, <1>3 DEF ScoreNext

\* A day that has ratings is not rated again: whatever symbol is asked for, in a
\* scan or by the script, and whatever bars or roster come in meanwhile, the only
\* calls that still write are those that had begun before there were any, and once
\* they have written the ratings of the day stand.
THEOREM RatingsOnce == ScoreSpec => RatingsSettle
<1>1. RsInit => Calls
    BY CallsBegin
<1>2. Calls /\ [ScoreNext]_rsVars => Fine
    BY StepIsFine
<1>3. Fine => Calls' /\ [\A d \in Days : ratings[d] # Nothing =>
                            /\ Computing(d)' \subseteq Computing(d)
                            /\ Computing(d) = {} => ratings'[d] = ratings[d]]_rsVars
    BY DEF Fine, KeepsDay
<1>4. QED
    BY <1>1, <1>2, <1>3, PTL DEF ScoreSpec, RatingsSettle

-----------------------------------------------------------------------------
\* Sequences of anything

IsSeq(seq) == seq \in Seq(Range(seq))

Distinct(seq) == \A i, j \in 1..Len(seq) : seq[i] = seq[j] => i = j

\* What is a sequence of some set is one of its own elements.
LEMMA OwnElements ==
    ASSUME NEW S, NEW seq \in Seq(S)
    PROVE  /\ IsSeq(seq) /\ Len(seq) \in Nat /\ DOMAIN seq = 1..Len(seq)
           /\ \A x : x \in Range(seq) <=> \E i \in 1..Len(seq) : seq[i] = x
  <1>1. Len(seq) \in Nat /\ DOMAIN seq = 1..Len(seq) /\ seq = [i \in 1..Len(seq) |-> seq[i]]
    OBVIOUS
  <1>2. \A i \in 1..Len(seq) : seq[i] \in Range(seq)
    BY <1>1 DEF Range
  <1>3. seq \in Seq(Range(seq))
    BY <1>1, <1>2
  <1>4. QED
    BY <1>1, <1>3 DEF IsSeq, Range

\* One element more
LEMMA OneMoreOf ==
    ASSUME NEW seq, IsSeq(seq), NEW x
    PROVE  /\ IsSeq(Append(seq, x)) /\ Len(seq) \in Nat /\ DOMAIN seq = 1..Len(seq)
           /\ Len(Append(seq, x)) = Len(seq) + 1
           /\ DOMAIN Append(seq, x) = 1..(Len(seq) + 1)
           /\ \A i \in 1..Len(seq) : Append(seq, x)[i] = seq[i]
           /\ Append(seq, x)[Len(seq) + 1] = x
           /\ Range(Append(seq, x)) = Range(seq) \cup {x}
  <1> DEFINE S == Range(seq) \cup {x}
             more == Append(seq, x)
  <1>1. seq \in Seq(S) /\ x \in S /\ Len(seq) \in Nat /\ DOMAIN seq = 1..Len(seq)
    BY DEF IsSeq
  <1>2. /\ more \in Seq(S) /\ Len(more) = Len(seq) + 1
        /\ \A i \in 1..Len(seq) : more[i] = seq[i]
        /\ more[Len(seq) + 1] = x
    BY <1>1, AppendProperties
  <1> HIDE DEF more, S
  <1>3. IsSeq(more) /\ DOMAIN more = 1..(Len(seq) + 1)
    BY <1>2, OwnElements
  <1>4. \A y : y \in Range(more) <=> y \in Range(seq) \/ y = x
    <2>1. \A y : y \in Range(more) <=> \E i \in 1..Len(more) : more[i] = y
      BY <1>2, OwnElements
    <2>2. \A y : y \in Range(seq) <=> \E i \in 1..Len(seq) : seq[i] = y
      BY <1>1, OwnElements
    <2>3. \A i \in 1..Len(more) : i \in 1..Len(seq) \/ i = Len(seq) + 1
      BY <1>1, <1>2
    <2>4. \A i \in 1..Len(seq) : i \in 1..Len(more)
      BY <1>1, <1>2
    <2>5. Len(seq) + 1 \in 1..Len(more)
      BY <1>1, <1>2
    <2>6. QED
      BY <1>2, <2>1, <2>2, <2>3, <2>4, <2>5
  <1>5. Range(more) = Range(seq) \cup {x}
    BY <1>4
  <1>6. QED
    BY <1>1, <1>2, <1>3, <1>5 DEF more

\* All but the first
LEMMA RestOf ==
    ASSUME NEW seq, IsSeq(seq), seq # <<>>
    PROVE  /\ IsSeq(Tail(seq)) /\ Len(seq) \in Nat \ {0} /\ Head(seq) = seq[1]
           /\ Len(Tail(seq)) = Len(seq) - 1 /\ DOMAIN Tail(seq) = 1..(Len(seq) - 1)
           /\ \A i \in 1..(Len(seq) - 1) : Tail(seq)[i] = seq[i + 1]
  <1>1. seq \in Seq(Range(seq))
    BY DEF IsSeq
  <1>2. /\ Tail(seq) \in Seq(Range(seq)) /\ Len(Tail(seq)) = Len(seq) - 1
        /\ \A i \in 1..Len(Tail(seq)) : Tail(seq)[i] = seq[i + 1]
    BY <1>1, HeadTailProperties
  <1>3. Len(seq) \in Nat \ {0} /\ Head(seq) = seq[1]
    BY <1>1
  <1>4. IsSeq(Tail(seq)) /\ DOMAIN Tail(seq) = 1..Len(Tail(seq))
    BY <1>2, OwnElements
  <1>5. QED
    BY <1>2, <1>3, <1>4

\* An empty one
LEMMA NoneOf == IsSeq(<<>>) /\ Len(<<>>) = 0 /\ Range(<<>>) = {} /\ Distinct(<<>>)
  BY DEF IsSeq, Range, Distinct

\* Taking an element out of a sequence that has it once leaves the others.
LEMMA WithoutOne ==
    ASSUME NEW S, NEW seq \in Seq(S), Distinct(seq), NEW x \in Range(seq)
    PROVE  LET rest == RemoveFirst(seq, x)
           IN  /\ rest \in Seq(S) /\ Distinct(rest)
               /\ Range(rest) = Range(seq) \ {x}
  <1> DEFINE rest == RemoveFirst(seq, x)
  <1>1. PICK k \in 1..Len(seq) : seq[k] = x
    BY OwnElements
  <1>2. Len(seq) \in Nat /\ k \in Nat /\ \A i \in 1..Len(seq) : seq[i] = x => i = k
    BY <1>1 DEF Distinct
  <1>3. SelectInSeq(seq, LAMBDA v : v = x) = k
    <2>1. {i \in 1..Len(seq) : seq[i] = x} = {k}
      BY <1>1, <1>2
    <2>2. Min({k}) = k
      BY <1>2 DEF Min
    <2>3. QED
      BY <2>1, <2>2 DEF SelectInSeq
  <1>4. rest = SubSeq(seq, 1, k - 1) \o SubSeq(seq, k + 1, Len(seq))
    BY <1>1, <1>3 DEF RemoveFirst, RemoveAt
  <1> DEFINE front == SubSeq(seq, 1, k - 1)
             back  == SubSeq(seq, k + 1, Len(seq))
  <1>5. /\ front \in Seq(S) /\ Len(front) = k - 1
        /\ \A i \in 1..(k - 1) : front[i] = seq[i]
    <2>1. \A i \in 1..(k - 1) : seq[i] \in S
      BY <1>1, <1>2
    <2>2. k - 1 \in Int /\ 1 \in Int
      BY <1>2
    <2>3. QED
      BY <1>1, <1>2, <2>1, <2>2, SubSeqProperties
  <1>6. /\ back \in Seq(S) /\ Len(back) = Len(seq) - k
        /\ \A i \in 1..(Len(seq) - k) : back[i] = seq[k + i]
    <2>1. \A i \in (k + 1)..Len(seq) : seq[i] \in S
      BY <1>1, <1>2
    <2>2. k + 1 \in Int /\ Len(seq) \in Int
      BY <1>2
    <2>3. QED
      BY <1>1, <1>2, <2>1, <2>2, SubSeqProperties
  <1> HIDE DEF front, back
  <1>7. /\ rest \in Seq(S) /\ Len(rest) = Len(seq) - 1
        /\ \A i \in 1..(Len(seq) - 1) : rest[i] = IF i < k THEN seq[i] ELSE seq[i + 1]
    <2>1. rest = front \o back
      BY <1>4 DEF front, back
    <2> HIDE DEF rest
    <2>2. /\ rest \in Seq(S) /\ Len(rest) = Len(front) + Len(back)
          /\ \A i \in 1..(Len(front) + Len(back)) :
                rest[i] = IF i \leq Len(front) THEN front[i] ELSE back[i - Len(front)]
      <3>1. front \in Seq(S) /\ back \in Seq(S)
        BY <1>5, <1>6
      <3>2. QED
        BY <2>1, <3>1, ConcatProperties
    <2>3. Len(front) + Len(back) = Len(seq) - 1
      BY <1>2, <1>5, <1>6
    <2>4. ASSUME NEW i \in 1..(Len(seq) - 1)
          PROVE  rest[i] = IF i < k THEN seq[i] ELSE seq[i + 1]
      <3>1. i \in 1..(Len(front) + Len(back))
        BY <2>3
      <3>2. CASE i < k
        BY <1>2, <1>5, <2>2, <3>1, <3>2
      <3>3. CASE ~(i < k)
        <4>1. i - (k - 1) \in 1..(Len(seq) - k) /\ k + (i - (k - 1)) = i + 1
          BY <1>1, <1>2, <3>3
        <4>2. rest[i] = back[i - (k - 1)]
          BY <1>2, <1>5, <2>2, <3>1, <3>3
        <4>3. QED
          BY <1>6, <3>3, <4>1, <4>2
      <3>4. QED
        BY <3>2, <3>3
    <2>5. QED
      BY <2>2, <2>3, <2>4
  <1> HIDE DEF rest
  <1>8. Distinct(rest)
    BY <1>1, <1>2, <1>7 DEF Distinct
  <1>9. \A y : y \in Range(rest) <=> y \in Range(seq) /\ y # x
    <2>1. \A y : y \in Range(rest) <=> \E i \in 1..Len(rest) : rest[i] = y
      BY <1>7, OwnElements
    <2>2. \A y : y \in Range(seq) <=> \E i \in 1..Len(seq) : seq[i] = y
      BY OwnElements
    <2>3. ASSUME NEW y \in Range(rest) PROVE y \in Range(seq) /\ y # x
      <3>1. PICK i \in 1..Len(rest) : rest[i] = y
        BY <2>1
      <3>2. CASE i < k
        BY <1>1, <1>2, <1>7, <2>2, <3>1, <3>2
      <3>3. CASE ~(i < k)
        <4>1. i + 1 \in 1..Len(seq) /\ y = seq[i + 1] /\ i + 1 # k
          BY <1>1, <1>2, <1>7, <3>1, <3>3
        <4>2. QED
          BY <1>2, <2>2, <4>1
      <3>4. QED
        BY <3>2, <3>3
    <2>4. ASSUME NEW y \in Range(seq), y # x PROVE y \in Range(rest)
      <3>1. PICK i \in 1..Len(seq) : seq[i] = y
        BY <2>2
      <3>2. i # k
        BY <1>1, <2>4, <3>1
      <3>3. CASE i < k
        <4>1. i \in 1..Len(rest) /\ rest[i] = y
          BY <1>1, <1>2, <1>7, <3>1, <3>3
        <4>2. QED
          BY <2>1, <4>1
      <3>4. CASE i > k
        <4>1. i - 1 \in 1..Len(rest) /\ rest[i - 1] = y
          BY <1>1, <1>2, <1>7, <3>1, <3>4
        <4>2. QED
          BY <2>1, <4>1
      <3>5. QED
        BY <1>2, <3>1, <3>2, <3>3, <3>4
    <2>5. QED
      BY <2>3, <2>4
  <1>10. QED
    BY <1>7, <1>8, <1>9 DEF rest

\* Two sequences that agree everywhere are the same.
LEMMA SameSequence ==
    ASSUME NEW a, NEW b, IsSeq(a), IsSeq(b), Len(a) = Len(b), \A i \in 1..Len(a) : a[i] = b[i]
    PROVE  a = b
  <1>1. a \in Seq(Range(a)) /\ b \in Seq(Range(b))
    BY DEF IsSeq
  <1>2. /\ DOMAIN a = 1..Len(a) /\ a = [i \in 1..Len(a) |-> a[i]]
        /\ DOMAIN b = 1..Len(b) /\ b = [i \in 1..Len(b) |-> b[i]]
    BY <1>1
  <1>3. QED
    BY <1>2

-----------------------------------------------------------------------------
\* The line of a stream: the events of what it has sent, and what waits

LineOf(sent, waiting) == [i \in DOMAIN sent |-> sent[i].event] \o waiting

\* The line, element by element
LEMMA LineElements ==
    ASSUME NEW sent, IsSeq(sent), NEW waiting, IsSeq(waiting)
    PROVE  LET line == LineOf(sent, waiting)
           IN  /\ IsSeq(line) /\ Len(sent) \in Nat /\ Len(waiting) \in Nat
               /\ Len(line) = Len(sent) + Len(waiting) /\ DOMAIN line = 1..(Len(sent) + Len(waiting))
               /\ \A i \in 1..(Len(sent) + Len(waiting)) :
                     line[i] = IF i \leq Len(sent) THEN sent[i].event ELSE waiting[i - Len(sent)]
  <1> DEFINE events == [i \in DOMAIN sent |-> sent[i].event]
             line   == LineOf(sent, waiting)
             S      == Range(events) \cup Range(waiting)
  <1>1. sent \in Seq(Range(sent)) /\ waiting \in Seq(Range(waiting))
    BY DEF IsSeq
  <1>2. /\ Len(sent) \in Nat /\ DOMAIN sent = 1..Len(sent)
        /\ Len(waiting) \in Nat /\ DOMAIN waiting = 1..Len(waiting)
    BY <1>1
  <1>3. events \in Seq(S) /\ Len(events) = Len(sent)
    <2>1. \A i \in 1..Len(sent) : events[i] \in S
      BY <1>2 DEF Range
    <2>2. events = [i \in 1..Len(sent) |-> events[i]]
      BY <1>2
    <2> HIDE DEF events, S
    <2>3. QED
      BY <1>2, <2>1, <2>2
  <1>4. waiting \in Seq(S)
    <2>1. \A i \in 1..Len(waiting) : waiting[i] \in S
      BY <1>2 DEF Range
    <2>2. waiting = [i \in 1..Len(waiting) |-> waiting[i]]
      BY <1>1
    <2> HIDE DEF events, S
    <2>3. QED
      BY <1>2, <2>1, <2>2
  <1>5. \A i \in 1..Len(sent) : events[i] = sent[i].event
    BY <1>2
  <1>6. line = events \o waiting
    BY DEF LineOf
  <1> HIDE DEF events, line, S
  <1>7. /\ line \in Seq(S) /\ Len(line) = Len(events) + Len(waiting)
        /\ \A i \in 1..(Len(events) + Len(waiting)) :
              line[i] = IF i \leq Len(events) THEN events[i] ELSE waiting[i - Len(events)]
    BY <1>3, <1>4, <1>6, ConcatProperties
  <1>8. IsSeq(line) /\ DOMAIN line = 1..Len(line)
    BY <1>7, OwnElements
  <1>9. \A i \in 1..(Len(sent) + Len(waiting)) :
            line[i] = IF i \leq Len(sent) THEN sent[i].event ELSE waiting[i - Len(sent)]
    BY <1>2, <1>3, <1>5, <1>7
  <1>10. QED
    BY <1>2, <1>3, <1>7, <1>8, <1>9 DEF line

\* Sending the event at the head leaves the line as it is.
LEMMA LineServed ==
    ASSUME NEW sent, IsSeq(sent), NEW waiting, IsSeq(waiting), waiting # <<>>,
           NEW frame, frame.event = Head(waiting)
    PROVE  LineOf(Append(sent, frame), Tail(waiting)) = LineOf(sent, waiting)
  <1> DEFINE more == Append(sent, frame)
             rest == Tail(waiting)
  <1>1. /\ IsSeq(more) /\ Len(sent) \in Nat /\ Len(more) = Len(sent) + 1
        /\ \A i \in 1..Len(sent) : more[i] = sent[i]
        /\ more[Len(sent) + 1] = frame
    BY OneMoreOf
  <1>2. /\ IsSeq(rest) /\ Len(waiting) \in Nat \ {0} /\ Head(waiting) = waiting[1]
        /\ Len(rest) = Len(waiting) - 1
        /\ \A i \in 1..(Len(waiting) - 1) : rest[i] = waiting[i + 1]
    BY RestOf
  <1> HIDE DEF more, rest
  <1> DEFINE old == LineOf(sent, waiting)
             new == LineOf(more, rest)
  <1>3. /\ IsSeq(old) /\ Len(old) = Len(sent) + Len(waiting)
        /\ \A i \in 1..(Len(sent) + Len(waiting)) :
              old[i] = IF i \leq Len(sent) THEN sent[i].event ELSE waiting[i - Len(sent)]
    BY LineElements
  <1>4. /\ IsSeq(new) /\ Len(new) = Len(more) + Len(rest)
        /\ \A i \in 1..(Len(more) + Len(rest)) :
              new[i] = IF i \leq Len(more) THEN more[i].event ELSE rest[i - Len(more)]
    BY <1>1, <1>2, LineElements
  <1> HIDE DEF old, new
  <1>5. Len(new) = Len(old)
    BY <1>1, <1>2, <1>3, <1>4
  <1>6. ASSUME NEW i \in 1..Len(new)
        PROVE  new[i] = old[i]
    <2>0. i \in Nat /\ i \in 1..(Len(sent) + Len(waiting)) /\ i \in 1..(Len(more) + Len(rest))
      BY <1>3, <1>4, <1>5
    <2>1. CASE i \leq Len(sent)
      BY <1>1, <1>3, <1>4, <2>0, <2>1
    <2>2. CASE i = Len(sent) + 1
      BY <1>1, <1>2, <1>3, <1>4, <2>0, <2>2
    <2>3. CASE i > Len(sent) + 1
      <3>1. i - Len(more) \in 1..(Len(waiting) - 1) /\ (i - Len(more)) + 1 = i - Len(sent)
        BY <1>1, <1>2, <2>0, <2>3
      <3>2. new[i] = rest[i - Len(more)]
        BY <1>1, <1>4, <2>0, <2>3
      <3>3. old[i] = waiting[i - Len(sent)]
        BY <1>1, <1>3, <2>0, <2>3
      <3>4. QED
        BY <1>2, <3>1, <3>2, <3>3
    <2>4. QED
      BY <1>1, <2>0, <2>1, <2>2, <2>3
  <1>7. QED
    BY <1>3, <1>4, <1>5, <1>6, SameSequence DEF old, new, more, rest

\* An event that is put into the queue comes to the end of the line.
LEMMA LinePut ==
    ASSUME NEW sent, IsSeq(sent), NEW waiting, IsSeq(waiting), NEW event
    PROVE  LineOf(sent, Append(waiting, event)) = Append(LineOf(sent, waiting), event)
  <1> DEFINE more == Append(waiting, event)
             old  == LineOf(sent, waiting)
             new  == LineOf(sent, more)
             end  == Append(old, event)
  <1>1. /\ IsSeq(more) /\ Len(waiting) \in Nat /\ Len(more) = Len(waiting) + 1
        /\ \A i \in 1..Len(waiting) : more[i] = waiting[i]
        /\ more[Len(waiting) + 1] = event
    BY OneMoreOf
  <1> HIDE DEF more
  <1>2. /\ IsSeq(old) /\ Len(sent) \in Nat /\ Len(old) = Len(sent) + Len(waiting)
        /\ \A i \in 1..(Len(sent) + Len(waiting)) :
              old[i] = IF i \leq Len(sent) THEN sent[i].event ELSE waiting[i - Len(sent)]
    BY LineElements
  <1>3. /\ IsSeq(new) /\ Len(new) = Len(sent) + Len(more)
        /\ \A i \in 1..(Len(sent) + Len(more)) :
              new[i] = IF i \leq Len(sent) THEN sent[i].event ELSE more[i - Len(sent)]
    BY <1>1, LineElements
  <1> HIDE DEF old, new
  <1>4. /\ IsSeq(end) /\ Len(end) = Len(old) + 1
        /\ \A i \in 1..Len(old) : end[i] = old[i]
        /\ end[Len(old) + 1] = event
    BY <1>2, OneMoreOf
  <1> HIDE DEF end
  <1>5. Len(new) = Len(end)
    BY <1>1, <1>2, <1>3, <1>4
  <1>6. ASSUME NEW i \in 1..Len(new)
        PROVE  new[i] = end[i]
    <2>0. i \in Nat /\ i \in 1..(Len(sent) + Len(more))
      BY <1>3
    <2>1. CASE i \leq Len(sent)
      BY <1>1, <1>2, <1>3, <1>4, <2>0, <2>1
    <2>2. CASE i > Len(sent) /\ i \leq Len(sent) + Len(waiting)
      <3>1. i - Len(sent) \in 1..Len(waiting) /\ i \in 1..Len(old)
        BY <1>1, <1>2, <2>0, <2>2
      <3>2. QED
        BY <1>1, <1>2, <1>3, <1>4, <2>0, <2>2, <3>1
    <2>3. CASE i = Len(sent) + Len(waiting) + 1
      <3>1. i - Len(sent) = Len(waiting) + 1 /\ ~(i \leq Len(sent))
        BY <1>1, <1>2, <2>3
      <3>2. QED
        BY <1>1, <1>2, <1>3, <1>4, <2>0, <2>3, <3>1
    <2>4. QED
      BY <1>1, <1>2, <2>0, <2>1, <2>2, <2>3
  <1>7. QED
    BY <1>3, <1>4, <1>5, <1>6, SameSequence DEF old, new, more, end

-----------------------------------------------------------------------------
\* What holds of the bus between any two steps

BusTypes ==
    /\ phase \in [Streams -> {"new", "open", "closed"}]
    /\ DOMAIN queue = Streams /\ DOMAIN frames = Streams /\ DOMAIN missed = Streams
    /\ DOMAIN emission = Callers /\ DOMAIN emitted = Callers
    /\ \A s \in Streams : IsSeq(queue[s]) /\ IsSeq(frames[s])
    /\ \A c \in Callers : IsSeq(emitted[c])

\* The subscribers are the open streams, once each.
SubscribersOpen ==
    /\ subscribers \in Seq(Streams) /\ Distinct(subscribers)
    /\ \A s \in Streams : s \in Range(subscribers) <=> phase[s] = "open"

\* A stream that is not open has nothing in its queue, and has sent nothing before
\* it was; what it was not given was emitted.
StreamRests(s) ==
    /\ phase[s] # "open" => queue[s] = <<>>
    /\ phase[s] = "new" => frames[s] = <<>>
    /\ \A e \in missed[s] : \E c \in Callers : \E n \in 1..Len(emitted[c]) : e = emitted[c][n].event

\* The events of a caller bear its name and their number, and were for streams that
\* had been opened.
EmittedOwn(c) ==
    \A n \in 1..Len(emitted[c]) :
       /\ emitted[c][n].event.by = c /\ emitted[c][n].event.n = n
       /\ \A s \in emitted[c][n].for : s \in Streams /\ phase[s] # "new"

\* A caller that emits walks over the streams its last event is for, and those it
\* has not come to have not missed the event.
Walks(c) ==
    LET e == emission[c]
        n == Len(emitted[c])
    IN  /\ {"event", "copy", "at", "fits"} \subseteq DOMAIN e
        /\ n > 0 /\ e.event = emitted[c][n].event
        /\ e.copy \in Seq(Streams) /\ Distinct(e.copy) /\ Range(e.copy) = emitted[c][n].for
        /\ e.at \in 1..Len(e.copy) /\ e.fits \in BOOLEAN
        /\ \A i \in 1..Len(e.copy) : i >= e.at => e.event \notin missed[e.copy[i]]

EmissionWalks(c) == emission[c] = NoEmission \/ Walks(c)

BusShape ==
    /\ BusTypes /\ SubscribersOpen
    /\ \A s \in Streams : StreamRests(s)
    /\ \A c \in Callers : EmittedOwn(c) /\ EmissionWalks(c)

\* The line of an open stream is what is due, in order.
LineDue(s) ==
    phase[s] = "open" =>
        /\ \A e \in Range(Line(s)) : e.by \in Callers
        /\ \A c \in Callers : {e \in Range(Line(s)) : e.by = c} = Due(c, s)
        /\ InOrder(Line(s))

\* The callers that have found room in the queue of a stream and have yet to append
Fitting(s) ==
    {c \in Callers : emission[c] # NoEmission /\ emission[c].fits
                     /\ emission[c].copy[emission[c].at] = s}

\* The queue of an open stream, with those that still append
QueueShort(s) ==
    phase[s] = "open" =>
        Len(queue[s]) + Cardinality(Fitting(s)) \leq QueueSize - 1 + Cardinality(Callers)

\* Every label in a frame is the place of the frame's symbol, and a symbol has one.
FrameLabelled(table, frame) ==
    \/ frame.sent.label = 0
    \/ frame.sent.label \in 1..Len(table) /\ table[frame.sent.label] = frame.event.payload.symbol

LabelsOwn ==
    /\ IsSeq(labels) /\ Distinct(labels)
    /\ \A s \in Streams : \A i \in 1..Len(frames[s]) : FrameLabelled(labels, frames[s][i])

BusInv ==
    /\ BusShape /\ LabelsOwn
    /\ \A s \in Streams : LineDue(s) /\ QueueShort(s)

-----------------------------------------------------------------------------
\* The steps, and the shape of the bus

\* What a caller that walks is like
LEMMA WalkFacts ==
    ASSUME BusShape, NEW c \in Callers, Emitting(c)
    PROVE  /\ Walks(c)
           /\ emission[c].at \in Nat /\ Len(emission[c].copy) \in Nat /\ Len(emitted[c]) \in Nat \ {0}
           /\ DOMAIN emission[c].copy = 1..Len(emission[c].copy)
           /\ emission[c].copy[emission[c].at] \in Streams
           /\ emission[c].event.by = c /\ emission[c].event.n = Len(emitted[c])
  <1>1. Walks(c)
    BY DEF BusShape, EmissionWalks, Emitting
  <1> DEFINE copy == emission[c].copy
             at   == emission[c].at
             n    == Len(emitted[c])
  <1>2. copy \in Seq(Streams) /\ at \in 1..Len(copy)
    BY <1>1 DEF Walks
  <1>3. n \in Nat \ {0}
    BY <1>1, OwnElements DEF Walks, BusShape, BusTypes, IsSeq
  <1>4. at \in Nat /\ Len(copy) \in Nat /\ DOMAIN copy = 1..Len(copy) /\ copy[at] \in Streams
    BY <1>2
  <1>5. emission[c].event = emitted[c][n].event /\ n \in 1..n
    BY <1>1, <1>3 DEF Walks
  <1>6. emission[c].event.by = c /\ emission[c].event.n = n
    BY <1>5 DEF BusShape, EmittedOwn
  <1>7. QED
    BY <1>1, <1>3, <1>4, <1>6

\* An event is on its way to the streams of the copy from the next one on.
LEMMA OnItsWayFacts ==
    ASSUME BusShape, NEW c \in Callers, NEW s
    PROVE  OnItsWay(c, s) <=> /\ Emitting(c)
                              /\ \E i \in 1..Len(emission[c].copy) :
                                    i >= emission[c].at /\ emission[c].copy[i] = s
  BY WalkFacts DEF OnItsWay

\* A caller goes on to the next stream: the event is no longer on its way to the one
\* it was at, and it still walks if the streams it goes on to have not missed the event
\* meanwhile.
LEMMA OnwardFacts ==
    ASSUME BusShape, NEW c \in Callers, Emitting(c),
           emission' = [emission EXCEPT ![c] = Onward(c)], emitted' = emitted,
           \A s \in Streams \ {emission[c].copy[emission[c].at]} : missed'[s] = missed[s]
    PROVE  /\ DOMAIN emission' = Callers
           /\ \A d \in Callers \ {c} : emission'[d] = emission[d]
           /\ EmissionWalks(c)'
           /\ \A s : OnItsWay(c, s)' <=> OnItsWay(c, s) /\ s # emission[c].copy[emission[c].at]
           /\ emission'[c] # NoEmission => ~emission'[c].fits
  <1> DEFINE copy == emission[c].copy
             at   == emission[c].at
             e    == emission[c].event
             n    == Len(emitted[c])
             it   == emission'[c]
  <1>1. /\ Walks(c) /\ at \in Nat /\ Len(copy) \in Nat
        /\ DOMAIN copy = 1..Len(copy) /\ copy[at] \in Streams
    BY WalkFacts
  <1>2. /\ DOMAIN emission' = Callers /\ emission'[c] = Onward(c)
        /\ \A d \in Callers \ {c} : emission'[d] = emission[d]
    BY DEF BusShape, BusTypes
  <1>3. /\ n > 0 /\ e = emitted[c][n].event
        /\ copy \in Seq(Streams) /\ Distinct(copy) /\ Range(copy) = emitted[c][n].for
        /\ at \in 1..Len(copy)
        /\ \A i \in 1..Len(copy) : i >= at => e \notin missed[copy[i]]
    BY <1>1 DEF Walks
  <1>4. {"event", "copy", "at", "fits"} \subseteq DOMAIN emission[c]
    BY <1>1 DEF Walks
  <1>5. CASE at >= Len(copy)
    <2>1. emission'[c] = NoEmission
      BY <1>2, <1>5 DEF Onward, Targets
    <2>2. \A s : ~OnItsWay(c, s)'
      BY <2>1 DEF OnItsWay, Emitting
    <2>3. \A s : OnItsWay(c, s) => s = copy[at]
      <3>1. ASSUME NEW s, NEW i \in 1..Len(copy), i >= at, copy[i] = s
            PROVE  s = copy[at]
        <4>1. i = at
          BY <1>1, <1>5, <3>1
        <4>2. QED
          BY <3>1, <4>1
      <3>2. QED
        BY <3>1, OnItsWayFacts
    <2>4. QED
      BY <1>2, <2>1, <2>2, <2>3 DEF EmissionWalks
  <1>6. CASE at < Len(copy)
    <2>1. /\ DOMAIN it = DOMAIN emission[c]
          /\ it.event = e /\ it.copy = copy /\ it.at = at + 1 /\ it.fits = FALSE
      <3> DEFINE old == emission[c]
      <3>1. it = [old EXCEPT !.at = @ + 1, !.fits = FALSE]
        BY <1>1, <1>2, <1>6 DEF Onward, Targets
      <3>2. {"event", "copy", "at", "fits"} \subseteq DOMAIN old
        BY <1>4
      <3> HIDE DEF old, it
      <3>3. /\ DOMAIN it = DOMAIN old /\ it.event = old.event /\ it.copy = old.copy
            /\ it.at = old.at + 1 /\ it.fits = FALSE
        BY <3>1, <3>2
      <3>4. QED
        BY <3>3 DEF old
    <2>2. \A i \in 1..Len(copy) : i >= at + 1 => missed'[copy[i]] = missed[copy[i]]
      <3>1. ASSUME NEW i \in 1..Len(copy), i >= at + 1
            PROVE  copy[i] \in Streams /\ copy[i] # copy[at]
        <4>1. i # at
          BY <1>1, <3>1
        <4>2. QED
          BY <1>3, <4>1 DEF Distinct
      <3>2. QED
        BY <3>1
    <2>3. Walks(c)'
      <3> HIDE DEF e, copy, at, n
      <3>1. at + 1 \in 1..Len(copy)
        BY <1>1, <1>6
      <3>2. \A i \in 1..Len(copy) : i >= at + 1 => e \notin missed'[copy[i]]
        BY <1>1, <1>3, <2>2
      <3>3. Len(emitted'[c]) = n /\ emitted'[c] = emitted[c]
        BY DEF n
      <3> HIDE DEF it
      <3>4. /\ n > 0 /\ it.event = emitted'[c][n].event
            /\ it.copy \in Seq(Streams) /\ Distinct(it.copy) /\ Range(it.copy) = emitted'[c][n].for
            /\ it.at \in 1..Len(it.copy) /\ it.fits \in BOOLEAN
            /\ \A i \in 1..Len(it.copy) : i >= it.at => it.event \notin missed'[it.copy[i]]
        BY <1>3, <2>1, <3>1, <3>2, <3>3
      <3>5. QED
        BY <1>4, <2>1, <3>3, <3>4 DEF Walks, it
    <2>4. emission'[c] # NoEmission
      BY <1>1, <2>1 DEF NoEmission
    <2>5. ASSUME NEW s
          PROVE  OnItsWay(c, s)' <=> OnItsWay(c, s) /\ s # copy[at]
      <3>1. OnItsWay(c, s) <=> \E i \in 1..Len(copy) : i >= at /\ copy[i] = s
        BY OnItsWayFacts
      <3>2. OnItsWay(c, s)' <=> \E i \in 1..Len(copy) : i >= at + 1 /\ copy[i] = s
        BY <1>1, <2>1, <2>4 DEF OnItsWay, Emitting
      <3>3. \A i \in 1..Len(copy) : i >= at + 1 => i >= at /\ copy[i] # copy[at]
        BY <1>1, <1>3 DEF Distinct
      <3>4. \A i \in 1..Len(copy) : i >= at /\ copy[i] # copy[at] => i >= at + 1
        BY <1>1
      <3>5. QED
        BY <3>1, <3>2, <3>3, <3>4
    <2>6. QED
      BY <1>2, <2>1, <2>3, <2>5 DEF EmissionWalks
  <1>7. QED
    BY <1>1, <1>5, <1>6

\* The numbers of the events of a caller that are due to a stream
DueNumbers(c, s) ==
    {n \in DOMAIN emitted[c] : /\ s \in emitted[c][n].for
                               /\ emitted[c][n].event \notin missed[s]
                               /\ OnItsWay(c, s) => n < Len(emitted[c])}

\* What is due stays when the numbers do.
LEMMA NumbersStay ==
    ASSUME NEW c, NEW s, emitted'[c] = emitted[c], DueNumbers(c, s)' = DueNumbers(c, s)
    PROVE  Due(c, s)' = Due(c, s)
  <1>1. Due(c, s) = {emitted[c][n].event : n \in DueNumbers(c, s)}
    BY DEF Due, DueNumbers
  <1>2. Due(c, s)' = {emitted'[c][n].event : n \in DueNumbers(c, s)'}
    BY DEF Due, DueNumbers
  <1>3. QED
    BY <1>1, <1>2

\* What is due to a stream from a caller that does nothing, or nothing for it, stays.
LEMMA DueStays ==
    ASSUME NEW c, NEW s, emitted'[c] = emitted[c], missed'[s] = missed[s],
           OnItsWay(c, s)' <=> OnItsWay(c, s)
    PROVE  Due(c, s)' = Due(c, s)
  BY DEF Due

\* So does the line of a stream that no event is put into.
LEMMA LineStays ==
    ASSUME NEW s, LineDue(s), phase'[s] = "open" => phase[s] = "open", Line(s)' = Line(s),
           \A c \in Callers : Due(c, s)' = Due(c, s)
    PROVE  LineDue(s)'
  BY DEF LineDue, InOrder

\* A caller that does nothing walks on as before.
LEMMA WalkStays ==
    ASSUME NEW c, EmissionWalks(c), emission'[c] = emission[c], emitted'[c] = emitted[c],
           missed' = missed
    PROVE  /\ EmissionWalks(c)'
           /\ \A s : OnItsWay(c, s)' <=> OnItsWay(c, s)
  BY DEF EmissionWalks, Walks, OnItsWay, Emitting

\* The labels of the frames stay, when no frame is sent.
LEMMA LabelsStay ==
    ASSUME LabelsOwn, labels' = labels, frames' = frames
    PROVE  LabelsOwn'
  BY DEF LabelsOwn, FrameLabelled

\* An event is emitted: it is for the streams that are open, and on its way to all.
LEMMA EmitKeeps ==
    ASSUME BusInv, NEW c \in Callers, NEW type, NEW payload, Emit(c, type, payload)
    PROVE  BusInv'
  <1> DEFINE n     == Len(emitted[c]) + 1
             event == [by |-> c, n |-> n, type |-> type, payload |-> payload]
             entry == [event |-> event, for |-> Range(subscribers)]
             it    == [event |-> event, copy |-> subscribers, at |-> 1, fits |-> FALSE]
  <1>0. BusShape /\ BusTypes /\ SubscribersOpen
    BY DEF BusInv, BusShape
  <1>1. /\ ~Emitting(c)
        /\ emitted' = [emitted EXCEPT ![c] = Append(@, entry)]
        /\ emission' = [emission EXCEPT ![c] = IF subscribers = <<>> THEN NoEmission ELSE it]
        /\ UNCHANGED <<subscribers, phase, queue, labels, frames, missed>>
    BY DEF Emit
  <1>2. event.by = c /\ event.n = n /\ entry.event = event /\ entry.for = Range(subscribers)
        /\ it.event = event /\ it.copy = subscribers /\ it.at = 1 /\ it.fits = FALSE
        /\ DOMAIN it = {"event", "copy", "at", "fits"}
    OBVIOUS
  <1>3. /\ DOMAIN emitted' = Callers /\ DOMAIN emission' = Callers
        /\ emitted'[c] = Append(emitted[c], entry)
        /\ emission'[c] = IF subscribers = <<>> THEN NoEmission ELSE it
        /\ \A d \in Callers \ {c} : emitted'[d] = emitted[d] /\ emission'[d] = emission[d]
    <2> HIDE DEF entry, it
    <2>1. QED
      BY <1>0, <1>1 DEF BusTypes
  <1> HIDE DEF event, entry, it
  <1>4. /\ IsSeq(emitted[c]) /\ IsSeq(emitted'[c]) /\ Len(emitted[c]) \in Nat /\ n \in Nat
        /\ DOMAIN emitted[c] = 1..(n - 1) /\ DOMAIN emitted'[c] = 1..n
        /\ Len(emitted'[c]) = n /\ Len(emitted[c]) = n - 1
        /\ \A m \in 1..(n - 1) : emitted'[c][m] = emitted[c][m]
        /\ emitted'[c][n] = entry
    <2>1. IsSeq(emitted[c])
      BY <1>0 DEF BusTypes
    <2>2. /\ IsSeq(Append(emitted[c], entry)) /\ Len(emitted[c]) \in Nat
          /\ DOMAIN emitted[c] = 1..Len(emitted[c])
          /\ Len(Append(emitted[c], entry)) = Len(emitted[c]) + 1
          /\ DOMAIN Append(emitted[c], entry) = 1..(Len(emitted[c]) + 1)
          /\ \A i \in 1..Len(emitted[c]) : Append(emitted[c], entry)[i] = emitted[c][i]
          /\ Append(emitted[c], entry)[Len(emitted[c]) + 1] = entry
      BY <2>1, OneMoreOf
    <2>3. Len(emitted[c]) = n - 1
      BY <2>2
    <2>4. QED
      BY <1>3, <2>1, <2>2, <2>3
  <1> HIDE DEF n
  <1>5. BusTypes' /\ SubscribersOpen'
    <2>1. \A d \in Callers : IsSeq(emitted'[d])
      BY <1>0, <1>3, <1>4 DEF BusTypes
    <2>2. QED
      BY <1>0, <1>1, <1>3, <2>1 DEF BusTypes, SubscribersOpen
  <1>6. ASSUME NEW s \in Streams
        PROVE  StreamRests(s)'
    <2>1. StreamRests(s)
      BY <1>0 DEF BusShape
    <2>2. ASSUME NEW d \in Callers, NEW m \in 1..Len(emitted[d])
          PROVE  m \in 1..Len(emitted'[d]) /\ emitted'[d][m] = emitted[d][m]
      BY <1>3, <1>4
    <2>3. QED
      BY <1>1, <2>1, <2>2 DEF StreamRests
  <1>7. ASSUME NEW d \in Callers
        PROVE  EmittedOwn(d)'
    <2>1. EmittedOwn(d)
      BY <1>0 DEF BusShape
    <2>2. CASE d # c
      BY <1>1, <1>3, <2>1, <2>2 DEF EmittedOwn
    <2>3. CASE d = c
      <3>1. \A s \in entry.for : s \in Streams /\ phase[s] # "new"
        <4>1. Range(subscribers) \subseteq Streams
          BY <1>0 DEF SubscribersOpen, Range
        <4>2. QED
          BY <1>0, <1>2, <4>1 DEF SubscribersOpen
      <3>2. \A m \in 1..n : m \in 1..(n - 1) \/ m = n
        BY <1>4
      <3>3. QED
        BY <1>1, <1>2, <1>4, <2>1, <2>3, <3>1, <3>2 DEF EmittedOwn
    <2>4. QED
      BY <2>2, <2>3
  <1>8. \A s \in Streams : event \notin missed[s]
    <2>1. ASSUME NEW s \in Streams, event \in missed[s]
          PROVE  FALSE
      <3>1. PICK d \in Callers : \E m \in 1..Len(emitted[d]) : event = emitted[d][m].event
        BY <1>0, <2>1 DEF BusShape, StreamRests
      <3>2. PICK m \in 1..Len(emitted[d]) : event = emitted[d][m].event
        BY <3>1
      <3>3. event.by = d /\ event.n = m
        BY <1>0, <3>2 DEF BusShape, EmittedOwn
      <3>4. QED
        BY <1>2, <1>4, <3>2, <3>3
    <2>2. QED
      BY <2>1
  <1>9. ASSUME NEW d \in Callers
        PROVE  EmissionWalks(d)'
    <2>1. CASE d # c
      BY <1>0, <1>1, <1>3, <2>1, WalkStays DEF BusShape
    <2>2. CASE d = c /\ subscribers = <<>>
      BY <1>3, <2>2 DEF EmissionWalks
    <2>3. CASE d = c /\ subscribers # <<>>
      <3>1. emission'[c] = it
        BY <1>3, <2>3
      <3>2. /\ subscribers \in Seq(Streams) /\ Distinct(subscribers)
            /\ Len(subscribers) \in Nat \ {0} /\ 1 \in 1..Len(subscribers)
        BY <1>0, <2>3 DEF SubscribersOpen
      <3>3. \A i \in 1..Len(subscribers) : event \notin missed'[subscribers[i]]
        BY <1>1, <1>8, <3>2
      <3>4. /\ n > 0 /\ it.event = emitted'[c][n].event
            /\ it.copy \in Seq(Streams) /\ Distinct(it.copy) /\ Range(it.copy) = emitted'[c][n].for
            /\ it.at \in 1..Len(it.copy) /\ it.fits \in BOOLEAN
        <4>1. n > 0 /\ it.event = emitted'[c][n].event /\ Range(it.copy) = emitted'[c][n].for
          BY <1>2, <1>4
        <4>2. it.copy \in Seq(Streams) /\ Distinct(it.copy) /\ it.at \in 1..Len(it.copy)
          BY <1>2, <3>2
        <4>3. it.fits \in BOOLEAN
          BY <1>2
        <4>4. QED
          BY <4>1, <4>2, <4>3
      <3>5. \A i \in 1..Len(it.copy) : i >= it.at => it.event \notin missed'[it.copy[i]]
        BY <1>2, <3>3
      <3>6. {"event", "copy", "at", "fits"} \subseteq DOMAIN it /\ Len(emitted'[c]) = n
        BY <1>2, <1>4
      <3>7. Walks(c)'
        BY <3>1, <3>4, <3>5, <3>6 DEF Walks
      <3>8. QED
        BY <2>3, <3>7 DEF EmissionWalks
    <2>4. QED
      BY <2>1, <2>2, <2>3
  <1>10. LabelsOwn'
    BY <1>1, LabelsStay DEF BusInv
  <1>11. ASSUME NEW s \in Streams, phase'[s] = "open"
         PROVE  LineDue(s)'
    <2>1. s \in Range(subscribers) /\ subscribers # <<>>
      <3>1. s \in Range(subscribers)
        BY <1>0, <1>1, <1>11 DEF SubscribersOpen
      <3>2. QED
        BY <3>1, NoneOf
    <2>2. OnItsWay(c, s)'
      <3>1. PICK i \in 1..Len(subscribers) : subscribers[i] = s
        BY <1>0, <2>1, OwnElements DEF SubscribersOpen
      <3>2. DOMAIN subscribers = 1..Len(subscribers) /\ i >= 1
        BY <1>0 DEF SubscribersOpen
      <3>3. it # NoEmission
        BY <1>2 DEF NoEmission
      <3>4. QED
        BY <1>2, <1>3, <2>1, <3>1, <3>2, <3>3 DEF OnItsWay, Emitting
    <2>3. Due(c, s)' = Due(c, s)
      <3>1. Due(c, s) = {emitted[c][m].event : m \in {m \in 1..(n - 1) :
                                    s \in emitted[c][m].for /\ emitted[c][m].event \notin missed[s]}}
        BY <1>1, <1>4 DEF Due, OnItsWay
      <3>2. {m \in DOMAIN emitted'[c] :
                /\ s \in emitted'[c][m].for /\ emitted'[c][m].event \notin missed'[s]
                /\ OnItsWay(c, s)' => m < Len(emitted'[c])}
              = {m \in 1..(n - 1) : s \in emitted[c][m].for /\ emitted[c][m].event \notin missed[s]}
        BY <1>1, <1>4, <2>2
      <3>3. Due(c, s)' = {emitted'[c][m].event : m \in {m \in 1..(n - 1) :
                                    s \in emitted[c][m].for /\ emitted[c][m].event \notin missed[s]}}
        BY <3>2 DEF Due
      <3>4. QED
        BY <1>4, <3>1, <3>3
    <2>4. ASSUME NEW d \in Callers
          PROVE  Due(d, s)' = Due(d, s)
      <3>1. CASE d # c
        <4>1. OnItsWay(d, s)' <=> OnItsWay(d, s)
          BY <1>0, <1>1, <1>3, <3>1, WalkStays DEF BusShape
        <4>2. QED
          BY <1>1, <1>3, <3>1, <4>1, DueStays
      <3>2. QED
        BY <2>3, <3>1
    <2>5. Line(s)' = Line(s) /\ LineDue(s)
      BY <1>1 DEF Line, BusInv
    <2>6. QED
      BY <1>1, <2>4, <2>5, LineStays
  <1>12. ASSUME NEW s \in Streams
         PROVE  QueueShort(s)'
    <2>1. \A d \in Callers : d \in Fitting(s)' <=> d \in Fitting(s)
      BY <1>1, <1>2, <1>3 DEF Fitting, Emitting
    <2>2. Fitting(s)' = Fitting(s)
      BY <2>1 DEF Fitting
    <2>3. QED
      BY <1>1, <2>2 DEF QueueShort, BusInv
  <1>13. \A s \in Streams : LineDue(s)'
    BY <1>11 DEF LineDue
  <1>14. QED
    BY <1>5, <1>6, <1>7, <1>9, <1>10, <1>12, <1>13 DEF BusInv, BusShape

\* A stream may lose the event of one caller, and the others walk on as before.
LEMMA OthersWalk ==
    ASSUME BusShape, NEW c \in Callers, Emitting(c), NEW d \in Callers \ {c},
           emission'[d] = emission[d], emitted' = emitted,
           \A s \in Streams : missed'[s] \subseteq missed[s] \cup {emission[c].event}
    PROVE  /\ EmissionWalks(d)'
           /\ \A s : OnItsWay(d, s)' <=> OnItsWay(d, s)
  <1>1. \A s : OnItsWay(d, s)' <=> OnItsWay(d, s)
    BY DEF OnItsWay, Emitting
  <1>2. CASE emission[d] = NoEmission
    BY <1>1, <1>2 DEF EmissionWalks
  <1>3. CASE emission[d] # NoEmission
    <2>1. Walks(d) /\ emission[d].event.by = d /\ emission[c].event.by = c
      BY <1>3, WalkFacts DEF Emitting
    <2>2. ASSUME NEW i \in 1..Len(emission[d].copy), i >= emission[d].at
          PROVE  emission[d].event \notin missed'[emission[d].copy[i]]
      <3>1. emission[d].copy[i] \in Streams /\ emission[d].event \notin missed[emission[d].copy[i]]
        BY <2>1, <2>2 DEF Walks
      <3>2. emission[d].event # emission[c].event
        BY <2>1
      <3>3. QED
        BY <3>1, <3>2
    <2>3. Walks(d)'
      BY <2>1, <2>2 DEF Walks
    <2>4. QED
      BY <1>1, <2>3 DEF EmissionWalks
  <1>4. QED
    BY <1>1, <1>2, <1>3

\* Where a caller stands, its event is on its way to that stream and no other event is
\* the same.
LEMMA StandsAt ==
    ASSUME BusShape, NEW c \in Callers, Emitting(c)
    PROVE  LET s == emission[c].copy[emission[c].at]
               N == Len(emitted[c])
           IN  /\ s \in Streams /\ N \in Nat \ {0} /\ DOMAIN emitted[c] = 1..N
               /\ OnItsWay(c, s) /\ emission[c].event \notin missed[s] /\ s \in emitted[c][N].for
               /\ emission[c].event = emitted[c][N].event
               /\ \A m \in 1..(N - 1) : emitted[c][m].event # emission[c].event
               /\ \A d \in Callers \ {c} : \A m \in 1..Len(emitted[d]) :
                      emitted[d][m].event # emission[c].event
  <1> DEFINE copy == emission[c].copy
             at   == emission[c].at
             s    == copy[at]
             N    == Len(emitted[c])
             e    == emission[c].event
  <1>1. /\ Walks(c) /\ at \in Nat /\ Len(copy) \in Nat /\ N \in Nat \ {0}
        /\ DOMAIN copy = 1..Len(copy) /\ s \in Streams /\ e.by = c /\ e.n = N
    BY WalkFacts
  <1>2. /\ at \in 1..Len(copy) /\ copy \in Seq(Streams) /\ e = emitted[c][N].event
        /\ Range(copy) = emitted[c][N].for
        /\ \A i \in 1..Len(copy) : i >= at => e \notin missed[copy[i]]
    BY <1>1 DEF Walks
  <1>3. s \in Range(copy) /\ OnItsWay(c, s) /\ e \notin missed[s]
    <2>1. s \in Range(copy)
      BY <1>1, <1>2 DEF Range
    <2>2. OnItsWay(c, s)
      BY <1>1, <1>2, OnItsWayFacts
    <2>3. e \notin missed[s]
      BY <1>1, <1>2
    <2>4. QED
      BY <2>1, <2>2, <2>3
  <1>4. DOMAIN emitted[c] = 1..N
    BY OwnElements DEF BusShape, BusTypes, IsSeq
  <1>5. \A d \in Callers : \A m \in 1..Len(emitted[d]) :
            emitted[d][m].event.by = d /\ emitted[d][m].event.n = m
    BY DEF BusShape, EmittedOwn
  <1>6. ASSUME NEW m \in 1..(N - 1)
        PROVE  emitted[c][m].event # e
    <2>1. m \in 1..N /\ m # N
      BY <1>1
    <2>2. emitted[c][m].event.n = m
      BY <1>5, <2>1
    <2>3. QED
      BY <1>1, <2>1, <2>2
  <1>7. ASSUME NEW d \in Callers \ {c}, NEW m \in 1..Len(emitted[d])
        PROVE  emitted[d][m].event # e
    <2>1. emitted[d][m].event.by = d
      BY <1>5
    <2>2. QED
      BY <1>1, <2>1
  <1>8. QED
    BY <1>1, <1>2, <1>3, <1>4, <1>6, <1>7

\* What is due to a stream stays, when it is not given the event that was on its way.
LEMMA EventLost ==
    ASSUME BusShape, NEW c \in Callers, Emitting(c), NEW t \in Streams,
           OnItsWay(c, t), ~OnItsWay(c, t)', emitted' = emitted,
           missed'[t] = missed[t] \cup {emission[c].event},
           NEW d \in Callers, d # c => (OnItsWay(d, t)' <=> OnItsWay(d, t))
    PROVE  Due(d, t)' = Due(d, t)
  <1> DEFINE e == emission[c].event
             N == Len(emitted[c])
  <1>1. /\ N \in Nat \ {0} /\ DOMAIN emitted[c] = 1..N /\ e = emitted[c][N].event
        /\ \A m \in 1..(N - 1) : emitted[c][m].event # e
        /\ \A x \in Callers \ {c} : \A m \in 1..Len(emitted[x]) : emitted[x][m].event # e
    BY StandsAt
  <1>2. N = Len(emitted[c]) /\ missed'[t] = missed[t] \cup {e}
    OBVIOUS
  <1> HIDE DEF e, N
  <1>3. CASE d # c
    <2>1. DOMAIN emitted[d] = 1..Len(emitted[d])
      BY OwnElements DEF BusShape, BusTypes, IsSeq
    <2>2. \A m \in DOMAIN emitted[d] : emitted[d][m].event # e
      BY <1>1, <1>3, <2>1
    <2>3. DueNumbers(d, t)' = DueNumbers(d, t)
      BY <1>2, <1>3, <2>2 DEF DueNumbers
    <2>4. QED
      BY <2>3, NumbersStay
  <1>4. CASE d = c
    <2>1. \A m \in 1..N : m < N => m \in 1..(N - 1)
      BY <1>1
    <2>2. \A m \in 1..N : m < N \/ m = N
      BY <1>1
    <2>3. ~(N < N)
      BY <1>1
    <2>4. DueNumbers(c, t)' = DueNumbers(c, t)
      BY <1>1, <1>2, <2>1, <2>2, <2>3 DEF DueNumbers
    <2>5. QED
      BY <1>4, <2>4, NumbersStay
  <1>5. QED
    BY <1>3, <1>4

\* No room: the stream is not given the event, and the caller goes on.
LEMMA DropKeeps ==
    ASSUME BusInv, NEW c \in Callers, Emitting(c), ~emission[c].fits,
           emission' = [emission EXCEPT ![c] = Onward(c)],
           missed' = [missed EXCEPT ![emission[c].copy[emission[c].at]] = @ \cup {emission[c].event}],
           UNCHANGED <<subscribers, phase, queue, labels, frames, emitted>>
    PROVE  BusInv'
  <1> DEFINE s == emission[c].copy[emission[c].at]
             e == emission[c].event
             N == Len(emitted[c])
  <1>0. BusShape /\ BusTypes /\ SubscribersOpen
    BY DEF BusInv, BusShape
  <1>1. /\ s \in Streams /\ N \in Nat \ {0} /\ DOMAIN emitted[c] = 1..N
        /\ OnItsWay(c, s) /\ e \notin missed[s] /\ s \in emitted[c][N].for
        /\ e = emitted[c][N].event
        /\ \A m \in 1..(N - 1) : emitted[c][m].event # e
        /\ \A d \in Callers \ {c} : \A m \in 1..Len(emitted[d]) : emitted[d][m].event # e
    BY <1>0, StandsAt
  <1>2. /\ DOMAIN missed' = Streams /\ missed'[s] = missed[s] \cup {e}
        /\ \A t \in Streams \ {s} : missed'[t] = missed[t]
    BY <1>0, <1>1 DEF BusTypes
  <1>3. /\ DOMAIN emission' = Callers
        /\ \A d \in Callers \ {c} : emission'[d] = emission[d]
        /\ EmissionWalks(c)'
        /\ \A t : OnItsWay(c, t)' <=> OnItsWay(c, t) /\ t # s
        /\ emission'[c] # NoEmission => ~emission'[c].fits
    BY <1>0, <1>2, OnwardFacts
  <1>4. ASSUME NEW d \in Callers \ {c}
        PROVE  /\ EmissionWalks(d)'
               /\ \A t : OnItsWay(d, t)' <=> OnItsWay(d, t)
    BY <1>0, <1>2, <1>3, OthersWalk
  <1> HIDE DEF s, e, N
  <1>5. BusShape'
    <2>1. BusTypes' /\ SubscribersOpen'
      BY <1>0, <1>2, <1>3 DEF BusTypes, SubscribersOpen
    <2>2. ASSUME NEW t \in Streams
          PROVE  StreamRests(t)'
      <3>1. StreamRests(t)
        BY <1>0 DEF BusShape
      <3>2. N \in 1..Len(emitted[c])
        BY <1>1 DEF N
      <3>3. \A x \in missed'[t] : x \in missed[t] \/ x = emitted[c][N].event
        BY <1>1, <1>2
      <3>4. QED
        BY <3>1, <3>2, <3>3 DEF StreamRests
    <2>3. \A d \in Callers : EmittedOwn(d)'
      BY <1>0 DEF BusShape, EmittedOwn
    <2>4. QED
      BY <1>3, <1>4, <2>1, <2>2, <2>3 DEF BusShape
  <1>6. ASSUME NEW t \in Streams
        PROVE  LineDue(t)'
    <2>1. Line(t)' = Line(t) /\ LineDue(t)
      BY DEF Line, BusInv
    <2>2. ASSUME NEW d \in Callers
          PROVE  Due(d, t)' = Due(d, t)
      <3>1. CASE t # s
        BY <1>2, <1>3, <1>4, <3>1, DueStays
      <3>2. CASE t = s
        <4>1. OnItsWay(c, t) /\ ~OnItsWay(c, t)' /\ missed'[t] = missed[t] \cup {emission[c].event}
          BY <1>1, <1>2, <1>3, <3>2 DEF e
        <4>2. d # c => (OnItsWay(d, t)' <=> OnItsWay(d, t))
          BY <1>4
        <4>3. QED
          BY <1>0, <4>1, <4>2, EventLost
      <3>3. QED
        BY <3>1, <3>2
    <2>3. QED
      BY <2>1, <2>2, LineStays
  <1>7. ASSUME NEW t \in Streams
        PROVE  QueueShort(t)'
    <2>1. Fitting(t)' = Fitting(t)
      BY <1>3 DEF Fitting
    <2>2. QED
      BY <2>1 DEF QueueShort, BusInv
  <1>8. LabelsOwn'
    BY LabelsStay DEF BusInv
  <1>9. QED
    BY <1>5, <1>6, <1>7, <1>8 DEF BusInv

\* Room: the caller will append, and so may all the others.
LEMMA RoomKeeps ==
    ASSUME BusInv, NEW c \in Callers, Emitting(c), ~emission[c].fits,
           Len(queue[emission[c].copy[emission[c].at]]) < QueueSize,
           emission' = [emission EXCEPT ![c].fits = TRUE],
           UNCHANGED <<subscribers, phase, queue, labels, frames, emitted, missed>>
    PROVE  BusInv'
  <1> DEFINE s   == emission[c].copy[emission[c].at]
             old == emission[c]
             it  == emission'[c]
  <1>0. BusShape /\ BusTypes /\ SubscribersOpen
    BY DEF BusInv, BusShape
  <1>1. Walks(c) /\ s \in Streams /\ old.at \in Nat
    BY <1>0, WalkFacts
  <1>2. /\ DOMAIN emission' = Callers
        /\ \A d \in Callers \ {c} : emission'[d] = emission[d]
        /\ it = [old EXCEPT !.fits = TRUE]
    BY <1>0 DEF BusTypes
  <1>3. {"event", "copy", "at", "fits"} \subseteq DOMAIN old
    BY <1>1 DEF Walks
  <1> HIDE DEF old, it
  <1>4. /\ DOMAIN it = DOMAIN old /\ it.event = old.event /\ it.copy = old.copy
        /\ it.at = old.at /\ it.fits = TRUE
    BY <1>2, <1>3
  <1>5. Walks(c)'
    <2>1. it.fits \in BOOLEAN
      BY <1>4
    <2>2. QED
      BY <1>1, <1>3, <1>4, <2>1 DEF Walks, old, it
  <1>6. it # NoEmission
    BY <1>4 DEF NoEmission
  <1>7. ASSUME NEW d \in Callers
        PROVE  /\ EmissionWalks(d)'
               /\ \A t : OnItsWay(d, t)' <=> OnItsWay(d, t)
    <2>1. CASE d # c
      BY <1>0, <1>2, <2>1, WalkStays DEF BusShape
    <2>2. CASE d = c
      BY <1>4, <1>5, <1>6, <2>2 DEF EmissionWalks, OnItsWay, Emitting, old, it
    <2>3. QED
      BY <2>1, <2>2
  <1>8. BusShape'
    <2>1. BusTypes' /\ SubscribersOpen'
      BY <1>0, <1>2 DEF BusTypes, SubscribersOpen
    <2>2. ASSUME NEW t \in Streams
          PROVE  StreamRests(t)'
      BY <1>0 DEF BusShape, StreamRests
    <2>3. \A d \in Callers : EmittedOwn(d)'
      BY <1>0 DEF BusShape, EmittedOwn
    <2>4. QED
      BY <1>7, <2>1, <2>2, <2>3 DEF BusShape
  <1>9. ASSUME NEW t \in Streams
        PROVE  LineDue(t)'
    <2>1. Line(t)' = Line(t) /\ LineDue(t)
      BY DEF Line, BusInv
    <2>2. \A d \in Callers : Due(d, t)' = Due(d, t)
      BY <1>7, DueStays
    <2>3. QED
      BY <2>1, <2>2, LineStays
  <1>10. ASSUME NEW t \in Streams
         PROVE  QueueShort(t)'
    <2>1. CASE t = s
      <3>1. IsFiniteSet(Callers) /\ QueueSize \in Nat \ {0}
        BY EventStreamAssumption
      <3>2. Fitting(t)' \subseteq Callers
        BY DEF Fitting
      <3>3. Cardinality(Fitting(t)') \leq Cardinality(Callers) /\ Cardinality(Fitting(t)') \in Nat
            /\ Cardinality(Callers) \in Nat
        BY <3>1, <3>2, FS_Subset, FS_CardinalityType
      <3>4. Len(queue[t]) \in Nat
        BY <1>0, OwnElements DEF BusTypes, IsSeq
      <3>5. Len(queue[t]) \leq QueueSize - 1
        BY <2>1, <3>1, <3>4
      <3>6. QED
        BY <3>1, <3>3, <3>4, <3>5 DEF QueueShort
    <2>2. CASE t # s
      <3>1. Fitting(t)' = Fitting(t)
        <4>1. c \notin Fitting(t)'
          BY <1>4, <2>2 DEF Fitting, old, it
        <4>2. c \notin Fitting(t)
          BY DEF Fitting
        <4>3. \A d \in Callers \ {c} : d \in Fitting(t)' <=> d \in Fitting(t)
          BY <1>2 DEF Fitting
        <4>4. QED
          BY <4>1, <4>2, <4>3 DEF Fitting
      <3>2. QED
        BY <3>1 DEF QueueShort, BusInv
    <2>3. QED
      BY <2>1, <2>2
  <1>11. LabelsOwn'
    BY LabelsStay DEF BusInv
  <1>12. QED
    BY <1>8, <1>9, <1>10, <1>11 DEF BusInv

\* A caller puts its event into the queue of an open stream and goes on.
PutsInto(c, t) ==
    /\ t = emission[c].copy[emission[c].at] /\ phase[t] = "open" /\ phase' = phase
    /\ queue'[t] = Append(queue[t], emission[c].event)
    /\ frames' = frames /\ emitted' = emitted /\ missed'[t] = missed[t]
    /\ ~OnItsWay(c, t)'
    /\ \A d \in Callers \ {c} : OnItsWay(d, t)' <=> OnItsWay(d, t)

\* The event comes to the end of the line of that stream.
LEMMA LineGrows ==
    ASSUME BusInv, NEW c \in Callers, Emitting(c), NEW t \in Streams, PutsInto(c, t)
    PROVE  LineDue(t)'
  <1> DEFINE e    == emission[c].event
             N    == Len(emitted[c])
             line == Line(t)
  <1>0. BusShape /\ BusTypes
    BY DEF BusInv, BusShape
  <1>1. /\ N \in Nat \ {0} /\ DOMAIN emitted[c] = 1..N
        /\ OnItsWay(c, t) /\ e \notin missed[t] /\ t \in emitted[c][N].for
        /\ e = emitted[c][N].event
    BY <1>0, StandsAt DEF PutsInto
  <1>2. e.by = c /\ e.n = N
    BY <1>0, WalkFacts
  <1>3. /\ N = Len(emitted[c])
        /\ queue'[t] = Append(queue[t], e) /\ phase[t] = "open"
        /\ frames' = frames /\ emitted' = emitted /\ missed'[t] = missed[t]
        /\ ~OnItsWay(c, t)' /\ \A d \in Callers \ {c} : OnItsWay(d, t)' <=> OnItsWay(d, t)
    BY DEF PutsInto
  <1> HIDE DEF e, N
  <1>4. IsSeq(line) /\ Line(t)' = Append(line, e)
    <2>1. IsSeq(frames[t]) /\ IsSeq(queue[t])
      BY <1>0 DEF BusTypes
    <2>2. line = LineOf(frames[t], queue[t])
      BY DEF Line, LineOf
    <2>3. Line(t)' = LineOf(frames[t], Append(queue[t], e))
      BY <1>3 DEF Line, LineOf
    <2> HIDE DEF line
    <2>4. LineOf(frames[t], Append(queue[t], e)) = Append(LineOf(frames[t], queue[t]), e)
      BY <2>1, LinePut
    <2>5. IsSeq(LineOf(frames[t], queue[t]))
      BY <2>1, LineElements
    <2>6. QED
      BY <2>2, <2>3, <2>4, <2>5
  <1>5. /\ \A x \in Range(line) : x.by \in Callers
        /\ \A d \in Callers : {x \in Range(line) : x.by = d} = Due(d, t)
        /\ InOrder(line)
    BY <1>3 DEF BusInv, LineDue
  <1> HIDE DEF line
  <1> DEFINE more == Append(line, e)
  <1>6. /\ IsSeq(more) /\ Len(line) \in Nat /\ DOMAIN line = 1..Len(line)
        /\ DOMAIN more = 1..(Len(line) + 1)
        /\ \A i \in 1..Len(line) : more[i] = line[i]
        /\ more[Len(line) + 1] = e
        /\ Range(more) = Range(line) \cup {e}
    BY <1>4, OneMoreOf
  <1>7. Due(c, t) = {emitted[c][n].event : n \in DueNumbers(c, t)}
    BY DEF Due, DueNumbers
  <1> HIDE DEF more
  <1>8. DueNumbers(c, t)' = DueNumbers(c, t) \cup {N}
    <2>1. \A m \in 1..N : m < N \/ m = N
      BY <1>1
    <2>2. ~(N < N)
      BY <1>1
    <2>3. QED
      BY <1>1, <1>3, <2>1, <2>2 DEF DueNumbers
  <1>9. Due(c, t)' = Due(c, t) \cup {e}
    <2>1. Due(c, t)' = {emitted'[c][n].event : n \in DueNumbers(c, t)'}
      BY DEF Due, DueNumbers
    <2>2. QED
      BY <1>1, <1>3, <1>7, <1>8, <2>1
  <1>10. \A x \in Range(more) : x.by \in Callers
    BY <1>2, <1>6, <1>5
  <1>11. ASSUME NEW d \in Callers
         PROVE  {x \in Range(more) : x.by = d} = Due(d, t)'
    <2>1. CASE d = c
      <3>1. {x \in Range(more) : x.by = c} = {x \in Range(line) : x.by = c} \cup {e}
        BY <1>2, <1>6
      <3>2. QED
        BY <1>5, <1>9, <2>1, <3>1
    <2>2. CASE d # c
      <3>1. Due(d, t)' = Due(d, t)
        BY <1>3, <2>2, DueStays
      <3>2. {x \in Range(more) : x.by = d} = {x \in Range(line) : x.by = d}
        BY <1>2, <1>6, <2>2
      <3>3. QED
        BY <1>5, <3>1, <3>2
    <2>3. QED
      BY <2>1, <2>2
  <1>12. InOrder(more)
    <2>1. ASSUME NEW i \in 1..Len(line), line[i].by = c
          PROVE  line[i].n < N
      <3>1. line[i] \in Due(c, t)
        BY <1>6, <1>5, <2>1 DEF Range
      <3>2. PICK m \in DueNumbers(c, t) : line[i] = emitted[c][m].event
        BY <1>7, <3>1
      <3>3. m \in 1..N /\ m < N
        BY <1>1, <1>3, <3>2 DEF DueNumbers
      <3>4. emitted[c][m].event.n = m
        BY <1>0, <1>3, <3>3 DEF BusShape, EmittedOwn
      <3>5. QED
        BY <3>2, <3>3, <3>4
    <2>2. ASSUME NEW i \in 1..(Len(line) + 1), NEW j \in 1..(Len(line) + 1), i < j,
                 more[i].by = more[j].by
          PROVE  more[i].n < more[j].n
      <3>1. i \in 1..Len(line) /\ more[i] = line[i]
        BY <1>6, <2>2
      <3>2. CASE j \in 1..Len(line)
        BY <1>6, <1>5, <2>2, <3>1, <3>2 DEF InOrder
      <3>3. CASE j = Len(line) + 1
        BY <1>2, <1>6, <2>1, <2>2, <3>1, <3>3
      <3>4. QED
        BY <1>6, <3>2, <3>3
    <2>3. QED
      BY <1>6, <2>2 DEF InOrder
  <1>13. Line(t)' = more
    BY <1>4 DEF more
  <1>14. QED
    BY <1>10, <1>11, <1>12, <1>13 DEF LineDue, InOrder

\* A caller has done with the stream it was at, and with the rest of its walk, which
\* is not given the event.
DoneWith(c, rest) ==
    LET s == emission[c].copy[emission[c].at]
        e == emission[c].event
    IN  /\ rest \subseteq Streams \ {s} /\ \A t \in rest : OnItsWay(c, t)
        /\ DOMAIN missed' = Streams
        /\ \A t \in Streams : missed'[t] = IF t \in rest THEN missed[t] \cup {e} ELSE missed[t]
        /\ DOMAIN emission' = Callers
        /\ \A d \in Callers \ {c} : emission'[d] = emission[d]
        /\ EmissionWalks(c)'
        /\ \A t : OnItsWay(c, t)' <=> OnItsWay(c, t) /\ t # s /\ t \notin rest
        /\ emission'[c] # NoEmission => ~emission'[c].fits

\* After an append the caller goes on, or its walk ends and the streams that its event
\* was still on its way to are not given it.
LEMMA PutFacts ==
    ASSUME BusShape, NEW c \in Callers, Put(c)
    PROVE  \E rest : DoneWith(c, rest)
  <1> DEFINE copy == emission[c].copy
             at   == emission[c].at
             s    == copy[at]
             e    == emission[c].event
  <1>1. Emitting(c) /\ emitted' = emitted
    BY DEF Put
  <1>2. /\ Walks(c) /\ at \in Nat /\ Len(copy) \in Nat
        /\ DOMAIN copy = 1..Len(copy) /\ s \in Streams
    BY <1>1, WalkFacts
  <1>3. copy \in Seq(Streams) /\ Distinct(copy) /\ at \in 1..Len(copy)
    BY <1>2 DEF Walks
  <1>4. CASE emission' = [emission EXCEPT ![c] = Onward(c)] /\ missed' = missed
    <2>1. /\ DOMAIN emission' = Callers
          /\ \A d \in Callers \ {c} : emission'[d] = emission[d]
          /\ EmissionWalks(c)'
          /\ \A t : OnItsWay(c, t)' <=> OnItsWay(c, t) /\ t # s
          /\ emission'[c] # NoEmission => ~emission'[c].fits
      BY <1>1, <1>4, OnwardFacts
    <2>2. DOMAIN missed' = Streams
      BY <1>4 DEF BusShape, BusTypes
    <2>3. DoneWith(c, {})
      BY <1>4, <2>1, <2>2 DEF DoneWith
    <2>4. QED
      BY <2>3
  <1>5. CASE /\ emission' = [emission EXCEPT ![c] = NoEmission]
             /\ missed' = [t \in Streams |-> IF t \in Rest(c) THEN missed[t] \cup {e} ELSE missed[t]]
    <2>1. /\ DOMAIN emission' = Callers /\ emission'[c] = NoEmission
          /\ \A d \in Callers \ {c} : emission'[d] = emission[d]
      BY <1>5 DEF BusShape, BusTypes
    <2>2. \A t : ~OnItsWay(c, t)'
      BY <2>1 DEF OnItsWay, Emitting
    <2>3. ASSUME NEW t \in Rest(c)
          PROVE  t \in Streams \ {s} /\ OnItsWay(c, t)
      <3>1. PICK i \in (at + 1)..Len(copy) : t = copy[i]
        BY <2>3 DEF Rest
      <3>2. i \in 1..Len(copy) /\ i # at /\ i >= at
        BY <1>2, <1>3, <3>1
      <3>3. t \in Streams /\ t # s
        BY <1>3, <3>1, <3>2 DEF Distinct
      <3>4. QED
        BY <1>1, <3>1, <3>2, <3>3, OnItsWayFacts
    <2>4. \A t : OnItsWay(c, t) => t = s \/ t \in Rest(c)
      <3>1. ASSUME NEW t, NEW i \in 1..Len(copy), i >= at, copy[i] = t
            PROVE  t = s \/ t \in Rest(c)
        <4>1. i = at \/ i \in (at + 1)..Len(copy)
          BY <1>2, <3>1
        <4>2. QED
          BY <3>1, <4>1 DEF Rest
      <3>2. QED
        BY <3>1, OnItsWayFacts
    <2>5. DoneWith(c, Rest(c))
      BY <1>5, <2>1, <2>2, <2>3, <2>4 DEF DoneWith, EmissionWalks
    <2>6. QED
      BY <2>5
  <1>6. QED
    BY <1>4, <1>5 DEF Put

\* The event is appended to the queue it was found to fit into, and the walk goes on
\* or ends.
LEMMA PutKeeps ==
    ASSUME BusInv, NEW c \in Callers, Put(c)
    PROVE  BusInv'
  <1> DEFINE s == emission[c].copy[emission[c].at]
             e == emission[c].event
             N == Len(emitted[c])
  <1>0. BusShape /\ BusTypes /\ SubscribersOpen
    BY DEF BusInv, BusShape
  <1>1. /\ Emitting(c) /\ emission[c].fits
        /\ queue' = [queue EXCEPT ![s] = IF phase[s] = "open" THEN Append(@, e) ELSE @]
        /\ UNCHANGED <<subscribers, phase, labels, frames, emitted>>
    BY DEF Put
  <1>2. s \in Streams
    BY <1>0, <1>1, WalkFacts
  <1>13. PICK rest : DoneWith(c, rest)
    BY <1>0, PutFacts
  <1>3. /\ rest \subseteq Streams \ {s} /\ \A t \in rest : OnItsWay(c, t)
        /\ DOMAIN missed' = Streams
        /\ \A t \in Streams : missed'[t] = IF t \in rest THEN missed[t] \cup {e} ELSE missed[t]
        /\ DOMAIN emission' = Callers
        /\ \A d \in Callers \ {c} : emission'[d] = emission[d]
        /\ EmissionWalks(c)'
        /\ \A t : OnItsWay(c, t)' <=> OnItsWay(c, t) /\ t # s /\ t \notin rest
        /\ emission'[c] # NoEmission => ~emission'[c].fits
    BY <1>13 DEF DoneWith
  <1>4. ASSUME NEW d \in Callers \ {c}
        PROVE  /\ EmissionWalks(d)'
               /\ \A t : OnItsWay(d, t)' <=> OnItsWay(d, t)
    <2>1. \A t \in Streams : missed'[t] \subseteq missed[t] \cup {e}
      BY <1>3
    <2>2. QED
      BY <1>0, <1>1, <1>3, <2>1, OthersWalk
  <1>14. N \in 1..Len(emitted[c]) /\ e = emitted[c][N].event
    BY <1>0, <1>1, StandsAt
  <1> HIDE DEF s, e, N
  <1>5. /\ DOMAIN queue' = Streams
        /\ \A t \in Streams : t # s \/ phase[t] # "open" => queue'[t] = queue[t]
        /\ phase[s] = "open" => queue'[s] = Append(queue[s], e)
    BY <1>0, <1>1, <1>2 DEF BusTypes
  <1>6. phase[s] = "open" => /\ IsSeq(queue'[s]) /\ Len(queue[s]) \in Nat
                             /\ Len(queue'[s]) = Len(queue[s]) + 1
    <2>1. IsSeq(queue[s])
      BY <1>0, <1>2 DEF BusTypes
    <2>2. /\ IsSeq(Append(queue[s], e)) /\ Len(queue[s]) \in Nat
          /\ Len(Append(queue[s], e)) = Len(queue[s]) + 1
      BY <2>1, OneMoreOf
    <2>3. QED
      BY <1>5, <2>2
  <1>7. BusShape'
    <2>1. \A t \in Streams : IsSeq(queue'[t])
      BY <1>0, <1>5, <1>6 DEF BusTypes
    <2>2. BusTypes' /\ SubscribersOpen'
      BY <1>0, <1>1, <1>3, <1>5, <2>1 DEF BusTypes, SubscribersOpen
    <2>3. ASSUME NEW t \in Streams
          PROVE  StreamRests(t)'
      <3>1. StreamRests(t)
        BY <1>0 DEF BusShape
      <3>2. \A x \in missed'[t] : x \in missed[t] \/ x = emitted[c][N].event
        BY <1>3, <1>14
      <3>3. (phase[t] # "open" => queue'[t] = <<>>) /\ (phase[t] = "new" => frames[t] = <<>>)
        BY <1>5, <3>1 DEF StreamRests
      <3>4. \A x \in missed'[t] : \E d \in Callers : \E n \in 1..Len(emitted[d]) : x = emitted[d][n].event
        BY <1>14, <3>1, <3>2 DEF StreamRests
      <3>5. QED
        BY <1>1, <3>3, <3>4 DEF StreamRests
    <2>4. \A d \in Callers : EmittedOwn(d)'
      BY <1>0, <1>1 DEF BusShape, EmittedOwn
    <2>5. QED
      BY <1>3, <1>4, <2>2, <2>3, <2>4 DEF BusShape
  <1>8. ASSUME NEW t \in Streams, phase[t] = "open"
        PROVE  LineDue(t)'
    <2>1. CASE t = s
      <3>1. queue'[t] = Append(queue[t], emission[c].event) /\ t = emission[c].copy[emission[c].at]
        BY <1>5, <1>8, <2>1 DEF s, e
      <3>2. ~OnItsWay(c, t)' /\ \A d \in Callers \ {c} : OnItsWay(d, t)' <=> OnItsWay(d, t)
        BY <1>3, <1>4, <2>1
      <3>3. QED
        BY <1>1, <1>3, <1>8, <2>1, <3>1, <3>2, LineGrows DEF PutsInto
    <2>2. CASE t # s
      <3>1. Line(t)' = Line(t) /\ LineDue(t)
        BY <1>1, <1>5, <2>2 DEF Line, BusInv
      <3>2. ASSUME NEW d \in Callers
            PROVE  Due(d, t)' = Due(d, t)
        <4>1. CASE t \notin rest
          BY <1>1, <1>3, <1>4, <2>2, <4>1, DueStays
        <4>2. CASE t \in rest
          <5>1. OnItsWay(c, t) /\ ~OnItsWay(c, t)' /\ missed'[t] = missed[t] \cup {emission[c].event}
            BY <1>3, <4>2 DEF e
          <5>2. d # c => (OnItsWay(d, t)' <=> OnItsWay(d, t))
            BY <1>4
          <5>3. QED
            BY <1>0, <1>1, <5>1, <5>2, EventLost
        <4>3. QED
          BY <4>1, <4>2
      <3>3. QED
        BY <1>1, <3>1, <3>2, LineStays
    <2>3. QED
      BY <2>1, <2>2
  <1>9. ASSUME NEW t \in Streams, phase[t] = "open"
        PROVE  QueueShort(t)'
    <2>1. c \notin Fitting(t)' /\ \A d \in Callers \ {c} : d \in Fitting(t)' <=> d \in Fitting(t)
      BY <1>3 DEF Fitting
    <2>2. CASE t = s
      <3>1. c \in Fitting(t)
        BY <1>1, <2>2 DEF Fitting, Emitting, s
      <3>2. Fitting(t)' = Fitting(t) \ {c}
        BY <2>1 DEF Fitting
      <3>3. IsFiniteSet(Fitting(t))
        BY EventStreamAssumption, FS_Subset DEF Fitting
      <3>4. Cardinality(Fitting(t)') = Cardinality(Fitting(t)) - 1 /\ Cardinality(Fitting(t)) \in Nat
        BY <3>1, <3>2, <3>3, FS_RemoveElement, FS_CardinalityType
      <3>5. Cardinality(Callers) \in Nat /\ QueueSize \in Nat
        BY EventStreamAssumption, FS_CardinalityType
      <3>6. Len(queue'[t]) + Cardinality(Fitting(t)') = Len(queue[t]) + Cardinality(Fitting(t))
        BY <1>6, <1>9, <2>2, <3>4
      <3>7. QED
        BY <1>9, <3>5, <3>6 DEF QueueShort, BusInv
    <2>3. CASE t # s
      <3>1. c \notin Fitting(t)
        BY <2>3 DEF Fitting, s
      <3>2. Fitting(t)' = Fitting(t)
        BY <2>1, <3>1 DEF Fitting
      <3>3. QED
        BY <1>5, <1>9, <2>3, <3>2 DEF QueueShort, BusInv
    <2>4. QED
      BY <2>2, <2>3
  <1>10. LabelsOwn'
    BY <1>1, LabelsStay DEF BusInv
  <1>11. \A t \in Streams : LineDue(t)' /\ QueueShort(t)'
    <2>1. ASSUME NEW t \in Streams, phase[t] # "open"
          PROVE  LineDue(t)' /\ QueueShort(t)'
      BY <1>1, <2>1 DEF LineDue, QueueShort
    <2>2. QED
      BY <1>8, <1>9, <2>1
  <1>12. QED
    BY <1>7, <1>10, <1>11 DEF BusInv

\* A step of a connection: what the callers do, and what streams were not given, stays.
LEMMA ConnectionStep ==
    ASSUME BusShape, UNCHANGED <<emission, emitted, missed>>
    PROVE  /\ \A c \in Callers : EmissionWalks(c)'
           /\ \A c \in Callers, s \in Streams : Due(c, s)' = Due(c, s)
           /\ \A s \in Streams : Fitting(s)' = Fitting(s)
  <1>1. ASSUME NEW c \in Callers
        PROVE  EmissionWalks(c)'
    BY WalkStays DEF BusShape
  <1>2. ASSUME NEW c \in Callers, NEW s \in Streams
        PROVE  Due(c, s)' = Due(c, s)
    <2>1. OnItsWay(c, s)' <=> OnItsWay(c, s)
      BY DEF OnItsWay, Emitting
    <2>2. QED
      BY <2>1, DueStays
  <1>3. \A s \in Streams : Fitting(s)' = Fitting(s)
    BY DEF Fitting
  <1>4. QED
    BY <1>1, <1>2, <1>3

\* A new stream subscribes: nothing was emitted for it yet.
LEMMA OpenKeeps ==
    ASSUME BusInv, NEW s \in Streams, Open(s)
    PROVE  BusInv'
  <1>0. BusShape /\ BusTypes /\ SubscribersOpen /\ StreamRests(s)
    BY DEF BusInv, BusShape
  <1>1. /\ phase[s] = "new" /\ phase' = [phase EXCEPT ![s] = "open"]
        /\ subscribers' = Append(subscribers, s)
        /\ UNCHANGED <<queue, emission, labels, frames, emitted, missed>>
    BY DEF Open
  <1>2. phase'[s] = "open" /\ \A t \in Streams \ {s} : phase'[t] = phase[t]
    BY <1>0, <1>1 DEF BusTypes
  <1>3. /\ \A c \in Callers : EmissionWalks(c)'
        /\ \A c \in Callers, t \in Streams : Due(c, t)' = Due(c, t)
        /\ \A t \in Streams : Fitting(t)' = Fitting(t)
    BY <1>0, <1>1, ConnectionStep
  <1>4. SubscribersOpen'
    <2>1. s \notin Range(subscribers) /\ subscribers \in Seq(Streams) /\ Distinct(subscribers)
      BY <1>0, <1>1 DEF SubscribersOpen
    <2>2. IsSeq(subscribers)
      BY <2>1, OwnElements
    <2> DEFINE more == Append(subscribers, s)
    <2>3. more \in Seq(Streams)
      BY <2>1
    <2>4. /\ Len(subscribers) \in Nat /\ Len(more) = Len(subscribers) + 1
          /\ DOMAIN subscribers = 1..Len(subscribers)
          /\ \A i \in 1..Len(subscribers) : more[i] = subscribers[i]
          /\ more[Len(subscribers) + 1] = s
          /\ Range(more) = Range(subscribers) \cup {s}
      BY <2>2, OneMoreOf
    <2>5. more = subscribers'
      BY <1>1
    <2> HIDE DEF more
    <2>6. \A i \in 1..Len(subscribers) : subscribers[i] # s
      BY <2>1, <2>4 DEF Range
    <2>7. \A i \in 1..Len(more) : i \in 1..Len(subscribers) \/ i = Len(subscribers) + 1
      BY <2>4
    <2>8. Distinct(more)
      BY <2>1, <2>4, <2>6, <2>7 DEF Distinct
    <2>9. \A t \in Streams : t \in Range(more) <=> phase'[t] = "open"
      BY <1>0, <1>2, <2>4 DEF SubscribersOpen
    <2>10. QED
      BY <2>3, <2>5, <2>8, <2>9 DEF SubscribersOpen
  <1>5. BusShape'
    <2>1. phase' \in [Streams -> {"new", "open", "closed"}]
      BY <1>0, <1>1 DEF BusTypes
    <2>2. BusTypes'
      BY <1>0, <1>1, <2>1 DEF BusTypes
    <2>3. ASSUME NEW t \in Streams
          PROVE  StreamRests(t)'
      BY <1>0, <1>1, <1>2 DEF BusShape, StreamRests
    <2>4. ASSUME NEW c \in Callers
          PROVE  EmittedOwn(c)'
      BY <1>0, <1>1, <1>2 DEF BusShape, EmittedOwn
    <2>5. QED
      BY <1>3, <1>4, <2>2, <2>3, <2>4 DEF BusShape
  <1>6. LineDue(s)'
    <2>1. queue'[s] = <<>> /\ frames'[s] = <<>>
      BY <1>0, <1>1 DEF StreamRests
    <2>2. DOMAIN Line(s)' = {} /\ Range(Line(s)') = {}
      <3>1. IsSeq(<<>>) /\ Len(<<>>) = 0
        BY NoneOf
      <3>2. DOMAIN LineOf(<<>>, <<>>) = 1..0
        BY <3>1, LineElements
      <3>3. Line(s)' = LineOf(<<>>, <<>>)
        BY <2>1 DEF Line, LineOf
      <3>4. QED
        BY <3>2, <3>3 DEF Range
    <2>3. ASSUME NEW c \in Callers
          PROVE  Due(c, s) = {}
      <3>1. DOMAIN emitted[c] = 1..Len(emitted[c])
        BY <1>0, OwnElements DEF BusTypes, IsSeq
      <3>2. \A n \in 1..Len(emitted[c]) : s \notin emitted[c][n].for
        BY <1>0, <1>1 DEF BusShape, EmittedOwn
      <3>3. QED
        BY <3>1, <3>2 DEF Due
    <2>4. QED
      BY <1>3, <2>2, <2>3 DEF LineDue, InOrder
  <1>7. QueueShort(s)'
    <2>1. queue'[s] = <<>> /\ Len(<<>>) = 0
      BY <1>0, <1>1, NoneOf DEF StreamRests
    <2>2. IsFiniteSet(Callers) /\ QueueSize \in Nat \ {0} /\ Fitting(s)' \subseteq Callers
      BY EventStreamAssumption DEF Fitting
    <2>3. Cardinality(Fitting(s)') \leq Cardinality(Callers) /\ Cardinality(Fitting(s)') \in Nat
          /\ Cardinality(Callers) \in Nat
      BY <2>2, FS_Subset, FS_CardinalityType
    <2>4. QED
      BY <2>1, <2>2, <2>3 DEF QueueShort
  <1>8. ASSUME NEW t \in Streams \ {s}
        PROVE  LineDue(t)' /\ QueueShort(t)'
    <2>1. Line(t)' = Line(t) /\ LineDue(t) /\ QueueShort(t)
      BY <1>1 DEF Line, BusInv
    <2>2. LineDue(t)'
      BY <1>2, <1>3, <2>1, LineStays
    <2>3. QueueShort(t)'
      BY <1>1, <1>2, <1>3, <2>1 DEF QueueShort
    <2>4. QED
      BY <2>2, <2>3
  <1>9. LabelsOwn'
    BY <1>1, LabelsStay DEF BusInv
  <1>10. QED
    BY <1>5, <1>6, <1>7, <1>8, <1>9 DEF BusInv

\* A stream unsubscribes.
LEMMA LeaveKeeps ==
    ASSUME BusInv, NEW s \in Streams, Leave(s)
    PROVE  BusInv'
  <1>0. BusShape /\ BusTypes /\ SubscribersOpen
    BY DEF BusInv, BusShape
  <1>1. /\ phase[s] = "open" /\ phase' = [phase EXCEPT ![s] = "closed"]
        /\ subscribers' = RemoveFirst(subscribers, s)
        /\ queue' = [queue EXCEPT ![s] = <<>>]
        /\ UNCHANGED <<emission, labels, frames, emitted, missed>>
    BY DEF Leave
  <1>2. /\ phase'[s] = "closed" /\ \A t \in Streams \ {s} : phase'[t] = phase[t]
        /\ DOMAIN queue' = Streams /\ queue'[s] = <<>>
        /\ \A t \in Streams \ {s} : queue'[t] = queue[t]
    BY <1>0, <1>1 DEF BusTypes
  <1>3. /\ \A c \in Callers : EmissionWalks(c)'
        /\ \A c \in Callers, t \in Streams : Due(c, t)' = Due(c, t)
        /\ \A t \in Streams : Fitting(t)' = Fitting(t)
    BY <1>0, <1>1, ConnectionStep
  <1>4. SubscribersOpen'
    <2>1. s \in Range(subscribers) /\ subscribers \in Seq(Streams) /\ Distinct(subscribers)
      BY <1>0, <1>1 DEF SubscribersOpen
    <2>2. /\ subscribers' \in Seq(Streams) /\ Distinct(subscribers)'
          /\ Range(subscribers)' = Range(subscribers) \ {s}
      <3>1. LET rest == RemoveFirst(subscribers, s)
            IN  /\ rest \in Seq(Streams) /\ Distinct(rest)
                /\ Range(rest) = Range(subscribers) \ {s}
        BY <2>1, WithoutOne
      <3>2. Distinct(RemoveFirst(subscribers, s)) <=> Distinct(subscribers)'
        BY <1>1 DEF Distinct
      <3>3. QED
        BY <1>1, <3>1, <3>2 DEF Range
    <2>3. QED
      BY <1>0, <1>2, <2>2 DEF SubscribersOpen
  <1>5. BusShape'
    <2>1. phase' \in [Streams -> {"new", "open", "closed"}]
      BY <1>0, <1>1 DEF BusTypes
    <2>2. BusTypes'
      BY <1>0, <1>1, <1>2, <2>1, NoneOf DEF BusTypes
    <2>3. ASSUME NEW t \in Streams
          PROVE  StreamRests(t)'
      BY <1>0, <1>1, <1>2 DEF BusShape, StreamRests
    <2>4. ASSUME NEW c \in Callers
          PROVE  EmittedOwn(c)'
      BY <1>0, <1>1, <1>2 DEF BusShape, EmittedOwn
    <2>5. QED
      BY <1>3, <1>4, <2>2, <2>3, <2>4 DEF BusShape
  <1>6. LineDue(s)' /\ QueueShort(s)'
    BY <1>2 DEF LineDue, QueueShort
  <1>7. ASSUME NEW t \in Streams \ {s}
        PROVE  LineDue(t)' /\ QueueShort(t)'
    <2>1. Line(t)' = Line(t) /\ LineDue(t) /\ QueueShort(t)
      BY <1>1, <1>2 DEF Line, BusInv
    <2>2. LineDue(t)'
      BY <1>2, <1>3, <2>1, LineStays
    <2>3. QueueShort(t)'
      BY <1>2, <1>3, <2>1 DEF QueueShort
    <2>4. QED
      BY <2>2, <2>3
  <1>8. LabelsOwn'
    BY <1>1, LabelsStay DEF BusInv
  <1>9. QED
    BY <1>5, <1>6, <1>7, <1>8 DEF BusInv

\* A table with one more label, or none, keeps the labels it had; the label of an
\* event is the place of its symbol.
LEMMA LabelFacts ==
    ASSUME IsSeq(labels), Distinct(labels), NEW event
    PROVE  LET table == LabelsWith(event)
               label == Masked(event, table).label
           IN  /\ IsSeq(table) /\ Distinct(table)
               /\ \A i \in 1..Len(labels) : i \in 1..Len(table) /\ table[i] = labels[i]
               /\ label = 0 \/ (label \in 1..Len(table) /\ table[label] = event.payload.symbol)
  <1> DEFINE known  == "symbol" \in DOMAIN event.payload /\ "masked_symbol" \in Whitelist[event.type]
             symbol == event.payload.symbol
             table  == LabelsWith(event)
             label  == Masked(event, table).label
             more   == Append(labels, symbol)
  <1>1. /\ IsSeq(more) /\ Len(labels) \in Nat /\ DOMAIN labels = 1..Len(labels)
        /\ Len(more) = Len(labels) + 1 /\ DOMAIN more = 1..(Len(labels) + 1)
        /\ \A i \in 1..Len(labels) : more[i] = labels[i]
        /\ more[Len(labels) + 1] = symbol
        /\ Range(more) = Range(labels) \cup {symbol}
    BY OneMoreOf
  <1>2. label = IF known THEN LabelOf(table, symbol) ELSE 0
    BY DEF Masked
  <1>3. table = IF known /\ symbol \notin Range(labels) THEN more ELSE labels
    BY DEF LabelsWith
  <1> HIDE DEF known, symbol, table, label, more
  <1>4. ASSUME symbol \notin Range(labels)
        PROVE  Distinct(more)
    <2>1. \A i \in 1..Len(labels) : labels[i] # symbol
      BY <1>1, <1>4 DEF Range
    <2>2. \A i \in 1..Len(more) : i \in 1..Len(labels) \/ i = Len(labels) + 1
      BY <1>1
    <2>3. QED
      BY <1>1, <2>1, <2>2 DEF Distinct
  <1>5. /\ IsSeq(table) /\ Distinct(table) /\ DOMAIN table = 1..Len(table)
        /\ \A i \in 1..Len(labels) : i \in 1..Len(table) /\ table[i] = labels[i]
    BY <1>1, <1>3, <1>4
  <1>6. known => \E i \in DOMAIN table : table[i] = symbol
    <2>1. known => symbol \in Range(table)
      BY <1>1, <1>3
    <2>2. QED
      BY <2>1 DEF Range
  <1>7. known => label \in DOMAIN table /\ table[label] = symbol
    BY <1>2, <1>6 DEF LabelOf
  <1>8. label = 0 \/ (label \in 1..Len(table) /\ table[label] = symbol)
    BY <1>2, <1>5, <1>7
  <1>9. QED
    BY <1>5, <1>8 DEF table, label, symbol

\* A stream sends the event at the head of its queue.
LEMMA ServeKeeps ==
    ASSUME BusInv, NEW s \in Streams, Serve(s)
    PROVE  BusInv'
  <1> DEFINE event == Head(queue[s])
             frame == [event |-> event, sent |-> Masked(event, LabelsWith(event))]
  <1>0. BusShape /\ BusTypes /\ SubscribersOpen /\ LabelsOwn
    BY DEF BusInv, BusShape
  <1>1. /\ phase[s] = "open" /\ queue[s] # <<>>
        /\ labels' = LabelsWith(event)
        /\ frames' = [frames EXCEPT ![s] = Append(@, frame)]
        /\ queue' = [queue EXCEPT ![s] = Tail(@)]
        /\ UNCHANGED <<subscribers, phase, emission, emitted, missed>>
    BY DEF Serve
  <1>2. frame.event = event /\ frame.sent.label = Masked(event, LabelsWith(event)).label
    OBVIOUS
  <1> HIDE DEF event, frame
  <1>3. /\ DOMAIN frames' = Streams /\ DOMAIN queue' = Streams
        /\ frames'[s] = Append(frames[s], frame) /\ queue'[s] = Tail(queue[s])
        /\ \A t \in Streams \ {s} : frames'[t] = frames[t] /\ queue'[t] = queue[t]
    BY <1>0, <1>1 DEF BusTypes
  <1>4. IsSeq(frames[s]) /\ IsSeq(queue[s])
    BY <1>0 DEF BusTypes
  <1>5. /\ IsSeq(frames'[s]) /\ Len(frames[s]) \in Nat /\ Len(frames'[s]) = Len(frames[s]) + 1
        /\ \A i \in 1..Len(frames[s]) : frames'[s][i] = frames[s][i]
        /\ frames'[s][Len(frames[s]) + 1] = frame
    <2>1. /\ IsSeq(Append(frames[s], frame)) /\ Len(frames[s]) \in Nat
          /\ Len(Append(frames[s], frame)) = Len(frames[s]) + 1
          /\ \A i \in 1..Len(frames[s]) : Append(frames[s], frame)[i] = frames[s][i]
          /\ Append(frames[s], frame)[Len(frames[s]) + 1] = frame
      BY <1>4, OneMoreOf
    <2>2. QED
      BY <1>3, <2>1
  <1>6. IsSeq(queue'[s]) /\ Len(queue[s]) \in Nat /\ Len(queue'[s]) = Len(queue[s]) - 1
    <2>1. /\ IsSeq(Tail(queue[s])) /\ Len(queue[s]) \in Nat \ {0}
          /\ Len(Tail(queue[s])) = Len(queue[s]) - 1
      BY <1>1, <1>4, RestOf
    <2>2. QED
      BY <1>3, <2>1
  <1>7. /\ \A c \in Callers : EmissionWalks(c)'
        /\ \A c \in Callers, t \in Streams : Due(c, t)' = Due(c, t)
        /\ \A t \in Streams : Fitting(t)' = Fitting(t)
    BY <1>0, <1>1, ConnectionStep
  <1>8. BusShape'
    <2>1. \A t \in Streams : IsSeq(queue'[t]) /\ IsSeq(frames'[t])
      BY <1>0, <1>3, <1>5, <1>6 DEF BusTypes
    <2>2. BusTypes' /\ SubscribersOpen'
      BY <1>0, <1>1, <1>3, <2>1 DEF BusTypes, SubscribersOpen
    <2>3. ASSUME NEW t \in Streams
          PROVE  StreamRests(t)'
      BY <1>0, <1>1, <1>3 DEF BusShape, StreamRests
    <2>4. \A c \in Callers : EmittedOwn(c)'
      BY <1>0, <1>1 DEF BusShape, EmittedOwn
    <2>5. QED
      BY <1>7, <2>2, <2>3, <2>4 DEF BusShape
  <1>9. ASSUME NEW t \in Streams
        PROVE  LineDue(t)'
    <2>1. CASE t = s
      <3>1. LineOf(Append(frames[s], frame), Tail(queue[s])) = LineOf(frames[s], queue[s])
        BY <1>1, <1>2, <1>4, LineServed DEF event
      <3>2. Line(s)' = LineOf(Append(frames[s], frame), Tail(queue[s]))
        BY <1>3 DEF Line, LineOf
      <3>3. Line(s) = LineOf(frames[s], queue[s])
        BY DEF Line, LineOf
      <3>4. LineDue(t) /\ Line(t)' = Line(t)
        BY <2>1, <3>1, <3>2, <3>3 DEF BusInv
      <3>5. QED
        BY <1>1, <1>7, <3>4, LineStays
    <2>2. CASE t # s
      <3>1. LineDue(t) /\ Line(t)' = Line(t)
        BY <1>3, <2>2 DEF BusInv, Line
      <3>2. QED
        BY <1>1, <1>7, <3>1, LineStays
    <2>3. QED
      BY <2>1, <2>2
  <1>10. ASSUME NEW t \in Streams
         PROVE  QueueShort(t)'
    <2>1. QueueShort(t)
      BY DEF BusInv
    <2>2. CASE t = s
      <3>1. Fitting(t) \subseteq Callers /\ IsFiniteSet(Callers) /\ QueueSize \in Nat
        BY EventStreamAssumption DEF Fitting
      <3>2. Cardinality(Fitting(t)) \in Nat /\ Cardinality(Callers) \in Nat
        BY <3>1, FS_Subset, FS_CardinalityType
      <3>3. QED
        BY <1>1, <1>6, <1>7, <2>1, <2>2, <3>1, <3>2 DEF QueueShort
    <2>3. CASE t # s
      BY <1>1, <1>3, <1>7, <2>1, <2>3 DEF QueueShort
    <2>4. QED
      BY <2>2, <2>3
  <1>11. LabelsOwn'
    <2>1. /\ IsSeq(labels') /\ Distinct(labels')
          /\ \A i \in 1..Len(labels) : i \in 1..Len(labels') /\ labels'[i] = labels[i]
          /\ FrameLabelled(labels', frame)
      <3>1. IsSeq(labels) /\ Distinct(labels)
        BY <1>0 DEF LabelsOwn
      <3>2. QED
        BY <1>1, <1>2, <3>1, LabelFacts DEF FrameLabelled
    <2>2. ASSUME NEW t \in Streams, NEW i \in 1..Len(frames'[t])
          PROVE  FrameLabelled(labels', frames'[t][i])
      <3>1. CASE t # s \/ i \in 1..Len(frames[s])
        <4>1. i \in 1..Len(frames[t]) /\ frames'[t][i] = frames[t][i]
          BY <1>3, <1>5, <2>2, <3>1
        <4>2. FrameLabelled(labels, frames[t][i])
          BY <1>0, <4>1 DEF LabelsOwn
        <4>3. QED
          BY <2>1, <4>1, <4>2 DEF FrameLabelled
      <3>2. CASE t = s /\ i = Len(frames[s]) + 1
        BY <1>5, <2>1, <3>2
      <3>3. QED
        BY <1>5, <3>1, <3>2
    <2>3. Distinct(labels)' /\ IsSeq(labels)'
      BY <2>1 DEF Distinct, IsSeq, Range
    <2>4. QED
      BY <2>2, <2>3 DEF LabelsOwn
  <1>12. QED
    BY <1>8, <1>9, <1>10, <1>11 DEF BusInv

\* A caller looks into the queue of the stream it is at.
LEMMA LookKeeps ==
    ASSUME BusInv, NEW c \in Callers, Look(c)
    PROVE  BusInv'
  <1> DEFINE s == emission[c].copy[emission[c].at]
  <1>1. Emitting(c) /\ ~emission[c].fits
    BY DEF Look
  <1>2. Len(queue[s]) \in Nat /\ QueueSize \in Nat
    <2>1. s \in Streams
      BY <1>1, WalkFacts DEF BusInv
    <2>2. IsSeq(queue[s])
      BY <2>1 DEF BusInv, BusShape, BusTypes
    <2>3. QED
      BY <2>2, OwnElements, EventStreamAssumption DEF IsSeq
  <1>3. CASE Len(queue[s]) >= QueueSize
    BY <1>1, <1>3, DropKeeps DEF Look
  <1>4. CASE Len(queue[s]) < QueueSize
    BY <1>1, <1>2, <1>4, RoomKeeps DEF Look
  <1>5. QED
    BY <1>2, <1>3, <1>4

-----------------------------------------------------------------------------
\* The bus in the whole

\* What may happen to the bus
BusStep ==
    \/ BusNext
    \/ \E c \in Callers : \E type, payload : Emit(c, type, payload)
    \/ UNCHANGED busVars

\* Nothing that happens to the bus breaks its invariant.
LEMMA BusStepKeeps ==
    ASSUME BusInv, BusStep
    PROVE  BusInv'
  <1>1. ASSUME NEW c \in Callers, Look(c) \/ Put(c)
        PROVE  BusInv'
    BY <1>1, LookKeeps, PutKeeps
  <1>2. ASSUME NEW s \in Streams, Open(s) \/ Serve(s) \/ Leave(s)
        PROVE  BusInv'
    BY <1>2, OpenKeeps, ServeKeeps, LeaveKeeps
  <1>3. ASSUME NEW c \in Callers, NEW type, NEW payload, Emit(c, type, payload)
        PROVE  BusInv'
    BY <1>3, EmitKeeps
  <1>4. CASE UNCHANGED busVars
    <2>1. /\ UNCHANGED <<subscribers, phase, queue, labels, frames, missed>>
          /\ UNCHANGED <<emission, emitted, missed>>
      BY <1>4 DEF busVars
    <2>2. BusShape /\ LabelsOwn /\ \A s \in Streams : LineDue(s) /\ QueueShort(s)
      BY DEF BusInv
    <2>3. /\ \A c \in Callers : EmissionWalks(c)'
          /\ \A c \in Callers, s \in Streams : Due(c, s)' = Due(c, s)
          /\ \A s \in Streams : Fitting(s)' = Fitting(s)
      BY <2>1, <2>2, ConnectionStep
    <2>4. BusShape'
      <3>1. BusTypes' /\ SubscribersOpen'
        BY <2>1, <2>2 DEF BusShape, BusTypes, SubscribersOpen
      <3>2. \A s \in Streams : StreamRests(s)'
        BY <2>1, <2>2 DEF BusShape, StreamRests
      <3>3. \A c \in Callers : EmittedOwn(c)'
        BY <2>1, <2>2 DEF BusShape, EmittedOwn
      <3>4. QED
        BY <2>3, <3>1, <3>2, <3>3 DEF BusShape
    <2>5. ASSUME NEW s \in Streams
          PROVE  LineDue(s)' /\ QueueShort(s)'
      <3>1. Line(s)' = Line(s)
        BY <2>1 DEF Line
      <3>2. LineDue(s)'
        BY <2>1, <2>2, <2>3, <3>1, LineStays
      <3>3. QueueShort(s)'
        BY <2>1, <2>2, <2>3 DEF QueueShort
      <3>4. QED
        BY <3>2, <3>3
    <2>6. LabelsOwn'
      BY <2>1, <2>2, LabelsStay
    <2>7. QED
      BY <2>4, <2>5, <2>6 DEF BusInv
  <1>5. QED
    BY <1>1, <1>2, <1>3, <1>4 DEF BusStep, BusNext

\* Whatever the requests do, to the bus it is one of its steps.
LEMMA StepsOfTheBus ==
    ASSUME [ScoreNext]_rsVars
    PROVE  BusStep
  <1>1. ASSUME NEW c \in Callers, Screening(c)
        PROVE  BusStep
    <2>1. CASE Select(c)
      BY <2>1 DEF Select, BusStep
    <2>2. CASE Complete(c)
      BY <2>2 DEF Complete, BusStep
    <2>3. CASE ~Select(c) /\ ~Complete(c)
      <3>1. UNCHANGED busVars
        BY <1>1, <2>3 DEF Screening, Screen, Resolve, FetchFails, Fetch, FilterFails, Filter,
                          Average, Averaged, Answer, Done
      <3>2. QED
        BY <3>1 DEF BusStep
    <2>4. QED
      BY <2>1, <2>2, <2>3
  <1>2. CASE ScreenNext
    <2>1. ASSUME NEW b \in BarsToCome, StoreBar(b)
          PROVE  BusStep
      BY <2>1 DEF StoreBar, BusStep
    <2>2. QED
      BY <1>1, <1>2, <2>1 DEF ScreenNext, BusStep
  <1>3. ASSUME NEW c \in Callers,
               \/ \E d \in Asofs : Rate(c, d)
               \/ \E page \in Pages : ShowPage(c, page)
               \/ Rating(c)
               \/ Rated(c)
        PROVE  UNCHANGED busVars
    BY <1>3 DEF Rate, ShowPage, Rating, LookUp, LoadRoster, LoadCloses, WriteRatings, RatingFails,
                Rated
  <1>4. CASE RsNext
    BY <1>2, <1>3, <1>4 DEF RsNext, BusStep
  <1>5. ASSUME NEW c \in Callers, ScoreSymbol(c)
        PROVE  BusStep
    <2> DEFINE context   == [op[c].context EXCEPT !.bars = [i \in DOMAIN @ |-> BarOf[@[i]]]]
               candidate == Candidate(op[c].symbol, context, op[c].answer,
                                      op[c].request.resolver = "risk_off")
               payload   == [symbol |-> op[c].symbol, pattern |-> "VCP",
                             score |-> VcpPivot(context.bars).points]
    <2>1. IF candidate.vcp.pivot = 0 THEN UNCHANGED busVars ELSE Emit(c, "pattern_detected", payload)
      BY <1>5 DEF ScoreSymbol
    <2> HIDE DEF candidate, payload
    <2>2. QED
      BY <2>1 DEF BusStep
  <1>6. ASSUME NEW c \in Callers,
               \/ \E request \in Scans : Scan(c, request)
               \/ BuildContext(c) \/ AnswerScan(c)
        PROVE  UNCHANGED busVars
    BY <1>6 DEF Scan, BuildContext, AnswerScan
  <1>7. CASE UNCHANGED rsVars
    BY <1>7 DEF rsVars, screenVars, BusStep
  <1>8. QED
    BY <1>4, <1>5, <1>6, <1>7 DEF ScoreNext, BusStep

\* The bus begins without subscribers and without events.
LEMMA BusBegins ==
    ASSUME BusInit
    PROVE  BusInv
  <1>1. /\ \A s \in Streams : phase[s] = "new" /\ queue[s] = <<>> /\ frames[s] = <<>> /\ missed[s] = {}
        /\ \A c \in Callers : emission[c] = NoEmission /\ emitted[c] = <<>>
        /\ subscribers = <<>> /\ labels = <<>>
    BY DEF BusInit
  <1>2. IsSeq(<<>>) /\ Len(<<>>) = 0 /\ Range(<<>>) = {} /\ Distinct(<<>>)
    BY NoneOf
  <1>3. BusTypes
    BY <1>2 DEF BusInit, BusTypes
  <1>4. SubscribersOpen
    <2>1. <<>> \in Seq(Streams)
      OBVIOUS
    <2>2. QED
      BY <1>1, <1>2, <2>1 DEF SubscribersOpen
  <1>5. \A s \in Streams : StreamRests(s) /\ LineDue(s) /\ QueueShort(s)
    BY <1>1 DEF StreamRests, LineDue, QueueShort
  <1>6. \A c \in Callers : EmittedOwn(c) /\ EmissionWalks(c)
    BY <1>1, <1>2 DEF EmittedOwn, EmissionWalks
  <1>7. LabelsOwn
    BY <1>1, <1>2 DEF LabelsOwn
  <1>8. QED
    BY <1>3, <1>4, <1>5, <1>6, <1>7 DEF BusInv, BusShape

\* Every stream is faithful while it is open: it has sent, or has queued, what each
\* caller emitted since it opened, once and in order, except what it was not given (its
\* queue was full, or waking a stream ahead of it raised and ended the walk) and the one
\* event on its way; its queue is never longer than the callers can make it; and all streams use one label for a symbol and none for two.
THEOREM StreamsStayFaithful == ScoreSpec => []StreamsFaithful
  <1>1. RsInit => BusInv
    BY BusBegins DEF RsInit, ScreenInit
  <1>2. BusInv /\ [ScoreNext]_rsVars => BusInv'
    BY StepsOfTheBus, BusStepKeeps
  <1>3. ASSUME BusInv
        PROVE  StreamsFaithful
    <2>1. ASSUME NEW s \in Streams, phase[s] = "open"
          PROVE  /\ Len(queue[s]) < QueueSize + Cardinality(Callers)
                 /\ \A c \in Callers : {e \in Range(Line(s)) : e.by = c} = Due(c, s)
                 /\ InOrder(Line(s))
      <3>1. Fitting(s) \subseteq Callers /\ IsFiniteSet(Callers) /\ QueueSize \in Nat
        BY EventStreamAssumption DEF Fitting
      <3>2. Cardinality(Fitting(s)) \in Nat /\ Cardinality(Callers) \in Nat
        BY <3>1, FS_Subset, FS_CardinalityType
      <3>3. IsSeq(queue[s])
        BY <1>3 DEF BusInv, BusShape, BusTypes
      <3>4. Len(queue[s]) \in Nat
        BY <3>3, OwnElements DEF IsSeq
      <3>5. Len(queue[s]) + Cardinality(Fitting(s)) \leq QueueSize - 1 + Cardinality(Callers)
        BY <1>3, <2>1 DEF BusInv, QueueShort
      <3>6. Len(queue[s]) < QueueSize + Cardinality(Callers)
        BY <3>1, <3>2, <3>4, <3>5
      <3>7. QED
        BY <1>3, <2>1, <3>6 DEF BusInv, LineDue
    <2>2. ASSUME NEW s \in Streams, NEW i \in DOMAIN frames[s]
          PROVE  FrameLabelled(labels, frames[s][i])
      <3>1. IsSeq(frames[s])
        BY <1>3 DEF BusInv, BusShape, BusTypes
      <3>2. i \in 1..Len(frames[s])
        BY <3>1, OwnElements DEF IsSeq
      <3>3. QED
        BY <1>3, <3>2 DEF BusInv, LabelsOwn
    <2>3. Distinct(labels)
      BY <1>3 DEF BusInv, LabelsOwn
    <2>4. ASSUME NEW a, NEW b, FrameLabelled(labels, a), FrameLabelled(labels, b),
                 a.sent.label # 0, b.sent.label # 0
          PROVE  a.sent.label = b.sent.label <=> a.event.payload.symbol = b.event.payload.symbol
      BY <2>3, <2>4 DEF FrameLabelled, Distinct
    <2>5. QED
      BY <2>1, <2>2, <2>4 DEF StreamsFaithful
  <1>4. QED
    BY <1>1, <1>2, <1>3, PTL DEF ScoreSpec

-----------------------------------------------------------------------------
\* Sums
\*
\* A sum is a recursive function over the natural numbers, which exists because there
\* is no least number up to which it does not: the library's induction rules take
\* operators, a least number does not.

\* A set of naturals that is not empty has a least element.
LEMMA LeastNumber ==
    ASSUME NEW T \in SUBSET Nat, T # {}
    PROVE  \E m \in T : \A n \in T : m \leq n
  <1> DEFINE R == {p \in Nat \X Nat : p[1] < p[2]}
  <1>1. IsWellFoundedOn(R, Nat)
    BY NatLessThanWellFounded DEF OpToRel
  <1>2. PICK m \in T : \A n \in T : <<n, m>> \notin R
    <2> HIDE DEF R
    <2> QED BY <1>1, WFMin
  <1>3. ASSUME NEW n \in T PROVE m \leq n
    <2>1. n \in Nat /\ m \in Nat
      OBVIOUS
    <2>2. ~(n < m)
      BY <1>2, <2>1
    <2>3. QED
      BY <2>1, <2>2
  <1>4. QED
    BY <1>3

\* The running sums of a sequence up to n
RunningSum(u, seq, n) == u = [k \in 0..n |-> IF k = 0 THEN 0 ELSE u[k - 1] + seq[k]]

\* There are running sums.
LEMMA RunningSumExists ==
    ASSUME NEW seq \in Seq(Int), NEW n \in 0..Len(seq)
    PROVE  \E u \in [0..n -> Int] : RunningSum(u, seq, n)
  <1> DEFINE T == {k \in 0..Len(seq) : ~ \E u \in [0..k -> Int] : RunningSum(u, seq, k)}
  <1>1. Len(seq) \in Nat /\ \A k \in 1..Len(seq) : seq[k] \in Int
    OBVIOUS
  <1>2. T \in SUBSET Nat
    BY <1>1
  <1>3. ASSUME T # {} PROVE FALSE
    <2>1. PICK m \in T : \A k \in T : m \leq k
      <3> HIDE DEF T
      <3> QED BY <1>2, <1>3, LeastNumber
    <2>2. m \in 0..Len(seq) /\ ~ \E u \in [0..m -> Int] : RunningSum(u, seq, m)
      BY <2>1
    <2>3. m # 0
      <3> DEFINE u == [k \in 0..0 |-> 0]
      <3>1. u \in [0..0 -> Int] /\ RunningSum(u, seq, 0)
        BY DEF RunningSum
      <3>2. QED
        BY <2>2, <3>1
    <2>4. m - 1 \in 0..Len(seq) /\ ~(m \leq m - 1) /\ m \in 1..Len(seq)
      BY <1>1, <2>2, <2>3
    <2>5. PICK v \in [0..(m - 1) -> Int] : RunningSum(v, seq, m - 1)
      BY <2>1, <2>4
    <2> DEFINE u == [k \in 0..m |-> IF k = m THEN v[m - 1] + seq[m] ELSE v[k]]
    <2>6. v[m - 1] \in Int /\ seq[m] \in Int /\ u \in [0..m -> Int]
      BY <1>1, <2>4, <2>5
    <2>7. ASSUME NEW k \in 0..m
          PROVE  u[k] = IF k = 0 THEN 0 ELSE u[k - 1] + seq[k]
      <3>1. CASE k = m
        BY <2>4, <3>1
      <3>2. CASE k # m
        <4>1. k \in 0..(m - 1) /\ u[k] = v[k] /\ (k # 0 => k - 1 \in 0..(m - 1) /\ u[k - 1] = v[k - 1])
          BY <2>4, <3>2
        <4>2. v[k] = IF k = 0 THEN 0 ELSE v[k - 1] + seq[k]
          BY <2>5, <4>1 DEF RunningSum
        <4>3. QED
          BY <4>1, <4>2
      <3>3. QED
        BY <3>1, <3>2
    <2>8. RunningSum(u, seq, m)
      BY <2>6, <2>7 DEF RunningSum
    <2>9. QED
      BY <2>2, <2>6, <2>8
  <1>4. QED
    BY <1>3

\* The sum of a sequence is the last of its running sums.
LEMMA SumIsLast ==
    ASSUME NEW seq \in Seq(Int)
    PROVE  \E u : RunningSum(u, seq, Len(seq)) /\ Sum(seq) = u[Len(seq)]
  <1> DEFINE w == CHOOSE u : u = [n \in 0..Len(seq) |-> IF n = 0 THEN 0 ELSE u[n - 1] + seq[n]]
  <1>1. Len(seq) \in 0..Len(seq)
    OBVIOUS
  <1>2. \E u : RunningSum(u, seq, Len(seq))
    BY <1>1, RunningSumExists
  <1>3. RunningSum(w, seq, Len(seq))
    BY <1>2 DEF RunningSum
  <1>4. Sum(seq) = w[Len(seq)]
    BY DEF Sum
  <1>5. QED
    BY <1>3, <1>4

\* The sum of natural numbers is one, and that of integers an integer.
LEMMA SumIn ==
    ASSUME NEW V, V = Nat \/ V = Int, NEW seq \in Seq(V)
    PROVE  Sum(seq) \in V
  <1>1. seq \in Seq(Int) /\ Len(seq) \in Nat /\ \A k \in 1..Len(seq) : seq[k] \in V
    OBVIOUS
  <1>2. PICK u : RunningSum(u, seq, Len(seq)) /\ Sum(seq) = u[Len(seq)]
    BY <1>1, SumIsLast
  <1> DEFINE T == {k \in 0..Len(seq) : u[k] \notin V}
  <1>3. ASSUME T # {} PROVE FALSE
    <2>1. PICK m \in T : \A k \in T : m \leq k
      <3>1. T \in SUBSET Nat
        BY <1>1
      <3> HIDE DEF T
      <3>2. QED
        BY <1>3, <3>1, LeastNumber
    <2>2. m \in 0..Len(seq) /\ u[m] \notin V
      BY <2>1
    <2>3. u[m] = IF m = 0 THEN 0 ELSE u[m - 1] + seq[m]
      BY <1>2, <2>2 DEF RunningSum
    <2>4. m # 0
      BY <2>2, <2>3
    <2>5. m - 1 \in 0..Len(seq) /\ ~(m \leq m - 1) /\ m \in 1..Len(seq)
      BY <1>1, <2>2, <2>4
    <2>6. u[m - 1] \in V /\ seq[m] \in V
      BY <1>1, <2>1, <2>5
    <2>7. QED
      BY <2>2, <2>3, <2>4, <2>6
  <1>4. QED
    BY <1>1, <1>2, <1>3

\* The sum of two numbers
LEMMA SumOfTwo ==
    ASSUME NEW seq \in Seq(Int), Len(seq) = 2
    PROVE  Sum(seq) = seq[1] + seq[2]
  <1>1. PICK u : RunningSum(u, seq, 2) /\ Sum(seq) = u[2]
    BY SumIsLast
  <1>2. u[0] = 0 /\ u[1] = u[0] + seq[1] /\ u[2] = u[1] + seq[2]
    BY <1>1 DEF RunningSum
  <1>3. seq[1] \in Int /\ seq[2] \in Int
    OBVIOUS
  <1>4. QED
    BY <1>1, <1>2, <1>3

-----------------------------------------------------------------------------
\* Numbers in their places

\* The least of a set of natural numbers
LEMMA MinIs ==
    ASSUME NEW S \in SUBSET Nat, S # {}
    PROVE  Min(S) \in S /\ \A x \in S : Min(S) \leq x
  <1>1. \E m \in S : \A x \in S : m \leq x
    BY LeastNumber
  <1>2. QED
    BY <1>1 DEF Min

\* The greatest of a finite set of natural numbers
LEMMA MaxIs ==
    ASSUME NEW n \in Nat, NEW S \in SUBSET (0..n), S # {}
    PROVE  Max(S) \in S /\ \A x \in S : x \leq Max(S)
  <1> DEFINE T == {n - x : x \in S}
  <1>1. T \in SUBSET Nat /\ T # {}
    <2>1. \A x \in S : n - x \in Nat
      OBVIOUS
    <2>2. QED
      BY <2>1
  <1>2. PICK m \in T : \A k \in T : m \leq k
    <2> HIDE DEF T
    <2> QED BY <1>1, LeastNumber
  <1>3. PICK x \in S : m = n - x
    BY <1>2
  <1>4. \A y \in S : n - x \leq n - y
    BY <1>2, <1>3
  <1>5. \A y \in S : x >= y
    BY <1>4
  <1>6. Max(S) \in S /\ \A y \in S : Max(S) >= y
    BY <1>5 DEF Max
  <1>7. QED
    BY <1>6

\* The least and the greatest of two
LEMMA TwoNumbers ==
    ASSUME NEW a \in Int, NEW b \in Int
    PROVE  /\ Min({a, b}) = IF a \leq b THEN a ELSE b
           /\ Max({a, b}) = IF a \leq b THEN b ELSE a
  <1>1. Min({a, b}) \in {a, b} /\ Min({a, b}) \leq a /\ Min({a, b}) \leq b
    BY DEF Min
  <1>2. Max({a, b}) \in {a, b} /\ Max({a, b}) >= a /\ Max({a, b}) >= b
    BY DEF Max
  <1>3. QED
    BY <1>1, <1>2

\* A one-to-one map of a finite set to as many numbers comes to each of them.
LEMMA PlacesTaken ==
    ASSUME NEW S, IsFiniteSet(S), NEW f \in [S -> 0..(Cardinality(S) - 1)],
           \A x, y \in S : f[x] = f[y] => x = y,
           NEW k \in 1..Cardinality(S)
    PROVE  \E x \in S : f[x] = k - 1
  <1> DEFINE n == Cardinality(S)
             T == 0..(n - 1)
  <1>1. n \in Nat
    BY FS_CardinalityType
  <1>2. n > 0
    BY <1>1
  <1>3. IsFiniteSet(T) /\ Cardinality(T) = n
    <2>1. 0 \in Int /\ n - 1 \in Int /\ ~(0 > n - 1) /\ n - 1 - 0 + 1 = n
      BY <1>1, <1>2
    <2> HIDE DEF n
    <2>2. QED
      BY <2>1, FS_Interval
  <1>4. f \in Injection(S, T)
    BY DEF Injection, IsInjective
  <1>5. f \in Surjection(S, T)
    <2> HIDE DEF T
    <2> QED BY <1>3, <1>4, FS_Injection
  <1>6. k - 1 \in T
    BY <1>1
  <1>7. QED
    BY <1>5, <1>6 DEF Surjection

\* Which of a set come before each one, in an order of all of them
Ordered(S, ahead) ==
    /\ DOMAIN ahead = S /\ \A x \in S : ahead[x] \in SUBSET (S \ {x})
    /\ \A x, y \in S : x # y => x \in ahead[y] \/ y \in ahead[x]
    /\ \A x, y, z \in S : x \in ahead[y] /\ y \in ahead[z] => x \in ahead[z]

\* Where each one is, in a finite set, by the number of those before it: everyone has
\* a place of his own, an earlier one has a lower place, and no place is left out.
LEMMA PlaceFacts ==
    ASSUME NEW S, IsFiniteSet(S), NEW ahead, Ordered(S, ahead)
    PROVE  /\ \A x \in S : Cardinality(ahead[x]) \in 0..(Cardinality(S) - 1)
           /\ \A x, y \in S : x \in ahead[y] => Cardinality(ahead[x]) < Cardinality(ahead[y])
           /\ \A x, y \in S : Cardinality(ahead[x]) = Cardinality(ahead[y]) => x = y
           /\ \A k \in 1..Cardinality(S) : \E x \in S : Cardinality(ahead[x]) = k - 1
  <1> DEFINE place == [x \in S |-> Cardinality(ahead[x])]
  <1>1. /\ \A x \in S : ahead[x] \in SUBSET S /\ ahead[x] # S
        /\ \A x, y \in S : x \in ahead[y] => ahead[x] \in SUBSET ahead[y] /\ ahead[x] # ahead[y]
    BY DEF Ordered
  <1>2. \A x \in S : place[x] = Cardinality(ahead[x])
    OBVIOUS
  <1>3. /\ Cardinality(S) \in Nat
        /\ \A x \in S : IsFiniteSet(ahead[x]) /\ Cardinality(ahead[x]) \in Nat
    BY <1>1, FS_CardinalityType, FS_Subset
  <1>4. ASSUME NEW x \in S
        PROVE  place[x] \in 0..(Cardinality(S) - 1)
    <2>1. Cardinality(ahead[x]) \leq Cardinality(S) /\ Cardinality(ahead[x]) # Cardinality(S)
      BY <1>1, FS_Subset
    <2> HIDE DEF place
    <2>2. QED
      BY <1>2, <1>3, <2>1
  <1>5. ASSUME NEW x \in S, NEW y \in S, x \in ahead[y]
        PROVE  place[x] < place[y]
    <2>1. ahead[x] \in SUBSET ahead[y] /\ ahead[x] # ahead[y] /\ IsFiniteSet(ahead[y])
      BY <1>1, <1>3, <1>5
    <2>2. Cardinality(ahead[x]) \leq Cardinality(ahead[y]) /\ Cardinality(ahead[x]) # Cardinality(ahead[y])
      BY <2>1, FS_Subset
    <2> HIDE DEF place
    <2>3. QED
      BY <1>2, <1>3, <2>2
  <1>6. ASSUME NEW x \in S, NEW y \in S, place[x] = place[y]
        PROVE  x = y
    <2>1. ~(place[x] < place[y]) /\ ~(place[y] < place[x])
      <3>1. place[x] \in Int /\ place[y] \in Int
        BY <1>4
      <3> HIDE DEF place
      <3>2. QED
        BY <1>6, <3>1
    <2> HIDE DEF place
    <2>2. QED
      BY <1>5, <2>1 DEF Ordered
  <1>7. \A k \in 1..Cardinality(S) : \E x \in S : place[x] = k - 1
    <2>1. place \in [S -> 0..(Cardinality(S) - 1)] /\ \A x, y \in S : place[x] = place[y] => x = y
      BY <1>4, <1>6
    <2> HIDE DEF place
    <2>2. QED
      BY <2>1, PlacesTaken
  <1>8. QED
    BY <1>4, <1>5, <1>6, <1>7

\* No place of a set in order is left out.
LEMMA EveryPlace ==
    ASSUME NEW S, IsFiniteSet(S), NEW ahead, Ordered(S, ahead), NEW k \in 1..Cardinality(S)
    PROVE  \E x \in S : Cardinality(ahead[x]) = k - 1
  BY PlaceFacts

\* The first n numbers are n.
LEMMA FirstNumbers ==
    ASSUME NEW n \in Nat
    PROVE  IsFiniteSet(1..n) /\ Cardinality(1..n) = n
  <1>1. 1 \in Int /\ n \in Int /\ (IF 1 > n THEN 0 ELSE n - 1 + 1) = n
    OBVIOUS
  <1>2. QED
    BY <1>1, FS_Interval

\* The numbers of a finite set in ascending order: all of them, as a sequence.
LEMMA AscendingIs ==
    ASSUME NEW S \in SUBSET Nat, IsFiniteSet(S)
    PROVE  Ascending(S) \in Seq(S) /\ Len(Ascending(S)) = Cardinality(S)
  <1> DEFINE n     == Cardinality(S)
             ahead == [x \in S |-> {y \in S : y < x}]
  <1>1. n \in Nat
    BY FS_CardinalityType
  <1>2. Ordered(S, ahead)
    BY DEF Ordered
  <1>3. \A k \in 1..n : \E x \in S : Cardinality(ahead[x]) = k - 1
    <2> HIDE DEF ahead
    <2>1. QED
      BY <1>2, EveryPlace
  <1>5. ASSUME NEW k \in 1..n
        PROVE  (CHOOSE x \in S : Cardinality({y \in S : y < x}) = k - 1) \in S
    <2>1. PICK x \in S : Cardinality(ahead[x]) = k - 1
      BY <1>3
    <2>2. Cardinality({y \in S : y < x}) = k - 1
      BY <2>1
    <2>3. QED
      BY <2>2
  <1> DEFINE seq == [k \in 1..n |-> CHOOSE x \in S : Cardinality({y \in S : y < x}) = k - 1]
  <1>6. Ascending(S) = seq /\ seq \in [1..n -> S]
    BY <1>5 DEF Ascending
  <1> HIDE DEF seq
  <1>7. QED
    BY <1>1, <1>6

-----------------------------------------------------------------------------
\* The page of a symbol

Bar == [c : Nat, h : Nat, l : Nat, v : Nat, amount : Nat]

\* The numbers of a bar
LEMMA BarFacts ==
    ASSUME NEW bar \in Bar
    PROVE  bar.c \in Nat /\ bar.h \in Nat /\ bar.l \in Nat /\ bar.v \in Nat
  BY DEF Bar

\* The bars that are there are bars.
BarsThere == bars \in [Symbols -> [Days -> DOMAIN BarOf \cup {NoBar}]]

\* The bars of a page are bars, oldest first.
LEMMA PageWindow ==
    ASSUME BarsThere, NEW s \in Symbols, NEW today \in Days, NEW days
    PROVE  PageBars(s, today, days) \in Seq(Bar)
  <1> DEFINE reach == {d \in 1..today : bars[s][d] # NoBar /\ d >= today - ((8 * days) \div 5 + 14)}
             some  == {d \in reach : Cardinality({e \in reach : e >= d}) \leq days}
             last  == Ascending(some)
  <1>1. today \in Nat /\ 1..today \subseteq Days
    BY ScreenerAssumption DEF Days
  <1>2. IsFiniteSet(1..today) /\ some \in SUBSET (1..today)
    BY <1>1, FS_Interval
  <1>3. IsFiniteSet(some) /\ some \in SUBSET Nat
    <2>1. 1..today \subseteq Nat
      OBVIOUS
    <2> HIDE DEF some
    <2>2. QED
      BY <1>2, <2>1, FS_Subset
  <1>4. last \in Seq(some)
    <2> HIDE DEF some
    <2> QED BY <1>3, AscendingIs
  <1>5. \A d \in some : BarOf[bars[s][d]] \in Bar
    <2>1. \A d \in some : d \in Days /\ bars[s][d] # NoBar
      BY <1>1
    <2>2. \A d \in some : bars[s][d] \in DOMAIN BarOf
      BY <2>1 DEF BarsThere
    <2>3. QED
      BY <2>2, ScreenerAssumption DEF Bar
  <1>6. PageBars(s, today, days) = [i \in DOMAIN last |-> BarOf[bars[s][last[i]]]]
    BY DEF PageBars
  <1> HIDE DEF some, last
  <1>7. Len(last) \in Nat /\ DOMAIN last = 1..Len(last) /\ \A i \in 1..Len(last) : last[i] \in some
    BY <1>4
  <1>8. QED
    BY <1>5, <1>6, <1>7

\* A moving average of bars that are there is a natural number.
LEMMA AverageIn ==
    ASSUME NEW window \in Seq(Bar), NEW period \in Nat \ {0}, NEW ago \in Nat,
           period + ago \leq Len(window)
    PROVE  Ma(window, period, ago) \in Nat
  <1> DEFINE n      == Len(window) - ago
             closes == [i \in 1..period |-> window[n - period + i].c]
  <1>1. Len(window) \in Nat /\ DOMAIN window = 1..Len(window) /\ n \in Nat /\ period \leq n /\ n \leq Len(window)
    OBVIOUS
  <1>2. \A i \in 1..period : n - period + i \in 1..Len(window)
    BY <1>1
  <1>3. \A i \in 1..period : window[n - period + i].c \in Nat
    <2>1. \A i \in 1..period : window[n - period + i] \in Bar
      BY <1>2
    <2>2. QED
      BY <2>1, BarFacts
  <1>4. closes \in Seq(Nat)
    BY <1>3
  <1>5. Sum(closes) \in Nat
    BY <1>4, SumIn
  <1>6. Ma(window, period, ago) = Sum(closes) \div period
    BY DEF Ma
  <1> HIDE DEF closes
  <1>7. QED
    BY <1>5, <1>6

\* The window of a page is as long as the longest rules need, and the averages of its
\* last day are natural numbers.
LEMMA LongWindow ==
    ASSUME NEW window \in Seq(Bar), Len(window) = W.need252
    PROVE  /\ ~(Len(window) < W.need252)
           /\ Close(window) \in Nat
           /\ Ma(window, W.ma50, 0) \in Nat
           /\ Ma(window, W.ma150, 0) \in Nat
           /\ Ma(window, W.ma200, 0) \in Nat
  <1>1. /\ W.need252 \in Nat \ {0} /\ W.ma50 \in Nat \ {0} /\ W.ma150 \in Nat \ {0}
        /\ W.ma200 \in Nat \ {0} /\ W.slope20 \in Nat \ {0} /\ W.ago22 \in Nat \ {0}
        /\ W.ago5 \in Nat \ {0}
    BY WindowsAssumption DEF Windows
  <1>2. Max({W.slope20, W.ago22}) \in Nat
    <2>1. W.slope20 \in Int /\ W.ago22 \in Int
      BY <1>1
    <2>2. Max({W.slope20, W.ago22}) = IF W.slope20 \leq W.ago22 THEN W.ago22 ELSE W.slope20
      BY <2>1, TwoNumbers
    <2>3. QED
      BY <1>1, <2>2
  <1>3. W.ma50 + 0 \leq Len(window) /\ W.ma150 + 0 \leq Len(window) /\ W.ma200 + 0 \leq Len(window)
    BY <1>1, <1>2, WindowsAssumption
  <1>4. Close(window) \in Nat
    <2>1. window[Len(window)] \in Bar
      BY <1>1
    <2>2. QED
      BY <2>1, BarFacts DEF Close
  <1>5. 0 \in Nat /\ ~(Len(window) < W.need252)
    BY <1>1
  <1>6. Ma(window, W.ma50, 0) \in Nat
    BY <1>1, <1>3, <1>5, AverageIn
  <1>7. Ma(window, W.ma150, 0) \in Nat
    BY <1>1, <1>3, <1>5, AverageIn
  <1>8. Ma(window, W.ma200, 0) \in Nat
    BY <1>1, <1>3, <1>5, AverageIn
  <1>9. QED
    BY <1>4, <1>5, <1>6, <1>7, <1>8

\* The rules of a window of bars that is long enough: the fourth stage has neither a
\* confirmed second stage nor a template, and what passes the template is in stage 2 or
\* 3 and fulfils all conditions but that the long average has risen.
LEMMA StagesOfWindow ==
    ASSUME NEW window \in Seq(Bar), Len(window) = W.need252
    PROVE  /\ Stage(window) = 4 => /\ Stage2Confirmed(window).points = 0
                                   /\ TrendTemplate8(window).points = 0
           /\ TemplatePassed(window, 99) =>
                /\ Stage(window) \in {2, 3}
                /\ \A i \in 1..7 \ {3} : TemplateConditions(window)[i]
  <1> DEFINE close == Close(window)
             ma50  == Ma(window, W.ma50, 0)
             ma150 == Ma(window, W.ma150, 0)
             ma200 == Ma(window, W.ma200, 0)
  <1>1. /\ ~(Len(window) < W.need252)
        /\ close \in Nat /\ ma50 \in Nat /\ ma150 \in Nat /\ ma200 \in Nat
    BY LongWindow
  <1> HIDE DEF close, ma50, ma150, ma200
  <1>2. IsStage4(window) => close < ma50 /\ ma50 < ma150 /\ ma150 < ma200
    BY DEF IsStage4, close, ma50, ma150, ma200
  <1>3. Stacked(window) <=> close > ma50 /\ ma50 > ma150 /\ ma150 > ma200
    BY DEF Stacked, close, ma50, ma150, ma200
  <1>4. /\ TemplateConditions(window)[1] = (close > ma150 /\ close > ma200)
        /\ TemplateConditions(window)[2] = (ma150 > ma200)
        /\ TemplateConditions(window)[4] = (ma50 > ma150 /\ ma50 > ma200)
        /\ TemplateConditions(window)[5] = (close > ma50)
        /\ TemplateConditions(window)[6] = AboveTheLow(window)
        /\ TemplateConditions(window)[7] = NearTheHigh(window)
        /\ 5 \in DOMAIN TemplateConditions(window)
    BY DEF TemplateConditions, close, ma50, ma150, ma200
  <1>5. ASSUME Stage(window) = 4
        PROVE  Stage2Confirmed(window).points = 0 /\ TrendTemplate8(window).points = 0
    <2>1. IsStage4(window)
      BY <1>1, <1>5 DEF Stage
    <2>2. ~(close > ma150) /\ ~(close > ma50)
      BY <1>1, <1>2, <2>1
    <2>3. Stage2Confirmed(window).points = 0
      BY <1>1, <2>2 DEF Stage2Confirmed, AllOr, Scored, close, ma150
    <2>4. Range(TemplateConditions(window)) # {TRUE}
      BY <1>4, <2>2 DEF Range
    <2>5. TrendTemplate8(window).points = 0
      BY <1>1, <2>4 DEF TrendTemplate8, AllOr, Scored
    <2>6. QED
      BY <2>3, <2>5
  <1>6. ASSUME TemplatePassed(window, 99)
        PROVE  /\ Stage(window) \in {2, 3}
               /\ \A i \in 1..7 \ {3} : TemplateConditions(window)[i]
    <2>1. /\ Stacked(window) /\ close > ma150 /\ close > ma200
          /\ Ma200Rising(window) /\ NearTheHigh(window) /\ AboveTheLow(window)
      BY <1>6 DEF TemplatePassed, close, ma150, ma200
    <2>2. close > ma50 /\ ma50 > ma150 /\ ma150 > ma200 /\ ma50 > ma200
      BY <1>1, <1>3, <2>1
    <2>3. ~IsStage4(window) /\ close # 0
      BY <1>1, <1>2, <2>2
    <2>4. Stage(window) \in {2, 3}
      BY <1>1, <2>1, <2>3 DEF Stage, close
    <2>5. 1..7 \ {3} = {1, 2, 4, 5, 6, 7}
      OBVIOUS
    <2>6. QED
      BY <1>4, <2>1, <2>2, <2>4, <2>5
  <1>7. QED
    BY <1>5, <1>6

-----------------------------------------------------------------------------
\* What a call stands on

ScreenPlaces == {"resolving", "fetching", "selecting", "filtering", "averaging", "completing"}

RatePlaces == {"looking", "rostering", "loading", "rated"}

\* What is kept is of the symbols and the days, and ratings are natural numbers.
RosterThere == roster \in [Days -> SUBSET Symbols]

RatingsThere == \A d \in Days : \A s \in DOMAIN ratings[d] : ratings[d][s] \in Nat

World == BarsThere /\ RosterThere /\ RatingsThere

\* Every place is of one kind of call, and the call has a day there.
KindStands(call) ==
    /\ call.pc \in {"idle", "answered", "scoring"} \cup ScreenPlaces \cup RatePlaces
    /\ call.pc \in ScreenPlaces => call.kind = "screen"
    /\ call.pc = "scoring" => call.kind = "scan"
    /\ call.pc \in RatePlaces => call.kind \in {"rate", "scan"}
    /\ call.pc \notin {"idle", "answered"} => call.asof \in Days
    /\ call.kind = "page" => call.symbol \in Symbols /\ call.asof \in Days

\* The closes are of finitely many symbols, and what a call has been rated is a rating
\* or that there is none.
RateStands(call) ==
    /\ IsFiniteSet(DOMAIN call.closes)
    /\ call.pc = "rated" => call.answer \in Nat \cup {Raised}

\* What is left of a universe is no more than it had.
Fits(call) ==
    /\ call.rows \cup call.left \subseteq Symbols
    /\ Cardinality(call.rows \cup call.left) \leq call.size

\* The last thing told is the start of a screen.
Started(told, size) ==
    LET last == told[Len(told)].event
    IN  /\ Len(told) > 0 /\ last.type = "screener_started" /\ DOMAIN last.payload = {"universe_size"}
        /\ last.payload.universe_size = size /\ size \in Nat

\* The last two things told are the start and the completion of a screen.
Finished(told, size, count) ==
    LET n     == Len(told)
        first == told[n-1].event
        last  == told[n].event
    IN  /\ first.type = "screener_started" /\ last.type = "screener_completed"
        /\ first.payload.universe_size = size
        /\ last.payload.candidate_count = count

ScreenStands(call, told) ==
    /\ call.pc \in {"resolving", "fetching", "selecting"} => call.left = {}
    /\ call.pc \in {"filtering", "averaging"} => Fits(call) /\ Started(told, call.size)
    /\ call.pc = "completing" => Finished(told, call.size, Cardinality(call.rows))
    /\ call.pc = "answered" /\ call.kind = "screen" /\ call.answer.ok =>
         Finished(told, call.answer.size, Cardinality(call.answer.candidates))

\* The rows with a pivot have been announced, in their order, by the last events.
Announced(rows, told) ==
    \A k \in DOMAIN rows : rows[k].vcp.pivot # 0 =>
        LET place == Len(told) + 1 - Cardinality(AnnouncedFrom(rows, k))
        IN  /\ place \in 1..Len(told)
            /\ told[place].event.type = "pattern_detected"
            /\ told[place].event.payload.symbol = rows[k].symbol

\* What has been scored so far
RowsStand(rows) ==
    /\ IsSeq(rows)
    /\ \A i \in 1..Len(rows) : rows[i].final \in Int /\ rows[i].symbol \in Int /\ rows[i].class = "red"

\* The best of what was scored
Best(best, all, topn) ==
    /\ Len(best) = Min(topn \cup {Len(all)})
    /\ Range(best) \subseteq Range(all)
    /\ \A i, j \in 1..Len(best) : i < j => ~Before(best[j], best[i])
    /\ \A row \in Range(all) \ Range(best) : \A i \in 1..Len(best) : ~Before(row, best[i])

Flows == {NoFlow} \cup [foreign : Int, trust : Int]

ScanStands(call, told) ==
    /\ call.kind = "scan" /\ call.pc # "answered" =>
         /\ call.request \in Scans /\ ValidScan(call.request)
         /\ RowsStand(call.rows) /\ Announced(call.rows, told)
    /\ call.kind = "scan" /\ call.pc \in RatePlaces =>
         /\ call.symbol \in Symbols
         /\ DOMAIN call.context = {"bars", "flow"} /\ call.context.flow \in Flows
    /\ call.kind = "scan" /\ call.pc = "answered" /\ call.answer.ok =>
         /\ RowsStand(call.answer.scored) /\ Announced(call.answer.scored, told)
         /\ Best(call.answer.candidates, call.answer.scored, call.answer.topn)

CallStands(call, told) ==
    /\ KindStands(call) /\ RateStands(call)
    /\ ScreenStands(call, told) /\ ScanStands(call, told)

\* In what a caller has told, a completion follows directly on its start, with no more
\* candidates than that had.
Pairs(told) ==
    \A n \in 1..Len(told) :
       LET last  == told[n].event
           first == told[n-1].event
       IN  /\ last.type = "screener_started" => "universe_size" \in DOMAIN last.payload
           /\ last.type = "screener_completed" =>
                /\ n > 1 /\ first.type = "screener_started"
                /\ "candidate_count" \in DOMAIN last.payload
                /\ last.payload.candidate_count \leq first.payload.universe_size

Standing == World /\ \A c \in Callers : CallStands(op[c], emitted[c]) /\ Pairs(emitted[c])

-----------------------------------------------------------------------------
\* The best of the rows

\* The rows before each one
AheadOf(rows) == [i \in DOMAIN rows |-> {j \in DOMAIN rows : Ahead(rows, j, i)}]

\* The rows are in an order, by score, by symbol and then by their places.
LEMMA AheadOrders ==
    ASSUME NEW rows, RowsStand(rows)
    PROVE  /\ DOMAIN rows = 1..Len(rows) /\ Len(rows) \in Nat
           /\ Ordered(DOMAIN rows, AheadOf(rows))
           /\ \A i \in DOMAIN rows : Place(rows, i) = Cardinality(AheadOf(rows)[i])
           /\ \A i, j \in DOMAIN rows : Before(rows[i], rows[j]) => i \in AheadOf(rows)[j]
  <1> DEFINE D     == DOMAIN rows
             ahead == AheadOf(rows)
             score == [i \in D |-> rows[i].final]
             code  == [i \in D |-> rows[i].symbol]
  <1>1. Len(rows) \in Nat /\ D = 1..Len(rows)
    BY OwnElements DEF RowsStand, IsSeq
  <1>2. \A i \in D : i \in Int /\ score[i] \in Int /\ code[i] \in Int
    BY <1>1 DEF RowsStand
  <1>3. \A i, j \in D : Before(rows[i], rows[j]) <=>
                           score[i] > score[j] \/ (score[i] = score[j] /\ code[i] < code[j])
    BY DEF Before
  <1>4. \A i, j \in D : i \in ahead[j] <=> Ahead(rows, i, j)
    BY DEF AheadOf
  <1>5. /\ DOMAIN ahead = D /\ \A i \in D : ahead[i] \in SUBSET D
        /\ \A i \in D : Place(rows, i) = Cardinality(ahead[i])
    BY DEF Place, AheadOf
  <1> HIDE DEF score, code, D, ahead
  <1>6. \A i, j \in D : i \in ahead[j] <=>
            \/ score[i] > score[j]
            \/ score[i] = score[j] /\ code[i] < code[j]
            \/ score[i] = score[j] /\ code[i] = code[j] /\ i < j
    <2>1. ASSUME NEW i \in D, NEW j \in D
          PROVE  i \in ahead[j] <=> \/ score[i] > score[j]
                                    \/ score[i] = score[j] /\ code[i] < code[j]
                                    \/ score[i] = score[j] /\ code[i] = code[j] /\ i < j
      <3>1. i \in ahead[j] <=> Before(rows[i], rows[j]) \/ (~Before(rows[j], rows[i]) /\ i < j)
        BY <1>4 DEF Ahead
      <3>2. QED
        BY <1>2, <1>3, <3>1
    <2>2. QED
      BY <2>1
  <1>7. Ordered(D, ahead)
    <2>1. \A x \in D : x \notin ahead[x]
      BY <1>2, <1>6
    <2>2. \A x, y \in D : x # y => x \in ahead[y] \/ y \in ahead[x]
      BY <1>2, <1>6
    <2>3. \A x, y, z \in D : x \in ahead[y] /\ y \in ahead[z] => x \in ahead[z]
      BY <1>2, <1>6
    <2>4. QED
      BY <1>5, <2>1, <2>2, <2>3 DEF Ordered
  <1>8. \A i, j \in D : Before(rows[i], rows[j]) => i \in ahead[j]
    BY <1>3, <1>6
  <1>9. QED
    BY <1>1, <1>5, <1>7, <1>8 DEF D, ahead

\* Sorting keeps every row, and none comes before an earlier one.
LEMMA SortedFacts ==
    ASSUME NEW rows, RowsStand(rows)
    PROVE  /\ IsSeq(Sorted(rows)) /\ Len(Sorted(rows)) = Len(rows) /\ Len(rows) \in Nat
           /\ Range(Sorted(rows)) = Range(rows)
           /\ \A i, j \in 1..Len(rows) : i < j => ~Before(Sorted(rows)[j], Sorted(rows)[i])
  <1> DEFINE D     == DOMAIN rows
             n     == Len(rows)
             ahead == AheadOf(rows)
             at    == [k \in D |-> CHOOSE i \in D : Place(rows, i) = k - 1]
             place == [i \in D |-> Cardinality(ahead[i])]
  <1>1. /\ D = 1..n /\ n \in Nat /\ Ordered(D, ahead)
        /\ \A i \in D : Place(rows, i) = place[i]
        /\ \A i, j \in D : Before(rows[i], rows[j]) => i \in ahead[j]
    BY AheadOrders
  <1>2. IsFiniteSet(D) /\ Cardinality(D) = n
    <2>1. IsFiniteSet(1..n) /\ Cardinality(1..n) = n
      BY <1>1, FirstNumbers
    <2>2. QED
      BY <1>1, <2>1
  <1>3. /\ place \in [D -> 0..(n - 1)]
        /\ \A i, j \in D : i \in ahead[j] => place[i] < place[j]
        /\ \A i, j \in D : place[i] = place[j] => i = j
        /\ \A k \in D : \E i \in D : place[i] = k - 1
    <2>1. /\ \A i \in D : Cardinality(ahead[i]) \in 0..(Cardinality(D) - 1)
          /\ \A i, j \in D : i \in ahead[j] => Cardinality(ahead[i]) < Cardinality(ahead[j])
          /\ \A i, j \in D : Cardinality(ahead[i]) = Cardinality(ahead[j]) => i = j
          /\ \A k \in 1..Cardinality(D) : \E i \in D : Cardinality(ahead[i]) = k - 1
      <3>1. IsFiniteSet(D) /\ Ordered(D, ahead)
        BY <1>1, <1>2
      <3> HIDE DEF D, ahead
      <3>2. QED
        BY <3>1, PlaceFacts
    <2>2. QED
      BY <1>1, <1>2, <2>1
  <1>4. \A k \in D : at[k] \in D /\ place[at[k]] = k - 1
    <2>1. \A k \in D : \E i \in D : Place(rows, i) = k - 1
      BY <1>1, <1>3
    <2>2. \A k \in D : at[k] \in D /\ Place(rows, at[k]) = k - 1
      BY <2>1
    <2> HIDE DEF at, place
    <2>3. QED
      BY <1>1, <2>2
  <1>5. Sorted(rows) = [k \in D |-> rows[at[k]]]
    BY DEF Sorted
  <1>6. rows \in [D -> Range(rows)] /\ Range(rows) = {rows[i] : i \in D}
    BY <1>1, OwnElements DEF RowsStand, IsSeq, Range
  <1> HIDE DEF at, place, ahead, D, n
  <1>7. \A i \in D : place[i] + 1 \in D /\ at[place[i] + 1] = i
    <2>1. ASSUME NEW i \in D
          PROVE  place[i] + 1 \in D /\ at[place[i] + 1] = i
      <3>1. place[i] \in 0..(n - 1)
        BY <1>3
      <3>2. place[i] + 1 \in D /\ (place[i] + 1) - 1 = place[i]
        BY <1>1, <3>1
      <3>3. at[place[i] + 1] \in D /\ place[at[place[i] + 1]] = place[i]
        BY <1>4, <3>2
      <3>4. QED
        BY <1>3, <3>2, <3>3
    <2>2. QED
      BY <2>1
  <1>8. Sorted(rows) \in [1..n -> Range(rows)]
    BY <1>1, <1>4, <1>5, <1>6
  <1>9. Range(Sorted(rows)) = Range(rows)
    <2>1. Range(Sorted(rows)) = {Sorted(rows)[k] : k \in D}
      BY <1>1, <1>8 DEF Range
    <2>2. \A k \in D : at[k] \in D /\ Sorted(rows)[k] = rows[at[k]]
      BY <1>4, <1>5
    <2>3. \A i \in D : \E k \in D : Sorted(rows)[k] = rows[i]
      BY <1>7, <2>2
    <2>4. QED
      BY <1>6, <2>1, <2>2, <2>3
  <1>10. Sorted(rows) \in Seq(Range(rows)) /\ Len(Sorted(rows)) = n
    BY <1>1, <1>8
  <1>11. ASSUME NEW i \in 1..n, NEW j \in 1..n, i < j
         PROVE  ~Before(Sorted(rows)[j], Sorted(rows)[i])
    <2>1. /\ at[i] \in D /\ at[j] \in D
          /\ Sorted(rows)[i] = rows[at[i]] /\ Sorted(rows)[j] = rows[at[j]]
          /\ place[at[i]] = i - 1 /\ place[at[j]] = j - 1
      BY <1>1, <1>4, <1>5
    <2>2. at[j] \notin ahead[at[i]]
      <3>1. ~(place[at[j]] < place[at[i]])
        BY <1>11, <2>1
      <3>2. QED
        BY <1>3, <2>1, <3>1
    <2>3. QED
      BY <1>1, <2>1, <2>2
  <1>12. QED
    BY <1>1, <1>9, <1>10, <1>11, OwnElements DEF n

\* What is ranked are the best of the rows, as many as were asked for.
LEMMA RankedFacts ==
    ASSUME NEW rows, RowsStand(rows), NEW topn \in SUBSET Int, \A k \in topn : k >= 1
    PROVE  Best(Ranked(rows, topn), rows, topn)
  <1> DEFINE sorted == Sorted(rows)
             n      == Len(rows)
             m      == Min(topn \cup {n})
             best   == Ranked(rows, topn)
  <1>1. /\ sorted \in Seq(Range(rows)) /\ Len(sorted) = n /\ n \in Nat
        /\ Range(sorted) = Range(rows)
        /\ \A i, j \in 1..n : i < j => ~Before(sorted[j], sorted[i])
    BY SortedFacts DEF IsSeq
  <1> HIDE DEF sorted
  <1>2. m \in topn \cup {n} /\ m \leq n /\ m \in Nat
    <2>1. topn \cup {n} \in SUBSET Nat /\ topn \cup {n} # {}
      <3>1. \A k \in topn : k \in Nat
        OBVIOUS
      <3> HIDE DEF n
      <3>2. QED
        BY <1>1, <3>1
    <2> HIDE DEF n
    <2>2. m \in topn \cup {n} /\ \A k \in topn \cup {n} : m \leq k
      BY <2>1, MinIs
    <2>3. QED
      BY <2>1, <2>2
  <1>3. /\ Len(best) = m /\ DOMAIN best = 1..m
        /\ \A i \in 1..m : best[i] = sorted[i]
    <2>1. CASE topn = {}
      <3>1. m = n
        BY <1>2, <2>1
      <3>2. best = sorted
        BY <2>1 DEF Ranked, First, sorted
      <3>3. QED
        BY <1>1, <3>1, <3>2
    <2>2. CASE topn # {}
      <3>1. best = SubSeq(sorted, 1, m)
        BY <1>1, <2>2 DEF Ranked, First, sorted
      <3> HIDE DEF m, n, best
      <3>2. QED
        BY <1>1, <1>2, <3>1
    <2>3. QED
      BY <2>1, <2>2
  <1> HIDE DEF best, m, n
  <1>4. Range(best) = {sorted[i] : i \in 1..m} /\ Range(sorted) = {sorted[i] : i \in 1..n}
    BY <1>1, <1>3 DEF Range
  <1>5. 1..m \subseteq 1..n
    BY <1>1, <1>2
  <1>6. Range(best) \subseteq Range(rows)
    BY <1>1, <1>4, <1>5
  <1>7. \A i, j \in 1..m : i < j => ~Before(best[j], best[i])
    BY <1>1, <1>3, <1>5
  <1>8. ASSUME NEW row \in Range(rows) \ Range(best), NEW i \in 1..m
        PROVE  ~Before(row, best[i])
    <2>1. PICK k \in 1..n : row = sorted[k]
      BY <1>1, <1>4
    <2>2. k \notin 1..m
      BY <1>4, <1>8, <2>1
    <2>3. i \in 1..n /\ i < k
      BY <1>1, <1>2, <2>2
    <2>4. QED
      BY <1>1, <1>3, <2>1, <2>3
  <1>9. QED
    BY <1>3, <1>6, <1>7, <1>8 DEF Best, m, n, best

-----------------------------------------------------------------------------
\* The points of a candidate

\* The points of a sub-scorer
IsResult(r) == r.points \in 0..10

\* No sub-scorer of the bars gives more than ten points.
LEMMA TechnicalPoints ==
    ASSUME NEW context, NEW rating \in Nat \cup {Raised}
    PROVE  /\ Technical(context, rating) \in Seq(Range(Technical(context, rating)))
           /\ \A i \in DOMAIN Technical(context, rating) : IsResult(Technical(context, rating)[i])
  <1>1. /\ IsResult(Skipped) /\ IsResult(Failed)
        /\ \A n \in 0..10 : IsResult(Scored(n))
    BY DEF IsResult, Skipped, Failed, Scored
  <1>2. IsResult(RsPoints(rating))
    <2>1. rating = Raised \/ rating = 0 \/ rating \in 1..64 \/ rating \in 65..79
          \/ rating \in 80..89 \/ rating >= 90
      BY DEF Raised
    <2>2. RsPoints(rating) \in {Failed, Skipped, Scored(0), Scored(3), Scored(5), Scored(7)}
      BY <2>1 DEF RsPoints
    <2>3. QED
      BY <1>1, <2>2
  <1>3. IsResult(Stage2Confirmed(context.bars))
    <2>1. Stage2Confirmed(context.bars) \in {Skipped, Scored(5), Scored(0)}
      BY DEF Stage2Confirmed, AllOr
    <2>2. QED
      BY <1>1, <2>1
  <1>4. IsResult(TrendStructureMa(context.bars))
    <2>1. TrendStructureMa(context.bars) \in {Skipped, Scored(10), Scored(0)}
      BY DEF TrendStructureMa, AllOr
    <2>2. QED
      BY <1>1, <2>1
  <1>5. IsResult(TrendTemplate8(context.bars))
    <2>1. TrendTemplate8(context.bars) \in {Skipped, Scored(5), Scored(0)}
      BY DEF TrendTemplate8, AllOr
    <2>2. QED
      BY <1>1, <2>1
  <1>6. IsResult(VcpPivot(context.bars))
    <2>1. VcpOf(context.bars).quality \in {"", "breakout", "textbook", "forming", "none"}
      BY DEF VcpOf, NoVcp
    <2>2. VcpPivot(context.bars) \in {Skipped, Scored(8), Scored(6), Scored(3), Scored(0)}
      BY <2>1 DEF VcpPivot
    <2>3. QED
      BY <1>1, <2>2
  <1>7. IsResult(VolumeBreakoutObv(context.bars))
    <2>1. VolumeBreakoutObv(context.bars) \in {Skipped, Scored(5), Scored(0)}
      BY DEF VolumeBreakoutObv, AllOr
    <2>2. QED
      BY <1>1, <2>1
  <1> DEFINE a == RsPoints(rating)
             b == Stage2Confirmed(context.bars)
             c == TrendStructureMa(context.bars)
             d == TrendTemplate8(context.bars)
             e == VcpPivot(context.bars)
             f == VolumeBreakoutObv(context.bars)
             t == Technical(context, rating)
  <1>8. t = <<a, b, c, d, e, f>>
    BY DEF Technical
  <1>9. IsResult(a) /\ IsResult(b) /\ IsResult(c) /\ IsResult(d) /\ IsResult(e) /\ IsResult(f)
    BY <1>2, <1>3, <1>4, <1>5, <1>6, <1>7
  <1> HIDE DEF a, b, c, d, e, f, t
  <1>10. t \in Seq({a, b, c, d, e, f}) /\ DOMAIN t = 1..6
    BY <1>8
  <1>11. t[1] = a /\ t[2] = b /\ t[3] = c /\ t[4] = d /\ t[5] = e /\ t[6] = f
    BY <1>8
  <1>12. \A i \in DOMAIN t : IsResult(t[i])
    BY <1>9, <1>10, <1>11
  <1>13. t \in Seq(Range(t))
    BY <1>10, OwnElements DEF IsSeq
  <1>14. QED
    BY <1>12, <1>13 DEF t

\* The chip flows give nine points at most.
LEMMA ChipPoints ==
    ASSUME NEW context, context.flow \in Flows
    PROVE  /\ ForeignFlow(context.flow).points \in 0..5
           /\ TrustFlow(context.flow).points \in 0..4
  <1> DEFINE flow == context.flow
  <1>1. CASE flow = NoFlow
    BY <1>1 DEF ForeignFlow, TrustFlow, Skipped
  <1>2. CASE flow # NoFlow
    <2>1. flow.foreign \in Int /\ flow.trust \in Int
      BY <1>2 DEF Flows
    <2> HIDE DEF flow
    <2>2. \/ flow.foreign \leq 0 \/ flow.foreign \in 1..200 \/ flow.foreign \in 201..500
          \/ flow.foreign \in 501..1000 \/ flow.foreign > 1000
      BY <2>1
    <2>3. \/ flow.trust \leq 0 \/ flow.trust \in 1..100 \/ flow.trust \in 101..300 \/ flow.trust > 300
      BY <2>1
    <2>4. ForeignFlow(flow) \in {Scored(0), Scored(1), Scored(2), Scored(3), Scored(5)}
      BY <1>2, <2>2 DEF ForeignFlow
    <2>5. TrustFlow(flow) \in {Scored(0), Scored(1), Scored(2), Scored(4)}
      BY <1>2, <2>3 DEF TrustFlow
    <2>6. QED
      BY <2>4, <2>5 DEF Scored, flow
  <1>3. QED
    BY <1>1, <1>2

\* A subtotal is capped.
LEMMA SubtotalFacts ==
    ASSUME NEW results, results \in Seq(Range(results)), \A i \in DOMAIN results : IsResult(results[i]),
           NEW cap \in Nat
    PROVE  Subtotal(results, cap) \in 0..cap
  <1> DEFINE points == [i \in DOMAIN results |->
                          IF results[i].status = "scored" THEN results[i].points ELSE 0]
  <1>1. Len(results) \in Nat /\ DOMAIN results = 1..Len(results)
    OBVIOUS
  <1>2. \A i \in DOMAIN results : points[i] \in Int
    BY DEF IsResult
  <1>3. points \in Seq(Int)
    BY <1>1, <1>2
  <1> HIDE DEF points
  <1>4. Sum(points) \in Int
    BY <1>3, SumIn
  <1> DEFINE least == Min({cap, Sum(points)})
  <1>5. least \in Int /\ least \leq cap
    BY <1>4, TwoNumbers
  <1>6. Max({0, least}) \in 0..cap
    <2> DEFINE zero == 0
    <2>1. zero \in Int /\ zero = 0
      OBVIOUS
    <2> HIDE DEF least, zero
    <2>2. Max({zero, least}) = IF zero \leq least THEN least ELSE zero
      BY <1>5, <2>1, TwoNumbers
    <2>3. Max({zero, least}) \in 0..cap
      BY <1>5, <2>1, <2>2
    <2>4. QED
      BY <2>3 DEF zero
  <1>7. Subtotal(results, cap) = Max({0, least})
    BY DEF Subtotal, points
  <1>8. QED
    BY <1>6, <1>7

\* The chip flows count for nine points at most.
LEMMA ChipSubtotal ==
    ASSUME NEW context, context.flow \in Flows
    PROVE  Subtotal(Chip(context), 25) \in 0..9
  <1> DEFINE a       == ForeignFlow(context.flow)
             b       == TrustFlow(context.flow)
             results == Chip(context)
             points  == [i \in DOMAIN results |->
                           IF results[i].status = "scored" THEN results[i].points ELSE 0]
  <1>1. results = <<a, b>> /\ a.points \in 0..5 /\ b.points \in 0..4
    BY ChipPoints DEF Chip
  <1> HIDE DEF a, b, results
  <1>2. /\ DOMAIN results = 1..2 /\ Len(results) = 2 /\ results \in Seq({a, b})
        /\ results[1] = a /\ results[2] = b
    BY <1>1
  <1>3. points[1] \in 0..5 /\ points[2] \in 0..4
    BY <1>1, <1>2
  <1>4. points \in Seq(Int) /\ Len(points) = 2
    <2>1. DOMAIN points = 1..2 /\ points = [i \in 1..2 |-> points[i]]
      BY <1>2
    <2>2. \A i \in 1..2 : points[i] \in Int
      BY <1>3
    <2> HIDE DEF points
    <2>3. QED
      BY <2>1, <2>2
  <1>5. Subtotal(results, 25) \in 0..25
    <2>1. results \in Seq(Range(results))
      BY <1>2, OwnElements DEF IsSeq
    <2>2. \A i \in DOMAIN results : IsResult(results[i])
      BY <1>1, <1>2 DEF IsResult
    <2>3. QED
      BY <2>1, <2>2, SubtotalFacts
  <1>6. Subtotal(results, 25) = Max({0, Min({25, Sum(points)})})
    BY DEF Subtotal
  <1> HIDE DEF points
  <1>7. Sum(points) \in 0..9
    BY <1>3, <1>4, SumOfTwo
  <1> DEFINE sum  == Sum(points)
             cap  == 25
             zero == 0
  <1>8. sum \in 0..9 /\ cap \in Int /\ zero \in Int /\ cap = 25 /\ zero = 0
    BY <1>7
  <1>9. Subtotal(results, cap) = Max({zero, Min({cap, sum})})
    BY <1>6
  <1> HIDE DEF sum, cap, zero
  <1>10. Min({cap, sum}) = sum
    BY <1>8, TwoNumbers
  <1>11. Max({zero, sum}) = sum
    <2>1. zero \in Int /\ sum \in Int /\ zero \leq sum
      BY <1>8
    <2>2. QED
      BY <2>1, TwoNumbers
  <1>12. QED
    BY <1>8, <1>9, <1>10, <1>11 DEF cap, results

\* Nobody gets to fifty points, and the candidate bears the symbol.
LEMMA CandidateFacts ==
    ASSUME NEW symbol, NEW context, context.flow \in Flows, NEW rating \in Nat \cup {Raised},
           NEW riskOff \in BOOLEAN
    PROVE  LET row == Candidate(symbol, context, rating, riskOff)
           IN  row.symbol = symbol /\ row.final \in Int /\ row.class = "red"
  <1> DEFINE technical == Technical(context, rating)
             a         == Subtotal(technical, 40)
             b         == Subtotal(Chip(context), 25)
             total     == Min({100, a + b})
             final     == IF riskOff THEN Min({total, 50}) ELSE total
             row       == Candidate(symbol, context, rating, riskOff)
  <1>1. a \in 0..40
    <2> HIDE DEF technical
    <2>1. technical \in Seq(Range(technical)) /\ \A i \in DOMAIN technical : IsResult(technical[i])
      BY TechnicalPoints DEF technical
    <2>2. QED
      BY <2>1, SubtotalFacts
  <1>2. b \in 0..9
    BY ChipSubtotal
  <1>3. row.symbol = symbol /\ row.final = final /\ row.class = Classification(final)
    BY DEF Candidate
  <1> HIDE DEF row, a, b
  <1>4. a + b \in 0..49
    BY <1>1, <1>2
  <1>5. total = a + b
    <2> DEFINE sum == a + b
               cap == 100
    <2>1. sum \in Int /\ cap \in Int /\ sum \leq cap /\ (cap \leq sum => cap = sum)
      BY <1>4
    <2>2. total = Min({cap, sum})
      OBVIOUS
    <2> HIDE DEF sum, cap, total
    <2>3. total = sum
      BY <2>1, <2>2, TwoNumbers
    <2>4. QED
      BY <2>3 DEF sum
  <1> HIDE DEF total
  <1>6. final = a + b
    <2>1. Min({total, 50}) = total
      <3> DEFINE cap == 50
      <3>1. total \in Int /\ cap \in Int /\ total \leq cap
        BY <1>4, <1>5
      <3> HIDE DEF cap
      <3>2. Min({total, cap}) = total
        BY <3>1, TwoNumbers
      <3>3. QED
        BY <3>2 DEF cap
    <2>2. QED
      BY <1>5, <2>1
  <1> HIDE DEF final
  <1>7. Classification(final) = "red"
    BY <1>4, <1>6 DEF Classification
  <1>8. QED
    BY <1>3, <1>4, <1>6, <1>7 DEF row

-----------------------------------------------------------------------------
\* The steps of the calls

\* A row without a pivot needs no announcement.
LEMMA QuietRow ==
    ASSUME NEW rows, IsSeq(rows), NEW told, Announced(rows, told), NEW row, row.vcp.pivot = 0
    PROVE  Announced(Append(rows, row), told)
  <1> DEFINE n    == Len(rows)
             more == Append(rows, row)
  <1>1. /\ n \in Nat /\ DOMAIN rows = 1..n
        /\ DOMAIN more = 1..(n + 1) /\ more[n + 1] = row
        /\ \A i \in 1..n : more[i] = rows[i]
    BY OwnElements, OneMoreOf DEF IsSeq
  <1> HIDE DEF n, more
  <1>2. ASSUME NEW k \in DOMAIN more, more[k].vcp.pivot # 0
        PROVE  k \in DOMAIN rows /\ rows[k] = more[k] /\ AnnouncedFrom(more, k) = AnnouncedFrom(rows, k)
    <2>1. k # n + 1
      BY <1>1, <1>2
    <2>2. k \in 1..n
      BY <1>1, <1>2, <2>1
    <2>3. AnnouncedFrom(more, k) = AnnouncedFrom(rows, k)
      BY <1>1 DEF AnnouncedFrom
    <2>4. QED
      BY <1>1, <2>2, <2>3
  <1>3. QED
    BY <1>2 DEF Announced, more

\* The last row with a pivot is announced by the last event, and so the others stay
\* as far from the end as there are announced rows after them.
LEMMA ToldRow ==
    ASSUME NEW rows, IsSeq(rows), NEW told, IsSeq(told), Announced(rows, told),
           NEW row, NEW entry, entry.event.type = "pattern_detected",
           entry.event.payload.symbol = row.symbol, row.vcp.pivot # 0
    PROVE  Announced(Append(rows, row), Append(told, entry))
  <1> DEFINE n     == Len(rows)
             t     == Len(told)
             more  == Append(rows, row)
             tells == Append(told, entry)
  <1>1. /\ n \in Nat /\ DOMAIN rows = 1..n
        /\ DOMAIN more = 1..(n + 1) /\ more[n + 1] = row
        /\ \A i \in 1..n : more[i] = rows[i]
    BY OwnElements, OneMoreOf DEF IsSeq
  <1>2. /\ t \in Nat /\ Len(tells) = t + 1 /\ tells[t + 1] = entry
        /\ \A i \in 1..t : tells[i] = told[i]
    BY OwnElements, OneMoreOf DEF IsSeq
  <1> HIDE DEF n, t, more, tells
  <1>3. \A k : AnnouncedFrom(rows, k) \in SUBSET (1..n) /\ IsFiniteSet(1..n)
    BY <1>1, FirstNumbers DEF AnnouncedFrom
  <1>4. \A k : IsFiniteSet(AnnouncedFrom(rows, k)) /\ Cardinality(AnnouncedFrom(rows, k)) \in Nat
    BY <1>3, FS_Subset, FS_CardinalityType
  <1>5. ASSUME NEW k \in DOMAIN more
        PROVE  Cardinality(AnnouncedFrom(more, k)) = Cardinality(AnnouncedFrom(rows, k)) + 1
    <2>1. AnnouncedFrom(more, k) = AnnouncedFrom(rows, k) \cup {n + 1}
      BY <1>1, <1>5 DEF AnnouncedFrom
    <2>2. n + 1 \notin AnnouncedFrom(rows, k)
      BY <1>1 DEF AnnouncedFrom
    <2>3. QED
      BY <1>4, <2>1, <2>2, FS_AddElement
  <1>6. ASSUME NEW k \in DOMAIN more, more[k].vcp.pivot # 0
        PROVE  LET place == t + 1 + 1 - Cardinality(AnnouncedFrom(more, k))
               IN  /\ place \in 1..(t + 1)
                   /\ tells[place].event.type = "pattern_detected"
                   /\ tells[place].event.payload.symbol = more[k].symbol
    <2> DEFINE place == t + 1 + 1 - Cardinality(AnnouncedFrom(more, k))
               left  == Cardinality(AnnouncedFrom(rows, k))
    <2>1. place = t + 1 - left /\ left \in Nat
      BY <1>2, <1>4, <1>5
    <2>2. ASSUME k = n + 1
          PROVE  /\ place \in 1..(t + 1)
                 /\ tells[place].event.type = "pattern_detected"
                 /\ tells[place].event.payload.symbol = more[k].symbol
      <3>1. AnnouncedFrom(rows, k) = {}
        BY <1>1, <2>2 DEF AnnouncedFrom
      <3>2. left = 0
        BY <3>1, FS_EmptySet
      <3>3. place = t + 1
        BY <1>2, <2>1, <3>2
      <3> HIDE DEF place, left
      <3>4. QED
        BY <1>1, <1>2, <2>2, <3>3
    <2>3. ASSUME k # n + 1
          PROVE  /\ place \in 1..(t + 1)
                 /\ tells[place].event.type = "pattern_detected"
                 /\ tells[place].event.payload.symbol = more[k].symbol
      <3>1. k \in 1..n /\ rows[k] = more[k]
        BY <1>1, <2>3
      <3>2. /\ t + 1 - left \in 1..t
            /\ told[t + 1 - left].event.type = "pattern_detected"
            /\ told[t + 1 - left].event.payload.symbol = rows[k].symbol
        BY <1>1, <1>6, <3>1 DEF Announced, t
      <3> HIDE DEF place, left
      <3>3. QED
        BY <1>2, <2>1, <3>1, <3>2
    <2>4. QED
      BY <2>2, <2>3
  <1>7. QED
    BY <1>2, <1>6 DEF Announced, more, tells

\* What is kept and not touched stays what it was.
LEMMA WorldStays ==
    ASSUME World, UNCHANGED <<roster, bars, ratings>>
    PROVE  World'
  BY DEF World, BarsThere, RosterThere, RatingsThere

\* One call becomes another that stands, and nothing is told.
LEMMA StandsQuietly ==
    ASSUME Calls, Standing, NEW c \in Callers, NEW call, BecomesOf(c, call),
           emitted' = emitted, CallStands(call, emitted[c]), World'
    PROVE  Standing'
  <1>1. op'[c] = call /\ \A e \in Callers \ {c} : op'[e] = op[e]
    BY DEF Calls, BecomesOf
  <1>2. \A e \in Callers : CallStands(op'[e], emitted'[e]) /\ Pairs(emitted'[e])
    BY <1>1 DEF Standing
  <1>3. QED
    BY <1>2 DEF Standing

\* What a caller has told after an event
ToldOf(c, type, payload) ==
    Append(emitted[c], [event |-> [by |-> c, n |-> Len(emitted[c]) + 1, type |-> type, payload |-> payload],
                        for   |-> Range(subscribers)])

\* One call becomes another that stands on what it has told.
LEMMA StandsTelling ==
    ASSUME Calls, Standing, BusShape, NEW c \in Callers, NEW call, BecomesOf(c, call),
           NEW type, NEW payload, Emit(c, type, payload),
           CallStands(call, ToldOf(c, type, payload)), Pairs(ToldOf(c, type, payload)), World'
    PROVE  Standing'
  <1>1. op'[c] = call /\ \A e \in Callers \ {c} : op'[e] = op[e]
    BY DEF Calls, BecomesOf
  <1>2. emitted'[c] = ToldOf(c, type, payload) /\ \A e \in Callers \ {c} : emitted'[e] = emitted[e]
    BY DEF Emit, ToldOf, BusShape, BusTypes
  <1>3. \A e \in Callers : CallStands(op'[e], emitted'[e]) /\ Pairs(emitted'[e])
    BY <1>1, <1>2 DEF Standing
  <1>4. QED
    BY <1>3 DEF Standing

\* The locals of a call
LEMMA Locals ==
    ASSUME NEW call, IsCall(call)
    PROVE  DOMAIN call = {"pc", "kind", "asof", "request", "filters", "rows", "left", "size",
                          "symbol", "context", "closes", "answer"}
  BY DEF IsCall, Idle

\* Nothing has been rated of nobody.
LEMMA NoCloses == IsFiniteSet(DOMAIN <<>>)
  <1>1. DOMAIN <<>> = {}
    OBVIOUS
  <1>2. QED
    BY <1>1, FS_EmptySet

\* A call that is not in a place of its kind any more, whatever its answer.
LEMMA AnsweredStands ==
    ASSUME NEW call, NEW told, call.pc = "answered", DOMAIN call.closes = {},
           call.kind = "page" => call.symbol \in Symbols /\ call.asof \in Days,
           call.kind = "screen" /\ call.answer.ok =>
               Finished(told, call.answer.size, Cardinality(call.answer.candidates)),
           call.kind = "scan" /\ call.answer.ok =>
               /\ RowsStand(call.answer.scored) /\ Announced(call.answer.scored, told)
               /\ Best(call.answer.candidates, call.answer.scored, call.answer.topn)
    PROVE  CallStands(call, told)
  <1>1. KindStands(call)
    BY DEF KindStands, ScreenPlaces, RatePlaces
  <1>2. RateStands(call)
    BY FS_EmptySet DEF RateStands
  <1>3. ScreenStands(call, told)
    BY DEF ScreenStands
  <1>4. ScanStands(call, told)
    BY DEF ScanStands, RatePlaces
  <1>5. QED
    BY <1>1, <1>2, <1>3, <1>4 DEF CallStands

\* A call that is answered stands, if the answer does.
LEMMA AnswerStands ==
    ASSUME Calls, Standing, NEW c \in Callers, NEW answer, AnswerWith(c, answer),
           emitted' = emitted, World', op[c].kind # "page",
           op[c].kind = "screen" /\ answer.ok =>
               Finished(emitted[c], answer.size, Cardinality(answer.candidates)),
           op[c].kind = "scan" /\ answer.ok =>
               /\ RowsStand(answer.scored) /\ Announced(answer.scored, emitted[c])
               /\ Best(answer.candidates, answer.scored, answer.topn)
    PROVE  Standing'
  <1> DEFINE call == [Idle EXCEPT !.pc = "answered", !.kind = op[c].kind,
                                  !.asof = op[c].asof, !.answer = answer]
  <1>1. BecomesOf(c, call)
    BY DEF AnswerWith, BecomesOf
  <1>2. /\ call.pc = "answered" /\ call.kind = op[c].kind /\ call.answer = answer
        /\ call.closes = <<>>
    BY DEF Idle
  <1> HIDE DEF call
  <1>3. CallStands(call, emitted[c])
    BY <1>2, AnsweredStands
  <1>4. QED
    BY <1>1, <1>3, StandsQuietly

\* What a call stands on
LEMMA StandsOn ==
    ASSUME Calls, Standing, NEW c \in Callers
    PROVE  /\ KindStands(op[c]) /\ RateStands(op[c])
           /\ ScreenStands(op[c], emitted[c]) /\ ScanStands(op[c], emitted[c])
           /\ Pairs(emitted[c])
           /\ DOMAIN op[c] = {"pc", "kind", "asof", "request", "filters", "rows", "left", "size",
                              "symbol", "context", "closes", "answer"}
           /\ op[c].pc \notin {"idle", "answered"} => op[c].kind # "page"
  <1>1. CallStands(op[c], emitted[c]) /\ Pairs(emitted[c])
    BY DEF Standing
  <1>2. IsCall(op[c])
    BY DEF Calls
  <1>3. KindStands(op[c])
    BY <1>1 DEF CallStands
  <1>4. op[c].pc \notin {"idle", "answered"} => op[c].kind # "page"
    BY <1>3 DEF KindStands
  <1>5. QED
    BY <1>1, <1>2, <1>4, Locals DEF CallStands

\* A refusal stands.
LEMMA RefusalStands ==
    ASSUME Calls, Standing, NEW c \in Callers, NEW code, AnswerWith(c, Refused(code)),
           emitted' = emitted, World', op[c].pc \notin {"idle", "answered"}
    PROVE  Standing'
  <1>1. Refused(code).ok = FALSE
    BY DEF Refused
  <1>2. QED
    BY <1>1, AnswerStands, StandsOn

-----------------------------------------------------------------------------
\* The steps of a screen

\* A screen begins with its day, or is refused.
LEMMA ScreenStandsOn ==
    ASSUME Calls, Standing, NEW c \in Callers, NEW request \in Requests, Screen(c, request), World'
    PROVE  Standing'
  <1> DEFINE begun   == [Idle EXCEPT !.pc = "resolving", !.kind = "screen", !.asof = request.asof,
                                     !.request = request, !.filters = request.filters]
             refused == [Idle EXCEPT !.pc = "answered", !.kind = "screen",
                                     !.answer = Refused("INVALID_INPUT")]
             call    == IF Valid(request) THEN begun ELSE refused
  <1>1. BecomesOf(c, call) /\ emitted' = emitted
    BY DEF Screen, BecomesOf, busVars
  <1>2. /\ begun.pc = "resolving" /\ begun.kind = "screen" /\ begun.asof = request.asof
        /\ begun.closes = <<>> /\ begun.left = {}
    BY DEF Idle
  <1>3. /\ refused.pc = "answered" /\ refused.kind = "screen" /\ refused.answer.ok = FALSE
        /\ refused.closes = <<>>
    BY DEF Idle, Refused
  <1>4. request.asof \in Days
    BY ScreenerAssumption
  <1> HIDE DEF begun, refused
  <1>5. CallStands(begun, emitted[c])
    <2>1. KindStands(begun)
      BY <1>2, <1>4 DEF KindStands, ScreenPlaces, RatePlaces
    <2>2. RateStands(begun)
      BY <1>2, NoCloses DEF RateStands
    <2>3. ScreenStands(begun, emitted[c]) /\ ScanStands(begun, emitted[c])
      BY <1>2 DEF ScreenStands, ScanStands
    <2>4. QED
      BY <2>1, <2>2, <2>3 DEF CallStands
  <1>6. CallStands(refused, emitted[c])
    BY <1>3, AnsweredStands
  <1>7. CallStands(call, emitted[c])
    BY <1>5, <1>6
  <1> HIDE DEF call
  <1>8. QED
    BY <1>1, <1>7, StandsQuietly

\* A call in a place of a screen stands on its day and on what it has told.
LEMMA InAScreen ==
    ASSUME NEW call, NEW told, call.pc \in ScreenPlaces, call.kind = "screen", call.asof \in Days,
           IsFiniteSet(DOMAIN call.closes), ScreenStands(call, told)
    PROVE  CallStands(call, told)
  <1>1. KindStands(call)
    BY DEF KindStands, ScreenPlaces, RatePlaces
  <1>2. RateStands(call)
    BY DEF RateStands, ScreenPlaces
  <1>3. ScanStands(call, told)
    BY DEF ScanStands
  <1>4. QED
    BY <1>1, <1>2, <1>3 DEF CallStands

\* What a screen in a place stands on
LEMMA OnAScreen ==
    ASSUME Calls, Standing, NEW c \in Callers, op[c].pc \in ScreenPlaces
    PROVE  /\ op[c].kind = "screen" /\ op[c].asof \in Days /\ IsFiniteSet(DOMAIN op[c].closes)
           /\ ScreenStands(op[c], emitted[c]) /\ Pairs(emitted[c])
           /\ op[c].pc \notin {"idle", "answered"}
           /\ DOMAIN op[c] = {"pc", "kind", "asof", "request", "filters", "rows", "left", "size",
                              "symbol", "context", "closes", "answer"}
  BY StandsOn DEF KindStands, RateStands, ScreenPlaces

\* The day within reach is a day.
LEMMA ResolveStands ==
    ASSUME Calls, Standing, NEW c \in Callers, Resolve(c), World'
    PROVE  Standing'
  <1> DEFINE reach == InReach(op[c].asof)
             call  == [op[c] EXCEPT
                         !.pc = IF InReach(op[c].asof) = {} THEN "fetching" ELSE "selecting",
                         !.asof = IF InReach(@) = {} THEN @ ELSE Max(InReach(@))]
  <1>1. op[c].pc = "resolving" /\ BecomesOf(c, call) /\ emitted' = emitted
    BY DEF Resolve, BecomesOf, busVars
  <1>2. op[c].pc \in ScreenPlaces
    BY <1>1 DEF ScreenPlaces
  <1>3. reach # {} => Max(reach) \in Days
    <2>1. reach \in SUBSET (0..MaxDay) /\ reach \in SUBSET Days /\ MaxDay \in Nat
      BY ScreenerAssumption DEF InReach, Days
    <2> HIDE DEF reach
    <2>2. QED
      BY <2>1, MaxIs
  <1>4. /\ call.pc \in {"fetching", "selecting"} /\ call.kind = op[c].kind /\ call.closes = op[c].closes
        /\ call.asof = IF reach = {} THEN op[c].asof ELSE Max(reach)
        /\ call.left = op[c].left
    BY <1>2, OnAScreen
  <1> HIDE DEF call, reach
  <1>5. call.pc \in ScreenPlaces /\ call.asof \in Days /\ ScreenStands(call, emitted[c])
    BY <1>1, <1>2, <1>3, <1>4, OnAScreen DEF ScreenPlaces, ScreenStands
  <1>6. CallStands(call, emitted[c])
    BY <1>2, <1>4, <1>5, OnAScreen, InAScreen
  <1>7. QED
    BY <1>1, <1>6, StandsQuietly

\* A roster that was fetched is selected from next.
LEMMA FetchStands ==
    ASSUME Calls, Standing, NEW c \in Callers, NEW raw \in Listings, Fetch(c, raw), World'
    PROVE  Standing'
  <1> DEFINE call == [op[c] EXCEPT !.pc = "selecting"]
  <1>1. op[c].pc = "fetching" /\ emitted' = emitted
    BY DEF Fetch, busVars
  <1>2. op[c].pc \in ScreenPlaces
    BY <1>1 DEF ScreenPlaces
  <1>3. CASE Aggregated(raw) = {}
    <2>1. AnswerWith(c, Refused("DATA_UNAVAILABLE"))
      BY <1>3 DEF Fetch
    <2>2. QED
      BY <1>1, <2>1, RefusalStands
  <1>4. CASE Aggregated(raw) # {}
    <2>1. BecomesOf(c, call)
      BY <1>4 DEF Fetch, BecomesOf
    <2>2. /\ call.pc = "selecting" /\ call.kind = op[c].kind /\ call.closes = op[c].closes
          /\ call.asof = op[c].asof /\ call.left = op[c].left
      BY <1>2, OnAScreen
    <2> HIDE DEF call
    <2>3. call.pc \in ScreenPlaces /\ ScreenStands(call, emitted[c])
      BY <1>1, <1>2, <2>2, OnAScreen DEF ScreenPlaces, ScreenStands
    <2>4. CallStands(call, emitted[c])
      BY <1>2, <2>2, <2>3, OnAScreen, InAScreen
    <2>5. QED
      BY <1>1, <2>1, <2>4, StandsQuietly
  <1>5. QED
    BY <1>3, <1>4

\* The last of what is told after an event, and that what was told before is as it was
LEMMA ToldFacts ==
    ASSUME BusShape, NEW c \in Callers, NEW type, NEW payload
    PROVE  LET told == ToldOf(c, type, payload)
               n    == Len(emitted[c])
           IN  /\ IsSeq(emitted[c]) /\ n \in Nat /\ Len(told) = n + 1
               /\ told[n + 1].event.type = type /\ told[n + 1].event.payload = payload
               /\ \A i \in 1..n : told[i] = emitted[c][i]
  <1> DEFINE entry == [event |-> [by |-> c, n |-> Len(emitted[c]) + 1, type |-> type,
                                  payload |-> payload],
                       for   |-> Range(subscribers)]
  <1>1. IsSeq(emitted[c])
    BY DEF BusShape, BusTypes
  <1>2. ToldOf(c, type, payload) = Append(emitted[c], entry)
    BY DEF ToldOf
  <1>3. entry.event.type = type /\ entry.event.payload = payload
    OBVIOUS
  <1> HIDE DEF entry
  <1>4. QED
    BY <1>1, <1>2, <1>3, OneMoreOf

\* One more event keeps the pairs, if it completes one or is no completion.
LEMMA MorePairs ==
    ASSUME NEW told, NEW more, Pairs(told), Len(told) \in Nat, Len(more) = Len(told) + 1,
           \A i \in 1..Len(told) : more[i] = told[i],
           LET last  == more[Len(told) + 1].event
               first == more[Len(told)].event
           IN  /\ last.type = "screener_started" => "universe_size" \in DOMAIN last.payload
               /\ last.type = "screener_completed" =>
                    /\ Len(told) > 0 /\ first.type = "screener_started"
                    /\ "candidate_count" \in DOMAIN last.payload
                    /\ last.payload.candidate_count \leq first.payload.universe_size
    PROVE  Pairs(more)
  <1> DEFINE n == Len(told)
  <1>1. ASSUME NEW k \in 1..(n + 1)
        PROVE  LET last  == more[k].event
                   first == more[k-1].event
               IN  /\ last.type = "screener_started" => "universe_size" \in DOMAIN last.payload
                   /\ last.type = "screener_completed" =>
                        /\ k > 1 /\ first.type = "screener_started"
                        /\ "candidate_count" \in DOMAIN last.payload
                        /\ last.payload.candidate_count \leq first.payload.universe_size
    <2>1. CASE k = n + 1
      <3>1. k - 1 = n /\ (n > 0 => k > 1)
        BY <2>1
      <3>2. QED
        BY <2>1, <3>1
    <2>2. CASE k # n + 1
      <3>1. k \in 1..n /\ more[k] = told[k] /\ (k > 1 => more[k-1] = told[k-1])
        BY <2>2
      <3>2. QED
        BY <3>1 DEF Pairs
    <2>3. QED
      BY <2>1, <2>2
  <1>2. QED
    BY <1>1 DEF Pairs

\* The universe is announced with its size.
LEMMA SelectStands ==
    ASSUME Calls, Standing, BusShape, NEW c \in Callers, Select(c), World'
    PROVE  Standing'
  <1> DEFINE rows    == Selected(op[c].request, op[c].asof)
             payload == [universe_size |-> Cardinality(rows)]
             told    == ToldOf(c, "screener_started", payload)
             call    == [op[c] EXCEPT !.pc = "filtering", !.rows = rows, !.size = Cardinality(rows)]
             n       == Len(emitted[c])
  <1>1. op[c].pc = "selecting" /\ BecomesOf(c, call) /\ Emit(c, "screener_started", payload)
    BY DEF Select, BecomesOf
  <1>2. op[c].pc \in ScreenPlaces
    BY <1>1 DEF ScreenPlaces
  <1>3. rows \subseteq Symbols /\ Cardinality(rows) \in Nat
    <2>1. rows \in SUBSET Symbols /\ IsFiniteSet(Symbols)
      BY <1>2, OnAScreen, ScreenerAssumption DEF Selected, Standing, World, RosterThere
    <2> HIDE DEF rows
    <2>2. QED
      BY <2>1, FS_Subset, FS_CardinalityType
  <1>4. /\ call.pc = "filtering" /\ call.kind = op[c].kind /\ call.asof = op[c].asof
        /\ call.closes = op[c].closes /\ call.left = op[c].left /\ call.rows = rows
        /\ call.size = Cardinality(rows)
    BY <1>2, OnAScreen
  <1>5. /\ n \in Nat /\ Len(told) = n + 1
        /\ told[n + 1].event.type = "screener_started" /\ told[n + 1].event.payload = payload
        /\ \A i \in 1..n : told[i] = emitted[c][i]
    BY ToldFacts
  <1>6. DOMAIN payload = {"universe_size"} /\ payload.universe_size = Cardinality(rows)
    OBVIOUS
  <1> HIDE DEF call, rows, payload, told, n
  <1>7. Started(told, call.size)
    BY <1>3, <1>4, <1>5, <1>6 DEF Started
  <1>8. Fits(call)
    <2>1. call.left = {}
      BY <1>1, <1>2, <1>4, OnAScreen DEF ScreenStands
    <2>2. call.rows \cup call.left = rows
      BY <1>4, <2>1
    <2>3. QED
      BY <1>3, <1>4, <2>2 DEF Fits
  <1>9. ScreenStands(call, told) /\ call.pc \in ScreenPlaces
    BY <1>4, <1>7, <1>8 DEF ScreenStands, ScreenPlaces
  <1>10. CallStands(call, told)
    BY <1>2, <1>4, <1>9, OnAScreen, InAScreen
  <1>11. Pairs(told)
    <2>1. Pairs(emitted[c])
      BY <1>2, OnAScreen
    <2>2. "universe_size" \in DOMAIN payload
      BY <1>6
    <2>3. QED
      BY <1>5, <2>1, <2>2, MorePairs DEF n
  <1>12. QED
    BY <1>1, <1>10, <1>11, StandsTelling DEF told

\* Where less is left, what is left still fits.
LEMMA FitsLess ==
    ASSUME NEW call, Fits(call), call.size \in Nat, NEW less, less.size = call.size,
           less.rows \cup less.left \subseteq call.rows \cup call.left
    PROVE  Fits(less)
  <1> DEFINE all  == call.rows \cup call.left
             some == less.rows \cup less.left
  <1>1. all \subseteq Symbols /\ Cardinality(all) \leq call.size /\ some \subseteq all
    BY DEF Fits
  <1>2. Fits(less) <=> some \subseteq Symbols /\ Cardinality(some) \leq call.size
    BY DEF Fits
  <1> HIDE DEF all, some
  <1>3. /\ some \subseteq Symbols /\ Cardinality(some) \leq Cardinality(all)
        /\ Cardinality(some) \in Nat /\ Cardinality(all) \in Nat
    <2>1. IsFiniteSet(all) /\ IsFiniteSet(some)
      BY <1>1, FS_Subset, ScreenerAssumption
    <2>2. QED
      BY <1>1, <2>1, FS_Subset, FS_CardinalityType
  <1>4. QED
    BY <1>1, <1>2, <1>3

\* A screen goes on with its filters while what is left fits its universe.
LEMMA FiltersOn ==
    ASSUME Calls, Standing, NEW c \in Callers, op[c].pc \in {"filtering", "averaging"},
           NEW call, BecomesOf(c, call), emitted' = emitted, World',
           call.pc \in {"filtering", "averaging"}, call.kind = op[c].kind, call.asof = op[c].asof,
           call.closes = op[c].closes, call.size = op[c].size,
           call.rows \cup call.left \subseteq op[c].rows \cup op[c].left
    PROVE  Standing'
  <1>1. op[c].pc \in ScreenPlaces
    BY DEF ScreenPlaces
  <1>2. Fits(op[c]) /\ Started(emitted[c], op[c].size)
    BY <1>1, OnAScreen DEF ScreenStands
  <1>3. op[c].size \in Nat
    BY <1>2 DEF Started
  <1>4. Fits(call)
    BY <1>2, <1>3, FitsLess
  <1>5. call.pc \in ScreenPlaces /\ ScreenStands(call, emitted[c])
    BY <1>2, <1>4 DEF ScreenStands, ScreenPlaces
  <1>6. CallStands(call, emitted[c])
    BY <1>1, <1>5, OnAScreen, InAScreen
  <1>7. QED
    BY <1>6, StandsQuietly

\* A filter leaves some of the rows, or has them averaged.
LEMMA FilterStands ==
    ASSUME Calls, Standing, NEW c \in Callers, Filter(c), World'
    PROVE  Standing'
  <1> DEFINE f        == Head(op[c].filters)
             filtered == [op[c] EXCEPT !.rows = NegativeFilter(@, f.exclude), !.filters = Tail(@)]
             begun    == [op[c] EXCEPT !.pc = "averaging", !.left = op[c].rows, !.rows = {}]
  <1>1. op[c].pc = "filtering" /\ emitted' = emitted
    BY DEF Filter, busVars
  <1>2. op[c].pc \in ScreenPlaces
    BY <1>1 DEF ScreenPlaces
  <1>3. CASE BecomesOf(c, filtered)
    <2>1. /\ filtered.pc = op[c].pc /\ filtered.kind = op[c].kind /\ filtered.asof = op[c].asof
          /\ filtered.closes = op[c].closes /\ filtered.size = op[c].size
          /\ filtered.left = op[c].left /\ filtered.rows = NegativeFilter(op[c].rows, f.exclude)
      BY <1>2, OnAScreen
    <2> HIDE DEF filtered
    <2>2. filtered.rows \subseteq op[c].rows
      BY <2>1 DEF NegativeFilter
    <2>3. filtered.rows \cup filtered.left \subseteq op[c].rows \cup op[c].left
      BY <2>1, <2>2
    <2>4. QED
      BY <1>1, <1>3, <2>1, <2>3, FiltersOn
  <1>4. CASE BecomesOf(c, begun)
    <2>1. /\ begun.pc = "averaging" /\ begun.kind = op[c].kind /\ begun.asof = op[c].asof
          /\ begun.closes = op[c].closes /\ begun.size = op[c].size
          /\ begun.left = op[c].rows /\ begun.rows = {}
      BY <1>2, OnAScreen
    <2> HIDE DEF begun
    <2>2. begun.rows \cup begun.left \subseteq op[c].rows \cup op[c].left
      BY <2>1
    <2>3. QED
      BY <1>1, <1>4, <2>1, <2>2, FiltersOn
  <1>5. BecomesOf(c, filtered) \/ BecomesOf(c, begun)
    BY DEF Filter, BecomesOf
  <1>6. QED
    BY <1>3, <1>4, <1>5

\* A row that was averaged moves from what is left to the rows, or is gone.
LEMMA AverageStands ==
    ASSUME Calls, Standing, NEW c \in Callers, Average(c), World'
    PROVE  Standing'
  <1> DEFINE f      == Head(op[c].filters)
             s      == Min(op[c].left)
             days   == LastBars(s, op[c].asof)
             amount == FoldSet(LAMBDA d, sum : sum + BarOf[bars[s][d]].amount, 0, days)
             keeps  == Cardinality(days) = AvgDays /\ amount >= f.min * AvgDays
             call   == [op[c] EXCEPT !.left = @ \ {s}, !.rows = IF keeps THEN @ \cup {s} ELSE @]
             refuse == Cardinality(days) < AvgDays /\ f.policy = "fail_fast"
  <1>1. op[c].pc = "averaging" /\ op[c].left # {} /\ emitted' = emitted
    BY DEF Average, busVars
  <1>2. op[c].pc \in ScreenPlaces
    BY <1>1 DEF ScreenPlaces
  <1>3. IF refuse THEN AnswerWith(c, Refused("DATA_UNAVAILABLE")) ELSE BecomesOf(c, call)
    BY DEF Average, BecomesOf
  <1>4. s \in op[c].left
    <2>1. op[c].left \in SUBSET Nat
      BY <1>1, <1>2, OnAScreen, ScreenerAssumption DEF ScreenStands, Fits
    <2>2. QED
      BY <1>1, <2>1, MinIs
  <1> HIDE DEF keeps, refuse, s
  <1>5. CASE refuse
    BY <1>1, <1>2, <1>3, <1>5, OnAScreen, RefusalStands
  <1>6. CASE ~refuse
    <2>1. /\ call.pc = op[c].pc /\ call.kind = op[c].kind /\ call.asof = op[c].asof
          /\ call.closes = op[c].closes /\ call.size = op[c].size
          /\ call.left = op[c].left \ {s}
          /\ call.rows = IF keeps THEN op[c].rows \cup {s} ELSE op[c].rows
      BY <1>2, OnAScreen
    <2>2. BecomesOf(c, call)
      BY <1>3, <1>6
    <2> HIDE DEF call
    <2>3. call.rows \cup call.left \subseteq op[c].rows \cup op[c].left
      BY <1>4, <2>1
    <2>4. QED
      BY <1>1, <2>1, <2>2, <2>3, FiltersOn
  <1>7. QED
    BY <1>5, <1>6

\* The averages are taken.
LEMMA AveragedStands ==
    ASSUME Calls, Standing, NEW c \in Callers, Averaged(c), World'
    PROVE  Standing'
  <1> DEFINE call == [op[c] EXCEPT !.pc = "filtering", !.filters = Tail(@)]
  <1>1. op[c].pc = "averaging" /\ BecomesOf(c, call) /\ emitted' = emitted
    BY DEF Averaged, BecomesOf, busVars
  <1>2. op[c].pc \in ScreenPlaces
    BY <1>1 DEF ScreenPlaces
  <1>3. /\ call.pc = "filtering" /\ call.kind = op[c].kind /\ call.asof = op[c].asof
        /\ call.closes = op[c].closes /\ call.size = op[c].size
        /\ call.left = op[c].left /\ call.rows = op[c].rows
    BY <1>2, OnAScreen
  <1> HIDE DEF call
  <1>4. QED
    BY <1>1, <1>3, FiltersOn

\* The candidates are announced with their number, right after the start.
LEMMA CompleteStands ==
    ASSUME Calls, Standing, BusShape, NEW c \in Callers, Complete(c), World'
    PROVE  Standing'
  <1> DEFINE rows    == op[c].rows
             payload == [candidate_count |-> CandidateCount(c), symbols |-> rows]
             told    == ToldOf(c, "screener_completed", payload)
             call    == [op[c] EXCEPT !.pc = "completing"]
             n       == Len(emitted[c])
  <1>1. op[c].pc = "filtering" /\ BecomesOf(c, call) /\ Emit(c, "screener_completed", payload)
    BY DEF Complete, BecomesOf
  <1>2. op[c].pc \in ScreenPlaces
    BY <1>1 DEF ScreenPlaces
  <1>3. Fits(op[c]) /\ Started(emitted[c], op[c].size)
    BY <1>1, <1>2, OnAScreen DEF ScreenStands
  <1>4. op[c].size \in Nat
    BY <1>3 DEF Started
  <1>5. Cardinality(rows) \in Nat /\ Cardinality(rows) \leq op[c].size
    <2> DEFINE all == rows \cup op[c].left
    <2>1. rows \subseteq all /\ all \subseteq Symbols /\ Cardinality(all) \leq op[c].size
      BY <1>3 DEF Fits
    <2> HIDE DEF all, rows
    <2>2. IsFiniteSet(all) /\ IsFiniteSet(rows)
      BY <2>1, FS_Subset, ScreenerAssumption
    <2>3. Cardinality(rows) \leq Cardinality(all) /\ Cardinality(rows) \in Nat /\ Cardinality(all) \in Nat
      BY <2>1, <2>2, FS_Subset, FS_CardinalityType
    <2>4. QED
      BY <1>4, <2>1, <2>3
  <1>6. /\ call.pc = "completing" /\ call.kind = op[c].kind /\ call.asof = op[c].asof
        /\ call.closes = op[c].closes /\ call.rows = rows /\ call.size = op[c].size
    BY <1>2, OnAScreen
  <1>7. /\ n \in Nat /\ Len(told) = n + 1
        /\ told[n + 1].event.type = "screener_completed" /\ told[n + 1].event.payload = payload
        /\ \A i \in 1..n : told[i] = emitted[c][i]
    BY ToldFacts
  <1>8. "candidate_count" \in DOMAIN payload /\ payload.candidate_count = Cardinality(rows)
    BY DEF CandidateCount
  <1> HIDE DEF call, rows, payload, told, n
  <1>9. /\ n > 0 /\ told[n].event.type = "screener_started"
        /\ told[n].event.payload.universe_size = op[c].size
    BY <1>3, <1>7 DEF Started, n
  <1>10. Finished(told, call.size, Cardinality(call.rows))
    <2>1. Len(told) = n + 1 /\ Len(told) - 1 = n
      BY <1>7
    <2>2. QED
      BY <1>6, <1>7, <1>8, <1>9, <2>1 DEF Finished
  <1>11. call.pc \in ScreenPlaces /\ ScreenStands(call, told)
    BY <1>6, <1>10 DEF ScreenStands, ScreenPlaces
  <1>12. CallStands(call, told)
    BY <1>2, <1>6, <1>11, OnAScreen, InAScreen
  <1>13. Pairs(told)
    <2>1. Pairs(emitted[c])
      BY <1>2, OnAScreen
    <2>2. QED
      BY <1>5, <1>7, <1>8, <1>9, <2>1, MorePairs DEF n
  <1>14. QED
    BY <1>1, <1>12, <1>13, StandsTelling DEF told

\* What was announced is answered.
LEMMA AnswerOfScreenStands ==
    ASSUME Calls, Standing, NEW c \in Callers, Answer(c), World'
    PROVE  Standing'
  <1> DEFINE answer == [ok |-> TRUE, asof |-> op[c].asof, candidates |-> op[c].rows,
                        size |-> op[c].size]
  <1>1. op[c].pc = "completing" /\ AnswerWith(c, answer) /\ emitted' = emitted
    BY DEF Answer, busVars
  <1>2. op[c].pc \in ScreenPlaces
    BY <1>1 DEF ScreenPlaces
  <1>3. op[c].kind = "screen" /\ Finished(emitted[c], op[c].size, Cardinality(op[c].rows))
    BY <1>1, <1>2, OnAScreen DEF ScreenStands
  <1>4. answer.size = op[c].size /\ answer.candidates = op[c].rows
    OBVIOUS
  <1> HIDE DEF answer
  <1>5. QED
    BY <1>1, <1>3, <1>4, AnswerStands

\* No call stands on nothing.
LEMMA IdleStands ==
    ASSUME NEW told
    PROVE  CallStands(Idle, told)
  <1>1. Idle.pc = "idle" /\ Idle.kind = "" /\ Idle.closes = <<>>
    BY DEF Idle
  <1>2. KindStands(Idle) /\ RateStands(Idle)
    BY <1>1, NoCloses DEF KindStands, RateStands, ScreenPlaces, RatePlaces
  <1>3. ScreenStands(Idle, told) /\ ScanStands(Idle, told)
    BY <1>1 DEF ScreenStands, ScanStands
  <1>4. QED
    BY <1>2, <1>3 DEF CallStands

\* A caller that is done has no call.
LEMMA DoneStands ==
    ASSUME Calls, Standing, NEW c \in Callers, Done(c), World'
    PROVE  Standing'
  <1>1. BecomesOf(c, Idle) /\ emitted' = emitted
    BY DEF Done, BecomesOf, busVars
  <1>2. CallStands(Idle, emitted[c])
    BY IdleStands
  <1>3. QED
    BY <1>1, <1>2, StandsQuietly

\* The roster stays one of the symbols, whatever is listed.
LEMMA RosterStays ==
    ASSUME World, NEW c \in Callers, op[c].asof \in Days, NEW raw \in Listings, Fetch(c, raw),
           UNCHANGED ratings
    PROVE  World'
  <1>1. Aggregated(raw) \in SUBSET Symbols
    BY ScreenerAssumption DEF Aggregated
  <1>2. roster' = roster \/ roster' = [roster EXCEPT ![op[c].asof] = @ \cup Aggregated(raw)]
    BY DEF Fetch
  <1> HIDE DEF Aggregated
  <1>3. roster' \in [Days -> SUBSET Symbols]
    BY <1>1, <1>2 DEF World, RosterThere
  <1>4. bars' = bars
    BY DEF Fetch
  <1>5. QED
    BY <1>3, <1>4 DEF World, BarsThere, RosterThere, RatingsThere

\* The bars stay bars, whatever is stored.
LEMMA BarsStay ==
    ASSUME World, NEW b \in BarsToCome, StoreBar(b), UNCHANGED ratings
    PROVE  World'
  <1>1. b.symbol \in Symbols /\ b.day \in Days /\ b.bar \in DOMAIN BarOf
    BY ScreenerAssumption
  <1>2. bars' = [bars EXCEPT ![b.symbol][b.day] = b.bar] /\ roster' = roster
    BY DEF StoreBar
  <1>3. bars' \in [Symbols -> [Days -> DOMAIN BarOf \cup {NoBar}]]
    BY <1>1, <1>2 DEF World, BarsThere
  <1>4. QED
    BY <1>2, <1>3 DEF World, BarsThere, RosterThere, RatingsThere

\* Every step of a screen leaves the calls standing.
LEMMA ScreeningStands ==
    ASSUME Calls, Standing, BusShape, NEW c \in Callers, Screening(c), UNCHANGED ratings
    PROVE  Standing'
  <1>1. CASE \E raw \in Listings : Fetch(c, raw)
    <2>1. PICK raw \in Listings : Fetch(c, raw)
      BY <1>1
    <2>2. op[c].pc \in ScreenPlaces
      BY <2>1 DEF Fetch, ScreenPlaces
    <2>3. World'
      BY <2>1, <2>2, OnAScreen, RosterStays DEF Standing
    <2>4. QED
      BY <2>1, <2>3, FetchStands
  <1>2. CASE \E request \in Requests : Screen(c, request)
    <2>1. PICK request \in Requests : Screen(c, request)
      BY <1>2
    <2>2. World'
      BY <2>1, WorldStays DEF Screen, Standing
    <2>3. QED
      BY <2>1, <2>2, ScreenStandsOn
  <1>3. CASE Resolve(c)
    BY <1>3, WorldStays, ResolveStands DEF Resolve, Standing
  <1>4. CASE \E code \in {"RATE_LIMIT", "AUTH_FAILED", "UPSTREAM_ERROR"} : FetchFails(c, code)
    <2>1. PICK code : FetchFails(c, code)
      BY <1>4
    <2>2. /\ AnswerWith(c, Refused(code)) /\ emitted' = emitted /\ op[c].pc = "fetching"
          /\ UNCHANGED <<roster, bars, ratings>>
      BY <2>1 DEF FetchFails, busVars
    <2>3. QED
      BY <2>2, WorldStays, RefusalStands DEF Standing
  <1>5. CASE Select(c)
    BY <1>5, WorldStays, SelectStands DEF Select, Standing
  <1>6. CASE FilterFails(c)
    <2>1. /\ AnswerWith(c, Refused("INVALID_INPUT")) /\ emitted' = emitted /\ op[c].pc = "filtering"
          /\ UNCHANGED <<roster, bars, ratings>>
      BY <1>6 DEF FilterFails, busVars
    <2>2. QED
      BY <2>1, WorldStays, RefusalStands DEF Standing
  <1>7. CASE Filter(c)
    BY <1>7, WorldStays, FilterStands DEF Filter, Standing
  <1>8. CASE Average(c)
    BY <1>8, WorldStays, AverageStands DEF Average, Standing
  <1>9. CASE Averaged(c)
    BY <1>9, WorldStays, AveragedStands DEF Averaged, Standing
  <1>10. CASE Complete(c)
    BY <1>10, WorldStays, CompleteStands DEF Complete, Standing
  <1>11. CASE Answer(c)
    BY <1>11, WorldStays, AnswerOfScreenStands DEF Answer, Standing
  <1>12. CASE Done(c)
    BY <1>12, WorldStays, DoneStands DEF Done, Standing
  <1>13. QED
    BY <1>1, <1>2, <1>3, <1>4, <1>5, <1>6, <1>7, <1>8, <1>9, <1>10, <1>11, <1>12 DEF Screening

-----------------------------------------------------------------------------
\* The steps of a rating

\* The ratings of finitely many symbols are natural numbers.
LEMMA RatingsAreNumbers ==
    ASSUME NEW closes, IsFiniteSet(DOMAIN closes)
    PROVE  \A s \in DOMAIN Ratings(closes) : Ratings(closes)[s] \in Nat
  <1> DEFINE scored == {s \in DOMAIN closes : HasScore(closes[s])}
             scores == [s \in scored |-> Score(closes[s])]
             n      == Cardinality(scored)
  <1>1. Ratings(closes) = [s \in scored |-> Percentile(RankMin(scores, s), n)]
    BY DEF Ratings
  <1>2. IsFiniteSet(scored)
    BY FS_Subset
  <1>3. DOMAIN scores = scored
    OBVIOUS
  <1> HIDE DEF scored, scores
  <1>4. ASSUME NEW s \in scored PROVE Percentile(RankMin(scores, s), n) \in Nat
    <2> DEFINE lower == {t \in DOMAIN scores : scores[t] < scores[s]}
               k     == Cardinality(lower)
    <2>1. k \in Nat
      <3>1. lower \in SUBSET scored
        BY <1>3
      <3> HIDE DEF lower
      <3>2. QED
        BY <1>2, <3>1, FS_Subset, FS_CardinalityType
    <2>2. n \in Nat \ {0}
      BY <1>2, <1>4, FS_CardinalityType, FS_EmptySet
    <2>3. RankMin(scores, s) - 1 = k /\ RankMin(scores, s) \in Nat
      BY <2>1 DEF RankMin
    <2> HIDE DEF k, n, lower
    <2>4. (99 * k) \div n \in Nat
      BY <2>1, <2>2
    <2>5. QED
      BY <2>3, <2>4 DEF Percentile
  <1>5. QED
    BY <1>1, <1>4

\* A call in a place of a rating stands on its day, its closes and its scan.
LEMMA InARating ==
    ASSUME NEW call, NEW told, call.pc \in RatePlaces, call.kind \in {"rate", "scan"},
           call.asof \in Days, RateStands(call), ScanStands(call, told)
    PROVE  CallStands(call, told)
  <1>1. KindStands(call)
    BY DEF KindStands, ScreenPlaces, RatePlaces
  <1>2. ScreenStands(call, told)
    BY DEF ScreenStands, RatePlaces
  <1>3. QED
    BY <1>1, <1>2 DEF CallStands

\* What a rating in a place stands on
LEMMA OnARating ==
    ASSUME Calls, Standing, NEW c \in Callers, op[c].pc \in RatePlaces
    PROVE  /\ op[c].kind \in {"rate", "scan"} /\ op[c].asof \in Days
           /\ RateStands(op[c]) /\ ScanStands(op[c], emitted[c]) /\ Pairs(emitted[c])
           /\ DOMAIN op[c] = {"pc", "kind", "asof", "request", "filters", "rows", "left", "size",
                              "symbol", "context", "closes", "answer"}
  BY StandsOn DEF KindStands, RatePlaces

\* A rating goes on, of the same scan if it is of one.
LEMMA RatesOn ==
    ASSUME Calls, Standing, NEW c \in Callers, op[c].pc \in RatePlaces,
           NEW call, BecomesOf(c, call), emitted' = emitted, World',
           call.pc \in RatePlaces, call.kind = op[c].kind, call.asof = op[c].asof,
           call.request = op[c].request, call.rows = op[c].rows, call.symbol = op[c].symbol,
           call.context = op[c].context, RateStands(call)
    PROVE  Standing'
  <1>1. ScanStands(call, emitted[c])
    BY OnARating DEF ScanStands, RatePlaces
  <1>2. CallStands(call, emitted[c])
    BY <1>1, OnARating, InARating
  <1>3. QED
    BY <1>2, StandsQuietly

\* A rating is there, or there is none.
LEMMA HasRatingStands ==
    ASSUME Calls, Standing, NEW c \in Callers, op[c].pc \in RatePlaces,
           NEW rating \in Nat \cup {Raised}, HasRating(c, rating), emitted' = emitted, World'
    PROVE  Standing'
  <1> DEFINE call == [op[c] EXCEPT !.pc = "rated", !.answer = rating, !.closes = <<>>]
  <1>1. BecomesOf(c, call)
    BY DEF HasRating, BecomesOf
  <1>2. /\ call.pc = "rated" /\ call.kind = op[c].kind /\ call.asof = op[c].asof
        /\ call.request = op[c].request /\ call.rows = op[c].rows /\ call.symbol = op[c].symbol
        /\ call.context = op[c].context /\ call.closes = <<>> /\ call.answer = rating
    BY OnARating
  <1> HIDE DEF call
  <1>3. RateStands(call) /\ call.pc \in RatePlaces
    BY <1>2, NoCloses DEF RateStands, RatePlaces
  <1>4. QED
    BY <1>1, <1>2, <1>3, RatesOn

\* A rating that is kept is one, and none is 0.
LEMMA RatingInFacts ==
    ASSUME NEW table, \A s \in DOMAIN table : table[s] \in Nat, NEW s
    PROVE  RatingIn(table, s) \in Nat \cup {Raised}
  BY DEF RatingIn

\* The ratings of the day are there, or they are to be made.
LEMMA LookUpStands ==
    ASSUME Calls, Standing, NEW c \in Callers, LookUp(c), World'
    PROVE  Standing'
  <1> DEFINE table == ratings[op[c].asof]
             call  == [op[c] EXCEPT !.pc = "rostering"]
  <1>1. op[c].pc = "looking" /\ emitted' = emitted
    BY DEF LookUp, busVars
  <1>2. op[c].pc \in RatePlaces
    BY <1>1 DEF RatePlaces
  <1>3. HasRating(c, RatingIn(table, op[c].symbol)) \/ BecomesOf(c, call)
    BY DEF LookUp, BecomesOf
  <1>4. RatingIn(table, op[c].symbol) \in Nat \cup {Raised}
    <2>1. \A s \in DOMAIN table : table[s] \in Nat
      BY <1>2, OnARating DEF Standing, World, RatingsThere
    <2> HIDE DEF table
    <2>2. QED
      BY <2>1, RatingInFacts
  <1>5. CASE BecomesOf(c, call)
    <2>1. /\ call.pc = "rostering" /\ call.kind = op[c].kind /\ call.asof = op[c].asof
          /\ call.request = op[c].request /\ call.rows = op[c].rows /\ call.symbol = op[c].symbol
          /\ call.context = op[c].context /\ call.closes = op[c].closes
      BY <1>2, OnARating
    <2> HIDE DEF call
    <2>2. RateStands(call) /\ call.pc \in RatePlaces
      BY <1>2, <2>1, OnARating DEF RateStands, RatePlaces
    <2>3. QED
      BY <1>1, <1>2, <1>5, <2>1, <2>2, RatesOn
  <1>6. QED
    BY <1>1, <1>2, <1>3, <1>4, <1>5, HasRatingStands

\* The roster of the day is what is loaded.
LEMMA LoadRosterStands ==
    ASSUME Calls, Standing, NEW c \in Callers, LoadRoster(c), World'
    PROVE  Standing'
  <1> DEFINE call == [op[c] EXCEPT !.pc = "loading", !.left = roster[op[c].asof] \ Disposed]
  <1>1. op[c].pc = "rostering" /\ BecomesOf(c, call) /\ emitted' = emitted
    BY DEF LoadRoster, BecomesOf, busVars
  <1>2. op[c].pc \in RatePlaces
    BY <1>1 DEF RatePlaces
  <1>3. /\ call.pc = "loading" /\ call.kind = op[c].kind /\ call.asof = op[c].asof
        /\ call.request = op[c].request /\ call.rows = op[c].rows /\ call.symbol = op[c].symbol
        /\ call.context = op[c].context /\ call.closes = op[c].closes
    BY <1>2, OnARating
  <1> HIDE DEF call
  <1>4. RateStands(call) /\ call.pc \in RatePlaces
    BY <1>2, <1>3, OnARating DEF RateStands, RatePlaces
  <1>5. QED
    BY <1>1, <1>2, <1>3, <1>4, RatesOn

\* The closes of one more symbol are of finitely many.
LEMMA LoadClosesStands ==
    ASSUME Calls, Standing, NEW c \in Callers, LoadCloses(c), World'
    PROVE  Standing'
  <1> DEFINE s      == Min(op[c].left)
             closes == ClosesOf(s, op[c].asof)
             more   == [t \in DOMAIN op[c].closes \cup {s} |->
                          IF t = s THEN closes ELSE op[c].closes[t]]
             few    == Len(closes) < MinCloses
             call   == [op[c] EXCEPT !.left = @ \ {s},
                          !.closes = IF few THEN @
                                     ELSE [t \in DOMAIN @ \cup {s} |-> IF t = s THEN closes ELSE @[t]]]
  <1>1. op[c].pc = "loading" /\ BecomesOf(c, call) /\ emitted' = emitted
    BY DEF LoadCloses, BecomesOf, busVars
  <1>2. op[c].pc \in RatePlaces
    BY <1>1 DEF RatePlaces
  <1> HIDE DEF few, s, closes
  <1>3. /\ call.pc = op[c].pc /\ call.kind = op[c].kind /\ call.asof = op[c].asof
        /\ call.request = op[c].request /\ call.rows = op[c].rows /\ call.symbol = op[c].symbol
        /\ call.context = op[c].context /\ call.closes = IF few THEN op[c].closes ELSE more
    BY <1>2, OnARating
  <1>4. DOMAIN more = DOMAIN op[c].closes \cup {s}
    OBVIOUS
  <1> HIDE DEF call, more
  <1>5. IsFiniteSet(DOMAIN call.closes)
    BY <1>2, <1>3, <1>4, OnARating, FS_AddElement DEF RateStands
  <1>6. RateStands(call)
    BY <1>1, <1>3, <1>5 DEF RateStands
  <1>7. QED
    BY <1>1, <1>2, <1>3, <1>6, RatesOn

\* The ratings that are written are natural numbers, and so are those that stay.
LEMMA WriteRatingsStands ==
    ASSUME Calls, Standing, NEW c \in Callers, WriteRatings(c)
    PROVE  Standing'
  <1> DEFINE new  == Ratings(op[c].closes)
             old  == ratings[op[c].asof]
             kept == Kept(old, new)
  <1>1. op[c].pc = "loading" /\ emitted' = emitted /\ UNCHANGED <<roster, bars>>
    BY DEF WriteRatings, busVars
  <1>2. op[c].pc \in RatePlaces
    BY <1>1 DEF RatePlaces
  <1>3. /\ ratings' = [ratings EXCEPT ![op[c].asof] = kept]
        /\ HasRating(c, RatingIn(new, op[c].symbol))
    BY DEF WriteRatings
  <1>4. \A s \in DOMAIN new : new[s] \in Nat
    BY <1>2, OnARating, RatingsAreNumbers DEF RateStands
  <1>5. RatingIn(new, op[c].symbol) \in Nat \cup {Raised}
    <2> HIDE DEF new
    <2> QED BY <1>4, RatingInFacts
  <1>6. \A s \in DOMAIN old : old[s] \in Nat
    BY <1>2, OnARating DEF Standing, World, RatingsThere
  <1> HIDE DEF new, old
  <1>7. \A s \in DOMAIN kept : kept[s] \in Nat
    BY <1>4, <1>6 DEF Kept
  <1> HIDE DEF kept
  <1>8. RatingsThere'
    BY <1>2, <1>3, <1>7, OnARating DEF Standing, World, RatingsThere, Calls
  <1>9. World'
    BY <1>1, <1>8 DEF Standing, World, BarsThere, RosterThere
  <1>10. QED
    BY <1>1, <1>2, <1>3, <1>5, <1>9, HasRatingStands

\* A day is rated for the symbol that triggers it.
LEMMA RateStandsOn ==
    ASSUME Calls, Standing, NEW c \in Callers, NEW d \in Asofs, Rate(c, d), World'
    PROVE  Standing'
  <1> DEFINE call == [Idle EXCEPT !.pc = "looking", !.kind = "rate", !.symbol = Trigger, !.asof = d]
  <1>1. BecomesOf(c, call) /\ emitted' = emitted
    BY DEF Rate, BecomesOf, busVars
  <1>2. call.pc = "looking" /\ call.kind = "rate" /\ call.asof = d /\ call.closes = <<>>
    BY DEF Idle
  <1>3. d \in Days
    BY RsRatingsAssumption
  <1> HIDE DEF call
  <1>4. RateStands(call) /\ ScanStands(call, emitted[c]) /\ call.pc \in RatePlaces
    BY <1>2, NoCloses DEF RateStands, ScanStands, RatePlaces
  <1>5. CallStands(call, emitted[c])
    BY <1>2, <1>3, <1>4, InARating
  <1>6. QED
    BY <1>1, <1>5, StandsQuietly

\* A page is of a symbol and a day.
LEMMA ShowPageStands ==
    ASSUME Calls, Standing, NEW c \in Callers, NEW page \in Pages, ShowPage(c, page), World'
    PROVE  Standing'
  <1> DEFINE answer == Page(page.symbol, page.today, page.days)
             call   == [Idle EXCEPT !.pc = "answered", !.kind = "page", !.symbol = page.symbol,
                                    !.asof = page.today, !.answer = answer]
  <1>1. BecomesOf(c, call) /\ emitted' = emitted
    BY DEF ShowPage, BecomesOf, busVars
  <1>2. /\ call.pc = "answered" /\ call.kind = "page" /\ call.symbol = page.symbol
        /\ call.asof = page.today /\ call.closes = <<>>
    BY DEF Idle
  <1>3. page.symbol \in Symbols /\ page.today \in Days
    BY RsRatingsAssumption
  <1> HIDE DEF call
  <1>4. CallStands(call, emitted[c])
    BY <1>2, <1>3, AnsweredStands
  <1>5. QED
    BY <1>1, <1>4, StandsQuietly

\* A day that was rated is answered.
LEMMA RatedStands ==
    ASSUME Calls, Standing, NEW c \in Callers, Rated(c), World'
    PROVE  Standing'
  <1>1. op[c].kind = "rate" /\ AnswerWith(c, op[c].answer) /\ emitted' = emitted
    BY DEF Rated, busVars
  <1>2. QED
    BY <1>1, AnswerStands

\* Every step of a rating leaves the calls standing.
LEMMA RatingStands ==
    ASSUME Calls, Standing, NEW c \in Callers,
           Rating(c) \/ Rated(c) \/ (\E d \in Asofs : Rate(c, d)) \/ (\E page \in Pages : ShowPage(c, page))
    PROVE  Standing'
  <1>1. CASE LookUp(c)
    BY <1>1, WorldStays, LookUpStands DEF LookUp, Standing
  <1>2. CASE LoadRoster(c)
    BY <1>2, WorldStays, LoadRosterStands DEF LoadRoster, Standing
  <1>3. CASE LoadCloses(c)
    BY <1>3, WorldStays, LoadClosesStands DEF LoadCloses, Standing
  <1>4. CASE WriteRatings(c)
    BY <1>4, WriteRatingsStands
  <1>5. CASE RatingFails(c)
    <2>1. HasRating(c, Raised) /\ emitted' = emitted /\ op[c].pc = "rostering"
      BY <1>5 DEF RatingFails, busVars
    <2>2. World'
      BY <1>5, WorldStays DEF RatingFails, Standing
    <2>3. op[c].pc \in RatePlaces
      BY <2>1 DEF RatePlaces
    <2>4. QED
      BY <2>1, <2>2, <2>3, HasRatingStands
  <1>6. CASE Rated(c)
    BY <1>6, WorldStays, RatedStands DEF Rated, Standing
  <1>7. CASE \E d \in Asofs : Rate(c, d)
    <2>1. PICK d \in Asofs : Rate(c, d)
      BY <1>7
    <2>2. World'
      BY <2>1, WorldStays DEF Rate, Standing
    <2>3. QED
      BY <2>1, <2>2, RateStandsOn
  <1>8. CASE \E page \in Pages : ShowPage(c, page)
    <2>1. PICK page \in Pages : ShowPage(c, page)
      BY <1>8
    <2>2. World'
      BY <2>1, WorldStays DEF ShowPage, Standing
    <2>3. QED
      BY <2>1, <2>2, ShowPageStands
  <1>9. QED
    BY <1>1, <1>2, <1>3, <1>4, <1>5, <1>6, <1>7, <1>8 DEF Rating

-----------------------------------------------------------------------------
\* The steps of a scan

\* A scan between two symbols stands on its day and its rows.
LEMMA InAScan ==
    ASSUME NEW call, NEW told, call.pc = "scoring", call.kind = "scan", call.asof \in Days,
           IsFiniteSet(DOMAIN call.closes), call.request \in Scans, ValidScan(call.request),
           RowsStand(call.rows), Announced(call.rows, told)
    PROVE  CallStands(call, told)
  <1>1. KindStands(call)
    BY DEF KindStands, ScreenPlaces, RatePlaces
  <1>2. RateStands(call)
    BY DEF RateStands
  <1>3. ScreenStands(call, told)
    BY DEF ScreenStands
  <1>4. ScanStands(call, told)
    BY DEF ScanStands, RatePlaces
  <1>5. QED
    BY <1>1, <1>2, <1>3, <1>4 DEF CallStands

\* What a scan in a place stands on
LEMMA OnAScan ==
    ASSUME Calls, Standing, NEW c \in Callers, op[c].pc \notin {"idle", "answered"}, op[c].kind = "scan"
    PROVE  /\ op[c].asof \in Days /\ IsFiniteSet(DOMAIN op[c].closes)
           /\ op[c].request \in Scans /\ ValidScan(op[c].request)
           /\ RowsStand(op[c].rows) /\ Announced(op[c].rows, emitted[c]) /\ Pairs(emitted[c])
           /\ DOMAIN op[c] = {"pc", "kind", "asof", "request", "filters", "rows", "left", "size",
                              "symbol", "context", "closes", "answer"}
  BY StandsOn DEF KindStands, RateStands, ScanStands

\* A scan begins with no rows, or is refused.
LEMMA ScanStandsOn ==
    ASSUME Calls, Standing, NEW c \in Callers, NEW request \in Scans, Scan(c, request), World'
    PROVE  Standing'
  <1> DEFINE begun   == [Idle EXCEPT !.pc = "scoring", !.kind = "scan", !.asof = request.asof,
                                     !.request = request, !.rows = <<>>]
             invalid == [Idle EXCEPT !.pc = "answered", !.kind = "scan",
                                     !.answer = Refused("INVALID_INPUT")]
             raised  == [Idle EXCEPT !.pc = "answered", !.kind = "scan",
                                     !.answer = Refused("INTERNAL_ERROR")]
  <1>1. emitted' = emitted
    BY DEF Scan, busVars
  <1>2. \/ BecomesOf(c, invalid) \/ BecomesOf(c, raised)
        \/ BecomesOf(c, begun) /\ ValidScan(request)
    BY DEF Scan, BecomesOf
  <1>3. /\ begun.pc = "scoring" /\ begun.kind = "scan" /\ begun.asof = request.asof
        /\ begun.closes = <<>> /\ begun.request = request /\ begun.rows = <<>>
    BY DEF Idle
  <1>4. /\ invalid.pc = "answered" /\ invalid.kind = "scan" /\ invalid.answer.ok = FALSE
        /\ invalid.closes = <<>>
        /\ raised.pc = "answered" /\ raised.kind = "scan" /\ raised.answer.ok = FALSE
        /\ raised.closes = <<>>
    BY DEF Idle, Refused
  <1> HIDE DEF begun, invalid, raised
  <1>5. CallStands(invalid, emitted[c]) /\ CallStands(raised, emitted[c])
    BY <1>4, AnsweredStands
  <1>6. ASSUME ValidScan(request) PROVE CallStands(begun, emitted[c])
    <2>1. request.asof \in Days
      BY ScoringAssumption
    <2>2. RowsStand(<<>>) /\ Announced(<<>>, emitted[c])
      BY DEF RowsStand, Announced, IsSeq, Range
    <2>3. QED
      BY <1>3, <1>6, <2>1, <2>2, NoCloses, InAScan
  <1>7. QED
    BY <1>1, <1>2, <1>5, <1>6, StandsQuietly

\* The next symbol of the list is one, and so are its flows.
LEMMA BuildContextStands ==
    ASSUME Calls, Standing, NEW c \in Callers, BuildContext(c), World'
    PROVE  Standing'
  <1> DEFINE symbol  == op[c].request.symbols[Len(op[c].rows) + 1]
             context == [bars |-> KlineBars(symbol, op[c].asof), flow |-> FlowOf[symbol]]
             call    == [op[c] EXCEPT !.pc = "looking", !.symbol = symbol, !.context = context]
  <1>1. /\ op[c].pc = "scoring" /\ BecomesOf(c, call) /\ emitted' = emitted
        /\ Len(op[c].rows) < Len(op[c].request.symbols)
    BY DEF BuildContext, BecomesOf, busVars
  <1>2. op[c].kind = "scan"
    BY <1>1, StandsOn DEF KindStands
  <1>3. symbol \in Symbols
    <2>1. op[c].request.symbols \in Seq(Symbols)
      BY <1>1, <1>2, OnAScan, ScoringAssumption
    <2>2. Len(op[c].rows) \in Nat
      BY <1>1, <1>2, OnAScan, OwnElements DEF RowsStand, IsSeq
    <2>3. QED
      BY <1>1, <2>1, <2>2
  <1> HIDE DEF symbol
  <1>4. DOMAIN context = {"bars", "flow"} /\ context.flow = FlowOf[symbol]
    OBVIOUS
  <1>5. FlowOf[symbol] \in Flows
    BY <1>3, ScoringAssumption DEF Flows, NoFlow
  <1> HIDE DEF context
  <1>6. /\ call.pc = "looking" /\ call.kind = "scan" /\ call.asof = op[c].asof
        /\ call.request = op[c].request /\ call.rows = op[c].rows /\ call.symbol = symbol
        /\ call.context = context /\ call.closes = op[c].closes
    BY <1>1, <1>2, OnAScan
  <1> HIDE DEF call
  <1>7. RateStands(call) /\ call.pc \in RatePlaces
    BY <1>1, <1>2, <1>6, OnAScan DEF RateStands, RatePlaces
  <1>8. ScanStands(call, emitted[c])
    BY <1>1, <1>2, <1>3, <1>4, <1>5, <1>6, OnAScan DEF ScanStands
  <1>9. CallStands(call, emitted[c])
    BY <1>1, <1>2, <1>6, <1>7, <1>8, OnAScan, InARating
  <1>10. QED
    BY <1>1, <1>9, StandsQuietly

\* The rows stand with one more that does.
LEMMA RowsOn ==
    ASSUME NEW rows, RowsStand(rows), NEW row,
           row.final \in Int, row.symbol \in Int, row.class = "red"
    PROVE  RowsStand(Append(rows, row))
  <1> DEFINE n    == Len(rows)
             more == Append(rows, row)
  <1>1. /\ IsSeq(more) /\ n \in Nat /\ Len(more) = n + 1 /\ more[n + 1] = row
        /\ \A i \in 1..n : more[i] = rows[i]
    BY OneMoreOf DEF RowsStand
  <1> HIDE DEF n, more
  <1>2. ASSUME NEW i \in 1..(n + 1)
        PROVE  more[i].final \in Int /\ more[i].symbol \in Int /\ more[i].class = "red"
    <2>1. CASE i = n + 1
      BY <1>1, <2>1
    <2>2. CASE i # n + 1
      <3>1. i \in 1..n
        BY <1>1, <2>2
      <3>2. QED
        BY <1>1, <3>1 DEF RowsStand, n
    <2>3. QED
      BY <2>1, <2>2
  <1>3. QED
    BY <1>1, <1>2 DEF RowsStand, more

\* One more symbol is scored, and announced if it has a pivot.
LEMMA ScoreSymbolStands ==
    ASSUME Calls, Standing, BusShape, NEW c \in Callers, ScoreSymbol(c), World'
    PROVE  Standing'
  <1> DEFINE context == [op[c].context EXCEPT !.bars = [i \in DOMAIN @ |-> BarOf[@[i]]]]
             riskOff == op[c].request.resolver = "risk_off"
             row     == Candidate(op[c].symbol, context, op[c].answer, riskOff)
             call    == [op[c] EXCEPT !.pc = "scoring", !.rows = Append(@, row),
                                      !.symbol = 0, !.context = <<>>, !.answer = <<>>]
             payload == [symbol |-> op[c].symbol, pattern |-> "VCP",
                         score |-> VcpPivot(context.bars).points]
             told    == ToldOf(c, "pattern_detected", payload)
             n       == Len(emitted[c])
  <1>1. op[c].pc = "rated" /\ op[c].kind = "scan" /\ BecomesOf(c, call)
    BY DEF ScoreSymbol, BecomesOf
  <1>2. IF row.vcp.pivot = 0 THEN emitted' = emitted ELSE Emit(c, "pattern_detected", payload)
    BY DEF ScoreSymbol, busVars
  <1>3. op[c].pc \in RatePlaces
    BY <1>1 DEF RatePlaces
  <1>4. op[c].symbol \in Symbols /\ op[c].context.flow \in Flows /\ DOMAIN op[c].context = {"bars", "flow"}
    BY <1>1, <1>3, OnARating DEF ScanStands
  <1>5. context.flow \in Flows
    BY <1>4
  <1>6. row.symbol = op[c].symbol /\ row.final \in Int /\ row.class = "red"
    <2>1. op[c].answer \in Nat \cup {Raised} /\ riskOff \in BOOLEAN
      BY <1>1, <1>3, OnARating DEF RateStands
    <2> HIDE DEF context, riskOff
    <2>2. QED
      BY <1>5, <2>1, CandidateFacts
  <1>7. payload.symbol = op[c].symbol
    OBVIOUS
  <1> HIDE DEF context, riskOff, row, payload
  <1>8. /\ call.pc = "scoring" /\ call.kind = "scan" /\ call.asof = op[c].asof
        /\ call.closes = op[c].closes /\ call.request = op[c].request
        /\ call.rows = Append(op[c].rows, row)
    BY <1>1, OnAScan
  <1>9. row.symbol \in Int
    <2>1. \A s \in Symbols : s \in Int
      BY ScreenerAssumption
    <2>2. QED
      BY <1>4, <1>6, <2>1
  <1> HIDE DEF call
  <1>10. RowsStand(call.rows)
    BY <1>1, <1>6, <1>8, <1>9, OnAScan, RowsOn
  <1>11. CASE row.vcp.pivot = 0
    <2>1. Announced(call.rows, emitted[c])
      BY <1>1, <1>8, <1>11, OnAScan, QuietRow DEF RowsStand
    <2>2. CallStands(call, emitted[c])
      BY <1>1, <1>8, <1>10, <2>1, OnAScan, InAScan
    <2>3. QED
      BY <1>1, <1>2, <1>11, <2>2, StandsQuietly
  <1>12. CASE row.vcp.pivot # 0
    <2> DEFINE entry == [event |-> [by |-> c, n |-> Len(emitted[c]) + 1, type |-> "pattern_detected",
                                    payload |-> payload],
                         for   |-> Range(subscribers)]
    <2>1. told = Append(emitted[c], entry)
      BY DEF ToldOf
    <2>2. entry.event.type = "pattern_detected" /\ entry.event.payload.symbol = row.symbol
      BY <1>6, <1>7
    <2>3. IsSeq(emitted[c])
      BY ToldFacts
    <2> HIDE DEF entry
    <2>4. Announced(call.rows, told)
      BY <1>1, <1>8, <1>12, <2>1, <2>2, <2>3, OnAScan, ToldRow DEF RowsStand
    <2> HIDE DEF told
    <2>5. CallStands(call, told)
      BY <1>1, <1>8, <1>10, <2>4, OnAScan, InAScan
    <2>6. Pairs(told)
      <3>1. /\ n \in Nat /\ Len(told) = n + 1 /\ told[n + 1].event.type = "pattern_detected"
            /\ \A i \in 1..n : told[i] = emitted[c][i]
        BY ToldFacts DEF told
      <3>2. Pairs(emitted[c])
        BY <1>1, OnAScan
      <3> HIDE DEF n
      <3>3. QED
        BY <3>1, <3>2, MorePairs DEF n
    <2>7. QED
      BY <1>1, <1>2, <1>12, <2>5, <2>6, StandsTelling DEF told
  <1>13. QED
    BY <1>11, <1>12

\* The best of all that were scored are answered.
LEMMA AnswerScanStands ==
    ASSUME Calls, Standing, NEW c \in Callers, AnswerScan(c), World'
    PROVE  Standing'
  <1> DEFINE topn   == op[c].request.topn
             best   == Ranked(op[c].rows, topn)
             answer == [ok |-> TRUE, candidates |-> best, scored |-> op[c].rows, topn |-> topn]
  <1>1. op[c].pc = "scoring" /\ AnswerWith(c, answer) /\ emitted' = emitted
    BY DEF AnswerScan, busVars
  <1>2. op[c].kind = "scan"
    BY <1>1, StandsOn DEF KindStands
  <1>3. RowsStand(op[c].rows) /\ Announced(op[c].rows, emitted[c])
    BY <1>1, <1>2, OnAScan
  <1>4. topn \in SUBSET Int /\ \A k \in topn : k >= 1
    BY <1>1, <1>2, OnAScan, ScoringAssumption DEF ValidScan
  <1> HIDE DEF topn
  <1>5. Best(best, op[c].rows, topn)
    BY <1>3, <1>4, RankedFacts
  <1> HIDE DEF best
  <1>6. answer.candidates = best /\ answer.scored = op[c].rows /\ answer.topn = topn
    OBVIOUS
  <1> HIDE DEF answer
  <1>7. QED
    BY <1>1, <1>2, <1>3, <1>5, <1>6, AnswerStands

-----------------------------------------------------------------------------
\* What every call stands on, at all times

\* Where nobody's call changes and nothing is told, all calls stand as they did.
LEMMA StandsStill ==
    ASSUME Standing, op' = op, emitted' = emitted, World'
    PROVE  Standing'
  BY DEF Standing

\* Nobody has a call in the beginning.
LEMMA StandingBegins == RsInit => Standing
  <1> SUFFICES ASSUME RsInit PROVE Standing
    OBVIOUS
  <1>1. /\ roster = [d \in Days |-> {}] /\ bars \in Histories
        /\ op = [c \in Callers |-> Idle] /\ ratings = [d \in Days |-> Nothing]
        /\ emitted = [c \in Callers |-> <<>>]
    BY DEF RsInit, ScreenInit, BusInit
  <1>2. World
    <2>1. BarsThere
      BY <1>1, ScreenerAssumption DEF BarsThere, NoBar
    <2>2. RosterThere
      BY <1>1 DEF RosterThere
    <2>3. RatingsThere
      BY <1>1 DEF RatingsThere, Nothing
    <2>4. QED
      BY <2>1, <2>2, <2>3 DEF World
  <1>3. ASSUME NEW c \in Callers
        PROVE  CallStands(op[c], emitted[c]) /\ Pairs(emitted[c])
    <2>1. op[c] = Idle /\ emitted[c] = <<>>
      BY <1>1
    <2>2. Pairs(<<>>)
      BY DEF Pairs
    <2>3. CallStands(Idle, <<>>)
      BY IdleStands
    <2>4. QED
      BY <2>1, <2>2, <2>3
  <1>4. QED
    BY <1>2, <1>3 DEF Standing

\* No step takes away what a call stands on.
LEMMA StandingStays ==
    ASSUME Calls, Standing, BusShape, [ScoreNext]_rsVars
    PROVE  Standing'
  <1>1. ASSUME UNCHANGED <<roster, bars, op, ratings>>, BusNext
        PROVE  Standing'
    <2>1. emitted' = emitted
      BY <1>1 DEF BusNext, Look, Put, Open, Serve, Leave
    <2>2. World'
      BY <1>1, WorldStays DEF Standing
    <2>3. QED
      BY <1>1, <2>1, <2>2, StandsStill
  <1>2. ASSUME NEW b \in BarsToCome, StoreBar(b), UNCHANGED ratings
        PROVE  Standing'
    <2>1. op' = op /\ emitted' = emitted
      BY <1>2 DEF StoreBar, busVars
    <2>2. World'
      BY <1>2, BarsStay DEF Standing
    <2>3. QED
      BY <2>1, <2>2, StandsStill
  <1>3. CASE RsNext
    <2>1. CASE ScreenNext /\ UNCHANGED ratings
      BY <1>1, <1>2, <2>1, ScreeningStands DEF ScreenNext
    <2>2. CASE ~(ScreenNext /\ UNCHANGED ratings)
      BY <1>3, <2>2, RatingStands DEF RsNext
    <2>3. QED
      BY <2>1, <2>2
  <1>4. ASSUME NEW c \in Callers, NEW request \in Scans, Scan(c, request)
        PROVE  Standing'
    BY <1>4, WorldStays, ScanStandsOn DEF Scan, Standing
  <1>5. ASSUME NEW c \in Callers, BuildContext(c)
        PROVE  Standing'
    BY <1>5, WorldStays, BuildContextStands DEF BuildContext, Standing
  <1>6. ASSUME NEW c \in Callers, ScoreSymbol(c)
        PROVE  Standing'
    BY <1>6, WorldStays, ScoreSymbolStands DEF ScoreSymbol, Standing
  <1>7. ASSUME NEW c \in Callers, AnswerScan(c)
        PROVE  Standing'
    BY <1>7, WorldStays, AnswerScanStands DEF AnswerScan, Standing
  <1>8. CASE UNCHANGED rsVars
    <2>1. UNCHANGED <<roster, bars, op, ratings, emitted>>
      BY <1>8 DEF rsVars, screenVars, busVars
    <2>2. World'
      BY <2>1, WorldStays DEF Standing
    <2>3. QED
      BY <2>1, <2>2, StandsStill
  <1>9. QED
    BY <1>3, <1>4, <1>5, <1>6, <1>7, <1>8 DEF ScoreNext

\* The calls, the bus and what the calls stand on, together
StandingInv == Calls /\ BusInv /\ Standing

LEMMA StandingAlways == ScoreSpec => []StandingInv
  <1>1. RsInit => StandingInv
    BY CallsBegin, StandingBegins, BusBegins DEF RsInit, ScreenInit, StandingInv
  <1>2. ASSUME StandingInv, [ScoreNext]_rsVars
        PROVE  StandingInv'
    <2>1. Calls /\ BusInv /\ Standing /\ BusShape
      BY <1>2 DEF StandingInv, BusInv
    <2>2. Calls'
      BY <1>2, <2>1, StepIsFine DEF Fine
    <2>3. BusInv'
      BY <1>2, <2>1, StepsOfTheBus, BusStepKeeps
    <2>4. Standing'
      BY <1>2, <2>1, StandingStays
    <2>5. QED
      BY <2>2, <2>3, <2>4 DEF StandingInv
  <1>3. QED
    BY <1>1, <1>2, PTL DEF ScoreSpec

\* On the page of a symbol the stage, the sub-scorers and the template never judge
\* against each other, whatever the bars are and however many a window needs: what is in
\* stage 4 has no confirmed stage 2 and no template, and what passes the template is in
\* stage 2 or 3 and fulfils all conditions but that the long average has risen.
THEOREM StagesAlwaysAgree == ScoreSpec => []StagesAgree
  <1>1. ASSUME StandingInv
        PROVE  StagesAgree
    <2>1. ASSUME NEW c \in Callers, op[c].pc = "answered", op[c].kind = "page"
          PROVE  LET window == PageBars(op[c].symbol, op[c].asof, W.need252) IN
                 Len(window) = W.need252 =>
                     /\ Stage(window) = 4 => /\ Stage2Confirmed(window).points = 0
                                             /\ TrendTemplate8(window).points = 0
                     /\ TemplatePassed(window, 99) =>
                          /\ Stage(window) \in {2, 3}
                          /\ \A i \in 1..7 \ {3} : TemplateConditions(window)[i]
      <3> DEFINE window == PageBars(op[c].symbol, op[c].asof, W.need252)
      <3>1. Calls /\ Standing
        BY <1>1 DEF StandingInv
      <3>2. op[c].symbol \in Symbols /\ op[c].asof \in Days /\ BarsThere
        BY <2>1, <3>1, StandsOn DEF KindStands, Standing, World
      <3>3. window \in Seq(Bar)
        BY <3>2, PageWindow
      <3> HIDE DEF window
      <3>4. Len(window) = W.need252 =>
                /\ Stage(window) = 4 => /\ Stage2Confirmed(window).points = 0
                                        /\ TrendTemplate8(window).points = 0
                /\ TemplatePassed(window, 99) =>
                     /\ Stage(window) \in {2, 3}
                     /\ \A i \in 1..7 \ {3} : TemplateConditions(window)[i]
        BY <3>3, StagesOfWindow
      <3>5. QED
        BY <3>4 DEF window
    <2>2. QED
      BY <2>1 DEF StagesAgree
  <1>2. QED
    BY <1>1, StandingAlways, PTL

\* A scan answers with the best of all its symbols, whatever sub-scorer fails, whoever
\* rates the day meanwhile and however many symbols there are: as many as were asked for,
\* in their order, none of those left out before any that is in; every pivot was announced
\* once, in the order of the list; and nobody gets to the points an entry needs.
THEOREM ScansAlwaysRanked == ScoreSpec => []ScansRanked
  <1>1. ASSUME StandingInv
        PROVE  ScansRanked
    <2>1. ASSUME NEW c \in Callers, IsScan(c)
          PROVE  LET all    == op[c].answer.scored
                     best   == op[c].answer.candidates
                     n      == Len(best)
                     events == emitted[c]
                 IN  /\ n = Min(op[c].answer.topn \cup {Len(all)})
                     /\ Range(best) \subseteq Range(all)
                     /\ \A i, j \in 1..n : i < j => ~Before(best[j], best[i])
                     /\ \A row \in Range(all) \ Range(best) : \A i \in 1..n : ~Before(row, best[i])
                     /\ \A k \in DOMAIN all : all[k].vcp.pivot # 0 =>
                          LET event == events[Len(events) + 1 - Cardinality(AnnouncedFrom(all, k))].event
                          IN  event.type = "pattern_detected" /\ event.payload.symbol = all[k].symbol
                     /\ \A row \in Range(all) : row.class = "red"
      <3> DEFINE all  == op[c].answer.scored
                 best == op[c].answer.candidates
      <3>1. Calls /\ Standing
        BY <1>1 DEF StandingInv
      <3>2. op[c].kind = "scan" /\ op[c].pc = "answered" /\ op[c].answer.ok
        BY <2>1 DEF IsScan
      <3>3. /\ RowsStand(all) /\ Announced(all, emitted[c])
            /\ Best(best, all, op[c].answer.topn)
        BY <3>1, <3>2, StandsOn DEF ScanStands
      <3> HIDE DEF all, best
      <3>4. \A row \in Range(all) : row.class = "red"
        BY <3>3, OwnElements DEF RowsStand, IsSeq
      <3>5. \A k \in DOMAIN all : all[k].vcp.pivot # 0 =>
              LET event == emitted[c][Len(emitted[c]) + 1 - Cardinality(AnnouncedFrom(all, k))].event
              IN  event.type = "pattern_detected" /\ event.payload.symbol = all[k].symbol
        BY <3>3 DEF Announced
      <3>6. QED
        BY <3>3, <3>4, <3>5 DEF Best, all, best
    <2>2. QED
      BY <2>1 DEF ScansRanked
  <1>2. QED
    BY <1>1, StandingAlways, PTL

-----------------------------------------------------------------------------
\* What a stream is sent of a caller

\* A frame is of an event that a caller emitted, with the fields that are public.
FrameOwn(frame) ==
    LET e == frame.event
    IN  /\ e.by \in Callers /\ e.n \in 1..Len(emitted[e.by]) /\ e = emitted[e.by][e.n].event
        /\ frame.sent.fields =
             [f \in (Whitelist[e.type] \cap DOMAIN e.payload) \ Denylist |-> e.payload[f]]

FramesOwn(s) == \A j \in 1..Len(frames[s]) : FrameOwn(frames[s][j])

\* One event of a caller is the one before another.
Follows(earlier, later) == earlier.by = later.by /\ earlier.n = later.n - 1

\* Between two frames of a caller there is one of the event before the later one.
Gapless(s) ==
    missed[s] = {} =>
        \A j \in 1..Len(frames[s]) : \A i \in 1..(j - 1) :
            frames[s][i].event.by = frames[s][j].event.by =>
                \E k \in i..(j - 1) : Follows(frames[s][k].event, frames[s][j].event)

\* Once the events of a caller are for an open stream, the later ones are too.
ForGrows(s) ==
    phase[s] = "open" =>
        \A c \in Callers : \A m, n \in 1..Len(emitted[c]) :
            m < n /\ s \in emitted[c][m].for => s \in emitted[c][n].for

SentInv == \A s \in Streams : FramesOwn(s) /\ Gapless(s) /\ ForGrows(s)

\* Every frame stays of an event that was emitted, and no gap opens, while nothing is
\* sent.
LEMMA FramesStay ==
    ASSUME NEW s \in Streams, FramesOwn(s), Gapless(s), frames'[s] = frames[s],
           missed[s] \subseteq missed'[s],
           \A c \in Callers : /\ Len(emitted[c]) \in Nat /\ Len(emitted'[c]) \in Nat
                              /\ Len(emitted[c]) \leq Len(emitted'[c])
                              /\ \A n \in 1..Len(emitted[c]) : emitted'[c][n] = emitted[c][n]
    PROVE  FramesOwn(s)' /\ Gapless(s)'
  <1>1. ASSUME NEW j \in 1..Len(frames[s])
        PROVE  FrameOwn(frames[s][j])'
    <2> DEFINE frame == frames[s][j]
               e     == frame.event
    <2>1. FrameOwn(frame)
      BY DEF FramesOwn
    <2>2. e.by \in Callers /\ e.n \in 1..Len(emitted[e.by])
      BY <2>1 DEF FrameOwn
    <2>3. e.n \in 1..Len(emitted'[e.by]) /\ emitted'[e.by][e.n] = emitted[e.by][e.n]
      <3> HIDE DEF e
      <3> QED BY <2>2
    <2>4. frames'[s][j] = frame
      OBVIOUS
    <2>5. QED
      BY <2>1, <2>3, <2>4 DEF FrameOwn
  <1>2. FramesOwn(s)'
    BY <1>1 DEF FramesOwn
  <1>3. Gapless(s)'
    <2>1. missed'[s] = {} => missed[s] = {}
      OBVIOUS
    <2>2. QED
      BY <2>1 DEF Gapless
  <1>4. QED
    BY <1>2, <1>3

\* What is emitted is for all the streams that are open.
LEMMA EmitSends ==
    ASSUME BusShape, SentInv, NEW c \in Callers, NEW type, NEW payload, Emit(c, type, payload)
    PROVE  SentInv'
  <1> DEFINE n     == Len(emitted[c])
             entry == [event |-> [by |-> c, n |-> n + 1, type |-> type, payload |-> payload],
                       for   |-> Range(subscribers)]
             more  == Append(emitted[c], entry)
  <1>1. /\ emitted' = [emitted EXCEPT ![c] = Append(@, entry)]
        /\ UNCHANGED <<phase, frames, missed>>
    BY DEF Emit
  <1>2. entry.for = Range(subscribers)
    OBVIOUS
  <1> HIDE DEF entry
  <1>3. emitted'[c] = more /\ \A d \in Callers \ {c} : emitted'[d] = emitted[d]
    BY <1>1 DEF BusShape, BusTypes
  <1>4. \A d \in Callers : IsSeq(emitted[d]) /\ Len(emitted[d]) \in Nat
    BY OwnElements DEF BusShape, BusTypes, IsSeq
  <1>5. /\ n \in Nat /\ Len(more) = n + 1 /\ more[n + 1] = entry
        /\ \A i \in 1..n : more[i] = emitted[c][i]
    BY <1>4, OneMoreOf
  <1> HIDE DEF n, more
  <1>6. ASSUME NEW d \in Callers
        PROVE  /\ Len(emitted[d]) \in Nat /\ Len(emitted'[d]) \in Nat
               /\ Len(emitted[d]) \leq Len(emitted'[d])
               /\ \A i \in 1..Len(emitted[d]) : emitted'[d][i] = emitted[d][i]
    <2>1. CASE d = c
      BY <1>3, <1>4, <1>5, <2>1 DEF n
    <2>2. CASE d # c
      BY <1>3, <1>4, <2>2
    <2>3. QED
      BY <2>1, <2>2
  <1>7. ASSUME NEW s \in Streams
        PROVE  FramesOwn(s)' /\ Gapless(s)'
    BY <1>1, <1>6, FramesStay DEF SentInv
  <1>8. ASSUME NEW s \in Streams, phase'[s] = "open",
               NEW d \in Callers, NEW m \in 1..Len(emitted'[d]), NEW k \in 1..Len(emitted'[d]),
               m < k, s \in emitted'[d][m].for
        PROVE  s \in emitted'[d][k].for
    <2>1. phase[s] = "open" /\ ForGrows(s) /\ s \in Range(subscribers)
      BY <1>1, <1>8 DEF SentInv, BusShape, SubscribersOpen
    <2>2. CASE d = c /\ k = n + 1
      BY <1>2, <1>3, <1>5, <2>1, <2>2
    <2>3. CASE ~(d = c /\ k = n + 1)
      <3>1. k \in 1..Len(emitted[d])
        BY <1>3, <1>4, <1>5, <1>8, <2>3 DEF n
      <3>2. m \in 1..Len(emitted[d])
        BY <1>4, <1>6, <1>8, <3>1
      <3>3. emitted'[d][m] = emitted[d][m] /\ emitted'[d][k] = emitted[d][k]
        BY <1>6, <3>1, <3>2
      <3>4. QED
        BY <1>8, <2>1, <3>1, <3>2, <3>3 DEF ForGrows
    <2>4. QED
      BY <2>2, <2>3
  <1>9. \A s \in Streams : ForGrows(s)'
    BY <1>8 DEF ForGrows
  <1>10. QED
    BY <1>7, <1>9 DEF SentInv

\* A step that emits and sends nothing leaves every stream with what it was sent.
LEMMA SilentStep ==
    ASSUME BusShape, SentInv, UNCHANGED <<frames, emitted>>,
           \A s \in Streams : missed[s] \subseteq missed'[s],
           \A s \in Streams : phase'[s] = "open" => phase[s] \in {"new", "open"}
    PROVE  SentInv'
  <1>1. \A d \in Callers : Len(emitted[d]) \in Nat
    BY OwnElements DEF BusShape, BusTypes, IsSeq
  <1>2. ASSUME NEW s \in Streams
        PROVE  FramesOwn(s)' /\ Gapless(s)'
    BY <1>1, FramesStay DEF SentInv
  <1>3. ASSUME NEW s \in Streams, phase'[s] = "open"
        PROVE  ForGrows(s)'
    <2>1. CASE phase[s] = "open"
      BY <1>3, <2>1 DEF SentInv, ForGrows
    <2>2. CASE phase[s] = "new"
      <3>1. \A c \in Callers : \A m \in 1..Len(emitted[c]) : s \notin emitted[c][m].for
        BY <2>2 DEF BusShape, EmittedOwn
      <3>2. QED
        BY <3>1 DEF ForGrows
    <2>3. QED
      BY <1>3, <2>1, <2>2
  <1>4. ASSUME NEW s \in Streams
        PROVE  ForGrows(s)'
    BY <1>3 DEF ForGrows
  <1>5. QED
    BY <1>2, <1>4 DEF SentInv

\* The line of a stream, place by place
LEMMA LinePlaces ==
    ASSUME BusShape, NEW s \in Streams
    PROVE  /\ Len(frames[s]) \in Nat /\ Len(queue[s]) \in Nat
           /\ DOMAIN Line(s) = 1..(Len(frames[s]) + Len(queue[s]))
           /\ \A x \in 1..Len(frames[s]) : x \in DOMAIN Line(s) /\ Line(s)[x] = frames[s][x].event
           /\ queue[s] # <<>> => /\ Len(frames[s]) + 1 \in DOMAIN Line(s)
                                /\ Line(s)[Len(frames[s]) + 1] = Head(queue[s])
  <1> DEFINE sent    == frames[s]
             waiting == queue[s]
             line    == LineOf(sent, waiting)
             t       == Len(sent)
             w       == Len(waiting)
  <1>1. Line(s) = line
    BY DEF Line, LineOf
  <1>2. IsSeq(sent) /\ IsSeq(waiting)
    BY DEF BusShape, BusTypes
  <1> HIDE DEF sent, waiting
  <1>3. /\ t \in Nat /\ w \in Nat /\ DOMAIN line = 1..(t + w)
        /\ \A x \in 1..(t + w) : line[x] = IF x \leq t THEN sent[x].event ELSE waiting[x - t]
    BY <1>2, LineElements
  <1> HIDE DEF line
  <1>4. waiting # <<>> => Head(waiting) = waiting[1] /\ w > 0
    BY <1>2, RestOf
  <1> HIDE DEF t, w
  <1>5. \A x \in 1..t : x \in 1..(t + w) /\ x \leq t
    BY <1>3
  <1>6. waiting # <<>> => t + 1 \in 1..(t + w) /\ ~(t + 1 \leq t) /\ t + 1 - t = 1
    BY <1>3, <1>4
  <1>7. /\ \A x \in 1..t : x \in DOMAIN line /\ line[x] = sent[x].event
        /\ waiting # <<>> => t + 1 \in DOMAIN line /\ line[t + 1] = Head(waiting)
    BY <1>3, <1>4, <1>5, <1>6
  <1>8. QED
    BY <1>1, <1>3, <1>7 DEF t, w, sent, waiting

\* What is in the line of an open stream was emitted, for it, by the caller whose name it
\* bears and under its number; and what was emitted for it, and neither missed nor on its
\* way, is in the line.
LEMMA LineFacts ==
    ASSUME BusInv, NEW s \in Streams, phase[s] = "open"
    PROVE  /\ \A x \in DOMAIN Line(s) :
                 LET e == Line(s)[x]
                 IN  /\ e.by \in Callers /\ e.n \in 1..Len(emitted[e.by])
                     /\ e = emitted[e.by][e.n].event /\ s \in emitted[e.by][e.n].for
           /\ \A c \in Callers : \A n \in 1..Len(emitted[c]) :
                 s \in emitted[c][n].for /\ missed[s] = {} /\ n < Len(emitted[c]) =>
                     \E x \in DOMAIN Line(s) : Line(s)[x] = emitted[c][n].event
  <1> DEFINE line == Line(s)
  <1>1. /\ \A e \in Range(line) : e.by \in Callers
        /\ \A c \in Callers : {e \in Range(line) : e.by = c} = Due(c, s)
    BY DEF BusInv, LineDue
  <1>2. \A c \in Callers : \A n \in 1..Len(emitted[c]) :
            emitted[c][n].event.by = c /\ emitted[c][n].event.n = n
    BY DEF BusInv, BusShape, EmittedOwn
  <1>3. \A c \in Callers : DOMAIN emitted[c] = 1..Len(emitted[c])
    BY OwnElements DEF BusInv, BusShape, BusTypes, IsSeq
  <1> HIDE DEF line
  <1>4. ASSUME NEW x \in DOMAIN line
        PROVE  /\ line[x].by \in Callers /\ line[x].n \in 1..Len(emitted[line[x].by])
               /\ line[x] = emitted[line[x].by][line[x].n].event
               /\ s \in emitted[line[x].by][line[x].n].for
    <2> DEFINE e == line[x]
               c == e.by
    <2>1. e \in Range(line)
      BY DEF Range
    <2>2. c \in Callers /\ e \in Due(c, s)
      BY <1>1, <2>1
    <2>3. PICK n \in 1..Len(emitted[c]) : e = emitted[c][n].event /\ s \in emitted[c][n].for
      BY <1>3, <2>2 DEF Due
    <2>4. e.n = n
      BY <1>2, <2>2, <2>3
    <2>5. QED
      BY <2>2, <2>3, <2>4
  <1>5. ASSUME NEW c \in Callers, NEW n \in 1..Len(emitted[c]),
               s \in emitted[c][n].for, missed[s] = {}, n < Len(emitted[c])
        PROVE  \E x \in DOMAIN line : line[x] = emitted[c][n].event
    <2>1. emitted[c][n].event \in Due(c, s)
      BY <1>3, <1>5 DEF Due
    <2>2. emitted[c][n].event \in Range(line)
      BY <1>1, <2>1
    <2>3. QED
      BY <2>2 DEF Range
  <1>6. QED
    BY <1>4, <1>5 DEF line

\* If a stream that has missed nothing was sent something of a caller, the event before the
\* one it is sent next of the caller is among what it was sent since.
LEMMA NoGapOpens ==
    ASSUME BusInv, SentInv, NEW s \in Streams, phase[s] = "open", queue[s] # <<>>,
           missed[s] = {}, NEW i \in 1..Len(frames[s]),
           frames[s][i].event.by = Head(queue[s]).by
    PROVE  \E k \in i..Len(frames[s]) : Follows(frames[s][k].event, Head(queue[s]))
  <1> DEFINE line == Line(s)
             t    == Len(frames[s])
             e    == Head(queue[s])
             c    == e.by
             m    == frames[s][i].event.n
  <1>1. BusShape
    BY DEF BusInv
  <1>2. /\ t \in Nat /\ \A x \in DOMAIN line : x \in Nat \ {0}
        /\ \A x \in 1..t : x \in DOMAIN line /\ line[x] = frames[s][x].event
        /\ t + 1 \in DOMAIN line /\ line[t + 1] = e
    <2>1. /\ t \in Nat /\ Len(queue[s]) \in Nat /\ DOMAIN line = 1..(t + Len(queue[s]))
          /\ \A x \in 1..t : x \in DOMAIN line /\ line[x] = frames[s][x].event
          /\ t + 1 \in DOMAIN line /\ line[t + 1] = e
      BY <1>1, LinePlaces
    <2> HIDE DEF t, line, e
    <2>2. \A x \in DOMAIN line : x \in Nat \ {0}
      BY <2>1
    <2>3. QED
      BY <2>1, <2>2
  <1>3. InOrder(line)
    BY DEF BusInv, LineDue
  <1>5. /\ \A x \in DOMAIN line :
              /\ line[x].by \in Callers /\ line[x].n \in 1..Len(emitted[line[x].by])
              /\ line[x] = emitted[line[x].by][line[x].n].event
              /\ s \in emitted[line[x].by][line[x].n].for
        /\ \A d \in Callers : \A n \in 1..Len(emitted[d]) :
              s \in emitted[d][n].for /\ missed[s] = {} /\ n < Len(emitted[d]) =>
                  \E x \in DOMAIN line : line[x] = emitted[d][n].event
    BY LineFacts
  <1>6. i \in 1..t /\ frames[s][i].event.by = c
    OBVIOUS
  <1> HIDE DEF line, t, e
  <1>7. i \in DOMAIN line /\ line[i] = frames[s][i].event
    BY <1>2, <1>6
  <1>8. /\ c \in Callers /\ e.n \in 1..Len(emitted[c])
        /\ m \in 1..Len(emitted[c]) /\ s \in emitted[c][m].for
    BY <1>2, <1>5, <1>6, <1>7
  <1>9. m < e.n
    <2>1. i < t + 1 /\ line[i].by = line[t + 1].by /\ line[i].n = m /\ line[t + 1].n = e.n
      BY <1>2, <1>6, <1>7
    <2> HIDE DEF m
    <2>2. QED
      BY <1>2, <1>3, <1>7, <2>1 DEF InOrder
  <1>10. Len(emitted[c]) \in Nat
    BY <1>8, OwnElements DEF BusInv, BusShape, BusTypes, IsSeq
  <1> DEFINE n == e.n - 1
  <1>11. n \in 1..Len(emitted[c]) /\ n < Len(emitted[c]) /\ m \leq n /\ e.n = n + 1 /\ m \in Nat /\ n \in Nat
    BY <1>8, <1>9, <1>10
  <1> HIDE DEF n, m
  <1>12. s \in emitted[c][n].for
    BY <1>8, <1>11 DEF SentInv, ForGrows
  <1>13. PICK x \in DOMAIN line : line[x] = emitted[c][n].event
    BY <1>5, <1>8, <1>11, <1>12
  <1>14. line[x].by = c /\ line[x].n = n
    BY <1>8, <1>11, <1>13 DEF BusInv, BusShape, EmittedOwn
  <1>15. x < t + 1
    <2>1. ~(t + 1 < x)
      BY <1>2, <1>3, <1>11, <1>14 DEF InOrder
    <2>2. t + 1 # x
      BY <1>2, <1>11, <1>14
    <2>3. QED
      BY <1>2, <2>1, <2>2
  <1>16. i \leq x
    <2>1. ~(x < i)
      <3>1. line[i].n = m /\ line[i].by = c
        BY <1>6, <1>7 DEF m
      <3>2. QED
        BY <1>3, <1>7, <1>11, <1>14, <3>1 DEF InOrder
    <2>2. QED
      BY <1>2, <1>6, <2>1
  <1>17. x \in i..t /\ line[x] = frames[s][x].event
    <2>1. x \in i..t /\ x \in 1..t
      BY <1>2, <1>6, <1>15, <1>16
    <2>2. QED
      BY <1>2, <2>1
  <1>18. Follows(frames[s][x].event, e)
    BY <1>11, <1>14, <1>17 DEF Follows
  <1>19. QED
    BY <1>17, <1>18 DEF t, e

\* A stream sends what was emitted, and no gap opens.
LEMMA ServeSends ==
    ASSUME BusInv, SentInv, NEW s \in Streams, Serve(s)
    PROVE  SentInv'
  <1> DEFINE event == Head(queue[s])
             frame == [event |-> event, sent |-> Masked(event, LabelsWith(event))]
             t     == Len(frames[s])
  <1>1. /\ phase[s] = "open" /\ queue[s] # <<>>
        /\ frames' = [frames EXCEPT ![s] = Append(@, frame)]
        /\ UNCHANGED <<phase, emitted, missed>>
    BY DEF Serve
  <1>2. /\ frame.event = event
        /\ frame.sent.fields =
             [f \in (Whitelist[event.type] \cap DOMAIN event.payload) \ Denylist |-> event.payload[f]]
    BY DEF Masked
  <1> HIDE DEF frame
  <1>3. /\ t \in Nat /\ Len(frames'[s]) = t + 1
        /\ \A j \in 1..t : frames'[s][j] = frames[s][j]
        /\ frames'[s][t + 1] = frame
    <2>1. frames'[s] = Append(frames[s], frame) /\ IsSeq(frames[s])
      BY <1>1 DEF BusInv, BusShape, BusTypes
    <2>2. QED
      BY <2>1, OneMoreOf
  <1>4. \A r \in Streams \ {s} : frames'[r] = frames[r]
    BY <1>1 DEF BusInv, BusShape, BusTypes
  <1>5. FrameOwn(frame)
    <2>1. Len(frames[s]) + 1 \in DOMAIN Line(s) /\ Line(s)[Len(frames[s]) + 1] = event
      BY <1>1, LinePlaces DEF BusInv
    <2> HIDE DEF event
    <2>2. /\ event.by \in Callers /\ event.n \in 1..Len(emitted[event.by])
          /\ event = emitted[event.by][event.n].event
      BY <1>1, <2>1, LineFacts
    <2>3. QED
      BY <1>2, <2>2 DEF FrameOwn
  <1>6. ASSUME NEW r \in Streams, r # s
        PROVE  FramesOwn(r)' /\ Gapless(r)'
    <2>1. \A d \in Callers : Len(emitted[d]) \in Nat
      BY OwnElements DEF BusInv, BusShape, BusTypes, IsSeq
    <2>2. QED
      BY <1>1, <1>4, <1>6, <2>1, FramesStay DEF SentInv
  <1>7. FramesOwn(s)'
    <2>1. ASSUME NEW j \in 1..(t + 1)
          PROVE  FrameOwn(frames'[s][j])
      <3>1. CASE j = t + 1
        BY <1>3, <1>5, <3>1
      <3>2. CASE j # t + 1
        <4>1. j \in 1..t
          BY <1>3, <3>2
        <4>2. QED
          BY <1>3, <4>1 DEF SentInv, FramesOwn
      <3>3. QED
        BY <3>1, <3>2
    <2>3. QED
      BY <1>1, <1>3, <2>1 DEF FramesOwn, FrameOwn
  <1>8. Gapless(s)'
    <2>1. ASSUME missed[s] = {}, NEW j \in 1..(t + 1), NEW i \in 1..(j - 1),
                 frames'[s][i].event.by = frames'[s][j].event.by
          PROVE  \E k \in i..(j - 1) : Follows(frames'[s][k].event, frames'[s][j].event)
      <3>1. CASE j = t + 1
        <4>1. i \in 1..t /\ j - 1 = t
          BY <1>3, <2>1, <3>1
        <4>2. frames'[s][i] = frames[s][i] /\ frames'[s][j].event = event
          BY <1>2, <1>3, <3>1, <4>1
        <4>3. PICK k \in i..t : Follows(frames[s][k].event, event)
          BY <1>1, <2>1, <4>1, <4>2, NoGapOpens
        <4>4. k \in 1..t
          BY <1>3, <4>1
        <4>5. QED
          BY <1>3, <4>1, <4>2, <4>3, <4>4
      <3>2. CASE j # t + 1
        <4>1. j \in 1..t /\ i \in 1..t /\ \A k \in i..(j - 1) : k \in 1..t
          BY <1>3, <2>1, <3>2
        <4>2. frames'[s][i] = frames[s][i] /\ frames'[s][j] = frames[s][j]
          BY <1>3, <4>1
        <4>3. PICK k \in i..(j - 1) : Follows(frames[s][k].event, frames[s][j].event)
          BY <2>1, <4>1, <4>2 DEF SentInv, Gapless
        <4>4. QED
          BY <1>3, <4>1, <4>2, <4>3
      <3>3. QED
        BY <3>1, <3>2
    <2>2. QED
      BY <1>1, <1>3, <2>1 DEF Gapless, Follows
  <1>9. ASSUME NEW r \in Streams
        PROVE  ForGrows(r)'
    BY <1>1 DEF SentInv, ForGrows
  <1>10. QED
    BY <1>6, <1>7, <1>8, <1>9 DEF SentInv

\* Whatever the bus does, what a stream was sent of a caller stays without a gap.
LEMMA SentStays ==
    ASSUME BusInv, SentInv, BusStep
    PROVE  SentInv'
  <1>1. BusShape
    BY DEF BusInv
  <1>2. ASSUME NEW c \in Callers, Look(c) \/ Put(c)
        PROVE  SentInv'
    <2>1. UNCHANGED <<frames, emitted, phase>>
      BY <1>2 DEF Look, Put
    <2>2. \A s \in Streams : missed[s] \subseteq missed'[s]
      BY <1>1, <1>2 DEF Look, Put, BusShape, BusTypes
    <2>3. QED
      BY <1>1, <2>1, <2>2, SilentStep
  <1>3. ASSUME NEW s \in Streams, Open(s) \/ Leave(s)
        PROVE  SentInv'
    <2>1. UNCHANGED <<frames, emitted, missed>>
      BY <1>3 DEF Open, Leave
    <2>2. \A r \in Streams : phase'[r] = "open" => phase[r] \in {"new", "open"}
      BY <1>1, <1>3 DEF Open, Leave, BusShape, BusTypes
    <2>3. QED
      BY <1>1, <2>1, <2>2, SilentStep
  <1>4. ASSUME NEW s \in Streams, Serve(s)
        PROVE  SentInv'
    BY <1>4, ServeSends
  <1>5. ASSUME NEW c \in Callers, NEW type, NEW payload, Emit(c, type, payload)
        PROVE  SentInv'
    BY <1>1, <1>5, EmitSends
  <1>6. CASE UNCHANGED busVars
    BY <1>1, <1>6, SilentStep DEF busVars
  <1>7. QED
    BY <1>2, <1>3, <1>4, <1>5, <1>6 DEF BusStep, BusNext

\* Nothing has been sent in the beginning.
LEMMA SentBegins == BusInit => SentInv
  <1> SUFFICES ASSUME BusInit PROVE SentInv
    OBVIOUS
  <1>1. ASSUME NEW s \in Streams
        PROVE  frames[s] = <<>> /\ phase[s] # "open" /\ Len(<<>>) = 0
    BY DEF BusInit
  <1>2. QED
    BY <1>1 DEF SentInv, FramesOwn, Gapless, ForGrows

\* A completion that a stream which has missed nothing was sent follows directly on its
\* start, if the stream was sent anything of the caller's screens before.
LEMMA PairSent ==
    ASSUME BusInv, SentInv, NEW c \in Callers, Pairs(emitted[c]),
           NEW s \in Streams, missed[s] = {}, NEW j \in 1..Len(frames[s]),
           frames[s][j].event.by = c, frames[s][j].event.type = "screener_completed",
           SentBefore(c, s, j) # {}
    PROVE  LET first == frames[s][Max(SentBefore(c, s, j))]
               last  == frames[s][j]
           IN  /\ first.event.type = "screener_started"
               /\ last.sent.fields.candidate_count \leq first.sent.fields.universe_size
  <1> DEFINE before == SentBefore(c, s, j)
             i      == Max(before)
             first  == frames[s][i]
             last   == frames[s][j]
             n      == last.event.n
  <1>1. Len(frames[s]) \in Nat /\ j \in Nat /\ \A d \in Callers : Len(emitted[d]) \in Nat
    BY OwnElements DEF BusInv, BusShape, BusTypes, IsSeq
  <1>2. i \in before /\ i \in 1..(j - 1) /\ \A x \in before : x \leq i
    <2>1. before \in SUBSET (0..(j - 1)) /\ before \in SUBSET (1..(j - 1)) /\ j - 1 \in Nat
      BY <1>1 DEF SentBefore
    <2> HIDE DEF before
    <2>2. QED
      BY <2>1, MaxIs DEF before
  <1>3. first.event.by = c
    BY <1>2 DEF SentBefore
  <1> HIDE DEF i
  <1>4. PICK k \in i..(j - 1) : Follows(frames[s][k].event, last.event)
    BY <1>2, <1>3 DEF SentInv, Gapless
  <1>5. k \in 1..(j - 1) /\ k \in 1..Len(frames[s])
    BY <1>1, <1>2
  <1>6. FrameOwn(frames[s][k]) /\ FrameOwn(last)
    BY <1>5 DEF SentInv, FramesOwn
  <1>7. /\ frames[s][k].event.by = c /\ frames[s][k].event.n = n - 1
        /\ frames[s][k].event = emitted[c][n - 1].event
        /\ n \in 1..Len(emitted[c]) /\ last.event = emitted[c][n].event
    <2>1. frames[s][k].event.by = c /\ frames[s][k].event.n = n - 1
      BY <1>4 DEF Follows
    <2>2. QED
      BY <1>6, <2>1 DEF FrameOwn
  <1> HIDE DEF n, before, first, last
  <1>8. /\ emitted[c][n].event.type = "screener_completed"
        /\ n > 1 /\ emitted[c][n - 1].event.type = "screener_started"
        /\ "candidate_count" \in DOMAIN emitted[c][n].event.payload
        /\ emitted[c][n].event.payload.candidate_count
             \leq emitted[c][n - 1].event.payload.universe_size
    <2>1. emitted[c][n].event.type = "screener_completed"
      BY <1>7 DEF last
    <2>2. QED
      BY <1>7, <2>1 DEF Pairs
  <1>9. "universe_size" \in DOMAIN emitted[c][n - 1].event.payload
    <2>1. n - 1 \in 1..Len(emitted[c])
      BY <1>1, <1>7, <1>8
    <2>2. QED
      BY <1>8, <2>1 DEF Pairs
  <1>10. k = i
    <2>1. k \in before
      BY <1>5, <1>7, <1>8 DEF SentBefore, before
    <2>2. QED
      BY <1>1, <1>2, <1>4, <1>5, <2>1
  <1>11. first.event = emitted[c][n - 1].event /\ FrameOwn(first)
    BY <1>6, <1>7, <1>10 DEF first
  <1>12. first.sent.fields.universe_size = first.event.payload.universe_size
    BY <1>8, <1>9, <1>11, ScreenEventsPublic DEF FrameOwn
  <1>13. last.sent.fields.candidate_count = last.event.payload.candidate_count
    BY <1>6, <1>7, <1>8, ScreenEventsPublic DEF FrameOwn
  <1>14. QED
    BY <1>7, <1>8, <1>11, <1>12, <1>13 DEF first, last, i, before

\* Whoever watches sees a screen as it is answered, on any number of streams and whatever
\* else is told meanwhile: an answer was announced by a start with the size of its universe
\* and right after it by a completion with the number of its candidates; and in what a
\* stream that has missed nothing was sent of a caller, a completion follows directly on its
\* start, with no more candidates than that had.
THEOREM ScreensAlwaysPublished == ScoreSpec => []ScreensPublished
  <1>1. RsInit => SentInv
    BY SentBegins DEF RsInit, ScreenInit
  <1>2. StandingInv /\ SentInv /\ [ScoreNext]_rsVars => SentInv'
    BY StepsOfTheBus, SentStays DEF StandingInv
  <1>3. ASSUME StandingInv, SentInv
        PROVE  ScreensPublished
    <2>1. Calls /\ Standing /\ BusInv
      BY <1>3 DEF StandingInv
    <2>2. ASSUME NEW c \in Callers, op[c].pc = "answered", op[c].kind = "screen", op[c].answer.ok
          PROVE  Finished(emitted[c], op[c].answer.size, Cardinality(op[c].answer.candidates))
      BY <2>1, <2>2, StandsOn DEF ScreenStands
    <2>3. ASSUME NEW c \in Callers, NEW s \in Streams, missed[s] = {}, NEW j \in DOMAIN frames[s],
                 frames[s][j].event.by = c, frames[s][j].event.type = "screener_completed",
                 SentBefore(c, s, j) # {}
          PROVE  LET first == frames[s][Max(SentBefore(c, s, j))]
                     last  == frames[s][j]
                 IN  /\ first.event.type = "screener_started"
                     /\ last.sent.fields.candidate_count \leq first.sent.fields.universe_size
      <3>1. j \in 1..Len(frames[s])
        BY <2>1, OwnElements DEF BusInv, BusShape, BusTypes, IsSeq
      <3>2. Pairs(emitted[c])
        BY <2>1 DEF Standing
      <3>3. QED
        BY <1>3, <2>1, <2>3, <3>1, <3>2, PairSent
    <2>4. QED
      BY <2>2, <2>3 DEF ScreensPublished, Finished
  <1>4. QED
    BY <1>1, <1>2, <1>3, StandingAlways, PTL DEF ScoreSpec

=============================================================================
