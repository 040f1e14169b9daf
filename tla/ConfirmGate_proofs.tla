------------------------- MODULE ConfirmGate_proofs -------------------------
(***************************************************************************)
(* Proofs about the confirm gate, for any number of decisions and of       *)
(* concurrent requests: its types; what it keeps true of the journal and   *)
(* of the broker's orders; and what it promises when each decision id is   *)
(* decided once (MaxAttempts = 1).  That last assumption is needed and     *)
(* nothing in the journal enforces it: a sweep flips the latest row of an  *)
(* id, whichever is due.                                                   *)
(***************************************************************************)
EXTENDS ConfirmGate, SequenceTheorems, FiniteSetTheorems, TLAPS

\* A patched entry row leaves a well-typed journal of the same length.
LEMMA SetRowType ==
    ASSUME NEW s \in Seq(EntryRow), NEW i \in DOMAIN s, NEW row \in EntryRow
    PROVE  /\ [s EXCEPT ![i] = row] \in Seq(EntryRow)
           /\ DOMAIN [s EXCEPT ![i] = row] = DOMAIN s
           /\ Len([s EXCEPT ![i] = row]) = Len(s)
           /\ \A j \in DOMAIN s :
                [s EXCEPT ![i] = row][j] = IF j = i THEN row ELSE s[j]
  <1>1. i \in 1..Len(s) /\ DOMAIN s = 1..Len(s)
    BY LenProperties
  <1>2. QED
    BY <1>1, ExceptSeq, LenProperties

\* An appended row keeps the others where they are.
LEMMA AppendRow ==
    ASSUME NEW S, NEW s \in Seq(S), NEW x \in S
    PROVE  /\ Append(s, x) \in Seq(S)
           /\ DOMAIN s = 1..Len(s)
           /\ Len(s) \in Nat
           /\ DOMAIN Append(s, x) = 1..(Len(s) + 1)
           /\ \A j \in DOMAIN s : j \in DOMAIN Append(s, x) /\ Append(s, x)[j] = s[j]
           /\ Append(s, x)[Len(s) + 1] = x
           /\ \A j \in DOMAIN Append(s, x) : j \in DOMAIN s \/ j = Len(s) + 1
  BY AppendProperties, LenProperties

\* The events a request is left with are a sequence of events.
LEMMA EventSeqs ==
    ASSUME NEW d \in Decisions
    PROVE  /\ Msg("entry_journaled", d) \in Event
           /\ Msg("reject_journaled", d) \in Event
           /\ Msg("expire_journaled", d) \in Event
           /\ Msg("decision_made", d) \in Event
           /\ Msg("awaiting_confirm", d) \in Event
           /\ Msg("order_sent", d) \in Event
           /\ <<Msg("reject_journaled", d)>> \in Seq(Event)
           /\ <<Msg("order_sent", d)>> \in Seq(Event)
           /\ <<Msg("entry_journaled", d), Msg("decision_made", d),
                Msg("awaiting_confirm", d)>> \in Seq(Event)
  <1>1. \A type \in EventTypes : Msg(type, d) \in Event
    BY DEF Msg, Event
  <1>2. /\ Msg("entry_journaled", d) \in Event
        /\ Msg("reject_journaled", d) \in Event
        /\ Msg("expire_journaled", d) \in Event
        /\ Msg("decision_made", d) \in Event
        /\ Msg("awaiting_confirm", d) \in Event
        /\ Msg("order_sent", d) \in Event
    BY <1>1, Zenon DEF EventTypes
  <1>3. \A x, y, z \in Event : <<x>> \in Seq(Event) /\ <<x, y, z>> \in Seq(Event)
    OBVIOUS
  <1>4. QED
    BY <1>2, <1>3

\* The requests the actions leave behind have their type.
LEMMA RequestTypes ==
    /\ Idle \in Requests
    /\ Refused \in Requests
    /\ \A out \in Seq(Event) : Emitting(out) \in Requests
    /\ now \in Time => Sweeping \in Requests
    /\ now \in Time => \A d \in Decisions : Deciding(d) \in Requests
  <1>1. <<>> \in Seq(Event) /\ 0 \in Time
    BY BoundsAssumption DEF Time
  <1>2. QED
    BY <1>1 DEF Idle, Refused, Emitting, Sweeping, Deciding, Requests

\* Field by field, what those requests hold.
LEMMA RequestFields ==
    /\ Idle.pc = "idle" /\ Idle.out = <<>>
    /\ Refused.pc = "refused" /\ Refused.out = <<>>
    /\ \A out : Emitting(out).pc = "emitting" /\ Emitting(out).out = out
    /\ Sweeping.pc = "sweeping" /\ Sweeping.at = now /\ Sweeping.out = <<>>
    /\ \A d : /\ Deciding(d).pc = "deciding"
             /\ Deciding(d).dec = d
             /\ Deciding(d).at = now
             /\ Deciding(d).out = <<>>
  BY DEF Idle, Refused, Emitting, Sweeping, Deciding

\* Rows as the actions make them.
LEMMA RowTypes ==
    /\ \A d \in Decisions, t \in Time, s \in Sizings \cup {"fits"} : NewEntry(d, t, s) \in EntryRow
    /\ now \in Time =>
         \A row \in EntryRow, order \in Nat, auto \in BOOLEAN :
            Filled(row, order, auto) \in EntryRow
    /\ \A row \in EntryRow, status \in Statuses :
            WithStatus(row, status) \in EntryRow
  <1>1. 0 \in Time
    BY BoundsAssumption DEF Time
  <1>2. QED
    BY <1>1 DEF NewEntry, Filled, WithStatus, EntryRow, Statuses

-----------------------------------------------------------------------------
\* The types hold at the start.
LEMMA InitType == Init => TypeOK
  <1>1. 0 \in Time
    BY BoundsAssumption DEF Time
  <1> SUFFICES ASSUME Init PROVE TypeOK
    OBVIOUS
  <1>2. /\ req \in [Workers -> Requests]
        /\ \A w \in Workers : req[w].pc = "idle"
    BY RequestTypes, RequestFields DEF Init, JournalInit
  <1>3. QED
    BY <1>1, <1>2 DEF Init, JournalInit, TypeOK

\* One more row in a table that is counted per decision.
LEMMA AddRowType ==
    ASSUME NEW table \in [Decisions -> Nat], NEW d \in Decisions
    PROVE  /\ AddRow(table, d) \in [Decisions -> Nat]
           /\ AddRow(table, d)[d] = table[d] + 1
           /\ \A c \in Decisions : c # d => AddRow(table, d)[c] = table[c]
  BY DEF AddRow

\* One request moves on, the others stay.
LEMMA SetReq ==
    ASSUME TypeOK, NEW w \in Workers, NEW r \in Requests,
           r.pc = "deciding" => r.dec \in Decisions,
           req' = [req EXCEPT ![w] = r]
    PROVE  /\ req' \in [Workers -> Requests]
           /\ \A v \in Workers : req'[v].pc = "deciding" => req'[v].dec \in Decisions
           /\ req'[w] = r
           /\ \A v \in Workers : v # w => req'[v] = req[v]
  BY DEF TypeOK

\* One row is updated, the others stay.
LEMMA SetRowFacts ==
    ASSUME TypeOK, NEW i \in DOMAIN entries, NEW row \in EntryRow, SetRow(i, row)
    PROVE  /\ entries' \in Seq(EntryRow)
           /\ DOMAIN entries' = DOMAIN entries
           /\ entries'[i] = row
           /\ \A j \in DOMAIN entries : j # i => entries'[j] = entries[j]
  BY SetRowType DEF SetRow, TypeOK

\* Rows read from the journal have their type.
LEMMA EntryType ==
    ASSUME TypeOK, NEW i \in DOMAIN entries
    PROVE  /\ entries[i] \in EntryRow
           /\ entries[i].dec \in Decisions
           /\ entries[i].created \in Time
           /\ entries[i].status \in Statuses
           /\ entries[i].fill \in Nat
           /\ \A status \in Statuses : WithStatus(entries[i], status) \in EntryRow
  <1>1. entries[i] \in EntryRow
    BY ElementOfSeq, LenProperties DEF TypeOK
  <1>2. QED
    BY <1>1, RowTypes DEF EntryRow

\* The rows a sweep leaves, and the requests it can leave.
LEMMA SweepFacts ==
    ASSUME TypeOK, NEW w \in Workers, Sweep(w)
    PROVE  /\ entries' \in Seq(EntryRow)
           /\ DOMAIN entries' = DOMAIN entries
           /\ \A j \in DOMAIN entries :
                \/ entries'[j] = entries[j]
                \/ /\ entries'[j] = WithStatus(entries[j], "expired")
                   /\ IsLatest(entries[j].dec, j)
                   /\ \E i \in Due(req[w].at) : entries[i].dec = entries[j].dec
           /\ Due(req[w].at) \subseteq DOMAIN entries
           /\ IsFiniteSet(Due(req[w].at))
           /\ \E out \in Seq(Event) :
                /\ req' = [req EXCEPT ![w] = Emitting(out)]
                /\ \A k \in DOMAIN out : \E i \in Due(req[w].at) :
                      out[k] = Msg("expire_journaled", entries[i].dec)
  <1> DEFINE due == Due(req[w].at)
             swept == {entries[i].dec : i \in due}
             n == Cardinality(due)
  <1>1. DOMAIN entries = 1..Len(entries) /\ Len(entries) \in Nat
    BY LenProperties DEF TypeOK
  <1>2. due \subseteq DOMAIN entries
    BY DEF Due
  <1>3. IsFiniteSet(due) /\ n \in Nat
    <2>1. IsFiniteSet(1..Len(entries))
      BY <1>1, FS_Interval
    <2>2. IsFiniteSet(due)
      BY <1>1, <1>2, <2>1, FS_Subset
    <2>3. QED
      BY <2>2, FS_CardinalityType
  <1>4. entries' = [j \in DOMAIN entries |->
                     IF entries[j].dec \in swept /\ IsLatest(entries[j].dec, j)
                     THEN WithStatus(entries[j], "expired")
                     ELSE entries[j]]
    BY DEF Sweep
  <1>5. \A j \in DOMAIN entries : entries'[j] \in EntryRow
    BY <1>4, EntryType DEF Statuses
  <1>6. entries' \in Seq(EntryRow)
    <2>1. entries' \in [1..Len(entries) -> EntryRow]
      BY <1>1, <1>4, <1>5
    <2>2. QED
      BY <1>1, <2>1, SeqDef
  <1>7. \E out \in Seq(Event) :
          /\ req' = [req EXCEPT ![w] = Emitting(out)]
          /\ \A k \in DOMAIN out : \E i \in due :
                out[k] = Msg("expire_journaled", entries[i].dec)
    <2>1. PICK order \in [1..n -> due] :
            req' = [req EXCEPT ![w] = Emitting(
                       [k \in DOMAIN order |->
                          Msg("expire_journaled", entries[order[k]].dec)])]
      BY DEF Sweep
    <2> DEFINE out == [k \in DOMAIN order |->
                         Msg("expire_journaled", entries[order[k]].dec)]
    <2>2. \A k \in 1..n : order[k] \in due /\ entries[order[k]].dec \in Decisions
      BY <2>1, <1>2, EntryType
    <2>3. out \in [1..n -> Event]
      BY <2>1, <2>2, EventSeqs
    <2>4. out \in Seq(Event)
      BY <2>3, <1>3, SeqDef
    <2>5. \A k \in DOMAIN out : \E i \in due :
             out[k] = Msg("expire_journaled", entries[i].dec)
      BY <2>1, <2>2
    <2>6. QED
      BY <2>1, <2>4, <2>5
  <1>8. QED
    BY <1>2, <1>3, <1>4, <1>6, <1>7

\* A request ends without another word.
QuietStep(w) ==
    /\ req' = [req EXCEPT ![w] = Idle]
    /\ UNCHANGED <<journal, brokerVars, emitted, attempts, now>>

\* The next request after an emission or a return.
LEMMA RequestFacts ==
    ASSUME TypeOK, NEW w \in Workers, Request(w)
    PROVE  /\ UNCHANGED <<journal, brokerVars, attempts, now>>
           /\ emitted' \subseteq Event
           /\ \E r \in Requests :
                /\ req' = [req EXCEPT ![w] = r]
                /\ r.pc \in {"idle", "emitting"}
                /\ \A k \in DOMAIN r.out : \E m \in DOMAIN req[w].out :
                      r.out[k] = req[w].out[m]
           /\ \A e \in emitted' \ emitted : \E m \in DOMAIN req[w].out :
                e = req[w].out[m]
  <1> USE DEF TypeOK, journal, brokerVars, exitRows
  <1>1. CASE Emit(w)
    <2> DEFINE r == [req[w] EXCEPT !.out = Tail(req[w].out)]
    <2>1. req[w] \in Requests /\ req[w].out \in Seq(Event) /\ req[w].out # <<>>
      BY <1>1 DEF Emit, Requests
    <2>2. /\ Head(req[w].out) = req[w].out[1] /\ 1 \in DOMAIN req[w].out
          /\ Head(req[w].out) \in Event
          /\ Tail(req[w].out) \in Seq(Event)
          /\ \A k \in DOMAIN Tail(req[w].out) :
                k + 1 \in DOMAIN req[w].out /\ Tail(req[w].out)[k] = req[w].out[k + 1]
      BY <2>1, HeadTailProperties, ElementOfSeq, LenProperties, EmptySeq
    <2>3. r \in Requests /\ r.pc = "emitting" /\ r.out = Tail(req[w].out)
      BY <1>1, <2>1, <2>2 DEF Emit, Requests
    <2>4. req' = [req EXCEPT ![w] = r]
      BY <1>1 DEF Emit
    <2>5. emitted' \in {emitted, emitted \cup {Head(req[w].out)}}
      BY <1>1 DEF Emit, Publish
    <2>6. UNCHANGED <<journal, brokerVars, attempts, now>>
      BY <1>1 DEF Emit
    <2>7. \A k \in DOMAIN r.out : \E m \in DOMAIN req[w].out :
             r.out[k] = req[w].out[m]
      BY <2>2, <2>3
    <2>8. emitted' \subseteq Event
          /\ \A e \in emitted' \ emitted : e = req[w].out[1]
      BY <2>2, <2>5
    <2> HIDE DEF r
    <2>9. QED
      BY <2>2, <2>3, <2>4, <2>6, <2>7, <2>8
  <1>2. ASSUME Return(w) \/ Crash(w) PROVE QuietStep(w)
    BY <1>2 DEF Return, Crash, QuietStep
  <1>3. ASSUME QuietStep(w)
        PROVE  /\ UNCHANGED <<journal, brokerVars, attempts, now>>
               /\ emitted' \subseteq Event
               /\ \E r \in Requests :
                    /\ req' = [req EXCEPT ![w] = r]
                    /\ r.pc \in {"idle", "emitting"}
                    /\ \A k \in DOMAIN r.out : \E m \in DOMAIN req[w].out :
                          r.out[k] = req[w].out[m]
               /\ \A e \in emitted' \ emitted : \E m \in DOMAIN req[w].out :
                    e = req[w].out[m]
    <2>1. /\ Idle \in Requests /\ Idle.pc = "idle"
          /\ \A k \in DOMAIN Idle.out : FALSE
      BY RequestTypes, RequestFields
    <2>2. emitted' = emitted /\ req' = [req EXCEPT ![w] = Idle]
          /\ UNCHANGED <<journal, brokerVars, attempts, now>>
      BY <1>3 DEF QuietStep
    <2>3. QED
      BY <2>1, <2>2
  <1>4. QED
    BY <1>1, <1>2, <1>3 DEF Request

\* Every action of the gate keeps the types.
LEMMA NextType == TypeOK /\ [Next]_vars => TypeOK'
  <1> SUFFICES ASSUME TypeOK, [Next]_vars PROVE TypeOK'
    OBVIOUS
  <1> USE DEF journal, brokerVars, exitRows
  <1>1. ASSUME NEW w \in Workers, NEW d \in Decisions, DecideStart(w, d)
        PROVE  TypeOK'
    <2>1. Deciding(d) \in Requests /\ Deciding(d).dec = d
      BY RequestTypes, RequestFields DEF TypeOK
    <2>2. req' = [req EXCEPT ![w] = Deciding(d)]
      BY <1>1 DEF DecideStart
    <2>3. attempts' \in [Decisions -> Nat]
      BY <1>1 DEF DecideStart, TypeOK
    <2>4. QED
      BY <1>1, <2>1, <2>2, <2>3, SetReq DEF DecideStart, TypeOK
  <1>2. ASSUME NEW w \in Workers, NEW s \in Sizings, DecideEnter(w, s)
        PROVE  TypeOK'
    <2> DEFINE d == req[w].dec
               r == Emitting(<<Msg("entry_journaled", d), Msg("decision_made", d),
                               Msg("awaiting_confirm", d)>>)
    <2>1. d \in Decisions /\ req[w].at \in Time
      BY <1>2 DEF DecideEnter, TypeOK, Requests
    <2>. Capped(s) \in Sizings \cup {"fits"}
      BY DEF Capped
    <2>2. entries' \in Seq(EntryRow)
      BY <1>2, <2>1, RowTypes, AppendRow DEF DecideEnter, TypeOK
    <2>3. r \in Requests /\ r.pc = "emitting"
      BY <2>1, RequestTypes, RequestFields, EventSeqs
    <2>. costs' \in [Decisions -> Nat]
      BY <1>2, <2>1, AddRowType DEF DecideEnter, TypeOK
    <2>4. req' = [req EXCEPT ![w] = r]
      BY <1>2 DEF DecideEnter
    <2>5. QED
      BY <1>2, <2>2, <2>3, <2>4, SetReq DEF DecideEnter, TypeOK
  <1>3. ASSUME NEW w \in Workers, NEW parsed \in BOOLEAN, DecideReject(w, parsed)
        PROVE  TypeOK'
    <2> DEFINE d == req[w].dec
               out == <<Msg("reject_journaled", d)>>
                      \o IF parsed THEN <<Msg("decision_made", d)>> ELSE <<>>
    <2>1. d \in Decisions
      BY <1>3 DEF DecideReject, TypeOK
    <2>2. out \in Seq(Event)
      BY <2>1, EventSeqs
    <2>3. Emitting(out) \in Requests /\ Emitting(out).pc = "emitting"
      BY <2>2, RequestTypes, RequestFields
    <2>4. req' = [req EXCEPT ![w] = Emitting(out)]
      BY <1>3 DEF DecideReject
    <2>. costs' \in [Decisions -> Nat] /\ llmRejects' \in [Decisions -> Nat]
      BY <1>3, <2>1, AddRowType DEF DecideReject, TypeOK
    <2>5. QED
      BY <1>3, <2>3, <2>4, SetReq DEF DecideReject, TypeOK
  <1>4. ASSUME NEW w \in Workers, NEW d \in Decisions, Confirm(w, d)
        PROVE  TypeOK'
    <2>1. /\ Append(orders, d) \in Seq(Decisions)
          /\ lost \cup {Len(orders) + 1} \subseteq DOMAIN Append(orders, d)
          /\ Len(orders) + 1 \in Nat
      BY AppendRow DEF TypeOK
    <2>2. CASE ConfirmFills(d, FALSE) /\ req' = [req EXCEPT ![w] = Emitting(<<Msg("order_sent", d)>>)]
      <3>1. PICK i \in DOMAIN entries : SetRow(i, Filled(entries[i], Len(orders) + 1, FALSE))
        BY <2>2 DEF ConfirmFills
      <3>2. Filled(entries[i], Len(orders) + 1, FALSE) \in EntryRow
        BY <2>1, EntryType, RowTypes DEF TypeOK
      <3>3. entries' \in Seq(EntryRow)
        BY <3>1, <3>2, SetRowFacts
      <3>4. Emitting(<<Msg("order_sent", d)>>) \in Requests
        BY EventSeqs, RequestTypes
      <3>5. QED
        BY <1>4, <2>1, <2>2, <3>3, <3>4, SetReq, RequestFields
           DEF Confirm, ConfirmFills, TypeOK
    <2>3. CASE ConfirmRolledBack(d) /\ req' = [req EXCEPT ![w] = Refused]
      BY <1>4, <2>1, <2>3, SetReq, RequestTypes, RequestFields
         DEF Confirm, ConfirmRolledBack, TypeOK
    <2>4. QED
      BY <1>4, <2>2, <2>3 DEF Confirm
  <1>5. ASSUME NEW w \in Workers, NEW d \in Decisions, Reject(w, d)
        PROVE  TypeOK'
    <2>1. PICK i \in DOMAIN entries : SetRow(i, WithStatus(entries[i], "rejected"))
      BY <1>5 DEF Reject
    <2>2. entries' \in Seq(EntryRow)
      BY <2>1, EntryType, SetRowFacts DEF Statuses
    <2>3. Emitting(<<Msg("reject_journaled", d)>>) \in Requests
      BY EventSeqs, RequestTypes
    <2>4. rejects' \in [Decisions -> Nat]
      BY <1>5, AddRowType DEF Reject, TypeOK
    <2>5. req' = [req EXCEPT ![w] = Emitting(<<Msg("reject_journaled", d)>>)]
      BY <1>5 DEF Reject
    <2>6. QED
      BY <1>5, <2>2, <2>3, <2>4, <2>5, SetReq, RequestFields DEF Reject, TypeOK
  <1>6. ASSUME NEW w \in Workers, Refuse(w)
        PROVE  TypeOK'
    BY <1>6, SetReq, RequestTypes, RequestFields DEF Refuse, TypeOK
  <1>7. ASSUME NEW w \in Workers, SweepStart(w)
        PROVE  TypeOK'
    BY <1>7, SetReq, RequestTypes, RequestFields DEF SweepStart, TypeOK
  <1>8. ASSUME NEW w \in Workers, Sweep(w)
        PROVE  TypeOK'
    <2>1. PICK out \in Seq(Event) : req' = [req EXCEPT ![w] = Emitting(out)]
      BY <1>8, SweepFacts
    <2>2. Emitting(out) \in Requests /\ Emitting(out).pc = "emitting"
      BY RequestTypes, RequestFields
    <2>3. \A d \in Decisions :
             Cardinality({i \in Due(req[w].at) : entries[i].dec = d}) \in Nat
      BY <1>8, SweepFacts, FS_Subset, FS_CardinalityType
    <2>4. expires' \in [Decisions -> Nat]
      <3>1. \A d \in Decisions :
               expires[d] + Cardinality({i \in Due(req[w].at) : entries[i].dec = d})
               \in Nat
        <4>1. ASSUME NEW d \in Decisions, NEW c \in Nat
              PROVE  expires[d] + c \in Nat
          BY DEF TypeOK
        <4>2. QED
          BY <2>3, <4>1
      <3>2. QED
        BY <1>8, <3>1 DEF Sweep
    <2>5. QED
      BY <1>8, <2>1, <2>2, <2>4, SweepFacts, SetReq DEF Sweep, TypeOK
  <1>9. ASSUME NEW w \in Workers, Request(w)
        PROVE  TypeOK'
    BY <1>9, RequestFacts, SetReq DEF TypeOK
  <1>10. CASE Tick
    BY <1>10, BoundsAssumption DEF Tick, Time, TypeOK
  <1>11. CASE UNCHANGED vars
    BY <1>11 DEF vars, TypeOK
  <1>12. QED
    BY <1>1, <1>2, <1>3, <1>4, <1>5, <1>6, <1>7, <1>8, <1>9, <1>10, <1>11
       DEF Next, Decider, Gate

\* The type invariant of the confirm gate.
THEOREM TypeCorrect == Spec => []TypeOK
  BY InitType, NextType, PTL DEF Spec

-----------------------------------------------------------------------------
\* The journal and the orders

\* Orders are accounted for.  OrdersAccounted alone is not inductive: confirm
\* overwrites the fill of the row it finds pending, so that row must have none.
PendingUnfilled ==
    \A i \in DOMAIN entries :
        entries[i].status = "pending_confirm" => entries[i].fill = 0

OrdersInv == TypeOK /\ PendingUnfilled /\ OrdersAccounted

\* What every step but a confirm does to fills and orders: nothing.
KeepsFills ==
    /\ UNCHANGED brokerVars
    /\ DOMAIN entries \subseteq DOMAIN entries'
    /\ \A i \in DOMAIN entries :
          /\ entries'[i].dec = entries[i].dec
          /\ entries'[i].fill = entries[i].fill
          /\ entries'[i].status = "pending_confirm" =>
                entries[i].status = "pending_confirm"
    /\ \A i \in DOMAIN entries' \ DOMAIN entries : entries'[i].fill = 0

\* Such a step keeps the orders accounted for.
LEMMA KeepsFillsStep ==
    ASSUME PendingUnfilled, OrdersAccounted, KeepsFills
    PROVE  PendingUnfilled' /\ OrdersAccounted'
  <1>1. orders' = orders /\ lost' = lost
    BY DEF KeepsFills, brokerVars
  <1>2. PendingUnfilled'
    BY DEF KeepsFills, PendingUnfilled
  <1>3. ASSUME NEW o \in DOMAIN orders \ lost
        PROVE  \E i \in DOMAIN entries' : /\ entries'[i].fill = o
                                          /\ entries'[i].dec = orders[o]
    BY <1>3 DEF KeepsFills, OrdersAccounted
  <1>4. ASSUME NEW i \in DOMAIN entries', entries'[i].fill # 0
        PROVE  /\ entries'[i].fill \in DOMAIN orders \ lost
               /\ \A j \in DOMAIN entries' :
                     entries'[j].fill = entries'[i].fill => j = i
    BY <1>4 DEF KeepsFills, OrdersAccounted
  <1>5. QED
    BY <1>1, <1>2, <1>3, <1>4 DEF OrdersAccounted

\* A new status leaves the other fields of a row alone.
LEMMA WithStatusFields ==
    ASSUME NEW row \in EntryRow, NEW status
    PROVE  /\ WithStatus(row, status).dec = row.dec
           /\ WithStatus(row, status).created = row.created
           /\ WithStatus(row, status).fill = row.fill
           /\ WithStatus(row, status).status = status
  BY DEF WithStatus, EntryRow

\* A confirmed row keeps its decision and has the order as its fill.
LEMMA FilledFields ==
    ASSUME NEW row \in EntryRow, NEW order, NEW auto
    PROVE  /\ Filled(row, order, auto).dec = row.dec
           /\ Filled(row, order, auto).created = row.created
           /\ Filled(row, order, auto).fill = order
           /\ Filled(row, order, auto).status = "confirmed"
  BY DEF Filled, EntryRow

\* A confirm that fills: the new order goes to the row it found pending.
LEMMA FillsStep ==
    ASSUME TypeOK, PendingUnfilled, OrdersAccounted,
           NEW d \in Decisions, NEW auto \in BOOLEAN, ConfirmFills(d, auto)
    PROVE  PendingUnfilled' /\ OrdersAccounted'
  <1> DEFINE o == Len(orders) + 1
  <1>1. PICK i \in DOMAIN entries : /\ IsPending(d, i)
                                    /\ SetRow(i, Filled(entries[i], o, auto))
    BY DEF ConfirmFills
  <1>2. /\ orders \in Seq(Decisions)
        /\ o \in Nat /\ o # 0 /\ o \notin DOMAIN orders
        /\ DOMAIN orders' = DOMAIN orders \cup {o}
        /\ orders'[o] = d
        /\ \A p \in DOMAIN orders : orders'[p] = orders[p]
        /\ lost' = lost /\ lost \subseteq DOMAIN orders
    <2>1. orders \in Seq(Decisions) /\ lost \subseteq DOMAIN orders
      BY DEF TypeOK
    <2>2. orders' = Append(orders, d) /\ lost' = lost
      BY DEF ConfirmFills
    <2>3. QED
      BY <2>1, <2>2, AppendRow
  <1>3. /\ DOMAIN entries' = DOMAIN entries
        /\ entries'[i] = Filled(entries[i], o, auto)
        /\ \A j \in DOMAIN entries : j # i => entries'[j] = entries[j]
    BY <1>1, <1>2, EntryType, RowTypes, SetRowFacts DEF TypeOK
  <1>4. /\ entries'[i].fill = o
        /\ entries'[i].dec = d
        /\ entries'[i].status = "confirmed"
        /\ entries[i].fill = 0
    BY <1>1, <1>3, EntryType, FilledFields DEF IsPending, IsLatest, PendingUnfilled
  <1> HIDE DEF o
  <1>5. PendingUnfilled'
    BY <1>3, <1>4 DEF PendingUnfilled
  <1>6. ASSUME NEW p \in DOMAIN orders' \ lost'
        PROVE  \E j \in DOMAIN entries' : /\ entries'[j].fill = p
                                          /\ entries'[j].dec = orders'[p]
    <2>1. CASE p = o
      BY <2>1, <1>2, <1>3, <1>4
    <2>2. CASE p # o
      <3>1. p \in DOMAIN orders \ lost /\ orders'[p] = orders[p]
        BY <1>6, <2>2, <1>2
      <3>2. p # 0
        BY <3>1, <1>2, LenProperties
      <3>3. PICK j \in DOMAIN entries : /\ entries[j].fill = p
                                        /\ entries[j].dec = orders[p]
        BY <3>1 DEF OrdersAccounted
      <3>4. j # i
        BY <3>2, <3>3, <1>4
      <3>5. QED
        BY <3>1, <3>3, <3>4, <1>3
    <2>3. QED
      BY <2>1, <2>2
  <1>7. ASSUME NEW j \in DOMAIN entries', entries'[j].fill # 0
        PROVE  /\ entries'[j].fill \in DOMAIN orders' \ lost'
               /\ \A k \in DOMAIN entries' :
                     entries'[k].fill = entries'[j].fill => k = j
    <2>1. \A k \in DOMAIN entries : k # i /\ entries[k].fill # 0 =>
             entries[k].fill \in DOMAIN orders \ lost
      BY DEF OrdersAccounted
    <2>2. CASE j = i
      BY <2>1, <2>2, <1>2, <1>3, <1>4
    <2>3. CASE j # i
      BY <2>1, <2>3, <1>7, <1>2, <1>3, <1>4 DEF OrdersAccounted
    <2>4. QED
      BY <2>2, <2>3
  <1>8. QED
    BY <1>5, <1>6, <1>7 DEF OrdersAccounted

\* A confirm that is rolled back: the order is lost, no row changes.
LEMMA RolledBackStep ==
    ASSUME TypeOK, PendingUnfilled, OrdersAccounted,
           NEW d \in Decisions, ConfirmRolledBack(d)
    PROVE  PendingUnfilled' /\ OrdersAccounted'
  <1>1. /\ orders \in Seq(Decisions) /\ lost \subseteq DOMAIN orders
        /\ orders' = Append(orders, d)
        /\ lost' = lost \cup {Len(orders) + 1}
        /\ entries' = entries
    BY DEF ConfirmRolledBack, TypeOK, journal
  <1>2. /\ DOMAIN orders' \ lost' = DOMAIN orders \ lost
        /\ \A p \in DOMAIN orders : orders'[p] = orders[p]
    BY <1>1, AppendRow
  <1>3. QED
    BY <1>1, <1>2 DEF PendingUnfilled, OrdersAccounted

\* Every other step keeps fills and orders.
LEMMA OtherSteps ==
    ASSUME TypeOK, [Next]_vars,
           \A w \in Workers, d \in Decisions : ~Confirm(w, d)
    PROVE  KeepsFills
  <1> USE DEF KeepsFills
  <1>1. CASE UNCHANGED <<entries, brokerVars>>
    BY <1>1
  <1>2. ASSUME NEW w \in Workers, NEW s \in Sizings, DecideEnter(w, s)
        PROVE  KeepsFills
    <2> DEFINE row == NewEntry(req[w].dec, req[w].at, Capped(s))
    <2>1. row \in EntryRow /\ row.fill = 0
      <3>1. req[w].dec \in Decisions /\ req[w].at \in Time
        BY <1>2 DEF DecideEnter, TypeOK, Requests
      <3>2. Capped(s) \in Sizings \cup {"fits"}
        BY DEF Capped
      <3>3. QED
        BY <3>1, <3>2, RowTypes DEF NewEntry
    <2>2. /\ entries \in Seq(EntryRow)
          /\ entries' = Append(entries, row)
          /\ UNCHANGED brokerVars
      BY <1>2 DEF DecideEnter, TypeOK
    <2> HIDE DEF row
    <2>3. QED
      BY <2>1, <2>2, AppendRow
  <1>3. ASSUME NEW w \in Workers, NEW d \in Decisions, Reject(w, d)
        PROVE  KeepsFills
    <2>1. PICK i \in DOMAIN entries : SetRow(i, WithStatus(entries[i], "rejected"))
      BY <1>3 DEF Reject
    <2>2. /\ DOMAIN entries' = DOMAIN entries
          /\ entries'[i] = WithStatus(entries[i], "rejected")
          /\ \A j \in DOMAIN entries : j # i => entries'[j] = entries[j]
      BY <2>1, EntryType, SetRowFacts DEF Statuses
    <2>3. entries[i] \in EntryRow
      BY EntryType
    <2>4. UNCHANGED brokerVars
      BY <1>3 DEF Reject
    <2>5. QED
      BY <2>2, <2>3, <2>4, WithStatusFields
  <1>4. ASSUME NEW w \in Workers, Sweep(w)
        PROVE  KeepsFills
    <2>1. UNCHANGED brokerVars
      BY <1>4 DEF Sweep
    <2>2. QED
      BY <1>4, <2>1, SweepFacts, EntryType, WithStatusFields
  <1>5. ASSUME NEW w \in Workers, Request(w)
        PROVE  UNCHANGED <<entries, brokerVars>>
    BY <1>5, RequestFacts DEF journal
  <1> USE DEF journal
  <1>6. QED
    BY <1>1, <1>2, <1>3, <1>4, <1>5
       DEF Next, Decider, DecideStart, DecideReject, Gate, Refuse, SweepStart,
           Tick, vars

\* Every order the broker took is the fill of exactly one entry row of its
\* decision or was lost with a confirm that was rolled back, also when
\* decision ids repeat.
THEOREM EveryOrderAccounted == Spec => []OrdersAccounted
  <1>1. Init => OrdersInv
    <2>1. ASSUME Init PROVE entries = <<>> /\ orders = <<>>
      BY <2>1 DEF Init, JournalInit
    <2>2. QED
      BY <2>1, InitType DEF OrdersInv, PendingUnfilled, OrdersAccounted
  <1>2. OrdersInv /\ [Next]_vars => OrdersInv'
    <2> SUFFICES ASSUME OrdersInv, [Next]_vars PROVE OrdersInv'
      OBVIOUS
    <2>1. TypeOK /\ PendingUnfilled /\ OrdersAccounted /\ TypeOK'
      BY NextType DEF OrdersInv
    <2>2. ASSUME NEW w \in Workers, NEW d \in Decisions, Confirm(w, d)
          PROVE  PendingUnfilled' /\ OrdersAccounted'
      BY <2>1, <2>2, FillsStep, RolledBackStep DEF Confirm
    <2>3. CASE \A w \in Workers, d \in Decisions : ~Confirm(w, d)
      BY <2>1, <2>3, OtherSteps, KeepsFillsStep DEF OrdersInv
    <2>4. QED
      BY <2>1, <2>2, <2>3 DEF OrdersInv
  <1>3. OrdersInv => OrdersAccounted
    BY DEF OrdersInv
  <1>4. QED
    BY <1>1, <1>2, <1>3, PTL DEF Spec

-----------------------------------------------------------------------------
\* Events follow commits.  What has been announced stays true because the
\* journal only grows and a bought row stays bought; so it is enough that a
\* request announces what its own commit wrote.  (The purchases of the decisions
\* X may have been undone since: none in the gate alone, see TradingCore_proofs.)
StaysTrue(X, e) == Announced(e) \/ (e.type = "order_sent" /\ e.dec \in X)

EventsInv(X) ==
    /\ TypeOK
    /\ \A w \in Workers : \A k \in DOMAIN req[w].out : StaysTrue(X, req[w].out[k])
    /\ \A e \in emitted : StaysTrue(X, e)

JournalGrows ==
    /\ DOMAIN entries \subseteq DOMAIN entries'
    /\ \A i \in DOMAIN entries :
          /\ entries'[i].dec = entries[i].dec
          /\ entries[i].fill # 0 => entries'[i].fill # 0
    /\ \A d \in Decisions : /\ llmRejects'[d] >= llmRejects[d]
                            /\ rejects'[d] >= rejects[d]
                            /\ expires'[d] >= expires[d]
                            /\ costs'[d] >= costs[d]

\* Every event is one of those messages.
LEMMA EventIsMsg ==
    ASSUME NEW e \in Event
    PROVE  /\ e.dec \in Decisions
           /\ \/ e = Msg("entry_journaled", e.dec)
              \/ e = Msg("awaiting_confirm", e.dec)
              \/ e = Msg("reject_journaled", e.dec)
              \/ e = Msg("expire_journaled", e.dec)
              \/ e = Msg("decision_made", e.dec)
              \/ e = Msg("order_sent", e.dec)
              \/ e = Msg("audit_journaled", e.dec)
              \/ e = Msg("exit_journaled", e.dec)
              \/ e = Msg("risk_off_triggered", e.dec)
  BY DEF Event, EventTypes, Msg

\* What was announced stays true while the journal grows.
LEMMA AnnouncedStays ==
    ASSUME TypeOK, TypeOK', JournalGrows, NEW e \in Event, Announced(e)
    PROVE  Announced(e)'
  <1> DEFINE d == e.dec
  <1>1. /\ llmRejects[d] \in Nat /\ llmRejects'[d] \in Nat
        /\ rejects[d] \in Nat /\ rejects'[d] \in Nat
        /\ expires[d] \in Nat /\ expires'[d] \in Nat
        /\ costs[d] \in Nat /\ costs'[d] \in Nat
        /\ llmRejects'[d] >= llmRejects[d] /\ rejects'[d] >= rejects[d]
        /\ expires'[d] >= expires[d] /\ costs'[d] >= costs[d]
    BY EventIsMsg DEF TypeOK, JournalGrows
  <1>2. HasEntry(d) => HasEntry(d)'
    BY DEF HasEntry, JournalGrows
  <1>3. (\E i \in DOMAIN entries : entries[i].dec = d /\ entries[i].fill # 0)
        => \E i \in DOMAIN entries' : entries'[i].dec = d /\ entries'[i].fill # 0
    BY DEF JournalGrows
  <1>4. CASE e.type \in {"entry_journaled", "awaiting_confirm"}
    BY <1>2, <1>4 DEF Announced
  <1>5. CASE e.type = "reject_journaled"
    BY <1>1, <1>5 DEF Announced
  <1>6. CASE e.type = "expire_journaled"
    BY <1>1, <1>6 DEF Announced
  <1>7. CASE e.type = "decision_made"
    BY <1>1, <1>7 DEF Announced
  <1>8. CASE e.type = "order_sent"
    BY <1>3, <1>8 DEF Announced
  <1>9. CASE e.type \in {"audit_journaled", "exit_journaled", "risk_off_triggered"}
    BY <1>9 DEF Announced
  <1>10. QED
    BY <1>4, <1>5, <1>6, <1>7, <1>8, <1>9 DEF Event, EventTypes

\* A request whose commit made its own queue true keeps the invariant.
LEMMA AnnouncingStep ==
    ASSUME NEW X, EventsInv(X), TypeOK', JournalGrows, emitted' = emitted,
           NEW w \in Workers, NEW r \in Requests, req' = [req EXCEPT ![w] = r],
           \A k \in DOMAIN r.out : Announced(r.out[k])'
    PROVE  EventsInv(X)'
  <1>1. \A e \in emitted' : StaysTrue(X, e)'
    BY AnnouncedStays DEF EventsInv, StaysTrue, TypeOK
  <1>2. ASSUME NEW v \in Workers, NEW k \in DOMAIN req'[v].out
        PROVE  StaysTrue(X, req[v].out[k])'
    <2>1. CASE v = w
      BY <1>2, <2>1 DEF EventsInv, StaysTrue, TypeOK
    <2>2. CASE v # w
      <3>1. req'[v] = req[v] /\ req[v].out \in Seq(Event)
        BY <2>2 DEF EventsInv, TypeOK, Requests
      <3>2. req[v].out[k] \in Event /\ StaysTrue(X, req[v].out[k])
        BY <1>2, <3>1, ElementOfSeq, LenProperties DEF EventsInv
      <3>3. PICK e \in Event : e = req[v].out[k]
        BY <3>2
      <3>4. StaysTrue(X, e)'
        BY <3>2, <3>3, AnnouncedStays DEF EventsInv, StaysTrue
      <3>5. req'[v].out[k] = e
        BY <3>1, <3>3
      <3>6. QED
        BY <3>4, <3>5 DEF StaysTrue, Announced, HasEntry
    <2>3. QED
      BY <2>1, <2>2
  <1>3. QED
    BY <1>1, <1>2 DEF EventsInv

\* A table counted per decision never shrinks.
LEMMA AddRowGrows ==
    ASSUME NEW table \in [Decisions -> Nat], NEW d \in Decisions
    PROVE  /\ \A c \in Decisions : AddRow(table, d)[c] >= table[c]
           /\ AddRow(table, d)[d] > 0
           /\ \A c \in Decisions : table[c] \in Nat /\ table[c] >= table[c]
  BY DEF AddRow

\* Every step keeps what was announced, and announces what it wrote.
LEMMA EventsStep ==
    ASSUME NEW X, EventsInv(X), [Next]_vars
    PROVE  EventsInv(X)'
  <1> USE DEF journal, brokerVars, exitRows
  <1>1. TypeOK /\ TypeOK'
    BY NextType DEF EventsInv
  <1>2. /\ llmRejects \in [Decisions -> Nat] /\ rejects \in [Decisions -> Nat]
        /\ expires \in [Decisions -> Nat] /\ costs \in [Decisions -> Nat]
    BY <1>1 DEF TypeOK
  <1>3. \A d \in Decisions : /\ llmRejects[d] >= llmRejects[d] /\ rejects[d] >= rejects[d]
                             /\ expires[d] >= expires[d] /\ costs[d] >= costs[d]
    BY <1>2
  <1>4. UNCHANGED journal => JournalGrows
    BY <1>3 DEF JournalGrows
  <1>5. ASSUME NEW w \in Workers, NEW d \in Decisions, DecideStart(w, d)
        PROVE  EventsInv(X)'
    <2>1. req' = [req EXCEPT ![w] = Deciding(d)] /\ Deciding(d) \in Requests
          /\ \A k \in DOMAIN Deciding(d).out : FALSE
      BY <1>1, <1>5, RequestTypes, RequestFields DEF DecideStart, TypeOK
    <2>2. emitted' = emitted /\ UNCHANGED journal
      BY <1>5 DEF DecideStart
    <2>3. QED
      BY <1>1, <1>4, <2>1, <2>2, AnnouncingStep
  <1>6. ASSUME NEW w \in Workers, NEW s \in Sizings, DecideEnter(w, s)
        PROVE  EventsInv(X)'
    <2>1. PICK d \in Decisions, t \in Time : d = req[w].dec /\ t = req[w].at
      BY <1>1, <1>6 DEF DecideEnter, TypeOK, Requests
    <2> DEFINE row == NewEntry(d, t, Capped(s))
               out == <<Msg("entry_journaled", d), Msg("decision_made", d),
                        Msg("awaiting_confirm", d)>>
    <2>2. /\ entries' = Append(entries, row) /\ entries \in Seq(EntryRow)
          /\ costs' = AddRow(costs, d)
          /\ UNCHANGED <<llmRejects, rejects, expires, emitted>>
          /\ req' = [req EXCEPT ![w] = Emitting(out)]
      BY <1>1, <1>6, <2>1 DEF DecideEnter, TypeOK
    <2>3. row \in EntryRow /\ row.dec = d
      <3>1. Capped(s) \in Sizings \cup {"fits"}
        BY DEF Capped
      <3>2. QED
        BY <3>1, RowTypes DEF NewEntry
    <2>4. /\ DOMAIN entries \subseteq DOMAIN entries'
          /\ \A i \in DOMAIN entries : entries'[i] = entries[i]
          /\ HasEntry(d)'
      BY <2>2, <2>3, AppendRow DEF HasEntry
    <2>5. JournalGrows /\ costs'[d] > 0
      BY <1>2, <1>3, <2>2, <2>4, AddRowGrows DEF JournalGrows
    <2>6. \A k \in DOMAIN Emitting(out).out : Announced(Emitting(out).out[k])'
      <3>1. /\ Announced(Msg("entry_journaled", d))'
            /\ Announced(Msg("decision_made", d))'
            /\ Announced(Msg("awaiting_confirm", d))'
        BY <2>4, <2>5 DEF Announced, Msg, HasEntry
      <3>2. Emitting(out).out = out
        BY RequestFields
      <3>3. QED
        BY <3>1, <3>2
    <2>7. Emitting(out) \in Requests
      BY EventSeqs, RequestTypes
    <2>8. QED
      BY <1>1, <2>2, <2>5, <2>6, <2>7, AnnouncingStep
  <1>7. ASSUME NEW w \in Workers, NEW parsed \in BOOLEAN, DecideReject(w, parsed)
        PROVE  EventsInv(X)'
    <2>1. PICK d \in Decisions : d = req[w].dec
      BY <1>1, <1>7 DEF DecideReject, TypeOK
    <2> DEFINE out == <<Msg("reject_journaled", d)>>
                      \o IF parsed THEN <<Msg("decision_made", d)>> ELSE <<>>
    <2>2. /\ llmRejects' = AddRow(llmRejects, d) /\ costs' = AddRow(costs, d)
          /\ UNCHANGED <<entries, rejects, expires, emitted>>
          /\ req' = [req EXCEPT ![w] = Emitting(out)]
      BY <1>7, <2>1 DEF DecideReject
    <2>3. /\ JournalGrows
          /\ costs'[d] > 0 /\ llmRejects'[d] > 0
          /\ llmRejects'[d] \in Nat /\ rejects'[d] \in Nat
      BY <1>1, <1>2, <1>3, <2>2, AddRowGrows DEF JournalGrows, TypeOK
    <2>4. \A k \in DOMAIN Emitting(out).out : Announced(Emitting(out).out[k])'
      <3>1. /\ Announced(Msg("reject_journaled", d))'
            /\ Announced(Msg("decision_made", d))'
        BY <2>3 DEF Announced, Msg
      <3>2. Emitting(out).out = out
        BY RequestFields
      <3>3. \A k \in DOMAIN out :
               out[k] \in {Msg("reject_journaled", d), Msg("decision_made", d)}
        OBVIOUS
      <3>4. QED
        BY <3>1, <3>2, <3>3
    <2>5. Emitting(out) \in Requests
      <3>1. out \in Seq(Event)
        BY EventSeqs
      <3>2. QED
        BY <3>1, RequestTypes
    <2>6. QED
      BY <1>1, <2>2, <2>3, <2>4, <2>5, AnnouncingStep
  <1>8. ASSUME NEW w \in Workers, NEW d \in Decisions, Confirm(w, d)
        PROVE  EventsInv(X)'
    <2> DEFINE out == <<Msg("order_sent", d)>>
    <2>1. emitted' = emitted
      BY <1>8 DEF Confirm
    <2>2. CASE ConfirmFills(d, FALSE) /\ req' = [req EXCEPT ![w] = Emitting(out)]
      <3>1. PICK i \in DOMAIN entries :
               /\ IsPending(d, i)
               /\ SetRow(i, Filled(entries[i], Len(orders) + 1, FALSE))
        BY <2>2 DEF ConfirmFills
      <3>2. Len(orders) + 1 \in Nat /\ Len(orders) + 1 # 0
        <4>1. orders \in Seq(Decisions)
          BY <1>1 DEF TypeOK
        <4>2. Len(orders) \in Nat
          BY <4>1, LenProperties
        <4> QED  BY <4>2
      <3>3. /\ DOMAIN entries' = DOMAIN entries
            /\ entries'[i] = Filled(entries[i], Len(orders) + 1, FALSE)
            /\ \A j \in DOMAIN entries : j # i => entries'[j] = entries[j]
        BY <1>1, <3>1, <3>2, EntryType, RowTypes, SetRowFacts DEF TypeOK
      <3>4. entries'[i].dec = entries[i].dec /\ entries'[i].fill # 0
            /\ entries[i].dec = d
        <4>1. entries[i] \in EntryRow /\ entries[i].dec = d
          BY <1>1, <3>1, EntryType DEF IsPending, IsLatest
        <4>2. /\ Filled(entries[i], Len(orders) + 1, FALSE).dec = entries[i].dec
              /\ Filled(entries[i], Len(orders) + 1, FALSE).fill = Len(orders) + 1
          BY <4>1 DEF Filled, EntryRow
        <4>3. QED
          BY <3>2, <3>3, <4>1, <4>2
      <3>5. JournalGrows
        BY <1>3, <2>2, <3>3, <3>4 DEF JournalGrows, ConfirmFills
      <3>6. Announced(Msg("order_sent", d))'
        BY <3>3, <3>4 DEF Announced, Msg
      <3>7. Emitting(out) \in Requests /\ Emitting(out).out = out
        BY EventSeqs, RequestTypes, RequestFields
      <3>8. \A k \in DOMAIN Emitting(out).out : Announced(Emitting(out).out[k])'
        BY <3>6, <3>7
      <3>9. QED
        BY <1>1, <2>1, <2>2, <3>5, <3>7, <3>8, AnnouncingStep
    <2>3. CASE ConfirmRolledBack(d) /\ req' = [req EXCEPT ![w] = Refused]
      <3>1. Refused \in Requests /\ \A k \in DOMAIN Refused.out : FALSE
        BY RequestTypes, RequestFields
      <3>2. JournalGrows
        BY <1>4, <2>3 DEF ConfirmRolledBack
      <3>3. QED
        BY <1>1, <2>1, <2>3, <3>1, <3>2, AnnouncingStep
    <2>4. QED
      BY <1>8, <2>2, <2>3 DEF Confirm
  <1>9. ASSUME NEW w \in Workers, NEW d \in Decisions, Reject(w, d)
        PROVE  EventsInv(X)'
    <2> DEFINE out == <<Msg("reject_journaled", d)>>
    <2>1. /\ rejects' = AddRow(rejects, d)
          /\ UNCHANGED <<llmRejects, expires, costs, emitted>>
          /\ req' = [req EXCEPT ![w] = Emitting(out)]
      BY <1>9 DEF Reject
    <2>2. PICK i \in DOMAIN entries : SetRow(i, WithStatus(entries[i], "rejected"))
      BY <1>9 DEF Reject
    <2>3. /\ DOMAIN entries' = DOMAIN entries
          /\ entries'[i] = WithStatus(entries[i], "rejected")
          /\ \A j \in DOMAIN entries : j # i => entries'[j] = entries[j]
      BY <1>1, <2>2, EntryType, SetRowFacts DEF Statuses
    <2>4. entries'[i].dec = entries[i].dec /\ entries'[i].fill = entries[i].fill
      BY <1>1, <2>3, EntryType, WithStatusFields
    <2>5. JournalGrows /\ rejects'[d] > 0
          /\ rejects'[d] \in Nat /\ llmRejects'[d] \in Nat
      BY <1>1, <1>2, <1>3, <2>1, <2>3, <2>4, AddRowGrows DEF JournalGrows, TypeOK
    <2>6. Announced(Msg("reject_journaled", d))'
      BY <2>5 DEF Announced, Msg
    <2>7. Emitting(out) \in Requests /\ Emitting(out).out = out
      BY EventSeqs, RequestTypes, RequestFields
    <2>8. \A k \in DOMAIN Emitting(out).out : Announced(Emitting(out).out[k])'
      BY <2>6, <2>7
    <2>9. QED
      BY <1>1, <2>1, <2>5, <2>7, <2>8, AnnouncingStep
  <1>10. ASSUME NEW w \in Workers, Refuse(w) \/ SweepStart(w)
         PROVE  EventsInv(X)'
    <2>1. PICK r \in Requests : req' = [req EXCEPT ![w] = r] /\ r.out = <<>>
      <3>1. now \in Time
        BY <1>1 DEF TypeOK
      <3>2. QED
        BY <1>10, <3>1, RequestTypes, RequestFields DEF Refuse, SweepStart
    <2>2. emitted' = emitted /\ JournalGrows
      BY <1>4, <1>10 DEF Refuse, SweepStart
    <2>3. \A k \in DOMAIN r.out : FALSE
      BY <2>1
    <2>4. \A k \in DOMAIN r.out : Announced(r.out[k])'
      BY <2>3
    <2>5. QED
      BY <1>1, <2>1, <2>2, <2>4, AnnouncingStep
  <1>11. ASSUME NEW w \in Workers, Sweep(w)
         PROVE  EventsInv(X)'
    <2> DEFINE due == Due(req[w].at)
               of(d) == {i \in due : entries[i].dec = d}
    <2>1. due \subseteq DOMAIN entries /\ IsFiniteSet(due)
      BY <1>1, <1>11, SweepFacts
    <2>2. PICK out \in Seq(Event) :
            /\ req' = [req EXCEPT ![w] = Emitting(out)]
            /\ \A k \in DOMAIN out : \E i \in due :
                  out[k] = Msg("expire_journaled", entries[i].dec)
      BY <1>1, <1>11, SweepFacts
    <2>3. /\ UNCHANGED <<llmRejects, rejects, costs, emitted>>
          /\ expires' = [d \in Decisions |-> expires[d] + Cardinality(of(d))]
      BY <1>11 DEF Sweep
    <2>4. ASSUME NEW d \in Decisions
          PROVE  /\ Cardinality(of(d)) \in Nat
                 /\ of(d) # {} => Cardinality(of(d)) # 0
      <3>1. IsFiniteSet(of(d))
        BY <2>1, FS_Subset
      <3> HIDE DEF of
      <3>2. QED
        BY <3>1, FS_CardinalityType, FS_EmptySet
    <2>5. /\ DOMAIN entries' = DOMAIN entries
          /\ \A j \in DOMAIN entries : /\ entries'[j].dec = entries[j].dec
                                       /\ entries'[j].fill = entries[j].fill
      <3>1. /\ DOMAIN entries' = DOMAIN entries
            /\ \A j \in DOMAIN entries :
                  \/ entries'[j] = entries[j]
                  \/ entries'[j] = WithStatus(entries[j], "expired")
        BY <1>1, <1>11, SweepFacts
      <3>2. QED
        BY <1>1, <3>1, EntryType, WithStatusFields
    <2>6. ASSUME NEW d \in Decisions
          PROVE  /\ expires'[d] >= expires[d]
                 /\ of(d) # {} => expires'[d] > 0
      <3> DEFINE n == Cardinality(of(d))
      <3>1. expires'[d] = expires[d] + n /\ expires[d] \in Nat
        BY <1>2, <2>3
      <3>2. n \in Nat /\ (of(d) # {} => n # 0)
        BY <2>4
      <3> HIDE DEF n
      <3>3. QED
        BY <3>1, <3>2
    <2>7. JournalGrows
      BY <1>3, <2>3, <2>5, <2>6 DEF JournalGrows
    <2>8. ASSUME NEW k \in DOMAIN out
          PROVE  Announced(out[k])'
      <3>1. PICK d \in Decisions : of(d) # {} /\ out[k] = Msg("expire_journaled", d)
        BY <1>1, <2>1, <2>2, EntryType
      <3>2. expires'[d] > 0
        BY <2>6, <3>1
      <3>3. Announced(Msg("expire_journaled", d))'
        BY <3>2 DEF Announced, Msg
      <3>4. QED
        BY <3>1, <3>3
    <2>9. Emitting(out) \in Requests /\ Emitting(out).out = out
      BY RequestTypes, RequestFields
    <2>10. \A k \in DOMAIN Emitting(out).out : Announced(Emitting(out).out[k])'
      BY <2>8, <2>9
    <2>11. QED
      BY <1>1, <2>2, <2>3, <2>7, <2>9, <2>10, AnnouncingStep
  <1>12. ASSUME NEW w \in Workers, Request(w)
         PROVE  EventsInv(X)'
    <2> DEFINE queue == {req[w].out[m] : m \in DOMAIN req[w].out}
    <2>1. /\ UNCHANGED journal
          /\ \A e \in emitted' \ emitted : e \in queue
      BY <1>1, <1>12, RequestFacts
    <2>2. PICK r \in Requests :
            /\ req' = [req EXCEPT ![w] = r]
            /\ \A k \in DOMAIN r.out : r.out[k] \in queue
      BY <1>1, <1>12, RequestFacts
    <2>3. ASSUME NEW e \in queue
          PROVE  e \in Event /\ StaysTrue(X, e)
      <3>1. req[w].out \in Seq(Event)
        BY <1>1 DEF TypeOK, Requests
      <3>2. QED
        BY <3>1, ElementOfSeq, LenProperties DEF EventsInv
    <2>4. ASSUME NEW e \in Event, StaysTrue(X, e)
          PROVE  StaysTrue(X, e)'
      BY <1>1, <1>4, <2>1, <2>4, AnnouncedStays DEF StaysTrue
    <2>5. \A e \in emitted' : StaysTrue(X, e)'
      <3>1. emitted \subseteq Event /\ \A e \in emitted : StaysTrue(X, e)
        BY <1>1 DEF TypeOK, EventsInv
      <3>2. \A e \in emitted' : e \in Event /\ StaysTrue(X, e)
        BY <2>1, <2>3, <3>1
      <3>3. QED
        BY <2>4, <3>2
    <2>6. ASSUME NEW v \in Workers, NEW k \in DOMAIN req'[v].out
          PROVE  StaysTrue(X, req[v].out[k])'
      <3>1. PICK q \in Requests : /\ q = req'[v]
                                  /\ k \in DOMAIN q.out
                                  /\ q.out[k] \in Event /\ StaysTrue(X, q.out[k])
        <4>1. CASE v = w
          BY <1>1, <2>2, <2>3, <2>6, <4>1 DEF TypeOK
        <4>2. CASE v # w
          <5>1. req'[v] = req[v] /\ req[v] \in Requests
            BY <1>1, <2>2, <4>2 DEF TypeOK
          <5>2. req[v].out \in Seq(Event)
            BY <5>1 DEF Requests
          <5>3. QED
            BY <2>6, <5>1, <5>2, ElementOfSeq, LenProperties
               DEF EventsInv
        <4>3. QED
          BY <4>1, <4>2
      <3>2. PICK e \in Event : e = q.out[k] /\ StaysTrue(X, e)
        BY <3>1
      <3>3. StaysTrue(X, e)'
        BY <2>4, <3>2
      <3>4. req'[v].out[k] = e
        BY <3>1, <3>2
      <3>5. QED
        BY <3>3, <3>4 DEF StaysTrue, Announced, HasEntry
    <2>7. QED
      BY <1>1, <2>5, <2>6 DEF EventsInv
  <1>13. ASSUME UNCHANGED <<journal, emitted, req>>
         PROVE  EventsInv(X)'
    BY <1>1, <1>13 DEF EventsInv, StaysTrue, Announced, HasEntry
  <1>14. QED
    BY <1>5, <1>6, <1>7, <1>8, <1>9, <1>10, <1>11, <1>12, <1>13
       DEF Next, Decider, Gate, Tick, vars

\* Every event a subscriber has seen announces what a commit made true.
THEOREM EventsAnnounceCommits == Spec => []EventsFollowCommits
  <1>1. Init => EventsInv({})
    <2> SUFFICES ASSUME Init PROVE EventsInv({})
      OBVIOUS
    <2>1. TypeOK
      BY InitType
    <2>2. emitted = {} /\ \A w \in Workers : req[w].out = <<>>
      BY RequestFields DEF Init, JournalInit
    <2>3. QED
      BY <2>1, <2>2 DEF EventsInv
  <1>2. EventsInv({}) /\ [Next]_vars => EventsInv({})'
    BY EventsStep
  <1>3. EventsInv({}) => EventsFollowCommits
    BY DEF EventsInv, EventsFollowCommits, StaysTrue
  <1>4. QED
    BY <1>1, <1>2, <1>3, PTL DEF Spec

-----------------------------------------------------------------------------
\* Each decision id decided once

\* A decision id is used up by its decider run: from then on it is either
\* being decided by one request, or rejected by the LLM, or has one entry row.
OneRow == \A i, j \in DOMAIN entries : entries[i].dec = entries[j].dec => i = j

UsedOnce ==
    /\ \A d \in Decisions : attempts[d] <= 1
    /\ \A i \in DOMAIN entries : attempts[entries[i].dec] = 1
    /\ \A d \in Decisions : llmRejects[d] > 0 => attempts[d] = 1

DecidedByOne ==
    /\ \A w \in Workers : req[w].pc = "deciding" =>
          /\ attempts[req[w].dec] = 1
          /\ ~HasEntry(req[w].dec)
          /\ llmRejects[req[w].dec] = 0
    /\ \A v, w \in Workers :
          /\ req[v].pc = "deciding"
          /\ req[w].pc = "deciding"
          /\ req[v].dec = req[w].dec
          => v = w

IdsOnce == OneRow /\ UsedOnce /\ DecidedByOne

\* A step that starts and ends no decider run.
KeepsIds ==
    /\ UNCHANGED <<attempts, llmRejects>>
    /\ DOMAIN entries' = DOMAIN entries
    /\ \A i \in DOMAIN entries : entries'[i].dec = entries[i].dec
    /\ \A v \in Workers : req'[v].pc = "deciding" => req'[v] = req[v]

\* A step that starts and ends no decider run keeps each id decided once.
LEMMA KeepsIdsStep == IdsOnce /\ KeepsIds => IdsOnce'
  <1> SUFFICES ASSUME IdsOnce, KeepsIds PROVE IdsOnce'
    OBVIOUS
  <1>1. \A d : HasEntry(d)' <=> HasEntry(d)
    BY DEF KeepsIds, HasEntry
  <1>2. OneRow' /\ UsedOnce'
    BY DEF KeepsIds, IdsOnce, OneRow, UsedOnce
  <1>3. DecidedByOne'
    BY <1>1 DEF KeepsIds, IdsOnce, DecidedByOne
  <1>4. QED
    BY <1>2, <1>3 DEF IdsOnce

\* What a request that is not a decider run does to one row, field by field.
OneRowMoves(i, from, to) ==
    /\ i \in DOMAIN entries
    /\ entries[i].status = from
    /\ DOMAIN entries' = DOMAIN entries
    /\ entries'[i].dec = entries[i].dec
    /\ entries'[i].created = entries[i].created
    /\ entries'[i].status = to
    /\ \A j \in DOMAIN entries : j # i => entries'[j] = entries[j]

\* The requests that end one or more pending entries, in those terms.
LEMMA ConfirmFacts ==
    ASSUME TypeOK, NEW d \in Decisions, NEW auto \in BOOLEAN, ConfirmFills(d, auto)
    PROVE  \E i \in DOMAIN entries :
              /\ entries[i].dec = d
              /\ OneRowMoves(i, "pending_confirm", "confirmed")
              /\ entries'[i].fill = Len(orders) + 1
              /\ entries'[i].fill # 0
  <1>1. PICK i \in DOMAIN entries :
           /\ IsPending(d, i)
           /\ SetRow(i, Filled(entries[i], Len(orders) + 1, auto))
    BY DEF ConfirmFills
  <1>2. Len(orders) + 1 \in Nat /\ Len(orders) + 1 # 0
    BY LenProperties DEF TypeOK
  <1>3. /\ DOMAIN entries' = DOMAIN entries
        /\ entries'[i] = Filled(entries[i], Len(orders) + 1, auto)
        /\ \A j \in DOMAIN entries : j # i => entries'[j] = entries[j]
    BY <1>1, <1>2, EntryType, RowTypes, SetRowFacts DEF TypeOK
  <1>4. QED
    BY <1>1, <1>2, <1>3, EntryType, FilledFields DEF IsPending, IsLatest, OneRowMoves

\* A rejection changes the status of one pending row of its decision.
LEMMA RejectFacts ==
    ASSUME TypeOK, NEW w \in Workers, NEW d \in Decisions, Reject(w, d)
    PROVE  \E i \in DOMAIN entries :
              /\ entries[i].dec = d
              /\ OneRowMoves(i, "pending_confirm", "rejected")
              /\ entries'[i].fill = entries[i].fill
  <1>1. PICK i \in DOMAIN entries :
           /\ IsPending(d, i)
           /\ SetRow(i, WithStatus(entries[i], "rejected"))
    BY DEF Reject
  <1>2. /\ DOMAIN entries' = DOMAIN entries
        /\ entries'[i] = WithStatus(entries[i], "rejected")
        /\ \A j \in DOMAIN entries : j # i => entries'[j] = entries[j]
    BY <1>1, EntryType, SetRowFacts DEF Statuses
  <1>3. entries[i] \in EntryRow
    BY EntryType
  <1>4. QED
    BY <1>1, <1>2, <1>3, WithStatusFields DEF IsPending, IsLatest, OneRowMoves

\* With one row per decision, a sweep expires exactly the rows it found due.
LEMMA SweepMoves ==
    ASSUME TypeOK, OneRow, NEW w \in Workers, Sweep(w)
    PROVE  /\ DOMAIN entries' = DOMAIN entries
           /\ \A j \in DOMAIN entries :
                /\ entries'[j].dec = entries[j].dec
                /\ entries'[j].created = entries[j].created
                /\ entries'[j].fill = entries[j].fill
                /\ entries'[j].status = IF j \in Due(req[w].at) THEN "expired"
                                        ELSE entries[j].status
  <1>1. /\ DOMAIN entries' = DOMAIN entries
        /\ Due(req[w].at) \subseteq DOMAIN entries
    BY SweepFacts
  <1>2. ASSUME NEW j \in DOMAIN entries
        PROVE  /\ entries'[j].dec = entries[j].dec
               /\ entries'[j].created = entries[j].created
               /\ entries'[j].fill = entries[j].fill
               /\ entries'[j].status = IF j \in Due(req[w].at) THEN "expired"
                                       ELSE entries[j].status
    <2>1. entries[j] \in EntryRow
      BY EntryType
    <2>2. IsLatest(entries[j].dec, j)
      <3>1. DOMAIN entries = 1..Len(entries) /\ Len(entries) \in Nat
        BY LenProperties DEF TypeOK
      <3>2. QED
        BY <3>1 DEF OneRow, IsLatest
    <2>3. entries'[j] = IF entries[j].dec \in {entries[i].dec : i \in Due(req[w].at)}
                        THEN WithStatus(entries[j], "expired") ELSE entries[j]
      BY <2>2 DEF Sweep
    <2>4. entries[j].dec \in {entries[i].dec : i \in Due(req[w].at)}
          <=> j \in Due(req[w].at)
      BY <1>1 DEF OneRow
    <2>5. QED
      BY <2>1, <2>3, <2>4, WithStatusFields
  <1>3. QED
    BY <1>1, <1>2

\* An entry row is appended by the run that decided it.
LEMMA EnterFacts ==
    ASSUME TypeOK, NEW w \in Workers, NEW s \in Sizings, DecideEnter(w, s)
    PROVE  \E n \in Nat :
              /\ DOMAIN entries = 1..n
              /\ DOMAIN entries' = 1..(n + 1)
              /\ \A j \in DOMAIN entries : entries'[j] = entries[j]
              /\ entries'[n + 1].dec = req[w].dec
              /\ entries'[n + 1].created = req[w].at
              /\ entries'[n + 1].status = "pending_confirm"
              /\ entries'[n + 1].fill = 0
  <1> DEFINE row == NewEntry(req[w].dec, req[w].at, Capped(s))
  <1>1. req[w].dec \in Decisions /\ req[w].at \in Time
    BY DEF DecideEnter, TypeOK, Requests
  <1>2. Capped(s) \in Sizings \cup {"fits"}
    BY DEF Capped
  <1>3. row \in EntryRow
    BY <1>1, <1>2, RowTypes
  <1>4. /\ row.dec = req[w].dec
        /\ row.created = req[w].at
        /\ row.status = "pending_confirm"
        /\ row.fill = 0
    BY DEF NewEntry
  <1>5. entries' = Append(entries, row) /\ entries \in Seq(EntryRow)
    BY DEF DecideEnter, TypeOK
  <1> HIDE DEF row
  <1>6. QED
    BY <1>3, <1>4, <1>5, AppendRow

\* Which requests are decider runs after a step of request w: the others stay
\* what they are.
LEMMA DecidersKept ==
    ASSUME TypeOK, NEW w \in Workers, NEW r \in Requests,
           req' = [req EXCEPT ![w] = r]
    PROVE  \A v \in Workers : req'[v] = IF v = w THEN r ELSE req[v]
  BY DEF TypeOK

\* Every step keeps the ids used once.
LEMMA IdsStep ==
    ASSUME MaxAttempts = 1
    PROVE  TypeOK /\ IdsOnce /\ [Next]_vars => IdsOnce'
  <1> SUFFICES ASSUME TypeOK, IdsOnce, [Next]_vars PROVE IdsOnce'
    OBVIOUS
  <1> USE DEF journal, brokerVars, exitRows
  <1>1. ASSUME NEW w \in Workers, NEW d \in Decisions, DecideStart(w, d)
        PROVE  IdsOnce'
    <2>1. /\ attempts[d] = 0
          /\ attempts' = [attempts EXCEPT ![d] = 1]
          /\ attempts \in [Decisions -> Nat]
          /\ llmRejects \in [Decisions -> Nat]
          /\ UNCHANGED <<entries, llmRejects>>
          /\ \A c : HasEntry(c)' <=> HasEntry(c)
      <3>1. /\ attempts[d] < 1
            /\ attempts' = [attempts EXCEPT ![d] = attempts[d] + 1]
            /\ UNCHANGED <<entries, llmRejects>>
        BY <1>1 DEF DecideStart
      <3>2. attempts \in [Decisions -> Nat] /\ llmRejects \in [Decisions -> Nat]
        BY DEF TypeOK
      <3>3. attempts[d] = 0
        BY <3>1, <3>2
      <3>4. QED
        BY <3>1, <3>2, <3>3 DEF HasEntry
    <2>2. \A v \in Workers : req'[v] = IF v = w THEN Deciding(d) ELSE req[v]
      BY <1>1, DecidersKept, RequestTypes DEF DecideStart, TypeOK
    <2>3. llmRejects[d] = 0 /\ ~HasEntry(d)
      <3>1. llmRejects[d] \in Nat /\ ~(llmRejects[d] > 0)
        BY <2>1 DEF IdsOnce, UsedOnce
      <3>2. \A i \in DOMAIN entries : entries[i].dec # d
        BY <2>1 DEF IdsOnce, UsedOnce
      <3>3. QED
        BY <3>1, <3>2 DEF HasEntry
    <2>4. \A v \in Workers : req[v].pc = "deciding" => req[v].dec # d
      BY <2>1 DEF IdsOnce, DecidedByOne
    <2>5. OneRow' /\ UsedOnce'
      BY <2>1, EntryType DEF IdsOnce, OneRow, UsedOnce
    <2>6. DecidedByOne'
      <3>1. Deciding(d).dec = d
        BY RequestFields
      <3>2. \A v \in Workers : v # w /\ req'[v].pc = "deciding" =>
               /\ req'[v] = req[v]
               /\ req[v].dec \in Decisions /\ req[v].dec # d
        BY <2>2, <2>4 DEF TypeOK
      <3>3. \A v \in Workers : req'[v].pc = "deciding" =>
               /\ attempts'[req'[v].dec] = 1
               /\ ~HasEntry(req[v].dec)'
               /\ llmRejects'[req'[v].dec] = 0
        BY <2>1, <2>2, <2>3, <3>1, <3>2 DEF IdsOnce, DecidedByOne
      <3>4. QED
        BY <2>2, <3>1, <3>2, <3>3 DEF IdsOnce, DecidedByOne
    <2>7. QED
      BY <2>5, <2>6 DEF IdsOnce
  <1>2. ASSUME NEW w \in Workers, NEW s \in Sizings, DecideEnter(w, s)
        PROVE  IdsOnce'
    <2>1. PICK n \in Nat :
             /\ DOMAIN entries = 1..n
             /\ DOMAIN entries' = 1..(n + 1)
             /\ \A j \in DOMAIN entries : entries'[j] = entries[j]
             /\ entries'[n + 1].dec = req[w].dec
      BY <1>2, EnterFacts
    <2>2. /\ req[w].pc = "deciding"
          /\ UNCHANGED <<attempts, llmRejects>>
          /\ \A v \in Workers : v # w => req'[v] = req[v]
          /\ req'[w].pc = "emitting"
      BY <1>2, RequestFields DEF DecideEnter, TypeOK
    <2>3. ~HasEntry(req[w].dec) /\ attempts[req[w].dec] = 1
      BY <2>2 DEF IdsOnce, DecidedByOne
    <2>4. OneRow' /\ UsedOnce'
      BY <2>1, <2>2, <2>3 DEF IdsOnce, OneRow, UsedOnce, HasEntry
    <2>5. DecidedByOne'
      <3>1. \A c : c # req[w].dec => (HasEntry(c)' <=> HasEntry(c))
        BY <2>1 DEF HasEntry
      <3>2. QED
        BY <2>2, <3>1 DEF IdsOnce, DecidedByOne
    <2>6. QED
      BY <2>4, <2>5 DEF IdsOnce
  <1>3. ASSUME NEW w \in Workers, NEW parsed \in BOOLEAN, DecideReject(w, parsed)
        PROVE  IdsOnce'
    <2> DEFINE d == req[w].dec
    <2>1. /\ req[w].pc = "deciding" /\ d \in Decisions
          /\ UNCHANGED <<attempts, entries>>
          /\ \A v \in Workers : v # w => req'[v] = req[v]
          /\ req'[w].pc = "emitting"
      BY <1>3, RequestFields DEF DecideReject, TypeOK
    <2>2. /\ llmRejects' = AddRow(llmRejects, d)
          /\ llmRejects \in [Decisions -> Nat]
      BY <1>3 DEF DecideReject, TypeOK
    <2>3. \A c : HasEntry(c)' <=> HasEntry(c)
      BY <2>1 DEF HasEntry
    <2>4. OneRow' /\ UsedOnce'
      BY <2>1, <2>2, AddRowType DEF IdsOnce, OneRow, UsedOnce, DecidedByOne
    <2>5. DecidedByOne'
      <3>1. \A v \in Workers : req'[v].pc = "deciding" =>
               /\ req'[v] = req[v]
               /\ req[v].dec \in Decisions
               /\ llmRejects'[req[v].dec] = llmRejects[req[v].dec]
        <4> SUFFICES ASSUME NEW v \in Workers, req'[v].pc = "deciding"
                     PROVE  /\ req'[v] = req[v]
                            /\ req[v].dec \in Decisions
                            /\ llmRejects'[req[v].dec] = llmRejects[req[v].dec]
          OBVIOUS
        <4>1. v # w
          BY <2>1
        <4>2. req'[v] = req[v] /\ req[v].pc = "deciding"
          BY <2>1, <4>1
        <4>3. req[v].dec \in Decisions
          BY <4>2 DEF TypeOK
        <4>4. req[v].dec # d
          BY <2>1, <4>1, <4>2 DEF IdsOnce, DecidedByOne
        <4>5. llmRejects'[req[v].dec] = llmRejects[req[v].dec]
          BY <2>1, <2>2, <4>3, <4>4, AddRowType
        <4>6. QED
          BY <4>2, <4>3, <4>5
      <3>2. QED
        BY <2>1, <2>3, <3>1 DEF IdsOnce, DecidedByOne
    <2>6. QED
      BY <2>4, <2>5 DEF IdsOnce
  <1>4. ASSUME NEW w \in Workers, NEW d \in Decisions, Confirm(w, d)
        PROVE  KeepsIds
    <2>1. \A v \in Workers : req'[v].pc = "deciding" => req'[v] = req[v]
      BY <1>4, RequestFields DEF Confirm, TypeOK
    <2>2. CASE ConfirmFills(d, FALSE)
      <3>1. UNCHANGED <<attempts, llmRejects>>
        BY <1>4, <2>2 DEF Confirm, ConfirmFills
      <3>2. QED
        BY <2>1, <2>2, <3>1, ConfirmFacts DEF KeepsIds, OneRowMoves
    <2>3. CASE ConfirmRolledBack(d)
      BY <1>4, <2>1, <2>3 DEF Confirm, ConfirmRolledBack, KeepsIds
    <2>4. QED
      BY <1>4, <2>2, <2>3 DEF Confirm
  <1>5. ASSUME NEW w \in Workers, NEW d \in Decisions, Reject(w, d)
        PROVE  KeepsIds
    <2>1. \A v \in Workers : req'[v].pc = "deciding" => req'[v] = req[v]
      BY <1>5, RequestFields DEF Reject, TypeOK
    <2>2. UNCHANGED <<attempts, llmRejects>>
      BY <1>5 DEF Reject
    <2>3. QED
      BY <1>5, <2>1, <2>2, RejectFacts DEF KeepsIds, OneRowMoves
  <1>6. ASSUME NEW w \in Workers, Refuse(w) \/ SweepStart(w)
        PROVE  KeepsIds
    BY <1>6, RequestFields DEF Refuse, SweepStart, KeepsIds, TypeOK
  <1>7. ASSUME NEW w \in Workers, Sweep(w)
        PROVE  KeepsIds
    <2>1. \A v \in Workers : req'[v].pc = "deciding" => req'[v] = req[v]
      BY <1>7, SweepFacts, RequestFields DEF TypeOK
    <2>2. UNCHANGED <<attempts, llmRejects>>
      BY <1>7 DEF Sweep
    <2>3. QED
      BY <1>7, <2>1, <2>2, SweepMoves DEF KeepsIds, IdsOnce
  <1>8. ASSUME NEW w \in Workers, Request(w)
        PROVE  KeepsIds
    <2>1. UNCHANGED <<entries, llmRejects, attempts>>
      BY <1>8, RequestFacts
    <2>2. \A v \in Workers : req'[v].pc = "deciding" => req'[v] = req[v]
      BY <1>8, RequestFacts DEF TypeOK
    <2>3. QED
      BY <2>1, <2>2 DEF KeepsIds
  <1>9. CASE Tick \/ UNCHANGED vars
    BY <1>9, KeepsIdsStep DEF Tick, vars, KeepsIds
  <1>10. QED
    BY <1>1, <1>2, <1>3, <1>4, <1>5, <1>6, <1>7, <1>8, <1>9, KeepsIdsStep
       DEF Next, Decider, Gate

-----------------------------------------------------------------------------
\* The story of a decision, told by its row: without a row it has been neither
\* rejected by a human nor expired, and only its LLM rejections cost anything.
RowStory ==
    /\ \A i \in DOMAIN entries :
          /\ costs[entries[i].dec] = 1
          /\ llmRejects[entries[i].dec] = 0
          /\ rejects[entries[i].dec] = IF entries[i].status = "rejected" THEN 1 ELSE 0
          /\ expires[entries[i].dec] = IF entries[i].status = "expired" THEN 1 ELSE 0
    /\ \A d \in Decisions : ~HasEntry(d) =>
          /\ rejects[d] = 0
          /\ expires[d] = 0
          /\ costs[d] = llmRejects[d]

\* What the rows and the counted tables say of each other makes one story per decision.
LEMMA StoryFromRows == TypeOK /\ OneRow /\ RowStory => OneStoryPerDecision
  <1> SUFFICES ASSUME TypeOK, OneRow, RowStory, NEW d \in Decisions
               PROVE  LET with(status) == \E i \in DOMAIN entries :
                                             /\ entries[i].dec = d
                                             /\ entries[i].status = status
                          one(P) == IF P THEN 1 ELSE 0
                      IN  /\ rejects[d] = one(with("rejected"))
                          /\ expires[d] = one(with("expired"))
                          /\ costs[d] = llmRejects[d] + one(HasEntry(d))
                          /\ HasEntry(d) => llmRejects[d] = 0
    BY DEF OneStoryPerDecision
  <1>1. llmRejects[d] \in Nat
    BY DEF TypeOK
  <1>2. CASE HasEntry(d)
    <2>1. PICK i \in DOMAIN entries : entries[i].dec = d
      BY <1>2 DEF HasEntry
    <2>2. \A status : (\E j \in DOMAIN entries : /\ entries[j].dec = d
                                                 /\ entries[j].status = status)
                      <=> entries[i].status = status
      BY <2>1 DEF OneRow
    <2>3. /\ costs[d] = 1 /\ llmRejects[d] = 0
          /\ rejects[d] = IF entries[i].status = "rejected" THEN 1 ELSE 0
          /\ expires[d] = IF entries[i].status = "expired" THEN 1 ELSE 0
      BY <2>1 DEF RowStory
    <2>4. QED
      BY <1>2, <2>2, <2>3
  <1>3. CASE ~HasEntry(d)
    <2>1. rejects[d] = 0 /\ expires[d] = 0 /\ costs[d] = llmRejects[d]
      BY <1>3 DEF RowStory
    <2>2. \A j \in DOMAIN entries : entries[j].dec # d
      BY <1>3 DEF HasEntry
    <2>3. QED
      BY <1>1, <1>3, <2>1, <2>2
  <1>4. QED
    BY <1>2, <1>3

\* A fill goes with a confirmed or closed row; a request that is deciding or
\* sweeping read the clock in the past.
ClocksBehind ==
    \A w \in Workers : req[w].pc \in {"deciding", "sweeping"} => req[w].at <= now

\* One row moves from pending: its decision's other tables follow.
LEMMA MovedRowStory ==
    ASSUME TypeOK, OneRow, RowStory,
           NEW i \in DOMAIN entries, NEW to \in Statuses \ {"pending_confirm"},
           OneRowMoves(i, "pending_confirm", to),
           UNCHANGED <<costs, llmRejects, expires>>, to # "expired",
           rejects' = IF to = "rejected" THEN AddRow(rejects, entries[i].dec)
                      ELSE rejects
    PROVE  RowStory'
  <1> DEFINE d == entries[i].dec
  <1>1. /\ d \in Decisions
        /\ rejects \in [Decisions -> Nat]
        /\ rejects[d] = 0 /\ expires[d] = 0 /\ costs[d] = 1 /\ llmRejects[d] = 0
    BY EntryType DEF OneRowMoves, RowStory, TypeOK
  <1>2. rejects'[d] = IF to = "rejected" THEN 1 ELSE 0
    BY <1>1, AddRowType
  <1>3. \A c \in Decisions : c # d => rejects'[c] = rejects[c]
    BY <1>1, AddRowType
  <1>4. \A c : HasEntry(c)' <=> HasEntry(c)
    BY DEF OneRowMoves, HasEntry
  <1>5. HasEntry(d)
    BY DEF HasEntry
  <1>6. \A j \in DOMAIN entries : j # i =>
           /\ entries[j].dec # d /\ entries[j].dec \in Decisions
           /\ entries'[j] = entries[j]
    BY EntryType DEF OneRow, OneRowMoves
  <1>7. entries'[i].dec = d /\ entries'[i].status = to
        /\ DOMAIN entries' = DOMAIN entries
    BY DEF OneRowMoves
  <1> HIDE DEF d
  <1>8. ASSUME NEW j \in DOMAIN entries'
        PROVE  /\ costs'[entries'[j].dec] = 1
               /\ llmRejects'[entries'[j].dec] = 0
               /\ rejects'[entries'[j].dec] =
                    IF entries'[j].status = "rejected" THEN 1 ELSE 0
               /\ expires'[entries'[j].dec] =
                    IF entries'[j].status = "expired" THEN 1 ELSE 0
    <2>1. CASE j = i
      BY <2>1, <1>1, <1>2, <1>7
    <2>2. CASE j # i
      BY <2>2, <1>3, <1>6, <1>7 DEF RowStory
    <2>3. QED
      BY <2>1, <2>2
  <1>9. ASSUME NEW c \in Decisions, ~HasEntry(c)'
        PROVE  rejects'[c] = 0 /\ expires'[c] = 0 /\ costs'[c] = llmRejects'[c]
    BY <1>3, <1>4, <1>5, <1>9 DEF RowStory
  <1>10. QED
    BY <1>8, <1>9 DEF RowStory

\* One more expire row for each due decision, none for the others.
LEMMA SweepStory ==
    ASSUME TypeOK, OneRow, RowStory, NEW w \in Workers, Sweep(w)
    PROVE  RowStory'
  <1> DEFINE due == Due(req[w].at)
  <1>1. /\ DOMAIN entries' = DOMAIN entries
        /\ \A j \in DOMAIN entries :
              /\ entries'[j].dec = entries[j].dec
              /\ entries'[j].status = IF j \in due THEN "expired"
                                      ELSE entries[j].status
    BY SweepMoves
  <1>2. due \subseteq DOMAIN entries
        /\ \A j \in due : entries[j].status = "pending_confirm"
    BY DEF Due
  <1>3. /\ UNCHANGED <<costs, llmRejects, rejects>>
        /\ \A d \in Decisions : expires'[d] =
              expires[d] + Cardinality({i \in due : entries[i].dec = d})
    BY DEF Sweep
  <1>4. \A c : HasEntry(c)' <=> HasEntry(c)
    BY <1>1 DEF HasEntry
  <1> HIDE DEF due
  <1>5. ASSUME NEW j \in DOMAIN entries
        PROVE  Cardinality({i \in due : entries[i].dec = entries[j].dec}) =
                 IF j \in due THEN 1 ELSE 0
    <2>1. {i \in due : entries[i].dec = entries[j].dec} =
             IF j \in due THEN {j} ELSE {}
      BY <1>2 DEF OneRow
    <2>2. Cardinality({j}) = 1 /\ Cardinality({}) = 0
      BY FS_Singleton, FS_EmptySet
    <2>3. QED
      BY <2>1, <2>2
  <1>6. ASSUME NEW d \in Decisions, ~HasEntry(d)
        PROVE  Cardinality({i \in due : entries[i].dec = d}) = 0
    <2>1. {i \in due : entries[i].dec = d} = {}
      BY <1>2, <1>6 DEF HasEntry
    <2>2. QED
      BY <2>1, FS_EmptySet
  <1>7. ASSUME NEW j \in DOMAIN entries'
        PROVE  /\ costs'[entries'[j].dec] = 1
               /\ llmRejects'[entries'[j].dec] = 0
               /\ rejects'[entries'[j].dec] =
                    IF entries'[j].status = "rejected" THEN 1 ELSE 0
               /\ expires'[entries'[j].dec] =
                    IF entries'[j].status = "expired" THEN 1 ELSE 0
    <2>1. j \in DOMAIN entries /\ entries[j].dec \in Decisions
      BY <1>1, EntryType
    <2>2. expires'[entries[j].dec] =
             expires[entries[j].dec] + IF j \in due THEN 1 ELSE 0
      BY <2>1, <1>3, <1>5
    <2>3. expires[entries[j].dec] = IF entries[j].status = "expired" THEN 1 ELSE 0
      BY <2>1 DEF RowStory
    <2>4. QED
      BY <2>1, <2>2, <2>3, <1>1, <1>2, <1>3 DEF RowStory
  <1>8. ASSUME NEW c \in Decisions, ~HasEntry(c)'
        PROVE  rejects'[c] = 0 /\ expires'[c] = 0 /\ costs'[c] = llmRejects'[c]
    <2>1. /\ ~HasEntry(c)
          /\ rejects[c] = 0 /\ expires[c] = 0 /\ costs[c] = llmRejects[c]
      BY <1>4, <1>8 DEF RowStory
    <2>2. expires'[c] = 0 + 0
      BY <2>1, <1>3, <1>6
    <2>3. QED
      BY <2>1, <2>2, <1>3
  <1>9. QED
    BY <1>7, <1>8 DEF RowStory

\* The inductive invariant: TypeOK and the ids used once carry the rest.
OnceInv ==
    /\ TypeOK
    /\ PendingUnfilled
    /\ OrdersAccounted
    /\ IdsOnce
    /\ RowStory
    /\ FillMatchesStatus
    /\ ClocksBehind
    /\ NoEarlyExpiry

\* Every step keeps the story.
LEMMA StoryStep ==
    ASSUME TypeOK, IdsOnce, RowStory, [Next]_vars
    PROVE  RowStory'
  <1> USE DEF journal, brokerVars, exitRows
  <1>1. ASSUME NEW w \in Workers, NEW s \in Sizings, DecideEnter(w, s)
        PROVE  RowStory'
    <2> DEFINE d == req[w].dec
    <2>1. PICK n \in Nat :
             /\ DOMAIN entries = 1..n
             /\ DOMAIN entries' = 1..(n + 1)
             /\ \A j \in DOMAIN entries : entries'[j] = entries[j]
             /\ entries'[n + 1].dec = d
             /\ entries'[n + 1].status = "pending_confirm"
      BY <1>1, EnterFacts
    <2>2. /\ d \in Decisions /\ ~HasEntry(d) /\ llmRejects[d] = 0
          /\ costs' = AddRow(costs, d) /\ costs \in [Decisions -> Nat]
          /\ UNCHANGED <<rejects, expires, llmRejects>>
      BY <1>1 DEF DecideEnter, TypeOK, IdsOnce, DecidedByOne
    <2>3. costs'[d] = 1 /\ rejects[d] = 0 /\ expires[d] = 0
      BY <2>2, AddRowType DEF RowStory
    <2>4. \A c \in Decisions : c # d => costs'[c] = costs[c]
      BY <2>2, AddRowType
    <2>5. \A j \in DOMAIN entries : entries[j].dec \in Decisions /\ entries[j].dec # d
      BY <2>2, EntryType DEF HasEntry
    <2> HIDE DEF d
    <2>6. ASSUME NEW j \in DOMAIN entries'
          PROVE  /\ costs'[entries'[j].dec] = 1
                 /\ llmRejects'[entries'[j].dec] = 0
                 /\ rejects'[entries'[j].dec] =
                      IF entries'[j].status = "rejected" THEN 1 ELSE 0
                 /\ expires'[entries'[j].dec] =
                      IF entries'[j].status = "expired" THEN 1 ELSE 0
      <3>1. CASE j = n + 1
        BY <3>1, <2>1, <2>2, <2>3
      <3>2. CASE j \in DOMAIN entries
        BY <3>2, <2>1, <2>2, <2>4, <2>5 DEF RowStory
      <3>3. QED
        BY <3>1, <3>2, <2>1
    <2>7. ASSUME NEW c \in Decisions, ~HasEntry(c)'
          PROVE  rejects'[c] = 0 /\ expires'[c] = 0 /\ costs'[c] = llmRejects'[c]
      <3>1. c # d /\ ~HasEntry(c)
        BY <2>1, <2>7 DEF HasEntry
      <3>2. QED
        BY <3>1, <2>2, <2>4 DEF RowStory
    <2>8. QED
      BY <2>6, <2>7 DEF RowStory
  <1>2. ASSUME NEW w \in Workers, NEW parsed \in BOOLEAN, DecideReject(w, parsed)
        PROVE  RowStory'
    <2> DEFINE d == req[w].dec
    <2>1. /\ d \in Decisions /\ ~HasEntry(d)
          /\ costs' = AddRow(costs, d) /\ costs \in [Decisions -> Nat]
          /\ llmRejects' = AddRow(llmRejects, d) /\ llmRejects \in [Decisions -> Nat]
          /\ UNCHANGED <<entries, rejects, expires>>
      BY <1>2 DEF DecideReject, TypeOK, IdsOnce, DecidedByOne
    <2>2. \A j \in DOMAIN entries : entries[j].dec \in Decisions /\ entries[j].dec # d
      BY <2>1, EntryType DEF HasEntry
    <2>3. \A c \in Decisions : HasEntry(c)' <=> HasEntry(c)
      BY <2>1 DEF HasEntry
    <2>4. costs'[d] = costs[d] + 1 /\ llmRejects'[d] = llmRejects[d] + 1
      BY <2>1, AddRowType
    <2>5. \A c \in Decisions : c # d => costs'[c] = costs[c] /\ llmRejects'[c] = llmRejects[c]
      BY <2>1, AddRowType
    <2> HIDE DEF d
    <2>6. QED
      BY <2>1, <2>2, <2>3, <2>4, <2>5 DEF RowStory
  <1>3. ASSUME NEW w \in Workers, NEW d \in Decisions, Confirm(w, d)
        PROVE  RowStory'
    <2>1. CASE ConfirmFills(d, FALSE)
      <3>1. UNCHANGED <<costs, llmRejects, rejects, expires>>
        BY <2>1 DEF ConfirmFills
      <3>2. PICK i \in DOMAIN entries : OneRowMoves(i, "pending_confirm", "confirmed")
        BY <2>1, ConfirmFacts
      <3>3. "confirmed" \in Statuses \ {"pending_confirm"}
        BY DEF Statuses
      <3>4. QED
        BY <3>1, <3>2, <3>3, MovedRowStory DEF IdsOnce
    <2>2. CASE ConfirmRolledBack(d)
      BY <2>2 DEF ConfirmRolledBack, RowStory, HasEntry
    <2>3. QED
      BY <1>3, <2>1, <2>2 DEF Confirm
  <1>4. ASSUME NEW w \in Workers, NEW d \in Decisions, Reject(w, d)
        PROVE  RowStory'
    <2>1. UNCHANGED <<costs, llmRejects, expires>> /\ rejects' = AddRow(rejects, d)
      BY <1>4 DEF Reject
    <2>2. PICK i \in DOMAIN entries :
             entries[i].dec = d /\ OneRowMoves(i, "pending_confirm", "rejected")
      BY <1>4, RejectFacts
    <2>3. "rejected" \in Statuses \ {"pending_confirm"}
      BY DEF Statuses
    <2>4. QED
      BY <2>1, <2>2, <2>3, MovedRowStory DEF IdsOnce
  <1>5. ASSUME NEW w \in Workers, Sweep(w)
        PROVE  RowStory'
    BY <1>5, SweepStory DEF IdsOnce
  <1>6. CASE UNCHANGED <<entries, costs, llmRejects, rejects, expires>>
    BY <1>6 DEF RowStory, HasEntry
  <1>7. ASSUME NEW w \in Workers, Request(w)
        PROVE  UNCHANGED <<entries, costs, llmRejects, rejects, expires>>
    BY <1>7, RequestFacts
  <1>8. QED
    BY <1>1, <1>2, <1>3, <1>4, <1>5, <1>6, <1>7
       DEF Next, Decider, DecideStart, Gate, Refuse, SweepStart, Tick, vars

\* What a step does to the row of one decision: it moves along an edge of the
\* lifecycle, its fill and its status change together, and it expires only
\* when its timeout has passed.
RowStep ==
    /\ DOMAIN entries \subseteq DOMAIN entries'
    /\ \A i \in DOMAIN entries :
          /\ entries'[i].dec = entries[i].dec
          /\ entries'[i].created = entries[i].created
          /\ entries'[i].status # entries[i].status =>
                <<entries[i].status, entries'[i].status>> \in Edges
          /\ \/ /\ entries'[i].status = entries[i].status
                /\ entries'[i].fill = entries[i].fill
             \/ entries'[i].status = "confirmed" /\ entries'[i].fill # 0
             \/ /\ entries[i].status = "pending_confirm"
                /\ entries'[i].status \in {"rejected", "expired"}
                /\ entries'[i].fill = entries[i].fill
          /\ entries'[i].status = "expired" /\ entries[i].status # "expired" =>
                entries[i].created + Timeout < now
    /\ \A i \in DOMAIN entries' \ DOMAIN entries :
          entries'[i].status = "pending_confirm" /\ entries'[i].fill = 0

\* Every step moves each row along the lifecycle, or leaves it.
LEMMA RowSteps ==
    ASSUME TypeOK, IdsOnce, ClocksBehind, [Next]_vars
    PROVE  RowStep
  <1> USE DEF journal, brokerVars, exitRows
  <1>1. ASSUME NEW w \in Workers, NEW s \in Sizings, DecideEnter(w, s)
        PROVE  RowStep
    BY <1>1, EnterFacts DEF RowStep
  <1>2. ASSUME NEW w \in Workers, NEW d \in Decisions, Confirm(w, d)
        PROVE  RowStep
    <2>1. CASE ConfirmFills(d, FALSE)
      BY <2>1, ConfirmFacts DEF OneRowMoves, RowStep, Edges
    <2>2. CASE ConfirmRolledBack(d)
      BY <2>2 DEF ConfirmRolledBack, RowStep
    <2>3. QED
      BY <1>2, <2>1, <2>2 DEF Confirm
  <1>3. ASSUME NEW w \in Workers, NEW d \in Decisions, Reject(w, d)
        PROVE  RowStep
    BY <1>3, RejectFacts DEF OneRowMoves, RowStep, Edges
  <1>4. ASSUME NEW w \in Workers, Sweep(w)
        PROVE  RowStep
    <2>1. req[w].at <= now /\ req[w].at \in Time /\ now \in Time
      BY <1>4 DEF Sweep, ClocksBehind, TypeOK, Requests
    <2>2. \A i \in Due(req[w].at) : /\ entries[i].status = "pending_confirm"
                                    /\ entries[i].created + Timeout < now
      <3>1. ASSUME NEW i \in Due(req[w].at)
            PROVE  /\ entries[i].status = "pending_confirm"
                   /\ entries[i].created + Timeout < now
        <4>1. /\ i \in DOMAIN entries
              /\ entries[i].status = "pending_confirm"
              /\ entries[i].created + Timeout < req[w].at
          BY DEF Due
        <4>2. entries[i].created \in Nat /\ req[w].at \in Nat /\ now \in Nat
          BY <4>1, <2>1, EntryType, BoundsAssumption DEF Time
        <4>3. QED
          BY <4>1, <4>2, <2>1, BoundsAssumption
      <3>2. QED
        BY <3>1
    <2>3. QED
      BY <1>4, <2>2, SweepMoves DEF IdsOnce, RowStep, Edges
  <1>5. CASE UNCHANGED entries
    BY <1>5 DEF RowStep
  <1>6. ASSUME NEW w \in Workers, Request(w)
        PROVE  UNCHANGED entries
    BY <1>6, RequestFacts
  <1>7. QED
    BY <1>1, <1>2, <1>3, <1>4, <1>5, <1>6
       DEF Next, Decider, DecideStart, DecideReject, Gate, Refuse, SweepStart,
           Tick, vars

\* Clocks that were read stay in the past.
LEMMA ClocksStep ==
    ASSUME TypeOK, ClocksBehind, [Next]_vars
    PROVE  ClocksBehind' /\ now \in Nat /\ now' \in Nat /\ now <= now'
  <1> USE DEF journal, brokerVars, exitRows
  <1>1. now \in Nat
    BY BoundsAssumption DEF TypeOK, Time
  <1>2. now' = now \/ now' = now + 1
    BY RequestFacts DEF Next, Decider, DecideStart, DecideEnter, DecideReject,
           Gate, Confirm, Refuse, Reject, SweepStart, Sweep, Tick, vars
  <1>3. \A v \in Workers : req[v].at \in Nat
    BY BoundsAssumption DEF TypeOK, Requests, Time
  <1>4. ASSUME NEW w \in Workers, NEW r, req' = [req EXCEPT ![w] = r],
               r.pc \in {"deciding", "sweeping"} => r.at = now
        PROVE  ClocksBehind'
    BY <1>1, <1>2, <1>3, <1>4 DEF ClocksBehind, TypeOK
  <1>5. CASE UNCHANGED req
    BY <1>1, <1>2, <1>3, <1>5 DEF ClocksBehind
  <1>6. ASSUME NEW w \in Workers, Decider(w) \/ Gate(w)
        PROVE  ClocksBehind'
    <2>1. ASSUME NEW d \in Decisions, DecideStart(w, d) PROVE ClocksBehind'
      BY <2>1, <1>4, RequestFields DEF DecideStart
    <2>2. ASSUME NEW s \in Sizings, DecideEnter(w, s) PROVE ClocksBehind'
      BY <2>2, <1>4, RequestFields DEF DecideEnter
    <2>3. ASSUME NEW parsed \in BOOLEAN, DecideReject(w, parsed) PROVE ClocksBehind'
      BY <2>3, <1>4, RequestFields DEF DecideReject
    <2>4. ASSUME NEW d \in Decisions, Confirm(w, d) PROVE ClocksBehind'
      BY <2>4, <1>4, RequestFields DEF Confirm
    <2>5. ASSUME NEW d \in Decisions, Reject(w, d) PROVE ClocksBehind'
      BY <2>5, <1>4, RequestFields DEF Reject
    <2>6. ASSUME Refuse(w) \/ SweepStart(w) PROVE ClocksBehind'
      BY <2>6, <1>4, RequestFields DEF Refuse, SweepStart
    <2>7. ASSUME Sweep(w) PROVE ClocksBehind'
      BY <2>7, <1>4, SweepFacts, RequestFields
    <2>8. QED
      BY <1>6, <2>1, <2>2, <2>3, <2>4, <2>5, <2>6, <2>7 DEF Decider, Gate
  <1>7. ASSUME NEW w \in Workers, Request(w)
        PROVE  ClocksBehind'
    <2>1. PICK r : /\ req' = [req EXCEPT ![w] = r]
                   /\ r.pc \in {"idle", "emitting"}
      BY <1>7, RequestFacts
    <2>2. QED
      BY <2>1, <1>4
  <1>8. QED
    BY <1>1, <1>2, <1>5, <1>6, <1>7 DEF Next, Tick, vars

\* The invariant is inductive.
LEMMA OnceStep ==
    ASSUME MaxAttempts = 1
    PROVE  OnceInv /\ [Next]_vars => OnceInv' /\ RowStep
  <1> SUFFICES ASSUME OnceInv, [Next]_vars PROVE OnceInv' /\ RowStep
    OBVIOUS
  <1> USE DEF OnceInv
  <1>1. TypeOK' /\ IdsOnce' /\ RowStory' /\ ClocksBehind' /\ RowStep
    BY NextType, IdsStep, StoryStep, ClocksStep, RowSteps
  <1>2. PendingUnfilled' /\ OrdersAccounted'
    <2>1. ASSUME NEW w \in Workers, NEW d \in Decisions, Confirm(w, d)
          PROVE  PendingUnfilled' /\ OrdersAccounted'
      BY <2>1, FillsStep, RolledBackStep DEF Confirm
    <2>2. QED
      BY <2>1, OtherSteps, KeepsFillsStep
  <1>3. FillMatchesStatus'
    BY <1>1 DEF RowStep, FillMatchesStatus
  <1>4. NoEarlyExpiry'
    <2>1. ASSUME NEW i \in DOMAIN entries', entries'[i].status = "expired"
          PROVE  entries'[i].created + Timeout < now'
      <3>1. /\ i \in DOMAIN entries
            /\ entries'[i].created = entries[i].created
            /\ entries[i].created + Timeout < now
        BY <2>1, <1>1 DEF RowStep, NoEarlyExpiry
      <3>2. entries[i].created \in Nat /\ Timeout \in Nat
        BY <3>1, EntryType, BoundsAssumption DEF Time
      <3>3. now \in Nat /\ now' \in Nat /\ now <= now'
        BY ClocksStep
      <3>4. QED
        BY <3>1, <3>2, <3>3
    <2>2. QED
      BY <2>1 DEF NoEarlyExpiry
  <1>5. QED
    BY <1>1, <1>2, <1>3, <1>4

\* The invariant holds at the start.
LEMMA OnceInit == Init => OnceInv
  <1> SUFFICES ASSUME Init PROVE OnceInv
    OBVIOUS
  <1>1. /\ entries = <<>> /\ orders = <<>>
        /\ \A d \in Decisions : /\ attempts[d] = 0 /\ llmRejects[d] = 0
                                /\ rejects[d] = 0 /\ expires[d] = 0 /\ costs[d] = 0
        /\ \A w \in Workers : req[w].pc = "idle"
    BY RequestFields DEF Init, JournalInit
  <1>2. PendingUnfilled /\ OrdersAccounted /\ FillMatchesStatus /\ NoEarlyExpiry
    BY <1>1 DEF PendingUnfilled, OrdersAccounted, FillMatchesStatus, NoEarlyExpiry
  <1>3. IdsOnce /\ RowStory /\ ClocksBehind
    BY <1>1 DEF IdsOnce, OneRow, UsedOnce, DecidedByOne, RowStory, ClocksBehind
  <1>4. QED
    BY <1>2, <1>3, InitType DEF OnceInv

\* The invariant of the decided-once gate.
LEMMA OnceInvariant == ASSUME MaxAttempts = 1 PROVE Spec => []OnceInv
  <1>1. OnceInv /\ [Next]_vars => OnceInv'
    BY OnceStep
  <1>2. QED
    BY <1>1, OnceInit, PTL DEF Spec

\* A bought row is exactly a confirmed or closed one: nothing rejected or
\* expired was bought, whatever raced.
THEOREM BoughtIffConfirmed ==
    ASSUME MaxAttempts = 1 PROVE Spec => []FillMatchesStatus
  <1>1. OnceInv => FillMatchesStatus
    BY DEF OnceInv
  <1>2. QED
    BY <1>1, OnceInvariant, PTL

\* The journal tells one story per decision.
THEOREM OneStory ==
    ASSUME MaxAttempts = 1 PROVE Spec => []OneStoryPerDecision
  <1>1. OnceInv => OneStoryPerDecision
    BY StoryFromRows DEF OnceInv, IdsOnce
  <1>2. QED
    BY <1>1, OnceInvariant, PTL

\* No entry expires before its timeout.
THEOREM ExpiryWaits ==
    ASSUME MaxAttempts = 1 PROVE Spec => []NoEarlyExpiry
  <1>1. OnceInv => NoEarlyExpiry
    BY DEF OnceInv
  <1>2. QED
    BY <1>1, OnceInvariant, PTL

\* No decision is bought twice: two orders for one decision are the fills of
\* two rows of it, and there is only one.
THEOREM BoughtOnce ==
    ASSUME MaxAttempts = 1 PROVE Spec => []OneBuyPerDecision
  <1>1. OnceInv => OneBuyPerDecision
    <2> SUFFICES ASSUME OnceInv, NEW o \in DOMAIN orders \ lost,
                        NEW p \in DOMAIN orders \ lost, orders[o] = orders[p]
                 PROVE  o = p
      BY DEF OneBuyPerDecision
    <2>1. PICK i \in DOMAIN entries : entries[i].fill = o /\ entries[i].dec = orders[o]
      BY DEF OnceInv, OrdersAccounted
    <2>2. PICK j \in DOMAIN entries : entries[j].fill = p /\ entries[j].dec = orders[p]
      BY DEF OnceInv, OrdersAccounted
    <2>3. i = j
      BY <2>1, <2>2 DEF OnceInv, IdsOnce, OneRow
    <2>4. QED
      BY <2>1, <2>2, <2>3
  <1>2. QED
    BY <1>1, OnceInvariant, PTL

\* Statuses move along the documented lifecycle only.
THEOREM LifecycleKept ==
    ASSUME MaxAttempts = 1 PROVE Spec => Lifecycle
  <1>1. OnceInv /\ [Next]_vars =>
          [\A i \in DOMAIN entries :
              /\ i \in DOMAIN entries'
              /\ entries'[i].dec = entries[i].dec
              /\ entries'[i].created = entries[i].created
              /\ entries'[i].status # entries[i].status =>
                    <<entries[i].status, entries'[i].status>> \in Edges]_vars
    BY OnceStep DEF RowStep
  <1>2. QED
    BY <1>1, OnceInvariant, PTL DEF Spec, Lifecycle

=============================================================================
