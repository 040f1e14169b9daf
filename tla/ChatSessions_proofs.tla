------------------------ MODULE ChatSessions_proofs ------------------------
(***************************************************************************)
(* Proofs about chat sessions, for any number of sessions, of requests     *)
(* that send, of deletions, and of turns.                                  *)
(***************************************************************************)
EXTENDS ChatSessions, SequenceTheorems, FiniteSetTheorems, WellFoundedInduction, TLAPS

-----------------------------------------------------------------------------
\* Types.  What the model is sent and the events of a response are left out:
\* nothing below depends on them.
Pcs == {"idle", "checked", "stored", "asking", "streaming", "ending", "touching", "titling",
        "closing", "over"}

Rows == [session : Sessions, by : Requests, role : {"user", "assistant"}, text : Nat,
         calls : Nat, marker : BOOLEAN, cost : Nat]

\* A request has the fields of Idle.
IsRequest(me) ==
    /\ me \in [pc : Pcs, session : Sessions \cup {"none"}, history : {me.history},
              turn : {me.turn}, events : {me.events}, text : Nat, calls : Nat,
              final : BOOLEAN, cancelled : BOOLEAN, cost : Nat]
    /\ me.pc # "idle" => me.session \in Sessions

SessionRows == [status : {"active", "deleted"}, updated : {"creation", "message", "deletion"},
                title : {"fallback", "given", "generated"}]

ChatTypes ==
    /\ DOMAIN sessions \subseteq Sessions
    /\ sessions \in [DOMAIN sessions -> SessionRows]
    /\ messages \in Seq(Rows)
    /\ costs \in Seq(Requests)
    /\ req = [r \in Requests |-> req[r]]
    /\ \A r \in Requests : IsRequest(req[r])
    /\ title = [r \in Requests |-> title[r]]
    /\ deleting = [d \in Deleters |-> deleting[d]]
    /\ shown \in [Requests -> [text : Nat, calls : Nat, done : BOOLEAN]]

-----------------------------------------------------------------------------
\* What is stored of a request, by where it stands

\* Nothing, before its question is.
Unasked(r) == {i \in DOMAIN messages : messages[i].by = r} = {}

\* One question, in the session of the request.
Asked(r) ==
    \E i \in DOMAIN messages : QuestionOf(r) = {i} /\ messages[i].session = req[r].session

\* At most one answer, after the question, with a cost row of the request.
Answered(r) ==
    \/ AnswerOf(r) = {}
    \/ \E k \in DOMAIN messages :
          /\ AnswerOf(r) = {k}
          /\ \A i \in QuestionOf(r) : i < k
          /\ messages[k].session = req[r].session
          /\ messages[k].text = req[r].text /\ messages[k].calls = req[r].calls
          /\ messages[k].marker = req[r].cancelled
          /\ messages[k].cost = IF req[r].final THEN req[r].cost ELSE 0

\* What the client was shown is what event_stream has gathered, up to the end ...
InStep(r) ==
    /\ ~shown[r].done /\ ~req[r].final /\ ~req[r].cancelled
    /\ req[r].text = shown[r].text /\ req[r].calls = shown[r].calls

\* ... where the last event may have been gathered and not shown.
Gathered(r) ==
    /\ req[r].text >= shown[r].text /\ req[r].calls >= shown[r].calls
    /\ req[r].final => req[r].cost \in DOMAIN costs /\ costs[req[r].cost] = r
    /\ shown[r].done => /\ req[r].final /\ ~req[r].cancelled
                        /\ req[r].text = shown[r].text /\ req[r].calls = shown[r].calls

\* An answer is there when it is worth one.
AnswerThere(r) == WorthStoring(req[r]) => AnswerOf(r) # {}

SeenInv(r) ==
    /\ req[r].pc \in {"idle", "checked"} => Unasked(r)
    /\ req[r].pc \in Pcs \ {"idle", "checked", "over"} => Asked(r)
    /\ req[r].pc \in {"stored", "asking", "streaming", "ending"} => AnswerOf(r) = {}
    /\ req[r].pc \in {"idle", "checked", "stored", "asking", "streaming"} => InStep(r)
    /\ req[r].pc \in {"ending", "touching", "titling", "closing"} => Gathered(r)
    /\ req[r].pc \in {"touching", "titling", "closing"} => Answered(r) /\ AnswerThere(r)

ChatInv == ChatTypes /\ \A r \in Requests : SeenInv(r)

-----------------------------------------------------------------------------
\* Steps keep the types

\* A new row is the last; the others stay.
LEMMA NewRow ==
    ASSUME ChatTypes, NEW m \in Rows, messages' = Append(messages, m)
    PROVE  /\ messages' \in Seq(Rows)
           /\ DOMAIN messages = 1..Len(messages) /\ Len(messages) \in Nat
           /\ DOMAIN messages' = DOMAIN messages \cup {Len(messages) + 1}
           /\ Len(messages') = Len(messages) + 1
           /\ \A i \in DOMAIN messages : messages'[i] = messages[i] /\ i < Len(messages) + 1
           /\ messages'[Len(messages) + 1] = m
  <1>1. messages \in Seq(Rows) /\ messages' = Append(messages, m)
    BY DEF ChatTypes
  <1>2. QED
    BY <1>1, AppendProperties, LenProperties

\* The cost rows only grow.
CostsGrow ==
    /\ DOMAIN costs \subseteq DOMAIN costs'
    /\ \A i \in DOMAIN costs : costs'[i] = costs[i]

\* What the agent writes when it yields an event.
LEMMA NewCost ==
    ASSUME ChatTypes, NEW r \in Requests, Account(r)
    PROVE  /\ costs' \in Seq(Requests) /\ CostsGrow
           /\ Head(req[r].events) = "done" => /\ Len(costs') \in DOMAIN costs'
                                              /\ costs'[Len(costs')] = r
                                              /\ Len(costs') \in Nat
  <1>1. costs \in Seq(Requests)
    BY DEF ChatTypes
  <1>2. CASE Head(req[r].events) = "done"
    <2>1. costs' = Append(costs, r)
      BY <1>2 DEF Account
    <2>2. /\ costs' \in Seq(Requests) /\ Len(costs') = Len(costs) + 1 /\ Len(costs) \in Nat
          /\ DOMAIN costs' = 1..Len(costs') /\ DOMAIN costs = 1..Len(costs)
          /\ costs'[Len(costs) + 1] = r
          /\ \A i \in 1..Len(costs) : costs'[i] = costs[i]
      BY <1>1, <2>1, AppendProperties, LenProperties
    <2>3. QED
      BY <2>2 DEF CostsGrow
  <1>3. CASE Head(req[r].events) # "done"
    BY <1>1, <1>3 DEF Account, CostsGrow
  <1>4. QED
    BY <1>2, <1>3

\* Only the request that takes the step changes.
OnlyRequest(r) == \A q \in Requests : q # r => req'[q] = req[q]

\* What a request looks like after a step in which another record replaces it.
LEMMA NewRequest ==
    ASSUME ChatTypes, NEW r \in Requests, NEW me, req' = [req EXCEPT ![r] = me]
    PROVE  /\ req' = [q \in Requests |-> req'[q]]
           /\ req'[r] = me
           /\ OnlyRequest(r)
           /\ IsRequest(me) => \A q \in Requests : IsRequest(req'[q])
  BY DEF ChatTypes, OnlyRequest

\* What event_stream gathers does not depend on where the request stands.
SameGathered(me, you) ==
    /\ you.session = me.session /\ you.text = me.text /\ you.calls = me.calls
    /\ you.final = me.final /\ you.cancelled = me.cancelled /\ you.cost = me.cost

\* event_stream gathers one event.
LEMMA NotedFields ==
    ASSUME ChatTypes, NEW r \in Requests, Account(r)
    PROVE  /\ IsRequest(Noted(r, req[r]))
           /\ Noted(r, req[r]).pc = req[r].pc
           /\ Noted(r, req[r]).session = req[r].session
           /\ Noted(r, req[r]).history = req[r].history
           /\ Noted(r, req[r]).text
                = req[r].text + (IF Head(req[r].events) = "delta" THEN 1 ELSE 0)
           /\ Noted(r, req[r]).calls
                = req[r].calls + (IF Head(req[r].events) = "tool_call" THEN 1 ELSE 0)
           /\ Noted(r, req[r]).final <=> req[r].final \/ Head(req[r].events) = "done"
           /\ Noted(r, req[r]).cancelled = req[r].cancelled
           /\ Noted(r, req[r]).cost
                = IF Head(req[r].events) = "done" THEN Len(costs') ELSE req[r].cost
  <1>1. IsRequest(req[r])
    BY DEF ChatTypes
  <1>2. Head(req[r].events) = "done" => Len(costs') \in Nat
    BY NewCost
  <1> DEFINE me == req[r]
             e == Head(me.events)
             more == me.final \/ e = "done"
             cost == IF e = "done" THEN Len(costs') ELSE me.cost
             rest == Tail(me.events)
             text == me.text + (IF e = "delta" THEN 1 ELSE 0)
             calls == me.calls + (IF e = "tool_call" THEN 1 ELSE 0)
             you == [me EXCEPT !.events = rest, !.text = text, !.calls = calls,
                               !.final = more, !.cost = cost]
  <1>3. Noted(r, req[r]) = you
    BY <1>1 DEF Noted, IsRequest
  <1>4. more \in BOOLEAN /\ cost \in Nat /\ text \in Nat /\ calls \in Nat
    BY <1>1, <1>2 DEF IsRequest
  <1>5. IsRequest(you) /\ you.pc = me.pc /\ you.session = me.session
        /\ you.history = me.history /\ you.cancelled = me.cancelled /\ you.final = more /\ you.cost = cost
        /\ you.text = text /\ you.calls = calls
    <2>1. IsRequest(me)
      BY <1>1
    <2> HIDE DEF more, cost, rest, text, calls, me
    <2> QED BY <2>1, <1>4 DEF IsRequest
  <1>6. QED
    BY <1>3, <1>5

\* What follows an event: the end of the stream, the next turn, the next event.
LEMMA AfterEventFields ==
    ASSUME NEW me, IsRequest(me), me.pc # "idle", NEW e
    PROVE  /\ IsRequest(AfterEvent(me, e))
           /\ SameGathered(me, AfterEvent(me, e))
           /\ AfterEvent(me, e).history = me.history
           /\ AfterEvent(me, e).pc \in {me.pc, "asking", "ending"}
           /\ e = "done" => AfterEvent(me, e).pc = "ending"
  <1>1. CASE e \in {"done", "error"}
    <2>1. AfterEvent(me, e) = [me EXCEPT !.pc = "ending"]
      BY <1>1 DEF AfterEvent
    <2>2. QED
      BY <2>1 DEF IsRequest, SameGathered, Pcs
  <1>2. CASE e \notin {"done", "error"}
    <2> DEFINE turn == me.turn + 1
    <2>1. CASE me.events = <<>>
      <3>1. AfterEvent(me, e) = [me EXCEPT !.pc = "asking", !.turn = turn]
        BY <1>2, <2>1 DEF AfterEvent
      <3> HIDE DEF turn
      <3>2. IsRequest([me EXCEPT !.pc = "asking", !.turn = turn])
        BY DEF IsRequest, Pcs
      <3>3. SameGathered(me, [me EXCEPT !.pc = "asking", !.turn = turn])
        BY DEF IsRequest, SameGathered
      <3>4. /\ [me EXCEPT !.pc = "asking", !.turn = turn].pc = "asking"
            /\ [me EXCEPT !.pc = "asking", !.turn = turn].history = me.history
        BY DEF IsRequest
      <3>6. QED
        BY <1>2, <3>1, <3>2, <3>3, <3>4
    <2>2. CASE me.events # <<>>
      <3>1. AfterEvent(me, e) = me
        BY <1>2, <2>2 DEF AfterEvent
      <3>2. QED
        BY <1>2, <3>1 DEF SameGathered
    <2>3. QED
      BY <2>1, <2>2
  <1>3. QED
    BY <1>1, <1>2

\* What the client is shown of an event.
LEMMA ShownFields ==
    ASSUME ChatTypes, NEW r \in Requests, Deliver(r)
    PROVE  /\ shown' \in [Requests -> [text : Nat, calls : Nat, done : BOOLEAN]]
           /\ \A q \in Requests \ {r} : shown'[q] = shown[q]
           /\ shown'[r].text
                = shown[r].text + (IF Head(req[r].events) = "delta" THEN 1 ELSE 0)
           /\ shown'[r].calls
                = shown[r].calls + (IF Head(req[r].events) = "tool_call" THEN 1 ELSE 0)
           /\ shown'[r].done <=> shown[r].done \/ Head(req[r].events) = "done"
  <1> DEFINE e == Head(req[r].events)
             done == shown[r].done \/ e = "done"
             text == shown[r].text + (IF e = "delta" THEN 1 ELSE 0)
             calls == shown[r].calls + (IF e = "tool_call" THEN 1 ELSE 0)
             new == [shown[r] EXCEPT !.text = text, !.calls = calls, !.done = done]
  <1>1. shown \in [Requests -> [text : Nat, calls : Nat, done : BOOLEAN]]
    BY DEF ChatTypes
  <1>2. shown' = [shown EXCEPT ![r] = new]
    BY <1>1 DEF Deliver
  <1>3. text \in Nat /\ calls \in Nat /\ done \in BOOLEAN
    BY <1>1
  <1>4. /\ new \in [text : Nat, calls : Nat, done : BOOLEAN]
        /\ new.text = text /\ new.calls = calls /\ new.done = done
    <2> HIDE DEF text, calls, done
    <2> QED BY <1>1, <1>3
  <1>5. shown'[r] = new /\ \A q \in Requests \ {r} : shown'[q] = shown[q]
    <2> HIDE DEF new
    <2> QED BY <1>1, <1>2
  <1>6. shown' \in [Requests -> [text : Nat, calls : Nat, done : BOOLEAN]]
    <2> HIDE DEF new
    <2> QED BY <1>1, <1>2, <1>4
  <1>7. QED
    BY <1>4, <1>5, <1>6

\* A session that is written to, deleted or titled stays a session.
LEMMA SessionFields ==
    ASSUME NEW row \in SessionRows
    PROVE  /\ [row EXCEPT !.updated = "message"] \in SessionRows
           /\ [row EXCEPT !.status = "deleted", !.updated = "deletion"] \in SessionRows
           /\ [row EXCEPT !.title = "generated"] \in SessionRows
  <1>1. [row EXCEPT !.updated = "message"] \in SessionRows
    BY DEF SessionRows
  <1>2. [row EXCEPT !.status = "deleted"] \in SessionRows
    BY DEF SessionRows
  <1>3. \A other \in SessionRows : [other EXCEPT !.updated = "deletion"] \in SessionRows
    BY DEF SessionRows
  <1>4. [row EXCEPT !.status = "deleted", !.updated = "deletion"]
          = [[row EXCEPT !.status = "deleted"] EXCEPT !.updated = "deletion"]
    OBVIOUS
  <1>5. [row EXCEPT !.status = "deleted", !.updated = "deletion"] \in SessionRows
    BY <1>2, <1>3, <1>4
  <1>6. [row EXCEPT !.title = "generated"] \in SessionRows
    BY DEF SessionRows
  <1>7. QED
    BY <1>1, <1>5, <1>6

\* The steps that change a session keep the sessions typed.
LEMMA SessionField ==
    ASSUME ChatTypes, NEW s,
           \/ TouchSession(s)
           \/ sessions' = [sessions EXCEPT ![s].status = "deleted", ![s].updated = "deletion"]
           \/ sessions' = [sessions EXCEPT ![s].title = "generated"]
    PROVE  /\ DOMAIN sessions' = DOMAIN sessions
           /\ sessions' \in [DOMAIN sessions -> SessionRows]
  <1>1. sessions \in [DOMAIN sessions -> SessionRows]
    BY DEF ChatTypes
  <1>2. ASSUME NEW x, sessions' = [sessions EXCEPT ![s] = x],
               s \in DOMAIN sessions => x \in SessionRows
        PROVE  /\ DOMAIN sessions' = DOMAIN sessions
               /\ sessions' \in [DOMAIN sessions -> SessionRows]
    BY <1>1, <1>2
  <1>3. CASE TouchSession(s)
    <2>1. s \in DOMAIN sessions => [sessions[s] EXCEPT !.updated = "message"] \in SessionRows
      BY <1>1, SessionFields
    <2>2. QED
      BY <1>2, <1>3, <2>1 DEF TouchSession
  <1>4. CASE sessions' = [sessions EXCEPT ![s].status = "deleted", ![s].updated = "deletion"]
    <2>1. s \in DOMAIN sessions => [sessions[s] EXCEPT !.status = "deleted",
                                                     !.updated = "deletion"] \in SessionRows
      BY <1>1, SessionFields
    <2>2. QED
      BY <1>2, <1>4, <2>1
  <1>5. CASE sessions' = [sessions EXCEPT ![s].title = "generated"]
    <2>1. s \in DOMAIN sessions => [sessions[s] EXCEPT !.title = "generated"] \in SessionRows
      BY <1>1, SessionFields
    <2>2. QED
      BY <1>2, <1>5, <2>1
  <1>6. QED
    BY <1>3, <1>4, <1>5

\* Every step keeps the types.
LEMMA TypeStep == ChatTypes /\ [Next]_chatVars => ChatTypes'
  <1> SUFFICES ASSUME ChatTypes, [Next]_chatVars PROVE ChatTypes'
    OBVIOUS
  <1>1. ASSUME NEW s \in Sessions, NEW given \in BOOLEAN, Create(s, given) PROVE ChatTypes'
    <2>1. /\ DOMAIN sessions' \subseteq Sessions
          /\ sessions' \in [DOMAIN sessions' -> SessionRows]
      BY <1>1 DEF Create, ChatTypes, SessionRows
    <2>2. QED
      BY <1>1, <2>1 DEF Create, ChatTypes
  <1>2. ASSUME NEW d \in Deleters, NEW s \in Sessions, DeleteRead(d, s) PROVE ChatTypes'
    BY <1>2 DEF DeleteRead, ChatTypes
  <1>3. ASSUME NEW d \in Deleters, DeleteWrite(d) PROVE ChatTypes'
    <2>1. /\ DOMAIN sessions' = DOMAIN sessions
          /\ sessions' \in [DOMAIN sessions -> SessionRows]
      BY <1>3, SessionField DEF DeleteWrite
    <2>2. QED
      BY <1>3, <2>1 DEF DeleteWrite, ChatTypes
  <1>4. ASSUME NEW r \in Requests, NEW s \in Sessions, Check(r, s) PROVE ChatTypes'
    <2> DEFINE me == [req[r] EXCEPT !.pc = "checked", !.session = s]
    <2>1. req' = [req EXCEPT ![r] = me]
      BY <1>4 DEF Check
    <2>2. IsRequest(me)
      BY DEF ChatTypes, IsRequest, Pcs
    <2>3. QED
      BY <1>4, <2>1, <2>2, NewRequest DEF Check, ChatTypes
  <1>5. ASSUME NEW r \in Requests, StoreQuestion(r) PROVE ChatTypes'
    <2> DEFINE me == [req[r] EXCEPT !.pc = "stored"]
    <2>1. req' = [req EXCEPT ![r] = me]
      BY <1>5 DEF StoreQuestion
    <2>2. IsRequest(me)
      BY <1>5 DEF StoreQuestion, ChatTypes, IsRequest, Pcs
    <2>3. messages' \in Seq(Rows)
      <3>1. [session |-> req[r].session, by |-> r, role |-> "user", text |-> 1,
             calls |-> 0, marker |-> FALSE, cost |-> 0] \in Rows
        BY <1>5 DEF StoreQuestion, ChatTypes, IsRequest, Rows
      <3>2. QED
        BY <1>5, <3>1, NewRow DEF StoreQuestion, InsertMessage
    <2>4. QED
      BY <1>5, <2>1, <2>2, <2>3, NewRequest DEF StoreQuestion, ChatTypes
  <1>6. ASSUME NEW r \in Requests, Prepare(r) PROVE ChatTypes'
    <2> DEFINE rows == Trimmed(SelectMessages(req[r].session))
               me == [req[r] EXCEPT !.pc = "asking", !.turn = 1, !.history = rows]
    <2>1. req' = [req EXCEPT ![r] = me]
      BY <1>6 DEF Prepare
    <2>2. IsRequest(me)
      <3> HIDE DEF rows
      <3> QED BY <1>6 DEF Prepare, ChatTypes, IsRequest, Pcs
    <2>3. TouchSession(req[r].session)
      BY <1>6 DEF Prepare
    <2>4. /\ DOMAIN sessions' = DOMAIN sessions
          /\ sessions' \in [DOMAIN sessions -> SessionRows]
      BY <2>3, SessionField
    <2>5. UNCHANGED <<messages, costs, title, deleting, shown>>
      BY <1>6 DEF Prepare
    <2>6. QED
      <3> HIDE DEF me
      <3> QED BY <2>1, <2>2, <2>4, <2>5, NewRequest DEF ChatTypes
  <1>7. ASSUME NEW r \in Requests, NEW kind \in {"raise", "tools", "final"},
               NEW text \in BOOLEAN, NEW calls \in 0..MaxCalls, Answer(r, kind, text, calls)
        PROVE  ChatTypes'
    <2> DEFINE events == TurnEvents(r, kind, text, calls)
               me == [req[r] EXCEPT !.pc = "streaming", !.events = events]
    <2>1. req' = [req EXCEPT ![r] = me]
      BY <1>7 DEF Answer
    <2>2. IsRequest(me)
      <3> HIDE DEF events
      <3> QED BY <1>7 DEF Answer, ChatTypes, IsRequest, Pcs
    <2>3. UNCHANGED <<sessions, messages, costs, title, deleting, shown>>
      BY <1>7 DEF Answer
    <2>4. QED
      <3> HIDE DEF me
      <3> QED BY <2>1, <2>2, <2>3, NewRequest DEF ChatTypes

  <1>8. ASSUME NEW r \in Requests, Deliver(r) PROVE ChatTypes'
    <2> DEFINE e == Head(req[r].events)
               you == Noted(r, req[r])
               me == AfterEvent(you, e)
    <2>1. req' = [req EXCEPT ![r] = me] /\ Account(r) /\ req[r].pc = "streaming"
      BY <1>8 DEF Deliver
    <2>2. IsRequest(me)
      <3>1. IsRequest(you) /\ you.pc # "idle"
        BY <2>1, NotedFields
      <3> HIDE DEF you, e
      <3>2. QED
        BY <3>1, AfterEventFields
    <2>3. costs' \in Seq(Requests)
      BY <2>1, NewCost
    <2>4. shown' \in [Requests -> [text : Nat, calls : Nat, done : BOOLEAN]]
      BY <1>8, ShownFields
    <2>5. UNCHANGED <<sessions, messages, title, deleting, loop>>
      BY <1>8 DEF Deliver
    <2>6. QED
      <3> HIDE DEF me
      <3> QED BY <2>1, <2>2, <2>3, <2>4, <2>5, NewRequest DEF ChatTypes
  <1>9. ASSUME NEW r \in Requests, Disconnect(r) PROVE ChatTypes'
    <2>1. costs' \in Seq(Requests)
      BY <1>9, NewCost DEF Disconnect, ChatTypes
    <2>2. \E me : req' = [req EXCEPT ![r] = me] /\ IsRequest(me)
      <3>1. IsRequest(req[r])
        BY DEF ChatTypes
      <3>2. CASE /\ req[r].pc \in {"streaming", "asking"}
                 /\ req' = [req EXCEPT ![r].pc = "ending"]
        <4>1. IsRequest([req[r] EXCEPT !.pc = "ending"])
          BY <3>1, <3>2 DEF IsRequest, Pcs
        <4>2. QED
          BY <3>2, <4>1
      <3>3. CASE /\ req[r].pc = "streaming"
                 /\ req' = [req EXCEPT ![r].pc = "ending", ![r].cancelled = TRUE]
        <4>1. IsRequest([req[r] EXCEPT !.pc = "ending", !.cancelled = TRUE])
          BY <3>1, <3>3 DEF IsRequest, Pcs
        <4>2. QED
          BY <3>3, <4>1
      <3>4. CASE /\ req[r].pc = "streaming" /\ Account(r)
                 /\ req' = [req EXCEPT ![r] = [Noted(r, @) EXCEPT !.pc = "ending"]]
        <4> DEFINE you == Noted(r, req[r])
        <4>1. IsRequest(you) /\ you.pc = "streaming"
          BY <3>4, NotedFields
        <4>2. IsRequest([you EXCEPT !.pc = "ending"])
          <5> HIDE DEF you
          <5> QED BY <4>1 DEF IsRequest, Pcs
        <4>3. QED
          BY <3>4, <4>2
      <3>5. QED
        BY <1>9, <3>2, <3>3, <3>4 DEF Disconnect
    <2>3. UNCHANGED <<sessions, messages, title, deleting, loop, shown>>
      BY <1>9 DEF Disconnect
    <2>4. QED
      BY <2>1, <2>2, <2>3, NewRequest DEF ChatTypes
  <1>10. ASSUME NEW r \in Requests, StoreAnswer(r) PROVE ChatTypes'
    <2> DEFINE me(pc) == Ended(req[r], pc)
    <2>1. \E pc \in {"touching", "closing"} : req' = [req EXCEPT ![r] = me(pc)]
      BY <1>10 DEF StoreAnswer
    <2>2. ASSUME NEW pc \in {"touching", "closing"} PROVE IsRequest(me(pc))
      BY <1>10 DEF StoreAnswer, Ended, ChatTypes, IsRequest, Pcs
    <2>3. messages' \in Seq(Rows)
      <3> DEFINE row == [session |-> req[r].session, by |-> r, role |-> "assistant",
                         text |-> req[r].text, calls |-> req[r].calls,
                         marker |-> req[r].cancelled,
                         cost |-> IF req[r].final THEN req[r].cost ELSE 0]
      <3>1. row \in Rows
        BY <1>10 DEF StoreAnswer, ChatTypes, IsRequest, Rows
      <3>2. InsertMessage(row) \/ UNCHANGED messages
        BY <1>10 DEF StoreAnswer
      <3>3. QED
        BY <3>1, <3>2, NewRow DEF ChatTypes, InsertMessage
    <2>4. UNCHANGED <<sessions, costs, title, deleting, shown>>
      BY <1>10 DEF StoreAnswer
    <2>5. QED
      <3> HIDE DEF me
      <3> QED BY <2>1, <2>2, <2>3, <2>4, NewRequest DEF ChatTypes
  <1>11. ASSUME NEW r \in Requests, TouchAnswer(r) PROVE ChatTypes'
    <2> DEFINE me == [req[r] EXCEPT !.pc = "titling"]
    <2>1. req' = [req EXCEPT ![r] = me] /\ TouchSession(req[r].session)
      BY <1>11 DEF TouchAnswer
    <2>2. IsRequest(me)
      BY <1>11 DEF TouchAnswer, ChatTypes, IsRequest, Pcs
    <2>3. /\ DOMAIN sessions' = DOMAIN sessions
          /\ sessions' \in [DOMAIN sessions -> SessionRows]
      BY <2>1, SessionField
    <2>4. UNCHANGED <<messages, costs, title, deleting, loop, shown>>
      BY <1>11 DEF TouchAnswer
    <2>5. QED
      <3> HIDE DEF me
      <3> QED BY <2>1, <2>2, <2>3, <2>4, NewRequest DEF ChatTypes
  <1>12. ASSUME NEW r \in Requests, StartTitle(r) PROVE ChatTypes'
    <2> DEFINE me == [req[r] EXCEPT !.pc = "closing"]
    <2>1. req' = [req EXCEPT ![r] = me]
      BY <1>12 DEF StartTitle
    <2>2. IsRequest(me)
      BY <1>12 DEF StartTitle, ChatTypes, IsRequest, Pcs
    <2>3. title' = [q \in Requests |-> title'[q]]
      BY <1>12 DEF StartTitle, ChatTypes
    <2>4. UNCHANGED <<sessions, messages, costs, deleting, shown>>
      BY <1>12 DEF StartTitle
    <2>5. QED
      <3> HIDE DEF me
      <3> QED BY <2>1, <2>2, <2>3, <2>4, NewRequest DEF ChatTypes
  <1>13. ASSUME NEW r \in Requests, CloseConnection(r) PROVE ChatTypes'
    <2> DEFINE me == [Idle EXCEPT !.pc = "over", !.session = req[r].session]
    <2>1. req' = [req EXCEPT ![r] = me]
      BY <1>13 DEF CloseConnection
    <2>2. IsRequest(me)
      BY <1>13 DEF CloseConnection, ChatTypes, IsRequest, Pcs, Idle
    <2>3. shown' \in [Requests -> [text : Nat, calls : Nat, done : BOOLEAN]]
      BY <1>13 DEF CloseConnection, ChatTypes, Nothing
    <2>4. UNCHANGED <<sessions, messages, costs, title, deleting, loop>>
      BY <1>13 DEF CloseConnection
    <2>5. QED
      <3> HIDE DEF me
      <3> QED BY <2>1, <2>2, <2>3, <2>4, NewRequest DEF ChatTypes
  <1>14. ASSUME NEW r \in Requests, FinishTitle(r) PROVE ChatTypes'
    <2>1. /\ DOMAIN sessions' = DOMAIN sessions
          /\ sessions' \in [DOMAIN sessions -> SessionRows]
      BY <1>14, SessionField DEF FinishTitle, ChatTypes
    <2>2. QED
      BY <1>14, <2>1 DEF FinishTitle, ChatTypes
  <1>15. CASE UNCHANGED chatVars
    BY <1>15 DEF chatVars, ChatTypes
  <1>16. QED
    BY <1>1, <1>2, <1>3, <1>4, <1>5, <1>6, <1>7, <1>8, <1>9, <1>10, <1>11, <1>12, <1>13,
       <1>14, <1>15 DEF Next, Proceed

-----------------------------------------------------------------------------
\* Steps keep what is stored in line with what was seen

\* A step of r adds rows of r only.
RowsOnlyOf(r) ==
    /\ DOMAIN messages \subseteq DOMAIN messages'
    /\ \A i \in DOMAIN messages : messages'[i] = messages[i]
    /\ \A i \in DOMAIN messages' \ DOMAIN messages : messages'[i].by = r

\* The rows of the other requests are the same.
LEMMA OtherRows ==
    ASSUME NEW r, NEW q, q # r, RowsOnlyOf(r)
    PROVE  /\ QuestionOf(q)' = QuestionOf(q)
           /\ AnswerOf(q)' = AnswerOf(q)
           /\ Unasked(q) => Unasked(q)'
  BY DEF RowsOnlyOf, QuestionOf, AnswerOf, Unasked

\* A step of another request leaves what is stored of q and what q was shown.
LEMMA OtherSeen ==
    ASSUME NEW r, NEW q \in Requests, q # r, SeenInv(q), RowsOnlyOf(r), CostsGrow,
           req'[q] = req[q], shown'[q] = shown[q]
    PROVE  SeenInv(q)'
  <1>1. /\ QuestionOf(q)' = QuestionOf(q) /\ AnswerOf(q)' = AnswerOf(q)
        /\ Unasked(q) => Unasked(q)'
    BY OtherRows
  <1>2. Asked(q) => Asked(q)'
    BY <1>1 DEF Asked, RowsOnlyOf
  <1>3. Answered(q) => Answered(q)'
    BY <1>1 DEF Answered, RowsOnlyOf
  <1>4. (InStep(q) => InStep(q)') /\ (AnswerThere(q) => AnswerThere(q)')
    BY <1>1 DEF InStep, AnswerThere
  <1>5. Gathered(q) => Gathered(q)'
    BY DEF Gathered, CostsGrow
  <1>6. QED
    BY <1>1, <1>2, <1>3, <1>4, <1>5 DEF SeenInv

\* So it is enough to look at the request that takes the step.
LEMMA EnoughForOne ==
    ASSUME NEW r \in Requests, \A q \in Requests : SeenInv(q), RowsOnlyOf(r), CostsGrow,
           OnlyRequest(r), \A q \in Requests \ {r} : shown'[q] = shown[q], SeenInv(r)'
    PROVE  \A q \in Requests : SeenInv(q)'
  <1> SUFFICES ASSUME NEW q \in Requests PROVE SeenInv(q)'
    OBVIOUS
  <1>1. CASE q # r
    BY <1>1, OtherSeen DEF OnlyRequest
  <1>2. QED
    BY <1>1

\* The rows and the costs of a step that writes neither.
LEMMA NoRows ==
    ASSUME NEW r, UNCHANGED <<messages, costs>>
    PROVE  /\ RowsOnlyOf(r) /\ CostsGrow
           /\ \A q : /\ QuestionOf(q)' = QuestionOf(q) /\ AnswerOf(q)' = AnswerOf(q)
                     /\ Unasked(q)' <=> Unasked(q)
  BY DEF RowsOnlyOf, CostsGrow, QuestionOf, AnswerOf, Unasked

\* Steps of no request: what is seen and stored stays.
LEMMA SameSeen ==
    ASSUME \A q \in Requests : SeenInv(q), UNCHANGED <<messages, costs, req, shown>>
    PROVE  \A q \in Requests : SeenInv(q)'
  BY DEF SeenInv, Unasked, Asked, Answered, InStep, Gathered, AnswerThere, WorthStoring,
         QuestionOf, AnswerOf

\* A request that moves on, with what it has gathered and what is stored of it.
LEMMA MovesOn ==
    ASSUME NEW r \in Requests, SeenInv(r), UNCHANGED <<messages, costs>>,
           shown'[r] = shown[r], SameGathered(req[r], req'[r]),
           <<req[r].pc, req'[r].pc>> \in {<<"stored", "asking">>, <<"asking", "streaming">>,
                                          <<"touching", "titling">>, <<"titling", "closing">>}
    PROVE  SeenInv(r)'
  <1>1. /\ QuestionOf(r)' = QuestionOf(r) /\ AnswerOf(r)' = AnswerOf(r)
    BY NoRows
  <1>2. Asked(r) => Asked(r)'
    BY <1>1 DEF Asked, SameGathered
  <1>3. Answered(r) => Answered(r)'
    BY <1>1 DEF Answered, SameGathered
  <1>4. InStep(r) => InStep(r)'
    BY DEF InStep, SameGathered
  <1>5. Gathered(r) => Gathered(r)'
    BY DEF Gathered, SameGathered
  <1>6. AnswerThere(r) => AnswerThere(r)'
    BY <1>1 DEF AnswerThere, WorthStoring, SameGathered
  <1>7. QED
    BY <1>1, <1>2, <1>3, <1>4, <1>5, <1>6 DEF SeenInv, Pcs

\* The question is stored: the first row of the request.
LEMMA QuestionSeen ==
    ASSUME ChatTypes, NEW r \in Requests, SeenInv(r), StoreQuestion(r)
    PROVE  SeenInv(r)' /\ RowsOnlyOf(r) /\ (QuestionOf(r) = {Len(messages)})'
  <1> DEFINE row == [session |-> req[r].session, by |-> r, role |-> "user", text |-> 1,
                     calls |-> 0, marker |-> FALSE, cost |-> 0]
             n == Len(messages) + 1
             me == [req[r] EXCEPT !.pc = "stored"]
  <1>1. row \in Rows
    BY DEF StoreQuestion, ChatTypes, IsRequest, Rows
  <1>2. InsertMessage(row) /\ UNCHANGED <<costs, shown>> /\ req[r].pc = "checked"
        /\ req' = [req EXCEPT ![r] = me]
    BY DEF StoreQuestion
  <1>3. /\ DOMAIN messages' = DOMAIN messages \cup {n} /\ messages'[n] = row
        /\ Len(messages') = n
        /\ \A i \in DOMAIN messages : messages'[i] = messages[i]
    <2> HIDE DEF row
    <2> QED BY <1>1, <1>2, NewRow DEF InsertMessage
  <1>4. req'[r] = me /\ me.pc = "stored" /\ SameGathered(req[r], me)
    BY <1>2, NewRequest DEF ChatTypes, IsRequest, SameGathered
  <1>5. Unasked(r)
    BY <1>2 DEF SeenInv
  <1>6. QuestionOf(r)' = {n} /\ AnswerOf(r)' = {} /\ RowsOnlyOf(r)
    BY <1>3, <1>5 DEF QuestionOf, AnswerOf, Unasked, RowsOnlyOf
  <1>7. Asked(r)'
    BY <1>3, <1>4, <1>6 DEF Asked, SameGathered
  <1>8. InStep(r)'
    BY <1>2, <1>4 DEF SeenInv, InStep, SameGathered
  <1>9. QED
    BY <1>3, <1>4, <1>6, <1>7, <1>8 DEF SeenInv

\* An event is delivered: gathered and shown alike.
LEMMA DeliverSeen ==
    ASSUME ChatTypes, NEW r \in Requests, SeenInv(r), Deliver(r)
    PROVE  SeenInv(r)'
  <1> DEFINE e == Head(req[r].events)
             you == Noted(r, req[r])
             me == AfterEvent(you, e)
  <1>1. Account(r) /\ UNCHANGED messages /\ req[r].pc = "streaming"
        /\ req' = [req EXCEPT ![r] = me]
    BY DEF Deliver
  <1>2. IsRequest(you) /\ you.pc = "streaming"
    BY <1>1, NotedFields
  <1>3. SameGathered(you, me) /\ me.pc \in {"streaming", "asking", "ending"}
        /\ (e = "done" => me.pc = "ending")
    <2> HIDE DEF you, e
    <2> QED BY <1>2, AfterEventFields
  <1>4. req'[r] = me
    <2> HIDE DEF me
    <2> QED BY <1>1, NewRequest
  <1>5. /\ me.session = req[r].session
        /\ me.text = req[r].text + (IF e = "delta" THEN 1 ELSE 0)
        /\ me.calls = req[r].calls + (IF e = "tool_call" THEN 1 ELSE 0)
        /\ me.final <=> req[r].final \/ e = "done"
        /\ me.cancelled = req[r].cancelled
        /\ e = "done" => me.cost = Len(costs')
    BY <1>1, <1>3, NotedFields DEF SameGathered
  <1>6. /\ shown'[r].text = shown[r].text + (IF e = "delta" THEN 1 ELSE 0)
        /\ shown'[r].calls = shown[r].calls + (IF e = "tool_call" THEN 1 ELSE 0)
        /\ shown'[r].done <=> shown[r].done \/ e = "done"
    BY ShownFields
  <1>7. e = "done" => Len(costs') \in DOMAIN costs' /\ costs'[Len(costs')] = r
    BY <1>1, NewCost
  <1>8. InStep(r) /\ Asked(r) /\ AnswerOf(r) = {}
    BY <1>1 DEF SeenInv, Pcs
  <1>9. Asked(r)' /\ (AnswerOf(r) = {})'
    BY <1>1, <1>4, <1>5, <1>8 DEF Asked, QuestionOf, AnswerOf
  <1>10. e # "done" => InStep(r)'
    <2> HIDE DEF me, e
    <2> QED BY <1>4, <1>5, <1>6, <1>8 DEF InStep
  <1>11. Gathered(r)'
    <2>1. shown[r].text \in Nat /\ shown[r].calls \in Nat
      BY DEF ChatTypes
    <2> HIDE DEF me, e
    <2> QED BY <1>4, <1>5, <1>6, <1>7, <1>8, <2>1 DEF Gathered, InStep
  <1>12. QED
    <2> HIDE DEF me, e
    <2> QED BY <1>3, <1>4, <1>9, <1>10, <1>11 DEF SeenInv, Pcs

\* The client goes: an event may have been gathered that it was not shown.
LEMMA DisconnectSeen ==
    ASSUME ChatTypes, NEW r \in Requests, SeenInv(r), Disconnect(r)
    PROVE  SeenInv(r)'
  <1>1. /\ UNCHANGED <<messages, shown>> /\ req[r].pc \in {"streaming", "asking"}
        /\ IsRequest(req[r])
    BY DEF Disconnect, ChatTypes
  <1>2. InStep(r) /\ Asked(r) /\ AnswerOf(r) = {}
    BY <1>1 DEF SeenInv, Pcs
  <1>3. shown[r].text \in Nat /\ shown[r].calls \in Nat /\ shown[r].done = FALSE
    BY <1>2 DEF ChatTypes, InStep
  <1>4. /\ req'[r].pc = "ending" /\ req'[r].session = req[r].session
        /\ req'[r].text >= req[r].text /\ req'[r].calls >= req[r].calls
        /\ req'[r].final => req'[r].cost \in DOMAIN costs' /\ costs'[req'[r].cost] = r
    <2>1. CASE req' = [req EXCEPT ![r] = [Noted(r, @) EXCEPT !.pc = "ending"]] /\ Account(r)
      <3> DEFINE e == Head(req[r].events)
                 you == Noted(r, req[r])
                 me == [you EXCEPT !.pc = "ending"]
      <3>1. req'[r] = me
        <4>1. req' = [req EXCEPT ![r] = me]
          BY <2>1
        <4> HIDE DEF me
        <4> QED BY <4>1, NewRequest
      <3>2. IsRequest(you)
        BY <2>1, NotedFields
      <3>3. me.pc = "ending" /\ SameGathered(you, me)
        <4> HIDE DEF you
        <4> QED BY <3>2 DEF IsRequest, SameGathered
      <3>4. /\ you.session = req[r].session
            /\ you.text = req[r].text + (IF e = "delta" THEN 1 ELSE 0)
            /\ you.calls = req[r].calls + (IF e = "tool_call" THEN 1 ELSE 0)
            /\ you.final <=> req[r].final \/ e = "done"
            /\ e = "done" => you.cost = Len(costs')
        BY <2>1, NotedFields
      <3>5. e = "done" => Len(costs') \in DOMAIN costs' /\ costs'[Len(costs')] = r
        BY <2>1, NewCost
      <3>6. /\ me.session = req[r].session
            /\ me.text = req[r].text + (IF e = "delta" THEN 1 ELSE 0)
            /\ me.calls = req[r].calls + (IF e = "tool_call" THEN 1 ELSE 0)
            /\ me.final <=> e = "done"
            /\ e = "done" => me.cost = Len(costs')
        BY <1>2, <3>3, <3>4 DEF SameGathered, InStep
      <3>7. req[r].text \in Nat /\ req[r].calls \in Nat
        BY <1>1 DEF IsRequest
      <3> HIDE DEF me, you, e
      <3>8. QED
        BY <3>1, <3>3, <3>5, <3>6, <3>7
    <2>2. ASSUME NEW me, req' = [req EXCEPT ![r] = me], me.pc = "ending",
                 me.session = req[r].session, me.text = req[r].text,
                 me.calls = req[r].calls, ~me.final
          PROVE  /\ req'[r].pc = "ending" /\ req'[r].session = req[r].session
                 /\ req'[r].text >= req[r].text /\ req'[r].calls >= req[r].calls
                 /\ ~req'[r].final
      <3>1. req'[r] = me
        BY <2>2, NewRequest
      <3>2. req[r].text \in Nat /\ req[r].calls \in Nat
        BY <1>1 DEF IsRequest
      <3>3. QED
        BY <2>2, <3>1, <3>2
    <2>3. CASE req' = [req EXCEPT ![r].pc = "ending"]
      <3> DEFINE me == [req[r] EXCEPT !.pc = "ending"]
      <3>1. /\ me.pc = "ending" /\ me.session = req[r].session /\ me.text = req[r].text
            /\ me.calls = req[r].calls /\ ~me.final
        BY <1>1, <1>2 DEF IsRequest, InStep
      <3>2. req' = [req EXCEPT ![r] = me]
        BY <2>3
      <3> HIDE DEF me
      <3>3. QED
        BY <2>2, <3>1, <3>2
    <2>4. CASE req' = [req EXCEPT ![r].pc = "ending", ![r].cancelled = TRUE]
      <3> DEFINE me == [req[r] EXCEPT !.pc = "ending", !.cancelled = TRUE]
      <3>1. /\ me.pc = "ending" /\ me.session = req[r].session /\ me.text = req[r].text
            /\ me.calls = req[r].calls /\ ~me.final
        BY <1>1, <1>2 DEF IsRequest, InStep
      <3>2. req' = [req EXCEPT ![r] = me]
        BY <2>4
      <3> HIDE DEF me
      <3>3. QED
        BY <2>2, <3>1, <3>2
    <2>5. QED
      BY <2>1, <2>3, <2>4 DEF Disconnect
  <1>5. Asked(r)' /\ (AnswerOf(r) = {})'
    BY <1>1, <1>2, <1>4 DEF Asked, QuestionOf, AnswerOf
  <1>6. Gathered(r)'
    BY <1>1, <1>2, <1>3, <1>4 DEF Gathered, InStep
  <1>7. QED
    BY <1>4, <1>5, <1>6 DEF SeenInv, Pcs

\* The answer is stored, with what was gathered, when it is worth it.
LEMMA AnswerSeen ==
    ASSUME ChatTypes, NEW r \in Requests, SeenInv(r), StoreAnswer(r)
    PROVE  SeenInv(r)' /\ RowsOnlyOf(r)
  <1> DEFINE row == [session |-> req[r].session, by |-> r, role |-> "assistant",
                     text |-> req[r].text, calls |-> req[r].calls,
                     marker |-> req[r].cancelled,
                     cost |-> IF req[r].final THEN req[r].cost ELSE 0]
             n == Len(messages) + 1
             me(pc) == Ended(req[r], pc)
  <1>1. /\ IsRequest(req[r]) /\ req[r].pc = "ending" /\ UNCHANGED <<costs, shown>>
        /\ Asked(r) /\ AnswerOf(r) = {} /\ Gathered(r)
    BY DEF StoreAnswer, ChatTypes, SeenInv, Pcs
  <1>2. row \in Rows
    BY <1>1 DEF IsRequest, Rows
  <1>3. ASSUME NEW pc \in {"touching", "closing"}
        PROVE  me(pc).pc = pc /\ SameGathered(req[r], me(pc))
    BY <1>1 DEF Ended, IsRequest, SameGathered
  <1>4. CASE /\ WorthStoring(req[r]) /\ InsertMessage(row)
             /\ req' = [req EXCEPT ![r] = me("touching")]
    <2>1. /\ DOMAIN messages' = DOMAIN messages \cup {n} /\ messages'[n] = row
          /\ n \notin DOMAIN messages
          /\ \A i \in DOMAIN messages : messages'[i] = messages[i] /\ i < n
      <3> HIDE DEF row
      <3> QED BY <1>2, <1>4, NewRow DEF InsertMessage
    <2>2. req'[r].pc = "touching" /\ SameGathered(req[r], req'[r])
      <3>1. req'[r] = me("touching")
        <4> HIDE DEF me
        <4> QED BY <1>4, NewRequest
      <3>2. QED
        BY <1>3, <3>1
    <2>3. /\ QuestionOf(r)' = QuestionOf(r) /\ AnswerOf(r)' = {n} /\ RowsOnlyOf(r)
      BY <1>1, <2>1 DEF QuestionOf, AnswerOf, RowsOnlyOf
    <2>4. Asked(r)'
      BY <1>1, <2>1, <2>2, <2>3 DEF Asked, SameGathered
    <2>5. Answered(r)'
      <3>1. \A i \in QuestionOf(r) : i < n
        BY <2>1 DEF QuestionOf
      <3>2. /\ messages'[n].session = req[r].session /\ messages'[n].text = req[r].text
            /\ messages'[n].calls = req[r].calls /\ messages'[n].marker = req[r].cancelled
            /\ messages'[n].cost = IF req[r].final THEN req[r].cost ELSE 0
        BY <2>1
      <3> HIDE DEF n
      <3>3. QED
        BY <2>1, <2>2, <2>3, <3>1, <3>2 DEF Answered, SameGathered
    <2>6. Gathered(r)' /\ AnswerThere(r)'
      BY <1>1, <2>2, <2>3 DEF Gathered, AnswerThere, SameGathered
    <2>7. QED
      BY <2>2, <2>3, <2>4, <2>5, <2>6 DEF SeenInv
  <1>5. CASE /\ ~WorthStoring(req[r]) /\ UNCHANGED messages
             /\ req' = [req EXCEPT ![r] = me("closing")]
    <2>1. req'[r].pc = "closing" /\ SameGathered(req[r], req'[r])
      <3>1. req'[r] = me("closing")
        <4> HIDE DEF me
        <4> QED BY <1>5, NewRequest
      <3>2. QED
        BY <1>3, <3>1
    <2>2. /\ QuestionOf(r)' = QuestionOf(r) /\ AnswerOf(r)' = {} /\ RowsOnlyOf(r)
      BY <1>1, <1>5, NoRows
    <2>3. Asked(r)' /\ Answered(r)'
      BY <1>1, <1>5, <2>1, <2>2 DEF Asked, Answered, SameGathered
    <2>4. Gathered(r)' /\ AnswerThere(r)'
      BY <1>1, <1>5, <2>1, <2>2 DEF Gathered, AnswerThere, SameGathered, WorthStoring
    <2>5. QED
      BY <2>1, <2>2, <2>3, <2>4 DEF SeenInv
  <1>6. QED
    BY <1>4, <1>5 DEF StoreAnswer

\* Every step keeps what is stored in line with what was seen.
LEMMA SeenStep == ChatInv /\ [Next]_chatVars => ChatInv'
  <1> SUFFICES ASSUME ChatInv, [Next]_chatVars PROVE ChatInv'
    OBVIOUS
  <1>1. ChatTypes /\ \A q \in Requests : SeenInv(q) /\ IsRequest(req[q])
    BY DEF ChatInv, ChatTypes
  <1>2. ChatTypes'
    BY <1>1, TypeStep
  <1> SUFFICES \A q \in Requests : SeenInv(q)'
    BY <1>2 DEF ChatInv
  <1>3. CASE UNCHANGED <<messages, costs, req, shown>>
    BY <1>1, <1>3, SameSeen
  <1>4. ASSUME NEW r \in Requests, NEW me, req' = [req EXCEPT ![r] = me],
               UNCHANGED <<messages, costs, shown>>,
               SameGathered(req[r], me),
               <<req[r].pc, me.pc>> \in {<<"stored", "asking">>, <<"asking", "streaming">>,
                                         <<"touching", "titling">>, <<"titling", "closing">>}
        PROVE  \A q \in Requests : SeenInv(q)'
    <2>1. req'[r] = me /\ OnlyRequest(r)
      BY <1>1, <1>4, NewRequest
    <2>2. SeenInv(r)'
      BY <1>1, <1>4, <2>1, MovesOn
    <2>3. QED
      BY <1>1, <1>4, <2>1, <2>2, NoRows, EnoughForOne
  <1>5. ASSUME NEW r \in Requests, NEW s \in Sessions, Check(r, s)
        PROVE  \A q \in Requests : SeenInv(q)'
    <2> DEFINE me == [req[r] EXCEPT !.pc = "checked", !.session = s]
    <2>1. req' = [req EXCEPT ![r] = me] /\ UNCHANGED <<messages, costs, shown>>
          /\ req[r].pc = "idle"
      BY <1>5 DEF Check
    <2>2. /\ me.pc = "checked" /\ me.text = req[r].text /\ me.calls = req[r].calls
          /\ me.final = req[r].final /\ me.cancelled = req[r].cancelled
      BY <1>1 DEF IsRequest
    <2>3. req'[r] = me /\ OnlyRequest(r)
      <3> HIDE DEF me
      <3> QED BY <1>1, <2>1, NewRequest
    <2>4. Unasked(r)' /\ InStep(r)'
      <3> HIDE DEF me
      <3> QED BY <1>1, <2>1, <2>2, <2>3, NoRows DEF SeenInv, InStep
    <2>5. SeenInv(r)'
      <3> HIDE DEF me
      <3> QED BY <2>2, <2>3, <2>4 DEF SeenInv, Pcs
    <2>6. QED
      BY <1>1, <2>1, <2>3, <2>5, NoRows, EnoughForOne
  <1>6. ASSUME NEW r \in Requests, StoreQuestion(r) PROVE \A q \in Requests : SeenInv(q)'
    <2>1. SeenInv(r)' /\ RowsOnlyOf(r)
      BY <1>1, <1>6, QuestionSeen
    <2>2. OnlyRequest(r) /\ CostsGrow /\ UNCHANGED shown
      BY <1>6 DEF StoreQuestion, OnlyRequest, CostsGrow
    <2>3. QED
      BY <1>1, <2>1, <2>2, EnoughForOne
  <1>7. ASSUME NEW r \in Requests, Prepare(r) PROVE \A q \in Requests : SeenInv(q)'
    <2> DEFINE rows == Trimmed(SelectMessages(req[r].session))
               me == [req[r] EXCEPT !.pc = "asking", !.turn = 1, !.history = rows]
    <2>1. req' = [req EXCEPT ![r] = me] /\ UNCHANGED <<messages, costs, shown>>
          /\ req[r].pc = "stored"
      BY <1>7 DEF Prepare
    <2>2. SameGathered(req[r], me) /\ me.pc = "asking"
      <3> HIDE DEF rows
      <3> QED BY <1>1 DEF IsRequest, SameGathered
    <2> HIDE DEF me
    <2>3. QED
      BY <1>4, <2>1, <2>2
  <1>8. ASSUME NEW r \in Requests, NEW kind \in {"raise", "tools", "final"},
               NEW text \in BOOLEAN, NEW calls \in 0..MaxCalls, Answer(r, kind, text, calls)
        PROVE  \A q \in Requests : SeenInv(q)'
    <2> DEFINE events == TurnEvents(r, kind, text, calls)
               me == [req[r] EXCEPT !.pc = "streaming", !.events = events]
    <2>1. req' = [req EXCEPT ![r] = me] /\ UNCHANGED <<messages, costs, shown>>
          /\ req[r].pc = "asking"
      BY <1>8 DEF Answer
    <2>2. SameGathered(req[r], me) /\ me.pc = "streaming"
      <3> HIDE DEF events
      <3> QED BY <1>1 DEF IsRequest, SameGathered
    <2> HIDE DEF me
    <2>3. QED
      BY <1>4, <2>1, <2>2
  <1>9. ASSUME NEW r \in Requests, Deliver(r) PROVE \A q \in Requests : SeenInv(q)'
    <2>1. SeenInv(r)'
      BY <1>1, <1>9, DeliverSeen
    <2>2. RowsOnlyOf(r) /\ CostsGrow /\ OnlyRequest(r)
      <3> DEFINE me == AfterEvent(Noted(r, req[r]), Head(req[r].events))
      <3>1. req' = [req EXCEPT ![r] = me] /\ Account(r) /\ UNCHANGED messages
        BY <1>9 DEF Deliver
      <3> HIDE DEF me
      <3>2. QED
        BY <1>1, <3>1, NewCost, NewRequest DEF RowsOnlyOf
    <2>3. \A q \in Requests \ {r} : shown'[q] = shown[q]
      BY <1>1, <1>9, ShownFields
    <2>4. QED
      BY <1>1, <2>1, <2>2, <2>3, EnoughForOne
  <1>10. ASSUME NEW r \in Requests, Disconnect(r) PROVE \A q \in Requests : SeenInv(q)'
    <2>1. SeenInv(r)'
      BY <1>1, <1>10, DisconnectSeen
    <2>2. RowsOnlyOf(r) /\ OnlyRequest(r) /\ UNCHANGED shown
      <3> DEFINE me == [req[r] EXCEPT !.pc = "ending", !.cancelled = TRUE]
                 you == [Noted(r, req[r]) EXCEPT !.pc = "ending"]
                 she == [req[r] EXCEPT !.pc = "ending"]
      <3>1. \E x \in {me, you, she} : req' = [req EXCEPT ![r] = x]
        BY <1>10 DEF Disconnect
      <3>2. UNCHANGED <<messages, shown>>
        BY <1>10 DEF Disconnect
      <3> HIDE DEF me, you, she
      <3>3. QED
        BY <1>1, <3>1, <3>2, NewRequest DEF RowsOnlyOf
    <2>3. CostsGrow
      <3>1. Account(r) \/ UNCHANGED costs
        BY <1>10 DEF Disconnect
      <3>2. QED
        BY <1>1, <3>1, NewCost DEF CostsGrow
    <2>4. QED
      BY <1>1, <2>1, <2>2, <2>3, EnoughForOne
  <1>11. ASSUME NEW r \in Requests, StoreAnswer(r) PROVE \A q \in Requests : SeenInv(q)'
    <2>1. SeenInv(r)' /\ RowsOnlyOf(r)
      BY <1>1, <1>11, AnswerSeen
    <2>2. OnlyRequest(r) /\ CostsGrow /\ UNCHANGED shown
      <3> DEFINE me(pc) == Ended(req[r], pc)
      <3>1. \E pc \in {"touching", "closing"} : req' = [req EXCEPT ![r] = me(pc)]
        BY <1>11 DEF StoreAnswer
      <3>2. UNCHANGED <<costs, shown>>
        BY <1>11 DEF StoreAnswer
      <3> HIDE DEF me
      <3>3. QED
        BY <1>1, <3>1, <3>2, NewRequest DEF CostsGrow
    <2>3. QED
      BY <1>1, <2>1, <2>2, EnoughForOne
  <1>12. ASSUME NEW r \in Requests, TouchAnswer(r) PROVE \A q \in Requests : SeenInv(q)'
    <2> DEFINE me == [req[r] EXCEPT !.pc = "titling"]
    <2>1. req' = [req EXCEPT ![r] = me] /\ UNCHANGED <<messages, costs, shown>>
          /\ req[r].pc = "touching"
      BY <1>12 DEF TouchAnswer
    <2>2. SameGathered(req[r], me) /\ me.pc = "titling"
      BY <1>1 DEF IsRequest, SameGathered
    <2> HIDE DEF me
    <2>3. QED
      BY <1>4, <2>1, <2>2
  <1>13. ASSUME NEW r \in Requests, StartTitle(r) PROVE \A q \in Requests : SeenInv(q)'
    <2> DEFINE me == [req[r] EXCEPT !.pc = "closing"]
    <2>1. req' = [req EXCEPT ![r] = me] /\ UNCHANGED <<messages, costs, shown>>
          /\ req[r].pc = "titling"
      BY <1>13 DEF StartTitle
    <2>2. SameGathered(req[r], me) /\ me.pc = "closing"
      BY <1>1 DEF IsRequest, SameGathered
    <2> HIDE DEF me
    <2>3. QED
      BY <1>4, <2>1, <2>2
  <1>14. ASSUME NEW r \in Requests, CloseConnection(r) PROVE \A q \in Requests : SeenInv(q)'
    <2>1. req'[r].pc = "over"
      BY <1>1, <1>14 DEF CloseConnection, ChatTypes, Idle
    <2>2. OnlyRequest(r) /\ UNCHANGED <<messages, costs>>
          /\ \A q \in Requests \ {r} : shown'[q] = shown[q]
      BY <1>1, <1>14 DEF CloseConnection, OnlyRequest, ChatTypes
    <2>3. SeenInv(r)'
      BY <2>1 DEF SeenInv, Pcs
    <2>4. QED
      BY <1>1, <2>2, <2>3, NoRows, EnoughForOne
  <1>15. CASE \/ \E s \in Sessions, given \in BOOLEAN : Create(s, given)
              \/ \E d \in Deleters, s \in Sessions : DeleteRead(d, s)
              \/ \E d \in Deleters : DeleteWrite(d)
              \/ \E r \in Requests : FinishTitle(r)
              \/ UNCHANGED chatVars
    BY <1>3, <1>15 DEF Create, DeleteRead, DeleteWrite, FinishTitle, chatVars
  <1>16. QED
    BY <1>5, <1>6, <1>7, <1>8, <1>9, <1>10, <1>11, <1>12, <1>13, <1>14, <1>15
       DEF Next, Proceed

\* At the start no request has asked.
LEMMA SeenInit == Init => ChatInv
  <1> SUFFICES ASSUME Init PROVE ChatInv
    OBVIOUS
  <1>1. DOMAIN sessions = {} /\ DOMAIN messages = {}
    BY DEF Init
  <1>2. \A r \in Requests : req[r] = Idle /\ shown[r] = Nothing
    BY DEF Init
  <1>3. ChatTypes
    <2>1. sessions \in [DOMAIN sessions -> SessionRows] /\ DOMAIN sessions \subseteq Sessions
      BY <1>1 DEF Init
    <2>2. messages \in Seq(Rows) /\ costs \in Seq(Requests)
      BY DEF Init
    <2>3. IsRequest(Idle)
      BY DEF IsRequest, Idle, Pcs
    <2>4. shown \in [Requests -> [text : Nat, calls : Nat, done : BOOLEAN]]
      BY DEF Init, Nothing
    <2>5. QED
      BY <1>2, <2>1, <2>2, <2>3, <2>4 DEF ChatTypes, Init
  <1>4. ASSUME NEW r \in Requests PROVE SeenInv(r)
    BY <1>1, <1>2 DEF SeenInv, Idle, Nothing, Unasked, InStep, Pcs
  <1>5. QED
    BY <1>3, <1>4 DEF ChatInv

\* In whatever way a stream ends, what the client saw of the answer is what the
\* session holds when it is read again.
THEOREM AnswersStored == Spec => []StoredAsSeen
  <1>1. ChatInv => StoredAsSeen
    <2> SUFFICES ASSUME ChatInv, NEW r \in Requests,
                        req[r].pc \in {"touching", "titling", "closing"}
                 PROVE  /\ Cardinality(QuestionOf(r)) = 1 /\ Cardinality(AnswerOf(r)) \leq 1
                        /\ shown[r].text + shown[r].calls > 0 \/ shown[r].done
                             => AnswerOf(r) # {}
                        /\ \A i \in QuestionOf(r), k \in AnswerOf(r) :
                              LET m == messages[k] IN
                              /\ i < k /\ m.session = messages[i].session
                              /\ m.text >= shown[r].text /\ m.calls >= shown[r].calls
                              /\ m.cost # 0 => costs[m.cost] = r
                              /\ shown[r].done => /\ ~m.marker /\ m.text = shown[r].text
                                                  /\ m.calls = shown[r].calls
                                                  /\ m.cost # 0
      BY DEF StoredAsSeen
    <2>1. Asked(r) /\ Answered(r) /\ AnswerThere(r) /\ Gathered(r)
      BY DEF ChatInv, SeenInv, Pcs
    <2>2. Cardinality(QuestionOf(r)) = 1
      <3>1. PICK i \in DOMAIN messages : QuestionOf(r) = {i}
        BY <2>1 DEF Asked
      <3>2. Cardinality({i}) = 1
        BY FS_Singleton
      <3>3. QED
        BY <3>1, <3>2
    <2>3. Cardinality(AnswerOf(r)) \leq 1
      <3>1. Cardinality({}) = 0
        BY FS_EmptySet
      <3>2. ASSUME NEW k PROVE Cardinality({k}) = 1
        BY FS_Singleton
      <3>3. QED
        BY <2>1, <3>1, <3>2 DEF Answered
    <2>4. /\ shown[r].text \in Nat /\ shown[r].calls \in Nat
          /\ req[r].text \in Nat /\ req[r].calls \in Nat
      BY DEF ChatInv, ChatTypes, IsRequest
    <2>5. shown[r].text + shown[r].calls > 0 \/ shown[r].done => AnswerOf(r) # {}
      BY <2>1, <2>4 DEF AnswerThere, Gathered, WorthStoring
    <2>6. costs \in Seq(Requests) /\ DOMAIN costs = 1..Len(costs)
      BY LenProperties DEF ChatInv, ChatTypes
    <2>7. ASSUME NEW i \in QuestionOf(r), NEW k \in AnswerOf(r)
          PROVE  /\ i < k /\ messages[k].session = messages[i].session
                 /\ messages[k].text >= shown[r].text /\ messages[k].calls >= shown[r].calls
                 /\ messages[k].cost # 0 => costs[messages[k].cost] = r
                 /\ shown[r].done => /\ ~messages[k].marker /\ messages[k].text = shown[r].text
                                     /\ messages[k].calls = shown[r].calls
                                     /\ messages[k].cost # 0
      BY <2>1, <2>6, <2>7 DEF Asked, Answered, Gathered
    <2>8. QED
      BY <2>2, <2>3, <2>5, <2>7
  <1>2. QED
    BY <1>1, SeenInit, SeenStep, PTL DEF Spec

-----------------------------------------------------------------------------
\* A title task: its session is there, with a title that may be replaced, and the
\* answer it works for is stored, unmarked.
Earned(r) ==
    /\ req[r].pc \in {"closing", "over"}
    /\ req[r].session \in DOMAIN sessions
    /\ sessions[req[r].session].title # "given"
    /\ \E i \in AnswerOf(r) : ~messages[i].marker

TitleInv ==
    /\ \A r \in Requests : req[r].pc # "idle" => req[r].session \in DOMAIN sessions
    /\ \A r \in Requests : title[r] = "asking" => Earned(r)

\* Sessions and rows stay; a title that is there is only replaced by a generated one.
Stays ==
    /\ DOMAIN sessions \subseteq DOMAIN sessions'
    /\ \A s \in DOMAIN sessions : sessions'[s].title \in {sessions[s].title, "generated"}
    /\ DOMAIN messages \subseteq DOMAIN messages'
    /\ \A i \in DOMAIN messages : messages'[i] = messages[i]

\* A request keeps its session, and once its answer is stored it only closes.
Onward(q) ==
    /\ req[q].pc # "idle" => req'[q].pc # "idle" /\ req'[q].session = req[q].session
    /\ req[q].pc = "idle" /\ req'[q].pc # "idle" => req'[q].session \in DOMAIN sessions
    /\ req[q].pc \in {"closing", "over"} => req'[q].pc \in {"closing", "over"}

\* What a write to a session does to the titles.
LEMMA TitleField ==
    ASSUME ChatTypes, NEW x
    PROVE  /\ TouchSession(x) \/ sessions' = [sessions EXCEPT ![x].status = "deleted",
                                                             ![x].updated = "deletion"]
              => /\ DOMAIN sessions' = DOMAIN sessions
                 /\ \A s \in DOMAIN sessions : sessions'[s].title = sessions[s].title
           /\ sessions' = [sessions EXCEPT ![x].title = "generated"]
              => /\ DOMAIN sessions' = DOMAIN sessions
                 /\ \A s \in DOMAIN sessions :
                       /\ sessions'[s].title \in {sessions[s].title, "generated"}
                       /\ s # x => sessions'[s].title = sessions[s].title
  <1>1. sessions \in [DOMAIN sessions -> SessionRows]
    BY DEF ChatTypes
  <1>2. ASSUME TouchSession(x)
        PROVE  /\ DOMAIN sessions' = DOMAIN sessions
               /\ \A s \in DOMAIN sessions : sessions'[s].title = sessions[s].title
    BY <1>1, <1>2 DEF TouchSession, SessionRows
  <1>3. ASSUME sessions' = [sessions EXCEPT ![x].status = "deleted", ![x].updated = "deletion"]
        PROVE  /\ DOMAIN sessions' = DOMAIN sessions
               /\ \A s \in DOMAIN sessions : sessions'[s].title = sessions[s].title
    BY <1>1, <1>3 DEF SessionRows
  <1>4. ASSUME sessions' = [sessions EXCEPT ![x].title = "generated"]
        PROVE  /\ DOMAIN sessions' = DOMAIN sessions
               /\ \A s \in DOMAIN sessions :
                     /\ sessions'[s].title \in {sessions[s].title, "generated"}
                     /\ s # x => sessions'[s].title = sessions[s].title
    BY <1>1, <1>4 DEF SessionRows
  <1>5. QED
    BY <1>2, <1>3, <1>4

\* No step but the end of a title task changes a title.
LEMMA TitlesStay ==
    ASSUME ChatTypes, [Next]_chatVars,
           NEW s \in DOMAIN sessions, sessions'[s].title # sessions[s].title
    PROVE  \E r \in Requests : /\ title[r] = "asking" /\ req[r].session = s
                               /\ sessions' = [sessions EXCEPT ![s].title = "generated"]
  <1>1. ASSUME NEW x \in Sessions, NEW given \in BOOLEAN, Create(x, given) PROVE FALSE
    BY <1>1 DEF Create
  <1>2. ASSUME NEW d \in Deleters, DeleteWrite(d) PROVE FALSE
    BY <1>2, TitleField DEF DeleteWrite
  <1>3. ASSUME NEW r \in Requests, Prepare(r) \/ TouchAnswer(r) PROVE FALSE
    BY <1>3, TitleField DEF Prepare, TouchAnswer
  <1>4. ASSUME NEW r \in Requests, FinishTitle(r)
        PROVE  /\ title[r] = "asking" /\ req[r].session = s
               /\ sessions' = [sessions EXCEPT ![s].title = "generated"]
    <2>1. title[r] = "asking" /\ sessions' = [sessions EXCEPT ![req[r].session].title = "generated"]
      BY <1>4 DEF FinishTitle
    <2>2. req[r].session = s
      BY <2>1, TitleField
    <2>3. QED
      BY <2>1, <2>2
  <1>5. sessions' # sessions
    OBVIOUS
  <1>6. \/ \E x \in Sessions, given \in BOOLEAN : Create(x, given)
        \/ \E d \in Deleters : DeleteWrite(d)
        \/ \E r \in Requests : Prepare(r) \/ TouchAnswer(r) \/ FinishTitle(r)
    BY <1>5 DEF Next, Proceed, DeleteRead, Check, StoreQuestion, Answer, Deliver, Disconnect,
                StoreAnswer, StartTitle, CloseConnection, chatVars
  <1>7. QED
    BY <1>1, <1>2, <1>3, <1>4, <1>6

\* Every step keeps the sessions and the rows.
LEMMA StaysStep == ChatTypes /\ [Next]_chatVars => Stays
  <1> SUFFICES ASSUME ChatTypes, [Next]_chatVars PROVE Stays
    OBVIOUS
  <1>1. DOMAIN sessions \subseteq DOMAIN sessions'
    <2>1. ASSUME NEW x \in Sessions, NEW given \in BOOLEAN, Create(x, given)
          PROVE  DOMAIN sessions \subseteq DOMAIN sessions'
      BY <2>1 DEF Create
    <2>2. ASSUME NEW d \in Deleters, DeleteWrite(d)
          PROVE  DOMAIN sessions \subseteq DOMAIN sessions'
      BY <2>2 DEF DeleteWrite
    <2>3. ASSUME NEW r \in Requests, Prepare(r) \/ TouchAnswer(r) \/ FinishTitle(r)
          PROVE  DOMAIN sessions \subseteq DOMAIN sessions'
      BY <2>3 DEF Prepare, TouchAnswer, TouchSession, FinishTitle
    <2>4. CASE sessions' = sessions
      BY <2>4
    <2>5. QED
      BY <2>1, <2>2, <2>3, <2>4 DEF Next, Proceed, DeleteRead, Check, StoreQuestion, Answer,
            Deliver, Disconnect, StoreAnswer, StartTitle, CloseConnection, chatVars
  <1>2. ASSUME NEW s \in DOMAIN sessions
        PROVE  sessions'[s].title \in {sessions[s].title, "generated"}
    <2>1. CASE sessions'[s].title # sessions[s].title
      <3>1. sessions' = [sessions EXCEPT ![s].title = "generated"]
        BY <2>1, TitlesStay
      <3>2. QED
        BY <3>1, TitleField
    <2>2. QED
      BY <2>1
  <1>3. /\ DOMAIN messages \subseteq DOMAIN messages'
        /\ \A i \in DOMAIN messages : messages'[i] = messages[i]
    <2>1. ASSUME NEW r \in Requests, StoreQuestion(r) \/ StoreAnswer(r)
          PROVE  messages' = messages \/ \E m \in Rows : messages' = Append(messages, m)
      <3>1. IsRequest(req[r])
        BY DEF ChatTypes
      <3>2. CASE StoreQuestion(r)
        <4>1. [session |-> req[r].session, by |-> r, role |-> "user", text |-> 1,
               calls |-> 0, marker |-> FALSE, cost |-> 0] \in Rows
          BY <3>1, <3>2 DEF StoreQuestion, IsRequest, Rows
        <4>2. QED
          BY <3>2, <4>1 DEF StoreQuestion, InsertMessage
      <3>3. CASE StoreAnswer(r)
        <4>1. [session |-> req[r].session, by |-> r, role |-> "assistant",
               text |-> req[r].text, calls |-> req[r].calls, marker |-> req[r].cancelled,
               cost |-> IF req[r].final THEN req[r].cost ELSE 0] \in Rows
          BY <3>1, <3>3 DEF StoreAnswer, IsRequest, Rows
        <4>2. QED
          BY <3>3, <4>1 DEF StoreAnswer, InsertMessage
      <3>4. QED
        BY <2>1, <3>2, <3>3
    <2>2. messages' = messages \/ \E m \in Rows : messages' = Append(messages, m)
      BY <2>1 DEF Next, Proceed, Create, DeleteRead, DeleteWrite, Check, Prepare, Answer,
            Deliver, Disconnect, TouchAnswer, StartTitle, CloseConnection, FinishTitle, chatVars
    <2>3. QED
      BY <2>2, NewRow
  <1>4. QED
    BY <1>1, <1>2, <1>3 DEF Stays

\* A record that replaces the one of a request.
LEMMA OnwardOne ==
    ASSUME ChatTypes, NEW r \in Requests, NEW me, req' = [req EXCEPT ![r] = me],
           req[r].pc # "idle", me.pc # "idle", me.session = req[r].session,
           req[r].pc \in {"closing", "over"} => me.pc \in {"closing", "over"}
    PROVE  \A q \in Requests : Onward(q)
  <1>1. req'[r] = me /\ OnlyRequest(r)
    BY NewRequest
  <1>2. QED
    BY <1>1 DEF Onward, OnlyRequest

\* Every step keeps the requests on their way.
LEMMA OnwardStep == ChatTypes /\ [Next]_chatVars => \A q \in Requests : Onward(q)
  <1> SUFFICES ASSUME ChatTypes, [Next]_chatVars PROVE \A q \in Requests : Onward(q)
    OBVIOUS
  <1>0. \A q \in Requests : IsRequest(req[q])
    BY DEF ChatTypes
  <1>1. CASE req' = req
    BY <1>1 DEF Onward
  <1>2. ASSUME NEW r \in Requests, NEW s \in Sessions, Check(r, s)
        PROVE  \A q \in Requests : Onward(q)
    <2> DEFINE me == [req[r] EXCEPT !.pc = "checked", !.session = s]
    <2>1. req' = [req EXCEPT ![r] = me] /\ req[r].pc = "idle" /\ s \in DOMAIN sessions
      BY <1>2 DEF Check
    <2>2. me.pc = "checked" /\ me.session = s
      BY <1>0 DEF IsRequest
    <2>3. req'[r] = me /\ OnlyRequest(r)
      <3> HIDE DEF me
      <3> QED BY <2>1, NewRequest
    <2> HIDE DEF me
    <2>4. QED
      BY <2>1, <2>2, <2>3 DEF Onward, OnlyRequest
  <1>3. ASSUME NEW r \in Requests,
               \/ StoreQuestion(r) \/ Prepare(r) \/ StoreAnswer(r) \/ TouchAnswer(r)
               \/ StartTitle(r) \/ CloseConnection(r)
               \/ \E kind \in {"raise", "tools", "final"}, text \in BOOLEAN, calls \in 0..MaxCalls :
                     Answer(r, kind, text, calls)
        PROVE  \A q \in Requests : Onward(q)
    <2> DEFINE rows == Trimmed(SelectMessages(req[r].session))
               To(me) == /\ req' = [req EXCEPT ![r] = me] /\ me.pc # "idle"
                         /\ me.session = req[r].session /\ req[r].pc # "idle"
                         /\ req[r].pc \in {"closing", "over"} => me.pc \in {"closing", "over"}
    <2>0. IsRequest(req[r])
      BY <1>0
    <2>1. CASE StoreQuestion(r)
      <3>1. To([req[r] EXCEPT !.pc = "stored"])
        BY <2>0, <2>1 DEF StoreQuestion, IsRequest
      <3>2. QED
        BY <3>1, OnwardOne
    <2>2. CASE Prepare(r)
      <3>1. req' = [req EXCEPT ![r] = [req[r] EXCEPT !.pc = "asking", !.turn = 1,
                                                     !.history = rows]]
            /\ req[r].pc = "stored"
        BY <2>2 DEF Prepare
      <3>2. To([req[r] EXCEPT !.pc = "asking", !.turn = 1, !.history = rows])
        <4> HIDE DEF rows
        <4> QED BY <2>0, <3>1 DEF IsRequest
      <3> HIDE DEF rows
      <3>3. QED
        BY <3>2, OnwardOne
    <2>3. CASE StoreAnswer(r)
      <3>1. PICK pc \in {"touching", "closing"} : req' = [req EXCEPT ![r] = Ended(req[r], pc)]
        BY <2>3 DEF StoreAnswer
      <3>2. To(Ended(req[r], pc))
        BY <2>0, <2>3, <3>1 DEF IsRequest, Ended, StoreAnswer
      <3>3. QED
        BY <3>2, OnwardOne
    <2>4. CASE TouchAnswer(r)
      <3>1. To([req[r] EXCEPT !.pc = "titling"])
        BY <2>0, <2>4 DEF TouchAnswer, IsRequest
      <3>2. QED
        BY <3>1, OnwardOne
    <2>5. CASE StartTitle(r)
      <3>1. To([req[r] EXCEPT !.pc = "closing"])
        BY <2>0, <2>5 DEF StartTitle, IsRequest
      <3>2. QED
        BY <3>1, OnwardOne
    <2>6. CASE CloseConnection(r)
      <3>1. To([Idle EXCEPT !.pc = "over", !.session = req[r].session])
        BY <2>0, <2>6 DEF CloseConnection, IsRequest, Idle
      <3>2. QED
        BY <3>1, OnwardOne
    <2>7. ASSUME NEW kind \in {"raise", "tools", "final"}, NEW text \in BOOLEAN,
                 NEW calls \in 0..MaxCalls, Answer(r, kind, text, calls)
          PROVE  \A q \in Requests : Onward(q)
      <3> DEFINE events == TurnEvents(r, kind, text, calls)
      <3>1. req' = [req EXCEPT ![r] = [req[r] EXCEPT !.pc = "streaming", !.events = events]]
            /\ req[r].pc = "asking"
        BY <2>7 DEF Answer
      <3>2. To([req[r] EXCEPT !.pc = "streaming", !.events = events])
        <4> HIDE DEF events
        <4> QED BY <2>0, <3>1 DEF IsRequest
      <3> HIDE DEF events
      <3>3. QED
        BY <3>2, OnwardOne
    <2>8. QED
      BY <1>3, <2>1, <2>2, <2>3, <2>4, <2>5, <2>6, <2>7
  <1>4. ASSUME NEW r \in Requests, Deliver(r) \/ Disconnect(r)
        PROVE  \A q \in Requests : Onward(q)
    <2>1. \E me : /\ req' = [req EXCEPT ![r] = me] /\ me.pc # "idle"
                  /\ me.session = req[r].session
      <3>0. req[r].pc # "idle" /\ IsRequest(req[r])
        BY <1>0, <1>4 DEF Deliver, Disconnect
      <3>1. CASE Deliver(r)
        <4> DEFINE e == Head(req[r].events)
                   you == Noted(r, req[r])
                   me == AfterEvent(you, e)
        <4>1. req' = [req EXCEPT ![r] = me] /\ Account(r) /\ req[r].pc = "streaming"
          BY <3>1 DEF Deliver
        <4>2. IsRequest(you) /\ you.session = req[r].session /\ you.pc = "streaming"
          BY <4>1, NotedFields
        <4>3. SameGathered(you, me) /\ me.pc \in {you.pc, "asking", "ending"}
          <5> HIDE DEF you, e
          <5> QED BY <4>2, AfterEventFields
        <4>4. me.pc # "idle" /\ me.session = req[r].session
          <5> HIDE DEF me, you
          <5> QED BY <4>2, <4>3 DEF SameGathered
        <4> HIDE DEF me
        <4>5. QED
          BY <4>1, <4>4
      <3>2. CASE req' = [req EXCEPT ![r] = [Noted(r, @) EXCEPT !.pc = "ending"]] /\ Account(r)
        <4> DEFINE you == Noted(r, req[r])
                   me == [you EXCEPT !.pc = "ending"]
        <4>1. IsRequest(you) /\ you.session = req[r].session
          BY <3>2, NotedFields
        <4>2. me.pc = "ending" /\ me.session = you.session
          <5> HIDE DEF you
          <5> QED BY <4>1 DEF IsRequest
        <4>3. req' = [req EXCEPT ![r] = me]
          BY <3>2
        <4> HIDE DEF me
        <4>4. QED
          BY <4>1, <4>2, <4>3
      <3>3. CASE req' = [req EXCEPT ![r].pc = "ending"]
        <4> DEFINE me == [req[r] EXCEPT !.pc = "ending"]
        <4>1. me.pc = "ending" /\ me.session = req[r].session
          BY <3>0 DEF IsRequest
        <4>2. req' = [req EXCEPT ![r] = me]
          BY <3>3
        <4> HIDE DEF me
        <4>3. QED
          BY <4>1, <4>2
      <3>4. CASE req' = [req EXCEPT ![r].pc = "ending", ![r].cancelled = TRUE]
        <4> DEFINE me == [req[r] EXCEPT !.pc = "ending", !.cancelled = TRUE]
        <4>1. me.pc = "ending" /\ me.session = req[r].session
          BY <3>0 DEF IsRequest
        <4>2. req' = [req EXCEPT ![r] = me]
          BY <3>4
        <4> HIDE DEF me
        <4>3. QED
          BY <4>1, <4>2
      <3>5. QED
        BY <1>4, <3>1, <3>2, <3>3, <3>4 DEF Disconnect
    <2>2. req[r].pc \in {"streaming", "asking"}
      BY <1>4 DEF Deliver, Disconnect
    <2>3. QED
      BY <2>1, <2>2, OnwardOne
  <1>5. QED
    BY <1>1, <1>2, <1>3, <1>4 DEF Next, Proceed, Create, DeleteRead, DeleteWrite, FinishTitle,
       chatVars

\* A title that is earned stays so: the session, its title and the answer are kept.
LEMMA EarnedStays ==
    ASSUME Stays, NEW r \in Requests, Onward(r), Earned(r)
    PROVE  Earned(r)'
  <1>1. req'[r].pc \in {"closing", "over"} /\ req'[r].session = req[r].session
    BY DEF Earned, Onward
  <1>2. /\ req[r].session \in DOMAIN sessions'
        /\ sessions'[req[r].session].title # "given"
    BY DEF Earned, Stays
  <1>3. \E i \in AnswerOf(r)' : ~messages'[i].marker
    BY DEF Earned, Stays, AnswerOf
  <1>4. QED
    BY <1>1, <1>2, <1>3 DEF Earned

\* A title task starts for an answer that was sent to its end and is stored.
LEMMA TitleStep == ChatInv /\ TitleInv /\ [Next]_chatVars => TitleInv'
  <1> SUFFICES ASSUME ChatInv, TitleInv, [Next]_chatVars PROVE TitleInv'
    OBVIOUS
  <1>1. ChatTypes /\ Stays /\ \A r \in Requests : Onward(r)
    BY StaysStep, OnwardStep DEF ChatInv
  <1>2. ASSUME NEW r \in Requests, req'[r].pc # "idle"
        PROVE  req'[r].session \in DOMAIN sessions'
    BY <1>1, <1>2 DEF TitleInv, Onward, Stays
  <1>3. ASSUME NEW r \in Requests, title'[r] = "asking" PROVE Earned(r)'
    <2>1. CASE title[r] = "asking"
      BY <1>1, <2>1, EarnedStays DEF TitleInv
    <2>2. CASE title[r] # "asking"
      <3>1. StartTitle(r)
        BY <1>1, <1>3, <2>2 DEF Next, Proceed, Create, DeleteRead, DeleteWrite, Check,
           StoreQuestion, Prepare, Answer, Deliver, Disconnect, StoreAnswer, TouchAnswer,
           StartTitle, CloseConnection, FinishTitle, chatVars, ChatTypes
      <3>2. /\ WantsTitle(req[r].session, req[r]) /\ req[r].pc = "titling"
            /\ UNCHANGED <<sessions, messages>>
        BY <1>1, <1>3, <3>1 DEF StartTitle, ChatTypes
      <3>3. req'[r].pc = "closing" /\ req'[r].session = req[r].session
        BY <1>1, <3>1 DEF StartTitle, ChatTypes, IsRequest
      <3>4. /\ req[r].session \in DOMAIN sessions
            /\ sessions[req[r].session].title # "given"
        BY <3>2 DEF TitleInv, WantsTitle
      <3>5. Answered(r) /\ AnswerThere(r)
        BY <3>2 DEF ChatInv, SeenInv
      <3>6. \E i \in AnswerOf(r) : ~messages[i].marker
        BY <3>2, <3>5 DEF WantsTitle, Answered, AnswerThere, WorthStoring
      <3>7. \E i \in AnswerOf(r)' : ~messages'[i].marker
        BY <3>2, <3>6 DEF AnswerOf
      <3>8. QED
        BY <3>2, <3>3, <3>4, <3>7 DEF Earned
    <2>3. QED
      BY <2>1, <2>2
  <1>4. QED
    BY <1>2, <1>3 DEF TitleInv

\* A title changes only for an answer that was sent to its end, and never one that
\* the user gave: a task that finishes late finds its session with a title that
\* may be replaced.
THEOREM TitlesChangeEarned == Spec => TitlesEarned
  <1>1. Init => TitleInv
    BY DEF Init, Idle, TitleInv
  <1>2. ChatInv /\ TitleInv /\ [Next]_chatVars =>
          [\A s \in DOMAIN sessions : sessions'[s].title # sessions[s].title =>
              /\ sessions[s].title # "given"
              /\ \E r \in Requests : /\ title[r] = "asking" /\ req[r].session = s
                                     /\ \E i \in AnswerOf(r) : ~messages[i].marker]_chatVars
    <2> SUFFICES ASSUME ChatInv, TitleInv, [Next]_chatVars,
                        NEW s \in DOMAIN sessions, sessions'[s].title # sessions[s].title
                 PROVE  /\ sessions[s].title # "given"
                        /\ \E r \in Requests :
                              /\ title[r] = "asking" /\ req[r].session = s
                              /\ \E i \in AnswerOf(r) : ~messages[i].marker
      OBVIOUS
    <2>1. PICK r \in Requests : title[r] = "asking" /\ req[r].session = s
      BY TitlesStay DEF ChatInv
    <2>2. Earned(r)
      BY <2>1 DEF TitleInv
    <2>3. QED
      BY <2>1, <2>2 DEF Earned
  <1>3. QED
    BY <1>1, <1>2, SeenInit, SeenStep, TitleStep, PTL DEF Spec, TitlesEarned

-----------------------------------------------------------------------------
\* What the model is sent

\* A set of naturals that is not empty has a least element.
LEMMA LeastNatural ==
    ASSUME NEW T \in SUBSET Nat, T # {}
    PROVE  \E m \in T : \A n \in T : m \leq n
  <1> DEFINE R == {p \in Nat \X Nat : p[1] < p[2]}
  <1>1. IsWellFoundedOn(R, Nat)
    BY NatLessThanWellFounded DEF OpToRel
  <1>2. PICK m \in T : \A n \in T : <<n, m>> \notin R
    <2> HIDE DEF R
    <2> QED BY <1>1, WFMin
  <1>3. ASSUME NEW n \in T PROVE m \leq n
    <2>1. n \in Nat /\ m \in Nat
      OBVIOUS
    <2>2. ~(n < m)
      BY <1>2, <2>1
    <2>3. QED
      BY <2>1, <2>2
  <1>4. QED
    BY <1>3

\* The last rows of a finite set: as many as asked for, and with one all later ones.
LEMMA LastRows ==
    ASSUME NEW rows \in SUBSET Nat, IsFiniteSet(rows), NEW n \in Nat
    PROVE  /\ Cardinality(LastOf(rows, n)) \leq n
           /\ \A i \in LastOf(rows, n), k \in rows : k >= i => k \in LastOf(rows, n)
  <1> DEFINE from(i) == {k \in rows : k >= i}
             last == LastOf(rows, n)
  <1>1. ASSUME NEW S \in SUBSET rows PROVE IsFiniteSet(S) /\ Cardinality(S) \in Nat
    BY FS_Subset, FS_CardinalityType
  <1>2. ASSUME NEW S \in SUBSET rows, NEW T \in SUBSET S
        PROVE  Cardinality(T) \leq Cardinality(S)
    BY <1>1, FS_Subset
  <1>3. last \in SUBSET rows /\ \A i \in last : Cardinality(from(i)) \leq n
    BY DEF LastOf
  <1>4. Cardinality(last) \leq n
    <2>1. CASE last = {}
      <3>1. Cardinality({}) = 0
        BY FS_EmptySet
      <3>2. QED
        BY <2>1, <3>1
    <2>2. CASE last # {}
      <3>1. PICK m \in last : \A i \in last : m \leq i
        <4>1. last \in SUBSET Nat
          BY <1>3
        <4> HIDE DEF last
        <4>2. QED
          BY <2>2, <4>1, LeastNatural
      <3>2. last \in SUBSET from(m) /\ from(m) \in SUBSET rows
        BY <1>3, <3>1
      <3>3. Cardinality(last) \leq Cardinality(from(m))
        <4> HIDE DEF last, from
        <4> QED BY <1>2, <3>2
      <3>4. Cardinality(from(m)) \leq n
        BY <1>3, <3>1
      <3>5. Cardinality(last) \in Nat /\ Cardinality(from(m)) \in Nat
        <4> HIDE DEF last, from
        <4> QED BY <1>1, <1>3, <3>2
      <3>6. QED
        BY <3>3, <3>4, <3>5
    <2>3. QED
      BY <2>1, <2>2
  <1>5. ASSUME NEW i \in last, NEW k \in rows, k >= i PROVE k \in last
    <2>1. from(k) \in SUBSET from(i) /\ from(i) \in SUBSET rows
      <3>1. i \in Nat /\ k \in Nat /\ \A x \in rows : x \in Nat
        BY <1>3
      <3>2. ASSUME NEW x \in rows, x >= k PROVE x >= i
        BY <1>5, <3>1, <3>2
      <3>3. QED
        BY <3>2
    <2>2. Cardinality(from(k)) \leq Cardinality(from(i))
      <3> HIDE DEF from
      <3> QED BY <1>2, <2>1
    <2>3. Cardinality(from(k)) \in Nat /\ Cardinality(from(i)) \in Nat
      <3> HIDE DEF from
      <3> QED BY <1>1, <2>1
    <2>4. Cardinality(from(k)) \leq n
      BY <1>3, <1>5, <2>2, <2>3
    <2>5. QED
      BY <2>4 DEF LastOf
  <1>6. QED
    BY <1>4, <1>5

Asking == {"asking", "streaming", "ending"}

\* From its first row to the start of the stream, and while it stores its answer, a
\* request holds the event loop: its question is still the last row when the rows
\* are read.  Place(r) \leq Limit => Heard(r) is then kept, whatever is stored.
HeardInv ==
    \A r \in Requests :
        /\ req[r].pc \in {"checked", "stored", "touching", "titling"} => loop = r
        /\ req[r].pc = "stored" => QuestionOf(r) = {Len(messages)}
        /\ req[r].turn > 0 => req[r].pc \in Asking
        /\ req[r].pc \in Asking => (Place(r) \leq Limit => Heard(r))

\* Rows that are read when the question is the last one: the question, and what
\* comes before it without a gap.
LEMMA RowsRead ==
    ASSUME ChatTypes, NEW r \in Requests, NEW q, q = Len(messages),
           QuestionOf(r) = {q}, messages[q].session = req[r].session, Place(r) \leq Limit,
           NEW sent, sent = Trimmed(SelectMessages(req[r].session))
    PROVE  /\ Cardinality(sent) \leq MaxHistory /\ sent \subseteq RowsOf(req[r].session)
           /\ q \in sent
           /\ \A i \in RowsOf(req[r].session) :
                 /\ i \leq q
                 /\ (\E k \in sent : k \leq i) /\ messages[i].text + messages[i].calls > 0
                       => i \in sent
  <1> DEFINE rows == RowsOf(req[r].session)
             last == LastOf(rows, MaxHistory)
  <1>1. /\ DOMAIN messages = 1..Len(messages) /\ Len(messages) \in Nat
        /\ IsFiniteSet(1..Len(messages))
    <2>1. DOMAIN messages = 1..Len(messages) /\ Len(messages) \in Nat
      BY LenProperties DEF ChatTypes
    <2>2. QED
      BY <2>1, FS_Interval
  <1>2. /\ rows \in SUBSET Nat /\ rows \in SUBSET (1..Len(messages))
        /\ q \in rows /\ \A i \in rows : i \leq q
    BY <1>1 DEF RowsOf, QuestionOf
  <1>3. IsFiniteSet(rows)
    <2> HIDE DEF rows
    <2> QED BY <1>1, <1>2, FS_Subset
  <1>4. SelectMessages(req[r].session) = rows
    <2>1. Place(r) = Cardinality(rows)
      <3>1. {i \in rows : \E x \in QuestionOf(r) : i \leq x} = rows
        BY <1>2
      <3>2. QED
        BY <3>1 DEF Place
    <2>2. ASSUME NEW i \in rows PROVE Cardinality({k \in rows : k \leq i}) \leq Limit
      <3> DEFINE part == {k \in rows : k \leq i}
      <3>1. part \in SUBSET rows
        OBVIOUS
      <3>2. Cardinality(part) \leq Cardinality(rows) /\ Cardinality(part) \in Nat
            /\ Cardinality(rows) \in Nat
        <4> HIDE DEF part, rows
        <4> QED BY <1>3, <3>1, FS_Subset, FS_CardinalityType
      <3>3. QED
        BY <2>1, <3>2, ChatAssumption
    <2>3. QED
      BY <2>2 DEF SelectMessages, FirstOf
  <1>5. /\ Cardinality(last) \leq MaxHistory
        /\ \A i \in last, k \in rows : k >= i => k \in last
    <2>1. MaxHistory \in Nat
      BY ChatAssumption
    <2> HIDE DEF rows
    <2>2. QED
      BY <1>2, <1>3, <2>1, LastRows
  <1>6. q \in last
    <2>1. {k \in rows : k >= q} = {q}
      BY <1>2
    <2>2. Cardinality({q}) = 1
      BY FS_Singleton
    <2>3. 1 \leq MaxHistory
      BY ChatAssumption
    <2>4. QED
      BY <1>2, <2>1, <2>2, <2>3 DEF LastOf
  <1>7. sent = {i \in last : \/ messages[i].role = "user" \/ messages[i].marker
                             \/ messages[i].text + messages[i].calls > 0}
    BY <1>4 DEF Trimmed
  <1>8. q \in sent
    BY <1>6, <1>7 DEF QuestionOf
  <1>9. last \in SUBSET rows /\ sent \in SUBSET last
    BY <1>7 DEF LastOf
  <1>10. Cardinality(sent) \leq MaxHistory
    <2>1. IsFiniteSet(last)
      BY <1>3, <1>9, FS_Subset
    <2>2. Cardinality(sent) \leq Cardinality(last) /\ Cardinality(last) \in Nat
          /\ Cardinality(sent) \in Nat
      BY <1>9, <2>1, FS_Subset, FS_CardinalityType
    <2>3. QED
      BY <1>5, <2>2, ChatAssumption
  <1>11. ASSUME NEW i \in rows, NEW k \in sent, k \leq i,
                messages[i].text + messages[i].calls > 0
         PROVE  i \in sent
    <2>1. i \in last
      BY <1>2, <1>5, <1>9, <1>11
    <2>2. QED
      BY <1>7, <1>11, <2>1
  <1>12. QED
    <2> HIDE DEF last
    <2> QED BY <1>2, <1>8, <1>9, <1>10, <1>11

\* What a step does to the rows that are there, and to those of a question.
NewRowsLast ==
    /\ DOMAIN messages \subseteq DOMAIN messages' /\ DOMAIN messages' \subseteq Nat
    /\ \A i \in DOMAIN messages : messages'[i] = messages[i]
    /\ \A i \in DOMAIN messages, k \in DOMAIN messages' \ DOMAIN messages : i < k

\* Every step adds rows at the end.
LEMMA RowsStep == ChatTypes /\ [Next]_chatVars => NewRowsLast
  <1> SUFFICES ASSUME ChatTypes, [Next]_chatVars PROVE NewRowsLast
    OBVIOUS
  <1>1. messages \in Seq(Rows) /\ messages' \in Seq(Rows)
    BY TypeStep DEF ChatTypes
  <1>2. /\ DOMAIN messages = 1..Len(messages) /\ Len(messages) \in Nat
        /\ DOMAIN messages' = 1..Len(messages') /\ Len(messages') \in Nat
    BY <1>1, LenProperties
  <1>3. /\ DOMAIN messages \subseteq DOMAIN messages'
        /\ \A i \in DOMAIN messages : messages'[i] = messages[i]
    BY StaysStep DEF Stays
  <1>4. QED
    BY <1>2, <1>3 DEF NewRowsLast

\* Only a request that stores its question changes what is its question.
LEMMA QuestionStays ==
    ASSUME ChatTypes, [Next]_chatVars, NEW r \in Requests, req[r].pc # "checked"
    PROVE  QuestionOf(r)' = QuestionOf(r)
  <1>1. CASE messages' = messages
    BY <1>1 DEF QuestionOf
  <1>2. ASSUME NEW q \in Requests, StoreQuestion(q) \/ StoreAnswer(q)
        PROVE  QuestionOf(r)' = QuestionOf(r)
    <2>0. IsRequest(req[q])
      BY DEF ChatTypes
    <2>1. CASE StoreQuestion(q)
      <3> DEFINE row == [session |-> req[q].session, by |-> q, role |-> "user", text |-> 1,
                         calls |-> 0, marker |-> FALSE, cost |-> 0]
      <3>1. messages' = Append(messages, row) /\ q # r
        BY <2>1 DEF StoreQuestion, InsertMessage
      <3>2. row \in Rows /\ row.by = q
        BY <2>0, <2>1 DEF StoreQuestion, IsRequest, Rows
      <3> HIDE DEF row
      <3>3. /\ DOMAIN messages' = DOMAIN messages \cup {Len(messages) + 1}
            /\ \A i \in DOMAIN messages : messages'[i] = messages[i]
            /\ messages'[Len(messages) + 1] = row
        BY <3>1, <3>2, NewRow
      <3>4. QED
        BY <3>1, <3>2, <3>3 DEF QuestionOf
    <2>2. CASE StoreAnswer(q)
      <3> DEFINE row == [session |-> req[q].session, by |-> q, role |-> "assistant",
                         text |-> req[q].text, calls |-> req[q].calls,
                         marker |-> req[q].cancelled,
                         cost |-> IF req[q].final THEN req[q].cost ELSE 0]
      <3>1. messages' = Append(messages, row) \/ messages' = messages
        BY <2>2 DEF StoreAnswer, InsertMessage
      <3>2. row \in Rows /\ row.role # "user"
        BY <2>0, <2>2 DEF StoreAnswer, IsRequest, Rows
      <3> HIDE DEF row
      <3>3. messages' = messages \/
            (/\ DOMAIN messages' = DOMAIN messages \cup {Len(messages) + 1}
             /\ \A i \in DOMAIN messages : messages'[i] = messages[i]
             /\ messages'[Len(messages) + 1] = row)
        BY <3>1, <3>2, NewRow
      <3>4. QED
        BY <3>2, <3>3 DEF QuestionOf
    <2>3. QED
      BY <1>2, <2>1, <2>2
  <1>3. QED
    BY <1>1, <1>2 DEF Next, Proceed, Create, DeleteRead, DeleteWrite, Check, Prepare, Answer,
       Deliver, Disconnect, TouchAnswer, StartTitle, CloseConnection, FinishTitle, chatVars

\* Rows that come later change neither the place of a question nor what it heard.
LEMMA HeardStays ==
    ASSUME NewRowsLast, NEW r \in Requests, QuestionOf(r)' = QuestionOf(r),
           req'[r].session = req[r].session, req'[r].history = req[r].history,
           Place(r) \leq Limit => Heard(r)
    PROVE  (Place(r) \leq Limit => Heard(r))'
  <1> DEFINE s == req[r].session
             sent == req[r].history
  <1>1. /\ RowsOf(s) \subseteq RowsOf(s)' /\ RowsOf(s) \subseteq DOMAIN messages
        /\ \A i \in RowsOf(s)' \ RowsOf(s) : i \in DOMAIN messages' \ DOMAIN messages
    BY DEF RowsOf, NewRowsLast
  <1>2. QuestionOf(r) \subseteq DOMAIN messages
    BY DEF QuestionOf
  <1>3. \A i \in DOMAIN messages, k \in DOMAIN messages' \ DOMAIN messages : k > i /\ ~(k \leq i)
    BY DEF NewRowsLast
  <1>4. Place(r)' = Place(r)
    <2>1. {i \in RowsOf(s)' : \E q \in QuestionOf(r) : i \leq q}
            = {i \in RowsOf(s) : \E q \in QuestionOf(r) : i \leq q}
      <3>1. ASSUME NEW i \in RowsOf(s)', NEW q \in QuestionOf(r), i \leq q
            PROVE  i \in RowsOf(s)
        BY <1>1, <1>2, <1>3, <3>1
      <3>2. QED
        BY <1>1, <3>1
    <2>2. RowsOf(req[r].session)' = RowsOf(s)'
      BY DEF RowsOf
    <2>3. QED
      BY <2>1, <2>2 DEF Place
  <1>5. ASSUME Heard(r) PROVE Heard(r)'
    <2>1. /\ Cardinality(sent) \leq MaxHistory /\ sent \subseteq RowsOf(s)
      BY <1>5 DEF Heard
    <2>2. PICK q \in sent \cap QuestionOf(r) : \A i \in RowsOf(s) :
             IF i > q THEN i \notin sent
             ELSE (\E k \in sent : k \leq i) /\ messages[i].text + messages[i].calls > 0
                     => i \in sent
      BY <1>5 DEF Heard
    <2>3. ASSUME NEW i \in RowsOf(s)'
          PROVE  IF i > q THEN i \notin sent
                 ELSE (\E k \in sent : k \leq i) /\ messages'[i].text + messages'[i].calls > 0
                         => i \in sent
      <3>1. CASE i \in RowsOf(s)
        <4>1. messages'[i] = messages[i]
          BY <1>1, <3>1 DEF NewRowsLast
        <4>2. QED
          BY <2>2, <3>1, <4>1
      <3>2. CASE i \notin RowsOf(s)
        BY <1>1, <1>2, <1>3, <2>1, <3>2
      <3>3. QED
        BY <3>1, <3>2
    <2>4. sent \subseteq RowsOf(s)'
      BY <1>1, <2>1
    <2>5. q \in sent \cap QuestionOf(r)'
      OBVIOUS
    <2>6. req'[r].session = s /\ req'[r].history = sent
      OBVIOUS
    <2>7. QED
      BY <2>1, <2>3, <2>4, <2>5, <2>6 DEF Heard
  <1>6. QED
    BY <1>4, <1>5

\* What a step does to a request q.
Moves(q) ==
    \/ /\ req'[q] = req[q]
       /\ loop = q => loop' = q
       /\ loop = q /\ req[q].pc = "stored" => messages' = messages
    \/ req[q].pc = "idle" /\ req'[q].pc = "checked" /\ req'[q].turn = req[q].turn /\ loop' = q
    \/ StoreQuestion(q)
    \/ Prepare(q)
    \/ /\ req[q].pc \in Asking /\ req'[q].pc \in Asking
       /\ req'[q].session = req[q].session /\ req'[q].history = req[q].history
    \/ /\ req[q].pc = "ending" /\ req'[q].pc \in {"touching", "closing"} /\ req'[q].turn = 0
       /\ req'[q].pc = "touching" => loop' = q
    \/ /\ req[q].pc = "touching" /\ req'[q].pc = "titling" /\ req'[q].turn = req[q].turn
       /\ loop' = loop
    \/ req[q].pc = "titling" /\ req'[q].pc = "closing" /\ req'[q].turn = req[q].turn
    \/ req'[q].pc = "over" /\ req'[q].turn = 0

\* Every step is one of these for every request.
LEMMA MovesStep ==
    ASSUME ChatTypes, [Next]_chatVars, NEW q \in Requests
    PROVE  Moves(q)
  <1>0. /\ q # 0 /\ \A r \in Requests : IsRequest(req[r])
    BY ChatAssumption DEF ChatTypes, Requests
  <1>1. CASE UNCHANGED <<req, loop>> /\ (req[q].pc = "stored" /\ loop = q => messages' = messages)
    BY <1>1 DEF Moves
  <1>2. ASSUME NEW r \in Requests, NEW s \in Sessions, Check(r, s) PROVE Moves(q)
    <2> DEFINE me == [req[r] EXCEPT !.pc = "checked", !.session = s]
    <2>1. req' = [req EXCEPT ![r] = me] /\ req[r].pc = "idle" /\ loop = 0 /\ loop' = r
          /\ messages' = messages
      BY <1>2 DEF Check
    <2>2. me.pc = "checked" /\ me.turn = req[r].turn
      BY <1>0 DEF IsRequest
    <2>3. req'[r] = me /\ OnlyRequest(r)
      <3> HIDE DEF me
      <3> QED BY <2>1, NewRequest
    <2> HIDE DEF me
    <2>4. QED
      BY <1>0, <2>1, <2>2, <2>3 DEF Moves, OnlyRequest
  <1>3. ASSUME NEW r \in Requests, StoreQuestion(r) PROVE Moves(q)
    <2>1. loop = r /\ loop' = loop /\ req[r].pc = "checked" /\ OnlyRequest(r)
      BY <1>3, NewRequest DEF StoreQuestion, OnlyRequest
    <2>2. QED
      BY <1>3, <2>1 DEF Moves, OnlyRequest
  <1>4. ASSUME NEW r \in Requests, Prepare(r) PROVE Moves(q)
    <2>1. loop = r /\ OnlyRequest(r)
      <3> DEFINE rows == Trimmed(SelectMessages(req[r].session))
                 me == [req[r] EXCEPT !.pc = "asking", !.turn = 1, !.history = rows]
      <3>1. loop = r /\ req' = [req EXCEPT ![r] = me]
        BY <1>4 DEF Prepare
      <3> HIDE DEF me
      <3>2. QED
        BY <3>1, NewRequest
    <2>2. QED
      BY <1>4, <2>1 DEF Moves, OnlyRequest
  <1>5. ASSUME NEW r \in Requests, NEW me, req' = [req EXCEPT ![r] = me],
               me.session = req[r].session, me.history = req[r].history,
               req[r].pc \in Asking, me.pc \in Asking, loop = 0, messages' = messages
        PROVE  Moves(q)
    <2>1. req'[r] = me /\ OnlyRequest(r)
      BY <1>5, NewRequest
    <2>2. QED
      BY <1>0, <1>5, <2>1 DEF Moves, OnlyRequest
  <1>6. ASSUME NEW r \in Requests, NEW kind \in {"raise", "tools", "final"},
               NEW text \in BOOLEAN, NEW calls \in 0..MaxCalls, Answer(r, kind, text, calls)
        PROVE  Moves(q)
    <2> DEFINE events == TurnEvents(r, kind, text, calls)
               me == [req[r] EXCEPT !.pc = "streaming", !.events = events]
    <2>1. /\ req' = [req EXCEPT ![r] = me] /\ req[r].pc = "asking" /\ loop = 0
          /\ messages' = messages
      BY <1>6 DEF Answer
    <2>2. me.session = req[r].session /\ me.history = req[r].history /\ me.pc = "streaming"
      <3> HIDE DEF events
      <3> QED BY <1>0 DEF IsRequest
    <2> HIDE DEF me
    <2>3. QED
      BY <1>5, <2>1, <2>2 DEF Asking
  <1>7. ASSUME NEW r \in Requests, Deliver(r) \/ Disconnect(r) PROVE Moves(q)
    <2>0. /\ req[r].pc \in Asking /\ loop = 0 /\ messages' = messages /\ IsRequest(req[r])
      BY <1>0, <1>7 DEF Deliver, Disconnect, Asking
    <2>1. CASE Deliver(r)
      <3> DEFINE e == Head(req[r].events)
                 you == Noted(r, req[r])
                 me == AfterEvent(you, e)
      <3>1. req' = [req EXCEPT ![r] = me] /\ Account(r) /\ req[r].pc = "streaming"
        BY <2>1 DEF Deliver
      <3>2. IsRequest(you) /\ you.session = req[r].session /\ you.pc = "streaming"
            /\ you.history = req[r].history
        BY <3>1, NotedFields
      <3>3. SameGathered(you, me) /\ me.pc \in {you.pc, "asking", "ending"}
            /\ me.history = you.history
        <4> HIDE DEF you, e
        <4> QED BY <3>2, AfterEventFields
      <3>4. me.pc \in Asking /\ me.session = req[r].session /\ me.history = req[r].history
        <4> HIDE DEF me, you
        <4> QED BY <3>2, <3>3 DEF SameGathered, Asking
      <3> HIDE DEF me
      <3>5. QED
        BY <1>5, <2>0, <3>1, <3>4
    <2>2. CASE req' = [req EXCEPT ![r] = [Noted(r, @) EXCEPT !.pc = "ending"]] /\ Account(r)
      <3> DEFINE you == Noted(r, req[r])
                 me == [you EXCEPT !.pc = "ending"]
      <3>1. IsRequest(you) /\ you.session = req[r].session /\ you.history = req[r].history
        BY <2>2, NotedFields
      <3>2. me.pc = "ending" /\ me.session = you.session /\ me.history = you.history
        <4> HIDE DEF you
        <4> QED BY <3>1 DEF IsRequest
      <3>3. req' = [req EXCEPT ![r] = me]
        BY <2>2
      <3> HIDE DEF me, you
      <3>4. QED
        BY <1>5, <2>0, <3>1, <3>2, <3>3 DEF Asking
    <2>3. CASE req' = [req EXCEPT ![r].pc = "ending"]
      <3> DEFINE me == [req[r] EXCEPT !.pc = "ending"]
      <3>1. me.pc = "ending" /\ me.session = req[r].session /\ me.history = req[r].history
        BY <2>0 DEF IsRequest
      <3>2. req' = [req EXCEPT ![r] = me]
        BY <2>3
      <3> HIDE DEF me
      <3>3. QED
        BY <1>5, <2>0, <3>1, <3>2 DEF Asking
    <2>4. CASE req' = [req EXCEPT ![r].pc = "ending", ![r].cancelled = TRUE]
      <3> DEFINE me == [req[r] EXCEPT !.pc = "ending", !.cancelled = TRUE]
      <3>1. me.pc = "ending" /\ me.session = req[r].session /\ me.history = req[r].history
        BY <2>0 DEF IsRequest
      <3>2. req' = [req EXCEPT ![r] = me]
        BY <2>4
      <3> HIDE DEF me
      <3>3. QED
        BY <1>5, <2>0, <3>1, <3>2 DEF Asking
    <2>5. QED
      BY <1>7, <2>1, <2>2, <2>3, <2>4 DEF Disconnect
  <1>8. ASSUME NEW r \in Requests, StoreAnswer(r) PROVE Moves(q)
    <2> DEFINE me(pc) == Ended(req[r], pc)
    <2>0. ASSUME NEW pc \in {"touching", "closing"} PROVE me(pc).pc = pc /\ me(pc).turn = 0
      BY <1>0 DEF Ended, IsRequest
    <2>1. \/ req' = [req EXCEPT ![r] = me("touching")] /\ loop' = r
          \/ req' = [req EXCEPT ![r] = me("closing")]
      BY <1>8 DEF StoreAnswer
    <2>2. loop = 0 /\ req[r].pc = "ending"
      BY <1>8 DEF StoreAnswer
    <2>3. /\ req'[r].pc \in {"touching", "closing"} /\ req'[r].turn = 0
          /\ req'[r].pc = "touching" => loop' = r
      <3>1. ASSUME NEW you, req' = [req EXCEPT ![r] = you] PROVE req'[r] = you
        BY <3>1, NewRequest
      <3>2. \/ req'[r] = me("touching") /\ loop' = r
            \/ req'[r] = me("closing")
        <4> HIDE DEF me
        <4> QED BY <2>1, <3>1
      <3>3. QED
        <4> HIDE DEF me
        <4> QED BY <2>0, <3>2
    <2>4. OnlyRequest(r)
      <3>1. ASSUME NEW you, req' = [req EXCEPT ![r] = you] PROVE OnlyRequest(r)
        BY <3>1, NewRequest
      <3> HIDE DEF me
      <3>2. QED
        BY <2>1, <3>1
    <2>5. QED
      BY <1>0, <2>2, <2>3, <2>4 DEF Moves, OnlyRequest
  <1>9. ASSUME NEW r \in Requests, TouchAnswer(r) PROVE Moves(q)
    <2>1. /\ loop = r /\ loop' = loop /\ req[r].pc = "touching" /\ OnlyRequest(r)
          /\ messages' = messages
      BY <1>9 DEF TouchAnswer, OnlyRequest
    <2>2. req'[r].pc = "titling" /\ req'[r].turn = req[r].turn
      BY <1>0, <1>9 DEF TouchAnswer, ChatTypes, IsRequest
    <2>3. QED
      BY <2>1, <2>2 DEF Moves, OnlyRequest
  <1>10. ASSUME NEW r \in Requests, StartTitle(r) PROVE Moves(q)
    <2>1. loop = r /\ req[r].pc = "titling" /\ OnlyRequest(r) /\ messages' = messages
      BY <1>10 DEF StartTitle, OnlyRequest
    <2>2. req'[r].pc = "closing" /\ req'[r].turn = req[r].turn
      BY <1>0, <1>10 DEF StartTitle, ChatTypes, IsRequest
    <2>3. QED
      BY <2>1, <2>2 DEF Moves, OnlyRequest
  <1>11. ASSUME NEW r \in Requests, CloseConnection(r) PROVE Moves(q)
    <2>1. OnlyRequest(r) /\ UNCHANGED <<messages, loop>>
      BY <1>11 DEF CloseConnection, OnlyRequest
    <2>2. req'[r].pc = "over" /\ req'[r].turn = 0
      BY <1>11 DEF CloseConnection, ChatTypes, Idle
    <2>3. QED
      BY <2>1, <2>2 DEF Moves, OnlyRequest
  <1>12. QED
    BY <1>1, <1>2, <1>3, <1>4, <1>6, <1>7, <1>8, <1>9, <1>10, <1>11
       DEF Next, Proceed, Create, DeleteRead, DeleteWrite, FinishTitle, chatVars

\* Every step keeps what was heard.
LEMMA HeardStep == ChatInv /\ HeardInv /\ [Next]_chatVars => HeardInv'
  <1> SUFFICES ASSUME ChatInv, HeardInv, [Next]_chatVars PROVE HeardInv'
    OBVIOUS
  <1>1. ChatTypes /\ NewRowsLast /\ \A r \in Requests : Moves(r) /\ IsRequest(req[r])
    BY RowsStep, MovesStep DEF ChatInv, ChatTypes
  <1> SUFFICES ASSUME NEW r \in Requests
               PROVE  /\ req'[r].pc \in {"checked", "stored", "touching", "titling"} => loop' = r
                      /\ req'[r].pc = "stored" => (QuestionOf(r) = {Len(messages)})'
                      /\ req'[r].turn > 0 => req'[r].pc \in Asking
                      /\ req'[r].pc \in Asking => (Place(r) \leq Limit => Heard(r))'
    BY DEF HeardInv
  <1>2. /\ req[r].pc \in {"checked", "stored", "touching", "titling"} => loop = r
        /\ req[r].pc = "stored" => QuestionOf(r) = {Len(messages)}
        /\ req[r].turn > 0 => req[r].pc \in Asking
        /\ req[r].pc \in Asking => (Place(r) \leq Limit => Heard(r))
    BY DEF HeardInv
  <1>3. ~(0 > 0)
    OBVIOUS
  <1>4. CASE StoreQuestion(r)
    <2>1. (QuestionOf(r) = {Len(messages)})'
      BY <1>1, <1>4, QuestionSeen DEF ChatInv
    <2>2. req'[r].pc = "stored" /\ req'[r].turn = req[r].turn /\ loop' = r
          /\ req[r].pc = "checked"
      BY <1>1, <1>4 DEF StoreQuestion, ChatTypes, IsRequest
    <2>3. QED
      BY <1>2, <2>1, <2>2 DEF Asking
  <1>5. CASE Prepare(r)
    <2> DEFINE sent == Trimmed(SelectMessages(req[r].session))
               me == [req[r] EXCEPT !.pc = "asking", !.turn = 1, !.history = sent]
    <2>1. req' = [req EXCEPT ![r] = me] /\ UNCHANGED messages /\ req[r].pc = "stored"
      BY <1>5 DEF Prepare
    <2>2. me.pc = "asking" /\ me.session = req[r].session /\ me.history = sent
      <3> HIDE DEF sent
      <3> QED BY <1>1 DEF IsRequest
    <2>3. req'[r].pc = "asking" /\ req'[r].session = req[r].session /\ req'[r].history = sent
      <3>1. req'[r] = me
        <4> HIDE DEF me
        <4> QED BY <1>1, <2>1, NewRequest
      <3> HIDE DEF me, sent
      <3>2. QED
        BY <2>2, <3>1
    <2>4. PICK q : q = Len(messages)
      OBVIOUS
    <2>5. QuestionOf(r) = {q} /\ messages[q].session = req[r].session
      <3>1. QuestionOf(r) = {q}
        BY <1>2, <2>1, <2>4
      <3>2. Asked(r)
        BY <2>1 DEF ChatInv, SeenInv, Pcs
      <3>3. QED
        BY <3>1, <3>2 DEF Asked
    <2>6. QuestionOf(r)' = QuestionOf(r) /\ Place(r)' = Place(r)
      BY <2>1, <2>3 DEF QuestionOf, Place, RowsOf
    <2>7. ASSUME Place(r) \leq Limit PROVE Heard(r)'
      <3>1. /\ Cardinality(sent) \leq MaxHistory /\ sent \subseteq RowsOf(req[r].session)
            /\ q \in sent
            /\ \A i \in RowsOf(req[r].session) :
                  /\ i \leq q
                  /\ (\E k \in sent : k \leq i) /\ messages[i].text + messages[i].calls > 0
                        => i \in sent
        <4>1. sent = Trimmed(SelectMessages(req[r].session))
          OBVIOUS
        <4> HIDE DEF sent
        <4>2. QED
          BY <1>1, <2>4, <2>5, <2>7, <4>1, RowsRead
      <3>2. \A i \in RowsOf(req[r].session) : ~(i > q)
        <4>1. messages \in Seq(Rows)
          BY <1>1 DEF ChatTypes
        <4>2. DOMAIN messages = 1..q /\ q \in Nat
          BY <2>4, <4>1, LenProperties
        <4>3. QED
          BY <4>2 DEF RowsOf
      <3>3. RowsOf(req[r].session)' = RowsOf(req[r].session)
        BY <2>1, <2>3 DEF RowsOf
      <3> HIDE DEF sent
      <3>4. QED
        BY <2>1, <2>3, <2>5, <2>6, <3>1, <3>2, <3>3 DEF Heard
    <2>8. QED
      BY <2>3, <2>6, <2>7 DEF Asking
  <1>6. CASE req[r].pc \in Asking /\ req'[r].pc \in Asking
             /\ req'[r].session = req[r].session /\ req'[r].history = req[r].history
    <2>1. QuestionOf(r)' = QuestionOf(r)
      BY <1>1, <1>6, QuestionStays DEF Asking
    <2>2. (Place(r) \leq Limit => Heard(r))'
      BY <1>1, <1>2, <1>6, <2>1, HeardStays
    <2>3. QED
      BY <1>6, <2>2 DEF Asking
  <1>7. CASE req'[r] = req[r] /\ (loop = r => loop' = r)
             /\ (loop = r /\ req[r].pc = "stored" => messages' = messages)
             /\ req[r].pc \notin Asking
    <2>1. req[r].pc = "stored" => QuestionOf(r)' = {Len(messages')}
      BY <1>2, <1>7 DEF QuestionOf
    <2>2. QED
      BY <1>2, <1>7, <2>1
  <1>8. CASE /\ req'[r].pc \notin Asking \cup {"stored"}
             /\ req'[r].pc \in {"checked", "stored", "touching", "titling"} => loop' = r
             /\ ~(req'[r].turn > 0)
    BY <1>8
  <1>9. QED
    BY <1>1, <1>2, <1>3, <1>4, <1>5, <1>6, <1>7, <1>8 DEF Moves, Asking

\* The model is sent the question and the conversation just before it without a gap,
\* whatever other streams of the session store meanwhile.
THEOREM ModelHears == Spec => []QuestionHeard
  <1>1. Init => HeardInv
    BY DEF Init, Idle, HeardInv, Asking
  <1>2. ChatInv /\ HeardInv => QuestionHeard
    BY DEF HeardInv, QuestionHeard
  <1>3. QED
    BY <1>1, <1>2, SeenInit, SeenStep, HeardStep, PTL DEF Spec

=============================================================================
