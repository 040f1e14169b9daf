---------------------------- MODULE ChatSessions ----------------------------
(***************************************************************************)
(* Chat sessions: the admin asks in a session, the agent calls the model   *)
(* and its tools for some turns and streams what comes out, and the route  *)
(* stores the answer when the stream ends, in whatever way it ends.        *)
(*                                                                         *)
(* Sends and title tasks are coroutines of one event loop: "loop" is the   *)
(* request that runs without awaiting, so that others wait.  Deletions are *)
(* synchronous handlers, which run in threads and interleave with every    *)
(* statement.  Every statement commits by itself.                          *)
(***************************************************************************)
EXTENDS Integers, Sequences, FiniteSets, SequencesExt

CONSTANTS Sessions,    \* session ids
          MaxRequests, \* bound: requests that send a message
          Deleters,    \* requests that delete a session
          MaxTurns,    \* _MAX_TOOL_TURNS: calls of the model for one question
          Limit,       \* _MESSAGES_PER_SESSION_MAX: rows read of a session
          MaxHistory,  \* max_history: rows sent to the model
          MaxCalls     \* bound: tool calls in one response

ASSUME ChatAssumption ==
    /\ {MaxRequests, MaxTurns, Limit, MaxHistory, MaxCalls} \subseteq Nat \ {0}
    /\ "none" \notin Sessions

\* In the order in which they come
Requests == 1..MaxRequests

VARIABLES sessions,  \* the chat_sessions rows
          messages,  \* the chat_messages rows, in the order of created_at
          costs,     \* the llm_costs rows of the chat: the request of each
          req,       \* the requests that send a message
          title,     \* the title task of a request
          deleting,  \* the session a deletion has seen active
          loop,      \* the request that holds the event loop, or 0
          shown      \* history: what the client of a request received until its end

chatVars == <<sessions, messages, costs, req, title, deleting, loop, shown>>

\* A session row: its status ("active" or "deleted"), its title ("fallback",
\* "given" or "generated") and what has set updated_at.  A message row: text and
\* calls count its texts and tool calls, marker is "[message interrupted]", cost is
\* the llm_cost_id, 0 for NULL.

\* A request that sends a message: history are the rows given to the agent; text,
\* calls, final and cancelled are what event_stream gathers; cost is the row the
\* agent wrote.
Idle == [pc |-> "idle", session |-> "none", history |-> {}, turn |-> 0, events |-> <<>>,
         text |-> 0, calls |-> 0, final |-> FALSE, cancelled |-> FALSE, cost |-> 0]

Nothing == [text |-> 0, calls |-> 0, done |-> FALSE]

Init ==
    /\ sessions = <<>>
    /\ messages = <<>>
    /\ costs = <<>>
    /\ req = [r \in Requests |-> Idle]
    /\ title = [r \in Requests |-> "none"]
    /\ deleting = [d \in Deleters |-> "none"]
    /\ loop = 0
    /\ shown = [r \in Requests |-> Nothing]

-----------------------------------------------------------------------------
\* The store

\* Rows are given by their places, in whose order they are read and sent
RowsOf(s) == {i \in DOMAIN messages : messages[i].session = s}

FirstOf(rows, n) == {i \in rows : Cardinality({k \in rows : k \leq i}) \leq n}

LastOf(rows, n) == {i \in rows : Cardinality({k \in rows : k >= i}) \leq n}

\* ORDER BY created_at LIMIT: the oldest rows of the session
SelectMessages(s) == FirstOf(RowsOf(s), Limit)

InsertMessage(m) == messages' = Append(messages, m)

TouchSession(s) == sessions' = [sessions EXCEPT ![s].updated = "message"]

Create(s, given) ==
    /\ s \notin DOMAIN sessions
    /\ sessions' = [x \in DOMAIN sessions \cup {s} |->
                      IF x # s THEN sessions[x]
                      ELSE [status |-> "active", updated |-> "creation",
                            title |-> IF given THEN "given" ELSE "fallback"]]
    /\ UNCHANGED <<messages, costs, req, title, deleting, loop, shown>>

\* soft_delete_session looks at the row; a session that is not there (404) or
\* deleted already is left alone ...
DeleteRead(d, s) ==
    /\ deleting[d] = "none"
    /\ s \in DOMAIN sessions /\ sessions[s].status = "active"
    /\ deleting' = [deleting EXCEPT ![d] = s]
    /\ UNCHANGED <<sessions, messages, costs, req, title, loop, shown>>

\* ... and updates it
DeleteWrite(d) ==
    /\ deleting[d] # "none"
    /\ sessions' = [sessions EXCEPT ![deleting[d]].status = "deleted",
                                    ![deleting[d]].updated = "deletion"]
    /\ deleting' = [deleting EXCEPT ![d] = "none"]
    /\ UNCHANGED <<messages, costs, req, title, loop, shown>>

-----------------------------------------------------------------------------
\* send_chat_message up to the response, without an await

\* The session is there and active, and an API key is set; otherwise 404 or
\* 422 and nothing happens
Check(r, s) ==
    /\ loop = 0 /\ req[r].pc = "idle" /\ \A q \in 1..(r-1) : req[q].pc # "idle"
    /\ s \in DOMAIN sessions /\ sessions[s].status = "active"
    /\ loop' = r
    /\ req' = [req EXCEPT ![r].pc = "checked", ![r].session = s]
    /\ UNCHANGED <<sessions, messages, costs, title, deleting, shown>>

StoreQuestion(r) ==
    /\ loop = r /\ req[r].pc = "checked"
    /\ InsertMessage([session |-> req[r].session, by |-> r, role |-> "user", text |-> 1,
                      calls |-> 0, marker |-> FALSE, cost |-> 0])
    /\ req' = [req EXCEPT ![r].pc = "stored"]
    /\ UNCHANGED <<sessions, costs, title, deleting, loop, shown>>

\* Mutant: the first rows of the history instead of the last
FirstTrimmed(rows) == FirstOf(rows, MaxHistory)

\* _serialise_chat_messages: the last rows, without the answers that have
\* neither text nor tool calls
Trimmed(rows) ==
    {i \in LastOf(rows, MaxHistory) : \/ messages[i].role = "user" \/ messages[i].marker
                                      \/ messages[i].text + messages[i].calls > 0}

\* touch_session, select_messages, and the agent is made; the stream starts
Prepare(r) ==
    LET s == req[r].session IN
    /\ loop = r /\ req[r].pc = "stored"
    /\ TouchSession(s)
    /\ req' = [req EXCEPT ![r].pc = "asking", ![r].turn = 1,
                          ![r].history = Trimmed(SelectMessages(s))]
    /\ loop' = 0
    /\ UNCHANGED <<messages, costs, title, deleting, shown>>

-----------------------------------------------------------------------------
\* ChatAgent.stream and event_stream

\* A turn with tools: each is called and its result goes back to the model; the
\* text comes first
ToolEvents(text, calls) ==
    text \o FlattenSeq([k \in 1..calls |-> <<"tool_call", "tool_result">>])

\* What the agent yields for the response: the model raises, it asks for tools
\* (beyond the last turn that is tool_turn_limit), or it is done
TurnEvents(r, kind, text, calls) ==
    LET said == IF text THEN <<"delta">> ELSE <<>> IN
    CASE kind = "raise" -> <<"error">>
      [] kind = "tools" -> ToolEvents(said, calls)
                             \o (IF req[r].turn = MaxTurns THEN <<"error">> ELSE <<>>)
      [] kind = "final" -> said \o <<"done">>

Answer(r, kind, text, calls) ==
    /\ loop = 0 /\ req[r].pc = "asking"
    /\ kind = "tools" <=> calls > 0
    /\ kind = "raise" => ~text
    /\ req' = [req EXCEPT ![r].pc = "streaming", ![r].events = TurnEvents(r, kind, text, calls)]
    /\ UNCHANGED <<sessions, messages, costs, title, deleting, loop, shown>>

\* The agent writes its cost row, of all turns, before it yields "done"
Account(r) ==
    costs' = IF Head(req[r].events) = "done" THEN Append(costs, r) ELSE costs

\* event_stream takes note of the event the agent yields
Noted(r, me) ==
    LET e == Head(req[r].events) IN
    [me EXCEPT !.events = Tail(@),
               !.text  = @ + (IF e = "delta" THEN 1 ELSE 0),
               !.calls = @ + (IF e = "tool_call" THEN 1 ELSE 0),
               !.final = @ \/ e = "done",
               !.cost  = IF e = "done" THEN Len(costs') ELSE @]

\* Mutant: a call that raised is tried again, in the same turn
AfterEventRetries(me, e) ==
    CASE e = "error" /\ me.turn < MaxTurns -> [me EXCEPT !.pc = "asking"]
      [] e \in {"done", "error"} -> [me EXCEPT !.pc = "ending"]
      [] OTHER -> IF me.events = <<>>
                  THEN [me EXCEPT !.pc = "asking", !.turn = @ + 1]
                  ELSE me

\* After an event: the end, the next event, or the next turn
AfterEvent(me, e) ==
    CASE e \in {"done", "error"} -> [me EXCEPT !.pc = "ending"]
      [] OTHER -> IF me.events = <<>>
                  THEN [me EXCEPT !.pc = "asking", !.turn = @ + 1]
                  ELSE me

Deliver(r) ==
    LET e == Head(req[r].events) IN
    /\ loop = 0 /\ req[r].pc = "streaming"
    /\ Account(r)
    /\ req' = [req EXCEPT ![r] = AfterEvent(Noted(r, @), e)]
    /\ shown' = [shown EXCEPT ![r].text  = @ + (IF e = "delta" THEN 1 ELSE 0),
                              ![r].calls = @ + (IF e = "tool_call" THEN 1 ELSE 0),
                              ![r].done  = @ \/ e = "done"]
    /\ UNCHANGED <<sessions, messages, title, deleting, loop>>

\* The client has gone: request.is_disconnected() says so, or the generator is
\* closed at the yield, at that await or, in "asking", while the model works
Disconnect(r) ==
    /\ loop = 0
    /\ \/ /\ req[r].pc = "streaming"
          /\ Account(r)
          /\ \/ req' = [req EXCEPT ![r].pc = "ending", ![r].cancelled = TRUE]
             \/ req' = [req EXCEPT ![r] = [Noted(r, @) EXCEPT !.pc = "ending"]]
             \/ req' = [req EXCEPT ![r].pc = "ending"]
       \/ /\ req[r].pc = "asking"
          /\ req' = [req EXCEPT ![r].pc = "ending"]
          /\ UNCHANGED costs
    /\ UNCHANGED <<sessions, messages, title, deleting, loop, shown>>

-----------------------------------------------------------------------------
\* _commit_assistant_turn, in the finally of the stream, without an await

\* Mutant: only finished answers are worth storing
WorthStoringFinal(me) == me.final

WorthStoring(me) == me.final \/ me.text > 0 \/ me.calls > 0

\* The generator of the agent is gone
Ended(me, pc) ==
    [me EXCEPT !.pc = pc, !.history = {}, !.turn = 0, !.events = <<>>]

StoreAnswer(r) ==
    LET me == req[r] IN
    /\ loop = 0 /\ me.pc = "ending"
    /\ \/ /\ WorthStoring(me)
          /\ InsertMessage([session |-> me.session, by |-> r, role |-> "assistant",
                            text |-> me.text, calls |-> me.calls, marker |-> me.cancelled,
                            cost |-> IF me.final THEN me.cost ELSE 0])
          /\ loop' = r
          /\ req' = [req EXCEPT ![r] = Ended(@, "touching")]
       \/ /\ ~WorthStoring(me)
          /\ req' = [req EXCEPT ![r] = Ended(@, "closing")]
          /\ UNCHANGED <<messages, loop>>
    /\ UNCHANGED <<sessions, costs, title, deleting, shown>>

TouchAnswer(r) ==
    /\ loop = r /\ req[r].pc = "touching"
    /\ TouchSession(req[r].session)
    /\ req' = [req EXCEPT ![r].pc = "titling"]
    /\ UNCHANGED <<messages, costs, title, deleting, loop, shown>>

\* Mutant: whatever the title is
WantsTitleAlways(s, me) == sessions[s].status = "active" /\ me.final /\ ~me.cancelled

WantsTitle(s, me) ==
    /\ sessions[s].status = "active" /\ sessions[s].title = "fallback"
    /\ me.final /\ ~me.cancelled

\* The session is read again, and a task is started that finds a title
StartTitle(r) ==
    /\ loop = r /\ req[r].pc = "titling"
    /\ title' = [title EXCEPT ![r] = IF WantsTitle(req[r].session, req[r])
                                     THEN "asking" ELSE "none"]
    /\ req' = [req EXCEPT ![r].pc = "closing"]
    /\ loop' = 0
    /\ UNCHANGED <<sessions, messages, costs, deleting, shown>>

\* get_db closes the connection of the request once the response is sent
CloseConnection(r) ==
    /\ req[r].pc = "closing"
    /\ req' = [req EXCEPT ![r] = [Idle EXCEPT !.pc = "over", !.session = req[r].session]]
    /\ shown' = [shown EXCEPT ![r] = Nothing]
    /\ UNCHANGED <<sessions, messages, costs, title, deleting, loop>>

\* The task writes what it found, unless that is the fallback; the update
\* raises when the connection is closed, and the task dies
FinishTitle(r) ==
    LET s == req[r].session IN
    /\ loop = 0 /\ title[r] = "asking"
    /\ title' = [title EXCEPT ![r] = "over"]
    /\ \/ /\ req[r].pc # "over"
          /\ sessions' = [sessions EXCEPT ![s].title = "generated"]
       \/ UNCHANGED sessions
    /\ UNCHANGED <<messages, costs, req, deleting, loop, shown>>

-----------------------------------------------------------------------------
\* What a request does by itself once it has been accepted
Proceed(r) ==
    \/ StoreQuestion(r)
    \/ Prepare(r)
    \/ \E kind \in {"raise", "tools", "final"}, text \in BOOLEAN, calls \in 0..MaxCalls :
          Answer(r, kind, text, calls)
    \/ Deliver(r)
    \/ StoreAnswer(r)
    \/ TouchAnswer(r)
    \/ StartTitle(r)
    \/ CloseConnection(r)

Next ==
    \/ \E s \in Sessions, given \in BOOLEAN : Create(s, given)
    \/ \E d \in Deleters, s \in Sessions : DeleteRead(d, s)
    \/ \E d \in Deleters : DeleteWrite(d)
    \/ \E r \in Requests, s \in Sessions : Check(r, s)
    \/ \E r \in Requests : Proceed(r) \/ Disconnect(r) \/ FinishTitle(r)

Spec == Init /\ [][Next]_chatVars

\* The client library of the model returns or raises (it has a timeout), and
\* the event loop runs every coroutine that is ready
FairSpec == Spec /\ \A r \in Requests : WF_chatVars(Proceed(r))

-----------------------------------------------------------------------------
\* Properties

QuestionOf(r) == {i \in DOMAIN messages : messages[i].by = r /\ messages[i].role = "user"}

AnswerOf(r) == {i \in DOMAIN messages : messages[i].by = r /\ messages[i].role = "assistant"}

\* What a client saw of an answer is what a reload of the session shows
\* (api/routes/chat.py:352), in whatever way the stream ended: one answer to
\* the question, after it, with every text and tool call that was sent, and
\* when "done" was sent, unmarked and with its cost row.
StoredAsSeen ==
    \A r \in Requests : req[r].pc \in {"touching", "titling", "closing"} =>
        /\ Cardinality(QuestionOf(r)) = 1 /\ Cardinality(AnswerOf(r)) \leq 1
        /\ shown[r].text + shown[r].calls > 0 \/ shown[r].done => AnswerOf(r) # {}
        /\ \A i \in QuestionOf(r), k \in AnswerOf(r) :
              LET m == messages[k] IN
              /\ i < k /\ m.session = messages[i].session
              /\ m.text >= shown[r].text /\ m.calls >= shown[r].calls
              /\ m.cost # 0 => costs[m.cost] = r
              /\ shown[r].done =>
                    /\ ~m.marker /\ m.text = shown[r].text /\ m.calls = shown[r].calls
                    /\ m.cost # 0

\* Where the question of r is among the rows of its session
Place(r) == Cardinality({i \in RowsOf(req[r].session) : \E q \in QuestionOf(r) : i \leq q})

\* What the model is sent ends with the question, and is the conversation just
\* before it without a gap, although answers of other streams in the session
\* are stored meanwhile: "only the latest max_history messages"
\* (chat-agent-runtime/spec.md:20).  It holds while the question is among the
\* first Limit rows of its session.
Heard(r) ==
    LET sent == req[r].history IN
    /\ Cardinality(sent) \leq MaxHistory /\ sent \subseteq RowsOf(req[r].session)
    /\ \E q \in sent \cap QuestionOf(r) : \A i \in RowsOf(req[r].session) :
          IF i > q THEN i \notin sent
          ELSE (\E k \in sent : k \leq i) /\ messages[i].text + messages[i].calls > 0
                  => i \in sent

QuestionHeard ==
    \A r \in Requests : req[r].turn > 0 /\ Place(r) \leq Limit => Heard(r)

\* A title changes only from the fallback or from another generated one, for an
\* answer of the session that was sent to its end (api/routes/chat.py:529); a
\* title the user gave stays.
TitlesEarned ==
    [][\A s \in DOMAIN sessions : sessions'[s].title # sessions[s].title =>
          /\ sessions[s].title # "given"
          /\ \E r \in Requests : /\ title[r] = "asking" /\ req[r].session = s
                                 /\ \E i \in AnswerOf(r) : ~messages[i].marker]_chatVars

\* Every question comes to an end, although the model may ask for tools each
\* time (agent.py:56, "_MAX_TOOL_TURNS"), and its connection is closed.
QuestionsEnd == \A r \in Requests : req[r].pc = "checked" ~> req[r].pc = "over"

=============================================================================
