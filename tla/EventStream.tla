---------------------------- MODULE EventStream ----------------------------
(***************************************************************************)
(* The event bus and the public stream.  Requests emit from worker threads *)
(* with safe_emit_sync, which walks over a copy of the subscribers and     *)
(* puts the event into each one's bounded queue; every open stream takes   *)
(* events from its queue and sends them masked.                            *)
(*                                                                         *)
(* asyncio.Queue is not made for threads: between the check that a queue   *)
(* is not full and the append another thread may append as well.           *)
(***************************************************************************)
EXTENDS Integers, Sequences, FiniteSets, FiniteSetsExt, SequencesExt

CONSTANTS Callers,    \* worker threads that emit
          Streams,    \* connections to /api/public/events
          QueueSize,  \* maxsize of a subscriber's queue
          Whitelist,  \* PUBLIC_WHITELIST: the public fields of each event type
          Denylist,   \* DENYLIST_FIELDS
          MaxTaken    \* bound: events that a stream sends

ASSUME EventStreamAssumption ==
    /\ IsFiniteSet(Callers) /\ QueueSize \in Nat \ {0} /\ MaxTaken \in Nat

VARIABLES subscribers,  \* the queues of bus._subscribers, named by their streams
          phase,        \* of each connection: "new", "open" or "closed"
          queue,        \* what waits in each stream's queue
          emission,     \* the emission each caller is in
          labels,       \* the symbols of SymbolMaskTable, in the order of their labels
          frames,       \* what each stream has sent
          emitted,      \* history: the events of each caller and who they were for
          missed        \* history: the events a stream was not given: its queue was
                        \* full, or the walk ended before it

busVars == <<subscribers, phase, queue, emission, labels, frames, emitted, missed>>

NoEmission == [event |-> <<>>, copy |-> <<>>, at |-> 0, fits |-> FALSE]

BusInit ==
    /\ subscribers = <<>>
    /\ phase = [s \in Streams |-> "new"]
    /\ queue = [s \in Streams |-> <<>>]
    /\ emission = [c \in Callers |-> NoEmission]
    /\ labels = <<>>
    /\ frames = [s \in Streams |-> <<>>]
    /\ emitted = [c \in Callers |-> <<>>]
    /\ missed = [s \in Streams |-> {}]

-----------------------------------------------------------------------------
\* Emitting

Emitting(c) == emission[c] # NoEmission

\* safe_emit_sync up to the loop; without a subscriber there is nothing to do
Emit(c, type, payload) ==
    LET event == [by |-> c, n |-> Len(emitted[c]) + 1, type |-> type, payload |-> payload] IN
    /\ ~Emitting(c)
    /\ emitted' = [emitted EXCEPT ![c] = Append(@, [event |-> event, for |-> Range(subscribers)])]
    /\ emission' = [emission EXCEPT ![c] =
                      IF subscribers = <<>> THEN NoEmission
                      ELSE [event |-> event, copy |-> subscribers, at |-> 1, fits |-> FALSE]]
    /\ UNCHANGED <<subscribers, phase, queue, labels, frames, missed>>

\* Mutant: the loop runs over the subscribers themselves
LiveTargets(c) == subscribers

\* list(bus._subscribers)
Targets(c) == emission[c].copy

Onward(c) ==
    IF emission[c].at >= Len(Targets(c)) THEN NoEmission
    ELSE [emission[c] EXCEPT !.at = @ + 1, !.fits = FALSE]

\* put_nowait: the check; an event that does not fit is dropped
Look(c) ==
    LET s == emission[c].copy[emission[c].at] IN
    /\ Emitting(c) /\ ~emission[c].fits
    /\ IF Len(queue[s]) >= QueueSize
       THEN /\ missed' = [missed EXCEPT ![s] = @ \cup {emission[c].event}]
            /\ emission' = [emission EXCEPT ![c] = Onward(c)]
       ELSE /\ emission' = [emission EXCEPT ![c].fits = TRUE]
            /\ UNCHANGED missed
    /\ UNCHANGED <<subscribers, phase, queue, labels, frames, emitted>>

\* The streams after the one the walk is at
Rest(c) == {emission[c].copy[i] : i \in (emission[c].at + 1)..Len(emission[c].copy)}

\* put_nowait: the append, also to the queue of a stream that has gone, and then the
\* waking of the stream.  Off the loop the waking may raise (its getter was cancelled
\* meanwhile; in debug mode the loop refuses the call): the handler around the loop
\* ends the walk, and the streams after this one are not given the event.
Put(c) ==
    /\ Emitting(c) /\ emission[c].fits
    /\ LET s == emission[c].copy[emission[c].at] IN
       queue' = [queue EXCEPT ![s] = IF phase[s] = "open" THEN Append(@, emission[c].event) ELSE @]
    /\ \/ /\ emission' = [emission EXCEPT ![c] = Onward(c)]
          /\ UNCHANGED missed
       \/ /\ Rest(c) # {}
          /\ emission' = [emission EXCEPT ![c] = NoEmission]
          /\ missed' = [s \in Streams |-> IF s \in Rest(c) THEN missed[s] \cup {emission[c].event}
                                         ELSE missed[s]]
    /\ UNCHANGED <<subscribers, phase, labels, frames, emitted>>

-----------------------------------------------------------------------------
\* A connection

\* bus.subscribe
Open(s) ==
    /\ phase[s] = "new"
    /\ phase' = [phase EXCEPT ![s] = "open"]
    /\ subscribers' = Append(subscribers, s)
    /\ UNCHANGED <<queue, emission, labels, frames, emitted, missed>>

\* mask: a symbol that was not met before gets the next label
LabelsWith(event) ==
    IF "symbol" \in DOMAIN event.payload /\ "masked_symbol" \in Whitelist[event.type]
    THEN IF event.payload.symbol \in Range(labels) THEN labels
         ELSE Append(labels, event.payload.symbol)
    ELSE labels

LabelOf(table, symbol) == CHOOSE i \in DOMAIN table : table[i] = symbol

\* serialize: the label, and the fields that are listed and not denied
Masked(event, table) ==
    LET public == (Whitelist[event.type] \cap DOMAIN event.payload) \ Denylist
    IN  [label  |-> IF "symbol" \in DOMAIN event.payload
                       /\ "masked_symbol" \in Whitelist[event.type]
                    THEN LabelOf(table, event.payload.symbol) ELSE 0,
         fields |-> [f \in public |-> event.payload[f]]]

\* The stream takes an event and sends its frame
Serve(s) ==
    /\ phase[s] = "open" /\ queue[s] # <<>> /\ Len(frames[s]) < MaxTaken
    /\ labels' = LabelsWith(Head(queue[s]))
    /\ frames' = [frames EXCEPT ![s] =
                    Append(@, [event |-> Head(queue[s]),
                               sent |-> Masked(Head(queue[s]), LabelsWith(Head(queue[s])))])]
    /\ queue' = [queue EXCEPT ![s] = Tail(@)]
    /\ UNCHANGED <<subscribers, phase, emission, emitted, missed>>

\* The client goes away: the generator's finally unsubscribes
Leave(s) ==
    /\ phase[s] = "open"
    /\ phase' = [phase EXCEPT ![s] = "closed"]
    /\ subscribers' = RemoveFirst(subscribers, s)
    /\ queue' = [queue EXCEPT ![s] = <<>>]
    /\ UNCHANGED <<emission, labels, frames, emitted, missed>>

BusNext ==
    \/ \E c \in Callers : Look(c) \/ Put(c)
    \/ \E s \in Streams : Open(s) \/ Serve(s) \/ Leave(s)

-----------------------------------------------------------------------------
\* Properties

\* The last event of a caller is still on its way to a stream.
OnItsWay(c, s) ==
    /\ Emitting(c)
    /\ \E i \in DOMAIN emission[c].copy : i >= emission[c].at /\ emission[c].copy[i] = s

\* What a stream has sent and what waits in its queue
Line(s) == [i \in DOMAIN frames[s] |-> frames[s][i].event] \o queue[s]

\* What a caller emitted for a stream, without what the stream was not given and what is
\* still on its way
Due(c, s) ==
    {emitted[c][n].event : n \in {n \in DOMAIN emitted[c] :
                                   /\ s \in emitted[c][n].for
                                   /\ emitted[c][n].event \notin missed[s]
                                   /\ OnItsWay(c, s) => n < Len(emitted[c])}}

\* The n-th event of a caller comes before its later ones, and once.
InOrder(line) ==
    \A i, j \in DOMAIN line : i < j /\ line[i].by = line[j].by => line[i].n < line[j].n

\* Every open stream has sent, or has queued, all that each caller emitted since
\* it opened, once and in order, except what it was not given (its queue was full, or
\* waking a stream ahead of it raised) and the one event that is on its way; its queue
\* never holds more than the other emitters can have put beside the last that fitted;
\* and all streams use one label for a symbol and none for two.
StreamsFaithful ==
    /\ \A s \in Streams : phase[s] = "open" =>
         /\ Len(queue[s]) < QueueSize + Cardinality(Callers)
         /\ \A c \in Callers : {e \in Range(Line(s)) : e.by = c} = Due(c, s)
         /\ InOrder(Line(s))
    /\ \A s, t \in Streams : \A i \in DOMAIN frames[s], j \in DOMAIN frames[t] :
         LET a == frames[s][i]
             b == frames[t][j]
         IN  a.sent.label # 0 /\ b.sent.label # 0 =>
                 (a.sent.label = b.sent.label <=> a.event.payload.symbol = b.event.payload.symbol)

=============================================================================
