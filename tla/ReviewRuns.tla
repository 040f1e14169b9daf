------------------------------ MODULE ReviewRuns ------------------------------
(***************************************************************************)
(* Post-trade reviews: run_review takes a period through five nodes, each  *)
(* of which leaves a file in the directory of the review, and ends by      *)
(* adding the review to the index.  It is called from CLI processes and,   *)
(* wrapped by run_swarm, from the API, whose event loop it blocks: so any  *)
(* number of CLI runs race with at most one API run.  run_swarm tells from *)
(* the files how far a failed run got.                                     *)
(***************************************************************************)
EXTENDS Naturals, Sequences, FiniteSets, FiniteSetsExt

CONSTANTS Reviews,     \* review ids, one per period
          Clis,        \* CLI processes that can run together
          MaxRuns,     \* bound: runs started
          MaxCrashes   \* bound: runs that die on the way

ASSUME RunsAssumption == "api" \notin Clis /\ MaxRuns \in Nat /\ MaxCrashes \in Nat

Runners == {"api"} \cup Clis

\* data_loader, attributor, aggregator, critic, proposer
Nodes == 1..5

\* Their files data.json, attribution.json, metrics.json, critique.md and
\* proposals_created.md, and report.md
Outputs == 1..6

\* Mutant: no report is written
LastOutputIsList == 5

LastOutput == 6

\* The nodes that may call an LLM
LLMNodes == {2, 4, 5}

VARIABLES files,    \* the outputs there are, by review; its domain are the directories
          partial,  \* those of them, <<review, output>>, that a run has opened and not
                    \* written in full: it is at it, or its write failed, or it died
          index,    \* the reviews listed in _index.json
          rows,     \* the swarm_runs table; failed = 0 for completed
          costs,    \* the llm_costs rows, by run and node
          bus,      \* events published
          started,  \* the reviews of the runs started, the API's and others'
          raised,   \* history: where a failed API run raised (0: before any node)
          cut,      \* history: the runs that died
          run       \* runs in flight

reviewVars == <<files, partial, index, rows, costs, bus, started, raised, cut, run>>

\* A run in flight; "read" is the index as upsert_index_entry read it, and
\* "failed" the node run_swarm takes for the failed one, 0 for none
RunStates ==
    [pc : {"checking", "making", "working", "opening", "writing", "indexing",
           "upserting", "returning", "failing", "storing"},
     id : Nat, review : Reviews, force : BOOLEAN, dry : BOOLEAN, next : 0..6,
     read : SUBSET Reviews, failed : 0..5]

Resting == [pc |-> "idle"]

Init ==
    /\ files = <<>>
    /\ partial = {}
    /\ index = {}
    /\ rows = {}
    /\ costs = {}
    /\ bus = {}
    /\ started = <<>>
    /\ raised = <<>>
    /\ cut = {}
    /\ run = [r \in Runners |-> Resting]

Goto(r, pc) == run' = [run EXCEPT ![r].pc = pc]

Ev(id, type, node) == [run |-> id, type |-> type, node |-> node]

Publish(events) == bus' = bus \cup events

\* _emit_node_started: nothing for a dry run
NodeStarted(r, node) ==
    IF run[r].dry THEN {} ELSE {Ev(run[r].id, "review_node_started", node)}

-----------------------------------------------------------------------------
\* run_review

\* run_swarm announces its run and the first node; a CLI run begins silently
Start(r, review, force, dry) ==
    LET id == Len(started) + 1 IN
    /\ run[r] = Resting
    /\ Len(started) < MaxRuns
    /\ started' = Append(started, [review |-> review, by |-> r])
    /\ run' = [run EXCEPT ![r] = [pc |-> "checking", id |-> id, review |-> review,
                                  force |-> force, dry |-> dry, next |-> 0,
                                  read |-> {}, failed |-> 0]]
    /\ Publish(IF r = "api" THEN {Ev(id, "run_started", 0), Ev(id, "node_started", 1)}
                            ELSE {})
    /\ UNCHANGED <<files, partial, index, rows, costs, raised, cut>>

\* Mutant: run_swarm does not catch it
RaiseUncaught(r) ==
    /\ run' = [run EXCEPT ![r] = Resting]
    /\ UNCHANGED <<files, partial, index, rows, costs, bus, started, raised, cut>>

\* The exception reaches run_swarm, or the CLI, which prints it
Raise(r) ==
    /\ IF r = "api"
       THEN /\ run' = [run EXCEPT ![r].pc = "failing", ![r].read = {}]
            /\ raised' = [id \in DOMAIN raised \cup {run[r].id} |->
                            IF id = run[r].id THEN run[r].next ELSE raised[id]]
       ELSE /\ run' = [run EXCEPT ![r] = Resting]
            /\ UNCHANGED raised
    /\ UNCHANGED <<files, partial, index, rows, costs, bus, started, cut>>

\* ReviewAlreadyExistsError
Refuse(r) ==
    /\ run[r].pc = "checking"
    /\ ~run[r].dry /\ ~run[r].force /\ run[r].review \in DOMAIN files
    /\ Raise(r)

\* Mutant: the first node is skipped
BeginSecond(r) == /\ run' = [run EXCEPT ![r].pc = "working", ![r].next = 2]
                  /\ Publish(NodeStarted(r, 2))

Begin(r) == /\ run' = [run EXCEPT ![r].pc = "working", ![r].next = 1]
            /\ Publish(NodeStarted(r, 1))

Check(r) ==
    /\ run[r].pc = "checking"
    /\ \/ run[r].dry /\ Begin(r)
       \/ /\ ~run[r].dry
          /\ run[r].force \/ run[r].review \notin DOMAIN files
          /\ Goto(r, "making")
          /\ UNCHANGED bus
    /\ UNCHANGED <<files, partial, index, rows, costs, started, raised, cut>>

\* mkdir with exist_ok
MakeDir(r) ==
    /\ run[r].pc = "making"
    /\ files' = [v \in DOMAIN files \cup {run[r].review} |->
                   IF v \in DOMAIN files THEN files[v] ELSE {}]
    /\ Begin(r)
    /\ UNCHANGED <<partial, index, rows, costs, started, raised, cut>>

\* The LLM factory, a node, its LLM call, the opening of a file or the writing
\* raises: the API key is missing, the answer does not parse, the disk is full, ...
\* What was opened stays, empty or cut off
Break(r) ==
    /\ run[r].pc \in {"making", "working", "opening", "writing", "indexing", "upserting"}
    /\ Raise(r)

\* A node computes its output; an LLM answer that was accepted has its cost
\* row.  Without trades neither attributor nor critic asks, and without the
\* critic's warnings the proposer does not.  (The proposals of the last node are ProposalStore's WriteStart and
\* WriteFile.)
Work(r, asks) ==
    LET me == run[r] IN
    /\ me.pc = "working"
    /\ asks => me.next \in LLMNodes
    /\ me.next = 4 /\ ~me.dry => (asks <=> <<me.id, 2>> \in costs)
    /\ me.next = 5 /\ ~me.dry /\ asks => <<me.id, 4>> \in costs
    /\ costs' = IF asks /\ ~me.dry THEN costs \cup {<<me.id, me.next>>} ELSE costs
    /\ \/ ~me.dry /\ Goto(r, "opening") /\ UNCHANGED bus
       \/ /\ me.dry /\ me.next < 5
          /\ run' = [run EXCEPT ![r].next = @ + 1]
          /\ UNCHANGED bus
       \/ me.dry /\ me.next = 5 /\ Goto(r, "returning") /\ UNCHANGED bus
    /\ UNCHANGED <<files, partial, index, rows, started, raised, cut>>

\* ... and write_text opens its file, which creates or empties it ...
Open(r) ==
    LET me == run[r] IN
    /\ me.pc = "opening"
    /\ files' = [files EXCEPT ![me.review] = @ \cup {me.next}]
    /\ partial' = partial \cup {<<me.review, me.next>>}
    /\ Goto(r, "writing")
    /\ UNCHANGED <<index, rows, costs, bus, started, raised, cut>>

\* ... and writes it, before the next node starts; report.md comes last
Write(r) ==
    LET me == run[r] IN
    /\ me.pc = "writing"
    /\ partial' = partial \ {<<me.review, me.next>>}
    /\ \/ /\ me.next < 5
          /\ run' = [run EXCEPT ![r].pc = "working", ![r].next = @ + 1]
          /\ Publish(NodeStarted(r, me.next + 1))
       \/ /\ me.next \in 5..(LastOutput - 1)
          /\ run' = [run EXCEPT ![r].pc = "opening", ![r].next = @ + 1]
          /\ UNCHANGED bus
       \/ me.next = LastOutput /\ Goto(r, "indexing") /\ UNCHANGED bus
    /\ UNCHANGED <<files, index, rows, costs, started, raised, cut>>

\* upsert_index_entry reads the whole index ...
IndexRead(r) ==
    /\ run[r].pc = "indexing"
    /\ run' = [run EXCEPT ![r].pc = "upserting", ![r].read = index]
    /\ UNCHANGED <<files, partial, index, rows, costs, bus, started, raised, cut>>

\* ... and replaces it; then review_completed is emitted
IndexWrite(r) ==
    /\ run[r].pc = "upserting"
    /\ index' = run[r].read \cup {run[r].review}
    /\ run' = [run EXCEPT ![r].pc = "returning", ![r].read = {}]
    /\ Publish({Ev(run[r].id, "review_completed", 0)})
    /\ UNCHANGED <<files, partial, rows, costs, started, raised, cut>>

-----------------------------------------------------------------------------
\* run_swarm

NodeEvents(id, startedNodes, completedNodes) ==
    {Ev(id, "node_started", k) : k \in startedNodes}
      \cup {Ev(id, "node_completed", k) : k \in completedNodes}

\* A CLI run is over; run_swarm says that every node is
Succeed(r) ==
    /\ run[r].pc = "returning"
    /\ \/ /\ r = "api"
          /\ Publish(NodeEvents(run[r].id, Nodes, Nodes))
          /\ Goto(r, "storing")
       \/ /\ r # "api"
          /\ run' = [run EXCEPT ![r] = Resting]
          /\ UNCHANGED bus
    /\ UNCHANGED <<files, partial, index, rows, costs, started, raised, cut>>

\* Mutant: the last output that is there
InferredLast(review, dry) ==
    IF dry \/ review \notin DOMAIN files \/ files[review] = {} THEN 1
    ELSE Min({5, Max(files[review])})

\* _infer_failed_node: the first node whose file is missing
Inferred(review, dry) ==
    IF dry \/ review \notin DOMAIN files THEN 1
    ELSE IF Nodes \subseteq files[review] THEN 5
    ELSE Min(Nodes \ files[review])

Fail(r) ==
    LET failed == Inferred(run[r].review, run[r].dry) IN
    /\ run[r].pc = "failing"
    /\ Publish(NodeEvents(run[r].id, 1..failed, 1..(failed-1)))
    /\ run' = [run EXCEPT ![r].pc = "storing", ![r].failed = failed]
    /\ UNCHANGED <<files, partial, index, rows, costs, started, raised, cut>>

\* The row is inserted, then the end of the run announced
Store(r) ==
    LET me == run[r] IN
    /\ me.pc = "storing"
    /\ rows' = rows \cup {[run |-> me.id, review |-> me.review, dry |-> me.dry,
                           failed |-> me.failed]}
    /\ Publish({Ev(me.id, IF me.failed = 0 THEN "run_completed" ELSE "run_failed",
                   me.failed)})
    /\ run' = [run EXCEPT ![r] = Resting]
    /\ UNCHANGED <<files, partial, index, costs, started, raised, cut>>

\* The process dies, or run_swarm's own insert raises
Die(r) ==
    /\ run[r] # Resting
    /\ Cardinality(cut) < MaxCrashes
    /\ cut' = cut \cup {run[r].id}
    /\ run' = [run EXCEPT ![r] = Resting]
    /\ UNCHANGED <<files, partial, index, rows, costs, bus, started, raised>>

\* What a run does by itself once it has started
Proceed(r) ==
    \/ Refuse(r)
    \/ Check(r)
    \/ MakeDir(r)
    \/ Break(r)
    \/ \E asks \in BOOLEAN : Work(r, asks)
    \/ Open(r)
    \/ Write(r)
    \/ IndexRead(r)
    \/ IndexWrite(r)
    \/ Succeed(r)
    \/ Fail(r)
    \/ Store(r)

Next ==
    \E r \in Runners :
        \/ \E review \in Reviews, force \in BOOLEAN, dry \in BOOLEAN :
              Start(r, review, force, dry)
        \/ Proceed(r)
        \/ Die(r)

Spec == Init /\ [][Next]_reviewVars

\* A run that has started goes on: every LLM call of a node ends, with an
\* answer or with an error of the client
FairSpec == Spec /\ \A r \in Runners : WF_reviewVars(Proceed(r))

-----------------------------------------------------------------------------
\* Properties

\* Every variable has its type.
TypeOK ==
    /\ DOMAIN files \subseteq Reviews
    /\ \A v \in DOMAIN files : files[v] \subseteq Outputs
    /\ partial \subseteq (DOMAIN files) \X Outputs
    /\ index \subseteq Reviews
    /\ \A x \in rows : /\ x.run \in DOMAIN started
                       /\ x.review = started[x.run].review
                       /\ x.failed \in {0} \cup Nodes
    /\ costs \subseteq (DOMAIN started) \X LLMNodes
    /\ \A e \in bus : e.run \in DOMAIN started /\ e.node \in 0..5
    /\ \A k \in DOMAIN started : started[k].review \in Reviews /\ started[k].by \in Runners
    /\ DOMAIN raised \subseteq DOMAIN started
    /\ cut \subseteq DOMAIN started
    /\ run \in [Runners -> RunStates \cup {Resting}]
    /\ \A r \in Runners : run[r] # Resting => run[r].id \in DOMAIN started

\* The index is where readers look (api/routes/reviews.py:3): a review it
\* lists, or that a run is recorded to have completed, has all six files,
\* whatever runs raced for it and died.
ListedIsComplete ==
    /\ \A v \in index : v \in DOMAIN files /\ files[v] = Outputs
    /\ \A x \in rows : x.failed = 0 /\ ~x.dry =>
          x.review \in DOMAIN files /\ files[x.review] = Outputs

\* No other run was started for the review of a run.
OnlyRun(id) == \A k \in DOMAIN started : started[k].review = started[id].review => k = id

\* An output is there only after the outputs of the nodes before it, also when
\* runs write together, and after these were written in full, "each node's output
\* is written in full before the next node" (post-trade-review-pipeline/spec.md:8),
\* when no other run was started for the review: a later one opens them again.
OutputsInOrder ==
    \A v \in DOMAIN files : \A k \in files[v] :
        /\ 1..(k-1) \subseteq files[v]
        /\ \A id \in DOMAIN started : started[id].review = v /\ OnlyRun(id) =>
              \A j \in 1..(k-1) : <<v, j>> \notin partial

\* What the API tells of the nodes of a run that writes is guessed from files: a
\* node reported as completed has its output in the directory, whoever wrote it
\* and however much of it; and the failed_node of a failed run with no other run
\* beside it is the node that raised (swarm-runs/spec.md:106-110), or the node
\* after it when that one had opened its file, which then counts as its output;
\* past the last node it is the last node.
NodesReported ==
    /\ \A e \in bus :
        /\ e.type = "node_completed"
        /\ \A x \in rows : x.run = e.run => ~x.dry
        /\ \E x \in rows : x.run = e.run
        => LET v == started[e.run].review
           IN  v \in DOMAIN files /\ e.node \in files[v]
    /\ \A x \in rows :
        /\ x.failed # 0
        /\ ~x.dry
        /\ OnlyRun(x.run)
        => x.failed = CASE raised[x.run] = 0 -> 1
                        [] raised[x.run] >= 5 -> 5
                        [] OTHER -> IF <<x.review, raised[x.run]>> \in partial
                                    THEN raised[x.run] + 1 ELSE raised[x.run]

\* Every run the API starts ends with its row, completed or failed
\* (swarm_runs/storage.py:6, "the row exists either way"), unless it dies.
RowEitherWay ==
    \A id \in 1..MaxRuns :
        (id \in DOMAIN started /\ started[id].by = "api")
            ~> (id \in cut \/ \E x \in rows : x.run = id)

=============================================================================
