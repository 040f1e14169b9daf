-------------------------- MODULE ReviewRuns_proofs --------------------------
(***************************************************************************)
(* For any number of CLI processes, runs, crashes and review periods: the  *)
(* review runs keep their types, the outputs of a review appear in order,  *)
(* only complete reviews are listed, and what is told of the nodes of a    *)
(* run is so, or off by the one node whose write failed.                   *)
(*                                                                         *)
(* The files of a review only grow, so what a run knows of them when it    *)
(* takes a step is still true when it takes the next one, whatever other   *)
(* runs did in between.  RunOK says what each run knows at each step.      *)
(***************************************************************************)
EXTENDS ReviewRuns, SequenceTheorems, TLAPS

Complete(v) == v \in DOMAIN files /\ files[v] = Outputs

\* What is true of a run m in flight
RunOK(m) ==
    /\ m \in RunStates
    /\ m.id \in DOMAIN started
    /\ m.review = started[m.id].review
    /\ m.pc \in {"making", "opening", "writing", "indexing", "upserting"} => ~m.dry
    /\ m.pc = "working" => m.next \in 1..5
    /\ m.pc \in {"opening", "writing"} => m.next \in 1..6
    /\ m.pc \in {"working", "opening", "writing"} /\ ~m.dry =>
          m.review \in DOMAIN files /\ 1..(m.next - 1) \subseteq files[m.review]
    /\ m.pc = "writing" => m.next \in files[m.review]
    /\ m.pc \in {"indexing", "upserting", "returning"} /\ ~m.dry => Complete(m.review)
    /\ m.pc = "storing" /\ ~m.dry /\ m.failed = 0 => Complete(m.review)
    /\ \A v \in m.read : Complete(v)

\* n is the run m, further on
SameRun(n, m) == n \in RunStates /\ n.id = m.id /\ n.review = m.review /\ n.dry = m.dry

RunsInv ==
    /\ DOMAIN run = Runners
    /\ run = [r \in Runners |-> run[r]]
    /\ \A r \in Runners : run[r] = Resting \/ RunOK(run[r])

FilesInv ==
    /\ DOMAIN files \subseteq Reviews
    /\ \A v \in DOMAIN files : files[v] \subseteq Outputs
    /\ \A v \in DOMAIN files : \A k \in files[v] : 1..(k-1) \subseteq files[v]
    /\ partial \subseteq (DOMAIN files) \X Outputs

IndexInv == index \subseteq Reviews /\ \A v \in index : Complete(v)

StartedInv == started \in Seq([review : Reviews, by : Runners])

RowsInv ==
    \A x \in rows : /\ x.run \in DOMAIN started
                    /\ x.review = started[x.run].review
                    /\ x.failed \in {0} \cup Nodes
                    /\ x.failed = 0 /\ ~x.dry => Complete(x.review)

HistoryInv ==
    /\ costs \subseteq (DOMAIN started) \X LLMNodes
    /\ \A e \in bus : e.run \in DOMAIN started /\ e.node \in 0..5
    /\ DOMAIN raised \subseteq DOMAIN started
    /\ cut \subseteq DOMAIN started

ReviewInv ==
    /\ RunsInv
    /\ FilesInv
    /\ IndexInv
    /\ StartedInv
    /\ RowsInv
    /\ HistoryInv

-----------------------------------------------------------------------------
\* What every step does to the files and to the list of runs

Grows ==
    /\ \A v \in DOMAIN files : v \in DOMAIN files' /\ files[v] \subseteq files'[v]
    /\ \A v \in DOMAIN files' : files'[v] \subseteq Outputs
    /\ DOMAIN started \subseteq DOMAIN started'
    /\ \A k \in DOMAIN started : started'[k] = started[k]

\* A review that is complete stays so while files are only added.
LEMMA CompleteStays ==
    ASSUME FilesInv, Grows, NEW v, Complete(v)
    PROVE  Complete(v)'
BY DEF FilesInv, Grows, Complete

\* What is known of a run stays true while files are only added.
LEMMA RunOKStays ==
    ASSUME FilesInv, Grows, NEW m, RunOK(m)
    PROVE  RunOK(m)'
<1>1. /\ m \in RunStates
      /\ (m.id \in DOMAIN started)'
      /\ (m.review = started[m.id].review)'
  BY DEF RunOK, Grows
<1>2. /\ m.pc \in {"working", "opening", "writing"} /\ ~m.dry =>
            (m.review \in DOMAIN files /\ 1..(m.next - 1) \subseteq files[m.review])'
      /\ m.pc = "writing" => (m.next \in files[m.review])'
  BY DEF RunOK, Grows
<1>3. m.pc \in {"indexing", "upserting", "returning"} /\ ~m.dry => Complete(m.review)'
  BY CompleteStays DEF RunOK
<1>4. m.pc = "storing" /\ ~m.dry /\ m.failed = 0 => Complete(m.review)'
  BY CompleteStays DEF RunOK
<1>5. \A v \in m.read : Complete(v)'
  BY CompleteStays DEF RunOK
<1> QED  BY <1>1, <1>2, <1>3, <1>4, <1>5 DEF RunOK

\* A step of r leaves the runs of others alone
LEMMA RunStep ==
    ASSUME NEW r \in Runners, NEW n, RunsInv, FilesInv, Grows,
           run' = [run EXCEPT ![r] = n],
           n = Resting \/ RunOK(n)'
    PROVE  RunsInv'
<1>1. /\ DOMAIN run' = Runners
      /\ run' = [q \in Runners |-> run'[q]]
      /\ run'[r] = n
      /\ \A q \in Runners \ {r} : run'[q] = run[q]
  BY DEF RunsInv
<1>2. \A q \in Runners \ {r} : run'[q] = Resting \/ RunOK(run[q])'
  BY <1>1, RunOKStays DEF RunsInv
<1> QED  BY <1>1, <1>2 DEF RunsInv

\* Some node comes first.
LEMMA LowestOfNodes ==
    ASSUME NEW S, S \subseteq Nodes, S # {}
    PROVE  \E x \in S : \A y \in S : x =< y
<1>1. CASE 1 \in S
  BY <1>1 DEF Nodes
<1>2. CASE 1 \notin S /\ 2 \in S
  BY <1>2 DEF Nodes
<1>3. CASE 1 \notin S /\ 2 \notin S /\ 3 \in S
  BY <1>3 DEF Nodes
<1>4. CASE 1 \notin S /\ 2 \notin S /\ 3 \notin S /\ 4 \in S
  BY <1>4 DEF Nodes
<1>5. CASE 1 \notin S /\ 2 \notin S /\ 3 \notin S /\ 4 \notin S
  <2>1. \A x \in S : x = 5
    BY <1>5 DEF Nodes
  <2> QED  BY <2>1
<1> QED  BY <1>1, <1>2, <1>3, <1>4, <1>5

\* The first missing output is the output of a node
LEMMA MinOfNodes ==
    ASSUME NEW S, S \subseteq Nodes, S # {}
    PROVE  Min(S) \in S
<1>1. \E x \in S : \A y \in S : x =< y
  BY LowestOfNodes
<1> QED  BY <1>1 DEF Min

\* The node that is taken for the one that failed is a node.
LEMMA InferredIsNode ==
    ASSUME NEW review, NEW dry
    PROVE  Inferred(review, dry) \in Nodes
<1>1. 1 \in Nodes /\ 5 \in Nodes
  BY DEF Nodes
<1>2. ASSUME ~(Nodes \subseteq files[review])
      PROVE  Min(Nodes \ files[review]) \in Nodes
  BY <1>2, MinOfNodes
<1> QED  BY <1>1, <1>2 DEF Inferred

\* A step that leaves the files and the list of runs alone
LEMMA Quiet ==
    ASSUME ReviewInv, UNCHANGED <<files, partial, started>>
    PROVE  Grows /\ FilesInv' /\ StartedInv'
BY DEF ReviewInv, FilesInv, StartedInv, Grows

-----------------------------------------------------------------------------
\* The invariant holds at the start.
LEMMA ReviewInvInit == ASSUME Init PROVE ReviewInv
BY DEF Init, ReviewInv, RunsInv, FilesInv, IndexInv, StartedInv, RowsInv, HistoryInv,
       Runners

\* The start of a run keeps the invariant.
LEMMA StartStep ==
    ASSUME ReviewInv, NEW r \in Runners, NEW review \in Reviews,
           NEW force \in BOOLEAN, NEW dry \in BOOLEAN, Start(r, review, force, dry)
    PROVE  ReviewInv'
<1> DEFINE id == Len(started) + 1
<1>0. PICK n : n = [pc |-> "checking", id |-> id, review |-> review, force |-> force,
                    dry |-> dry, next |-> 0, read |-> {}, failed |-> 0]
  OBVIOUS
<1>1. /\ started' = Append(started, [review |-> review, by |-> r])
      /\ run' = [run EXCEPT ![r] = n]
      /\ UNCHANGED <<files, partial, index, rows, costs, raised, cut>>
      /\ bus' = bus \/ bus' = bus \cup {Ev(id, "run_started", 0), Ev(id, "node_started", 1)}
  BY <1>0 DEF Start, Publish
<1>2. /\ StartedInv'
      /\ n.id \in DOMAIN started'
      /\ started'[n.id].review = review
      /\ DOMAIN started \subseteq DOMAIN started'
      /\ \A k \in DOMAIN started : started'[k] = started[k]
      /\ n.id = id /\ id \in Nat
  BY <1>0, <1>1 DEF ReviewInv, StartedInv
<1>3. Grows /\ FilesInv'
  BY <1>1, <1>2 DEF ReviewInv, FilesInv, Grows
<1>4. n \in RunStates
  BY <1>0, <1>2 DEF RunStates
<1>5. RunOK(n)'
  BY <1>0, <1>2, <1>4 DEF RunOK
<1>6. RunsInv'
  BY <1>1, <1>3, <1>5, RunStep DEF ReviewInv
<1>7. IndexInv'
  BY <1>1, <1>3, CompleteStays DEF ReviewInv, IndexInv
<1>8. RowsInv'
  BY <1>1, <1>2, <1>3, CompleteStays DEF ReviewInv, RowsInv
<1>9. HistoryInv'
  BY <1>1, <1>2 DEF ReviewInv, HistoryInv, Ev
<1> QED  BY <1>2, <1>3, <1>6, <1>7, <1>8, <1>9 DEF ReviewInv

\* A run that fails was in flight
LEMMA RaiseStep ==
    ASSUME ReviewInv, NEW r \in Runners, run[r] # Resting, Raise(r)
    PROVE  ReviewInv'
<1>1. UNCHANGED <<files, partial, index, rows, costs, bus, started, cut>>
  BY DEF Raise
<1>2. Grows /\ FilesInv' /\ StartedInv'
  BY <1>1, Quiet
<1>3. RunOK(run[r])
  BY DEF ReviewInv, RunsInv
<1>4. RunsInv'
  <2>1. CASE r = "api"
    <3>0. PICK n : n = [run[r] EXCEPT !.pc = "failing", !.read = {}]
      OBVIOUS
    <3>1. run' = [run EXCEPT ![r] = n]
      BY <2>1, <3>0 DEF Raise, ReviewInv, RunsInv
    <3>2. n \in RunStates
      BY <1>3, <3>0 DEF RunOK, RunStates
    <3>3. RunOK(n)'
      BY <1>1, <1>3, <3>0, <3>2 DEF RunOK, RunStates
    <3> QED  BY <1>2, <3>1, <3>3, RunStep DEF ReviewInv
  <2>2. CASE r # "api"
    BY <1>2, <2>2, RunStep DEF Raise, ReviewInv
  <2> QED  BY <2>1, <2>2
<1>5. IndexInv' /\ RowsInv'
  BY <1>1 DEF ReviewInv, IndexInv, RowsInv, Complete
<1>6. HistoryInv'
  BY <1>1, <1>3 DEF ReviewInv, HistoryInv, Raise, RunOK
<1> QED  BY <1>2, <1>4, <1>5, <1>6 DEF ReviewInv

\* A step that only tells the bus something of runs there are
LEMMA Told ==
    ASSUME HistoryInv, NEW E, \A e \in E : e.run \in DOMAIN started /\ e.node \in 0..5,
           bus' = bus \cup E, UNCHANGED <<costs, raised, cut, started>>
    PROVE  HistoryInv'
BY DEF HistoryInv

\* What the start of a node tells the bus is about a run there is.
LEMMA NodeStartedTold ==
    ASSUME ReviewInv, NEW r \in Runners, run[r] # Resting, NEW k \in Nodes
    PROVE  \A e \in NodeStarted(r, k) : e.run \in DOMAIN started /\ e.node \in 0..5
<1>1. run[r].id \in DOMAIN started
  BY DEF ReviewInv, RunsInv, RunOK
<1> QED  BY <1>1 DEF NodeStarted, Ev, Nodes

\* A run takes its next node, or its next file
LEMMA NextNode ==
    ASSUME NEW m \in RunStates, NEW n, NEW k \in 0..6,
           n = [m EXCEPT !.pc = "working", !.next = k]
    PROVE  /\ SameRun(n, m) /\ n.pc = "working" /\ n.next = k
           /\ n.read = m.read /\ n.failed = m.failed
<1>1. n = [pc |-> "working", id |-> m.id, review |-> m.review, force |-> m.force,
           dry |-> m.dry, next |-> k, read |-> m.read, failed |-> m.failed]
  BY DEF RunStates
<1> QED  BY <1>1 DEF RunStates, SameRun

\* A run turns to another file and stays the run it is.
LEMMA NextFile ==
    ASSUME NEW m \in RunStates, NEW n, NEW k \in 0..6, n = [m EXCEPT !.next = k]
    PROVE  /\ SameRun(n, m) /\ n.pc = m.pc /\ n.next = k
           /\ n.read = m.read /\ n.failed = m.failed
<1>1. n = [pc |-> m.pc, id |-> m.id, review |-> m.review, force |-> m.force,
           dry |-> m.dry, next |-> k, read |-> m.read, failed |-> m.failed]
  BY DEF RunStates
<1> QED  BY <1>1 DEF RunStates, SameRun

\* A run turns to the file after the last node's and stays the run it is.
LEMMA LastFile ==
    ASSUME NEW m \in RunStates, NEW n, NEW k \in 0..6,
           n = [m EXCEPT !.pc = "opening", !.next = k]
    PROVE  /\ SameRun(n, m) /\ n.pc = "opening" /\ n.next = k
           /\ n.read = m.read /\ n.failed = m.failed
<1>1. n = [pc |-> "opening", id |-> m.id, review |-> m.review, force |-> m.force,
           dry |-> m.dry, next |-> k, read |-> m.read, failed |-> m.failed]
  BY DEF RunStates
<1> QED  BY <1>1 DEF RunStates, SameRun

\* The look for an existing review keeps the invariant.
LEMMA CheckStep ==
    ASSUME ReviewInv, NEW r \in Runners, Check(r)
    PROVE  ReviewInv'
<1>1. UNCHANGED <<files, partial, index, rows, costs, started, raised, cut>>
  BY DEF Check
<1>2. Grows /\ FilesInv' /\ StartedInv'
  BY <1>1, Quiet
<1>3. run[r] # Resting /\ RunOK(run[r]) /\ run[r] \in RunStates
  BY DEF Check, Resting, ReviewInv, RunsInv, RunOK
<1>4. RunsInv'
  <2>1. CASE run[r].dry /\ Begin(r)
    <3>1. PICK n : n = [run[r] EXCEPT !.pc = "working", !.next = 1]
      OBVIOUS
    <3>2. run' = [run EXCEPT ![r] = n]
      BY <2>1, <3>1 DEF Begin, ReviewInv, RunsInv
    <3>3. /\ SameRun(n, run[r])
          /\ n.pc = "working"
          /\ n.next = 1
          /\ n.read = run[r].read
          /\ n.failed = run[r].failed
      <4>1. 1 \in 0..6
        OBVIOUS
      <4> QED  BY <1>3, <3>1, <4>1, NextNode
    <3>4. RunOK(n)'
      BY <1>1, <1>3, <2>1, <3>3 DEF RunOK, SameRun, Complete
    <3> QED  BY <1>2, <3>2, <3>4, RunStep DEF ReviewInv
  <2>2. CASE ~run[r].dry /\ Goto(r, "making")
    <3>1. PICK n : n = [run[r] EXCEPT !.pc = "making"]
      OBVIOUS
    <3>2. run' = [run EXCEPT ![r] = n]
      BY <2>2, <3>1 DEF Goto, ReviewInv, RunsInv
    <3>3. /\ SameRun(n, run[r])
          /\ n.pc = "making"
          /\ n.next = run[r].next
          /\ n.read = run[r].read
          /\ n.failed = run[r].failed
      BY <1>3, <3>1 DEF SameRun, RunStates
    <3>4. RunOK(n)'
      BY <1>1, <1>3, <2>2, <3>3 DEF RunOK, SameRun, Complete
    <3> QED  BY <1>2, <3>2, <3>4, RunStep DEF ReviewInv
  <2> QED  BY <2>1, <2>2 DEF Check
<1>5. IndexInv' /\ RowsInv'
  BY <1>1 DEF ReviewInv, IndexInv, RowsInv, Complete
<1>6. HistoryInv'
  <2>1. CASE bus' = bus \cup NodeStarted(r, 1)
    BY <1>1, <1>3, <2>1, NodeStartedTold, Told DEF ReviewInv, Nodes
  <2>2. CASE UNCHANGED bus
    BY <1>1, <2>2 DEF ReviewInv, HistoryInv
  <2> QED  BY <2>1, <2>2 DEF Check, Begin, Publish
<1> QED  BY <1>2, <1>4, <1>5, <1>6 DEF ReviewInv

\* The making of the directory keeps the invariant.
LEMMA MakeDirStep ==
    ASSUME ReviewInv, NEW r \in Runners, MakeDir(r)
    PROVE  ReviewInv'
<1>1. UNCHANGED <<partial, index, rows, costs, started, raised, cut>>
  BY DEF MakeDir
<1>2. run[r] # Resting /\ RunOK(run[r]) /\ run[r] \in RunStates /\ run[r].review \in Reviews
  BY DEF MakeDir, Resting, ReviewInv, RunsInv, RunOK, RunStates
<1>3. /\ DOMAIN files' = DOMAIN files \cup {run[r].review}
      /\ \A v \in DOMAIN files : files'[v] = files[v]
      /\ \A v \in DOMAIN files' : v \in DOMAIN files \/ files'[v] = {}
  BY DEF MakeDir
<1>4. Grows /\ FilesInv' /\ StartedInv'
  BY <1>1, <1>2, <1>3 DEF ReviewInv, FilesInv, StartedInv, Grows
<1>5. RunsInv'
  <2>1. PICK n : n = [run[r] EXCEPT !.pc = "working", !.next = 1]
    OBVIOUS
  <2>2. run' = [run EXCEPT ![r] = n]
    BY <2>1 DEF MakeDir, Begin, ReviewInv, RunsInv
  <2>3. SameRun(n, run[r]) /\ n.pc = "working" /\ n.next = 1 /\ n.read = run[r].read
    <3>1. 1 \in 0..6
      OBVIOUS
    <3> QED  BY <1>2, <2>1, <3>1, NextNode
  <2>4. \A v \in n.read : Complete(v)'
    BY <1>2, <1>4, <2>3, CompleteStays DEF RunOK, ReviewInv
  <2>5. RunOK(n)'
    BY <1>1, <1>2, <1>3, <2>3, <2>4 DEF RunOK, SameRun
  <2> QED  BY <1>4, <2>2, <2>5, RunStep DEF ReviewInv
<1>6. IndexInv' /\ RowsInv'
  BY <1>1, <1>4, CompleteStays DEF ReviewInv, IndexInv, RowsInv
<1>7. HistoryInv'
  <2>1. bus' = bus \cup NodeStarted(r, 1) /\ 1 \in Nodes
    BY DEF MakeDir, Begin, Publish, Nodes
  <2> QED  BY <1>1, <1>2, <2>1, NodeStartedTold, Told DEF ReviewInv
<1> QED  BY <1>4, <1>5, <1>6, <1>7 DEF ReviewInv

\* The work of a node keeps the invariant.
LEMMA WorkStep ==
    ASSUME ReviewInv, NEW r \in Runners, NEW asks \in BOOLEAN, Work(r, asks)
    PROVE  ReviewInv'
<1>1. UNCHANGED <<files, partial, index, rows, started, raised, cut>>
  BY DEF Work
<1>2. Grows /\ FilesInv' /\ StartedInv'
  BY <1>1, Quiet
<1>3. run[r] # Resting /\ run[r].pc = "working" /\ RunOK(run[r]) /\ run[r] \in RunStates
  BY DEF Work, Resting, ReviewInv, RunsInv, RunOK
<1>4. RunsInv'
  <2>1. CASE ~run[r].dry /\ Goto(r, "opening")
    <3>1. PICK n : n = [run[r] EXCEPT !.pc = "opening"]
      OBVIOUS
    <3>2. run' = [run EXCEPT ![r] = n]
      BY <2>1, <3>1 DEF Goto, ReviewInv, RunsInv
    <3>3. /\ SameRun(n, run[r])
          /\ n.pc = "opening"
          /\ n.next = run[r].next
          /\ n.read = run[r].read
          /\ n.failed = run[r].failed
      BY <1>3, <3>1 DEF SameRun, RunStates
    <3>4. RunOK(n)'
      BY <1>1, <1>3, <2>1, <3>3 DEF RunOK, SameRun, Complete
    <3> QED  BY <1>2, <3>2, <3>4, RunStep DEF ReviewInv
  <2>2. CASE run[r].dry /\ run[r].next < 5 /\ run' = [run EXCEPT ![r].next = @ + 1]
    <3>1. PICK n : n = [run[r] EXCEPT !.next = @ + 1]
      OBVIOUS
    <3>2. run' = [run EXCEPT ![r] = n]
      BY <2>2, <3>1 DEF ReviewInv, RunsInv
    <3>3. /\ SameRun(n, run[r])
          /\ n.pc = run[r].pc
          /\ n.next = run[r].next + 1
          /\ n.read = run[r].read
          /\ n.failed = run[r].failed
      <4>1. run[r].next + 1 \in 0..6
        BY <1>3, <2>2 DEF RunStates
      <4> QED  BY <1>3, <3>1, <4>1, NextFile
    <3>4. RunOK(n)'
      BY <1>1, <1>3, <2>2, <3>3 DEF RunOK, SameRun, Complete
    <3> QED  BY <1>2, <3>2, <3>4, RunStep DEF ReviewInv
  <2>3. CASE run[r].dry /\ Goto(r, "returning")
    <3>1. PICK n : n = [run[r] EXCEPT !.pc = "returning"]
      OBVIOUS
    <3>2. run' = [run EXCEPT ![r] = n]
      BY <2>3, <3>1 DEF Goto, ReviewInv, RunsInv
    <3>3. /\ SameRun(n, run[r])
          /\ n.pc = "returning"
          /\ n.next = run[r].next
          /\ n.read = run[r].read
          /\ n.failed = run[r].failed
      BY <1>3, <3>1 DEF SameRun, RunStates
    <3>4. RunOK(n)'
      BY <1>1, <1>3, <2>3, <3>3 DEF RunOK, SameRun, Complete
    <3> QED  BY <1>2, <3>2, <3>4, RunStep DEF ReviewInv
  <2> QED  BY <2>1, <2>2, <2>3 DEF Work
<1>5. IndexInv' /\ RowsInv'
  BY <1>1 DEF ReviewInv, IndexInv, RowsInv, Complete
<1>6. HistoryInv'
  <2>1. UNCHANGED bus
    BY DEF Work
  <2>2. costs' \subseteq (DOMAIN started) \X LLMNodes
    BY <1>3 DEF ReviewInv, HistoryInv, Work, RunOK
  <2> QED  BY <1>1, <2>1, <2>2 DEF ReviewInv, HistoryInv
<1> QED  BY <1>2, <1>4, <1>5, <1>6 DEF ReviewInv

\* The opening of an output's file keeps the invariant: outputs come in order.
LEMMA OpenStep ==
    ASSUME ReviewInv, NEW r \in Runners, Open(r)
    PROVE  ReviewInv'
<1>0. PICK v, k : v = run[r].review /\ k = run[r].next
  OBVIOUS
<1>1. UNCHANGED <<index, rows, costs, bus, started, raised, cut>>
  BY DEF Open
<1>2. /\ run[r] # Resting /\ RunOK(run[r]) /\ run[r] \in RunStates
      /\ run[r].pc = "opening" /\ ~run[r].dry
      /\ k \in 1..6
      /\ v \in DOMAIN files /\ 1..(k - 1) \subseteq files[v]
  BY <1>0 DEF Open, Resting, ReviewInv, RunsInv, RunOK
<1>3. /\ DOMAIN files' = DOMAIN files
      /\ files'[v] = files[v] \cup {k}
      /\ \A u \in DOMAIN files : u # v => files'[u] = files[u]
      /\ partial' = partial \cup {<<v, k>>}
  BY <1>0, <1>2 DEF Open
<1>4. Grows /\ StartedInv'
  BY <1>1, <1>2, <1>3 DEF ReviewInv, FilesInv, StartedInv, Grows, Outputs
<1>5. FilesInv'
  <2>1. ASSUME NEW u \in DOMAIN files', NEW j \in files'[u]
        PROVE  1..(j - 1) \subseteq files'[u]
    <3>1. CASE u = v /\ j = k
      BY <1>2, <1>3, <3>1
    <3>2. CASE ~(u = v /\ j = k)
      BY <1>2, <1>3, <3>2 DEF ReviewInv, FilesInv
    <3> QED  BY <3>1, <3>2
  <2>2. partial' \subseteq (DOMAIN files') \X Outputs
    BY <1>2, <1>3 DEF ReviewInv, FilesInv, Outputs
  <2> QED  BY <1>3, <1>4, <2>1, <2>2 DEF ReviewInv, FilesInv, Grows
<1>6. RunsInv'
  <2>1. PICK n : n = [run[r] EXCEPT !.pc = "writing"]
    OBVIOUS
  <2>2. run' = [run EXCEPT ![r] = n]
    BY <2>1 DEF Open, Goto, ReviewInv, RunsInv
  <2>3. SameRun(n, run[r]) /\ n.pc = "writing" /\ n.next = k /\ n.read = run[r].read
    BY <1>0, <1>2, <2>1 DEF SameRun, RunStates
  <2>4. \A u \in n.read : Complete(u)'
    BY <1>2, <1>4, <2>3, CompleteStays DEF RunOK, ReviewInv
  <2>5. RunOK(n)'
    BY <1>0, <1>1, <1>2, <1>3, <2>3, <2>4 DEF RunOK, SameRun
  <2> QED  BY <1>4, <2>2, <2>5, RunStep DEF ReviewInv
<1>7. IndexInv' /\ RowsInv'
  BY <1>1, <1>4, CompleteStays DEF ReviewInv, IndexInv, RowsInv
<1>8. HistoryInv'
  BY <1>1 DEF ReviewInv, HistoryInv
<1> QED  BY <1>4, <1>5, <1>6, <1>7, <1>8 DEF ReviewInv

\* The writing of an output keeps the invariant: the next node finds the outputs
\* before its own.
LEMMA WriteStep ==
    ASSUME ReviewInv, NEW r \in Runners, Write(r)
    PROVE  ReviewInv'
<1>0. PICK v, k : v = run[r].review /\ k = run[r].next
  OBVIOUS
<1>1. UNCHANGED <<files, index, rows, costs, started, raised, cut>>
  BY DEF Write
<1>2. /\ run[r] # Resting /\ RunOK(run[r]) /\ run[r] \in RunStates
      /\ run[r].pc = "writing" /\ ~run[r].dry
      /\ k \in 1..6
      /\ v \in DOMAIN files /\ 1..(k - 1) \subseteq files[v] /\ k \in files[v]
  BY <1>0 DEF Write, Resting, ReviewInv, RunsInv, RunOK
<1>3. partial' \subseteq partial
  BY DEF Write
<1>4. Grows /\ StartedInv'
  BY <1>1 DEF ReviewInv, FilesInv, StartedInv, Grows
<1>5. FilesInv'
  BY <1>1, <1>3 DEF ReviewInv, FilesInv
<1>6. 1..k \subseteq files'[v]
  BY <1>1, <1>2
<1>7. RunsInv'
  <2>1. CASE k < 5 /\ run' = [run EXCEPT ![r].pc = "working", ![r].next = @ + 1]
    <3>0. PICK j : j = k + 1
      OBVIOUS
    <3>1. PICK n : n = [run[r] EXCEPT !.pc = "working", !.next = j]
      OBVIOUS
    <3>2. run' = [run EXCEPT ![r] = n]
      BY <1>0, <2>1, <3>0, <3>1 DEF ReviewInv, RunsInv
    <3>3. j \in 0..6 /\ j \in 1..5 /\ j - 1 = k
      BY <1>2, <2>1, <3>0
    <3>4. /\ SameRun(n, run[r]) /\ n.pc = "working" /\ n.next = j
          /\ n.read = run[r].read /\ n.failed = run[r].failed
      <4>1. run[r] \in RunStates /\ j \in 0..6
        BY <1>2, <3>3
      <4>2. n = [pc |-> "working", id |-> run[r].id, review |-> run[r].review,
                 force |-> run[r].force, dry |-> run[r].dry, next |-> j,
                 read |-> run[r].read, failed |-> run[r].failed]
        BY <3>1, <4>1 DEF RunStates
      <4> QED  BY <4>1, <4>2 DEF RunStates, SameRun
    <3>5. \A u \in n.read : Complete(u)'
      BY <1>2, <1>4, <3>4, CompleteStays DEF RunOK, ReviewInv
    <3>6. RunOK(n)'
      BY <1>0, <1>1, <1>2, <1>3, <1>6, <3>3, <3>4, <3>5 DEF RunOK, SameRun
    <3> QED  BY <1>4, <3>2, <3>6, RunStep DEF ReviewInv
  <2>2. CASE k = 5 /\ run' = [run EXCEPT ![r].pc = "opening", ![r].next = @ + 1]
    <3>0. PICK j \in 0..6 : j = 6
      OBVIOUS
    <3>1. PICK n : n = [run[r] EXCEPT !.pc = "opening", !.next = j]
      OBVIOUS
    <3>2. run' = [run EXCEPT ![r] = n]
      <4>1. run[r].next + 1 = j
        BY <1>0, <2>2, <3>0
      <4> QED  BY <2>2, <3>1, <4>1 DEF ReviewInv, RunsInv
    <3>3. /\ SameRun(n, run[r]) /\ n.pc = "opening" /\ n.next = j
          /\ n.read = run[r].read /\ n.failed = run[r].failed
      <4>1. run[r] \in RunStates
        BY <1>2
      <4>2. n = [pc |-> "opening", id |-> run[r].id, review |-> run[r].review,
                 force |-> run[r].force, dry |-> run[r].dry, next |-> j,
                 read |-> run[r].read, failed |-> run[r].failed]
        BY <3>1, <4>1 DEF RunStates
      <4> QED  BY <4>1, <4>2 DEF RunStates, SameRun
    <3>4. /\ SameRun(n, run[r]) /\ n.pc = "opening" /\ n.next = 6
          /\ n.read = run[r].read /\ n.failed = run[r].failed
      BY <3>0, <3>3
    <3>5. \A u \in n.read : Complete(u)'
      BY <1>2, <1>4, <3>4, CompleteStays DEF RunOK, ReviewInv
    <3>6. RunOK(n)'
      BY <1>0, <1>1, <1>2, <1>3, <1>6, <2>2, <3>4, <3>5 DEF RunOK, SameRun
    <3> QED  BY <1>4, <3>2, <3>6, RunStep DEF ReviewInv
  <2>3. CASE k = 6 /\ Goto(r, "indexing")
    <3>1. PICK n : n = [run[r] EXCEPT !.pc = "indexing"]
      OBVIOUS
    <3>2. run' = [run EXCEPT ![r] = n]
      BY <2>3, <3>1 DEF Goto, ReviewInv, RunsInv
    <3>3. SameRun(n, run[r]) /\ n.pc = "indexing" /\ n.read = run[r].read
      BY <1>2, <3>1 DEF SameRun, RunStates
    <3>4. \A u \in n.read : Complete(u)'
      BY <1>2, <1>4, <3>3, CompleteStays DEF RunOK, ReviewInv
    <3>5. Complete(v)'
      BY <1>1, <1>2, <1>5, <1>6, <2>3 DEF Complete, FilesInv, Outputs
    <3>6. RunOK(n)'
      BY <1>0, <1>1, <1>2, <3>3, <3>4, <3>5 DEF RunOK, SameRun
    <3> QED  BY <1>4, <3>2, <3>6, RunStep DEF ReviewInv
  <2>4. k < 5 \/ k = 5 \/ k = 6
    BY <1>2
  <2> QED  BY <1>0, <1>2, <2>1, <2>2, <2>3, <2>4 DEF Write, LastOutput
<1>8. IndexInv' /\ RowsInv'
  BY <1>1, <1>4, CompleteStays DEF ReviewInv, IndexInv, RowsInv
<1>9. HistoryInv'
  <2>1. CASE UNCHANGED bus
    BY <1>1, <2>1 DEF ReviewInv, HistoryInv
  <2>2. CASE k < 5 /\ bus' = bus \cup NodeStarted(r, k + 1)
    <3>1. k + 1 \in Nodes
      BY <1>2, <2>2 DEF Nodes
    <3> QED  BY <1>1, <1>2, <2>2, <3>1, NodeStartedTold, Told DEF ReviewInv
  <2> QED  BY <1>0, <2>1, <2>2 DEF Write, Publish
<1> QED  BY <1>4, <1>5, <1>7, <1>8, <1>9 DEF ReviewInv

\* The reading of the index keeps the invariant.
LEMMA IndexReadStep ==
    ASSUME ReviewInv, NEW r \in Runners, IndexRead(r)
    PROVE  ReviewInv'
<1>1. UNCHANGED <<files, partial, index, rows, costs, bus, started, raised, cut>>
  BY DEF IndexRead
<1>2. Grows /\ FilesInv' /\ StartedInv'
  BY <1>1, Quiet
<1>3. /\ RunOK(run[r]) /\ run[r] \in RunStates
      /\ run[r].pc = "indexing" /\ ~run[r].dry /\ Complete(run[r].review)
  BY DEF IndexRead, Resting, ReviewInv, RunsInv, RunOK
<1>4. RunsInv'
  <2>1. PICK n : n = [run[r] EXCEPT !.pc = "upserting", !.read = index]
    OBVIOUS
  <2>2. run' = [run EXCEPT ![r] = n]
    BY <2>1 DEF IndexRead, ReviewInv, RunsInv
  <2>3. n = [pc |-> "upserting", id |-> run[r].id, review |-> run[r].review,
             force |-> run[r].force, dry |-> run[r].dry, next |-> run[r].next,
             read |-> index, failed |-> run[r].failed]
    BY <1>3, <2>1 DEF RunStates
  <2>4. index \in SUBSET Reviews
    BY DEF ReviewInv, IndexInv
  <2>5. SameRun(n, run[r]) /\ n.pc = "upserting" /\ n.read = index
    BY <1>3, <2>3, <2>4 DEF SameRun, RunStates
  <2>6. \A u \in n.read : Complete(u)'
    BY <1>1, <2>5 DEF ReviewInv, IndexInv, Complete
  <2>7. RunOK(n)'
    BY <1>1, <1>3, <2>5, <2>6 DEF RunOK, SameRun, Complete
  <2> QED  BY <1>2, <2>2, <2>7, RunStep DEF ReviewInv
<1>5. IndexInv' /\ RowsInv' /\ HistoryInv'
  BY <1>1 DEF ReviewInv, IndexInv, RowsInv, HistoryInv, Complete
<1> QED  BY <1>2, <1>4, <1>5 DEF ReviewInv

\* The replacement of the index keeps the invariant: it lists complete reviews.
LEMMA IndexWriteStep ==
    ASSUME ReviewInv, NEW r \in Runners, IndexWrite(r)
    PROVE  ReviewInv'
<1>1. UNCHANGED <<files, partial, rows, costs, started, raised, cut>>
  BY DEF IndexWrite
<1>2. Grows /\ FilesInv' /\ StartedInv'
  BY <1>1, Quiet
<1>3. /\ RunOK(run[r]) /\ run[r] \in RunStates
      /\ run[r].pc = "upserting" /\ ~run[r].dry /\ Complete(run[r].review)
      /\ run[r].review \in Reviews /\ run[r].read \subseteq Reviews
      /\ \A u \in run[r].read : Complete(u)
  <2>1. RunOK(run[r]) /\ run[r].pc = "upserting"
    BY DEF IndexWrite, Resting, ReviewInv, RunsInv
  <2> QED  BY <2>1 DEF RunOK, RunStates
<1>4. RunsInv'
  <2>1. PICK n : n = [run[r] EXCEPT !.pc = "returning", !.read = {}]
    OBVIOUS
  <2>2. run' = [run EXCEPT ![r] = n]
    BY <2>1 DEF IndexWrite, ReviewInv, RunsInv
  <2>3. n = [pc |-> "returning", id |-> run[r].id, review |-> run[r].review,
             force |-> run[r].force, dry |-> run[r].dry, next |-> run[r].next,
             read |-> {}, failed |-> run[r].failed]
    BY <1>3, <2>1 DEF RunStates
  <2>4. SameRun(n, run[r]) /\ n.pc = "returning" /\ n.read = {}
    BY <1>3, <2>3 DEF SameRun, RunStates
  <2>5. RunOK(n)'
    BY <1>1, <1>3, <2>4 DEF RunOK, SameRun, Complete
  <2> QED  BY <1>2, <2>2, <2>5, RunStep DEF ReviewInv
<1>5. IndexInv' /\ RowsInv'
  BY <1>1, <1>3 DEF ReviewInv, IndexInv, RowsInv, IndexWrite, Complete
<1>6. HistoryInv'
  <2>1. PICK E : E = {Ev(run[r].id, "review_completed", 0)}
    OBVIOUS
  <2>2. run[r].id \in DOMAIN started
    BY <1>3 DEF RunOK
  <2>3. bus' = bus \cup E
    BY <2>1 DEF IndexWrite, Publish
  <2>4. \A e \in E : e.run \in DOMAIN started /\ e.node \in 0..5
    BY <2>1, <2>2 DEF Ev
  <2> QED  BY <1>1, <2>3, <2>4, Told DEF ReviewInv
<1> QED  BY <1>2, <1>4, <1>5, <1>6 DEF ReviewInv

\* The success of the pipeline keeps the invariant.
LEMMA SucceedStep ==
    ASSUME ReviewInv, NEW r \in Runners, Succeed(r)
    PROVE  ReviewInv'
<1>1. UNCHANGED <<files, partial, index, rows, costs, started, raised, cut>>
  BY DEF Succeed
<1>2. Grows /\ FilesInv' /\ StartedInv'
  BY <1>1, Quiet
<1>3. RunOK(run[r]) /\ run[r] \in RunStates /\ run[r].pc = "returning"
  BY DEF Succeed, Resting, ReviewInv, RunsInv, RunOK
<1>4. RunsInv'
  <2>1. CASE Goto(r, "storing")
    <3>1. PICK n : n = [run[r] EXCEPT !.pc = "storing"]
      OBVIOUS
    <3>2. run' = [run EXCEPT ![r] = n]
      BY <2>1, <3>1 DEF Goto, ReviewInv, RunsInv
    <3>3. SameRun(n, run[r]) /\ n.pc = "storing" /\ n.read = run[r].read
      BY <1>3, <3>1 DEF SameRun, RunStates
    <3>4. RunOK(n)'
      BY <1>1, <1>3, <3>3 DEF RunOK, SameRun, Complete
    <3> QED  BY <1>2, <3>2, <3>4, RunStep DEF ReviewInv
  <2>2. CASE run' = [run EXCEPT ![r] = Resting]
    BY <1>2, <2>2, RunStep DEF ReviewInv
  <2> QED  BY <2>1, <2>2 DEF Succeed
<1>5. IndexInv' /\ RowsInv'
  BY <1>1 DEF ReviewInv, IndexInv, RowsInv, Complete
<1>6. HistoryInv'
  <2>1. CASE UNCHANGED bus
    BY <1>1, <2>1 DEF ReviewInv, HistoryInv
  <2>2. CASE bus' = bus \cup NodeEvents(run[r].id, Nodes, Nodes)
    <3>1. run[r].id \in DOMAIN started
      BY <1>3 DEF RunOK
    <3>2. \A e \in NodeEvents(run[r].id, Nodes, Nodes) :
             e.run \in DOMAIN started /\ e.node \in 0..5
      BY <3>1 DEF NodeEvents, Ev, Nodes
    <3> QED  BY <1>1, <2>2, <3>2, Told DEF ReviewInv
  <2> QED  BY <2>1, <2>2 DEF Succeed, Publish
<1> QED  BY <1>2, <1>4, <1>5, <1>6 DEF ReviewInv

\* The failure of the pipeline keeps the invariant.
LEMMA FailStep ==
    ASSUME ReviewInv, NEW r \in Runners, Fail(r)
    PROVE  ReviewInv'
<1>1. UNCHANGED <<files, partial, index, rows, costs, started, raised, cut>>
  BY DEF Fail
<1>2. Grows /\ FilesInv' /\ StartedInv'
  BY <1>1, Quiet
<1>3. RunOK(run[r]) /\ run[r] \in RunStates /\ run[r].pc = "failing"
  BY DEF Fail, Resting, ReviewInv, RunsInv, RunOK
<1>4. PICK f : f = Inferred(run[r].review, run[r].dry)
  OBVIOUS
<1>5. f \in 1..5 /\ f \in 0..5 /\ f # 0
  <2>1. f \in Nodes
    BY <1>4, InferredIsNode
  <2> QED  BY <2>1 DEF Nodes
<1>6. RunsInv'
  <2>1. PICK n : n = [run[r] EXCEPT !.pc = "storing", !.failed = f]
    OBVIOUS
  <2>2. run' = [run EXCEPT ![r] = n]
    BY <1>4, <2>1 DEF Fail, ReviewInv, RunsInv
  <2>3. n = [pc |-> "storing", id |-> run[r].id, review |-> run[r].review,
             force |-> run[r].force, dry |-> run[r].dry, next |-> run[r].next,
             read |-> run[r].read, failed |-> f]
    BY <1>3, <2>1 DEF RunStates
  <2>4. SameRun(n, run[r]) /\ n.pc = "storing" /\ n.read = run[r].read /\ n.failed = f
    BY <1>3, <1>5, <2>3 DEF SameRun, RunStates
  <2>5. RunOK(n)'
    BY <1>1, <1>3, <1>5, <2>4 DEF RunOK, SameRun, Complete
  <2> QED  BY <1>2, <2>2, <2>5, RunStep DEF ReviewInv
<1>7. IndexInv' /\ RowsInv'
  BY <1>1 DEF ReviewInv, IndexInv, RowsInv, Complete
<1>8. HistoryInv'
  <2>1. PICK E : E = NodeEvents(run[r].id, 1..f, 1..(f-1))
    OBVIOUS
  <2>2. bus' = bus \cup E
    BY <1>4, <2>1 DEF Fail, Publish
  <2>3. run[r].id \in DOMAIN started
    BY <1>3 DEF RunOK
  <2>4. 1..f \subseteq 0..5 /\ 1..(f-1) \subseteq 0..5
    BY <1>5
  <2>5. \A e \in E : e.run \in DOMAIN started /\ e.node \in 0..5
    BY <2>1, <2>3, <2>4 DEF NodeEvents, Ev
  <2> QED  BY <1>1, <2>2, <2>5, Told DEF ReviewInv
<1> QED  BY <1>2, <1>6, <1>7, <1>8 DEF ReviewInv

\* The row that is stored of a run keeps the invariant.
LEMMA StoreStep ==
    ASSUME ReviewInv, NEW r \in Runners, Store(r)
    PROVE  ReviewInv'
<1>1. UNCHANGED <<files, partial, index, costs, started, raised, cut>>
  BY DEF Store
<1>2. Grows /\ FilesInv' /\ StartedInv'
  BY <1>1, Quiet
<1>3. /\ RunOK(run[r]) /\ run[r].pc = "storing"
      /\ run[r].id \in DOMAIN started /\ run[r].failed \in 0..5
      /\ run[r].review = started[run[r].id].review
      /\ run[r].failed = 0 /\ ~run[r].dry => Complete(run[r].review)
  <2>1. RunOK(run[r]) /\ run[r].pc = "storing"
    BY DEF Store, Resting, ReviewInv, RunsInv
  <2> QED  BY <2>1 DEF RunOK, RunStates
<1>4. RunsInv'
  BY <1>2, RunStep DEF ReviewInv, Store
<1>5. IndexInv'
  BY <1>1 DEF ReviewInv, IndexInv, Complete
<1>6. RowsInv'
  <2>1. PICK row : row = [run |-> run[r].id, review |-> run[r].review,
                          dry |-> run[r].dry, failed |-> run[r].failed]
    OBVIOUS
  <2>2. rows' = rows \cup {row}
    BY <2>1 DEF Store
  <2>3. /\ row.run \in DOMAIN started
        /\ row.review = started[row.run].review
        /\ row.failed \in {0} \cup Nodes
        /\ row.failed = 0 /\ ~row.dry => Complete(row.review)
    BY <1>3, <2>1 DEF Nodes
  <2> QED  BY <1>1, <2>2, <2>3 DEF ReviewInv, RowsInv, Complete
<1>7. HistoryInv'
  <2>1. PICK E : E = {Ev(run[r].id,
                         IF run[r].failed = 0 THEN "run_completed" ELSE "run_failed",
                         run[r].failed)}
    OBVIOUS
  <2>2. bus' = bus \cup E
    BY <2>1 DEF Store, Publish
  <2>3. \A e \in E : e.run \in DOMAIN started /\ e.node \in 0..5
    BY <1>3, <2>1 DEF Ev
  <2> QED  BY <1>1, <2>2, <2>3, Told DEF ReviewInv
<1> QED  BY <1>2, <1>4, <1>5, <1>6, <1>7 DEF ReviewInv

\* The death of a run keeps the invariant.
LEMMA DieStep ==
    ASSUME ReviewInv, NEW r \in Runners, Die(r)
    PROVE  ReviewInv'
<1>1. UNCHANGED <<files, partial, index, rows, costs, bus, started, raised>>
  BY DEF Die
<1>2. Grows /\ FilesInv' /\ StartedInv'
  BY <1>1, Quiet
<1>3. RunOK(run[r])
  BY DEF Die, ReviewInv, RunsInv
<1>4. RunsInv'
  BY <1>2, RunStep DEF ReviewInv, Die
<1>5. IndexInv' /\ RowsInv'
  BY <1>1 DEF ReviewInv, IndexInv, RowsInv, Complete
<1>6. HistoryInv'
  BY <1>1, <1>3 DEF ReviewInv, HistoryInv, Die, RunOK
<1> QED  BY <1>2, <1>4, <1>5, <1>6 DEF ReviewInv

-----------------------------------------------------------------------------
\* Every step keeps the invariant.
LEMMA ReviewInvStep == ReviewInv /\ [Next]_reviewVars => ReviewInv'
<1> SUFFICES ASSUME ReviewInv, [Next]_reviewVars
             PROVE  ReviewInv'
  OBVIOUS
<1>1. CASE Next
  <2>1. PICK r \in Runners :
          \/ \E review \in Reviews, force \in BOOLEAN, dry \in BOOLEAN :
                Start(r, review, force, dry)
          \/ Proceed(r)
          \/ Die(r)
    BY <1>1 DEF Next
  <2>2. CASE \E review \in Reviews, force \in BOOLEAN, dry \in BOOLEAN :
                Start(r, review, force, dry)
    BY <2>2, StartStep
  <2>3. CASE Refuse(r)
    BY <2>3, RaiseStep DEF Refuse, Resting
  <2>4. CASE Check(r)
    BY <2>4, CheckStep
  <2>5. CASE MakeDir(r)
    BY <2>5, MakeDirStep
  <2>6. CASE Break(r)
    BY <2>6, RaiseStep DEF Break, Resting
  <2>7. CASE \E asks \in BOOLEAN : Work(r, asks)
    BY <2>7, WorkStep
  <2>8. CASE Open(r) \/ Write(r)
    BY <2>8, OpenStep, WriteStep
  <2>9. CASE IndexRead(r)
    BY <2>9, IndexReadStep
  <2>10. CASE IndexWrite(r)
    BY <2>10, IndexWriteStep
  <2>11. CASE Succeed(r)
    BY <2>11, SucceedStep
  <2>12. CASE Fail(r)
    BY <2>12, FailStep
  <2>13. CASE Store(r)
    BY <2>13, StoreStep
  <2>14. CASE Die(r)
    BY <2>14, DieStep
  <2> QED  BY <2>1, <2>2, <2>3, <2>4, <2>5, <2>6, <2>7, <2>8, <2>9, <2>10, <2>11,
              <2>12, <2>13, <2>14 DEF Proceed
<1>2. CASE UNCHANGED reviewVars
  BY <1>2 DEF reviewVars, ReviewInv, RunsInv, FilesInv, IndexInv, StartedInv, RowsInv,
              HistoryInv, RunOK, Complete
<1> QED  BY <1>1, <1>2

\* The invariant holds always; the theorems on listed reviews rest on it.
LEMMA ReviewInvHolds == Spec => []ReviewInv
BY ReviewInvInit, ReviewInvStep, PTL DEF Spec

\* Every variable keeps its type, whatever runs start, race, raise and die
\* (the rows of swarm_runs and the events name runs there were).
THEOREM ReviewTypes == Spec => []TypeOK
<1>1. ReviewInv => TypeOK
  <2> SUFFICES ASSUME ReviewInv PROVE TypeOK
    OBVIOUS
  <2>1. /\ DOMAIN files \subseteq Reviews
        /\ \A v \in DOMAIN files : files[v] \subseteq Outputs
        /\ partial \subseteq (DOMAIN files) \X Outputs
        /\ index \subseteq Reviews
    BY DEF ReviewInv, FilesInv, IndexInv
  <2>2. \A x \in rows : /\ x.run \in DOMAIN started
                        /\ x.review = started[x.run].review
                        /\ x.failed \in {0} \cup Nodes
    BY DEF ReviewInv, RowsInv
  <2>3. \A k \in DOMAIN started : started[k].review \in Reviews /\ started[k].by \in Runners
    <3>1. started \in Seq([review : Reviews, by : Runners])
      BY DEF ReviewInv, StartedInv
    <3>2. \A k \in DOMAIN started : started[k] \in [review : Reviews, by : Runners]
      BY <3>1, ElementOfSeq, LenProperties
    <3> QED  BY <3>2
  <2>4. run \in [Runners -> RunStates \cup {Resting}]
    BY DEF ReviewInv, RunsInv, RunOK
  <2>5. \A r \in Runners : run[r] # Resting => run[r].id \in DOMAIN started
    BY DEF ReviewInv, RunsInv, RunOK
  <2> QED  BY <2>1, <2>2, <2>3, <2>4, <2>5 DEF TypeOK, ReviewInv, HistoryInv
<1> QED  BY <1>1, ReviewInvHolds, PTL

\* A review in the index, or one a run is recorded to have completed, has all
\* six files, although reviews of one period race and runs die anywhere.
THEOREM OnlyCompleteListed == Spec => []ListedIsComplete
<1>1. ReviewInv => ListedIsComplete
  BY DEF ReviewInv, IndexInv, RowsInv, Complete, ListedIsComplete
<1> QED  BY <1>1, ReviewInvHolds, PTL

-----------------------------------------------------------------------------
\* What the API tells of a run's nodes

Live(r) == run[r] # Resting

\* No other run of the review was ever started.
Sole(id, v, starts) == \A k \in DOMAIN starts : starts[k].review = v => k = id

\* Inferred, of a run that writes and the files fs
FirstMissing(v, fs) ==
    IF v \notin DOMAIN fs THEN 1
    ELSE IF Nodes \subseteq fs[v] THEN 5
    ELSE Min(Nodes \ fs[v])

\* The node a report names for a run of v that raised at k
FailedNode(k, v, pt) ==
    CASE k = 0 -> 1
      [] k >= 5 -> 5
      [] OTHER -> IF <<v, k>> \in pt THEN k + 1 ELSE k

\* No output of v that has another after it was cut off.
InFull(v, fs, pt) ==
    v \in DOMAIN fs => \A k \in fs[v] : \A j \in 1..(k - 1) : <<v, j>> \notin pt

\* A run m alone on its review finds there what it wrote itself.
AloneOK(m, fs, pt, rz, starts) ==
    ~m.dry /\ Sole(m.id, m.review, starts) =>
        /\ m.pc \in {"checking", "making"} => m.review \notin DOMAIN fs /\ m.next = 0
        /\ m.pc \in {"working", "opening"} =>
              /\ m.review \in DOMAIN fs /\ fs[m.review] = 1..(m.next - 1)
              /\ \A j : <<m.review, j>> \notin pt
        /\ m.pc = "writing" =>
              /\ m.review \in DOMAIN fs /\ fs[m.review] = 1..m.next
              /\ \A j : <<m.review, j>> \in pt <=> j = m.next
        /\ m.pc \in {"indexing", "upserting"} =>
              m.review \in DOMAIN fs /\ fs[m.review] = Outputs /\ m.next = 6
        /\ m.pc = "failing" =>
              /\ m.id \in DOMAIN rz
              /\ FirstMissing(m.review, fs) = FailedNode(rz[m.id], m.review, pt)
        /\ m.pc = "storing" /\ m.failed # 0 =>
              m.id \in DOMAIN rz /\ m.failed = FailedNode(rz[m.id], m.review, pt)
        /\ m.pc # "storing" => m.failed = 0

\* The row of such a run names the node that raised, or the one after.
RowTold(x, pt, rz, starts) ==
    x.failed # 0 /\ ~x.dry /\ Sole(x.run, x.review, starts) =>
        x.run \in DOMAIN rz /\ x.failed = FailedNode(rz[x.run], x.review, pt)

\* A run is in flight, dead or stored: one of them, and once.
IdsInv ==
    /\ \A r \in Runners : Live(r) =>
          run[r].id \notin cut /\ \A x \in rows : x.run # run[r].id
    /\ \A r, q \in Runners : Live(r) /\ Live(q) /\ run[r].id = run[q].id => r = q
    /\ \A x \in rows : x.run \notin cut

FilesOwned == \A v \in DOMAIN files : \E k \in DOMAIN started : started[k].review = v

\* In a review only one run was started for, no output follows one cut off.
WholeBefore ==
    \A id \in DOMAIN started :
        Sole(id, started[id].review, started) => InFull(started[id].review, files, partial)

\* The output of the node that e reports is there.
FileThere(e) ==
    /\ started[e.run].review \in DOMAIN files
    /\ e.node \in files[started[e.run].review]

\* A node reported as completed has its output, or its run is dry or has died.
EventsInv ==
    \A e \in bus :
        e.type = "node_completed" =>
            \/ FileThere(e)
            \/ \E x \in rows : x.run = e.run /\ x.dry
            \/ \E r \in Runners : /\ Live(r) /\ run[r].id = e.run
                                  /\ run[r].dry /\ run[r].pc = "storing"
            \/ e.run \in cut

ReportInv ==
    /\ ReviewInv
    /\ IdsInv
    /\ FilesOwned
    /\ WholeBefore
    /\ EventsInv
    /\ \A r \in Runners : Live(r) => AloneOK(run[r], files, partial, raised, started)
    /\ \A x \in rows : RowTold(x, partial, raised, started)

-----------------------------------------------------------------------------
\* A step of r reaches no review but its own, and none of what was raised
\* before; what was started stays started.
Footprint(r) ==
    /\ \A v \in DOMAIN files : v \in DOMAIN files' /\ files[v] \subseteq files'[v]
    /\ \A v : v # run[r].review =>
          /\ v \in DOMAIN files' => v \in DOMAIN files
          /\ v \in DOMAIN files => files'[v] = files[v]
          /\ \A j : <<v, j>> \in partial' <=> <<v, j>> \in partial
    /\ \A k \in DOMAIN raised : k # run[r].id => k \in DOMAIN raised' /\ raised'[k] = raised[k]
    /\ started' = started

\* What n, the run m a step later, has to bring with it
Onward(n, m) ==
    n = Resting \/ (/\ SameRun(n, m) /\ m.pc # "storing"
                    /\ AloneOK(n, files', partial', raised', started'))

\* A run that is stored or dies
Leaves(r) ==
    \/ rows' = rows /\ cut' = cut
    \/ /\ cut' = cut
       /\ \E x : /\ rows' = rows \cup {x}
                 /\ x.run = run[r].id /\ x.dry = run[r].dry
                 /\ RowTold(x, partial', raised', started')
    \/ rows' = rows /\ cut' = cut \cup {run[r].id}

\* Runs in flight are known by their ids.
LEMMA LiveFacts ==
    ASSUME ReviewInv, NEW r \in Runners, Live(r)
    PROVE  /\ RunOK(run[r]) /\ run[r] \in RunStates
           /\ run[r].id \in DOMAIN started /\ started[run[r].id].review = run[r].review
  BY DEF ReviewInv, RunsInv, RunOK, Live

\* The step of another run changes nothing for a run alone on its review.
LEMMA AloneStays ==
    ASSUME ReportInv, NEW r \in Runners, Live(r), Footprint(r),
           NEW q \in Runners, Live(q), q # r
    PROVE  AloneOK(run[q], files', partial', raised', started')
  <1>1. PICK m \in RunStates : m = run[q] /\ m.id \in DOMAIN started
    BY LiveFacts DEF ReportInv
  <1>2. AloneOK(m, files, partial, raised, started) /\ started' = started
    BY <1>1 DEF ReportInv, Footprint
  <1>3. SUFFICES ASSUME ~m.dry, Sole(m.id, m.review, started)
                 PROVE  AloneOK(m, files', partial', raised', started)
    BY <1>1, <1>2 DEF AloneOK
  <1>4. m.id # run[r].id
    BY <1>1 DEF ReportInv, IdsInv
  <1>5. m.review # run[r].review
    BY <1>3, <1>4, LiveFacts DEF ReportInv, Sole
  <1>6. /\ m.review \in DOMAIN files' <=> m.review \in DOMAIN files
        /\ m.review \in DOMAIN files => files'[m.review] = files[m.review]
        /\ m.id \in DOMAIN raised => m.id \in DOMAIN raised' /\ raised'[m.id] = raised[m.id]
        /\ \A j : <<m.review, j>> \in partial' <=> <<m.review, j>> \in partial
    BY <1>4, <1>5 DEF Footprint
  <1>7. FirstMissing(m.review, files') = FirstMissing(m.review, files)
    BY <1>6 DEF FirstMissing
  <1>8. \A k : FailedNode(k, m.review, partial') = FailedNode(k, m.review, partial)
    BY <1>6 DEF FailedNode
  <1>9. QED
    BY <1>2, <1>3, <1>6, <1>7, <1>8 DEF AloneOK

\* A row stays true.
LEMMA RowStays ==
    ASSUME ReportInv, NEW r \in Runners, Live(r), Footprint(r), NEW x \in rows
    PROVE  RowTold(x, partial', raised', started')
  <1>1. RowTold(x, partial, raised, started) /\ x.run # run[r].id /\ started' = started
    BY DEF ReportInv, IdsInv, Footprint
  <1>2. ASSUME Sole(x.run, x.review, started)
        PROVE  \A k : FailedNode(k, x.review, partial') = FailedNode(k, x.review, partial)
    <2>1. x.review # run[r].review
      BY <1>1, <1>2, LiveFacts DEF ReportInv, Sole
    <2>2. QED
      BY <2>1 DEF Footprint, FailedNode
  <1>3. x.run \in DOMAIN raised => x.run \in DOMAIN raised' /\ raised'[x.run] = raised[x.run]
    BY <1>1 DEF Footprint
  <1>4. QED
    BY <1>1, <1>2, <1>3 DEF RowTold

\* What holds for r's step and its events holds for the whole state.
LEMMA ReportStep ==
    ASSUME ReportInv, ReviewInv', NEW r \in Runners, Live(r), NEW n,
           run' = [run EXCEPT ![r] = n], Footprint(r), Onward(n, run[r]), Leaves(r),
           n # Resting => rows' = rows /\ cut' = cut,
           run[r].pc = "storing" => rows' # rows \/ cut' # cut,
           \A v \in DOMAIN files' : v \in DOMAIN files \/ v = run[r].review,
           Sole(run[r].id, run[r].review, started) /\ InFull(run[r].review, files, partial)
              => InFull(run[r].review, files', partial'),
           \A e \in bus' : \/ e \in bus
                           \/ e.type # "node_completed"
                           \/ /\ n # Resting /\ e.run = n.id
                              /\ n.pc = "storing" /\ n.dry
                           \/ FileThere(e)'
    PROVE  ReportInv'
  <1>1. /\ run'[r] = n
        /\ \A q \in Runners : q # r => run'[q] = run[q]
        /\ started' = started
    BY DEF ReportInv, ReviewInv, RunsInv, Footprint
  <1>2. PICK id \in DOMAIN started : id = run[r].id /\ started[id].review = run[r].review
    BY LiveFacts DEF ReportInv
  <1>3. n # Resting => n.id = id
    BY <1>2 DEF Onward, SameRun
  <1>4. IdsInv'
    <2>1. IdsInv
      BY DEF ReportInv
    <2>2. ASSUME NEW q \in Runners, Live(q)'
          PROVE  run'[q].id \notin cut' /\ \A x \in rows' : x.run # run'[q].id
      <3>1. CASE q = r
        <4>1. n # Resting /\ run'[q].id = id
          BY <1>1, <1>3, <2>2, <3>1 DEF Live
        <4>2. rows' = rows /\ cut' = cut
          BY <4>1
        <4>3. QED
          BY <1>2, <2>1, <4>1, <4>2 DEF IdsInv
      <3>2. CASE q # r
        <4>1. Live(q) /\ run'[q] = run[q] /\ run[q].id # id
          BY <1>1, <1>2, <2>1, <2>2, <3>2 DEF Live, IdsInv
        <4>2. QED
          BY <1>2, <2>1, <4>1 DEF IdsInv, Leaves
      <3>3. QED
        BY <3>1, <3>2
    <2>3. ASSUME NEW p \in Runners, NEW q \in Runners, Live(p)', Live(q)',
                 run'[p].id = run'[q].id
          PROVE  p = q
      BY <1>1, <1>2, <1>3, <2>1, <2>3 DEF IdsInv, Live
    <2>4. ASSUME NEW x \in rows' PROVE x.run \notin cut'
      BY <1>2, <2>1, <2>4 DEF IdsInv, Leaves
    <2>5. QED
      BY <2>2, <2>3, <2>4 DEF IdsInv
  <1>5. FilesOwned'
    <2>1. FilesOwned
      BY DEF ReportInv
    <2>2. QED
      BY <1>1, <1>2, <2>1 DEF FilesOwned
  <1>6. \A q \in Runners : Live(q)' => AloneOK(run'[q], files', partial', raised', started')
    <2>1. ASSUME NEW q \in Runners, Live(q)'
          PROVE  AloneOK(run'[q], files', partial', raised', started')
      <3>1. CASE q = r
        BY <1>1, <2>1, <3>1 DEF Onward, Live
      <3>2. CASE q # r
        BY <1>1, <2>1, <3>2, AloneStays DEF Live
      <3>3. QED
        BY <3>1, <3>2
    <2>2. QED
      BY <2>1
  <1>7. \A x \in rows' : RowTold(x, partial', raised', started')
    BY RowStays DEF Leaves
  <1>8. EventsInv'
    <2> SUFFICES ASSUME NEW e \in bus', e.type = "node_completed"
                 PROVE  \/ FileThere(e)'
                        \/ \E x \in rows' : x.run = e.run /\ x.dry
                        \/ \E q \in Runners : /\ Live(q)' /\ run'[q].id = e.run
                                              /\ run'[q].dry /\ run'[q].pc = "storing"
                        \/ e.run \in cut'
      BY DEF EventsInv
    <2>1. CASE e \in bus
      <3>1. \/ FileThere(e)
            \/ \E x \in rows : x.run = e.run /\ x.dry
            \/ \E q \in Runners : /\ Live(q) /\ run[q].id = e.run
                                  /\ run[q].dry /\ run[q].pc = "storing"
            \/ e.run \in cut
        BY <2>1 DEF ReportInv, EventsInv
      <3>2. CASE FileThere(e)
        BY <1>1, <3>2 DEF FileThere, Footprint
      <3>3. CASE (\E x \in rows : x.run = e.run /\ x.dry) \/ e.run \in cut
        BY <3>3 DEF Leaves
      <3>4. CASE \E q \in Runners : /\ Live(q) /\ run[q].id = e.run
                                    /\ run[q].dry /\ run[q].pc = "storing"
        <4>1. PICK q \in Runners : /\ Live(q) /\ run[q].id = e.run
                                   /\ run[q].dry /\ run[q].pc = "storing"
          BY <3>4
        <4>2. CASE q # r
          BY <1>1, <4>1, <4>2 DEF Live
        <4>3. CASE q = r
          BY <1>2, <4>1, <4>3 DEF Leaves
        <4>4. QED
          BY <4>2, <4>3
      <3>5. QED
        BY <3>1, <3>2, <3>3, <3>4
    <2>2. CASE n # Resting /\ e.run = n.id /\ n.pc = "storing" /\ n.dry
      BY <1>1, <2>2 DEF Live
    <2>3. QED
      BY <2>1, <2>2
  <1>9. WholeBefore'
    <2> SUFFICES ASSUME NEW k \in DOMAIN started, Sole(k, started[k].review, started)
                 PROVE  InFull(started[k].review, files', partial')
      BY <1>1 DEF WholeBefore
    <2>1. InFull(started[k].review, files, partial)
      BY DEF ReportInv, WholeBefore
    <2>2. CASE started[k].review = run[r].review
      BY <1>2, <2>1, <2>2 DEF Sole
    <2>3. CASE started[k].review # run[r].review
      BY <2>1, <2>3 DEF InFull, Footprint
    <2>4. QED
      BY <2>2, <2>3
  <1>10. QED
    BY <1>4, <1>5, <1>6, <1>7, <1>8, <1>9 DEF ReportInv

-----------------------------------------------------------------------------
\* The node that raised is the first whose output is missing.
LEMMA FirstMissingIs ==
    ASSUME NEW v, NEW fs, NEW k \in 1..6, v \in DOMAIN fs, fs[v] = 1..(k - 1)
    PROVE  FirstMissing(v, fs) = IF k = 6 THEN 5 ELSE k
<1>1. CASE k = 6
  <2>1. Nodes \subseteq fs[v]
    BY <1>1 DEF Nodes
  <2> QED  BY <1>1, <2>1 DEF FirstMissing
<1>2. CASE k \in 1..5
  <2>1. PICK S : S = Nodes \ fs[v]
    OBVIOUS
  <2>2. S = k..5
    <3>1. ASSUME NEW j PROVE j \in S <=> j \in k..5
      <4>1. j \in S <=> j \in 1..5 /\ j \notin 1..(k - 1)
        BY <2>1 DEF Nodes
      <4> QED  BY <1>2, <4>1
    <3> QED  BY <3>1
  <2>3. k \in S /\ S # {} /\ S \subseteq Int /\ \A j \in S : k =< j
    <3>1. k \in k..5 /\ \A j \in k..5 : j \in Int /\ k =< j
      BY <1>2
    <3> QED  BY <2>2, <3>1
  <2>4. Min(S) \in S /\ \A j \in S : Min(S) =< j
    <3>1. \E x \in S : \A y \in S : x =< y
      BY <2>3
    <3> QED  BY <3>1 DEF Min
  <2>5. PICK low \in Int : low = Min(S) /\ low =< k /\ k =< low
    BY <2>3, <2>4
  <2>6. ~(Nodes \subseteq fs[v])
    BY <2>1, <2>3
  <2> QED  BY <1>2, <2>1, <2>5, <2>6 DEF FirstMissing
<1> QED  BY <1>1, <1>2

\* Steps that write no file and raise nothing reach nobody else.
LEMMA QuietFootprint ==
    ASSUME UNCHANGED <<files, partial, raised, started>>, NEW r
    PROVE  Footprint(r)
BY DEF Footprint

\* The invariant of the reports holds at the start.
LEMMA ReportInit == ASSUME Init PROVE ReportInv
<1>1. ReviewInv
  BY ReviewInvInit
<1> QED  BY <1>1 DEF Init, ReportInv, IdsInv, FilesOwned, WholeBefore, EventsInv, Live

\* A new run has a number of its own, and finds no directory when it is the first.
LEMMA ReportStart ==
    ASSUME ReportInv, ReviewInv', NEW r \in Runners, NEW review \in Reviews,
           NEW force \in BOOLEAN, NEW dry \in BOOLEAN, Start(r, review, force, dry)
    PROVE  ReportInv'
<1> DEFINE id == Len(started) + 1
<1>0. PICK n : n = [pc |-> "checking", id |-> id, review |-> review, force |-> force,
                    dry |-> dry, next |-> 0, read |-> {}, failed |-> 0]
  OBVIOUS
<1>1. /\ started' = Append(started, [review |-> review, by |-> r])
      /\ run[r] = Resting /\ run' = [run EXCEPT ![r] = n]
      /\ UNCHANGED <<files, partial, index, rows, costs, raised, cut>>
      /\ bus' = bus \/ bus' = bus \cup {Ev(id, "run_started", 0), Ev(id, "node_started", 1)}
  BY <1>0 DEF Start, Publish
<1>2. /\ id \notin DOMAIN started /\ id \in DOMAIN started'
      /\ started'[id].review = review
      /\ \A k \in DOMAIN started : k \in DOMAIN started' /\ started'[k] = started[k]
  BY <1>1 DEF ReportInv, ReviewInv, StartedInv
<1>3. /\ run'[r] = n /\ n.id = id
      /\ \A q \in Runners : q # r => run'[q] = run[q]
      /\ \A q \in Runners : Live(q) => q # r /\ run[q].id \in DOMAIN started
  BY <1>0, <1>1, LiveFacts DEF ReportInv, ReviewInv, RunsInv, Live
<1>4. IdsInv'
  <2>1. IdsInv /\ (\A x \in rows : x.run \in DOMAIN started) /\ cut \subseteq DOMAIN started
    BY DEF ReportInv, ReviewInv, RowsInv, HistoryInv
  <2> QED  BY <1>1, <1>2, <1>3, <2>1 DEF IdsInv, Live
<1>5. FilesOwned'
  BY <1>1, <1>2 DEF ReportInv, FilesOwned
<1>6. EventsInv'
  <2>1. \A e \in bus' : e.type = "node_completed" => e \in bus
    BY <1>1 DEF Ev
  <2>2. \A e \in bus : e.run \in DOMAIN started
    BY DEF ReportInv, ReviewInv, HistoryInv
  <2>3. \A e \in bus : FileThere(e) => FileThere(e)'
    BY <1>1, <1>2, <2>2 DEF FileThere
  <2>4. \A q \in Runners : Live(q) => Live(q)' /\ run'[q] = run[q]
    BY <1>3 DEF Live
  <2> QED  BY <1>1, <2>1, <2>3, <2>4 DEF ReportInv, EventsInv
<1>7. ASSUME NEW k, NEW v, Sole(k, v, started') PROVE Sole(k, v, started)
  BY <1>2, <1>7 DEF Sole
<1>8. \A q \in Runners : Live(q)' => AloneOK(run'[q], files', partial', raised', started')
  <2>1. AloneOK(n, files', partial', raised', started')
    <3>1. Sole(id, review, started') => review \notin DOMAIN files
      BY <1>2 DEF Sole, ReportInv, FilesOwned
    <3> QED  BY <1>0, <1>1, <3>1 DEF AloneOK
  <2>2. \A q \in Runners : Live(q) => AloneOK(run[q], files', partial', raised', started')
    BY <1>1, <1>7 DEF ReportInv, AloneOK
  <2> QED  BY <1>3, <2>1, <2>2 DEF Live
<1>9. \A x \in rows' : RowTold(x, partial', raised', started')
  BY <1>1, <1>7 DEF ReportInv, RowTold
<1>10. WholeBefore'
  <2> SUFFICES ASSUME NEW k \in DOMAIN started', Sole(k, started'[k].review, started')
               PROVE  InFull(started'[k].review, files, partial)
    BY <1>1 DEF WholeBefore
  <2>1. CASE k \in DOMAIN started
    BY <1>2, <1>7, <2>1 DEF ReportInv, WholeBefore
  <2>2. CASE k \notin DOMAIN started
    BY <1>2, <2>2 DEF Sole, ReportInv, FilesOwned, InFull
  <2> QED  BY <2>1, <2>2
<1> QED  BY <1>4, <1>5, <1>6, <1>8, <1>9, <1>10 DEF ReportInv

\* What a run raises is what its files will say.
LEMMA ReportRaise ==
    ASSUME ReportInv, ReviewInv', NEW r \in Runners,
           Refuse(r) \/ Break(r)
    PROVE  ReportInv'
<1>1. /\ UNCHANGED <<files, partial, index, rows, costs, bus, started, cut>>
      /\ Live(r) /\ Raise(r)
      /\ run[r].pc \in {"checking", "making", "working", "opening", "writing", "indexing",
                         "upserting"}
      /\ run[r].pc = "checking" => run[r].review \in DOMAIN files
  BY DEF Refuse, Break, Raise, Live, Resting
<1>2. PICK m \in RunStates : m = run[r] /\ RunOK(m) /\ AloneOK(m, files, partial, raised, started)
  BY <1>1, LiveFacts DEF ReportInv
<1>3. PICK n : /\ run' = [run EXCEPT ![r] = n]
               /\ \/ /\ n = [m EXCEPT !.pc = "failing", !.read = {}]
                     /\ raised' = [k \in DOMAIN raised \cup {m.id} |->
                                     IF k = m.id THEN m.next ELSE raised[k]]
                  \/ n = Resting /\ raised' = raised
  <2>1. CASE r = "api"
    <3>1. PICK n : n = [m EXCEPT !.pc = "failing", !.read = {}]
      OBVIOUS
    <3>2. run' = [run EXCEPT ![r] = n]
      BY <1>1, <1>2, <2>1, <3>1 DEF Raise, ReportInv, ReviewInv, RunsInv
    <3> QED  BY <1>1, <1>2, <2>1, <3>1, <3>2 DEF Raise
  <2>2. CASE r # "api"
    BY <1>1, <2>2 DEF Raise
  <2> QED  BY <2>1, <2>2
<1>4. Footprint(r)
  BY <1>1, <1>2, <1>3 DEF Footprint
<1>5. Onward(n, run[r])
  <2>1. CASE n = Resting
    BY <2>1 DEF Onward
  <2>2. CASE /\ n = [m EXCEPT !.pc = "failing", !.read = {}]
             /\ raised' = [k \in DOMAIN raised \cup {m.id} |->
                             IF k = m.id THEN m.next ELSE raised[k]]
    <3>1. n = [pc |-> "failing", id |-> m.id, review |-> m.review, force |-> m.force,
               dry |-> m.dry, next |-> m.next, read |-> {}, failed |-> m.failed]
      BY <2>2 DEF RunStates
    <3>2. SameRun(n, m) /\ n.pc = "failing" /\ n.failed = m.failed
      BY <3>1 DEF SameRun, RunStates
    <3>3. n.id \in DOMAIN raised' /\ raised'[n.id] = m.next
      BY <2>2, <3>2 DEF SameRun
    <3>4. ASSUME ~m.dry, Sole(m.id, m.review, started)
          PROVE  /\ FirstMissing(m.review, files) = FailedNode(m.next, m.review, partial)
                 /\ m.failed = 0
      <4>1. m.failed = 0
        BY <1>1, <1>2, <3>4 DEF AloneOK
      <4>2. CASE m.pc \in {"checking", "making"}
        BY <1>1, <1>2, <3>4, <4>2 DEF AloneOK, FirstMissing, FailedNode
      <4>3. CASE m.pc \in {"working", "opening"}
        <5>1. /\ m.review \in DOMAIN files /\ files[m.review] = 1..(m.next - 1)
              /\ <<m.review, m.next>> \notin partial
          BY <1>2, <3>4, <4>3 DEF AloneOK
        <5>2. m.next \in 1..6
          BY <1>2, <4>3 DEF RunOK
        <5>3. FirstMissing(m.review, files) = IF m.next = 6 THEN 5 ELSE m.next
          BY <5>1, <5>2, FirstMissingIs
        <5> QED  BY <4>1, <5>1, <5>2, <5>3 DEF FailedNode
      <4>4. CASE m.pc = "writing"
        <5>1. /\ m.review \in DOMAIN files /\ files[m.review] = 1..m.next
              /\ <<m.review, m.next>> \in partial
          BY <1>2, <3>4, <4>4 DEF AloneOK
        <5>2. m.next \in 1..6
          BY <1>2, <4>4 DEF RunOK
        <5>3. CASE m.next = 6
          <6>1. Nodes \subseteq files[m.review]
            BY <5>1, <5>3 DEF Nodes
          <6> QED  BY <4>1, <5>1, <5>3, <6>1 DEF FirstMissing, FailedNode
        <5>4. CASE m.next \in 1..5
          <6>1. PICK k \in 1..6 : k = m.next + 1
            BY <5>4
          <6>2. files[m.review] = 1..(k - 1)
            BY <5>1, <5>4, <6>1
          <6>3. FirstMissing(m.review, files) = IF k = 6 THEN 5 ELSE k
            BY <5>1, <6>2, FirstMissingIs
          <6> QED  BY <4>1, <5>1, <5>4, <6>1, <6>3 DEF FailedNode
        <5> QED  BY <5>2, <5>3, <5>4
      <4>5. CASE m.pc \in {"indexing", "upserting"}
        <5>1. m.review \in DOMAIN files /\ files[m.review] = Outputs /\ m.next = 6
          BY <1>2, <3>4, <4>5 DEF AloneOK
        <5>2. Nodes \subseteq Outputs
          BY DEF Nodes, Outputs
        <5> QED  BY <4>1, <5>1, <5>2 DEF FirstMissing, FailedNode
      <4> QED  BY <1>1, <1>2, <4>2, <4>3, <4>4, <4>5
    <3>5. AloneOK(n, files', partial', raised', started')
      BY <1>1, <3>2, <3>3, <3>4 DEF AloneOK, SameRun
    <3> QED  BY <1>1, <1>2, <3>2, <3>5 DEF Onward
  <2> QED  BY <1>3, <2>1, <2>2
<1> QED  BY <1>1, <1>2, <1>3, <1>4, <1>5, ReportStep DEF Leaves

\* A step of a run that writes no file and raises nothing.
LEMMA ReportQuiet ==
    ASSUME ReportInv, ReviewInv', NEW r \in Runners, Live(r), NEW n,
           run' = [run EXCEPT ![r] = n], run[r].pc # "storing",
           UNCHANGED <<files, partial, rows, started, raised, cut>>,
           n = Resting \/ (SameRun(n, run[r]) /\ AloneOK(n, files, partial, raised, started)),
           \A e \in bus' : \/ e \in bus
                           \/ e.type # "node_completed"
                           \/ /\ n # Resting /\ e.run = n.id
                              /\ n.pc = "storing" /\ n.dry
                           \/ FileThere(e)'
    PROVE  ReportInv'
<1>1. Footprint(r) /\ Leaves(r) /\ Onward(n, run[r])
  BY QuietFootprint DEF Leaves, Onward
<1>2. \A v \in DOMAIN files' : v \in DOMAIN files \/ v = run[r].review
  OBVIOUS
<1> QED  BY <1>1, <1>2, ReportStep

\* The start of a node is no report of its end.
LEMMA NodeStartedOnly ==
    ASSUME NEW r, NEW k, bus' = bus \cup NodeStarted(r, k)
    PROVE  \A e \in bus' : e \in bus \/ e.type # "node_completed"
BY DEF NodeStarted, Ev

\* The look for an existing review keeps the reports true.
LEMMA ReportCheck ==
    ASSUME ReportInv, ReviewInv', NEW r \in Runners, Check(r)
    PROVE  ReportInv'
<1>1. UNCHANGED <<files, partial, rows, started, raised, cut>> /\ Live(r) /\ run[r].pc = "checking"
  BY DEF Check, Live, Resting
<1>2. PICK m \in RunStates : m = run[r] /\ AloneOK(m, files, partial, raised, started)
  BY <1>1, LiveFacts DEF ReportInv
<1>3. CASE m.dry /\ Begin(r)
  <2>1. PICK n : n = [m EXCEPT !.pc = "working", !.next = 1]
    OBVIOUS
  <2>2. run' = [run EXCEPT ![r] = n] /\ bus' = bus \cup NodeStarted(r, 1)
    BY <1>2, <1>3, <2>1 DEF Begin, Publish, ReportInv, ReviewInv, RunsInv
  <2>3. SameRun(n, m)
    <3>1. 1 \in 0..6
      OBVIOUS
    <3> QED  BY <2>1, <3>1, NextNode
  <2>4. AloneOK(n, files, partial, raised, started)
    BY <1>3, <2>3 DEF AloneOK, SameRun
  <2> QED  BY <1>1, <1>2, <2>2, <2>3, <2>4, NodeStartedOnly, ReportQuiet
<1>4. CASE ~m.dry /\ Goto(r, "making") /\ UNCHANGED bus
  <2>1. PICK n : n = [m EXCEPT !.pc = "making"]
    OBVIOUS
  <2>2. run' = [run EXCEPT ![r] = n]
    BY <1>2, <1>4, <2>1 DEF Goto, ReportInv, ReviewInv, RunsInv
  <2>3. /\ SameRun(n, m) /\ n.pc = "making" /\ n.next = m.next /\ n.failed = m.failed
    BY <2>1 DEF SameRun, RunStates
  <2>4. AloneOK(n, files, partial, raised, started)
    BY <1>1, <1>2, <2>3 DEF AloneOK, SameRun
  <2> QED  BY <1>1, <1>2, <1>4, <2>2, <2>3, <2>4, ReportQuiet
<1> QED  BY <1>2, <1>3, <1>4 DEF Check

\* The first run of a review makes an empty directory.
LEMMA ReportMakeDir ==
    ASSUME ReportInv, ReviewInv', NEW r \in Runners, MakeDir(r)
    PROVE  ReportInv'
<1>1. UNCHANGED <<partial, rows, started, raised, cut>> /\ Live(r) /\ run[r].pc = "making"
  BY DEF MakeDir, Live, Resting
<1>2. PICK m \in RunStates : m = run[r] /\ AloneOK(m, files, partial, raised, started)
  BY <1>1, LiveFacts DEF ReportInv
<1>3. /\ DOMAIN files' = DOMAIN files \cup {m.review}
      /\ \A v \in DOMAIN files : files'[v] = files[v]
      /\ m.review \notin DOMAIN files => files'[m.review] = {}
  BY <1>2 DEF MakeDir
<1>4. PICK n : n = [m EXCEPT !.pc = "working", !.next = 1]
  OBVIOUS
<1>5. run' = [run EXCEPT ![r] = n] /\ bus' = bus \cup NodeStarted(r, 1)
  BY <1>2, <1>4 DEF MakeDir, Begin, Publish, ReportInv, ReviewInv, RunsInv
<1>6. SameRun(n, m) /\ n.pc = "working" /\ n.next = 1 /\ n.failed = m.failed
  <2>1. 1 \in 0..6
    OBVIOUS
  <2> QED  BY <1>4, <2>1, NextNode
<1>7. 1..(n.next - 1) = {}
  BY <1>6
<1>8. AloneOK(n, files', partial', raised', started')
  <2>1. m.review \notin DOMAIN files => \A j : <<m.review, j>> \notin partial
    BY DEF ReportInv, ReviewInv, FilesInv
  <2> QED  BY <1>1, <1>2, <1>3, <1>6, <1>7, <2>1 DEF AloneOK, SameRun
<1>9. Footprint(r)
  BY <1>1, <1>2, <1>3 DEF Footprint
<1>10. /\ Onward(n, run[r]) /\ Leaves(r)
       /\ \A v \in DOMAIN files' : v \in DOMAIN files \/ v = run[r].review
  BY <1>1, <1>2, <1>3, <1>6, <1>8 DEF Onward, Leaves
<1>11. InFull(run[r].review, files, partial) => InFull(run[r].review, files', partial')
  BY <1>1, <1>2, <1>3 DEF InFull
<1> QED  BY <1>1, <1>5, <1>9, <1>10, <1>11, NodeStartedOnly, ReportStep

\* The work of a node keeps the reports true.
LEMMA ReportWork ==
    ASSUME ReportInv, ReviewInv', NEW r \in Runners, NEW asks \in BOOLEAN, Work(r, asks)
    PROVE  ReportInv'
<1>1. /\ UNCHANGED <<files, partial, rows, started, raised, cut, bus>>
      /\ Live(r) /\ run[r].pc = "working"
  BY DEF Work, Live, Resting
<1>2. PICK m \in RunStates : m = run[r] /\ RunOK(m) /\ AloneOK(m, files, partial, raised, started)
  BY <1>1, LiveFacts DEF ReportInv
<1>3. CASE ~m.dry /\ Goto(r, "opening")
  <2>1. PICK n : n = [m EXCEPT !.pc = "opening"]
    OBVIOUS
  <2>2. run' = [run EXCEPT ![r] = n]
    BY <1>2, <1>3, <2>1 DEF Goto, ReportInv, ReviewInv, RunsInv
  <2>3. SameRun(n, m) /\ n.pc = "opening" /\ n.next = m.next /\ n.failed = m.failed
    BY <2>1 DEF SameRun, RunStates
  <2>4. AloneOK(n, files, partial, raised, started)
    BY <1>1, <1>2, <2>3 DEF AloneOK, SameRun
  <2> QED  BY <1>1, <1>2, <2>2, <2>3, <2>4, ReportQuiet
<1>4. CASE m.dry /\ m.next < 5 /\ run' = [run EXCEPT ![r].next = @ + 1]
  <2>1. PICK n : n = [m EXCEPT !.next = @ + 1]
    OBVIOUS
  <2>2. run' = [run EXCEPT ![r] = n]
    BY <1>2, <1>4, <2>1 DEF ReportInv, ReviewInv, RunsInv
  <2>3. SameRun(n, m)
    <3>1. m.next + 1 \in 0..6
      BY <1>1, <1>2, <1>4 DEF RunStates
    <3> QED  BY <2>1, <3>1, NextFile
  <2>4. AloneOK(n, files, partial, raised, started)
    BY <1>4, <2>3 DEF AloneOK, SameRun
  <2> QED  BY <1>1, <1>2, <2>2, <2>3, <2>4, ReportQuiet
<1>5. CASE m.dry /\ Goto(r, "returning")
  <2>1. PICK n : n = [m EXCEPT !.pc = "returning"]
    OBVIOUS
  <2>2. run' = [run EXCEPT ![r] = n]
    BY <1>2, <1>5, <2>1 DEF Goto, ReportInv, ReviewInv, RunsInv
  <2>3. SameRun(n, m)
    BY <2>1 DEF SameRun, RunStates
  <2>4. AloneOK(n, files, partial, raised, started)
    BY <1>5, <2>3 DEF AloneOK, SameRun
  <2> QED  BY <1>1, <1>2, <2>2, <2>3, <2>4, ReportQuiet
<1> QED  BY <1>2, <1>3, <1>4, <1>5 DEF Work

\* Each file a run alone opens is the next one.
LEMMA ReportOpen ==
    ASSUME ReportInv, ReviewInv', NEW r \in Runners, Open(r)
    PROVE  ReportInv'
<1>1. UNCHANGED <<rows, bus, started, raised, cut>> /\ Live(r) /\ run[r].pc = "opening"
  BY DEF Open, Live, Resting
<1>2. PICK m \in RunStates : /\ m = run[r] /\ RunOK(m)
                             /\ AloneOK(m, files, partial, raised, started)
  BY <1>1, LiveFacts DEF ReportInv
<1>3. PICK k \in 1..6 : k = m.next
  BY <1>1, <1>2 DEF RunOK
<1>4. m.review \in DOMAIN files /\ ~m.dry
  BY <1>1, <1>2 DEF RunOK
<1>5. /\ DOMAIN files' = DOMAIN files
      /\ files'[m.review] = files[m.review] \cup {k}
      /\ \A v \in DOMAIN files : v # m.review => files'[v] = files[v]
      /\ partial' = partial \cup {<<m.review, k>>}
  BY <1>2, <1>3, <1>4 DEF Open, ReportInv, ReviewInv, FilesInv
<1>6. Footprint(r)
  BY <1>1, <1>2, <1>5 DEF Footprint
<1>7. Sole(m.id, m.review, started) =>
         /\ files'[m.review] = 1..k
         /\ \A j : <<m.review, j>> \in partial' <=> j = k
         /\ m.failed = 0
  <2>1. (1..(k - 1)) \cup {k} = 1..k
    OBVIOUS
  <2> QED  BY <1>1, <1>2, <1>3, <1>4, <1>5, <2>1 DEF AloneOK
<1>8. PICK n : n = [m EXCEPT !.pc = "writing"]
  OBVIOUS
<1>9. run' = [run EXCEPT ![r] = n]
  BY <1>2, <1>8 DEF Open, Goto, ReportInv, ReviewInv, RunsInv
<1>10. SameRun(n, m) /\ n.pc = "writing" /\ n.next = k /\ n.failed = m.failed
  BY <1>3, <1>8 DEF SameRun, RunStates
<1>11. AloneOK(n, files', partial', raised', started')
  BY <1>1, <1>4, <1>5, <1>7, <1>10 DEF AloneOK, SameRun
<1>12. /\ Onward(n, run[r]) /\ Leaves(r)
       /\ \A v \in DOMAIN files' : v \in DOMAIN files \/ v = run[r].review
  BY <1>1, <1>2, <1>5, <1>10, <1>11 DEF Onward, Leaves
<1>13. Sole(run[r].id, run[r].review, started) => InFull(run[r].review, files', partial')
  BY <1>2, <1>7 DEF InFull
<1> QED  BY <1>1, <1>6, <1>9, <1>12, <1>13, ReportStep

\* Each file a run alone writes was the last one opened.
LEMMA ReportWrite ==
    ASSUME ReportInv, ReviewInv', NEW r \in Runners, Write(r)
    PROVE  ReportInv'
<1>1. /\ UNCHANGED <<files, rows, started, raised, cut>>
      /\ Live(r) /\ run[r].pc = "writing"
  BY DEF Write, Live, Resting
<1>2. PICK m \in RunStates : /\ m = run[r] /\ RunOK(m)
                             /\ AloneOK(m, files, partial, raised, started)
  BY <1>1, LiveFacts DEF ReportInv
<1>3. PICK k \in 1..6 : k = m.next
  BY <1>1, <1>2 DEF RunOK
<1>4. m.review \in DOMAIN files /\ ~m.dry
  BY <1>1, <1>2 DEF RunOK
<1>5. partial' = partial \ {<<m.review, k>>}
  BY <1>2, <1>3 DEF Write
<1>6. Footprint(r)
  BY <1>1, <1>2, <1>5 DEF Footprint
<1>7. Sole(m.id, m.review, started) =>
         /\ files[m.review] = 1..k
         /\ \A j : <<m.review, j>> \notin partial'
         /\ m.failed = 0
  BY <1>1, <1>2, <1>3, <1>4, <1>5 DEF AloneOK
<1>8. PICK n : /\ run' = [run EXCEPT ![r] = n]
               /\ SameRun(n, m) /\ n.failed = m.failed
               /\ \/ k < 6 /\ n.pc \in {"working", "opening"} /\ n.next = k + 1
                  \/ k = 6 /\ n.pc = "indexing" /\ n.next = 6
  <2>1. CASE k < 5 /\ run' = [run EXCEPT ![r].pc = "working", ![r].next = @ + 1]
    <3>0. PICK j \in 0..6 : j = k + 1
      BY <2>1
    <3>1. PICK n : n = [m EXCEPT !.pc = "working", !.next = j]
      OBVIOUS
    <3>2. run' = [run EXCEPT ![r] = n]
      BY <1>2, <1>3, <2>1, <3>0, <3>1 DEF ReportInv, ReviewInv, RunsInv
    <3>3. SameRun(n, m) /\ n.pc = "working" /\ n.next = j /\ n.failed = m.failed
      BY <3>1, NextNode
    <3>4. k < 6 /\ n.pc \in {"working", "opening"} /\ n.next = k + 1
      BY <2>1, <3>0, <3>3
    <3> QED  BY <3>2, <3>3, <3>4
  <2>2. CASE k = 5 /\ run' = [run EXCEPT ![r].pc = "opening", ![r].next = @ + 1]
    <3>0. PICK j \in 0..6 : j = 6 /\ j = k + 1
      BY <2>2
    <3>1. PICK n : n = [m EXCEPT !.pc = "opening", !.next = j]
      OBVIOUS
    <3>2. run' = [run EXCEPT ![r] = n]
      BY <1>2, <1>3, <2>2, <3>0, <3>1 DEF ReportInv, ReviewInv, RunsInv
    <3>3. SameRun(n, m) /\ n.pc = "opening" /\ n.next = j /\ n.failed = m.failed
      BY <3>1, LastFile
    <3>4. k < 6 /\ n.pc \in {"working", "opening"} /\ n.next = k + 1
      BY <1>1, <1>2, <2>2, <3>0, <3>3
    <3> QED  BY <3>2, <3>3, <3>4
  <2>3. CASE k = 6 /\ Goto(r, "indexing")
    <3>1. PICK n : n = [m EXCEPT !.pc = "indexing"]
      OBVIOUS
    <3>2. run' = [run EXCEPT ![r] = n]
      BY <1>2, <2>3, <3>1 DEF Goto, ReportInv, ReviewInv, RunsInv
    <3>3. SameRun(n, m) /\ n.pc = "indexing" /\ n.next = m.next /\ n.failed = m.failed
      BY <3>1 DEF SameRun, RunStates
    <3> QED  BY <1>3, <2>3, <3>2, <3>3
  <2>4. k < 5 \/ k = 5 \/ k = 6
    BY <1>3
  <2> QED  BY <1>2, <1>3, <2>1, <2>2, <2>3, <2>4 DEF Write, LastOutput
<1>9. AloneOK(n, files', partial', raised', started')
  <2>1. SUFFICES ASSUME Sole(m.id, m.review, started)
                 PROVE  AloneOK(n, files', partial', raised', started')
    BY <1>1, <1>8 DEF AloneOK, SameRun
  <2>2. CASE k < 6
    <3>1. 1..(n.next - 1) = 1..k /\ n.pc \in {"working", "opening"}
      BY <1>8, <2>2
    <3> QED  BY <1>1, <1>4, <1>7, <1>8, <2>1, <3>1 DEF AloneOK, SameRun
  <2>3. CASE k = 6
    BY <1>1, <1>4, <1>7, <1>8, <2>1, <2>3 DEF AloneOK, SameRun, Outputs
  <2> QED  BY <2>2, <2>3
<1>10. /\ Onward(n, run[r]) /\ Leaves(r)
       /\ \A v \in DOMAIN files' : v \in DOMAIN files \/ v = run[r].review
  BY <1>1, <1>2, <1>8, <1>9 DEF Onward, Leaves
<1>11. \A e \in bus' : e \in bus \/ e.type # "node_completed"
  BY NodeStartedOnly DEF Write, Publish
<1>12. InFull(run[r].review, files, partial) => InFull(run[r].review, files', partial')
  BY <1>1, <1>5 DEF InFull
<1> QED  BY <1>1, <1>6, <1>8, <1>10, <1>11, <1>12, ReportStep

\* The reading of the index keeps the reports true.
LEMMA ReportIndexRead ==
    ASSUME ReportInv, ReviewInv', NEW r \in Runners, IndexRead(r)
    PROVE  ReportInv'
<1>1. /\ UNCHANGED <<files, partial, rows, started, raised, cut, bus>>
      /\ Live(r) /\ run[r].pc = "indexing"
  BY DEF IndexRead, Live, Resting
<1>2. PICK m \in RunStates : m = run[r] /\ AloneOK(m, files, partial, raised, started)
  BY <1>1, LiveFacts DEF ReportInv
<1>3. PICK n : n = [m EXCEPT !.pc = "upserting", !.read = index]
  OBVIOUS
<1>4. run' = [run EXCEPT ![r] = n]
  BY <1>2, <1>3 DEF IndexRead, ReportInv, ReviewInv, RunsInv
<1>5. n = [pc |-> "upserting", id |-> m.id, review |-> m.review, force |-> m.force,
           dry |-> m.dry, next |-> m.next, read |-> index, failed |-> m.failed]
  BY <1>3 DEF RunStates
<1>6. index \in SUBSET Reviews
  BY DEF ReportInv, ReviewInv, IndexInv
<1>7. SameRun(n, m) /\ n.pc = "upserting" /\ n.next = m.next /\ n.failed = m.failed
  BY <1>5, <1>6 DEF SameRun, RunStates
<1>8. AloneOK(n, files, partial, raised, started)
  BY <1>1, <1>2, <1>7 DEF AloneOK, SameRun
<1> QED  BY <1>1, <1>2, <1>4, <1>7, <1>8, ReportQuiet

\* The replacement of the index keeps the reports true.
LEMMA ReportIndexWrite ==
    ASSUME ReportInv, ReviewInv', NEW r \in Runners, IndexWrite(r)
    PROVE  ReportInv'
<1>1. /\ UNCHANGED <<files, partial, rows, started, raised, cut>>
      /\ Live(r) /\ run[r].pc = "upserting"
  BY DEF IndexWrite, Live, Resting
<1>2. PICK m \in RunStates : m = run[r] /\ AloneOK(m, files, partial, raised, started)
  BY <1>1, LiveFacts DEF ReportInv
<1>3. PICK n : n = [m EXCEPT !.pc = "returning", !.read = {}]
  OBVIOUS
<1>4. run' = [run EXCEPT ![r] = n]
  BY <1>2, <1>3 DEF IndexWrite, ReportInv, ReviewInv, RunsInv
<1>5. n = [pc |-> "returning", id |-> m.id, review |-> m.review, force |-> m.force,
           dry |-> m.dry, next |-> m.next, read |-> {}, failed |-> m.failed]
  BY <1>3 DEF RunStates
<1>6. SameRun(n, m) /\ n.pc = "returning" /\ n.failed = m.failed
  BY <1>5 DEF SameRun, RunStates
<1>7. AloneOK(n, files, partial, raised, started)
  BY <1>1, <1>2, <1>6 DEF AloneOK, SameRun
<1>8. \A e \in bus' : e \in bus \/ e.type # "node_completed"
  BY DEF IndexWrite, Publish, Ev
<1> QED  BY <1>1, <1>2, <1>4, <1>6, <1>7, <1>8, ReportQuiet

\* run_swarm reports every node of a run that returned, whose files are all there.
LEMMA ReportSucceed ==
    ASSUME ReportInv, ReviewInv', NEW r \in Runners, Succeed(r)
    PROVE  ReportInv'
<1>1. /\ UNCHANGED <<files, partial, rows, started, raised, cut>>
      /\ Live(r) /\ run[r].pc = "returning"
  BY DEF Succeed, Live, Resting
<1>2. PICK m \in RunStates : m = run[r] /\ RunOK(m) /\ AloneOK(m, files, partial, raised, started)
  BY <1>1, LiveFacts DEF ReportInv
<1>3. CASE Goto(r, "storing") /\ bus' = bus \cup NodeEvents(m.id, Nodes, Nodes)
  <2>1. PICK n : n = [m EXCEPT !.pc = "storing"]
    OBVIOUS
  <2>2. run' = [run EXCEPT ![r] = n]
    BY <1>2, <1>3, <2>1 DEF Goto, ReportInv, ReviewInv, RunsInv
  <2>3. SameRun(n, m) /\ n.pc = "storing" /\ n.failed = m.failed
    BY <2>1 DEF SameRun, RunStates
  <2>4. AloneOK(n, files, partial, raised, started)
    BY <1>1, <1>2, <2>3 DEF AloneOK, SameRun
  <2>5. ASSUME NEW e \in bus', e \notin bus, e.type = "node_completed", ~m.dry
        PROVE  FileThere(e)'
    <3>1. e.run = m.id /\ e.node \in Nodes
      BY <1>3, <2>5 DEF NodeEvents, Ev
    <3>2. Complete(m.review) /\ started[m.id].review = m.review
      BY <1>1, <1>2, <2>5 DEF RunOK
    <3>3. Nodes \subseteq Outputs
      BY DEF Nodes, Outputs
    <3> QED  BY <1>1, <3>1, <3>2, <3>3 DEF FileThere, Complete
  <2>6. ASSUME NEW e \in bus', e \notin bus, e.type = "node_completed"
        PROVE  e.run = n.id
    BY <1>3, <2>3, <2>6 DEF NodeEvents, Ev, SameRun
  <2>7. n # Resting
    BY <2>3 DEF Resting
  <2>8. n.dry = m.dry
    BY <2>3 DEF SameRun
  <2>9. \A e \in bus' : \/ e \in bus \/ e.type # "node_completed"
                        \/ /\ n # Resting /\ e.run = n.id /\ n.pc = "storing" /\ n.dry
                        \/ FileThere(e)'
    BY <2>3, <2>5, <2>6, <2>7, <2>8
  <2> QED  BY <1>1, <1>2, <2>2, <2>3, <2>4, <2>9, ReportQuiet
<1>4. CASE run' = [run EXCEPT ![r] = Resting] /\ UNCHANGED bus
  BY <1>1, <1>4, ReportQuiet
<1> QED  BY <1>2, <1>3, <1>4 DEF Succeed, Publish

\* What comes before the first missing output is there.
LEMMA BeforeFirstMissing ==
    ASSUME NEW v, NEW fs, NEW j \in 1..(FirstMissing(v, fs) - 1)
    PROVE  v \in DOMAIN fs /\ j \in fs[v]
<1>1. CASE v \notin DOMAIN fs
  BY <1>1 DEF FirstMissing
<1>2. CASE v \in DOMAIN fs /\ Nodes \subseteq fs[v]
  BY <1>2 DEF FirstMissing, Nodes
<1>3. CASE v \in DOMAIN fs /\ ~(Nodes \subseteq fs[v])
  <2>1. PICK S : S = Nodes \ fs[v]
    OBVIOUS
  <2>2. S \subseteq Nodes /\ S # {}
    BY <1>3, <2>1
  <2>3. \E x \in S : \A y \in S : x =< y
    BY <2>2, LowestOfNodes
  <2>4. PICK low \in S : low = Min(S) /\ \A y \in S : low =< y
    BY <2>3 DEF Min
  <2>5. FirstMissing(v, fs) = low
    BY <1>3, <2>1, <2>4 DEF FirstMissing
  <2>6. low \in 1..5 /\ j \in 1..(low - 1)
    BY <2>2, <2>4, <2>5 DEF Nodes
  <2>7. j \in Nodes /\ j \notin S
    BY <2>4, <2>6 DEF Nodes
  <2> QED  BY <1>3, <2>1, <2>7
<1> QED  BY <1>1, <1>2, <1>3

\* run_swarm tells of a failed run what the files say.
LEMMA ReportFail ==
    ASSUME ReportInv, ReviewInv', NEW r \in Runners, Fail(r)
    PROVE  ReportInv'
<1>1. /\ UNCHANGED <<files, partial, rows, started, raised, cut>>
      /\ Live(r) /\ run[r].pc = "failing"
  BY DEF Fail, Live, Resting
<1>2. PICK m \in RunStates : m = run[r] /\ RunOK(m) /\ AloneOK(m, files, partial, raised, started)
  BY <1>1, LiveFacts DEF ReportInv
<1>3. PICK f \in 1..5 : f = Inferred(m.review, m.dry)
  BY InferredIsNode DEF Nodes
<1>4. ~m.dry => f = FirstMissing(m.review, files)
  BY <1>3 DEF Inferred, FirstMissing
<1>5. PICK n : n = [m EXCEPT !.pc = "storing", !.failed = f]
  OBVIOUS
<1>6. run' = [run EXCEPT ![r] = n] /\ bus' = bus \cup NodeEvents(m.id, 1..f, 1..(f - 1))
  BY <1>2, <1>3, <1>5 DEF Fail, Publish, ReportInv, ReviewInv, RunsInv
<1>7. n = [pc |-> "storing", id |-> m.id, review |-> m.review, force |-> m.force,
           dry |-> m.dry, next |-> m.next, read |-> m.read, failed |-> f]
  BY <1>5 DEF RunStates
<1>8. f \in 0..5
  BY <1>3
<1>9. SameRun(n, m) /\ n.pc = "storing" /\ n.failed = f /\ n # Resting
  BY <1>7, <1>8 DEF SameRun, RunStates, Resting
<1>10. AloneOK(n, files, partial, raised, started)
  BY <1>1, <1>2, <1>4, <1>9 DEF AloneOK, SameRun
<1>11. ASSUME NEW e \in bus', e \notin bus, e.type = "node_completed"
       PROVE  e.run = n.id /\ (n.dry \/ FileThere(e)')
  <2>1. e.run = m.id /\ e.node \in 1..(f - 1)
    BY <1>6, <1>11 DEF NodeEvents, Ev
  <2>2. started[m.id].review = m.review
    BY <1>2 DEF RunOK
  <2>3. CASE m.dry
    BY <1>9, <2>1, <2>3 DEF SameRun
  <2>4. CASE ~m.dry
    <3>1. m.review \in DOMAIN files /\ e.node \in files[m.review]
      BY <1>4, <2>1, <2>4, BeforeFirstMissing
    <3> QED  BY <1>1, <1>9, <2>1, <2>2, <3>1 DEF FileThere, SameRun
  <2> QED  BY <2>3, <2>4
<1>12. \A e \in bus' : \/ e \in bus \/ e.type # "node_completed"
                       \/ /\ n # Resting /\ e.run = n.id /\ n.pc = "storing" /\ n.dry
                       \/ FileThere(e)'
  BY <1>9, <1>11
<1> QED  BY <1>1, <1>2, <1>6, <1>9, <1>10, <1>12, ReportQuiet

\* The row says what the run knew.
LEMMA ReportStore ==
    ASSUME ReportInv, ReviewInv', NEW r \in Runners, Store(r)
    PROVE  ReportInv'
<1>1. /\ UNCHANGED <<files, partial, started, raised, cut>>
      /\ Live(r) /\ run[r].pc = "storing"
      /\ run' = [run EXCEPT ![r] = Resting]
  BY DEF Store, Live, Resting
<1>2. PICK m \in RunStates : /\ m = run[r] /\ RunOK(m)
                             /\ AloneOK(m, files, partial, raised, started)
  BY <1>1, LiveFacts DEF ReportInv
<1>3. PICK x : x = [run |-> m.id, review |-> m.review, dry |-> m.dry, failed |-> m.failed]
  OBVIOUS
<1>4. rows' = rows \cup {x} /\ x.run = m.id /\ x.dry = m.dry
  BY <1>2, <1>3 DEF Store
<1>5. RowTold(x, partial', raised', started')
  BY <1>1, <1>2, <1>3 DEF AloneOK, RowTold
<1>6. x \notin rows
  BY <1>1, <1>2, <1>4 DEF ReportInv, IdsInv
<1>7. Footprint(r) /\ Leaves(r) /\ Onward(Resting, run[r]) /\ rows' # rows
  BY <1>1, <1>2, <1>4, <1>5, <1>6, QuietFootprint DEF Leaves, Onward
<1>8. \A e \in bus' : e \in bus \/ e.type # "node_completed"
  BY DEF Store, Publish, Ev
<1>9. \A v \in DOMAIN files' : v \in DOMAIN files \/ v = run[r].review
  BY <1>1
<1> QED  BY <1>1, <1>7, <1>8, <1>9, ReportStep

\* The death of a run keeps the reports true: nobody reports it.
LEMMA ReportDie ==
    ASSUME ReportInv, ReviewInv', NEW r \in Runners, Die(r)
    PROVE  ReportInv'
<1>1. /\ UNCHANGED <<files, partial, rows, bus, started, raised>>
      /\ Live(r) /\ cut' = cut \cup {run[r].id}
      /\ run' = [run EXCEPT ![r] = Resting]
  BY DEF Die, Live
<1>2. cut' # cut
  BY <1>1 DEF ReportInv, IdsInv
<1>3. Footprint(r) /\ Leaves(r) /\ Onward(Resting, run[r])
  BY <1>1, QuietFootprint DEF Leaves, Onward
<1>4. \A v \in DOMAIN files' : v \in DOMAIN files \/ v = run[r].review
  BY <1>1
<1> QED  BY <1>1, <1>2, <1>3, <1>4, ReportStep

\* Every step keeps the reports true.
LEMMA ReportInvStep == ReportInv /\ [Next]_reviewVars => ReportInv'
<1> SUFFICES ASSUME ReportInv, [Next]_reviewVars
             PROVE  ReportInv'
  OBVIOUS
<1>1. ReviewInv'
  BY ReviewInvStep DEF ReportInv
<1>2. CASE UNCHANGED reviewVars
  BY <1>1, <1>2 DEF reviewVars, ReportInv, IdsInv, FilesOwned, WholeBefore, EventsInv,
                    FileThere, Live
<1>3. CASE Next
  BY <1>1, <1>3, ReportStart, ReportRaise, ReportCheck, ReportMakeDir, ReportWork,
     ReportOpen, ReportWrite, ReportIndexRead, ReportIndexWrite, ReportSucceed, ReportFail,
     ReportStore, ReportDie
     DEF Next, Proceed
<1> QED  BY <1>2, <1>3

LEMMA ReportInvHolds == Spec => []ReportInv
BY ReportInit, ReportInvStep, PTL DEF Spec

\* No output of a review is there without the outputs of the nodes before it, nor,
\* when no other run was started for the review, before these were written in full:
\* for any number of runs, processes and crashes.
THEOREM NodeByNode == Spec => []OutputsInOrder
<1>1. ReportInv => OutputsInOrder
  <2> SUFFICES ASSUME ReportInv, NEW v \in DOMAIN files, NEW k \in files[v]
               PROVE  /\ 1..(k - 1) \subseteq files[v]
                      /\ \A id \in DOMAIN started : started[id].review = v /\ OnlyRun(id) =>
                            \A j \in 1..(k - 1) : <<v, j>> \notin partial
    BY DEF OutputsInOrder
  <2>1. 1..(k - 1) \subseteq files[v]
    BY DEF ReportInv, ReviewInv, FilesInv
  <2>2. ASSUME NEW id \in DOMAIN started, started[id].review = v, OnlyRun(id)
        PROVE  \A j \in 1..(k - 1) : <<v, j>> \notin partial
    <3>1. InFull(v, files, partial)
      BY <2>2 DEF OnlyRun, Sole, ReportInv, WholeBefore
    <3> QED  BY <3>1 DEF InFull
  <2> QED  BY <2>1, <2>2
<1> QED  BY <1>1, ReportInvHolds, PTL

\* A node that the API reports as completed has its output in the directory, and
\* a failed run's row names the node that raised, or the one after when that one
\* had opened its file, when no other run was started for its review: for any
\* number of runs, processes and crashes.
THEOREM NodesAsReported == Spec => []NodesReported
<1>1. ASSUME ReportInv PROVE NodesReported
  <2>1. ASSUME NEW e \in bus, e.type = "node_completed",
               \A x \in rows : x.run = e.run => ~x.dry,
               \E x \in rows : x.run = e.run
        PROVE  /\ started[e.run].review \in DOMAIN files
               /\ e.node \in files[started[e.run].review]
    BY <1>1, <2>1 DEF ReportInv, EventsInv, IdsInv, FileThere
  <2>2. ASSUME NEW x \in rows, x.failed # 0, ~x.dry, OnlyRun(x.run)
        PROVE  x.failed = CASE raised[x.run] = 0 -> 1
                            [] raised[x.run] >= 5 -> 5
                            [] OTHER -> IF <<x.review, raised[x.run]>> \in partial
                                        THEN raised[x.run] + 1 ELSE raised[x.run]
    <3>1. x.review = started[x.run].review
      BY <1>1, <2>2 DEF ReportInv, ReviewInv, RowsInv
    <3>2. Sole(x.run, x.review, started)
      BY <2>2, <3>1 DEF OnlyRun, Sole
    <3> QED  BY <1>1, <2>2, <3>2 DEF ReportInv, RowTold, FailedNode
  <2> QED  BY <2>1, <2>2 DEF NodesReported
<1> QED  BY <1>1, ReportInvHolds, PTL

=============================================================================
