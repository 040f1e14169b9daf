------------------------ MODULE ProposalStore_proofs ------------------------
(***************************************************************************)
(* What the proposal files show, for any number of drafts, requests, names *)
(* and deaths, in any order of their steps: the stories the files tell     *)
(* and the directories they lie in (StoreInv), what is never lost          *)
(* (KeptInv), which version a request works on (BornInv), and, until the   *)
(* first death, one place and the verdict beside it (CalmInv), which gives *)
(* the refinement of the five-state workflow.                              *)
(***************************************************************************)
EXTENDS ProposalStore, SequenceTheorems, FiniteSetTheorems, TLAPS

\* The directory of a status
Filed(p, status) ==
    <<p[1], status>> \in
        {<<"root", "pending">>, <<"root", "validating">>,
         <<"PENDING_REVIEW", "approved">>, <<"merged", "merged">>,
         <<"rejected", "rejected">>}

\* A legal story, in which the validator only ever approves and rejects
Story(doc) ==
    /\ LegalStory(doc.log, doc.status)
    /\ \A k \in DOMAIN doc.log :
          doc.log[k].by = "validator" => doc.log[k].to \in {"approved", "rejected"}

\* The status a verdict calls for
Outcome(verdict) == IF verdict = "pass" THEN "approved" ELSE "rejected"

\* A request about to write has read a legal version in its place, and found the
\* place of the next one free, or the same; a validator works in the root and
\* moves the proposal as its one report says.
Sound(r) ==
    /\ r.pc = "running" => r.at[1] = "root"
    /\ r.pc \in {"replacing", "unlinking"} =>
          /\ Story(r.doc)
          /\ <<r.doc.status, r.to>> \in LegalTransitions
          /\ Filed(r.at, r.doc.status)
    /\ r.pc = "replacing" =>
          r.there = IF NewPlace(r.at, r.to) = r.at THEN {r.doc} ELSE {}
    /\ r.pc = "unlinking" => NewPlace(r.at, r.to) # r.at
    /\ r.pc = "filing" => r.judged # {}
    /\ r.pc \in {"resolved", "replacing", "unlinking", "filing"} =>
          \A report \in r.judged : /\ r.judged = {report}
                                   /\ r.at[1] = "root"
                                   /\ r.to = Outcome(report.verdict)

StoreInv ==
    /\ TypeOK
    /\ \A p \in DOMAIN files : Story(files[p]) /\ Filed(p, files[p].status)
    /\ \A w \in Workers : Sound(req[w])

-----------------------------------------------------------------------------
\* The next version of a file continues its story.
LEMMA NextVersionFacts ==
    ASSUME NEW doc \in Doc, NEW status \in Statuses, NEW actor \in Actors,
           Story(doc), <<doc.status, status>> \in LegalTransitions,
           actor = "validator" => status \in {"approved", "rejected"}
    PROVE  /\ NextVersion(doc, status, actor) \in Doc
           /\ NextVersion(doc, status, actor).status = status
           /\ NextVersion(doc, status, actor).draft = doc.draft
           /\ Len(NextVersion(doc, status, actor).log) = Len(doc.log) + 1
           /\ NextVersion(doc, status, actor).log[Len(doc.log) + 1] =
                 [from |-> doc.status, to |-> status, by |-> actor]
           /\ Story(NextVersion(doc, status, actor))
  <1> DEFINE line == [from |-> doc.status, to |-> status, by |-> actor]
             log == Append(doc.log, line)
  <1>1. doc.log \in Seq(Line) /\ doc.status \in Statuses /\ line \in Line
    BY DEF Doc, Line
  <1>2. /\ NextVersion(doc, status, actor).log = log
        /\ NextVersion(doc, status, actor).status = status
        /\ NextVersion(doc, status, actor).draft = doc.draft
        /\ NextVersion(doc, status, actor) = [doc EXCEPT !.status = status, !.log = log]
    BY DEF NextVersion, Doc
  <1>3. /\ Len(doc.log) \in Nat /\ DOMAIN doc.log = 1..Len(doc.log)
        /\ log \in Seq(Line) /\ Len(log) = Len(doc.log) + 1
        /\ DOMAIN log = 1..(Len(doc.log) + 1)
        /\ \A k \in 1..Len(doc.log) : log[k] = doc.log[k]
        /\ log[Len(doc.log) + 1] = line
    BY <1>1, AppendProperties, LenProperties
  <1>4. line.from = doc.status /\ line.to = status
    OBVIOUS
  <1> HIDE DEF line, log
  <1>5. NextVersion(doc, status, actor) \in Doc
    BY <1>2, <1>3 DEF Doc
  <1>6. doc.log = <<>> <=> Len(doc.log) = 0
    BY <1>1, EmptySeq
  <1>7. log # <<>> /\ log[Len(log)].to = status
    BY <1>3, <1>4, EmptySeq
  <1>8. \A k \in DOMAIN log : <<log[k].from, log[k].to>> \in LegalTransitions
    BY <1>3, <1>4 DEF Story, LegalStory
  <1>9. ASSUME NEW k \in DOMAIN log
        PROVE  log[k].from = IF k = 1 THEN "pending" ELSE log[k-1].to
    <2>1. CASE k \in 1..Len(doc.log)
      <3>1. k \in Nat /\ k <= Len(doc.log) /\ (k = 1 \/ k - 1 \in 1..Len(doc.log))
        BY <1>3, <2>1
      <3>2. doc.log[k].from = IF k = 1 THEN "pending" ELSE doc.log[k-1].to
        BY <1>3, <2>1 DEF Story, LegalStory
      <3>3. QED
        BY <1>3, <2>1, <3>1, <3>2
    <2>2. CASE k = Len(doc.log) + 1
      <3>1. CASE doc.log = <<>>
        BY <1>3, <1>4, <1>6, <2>2, <3>1 DEF Story, LegalStory
      <3>2. CASE doc.log # <<>>
        <4>1. k # 1 /\ k - 1 = Len(doc.log) /\ k - 1 \in 1..Len(doc.log)
          BY <1>3, <1>6, <2>2, <3>2
        <4>2. doc.status = doc.log[Len(doc.log)].to
          BY <3>2 DEF Story, LegalStory
        <4>3. QED
          BY <1>3, <1>4, <2>2, <4>1, <4>2
      <3>3. QED
        BY <3>1, <3>2
    <2>3. QED
      BY <1>3, <2>1, <2>2
  <1>10. LegalStory(log, status)
    BY <1>7, <1>8, <1>9 DEF LegalStory
  <1>11. \A k \in DOMAIN log :
            log[k].by = "validator" => log[k].to \in {"approved", "rejected"}
    <2>1. line.by = actor
      BY DEF line
    <2>2. QED
      BY <1>3, <1>4, <2>1 DEF Story
  <1>12. QED
    BY <1>2, <1>3, <1>5, <1>10, <1>11 DEF Story, line

\* The places a transition writes to.
LEMMA NewPlaceFacts ==
    ASSUME NEW p \in Places, NEW status \in Statuses
    PROVE  /\ NewPlace(p, status) \in Places
           /\ Filed(NewPlace(p, status), status)
           /\ NewPlace(p, status)[1] = SinkDir(status)
  BY DEF NewPlace, Filed, SinkDir, Statuses, Places, DirNames

\* A request record has the type its program counter calls for.
LEMMA RequestAt ==
    ASSUME NEW r \in Requests
    PROVE  /\ r.pc = "creating" =>
                 r.at \in Places /\ r.at[1] = "root" /\ r.draft \in Drafts
           /\ r.pc \in {"resolved", "replacing", "unlinking", "filing"} =>
                 r.at \in Places /\ r.to \in Statuses /\ r.judged \subseteq Report
           /\ r.pc \in {"replacing", "unlinking"} => r.doc \in Doc
           /\ r.pc = "running" => r.at \in Places /\ r.draft \in Drafts /\ r.auto \in BOOLEAN
  BY DEF Requests, Places, DirNames

\* A request that does nothing is a request.
LEMMA IdleRequest == Idle \in Requests /\ Idle.pc = "idle" /\ Sound(Idle)
  BY DEF Idle, Requests, Sound

\* One request moves on, the others stay.
LEMMA StepFacts ==
    ASSUME StoreInv, NEW w \in Workers, NEW r \in Requests, Step(w, r), Sound(r)
    PROVE  /\ req' \in [Workers -> Requests]
           /\ \A v \in Workers : Sound(req'[v])
           /\ req'[w] = r
           /\ \A v \in Workers : v # w => req'[v] = req[v]
  <1>1. req' \in [Workers -> Requests] /\ req'[w] = r
        /\ \A v \in Workers : v # w => req'[v] = req[v]
    BY DEF Step, StoreInv, TypeOK
  <1>2. ASSUME NEW v \in Workers PROVE Sound(req'[v])
    <2>1. CASE v = w
      BY <1>1, <2>1
    <2>2. CASE v # w
      <3>1. Sound(req[v]) /\ req'[v] = req[v]
        BY <1>1, <2>2 DEF StoreInv
      <3>2. QED
        BY <3>1
    <2>3. QED
      BY <2>1, <2>2
  <1>3. QED
    BY <1>1, <1>2

-----------------------------------------------------------------------------
\* What the requests that write proposal files do

\* The request a step works for has a sound record.
LEMMA RequestSound ==
    ASSUME StoreInv, NEW w \in Workers
    PROVE  req[w] \in Requests /\ Sound(req[w])
  BY DEF StoreInv, TypeOK

\* What Replace writes for the request r: the next version of a proposal d.
Replaces(w, r, d, dest, doc) ==
    /\ r = req[w] /\ r.pc = "replacing" /\ Sound(r)
    /\ r.at \in Places /\ r.to \in Statuses /\ r.judged \subseteq Report /\ r.doc \in Doc
    /\ d = r.doc.draft
    /\ dest = NewPlace(r.at, r.to) /\ dest[1] = SinkDir(r.to)
    /\ doc = NextVersion(r.doc, r.to, Actor(r))
    /\ doc.draft = d /\ doc.status = r.to /\ Story(doc) /\ Filed(dest, r.to)
    /\ Len(r.doc.log) \in Nat /\ Len(doc.log) = Len(r.doc.log) + 1
    /\ doc.log[Len(doc.log)] = [from |-> r.doc.status, to |-> r.to, by |-> Actor(r)]
    /\ files' = Put(files, dest, doc)
    /\ Step(w, IF dest = r.at THEN Idle
               ELSE [pc |-> "unlinking", at |-> r.at, to |-> r.to,
                     judged |-> r.judged, doc |-> r.doc])
    /\ overwritten' = overwritten \cup (IF FileAt(dest) = r.there THEN {}
                                        ELSE Others(dest, d))
    /\ overtaken' = overtaken \cup
          (IF /\ FileAt(r.at) = {r.doc}
              /\ FilesOf(d) = {r.at}
              /\ \A report \in r.judged : report.draft = d
           THEN {} ELSE {d})
    /\ UNCHANGED <<reports, written, crashes>>

LEMMA ReplaceFacts ==
    ASSUME StoreInv, NEW w \in Workers, Replace(w)
    PROVE  \E r \in Requests, d \in Drafts, dest \in Places, doc \in Doc :
              Replaces(w, r, d, dest, doc)
  <1>1. PICK r \in Requests : r = req[w] /\ Sound(r)
    BY RequestSound
  <1>2. r.pc = "replacing"
    BY <1>1 DEF Replace
  <1>3. /\ r.at \in Places /\ r.to \in Statuses /\ r.judged \subseteq Report /\ r.doc \in Doc
        /\ <<r.doc.status, r.to>> \in LegalTransitions /\ Story(r.doc)
    BY <1>1, <1>2, RequestAt DEF Sound
  <1>4. PICK d \in Drafts : d = r.doc.draft
    BY <1>3 DEF Doc
  <1>5. PICK dest \in Places : dest = NewPlace(r.at, r.to)
    BY <1>3, NewPlaceFacts
  <1>6. PICK actor \in Actors : actor = Actor(r)
    BY DEF Actor, Actors
  <1>7. actor = "validator" => r.to \in {"approved", "rejected"}
    <2>1. ASSUME actor = "validator" PROVE r.to \in {"approved", "rejected"}
      <3>1. PICK report : report \in r.judged
        BY <1>6, <2>1 DEF Actor
      <3>2. QED
        BY <1>1, <1>2, <3>1 DEF Sound, Outcome
    <2>2. QED
      BY <2>1
  <1>8. PICK doc \in Doc :
          /\ doc = NextVersion(r.doc, r.to, actor)
          /\ doc.draft = d /\ doc.status = r.to /\ Story(doc)
          /\ Len(doc.log) = Len(r.doc.log) + 1
          /\ doc.log[Len(r.doc.log) + 1] = [from |-> r.doc.status, to |-> r.to, by |-> actor]
    BY <1>3, <1>4, <1>7, NextVersionFacts
  <1>9. Len(r.doc.log) \in Nat
    BY <1>3, LenProperties DEF Doc
  <1>10. Filed(dest, r.to) /\ dest[1] = SinkDir(r.to)
    BY <1>3, <1>5, NewPlaceFacts
  <1>11. /\ files' = Put(files, dest, doc)
         /\ Step(w, IF dest = r.at THEN Idle
                    ELSE [pc |-> "unlinking", at |-> r.at, to |-> r.to,
                          judged |-> r.judged, doc |-> r.doc])
         /\ overwritten' = overwritten \cup (IF FileAt(dest) = r.there THEN {}
                                             ELSE Others(dest, d))
         /\ overtaken' = overtaken \cup
               (IF /\ FileAt(r.at) = {r.doc}
                   /\ FilesOf(d) = {r.at}
                   /\ \A report \in r.judged : report.draft = d
                THEN {} ELSE {d})
         /\ UNCHANGED <<reports, written, crashes>>
    BY <1>1, <1>4, <1>5, <1>6, <1>8 DEF Replace
  <1>12. Replaces(w, r, d, dest, doc)
    BY <1>1, <1>2, <1>3, <1>4, <1>5, <1>6, <1>8, <1>9, <1>10, <1>11 DEF Replaces
  <1>13. QED
    BY <1>12

\* What Unlink does for the request r: it works on a proposal d.
Unlinks(w, r, d) ==
    /\ r = req[w] /\ r.pc = "unlinking" /\ Sound(r)
    /\ r.at \in Places /\ r.to \in Statuses /\ r.judged \subseteq Report /\ r.doc \in Doc
    /\ d = r.doc.draft
    /\ \/ /\ Exists(r.at)
          /\ files' = Remove(files, r.at)
          /\ Step(w, IF r.judged = {} THEN Idle
                     ELSE [pc |-> "filing", at |-> r.at, to |-> r.to,
                           judged |-> r.judged])
       \/ /\ ~Exists(r.at)
          /\ Step(w, Idle)
          /\ UNCHANGED files
    /\ overwritten' = overwritten \cup Others(r.at, d)
    /\ overtaken' = overtaken \cup (IF FileAt(r.at) = {r.doc} THEN {} ELSE {d})
    /\ UNCHANGED <<reports, written, crashes>>

LEMMA UnlinkFacts ==
    ASSUME StoreInv, NEW w \in Workers, Unlink(w)
    PROVE  \E r \in Requests, d \in Drafts : Unlinks(w, r, d)
  <1>1. PICK r \in Requests : r = req[w] /\ Sound(r)
    BY RequestSound
  <1>2. r.pc = "unlinking"
    BY <1>1 DEF Unlink
  <1>3. r.at \in Places /\ r.to \in Statuses /\ r.judged \subseteq Report /\ r.doc \in Doc
    BY <1>2, RequestAt
  <1>4. PICK d \in Drafts : d = r.doc.draft
    BY <1>3 DEF Doc
  <1>5. Unlinks(w, r, d)
    BY <1>1, <1>2, <1>3, <1>4 DEF Unlink, Unlinks
  <1>6. QED
    BY <1>5

\* What WriteFile does: a new proposal d gets a file in the root.
LEMMA WriteFileFacts ==
    ASSUME StoreInv, NEW w \in Workers, WriteFile(w)
    PROVE  \E p \in Places, d \in Drafts :
              /\ req[w].pc = "creating" /\ req[w].draft = d
              /\ p[1] = "root"
              /\ files' = Put(files, p, NewDoc(d))
              /\ written' = written \cup {d}
              /\ overwritten' = overwritten \cup Others(p, d)
              /\ Step(w, Idle) /\ UNCHANGED <<reports, crashes, overtaken>>
              /\ NewDoc(d) \in Doc /\ NewDoc(d).draft = d /\ NewDoc(d).status = "pending"
              /\ NewDoc(d).log = <<>> /\ Story(NewDoc(d))
  <1>1. PICK r \in Requests : r = req[w]
    BY RequestSound
  <1>2. r.pc = "creating"
    BY <1>1 DEF WriteFile
  <1>3. PICK p \in Places, d \in Drafts : p = r.at /\ d = r.draft /\ p[1] = "root"
    BY <1>2, RequestAt
  <1>4. /\ NewDoc(d) \in Doc /\ NewDoc(d).draft = d /\ NewDoc(d).status = "pending"
        /\ NewDoc(d).log = <<>>
    BY DEF NewDoc, Doc, Statuses
  <1>5. Story(NewDoc(d))
    BY <1>4 DEF Story, LegalStory
  <1>6. QED
    BY <1>1, <1>2, <1>3, <1>4, <1>5 DEF WriteFile

\* The other steps write no proposal file.
Elsewhere ==
    /\ UNCHANGED <<files, written, overwritten>>
    /\ overtaken \subseteq overtaken'

LEMMA FileSteps ==
    ASSUME [Next]_storeVars
    PROVE  (\E w \in Workers : WriteFile(w) \/ Replace(w) \/ Unlink(w)) \/ Elsewhere
  BY DEF Next, Transition, Validation, storeVars, history, WriteStart, TransitionStart, Read,
         ValidateStart, ValidateStop, WriteReport, FileReport, Crash, Elsewhere

-----------------------------------------------------------------------------
\* The invariant holds at the start.
LEMMA StoreInit == Init => StoreInv
  <1> SUFFICES ASSUME Init PROVE StoreInv
    OBVIOUS
  <1>1. DOMAIN files = {} /\ DOMAIN reports = {}
    BY DEF Init
  <1>2. \A w \in Workers : req[w] = Idle
    BY DEF Init
  <1>3. TypeOK
    BY <1>1, IdleRequest, StoreAssumption DEF Init, TypeOK
  <1>4. QED
    BY <1>1, <1>2, <1>3, IdleRequest DEF StoreInv

\* A file with a legal story, in the right place, keeps the file invariants.
LEMMA PutKeeps ==
    ASSUME StoreInv, NEW p \in Places, NEW doc \in Doc,
           Story(doc), Filed(p, doc.status), files' = Put(files, p, doc)
    PROVE  /\ DOMAIN files' \subseteq Places
           /\ \A q \in DOMAIN files' :
                 files'[q] \in Doc /\ Story(files'[q]) /\ Filed(q, files'[q].status)
  <1>1. /\ DOMAIN files' = DOMAIN files \cup {p}
        /\ files'[p] = doc
        /\ \A q \in DOMAIN files : q # p => files'[q] = files[q]
    BY DEF Put
  <1>2. ASSUME NEW q \in DOMAIN files'
        PROVE  files'[q] \in Doc /\ Story(files'[q]) /\ Filed(q, files'[q].status)
    <2>1. CASE q = p
      BY <1>1, <2>1
    <2>2. CASE q # p
      <3>1. q \in DOMAIN files /\ files'[q] = files[q]
        BY <1>1, <2>2
      <3>2. files[q] \in Doc /\ Story(files[q]) /\ Filed(q, files[q].status)
        BY <3>1 DEF StoreInv, TypeOK
      <3>3. QED
        BY <3>1, <3>2
    <2>3. QED
      BY <2>1, <2>2
  <1>3. QED
    BY <1>1, <1>2 DEF StoreInv, TypeOK

\* Steps that write no proposal file.
LEMMA QuietStep ==
    ASSUME StoreInv, NEW w \in Workers, NEW r \in Requests, Step(w, r), Sound(r),
           UNCHANGED <<files, written, overwritten>>,
           DOMAIN reports' \subseteq Places,
           \A q \in DOMAIN reports' : reports'[q] \in Report,
           crashes' \in 0..MaxCrashes, overtaken' \subseteq Drafts
    PROVE  StoreInv'
  <1>1. req' \in [Workers -> Requests] /\ \A v \in Workers : Sound(req'[v])
    BY StepFacts
  <1>2. TypeOK'
    BY <1>1 DEF StoreInv, TypeOK
  <1>3. \A p \in DOMAIN files' : Story(files'[p]) /\ Filed(p, files'[p].status)
    BY DEF StoreInv
  <1>4. QED
    BY <1>1, <1>2, <1>3 DEF StoreInv

\* Steps that change no file and no report.
LEMMA IdleStep ==
    ASSUME StoreInv, NEW w \in Workers, NEW r \in Requests, Step(w, r), Sound(r),
           UNCHANGED <<files, reports, written, history>>,
           crashes' \in 0..MaxCrashes
    PROVE  StoreInv'
  BY QuietStep DEF StoreInv, TypeOK, history

\* Every step keeps it, for any number of requests at a time.
LEMMA StoreStep ==
    ASSUME StoreInv, [Next]_storeVars
    PROVE  StoreInv'
  <1>1. TypeOK /\ \A p \in DOMAIN files : Story(files[p]) /\ Filed(p, files[p].status)
    BY DEF StoreInv
  <1>2. ASSUME NEW w \in Workers, NEW d \in Drafts, WriteStart(w, d)
        PROVE  StoreInv'
    <2>1. PICK name \in Names :
            Step(w, [pc |-> "creating", at |-> <<"root", name>>, draft |-> d])
      BY <1>2 DEF WriteStart
    <2> DEFINE r == [pc |-> "creating", at |-> <<"root", name>>, draft |-> d]
    <2>2. r \in Requests /\ Sound(r)
      BY DEF Requests, Places, DirNames, Sound
    <2>3. UNCHANGED <<files, reports, written, history>> /\ crashes' \in 0..MaxCrashes
      BY <1>1, <1>2 DEF WriteStart, TypeOK
    <2> HIDE DEF r
    <2>4. Step(w, r)
      BY <2>1 DEF r
    <2>5. QED
      BY <2>2, <2>3, <2>4, IdleStep
  <1>3. ASSUME NEW w \in Workers, WriteFile(w)
        PROVE  StoreInv'
    <2>1. PICK p \in Places, d \in Drafts :
              /\ p[1] = "root"
              /\ files' = Put(files, p, NewDoc(d))
              /\ written' = written \cup {d}
              /\ overwritten' = overwritten \cup Others(p, d)
              /\ Step(w, Idle) /\ UNCHANGED <<reports, crashes, overtaken>>
              /\ NewDoc(d) \in Doc /\ NewDoc(d).status = "pending" /\ Story(NewDoc(d))
      BY <1>3, WriteFileFacts
    <2>2. Filed(p, NewDoc(d).status)
      BY <2>1 DEF Filed
    <2>3. /\ DOMAIN files' \subseteq Places
          /\ \A q \in DOMAIN files' :
                files'[q] \in Doc /\ Story(files'[q]) /\ Filed(q, files'[q].status)
      BY <2>1, <2>2, PutKeeps
    <2>4. req' \in [Workers -> Requests] /\ \A v \in Workers : Sound(req'[v])
      BY <2>1, StepFacts, IdleRequest
    <2>5. Others(p, d) \subseteq Drafts
      BY <1>1 DEF Others, FileAt, TypeOK, Doc
    <2>6. TypeOK'
      BY <1>1, <2>1, <2>3, <2>4, <2>5 DEF TypeOK
    <2>7. QED
      BY <2>3, <2>4, <2>6 DEF StoreInv
  <1>4. ASSUME NEW w \in Workers, NEW name \in Names, NEW status \in Statuses,
               TransitionStart(w, name, status)
        PROVE  StoreInv'
    <2>1. PICK p \in Places :
            Step(w, [pc |-> "resolved", at |-> p, to |-> status, judged |-> {}])
      BY <1>4 DEF TransitionStart
    <2> DEFINE r == [pc |-> "resolved", at |-> p, to |-> status, judged |-> {}]
    <2>2. r \in Requests /\ Sound(r)
      BY DEF Requests, Sound
    <2>3. UNCHANGED <<files, reports, written, history>> /\ crashes' \in 0..MaxCrashes
      BY <1>1, <1>4 DEF TransitionStart, TypeOK
    <2> HIDE DEF r
    <2>4. Step(w, r)
      BY <2>1 DEF r
    <2>5. QED
      BY <2>2, <2>3, <2>4, IdleStep
  <1>5. ASSUME NEW w \in Workers, Read(w)
        PROVE  StoreInv'
    <2>1. PICK r \in Requests : r = req[w] /\ Sound(r)
      BY RequestSound
    <2> DEFINE dest == NewPlace(r.at, r.to)
               next == [pc |-> "replacing", at |-> r.at, to |-> r.to,
                        judged |-> r.judged, doc |-> files[r.at],
                        there |-> FileAt(dest)]
    <2>2. /\ r.pc = "resolved"
          /\ r.at \in Places /\ r.to \in Statuses /\ r.judged \subseteq Report
          /\ UNCHANGED <<files, reports, written, history>> /\ crashes' \in 0..MaxCrashes
          /\ \/ /\ Exists(r.at)
                /\ <<files[r.at].status, r.to>> \in LegalTransitions
                /\ dest # r.at => ~Exists(dest)
                /\ Step(w, next)
             \/ Step(w, Idle)
      BY <1>1, <1>5, <2>1, RequestAt DEF Read, Proceed, Legal, Free, TypeOK
    <2>3. CASE Step(w, Idle)
      BY <2>2, <2>3, IdleStep, IdleRequest
    <2>4. CASE /\ Exists(r.at)
               /\ <<files[r.at].status, r.to>> \in LegalTransitions
               /\ dest # r.at => ~Exists(dest)
               /\ Step(w, next)
      <3>1. /\ files[r.at] \in Doc /\ Story(files[r.at]) /\ Filed(r.at, files[r.at].status)
            /\ FileAt(dest) \subseteq Doc
        BY <1>1, <2>4 DEF TypeOK, Exists, FileAt
      <3>2. FileAt(dest) = IF dest = r.at THEN {files[r.at]} ELSE {}
        BY <2>4 DEF FileAt, Exists
      <3>3. next \in Requests
        BY <2>2, <3>1 DEF Requests
      <3>4. /\ next.pc = "replacing" /\ next.doc = files[r.at] /\ next.to = r.to
            /\ next.at = r.at /\ next.judged = r.judged /\ next.there = FileAt(dest)
        OBVIOUS
      <3>5. Sound(next)
        <4>1. \A report \in r.judged : /\ r.judged = {report}
                                       /\ r.at[1] = "root"
                                       /\ r.to = Outcome(report.verdict)
          BY <2>1, <2>2 DEF Sound
        <4> HIDE DEF next
        <4>2. next.there = IF NewPlace(next.at, next.to) = next.at THEN {next.doc} ELSE {}
          BY <3>2, <3>4
        <4>3. QED
          BY <2>4, <3>1, <3>4, <4>1, <4>2 DEF Sound
      <3> HIDE DEF next
      <3>6. QED
        BY <2>2, <2>4, <3>3, <3>5, IdleStep
    <2>5. QED
      BY <2>2, <2>3, <2>4
  <1>6. ASSUME NEW w \in Workers, Replace(w)
        PROVE  StoreInv'
    <2>1. PICK r \in Requests, d \in Drafts, dest \in Places, doc \in Doc :
             Replaces(w, r, d, dest, doc)
      BY <1>6, ReplaceFacts
    <2> DEFINE moved == [pc |-> "unlinking", at |-> r.at, to |-> r.to,
                         judged |-> r.judged, doc |-> r.doc]
    <2>2. /\ r.pc = "replacing" /\ Sound(r)
          /\ r.at \in Places /\ r.to \in Statuses /\ r.judged \subseteq Report /\ r.doc \in Doc
          /\ dest = NewPlace(r.at, r.to)
          /\ Story(doc) /\ Filed(dest, doc.status)
          /\ files' = Put(files, dest, doc)
          /\ UNCHANGED <<reports, written, crashes>>
      BY <2>1 DEF Replaces
    <2>3. overwritten' \subseteq Drafts /\ overtaken' \subseteq Drafts
      <3>1. Others(dest, d) \subseteq Drafts
        BY <1>1 DEF Others, FileAt, TypeOK, Doc
      <3>2. QED
        BY <1>1, <2>1, <3>1 DEF Replaces, TypeOK
    <2>4. moved \in Requests /\ (dest # r.at => Sound(moved))
      <3>1. moved \in Requests
        BY <2>2 DEF Requests
      <3>2. /\ moved.pc = "unlinking" /\ moved.at = r.at /\ moved.to = r.to
            /\ moved.judged = r.judged /\ moved.doc = r.doc
        OBVIOUS
      <3> HIDE DEF moved
      <3>3. dest # r.at => Sound(moved)
        BY <2>2, <3>2 DEF Sound
      <3>4. QED
        BY <3>1, <3>3
    <2>5. Step(w, IF dest = r.at THEN Idle ELSE moved)
      BY <2>1 DEF Replaces
    <2> HIDE DEF moved
    <2>6. req' \in [Workers -> Requests] /\ \A v \in Workers : Sound(req'[v])
      <3>1. CASE dest = r.at
        BY <2>5, <3>1, StepFacts, IdleRequest
      <3>2. CASE dest # r.at
        BY <2>4, <2>5, <3>2, StepFacts
      <3>3. QED
        BY <3>1, <3>2
    <2>7. /\ DOMAIN files' \subseteq Places
          /\ \A q \in DOMAIN files' :
                files'[q] \in Doc /\ Story(files'[q]) /\ Filed(q, files'[q].status)
      BY <2>2, PutKeeps
    <2>8. TypeOK'
      BY <1>1, <2>2, <2>3, <2>6, <2>7 DEF TypeOK
    <2>9. QED
      BY <2>6, <2>7, <2>8 DEF StoreInv
  <1>7. ASSUME NEW w \in Workers, Unlink(w)
        PROVE  StoreInv'
    <2>1. PICK r \in Requests, d \in Drafts : Unlinks(w, r, d)
      BY <1>7, UnlinkFacts
    <2> DEFINE next == [pc |-> "filing", at |-> r.at, to |-> r.to, judged |-> r.judged]
    <2>2. /\ r.pc = "unlinking" /\ Sound(r)
          /\ r.at \in Places /\ r.to \in Statuses /\ r.judged \subseteq Report
          /\ files' = files \/ files' = Remove(files, r.at)
          /\ Step(w, Idle) \/ (Step(w, next) /\ r.judged # {})
          /\ UNCHANGED <<reports, written, crashes>>
      BY <2>1 DEF Unlinks
    <2>3. next \in Requests /\ (r.judged # {} => Sound(next))
      <3>1. next \in Requests
        BY <2>2 DEF Requests
      <3>2. /\ next.pc = "filing" /\ next.at = r.at /\ next.to = r.to
            /\ next.judged = r.judged
        OBVIOUS
      <3> HIDE DEF next
      <3>3. QED
        BY <2>2, <3>1, <3>2 DEF Sound
    <2> HIDE DEF next
    <2>4. req' \in [Workers -> Requests] /\ \A v \in Workers : Sound(req'[v])
      BY <2>2, <2>3, StepFacts, IdleRequest
    <2>5. /\ DOMAIN files' \subseteq DOMAIN files
          /\ \A q \in DOMAIN files' : files'[q] = files[q]
      BY <2>2 DEF Remove
    <2>6. overwritten' \subseteq Drafts /\ overtaken' \subseteq Drafts
      <3>1. Others(r.at, d) \subseteq Drafts
        BY <1>1 DEF Others, FileAt, TypeOK, Doc
      <3>2. QED
        BY <1>1, <2>1, <3>1 DEF Unlinks, TypeOK
    <2>7. TypeOK'
      BY <1>1, <2>2, <2>4, <2>5, <2>6 DEF TypeOK
    <2>8. \A p \in DOMAIN files' : Story(files'[p]) /\ Filed(p, files'[p].status)
      BY <1>1, <2>5
    <2>9. QED
      BY <2>4, <2>7, <2>8 DEF StoreInv
  <1>8. ASSUME NEW w \in Workers, NEW name \in Names, NEW auto \in BOOLEAN,
               ValidateStart(w, name, auto)
        PROVE  StoreInv'
    <2>1. PICK p \in Places :
            /\ Exists(p) /\ files[p].status = "validating"
            /\ Step(w, [pc |-> "running", at |-> p, draft |-> files[p].draft,
                        auto |-> auto])
      BY <1>8 DEF ValidateStart, Resolves
    <2>2. PICK d \in Drafts : d = files[p].draft
      BY <1>1, <2>1 DEF TypeOK, Doc, Exists
    <2>3. p[1] = "root"
      BY <1>1, <2>1 DEF Filed, Exists
    <2> DEFINE r == [pc |-> "running", at |-> p, draft |-> d, auto |-> auto]
    <2>4. r \in Requests /\ Sound(r) /\ Step(w, r)
      BY <2>1, <2>2, <2>3 DEF Requests, Sound
    <2>5. UNCHANGED <<files, reports, written, history>> /\ crashes' \in 0..MaxCrashes
      BY <1>1, <1>8 DEF ValidateStart, TypeOK
    <2> HIDE DEF r
    <2>6. QED
      BY <2>4, <2>5, IdleStep
  <1>9. ASSUME NEW w \in Workers, ValidateStop(w)
        PROVE  StoreInv'
    BY <1>1, <1>9, IdleStep, IdleRequest DEF ValidateStop, TypeOK
  <1>10. ASSUME NEW w \in Workers, NEW verdict \in {"pass", "fail"},
                WriteReport(w, verdict)
         PROVE  StoreInv'
    <2>1. PICK p \in Places, d \in Drafts, auto \in BOOLEAN :
            p = req[w].at /\ d = req[w].draft /\ auto = req[w].auto /\ p[1] = "root"
      BY <1>10, RequestSound, RequestAt DEF WriteReport, Sound
    <2> DEFINE report == [draft |-> d, verdict |-> verdict]
               r == [pc |-> "resolved", at |-> p, judged |-> {report},
                     to |-> IF verdict = "pass" THEN "approved" ELSE "rejected"]
    <2>2. report \in Report /\ report.verdict = verdict
      BY DEF Report
    <2>3. Step(w, r) \/ Step(w, Idle)
      BY <1>10, <2>1 DEF WriteReport
    <2>4. reports' = Put(reports, p, report) /\ UNCHANGED <<files, written, crashes, history>>
      BY <1>10, <2>1 DEF WriteReport
    <2> HIDE DEF report
    <2>5. r \in Requests /\ Sound(r)
      BY <2>1, <2>2 DEF Requests, Statuses, Sound, Outcome
    <2> HIDE DEF r
    <2>6. /\ DOMAIN reports' \subseteq Places
          /\ \A q \in DOMAIN reports' : reports'[q] \in Report
      BY <1>1, <2>2, <2>4 DEF TypeOK, Put
    <2>7. QED
      BY <1>1, <2>3, <2>4, <2>5, <2>6, QuietStep, IdleRequest DEF TypeOK, history
  <1>11. ASSUME NEW w \in Workers, FileReport(w)
         PROVE  StoreInv'
    <2>1. PICK r \in Requests : r = req[w]
      BY RequestSound
    <2>2. r.pc = "filing" /\ r.at \in Places /\ r.to \in Statuses /\ r.judged \subseteq Report
      BY <1>11, <2>1, RequestAt DEF FileReport
    <2>3. PICK dest \in Places : dest = NewPlace(r.at, r.to)
      BY <2>2, NewPlaceFacts
    <2>4. /\ Step(w, Idle) /\ UNCHANGED <<files, written, crashes, overwritten>>
          /\ \/ reports' = reports
             \/ /\ r.at \in DOMAIN reports
                /\ reports' = Put(Remove(reports, r.at), dest, reports[r.at])
      BY <1>11, <2>1, <2>3 DEF FileReport
    <2>5. /\ DOMAIN reports' \subseteq Places
          /\ \A q \in DOMAIN reports' : reports'[q] \in Report
      <3>1. CASE reports' = reports
        BY <1>1, <3>1 DEF TypeOK
      <3>2. CASE /\ r.at \in DOMAIN reports
                 /\ reports' = Put(Remove(reports, r.at), dest, reports[r.at])
        <4>1. PICK small : /\ small = Remove(reports, r.at)
                           /\ DOMAIN small \subseteq Places
                           /\ \A q \in DOMAIN small : small[q] \in Report
          <5>1. /\ DOMAIN Remove(reports, r.at) \subseteq DOMAIN reports
                /\ \A q \in DOMAIN Remove(reports, r.at) :
                      Remove(reports, r.at)[q] = reports[q]
            BY DEF Remove
          <5>2. QED
            BY <1>1, <5>1 DEF TypeOK
        <4>2. PICK content \in Report : content = reports[r.at]
          BY <1>1, <3>2 DEF TypeOK
        <4>3. reports' = Put(small, dest, content)
          BY <3>2, <4>1, <4>2
        <4>4. QED
          BY <4>1, <4>3 DEF Put
      <3>3. QED
        BY <2>4, <3>1, <3>2
    <2>6. overtaken' \subseteq Drafts
      <3>1. /\ {report.draft : report \in r.judged} \subseteq Drafts
            /\ {doc.draft : doc \in FileAt(dest)} \subseteq Drafts
        BY <1>1, <2>2 DEF Report, FileAt, TypeOK, Doc
      <3>2. overtaken' \subseteq overtaken \cup {report.draft : report \in r.judged}
                                 \cup {doc.draft : doc \in FileAt(dest)}
        BY <1>11, <2>1, <2>3 DEF FileReport
      <3>3. QED
        BY <1>1, <3>1, <3>2 DEF TypeOK
    <2>7. QED
      BY <1>1, <2>4, <2>5, <2>6, QuietStep, IdleRequest DEF TypeOK
  <1>12. ASSUME NEW w \in Workers, Crash(w)
         PROVE  StoreInv'
    <2>1. UNCHANGED <<files, reports, written, history>> /\ Step(w, Idle)
      BY <1>12 DEF Crash
    <2>2. crashes' \in 0..MaxCrashes
      BY <1>1, <1>12, StoreAssumption DEF Crash, TypeOK
    <2>3. QED
      BY <2>1, <2>2, IdleStep, IdleRequest
  <1>13. CASE UNCHANGED storeVars
    <2>1. UNCHANGED <<files, reports, written, req, crashes, overwritten, overtaken>>
      BY <1>13 DEF storeVars, history
    <2>2. TypeOK'
      BY <1>1, <2>1 DEF TypeOK
    <2>3. QED
      BY <2>1, <2>2 DEF StoreInv
  <1>14. QED
    BY <1>2, <1>3, <1>4, <1>5, <1>6, <1>7, <1>8, <1>9, <1>10, <1>11, <1>12, <1>13
       DEF Next, Transition, Validation

\* Every variable of the proposal store keeps its type.
THEOREM StoreTypes == Spec => []TypeOK
  <1>1. StoreInv => TypeOK
    BY DEF StoreInv
  <1>2. QED
    BY <1>1, StoreInit, StoreStep, PTL DEF Spec

\* However requests race and wherever they die, each proposal file tells one
\* complete legal story that ends in its status.
THEOREM StoriesLegal == Spec => []LogTellsStatus
  <1>1. StoreInv => LogTellsStatus
    BY DEF StoreInv, LogTellsStatus, Story
  <1>2. QED
    BY <1>1, StoreInit, StoreStep, PTL DEF Spec

\* Each proposal file lies in the directory of its status.
THEOREM DirectoryIsStatus == Spec => []FiledByStatus
  <1>1. StoreInv => FiledByStatus
    BY DEF StoreInv, FiledByStatus, Filed
  <1>2. QED
    BY <1>1, StoreInit, StoreStep, PTL DEF Spec

-----------------------------------------------------------------------------
\* Final files

\* No step removes a merged or rejected file or gives it another status, and
\* only a transition that had found its place free puts another there.
LEMMA FinalStep ==
    ASSUME StoreInv, [Next]_storeVars, NEW p \in DOMAIN files,
           files[p].status \in {"merged", "rejected"}
    PROVE  /\ p \in DOMAIN files'
           /\ files'[p].status = files[p].status
           /\ files'[p] # files[p] =>
                 \E w \in Workers : /\ req[w].pc = "replacing"
                                    /\ NewPlace(req[w].at, req[w].to) = p
                                    /\ files[p] \notin req[w].there
  <1>1. Filed(p, files[p].status) /\ p[1] \in {"merged", "rejected"}
    BY DEF StoreInv, Filed
  <1>2. CASE Elsewhere
    BY <1>2 DEF Elsewhere
  <1>3. ASSUME NEW w \in Workers, WriteFile(w)
        PROVE  p \in DOMAIN files' /\ files'[p] = files[p]
    <2>1. PICK q \in Places, d \in Drafts :
            q[1] = "root" /\ files' = Put(files, q, NewDoc(d))
      BY <1>3, WriteFileFacts
    <2>2. QED
      BY <1>1, <2>1 DEF Put
  <1>4. ASSUME NEW w \in Workers, Replace(w)
        PROVE  /\ p \in DOMAIN files'
               /\ files'[p].status = files[p].status
               /\ files'[p] # files[p] => /\ req[w].pc = "replacing"
                                          /\ NewPlace(req[w].at, req[w].to) = p
                                          /\ files[p] \notin req[w].there
    <2>1. PICK r \in Requests, d \in Drafts, dest \in Places, doc \in Doc :
             Replaces(w, r, d, dest, doc)
      BY <1>4, ReplaceFacts
    <2>2. /\ r = req[w] /\ r.pc = "replacing" /\ Sound(r)
          /\ dest = NewPlace(r.at, r.to) /\ doc.status = r.to /\ Filed(dest, r.to)
          /\ files' = Put(files, dest, doc)
      BY <2>1 DEF Replaces
    <2>3. CASE dest # p
      BY <2>2, <2>3 DEF Put
    <2>4. CASE dest = p
      <3>1. p \in DOMAIN files' /\ files'[p] = doc
        BY <2>2, <2>4 DEF Put
      <3>2. r.to = files[p].status
        BY <1>1, <2>2, <2>4 DEF Filed
      <3>3. dest # r.at
        <4>1. <<r.doc.status, r.to>> \in LegalTransitions /\ Filed(r.at, r.doc.status)
          BY <2>2 DEF Sound
        <4>2. QED
          BY <1>1, <2>4, <4>1 DEF LegalTransitions, Filed
      <3>4. r.there = {}
        BY <2>2, <3>3 DEF Sound
      <3>5. QED
        BY <2>2, <2>4, <3>1, <3>2, <3>4
    <2>5. QED
      BY <2>3, <2>4
  <1>5. ASSUME NEW w \in Workers, Unlink(w)
        PROVE  p \in DOMAIN files' /\ files'[p] = files[p]
    <2>1. PICK r \in Requests, d \in Drafts : Unlinks(w, r, d)
      BY <1>5, UnlinkFacts
    <2>2. /\ r.pc = "unlinking" /\ Sound(r)
          /\ files' = files \/ files' = Remove(files, r.at)
      BY <2>1 DEF Unlinks
    <2>3. <<r.doc.status, r.to>> \in LegalTransitions /\ Filed(r.at, r.doc.status)
      BY <2>2 DEF Sound
    <2>4. r.at # p
      BY <1>1, <2>3 DEF LegalTransitions, Filed
    <2>5. QED
      BY <2>2, <2>4 DEF Remove
  <1>6. QED
    BY <1>2, <1>3, <1>4, <1>5, FileSteps

\* What is merged or rejected is final, for any number of requests at a time.
THEOREM FinalIsFinal == Spec => FinalFilesKept
  <1>1. StoreInv /\ [Next]_storeVars =>
          [\A p \in DOMAIN files :
              files[p].status \in {"merged", "rejected"} =>
                 /\ p \in DOMAIN files'
                 /\ files'[p].status = files[p].status
                 /\ files'[p] # files[p] =>
                       \E w \in Workers : /\ req[w].pc = "replacing"
                                          /\ NewPlace(req[w].at, req[w].to) = p
                                          /\ files[p] \notin req[w].there]_storeVars
    BY FinalStep
  <1>2. QED
    BY <1>1, StoreInit, StoreStep, PTL DEF Spec, FinalFilesKept

-----------------------------------------------------------------------------
\* No proposal is lost

\* The way a proposal goes through the directories
Higher(q, p) ==
    \/ p[1] = "root" /\ q[1] # "root"
    \/ p[1] = "PENDING_REVIEW" /\ q[1] \in {"merged", "rejected"}

\* A request about to unlink has left its proposal a file further on, unless
\* requests for other drafts hit the proposal.
KeptInv ==
    /\ StoreInv
    /\ NoProposalLost
    /\ \A w \in Workers, d \in Drafts \ overwritten :
          req[w].pc = "unlinking" /\ req[w].doc.draft = d =>
             \E q \in FilesOf(d) : Higher(q, req[w].at)

\* Who is about to unlink or to move a report, has written or unlinked a file
\* in this step or is where it was.
LEMMA RequestsFollow ==
    ASSUME StoreInv, [Next]_storeVars, NEW v \in Workers
    PROVE  \/ req'[v] = req[v]
           \/ Replace(v)
           \/ Unlink(v)
           \/ req'[v].pc \notin {"unlinking", "filing"}
  <1>1. ASSUME NEW w \in Workers, NEW r, Step(w, r), v # w
        PROVE  req'[v] = req[v]
    BY <1>1 DEF Step, StoreInv, TypeOK
  <1>2. ASSUME NEW r, Step(v, r) PROVE req'[v] = r
    BY <1>2 DEF Step, StoreInv, TypeOK
  <1>3. ASSUME NEW w \in Workers, v # w,
               \/ \E d \in Drafts : WriteStart(w, d)
               \/ WriteFile(w) \/ Transition(w) \/ Validation(w) \/ Crash(w)
        PROVE  req'[v] = req[v]
    BY <1>1, <1>3 DEF WriteStart, WriteFile, Transition, TransitionStart, Read, Proceed,
          Replace, Unlink, Validation, ValidateStart, ValidateStop, WriteReport,
          FileReport, Crash
  <1>4. CASE \/ \E d \in Drafts : WriteStart(v, d)
             \/ \E name \in Names, status \in Statuses : TransitionStart(v, name, status)
             \/ \E name \in Names, auto \in BOOLEAN : ValidateStart(v, name, auto)
    <2>1. \A d \in Drafts : WriteStart(v, d) =>
             \E r : Step(v, r) /\ r.pc \in {"creating", "resolved", "running"}
      BY DEF WriteStart
    <2>2. \A name \in Names, status \in Statuses : TransitionStart(v, name, status) =>
             \E r : Step(v, r) /\ r.pc \in {"creating", "resolved", "running"}
      BY DEF TransitionStart
    <2>3. \A name \in Names, auto \in BOOLEAN : ValidateStart(v, name, auto) =>
             \E r : Step(v, r) /\ r.pc \in {"creating", "resolved", "running"}
      BY DEF ValidateStart
    <2>4. PICK r : Step(v, r) /\ r.pc \in {"creating", "resolved", "running"}
      BY <1>4, <2>1, <2>2, <2>3
    <2>5. QED
      BY <1>2, <2>4
  <1>5. CASE \/ WriteFile(v) \/ Read(v) \/ ValidateStop(v) \/ FileReport(v) \/ Crash(v)
             \/ \E verdict \in {"pass", "fail"} : WriteReport(v, verdict)
    <2>1. PICK r : Step(v, r) /\ r.pc \in {"idle", "replacing", "resolved"}
      BY <1>5 DEF WriteFile, Read, Proceed, ValidateStop, FileReport, Crash, WriteReport, Idle
    <2>2. QED
      BY <1>2, <2>1
  <1>6. CASE UNCHANGED storeVars
    BY <1>6 DEF storeVars
  <1>7. QED
    BY <1>3, <1>4, <1>5, <1>6 DEF Next, Transition, Validation

\* The draft a step of Replace, Unlink or WriteFile works for
WorksFor(w, d) ==
    \/ WriteFile(w) /\ req[w].draft = d
    \/ (Replace(w) \/ Unlink(w)) /\ req[w].doc.draft = d

\* The files of a proposal that the requests for others do not hit stay.
LEMMA OthersSpared ==
    ASSUME StoreInv, NEW w \in Workers, NEW d \in Drafts, WorksFor(w, d),
           NEW e, e # d, e \notin overwritten'
    PROVE  /\ FilesOf(e)' = FilesOf(e)
           /\ \A p \in FilesOf(e) : files'[p] = files[p]
  <1>1. SUFFICES \A p :
                    /\ p \in DOMAIN files /\ files[p].draft = e =>
                          p \in DOMAIN files' /\ files'[p] = files[p]
                    /\ p \in DOMAIN files' /\ files'[p].draft = e =>
                          p \in DOMAIN files /\ files'[p] = files[p]
    BY DEF FilesOf
  <1>2. CASE WriteFile(w) /\ req[w].draft = d
    <2>1. PICK q \in Places, c \in Drafts :
              /\ req[w].draft = c /\ files' = Put(files, q, NewDoc(c))
              /\ overwritten' = overwritten \cup Others(q, c)
              /\ NewDoc(c).draft = c
      BY <1>2, WriteFileFacts
    <2>2. c = d
      BY <1>2, <2>1
    <2>3. q \in DOMAIN files => files[q].draft # e
      BY <2>1, <2>2 DEF Others, FileAt
    <2>4. QED
      BY <2>1, <2>2, <2>3 DEF Put
  <1>3. CASE Replace(w) /\ req[w].doc.draft = d
    <2>1. PICK r \in Requests, c \in Drafts, dest \in Places, doc \in Doc :
             Replaces(w, r, c, dest, doc)
      BY <1>3, ReplaceFacts
    <2>2. /\ c = d /\ doc.draft = d /\ files' = Put(files, dest, doc) /\ r.doc.draft = d
          /\ r.there = IF dest = r.at THEN {r.doc} ELSE {}
          /\ overwritten' = overwritten \cup (IF FileAt(dest) = r.there THEN {}
                                              ELSE Others(dest, d))
      BY <1>3, <2>1 DEF Replaces, Sound
    <2>3. dest \in DOMAIN files => files[dest].draft # e
      <3>1. SUFFICES ASSUME dest \in DOMAIN files, files[dest].draft = e PROVE FALSE
        OBVIOUS
      <3>2. FileAt(dest) = {files[dest]}
        BY <3>1 DEF FileAt
      <3>3. FileAt(dest) # r.there
        BY <2>2, <3>1, <3>2
      <3>4. QED
        BY <2>2, <3>1, <3>2, <3>3 DEF Others
    <2>4. QED
      BY <2>2, <2>3 DEF Put
  <1>4. CASE Unlink(w) /\ req[w].doc.draft = d
    <2>1. PICK r \in Requests, c \in Drafts : Unlinks(w, r, c)
      BY <1>4, UnlinkFacts
    <2>2. /\ c = d /\ (files' = files \/ files' = Remove(files, r.at))
          /\ overwritten' = overwritten \cup Others(r.at, d)
      BY <1>4, <2>1 DEF Unlinks
    <2>3. r.at \in DOMAIN files => files[r.at].draft # e
      BY <2>2 DEF Others, FileAt
    <2>4. QED
      BY <2>2, <2>3 DEF Remove
  <1>5. QED
    BY <1>2, <1>3, <1>4 DEF WorksFor

\* A transition that leaves a place goes further on.
LEMMA NextIsHigher ==
    ASSUME NEW p \in Places, NEW from, NEW to,
           <<from, to>> \in LegalTransitions, Filed(p, from), NewPlace(p, to) # p
    PROVE  Higher(NewPlace(p, to), p)
  <1>1. NewPlace(p, to) = <<SinkDir(to), p[2]>> /\ p = <<p[1], p[2]>>
    BY DEF NewPlace, Places
  <1>2. NewPlace(p, to)[1] = SinkDir(to) /\ SinkDir(to) # p[1]
    BY <1>1
  <1>3. QED
    BY <1>2 DEF LegalTransitions, Filed, Higher, SinkDir

\* The step of a request changes no other.
LEMMA StepAlone ==
    ASSUME StoreInv, NEW w \in Workers, NEW r, Step(w, r)
    PROVE  req'[w] = r /\ \A v \in Workers : v # w => req'[v] = req[v]
  BY DEF Step, StoreInv, TypeOK

\* A proposal whose files no step of another takes away has a file, and a file
\* further on where a request is about to unlink.
LEMMA KeptFor ==
    ASSUME KeptInv, NEW w \in Workers, NEW d \in Drafts, WorksFor(w, d),
           NEW e \in Drafts, e # d, e \notin overwritten'
    PROVE  /\ e \in written' => FilesOf(e)' # {}
           /\ \A v \in Workers :
                 req'[v].pc = "unlinking" /\ req'[v].doc.draft = e =>
                    \E q \in FilesOf(e)' : Higher(q, req'[v].at)
  <1>1. StoreInv /\ FilesOf(e)' = FilesOf(e)
    BY OthersSpared DEF KeptInv
  <1>2. /\ overwritten \subseteq overwritten'
        /\ written' \subseteq written \cup {d}
        /\ \A v \in Workers :
              \/ req'[v] = req[v]
              \/ req'[v].pc = "unlinking" => req'[v].doc.draft = d
    <2>1. CASE WriteFile(w) /\ req[w].draft = d
      <3>1. req'[w] = Idle /\ \A v \in Workers : v # w => req'[v] = req[v]
        BY <1>1, <2>1, StepAlone DEF WriteFile
      <3>2. QED
        BY <2>1, <3>1 DEF WriteFile, Idle
    <2>2. CASE Replace(w) /\ req[w].doc.draft = d
      <3>1. PICK r \in Requests, c \in Drafts, dest \in Places, doc \in Doc :
               Replaces(w, r, c, dest, doc)
        BY <1>1, <2>2, ReplaceFacts
      <3>2. /\ r.doc.draft = d /\ UNCHANGED written /\ overwritten \subseteq overwritten'
            /\ Step(w, IF dest = r.at THEN Idle
                       ELSE [pc |-> "unlinking", at |-> r.at, to |-> r.to,
                             judged |-> r.judged, doc |-> r.doc])
        BY <2>2, <3>1 DEF Replaces
      <3>3. /\ req'[w] = IF dest = r.at THEN Idle
                         ELSE [pc |-> "unlinking", at |-> r.at, to |-> r.to,
                               judged |-> r.judged, doc |-> r.doc]
            /\ \A v \in Workers : v # w => req'[v] = req[v]
        BY <1>1, <3>2, StepAlone
      <3>4. QED
        BY <3>2, <3>3 DEF Idle
    <2>3. CASE Unlink(w) /\ req[w].doc.draft = d
      <3>1. PICK r : Step(w, r) /\ r.pc # "unlinking"
        BY <2>3 DEF Unlink, Idle
      <3>2. req'[w] = r /\ \A v \in Workers : v # w => req'[v] = req[v]
        BY <1>1, <3>1, StepAlone
      <3>3. QED
        BY <2>3, <3>1, <3>2 DEF Unlink
    <2>4. QED
      BY <2>1, <2>2, <2>3 DEF WorksFor
  <1>3. QED
    BY <1>1, <1>2 DEF KeptInv, NoProposalLost

\* The proposal a step works for.
LEMMA WorksForOne ==
    ASSUME StoreInv, NEW w \in Workers, WriteFile(w) \/ Replace(w) \/ Unlink(w)
    PROVE  \E d \in Drafts : WorksFor(w, d)
  <1>1. CASE WriteFile(w)
    BY <1>1, WriteFileFacts DEF WorksFor
  <1>2. CASE Replace(w)
    <2>1. PICK r \in Requests, d \in Drafts, dest \in Places, doc \in Doc :
             Replaces(w, r, d, dest, doc)
      BY <1>2, ReplaceFacts
    <2>2. QED
      BY <1>2, <2>1 DEF WorksFor, Replaces
  <1>3. CASE Unlink(w)
    <2>1. PICK r \in Requests, d \in Drafts : Unlinks(w, r, d)
      BY <1>3, UnlinkFacts
    <2>2. QED
      BY <1>3, <2>1 DEF WorksFor, Unlinks
  <1>4. QED
    BY <1>1, <1>2, <1>3

\* So does the proposal the step works for: it gets its file, or its next
\* version, or loses the file another one has replaced.
LEMMA KeptOwn ==
    ASSUME KeptInv, NEW w \in Workers, NEW d \in Drafts, WorksFor(w, d)
    PROVE  /\ d \in written' /\ d \notin overwritten' => FilesOf(d)' # {}
           /\ \A v \in Workers :
                 /\ d \notin overwritten'
                 /\ req'[v].pc = "unlinking"
                 /\ req'[v].doc.draft = d
                 => \E q \in FilesOf(d)' : Higher(q, req'[v].at)
  <1>1. StoreInv
    BY DEF KeptInv
  <1>2. SUFFICES ASSUME d \notin overwritten'
                 PROVE  /\ d \in written' => FilesOf(d)' # {}
                        /\ \A v \in Workers :
                              req'[v].pc = "unlinking" /\ req'[v].doc.draft = d =>
                                 \E q \in FilesOf(d)' : Higher(q, req'[v].at)
    OBVIOUS
  <1>3. CASE WriteFile(w) /\ req[w].draft = d
    <2>1. PICK p \in Places, c \in Drafts :
              /\ req[w].draft = c /\ files' = Put(files, p, NewDoc(c))
              /\ overwritten' = overwritten \cup Others(p, c)
              /\ NewDoc(c).draft = c /\ Step(w, Idle)
      BY <1>1, <1>3, WriteFileFacts
    <2>2. c = d
      BY <1>3, <2>1
    <2>3. p \in FilesOf(d)' /\ FilesOf(d) \subseteq FilesOf(d)'
      BY <2>1, <2>2 DEF Put, FilesOf
    <2>4. req'[w] = Idle /\ \A v \in Workers : v # w => req'[v] = req[v]
      BY <1>1, <2>1, StepAlone
    <2>5. ASSUME NEW v \in Workers, req'[v].pc = "unlinking", req'[v].doc.draft = d
          PROVE  \E q \in FilesOf(d)' : Higher(q, req'[v].at)
      <3>1. v # w /\ req'[v] = req[v]
        BY <2>4, <2>5 DEF Idle
      <3>2. d \notin overwritten
        BY <1>2, <2>1
      <3>3. QED
        BY <2>3, <2>5, <3>1, <3>2 DEF KeptInv
    <2>6. QED
      BY <2>3, <2>5
  <1>4. CASE Replace(w) /\ req[w].doc.draft = d
    <2>1. PICK r \in Requests, c \in Drafts, dest \in Places, doc \in Doc :
             Replaces(w, r, c, dest, doc)
      BY <1>1, <1>4, ReplaceFacts
    <2> DEFINE moved == [pc |-> "unlinking", at |-> r.at, to |-> r.to,
                         judged |-> r.judged, doc |-> r.doc]
    <2>2. /\ r = req[w] /\ r.pc = "replacing" /\ Sound(r) /\ r.at \in Places
          /\ doc.draft = d /\ files' = Put(files, dest, doc)
          /\ dest = NewPlace(r.at, r.to)
          /\ overwritten \subseteq overwritten'
          /\ Step(w, IF dest = r.at THEN Idle ELSE moved)
      BY <1>4, <2>1 DEF Replaces
    <2>3. dest \in FilesOf(d)' /\ FilesOf(d) \subseteq FilesOf(d)'
      BY <2>2 DEF Put, FilesOf
    <2>4. /\ req'[w] = IF dest = r.at THEN Idle ELSE moved
          /\ \A v \in Workers : v # w => req'[v] = req[v]
      BY <1>1, <2>2, StepAlone
    <2>5. ASSUME NEW v \in Workers, req'[v].pc = "unlinking", req'[v].doc.draft = d
          PROVE  \E q \in FilesOf(d)' : Higher(q, req'[v].at)
      <3>1. CASE v = w
        <4>1. dest # r.at /\ req'[v].at = r.at
          BY <2>4, <2>5, <3>1 DEF Idle
        <4>2. <<r.doc.status, r.to>> \in LegalTransitions /\ Filed(r.at, r.doc.status)
          BY <2>2 DEF Sound
        <4>3. Higher(dest, r.at)
          BY <2>2, <4>1, <4>2, NextIsHigher
        <4>4. QED
          BY <2>3, <4>1, <4>3
      <3>2. CASE v # w
        <4>1. req'[v] = req[v] /\ d \notin overwritten
          BY <1>2, <2>2, <2>4, <3>2
        <4>2. QED
          BY <2>3, <2>5, <4>1 DEF KeptInv
      <3>3. QED
        BY <3>1, <3>2
    <2>6. QED
      BY <2>3, <2>5
  <1>5. CASE Unlink(w) /\ req[w].doc.draft = d
    <2>1. PICK r \in Requests, c \in Drafts : Unlinks(w, r, c)
      BY <1>1, <1>5, UnlinkFacts
    <2>2. /\ r = req[w] /\ r.pc = "unlinking" /\ r.doc.draft = d
          /\ overwritten \subseteq overwritten' /\ written' = written
          /\ files' = files \/ files' = Remove(files, r.at)
      BY <1>5, <2>1 DEF Unlinks
    <2>3. \A q \in FilesOf(d) : q # r.at => q \in FilesOf(d)'
      BY <2>2 DEF Remove, FilesOf
    <2>4. PICK next : Step(w, next) /\ next.pc # "unlinking"
      BY <1>5 DEF Unlink, Idle
    <2>5. req'[w] = next /\ \A v \in Workers : v # w => req'[v] = req[v]
      BY <1>1, <2>4, StepAlone
    <2>6. PICK last \in FilesOf(d) : Higher(last, r.at)
      BY <1>2, <2>2 DEF KeptInv
    <2>7. last # r.at /\ last \in FilesOf(d)'
      BY <2>3, <2>6 DEF Higher
    <2>8. ASSUME NEW v \in Workers, req'[v].pc = "unlinking", req'[v].doc.draft = d
          PROVE  \E q \in FilesOf(d)' : Higher(q, req'[v].at)
      <3>1. v # w /\ req'[v] = req[v]
        BY <2>4, <2>5, <2>8
      <3>2. PICK q \in FilesOf(d) : Higher(q, req[v].at)
        BY <1>2, <2>2, <2>8, <3>1 DEF KeptInv
      <3>3. CASE q # r.at
        BY <2>3, <3>1, <3>2, <3>3
      <3>4. CASE q = r.at
        <4>1. Higher(last, req[v].at)
          BY <2>6, <3>2, <3>4 DEF Higher
        <4>2. QED
          BY <2>7, <3>1, <4>1
      <3>5. QED
        BY <3>3, <3>4
    <2>9. QED
      BY <2>7, <2>8
  <1>6. QED
    BY <1>3, <1>4, <1>5 DEF WorksFor

\* Whatever requests do, the proposals they do not hit by mistake are kept.
LEMMA KeptStep ==
    ASSUME KeptInv, [Next]_storeVars
    PROVE  KeptInv'
  <1>1. StoreInv /\ StoreInv'
    BY StoreStep DEF KeptInv
  <1>2. CASE ~ \E w \in Workers : WriteFile(w) \/ Replace(w) \/ Unlink(w)
    <2>1. Elsewhere
      BY <1>2, FileSteps
    <2>2. \A d : FilesOf(d)' = FilesOf(d)
      BY <2>1 DEF Elsewhere, FilesOf
    <2>3. NoProposalLost'
      BY <2>1, <2>2 DEF Elsewhere, NoProposalLost, KeptInv
    <2>4. ASSUME NEW v \in Workers, NEW d \in Drafts, d \notin overwritten',
                 req'[v].pc = "unlinking", req'[v].doc.draft = d
          PROVE  \E q \in FilesOf(d)' : Higher(q, req'[v].at)
      <3>1. req'[v] = req[v]
        BY <1>1, <1>2, <2>4, RequestsFollow
      <3>2. \E q \in FilesOf(d) : Higher(q, req[v].at)
        BY <2>1, <2>4, <3>1 DEF Elsewhere, KeptInv
      <3>3. QED
        BY <2>2, <3>1, <3>2
    <2>5. QED
      BY <1>1, <2>3, <2>4 DEF KeptInv
  <1>3. ASSUME NEW w \in Workers, WriteFile(w) \/ Replace(w) \/ Unlink(w)
        PROVE  KeptInv'
    <2>1. PICK d \in Drafts : WorksFor(w, d)
      BY <1>1, <1>3, WorksForOne
    <2>2. /\ d \in written' /\ d \notin overwritten' => FilesOf(d)' # {}
          /\ \A v \in Workers :
                /\ d \notin overwritten'
                /\ req'[v].pc = "unlinking"
                /\ req'[v].doc.draft = d
                => \E q \in FilesOf(d)' : Higher(q, req'[v].at)
      BY <2>1, KeptOwn
    <2>3. ASSUME NEW e \in Drafts, e \notin overwritten'
          PROVE  /\ e \in written' => FilesOf(e)' # {}
                 /\ \A v \in Workers :
                       req'[v].pc = "unlinking" /\ req'[v].doc.draft = e =>
                          \E q \in FilesOf(e)' : Higher(q, req'[v].at)
      <3>1. CASE e = d
        BY <2>2, <2>3, <3>1
      <3>2. CASE e # d
        BY <2>1, <2>3, <3>2, KeptFor
      <3>3. QED
        BY <3>1, <3>2
    <2>4. written' \subseteq Drafts
      BY <1>1 DEF StoreInv, TypeOK
    <2>5. QED
      BY <1>1, <2>3, <2>4 DEF KeptInv, NoProposalLost
  <1>4. QED
    BY <1>2, <1>3

\* A proposal that was written has a file for good, unless a request for another
\* proposal of its name hit that file without having seen it.
THEOREM ProposalsKept == Spec => []NoProposalLost
  <1>1. Init => KeptInv
    BY StoreInit, IdleRequest DEF Init, KeptInv, NoProposalLost
  <1>2. KeptInv => NoProposalLost
    BY DEF KeptInv
  <1>3. QED
    BY <1>1, <1>2, KeptStep, PTL DEF Spec

-----------------------------------------------------------------------------
\* Drafts and requests

\* Whatever a request deals with has been written, but for what it creates.
Known(r, ws) ==
    /\ r.pc = "creating" => r.draft \notin ws
    /\ r.pc = "running" => r.draft \in ws
    /\ r.pc \in {"replacing", "unlinking"} => r.doc.draft \in ws
    /\ r.pc \in {"resolved", "replacing", "unlinking", "filing"} =>
          \A report \in r.judged : report.draft \in ws

BornInv ==
    /\ KeptInv
    /\ \A p \in DOMAIN files : files[p].draft \in written
    /\ \A w \in Workers : Known(req[w], written)
    /\ \A v, w \in Workers :
          /\ req[v].pc = "creating" /\ req[w].pc = "creating"
          /\ req[v].draft = req[w].draft
          => v = w

\* Nothing is written for the first time.
LEMMA BornClose ==
    ASSUME BornInv, KeptInv', NEW w \in Workers, NEW r, Step(w, r), Known(r, written),
           r.pc = "creating" =>
              \A v \in Workers : req[v].pc = "creating" => req[v].draft # r.draft,
           written' = written, \A p \in DOMAIN files' : files'[p].draft \in written
    PROVE  BornInv'
  <1>1. req'[w] = r /\ \A v \in Workers : v # w => req'[v] = req[v]
    BY StepAlone DEF BornInv, KeptInv
  <1>2. ASSUME NEW v \in Workers PROVE Known(req'[v], written')
    BY <1>1 DEF BornInv
  <1>3. ASSUME NEW u \in Workers, NEW v \in Workers,
               req'[u].pc = "creating", req'[v].pc = "creating",
               req'[u].draft = req'[v].draft
        PROVE  u = v
    BY <1>1, <1>3 DEF BornInv
  <1>4. QED
    BY <1>2, <1>3 DEF BornInv

LEMMA BornStep ==
    ASSUME BornInv, [Next]_storeVars
    PROVE  BornInv'
  <1>1. /\ KeptInv /\ StoreInv /\ KeptInv' /\ TypeOK
        /\ \A p \in DOMAIN files : files[p].draft \in written
        /\ \A w \in Workers : Known(req[w], written)
    BY KeptStep DEF BornInv, KeptInv, StoreInv
  <1>2. Known(Idle, written) /\ Idle.pc = "idle"
    BY DEF Known, Idle
  <1>3. ASSUME NEW w \in Workers, NEW d \in Drafts, WriteStart(w, d)
        PROVE  BornInv'
    <2>1. PICK r : Step(w, r) /\ r.pc = "creating" /\ r.draft = d
      BY <1>3 DEF WriteStart
    <2>2. Known(r, written)
      BY <1>3, <2>1 DEF WriteStart, Known
    <2>3. QED
      BY <1>1, <1>3, <2>1, <2>2, BornClose DEF WriteStart
  <1>4. ASSUME NEW w \in Workers, WriteFile(w)
        PROVE  BornInv'
    <2>1. PICK p \in Places, d \in Drafts :
              /\ req[w].pc = "creating" /\ req[w].draft = d
              /\ files' = Put(files, p, NewDoc(d)) /\ NewDoc(d).draft = d
              /\ written' = written \cup {d} /\ Step(w, Idle)
      BY <1>1, <1>4, WriteFileFacts
    <2>2. req'[w] = Idle /\ \A v \in Workers : v # w => req'[v] = req[v]
      BY <1>1, <2>1, StepAlone
    <2>3. \A q \in DOMAIN files' : files'[q].draft \in written'
      BY <1>1, <2>1 DEF Put
    <2>4. ASSUME NEW v \in Workers PROVE Known(req'[v], written')
      <3>1. CASE v = w
        BY <2>2, <3>1 DEF Known, Idle
      <3>2. CASE v # w
        <4>1. Known(req[v], written) /\ req'[v] = req[v]
          BY <1>1, <2>2, <3>2
        <4>2. req[v].pc = "creating" => req[v].draft # d
          BY <2>1, <3>2 DEF BornInv
        <4>3. QED
          BY <2>1, <4>1, <4>2 DEF Known
      <3>3. QED
        BY <3>1, <3>2
    <2>5. ASSUME NEW u \in Workers, NEW v \in Workers,
                 req'[u].pc = "creating", req'[v].pc = "creating",
                 req'[u].draft = req'[v].draft
          PROVE  u = v
      BY <1>2, <2>2, <2>5 DEF BornInv
    <2>6. QED
      BY <1>1, <2>3, <2>4, <2>5 DEF BornInv
  <1>5. ASSUME NEW w \in Workers, NEW name \in Names, NEW status \in Statuses,
               TransitionStart(w, name, status)
        PROVE  BornInv'
    <2>1. PICK r : Step(w, r) /\ r.pc = "resolved" /\ r.judged = {}
      BY <1>5 DEF TransitionStart
    <2>2. Known(r, written)
      BY <2>1 DEF Known
    <2>3. QED
      BY <1>1, <1>5, <2>1, <2>2, BornClose DEF TransitionStart
  <1>6. ASSUME NEW w \in Workers, Read(w)
        PROVE  BornInv'
    <2>1. PICK r : r = req[w] /\ r.pc = "resolved"
      BY <1>6 DEF Read
    <2> DEFINE next == [pc |-> "replacing", at |-> r.at, to |-> r.to,
                        judged |-> r.judged, doc |-> files[r.at],
                        there |-> FileAt(NewPlace(r.at, r.to))]
    <2>2. /\ Step(w, Idle) \/ (Step(w, next) /\ r.at \in DOMAIN files)
          /\ UNCHANGED <<files, written>>
      BY <1>6, <2>1 DEF Read, Proceed, Legal, Exists
    <2>3. r.at \in DOMAIN files => Known(next, written)
      <3>1. /\ next.pc = "replacing" /\ next.doc = files[r.at] /\ next.judged = r.judged
        OBVIOUS
      <3>2. \A report \in r.judged : report.draft \in written
        BY <1>1, <2>1 DEF Known
      <3> HIDE DEF next
      <3>3. QED
        BY <1>1, <3>1, <3>2 DEF Known
    <2>4. next.pc = "replacing"
      OBVIOUS
    <2> HIDE DEF next
    <2>5. QED
      BY <1>1, <1>2, <2>2, <2>3, <2>4, BornClose
  <1>7. ASSUME NEW w \in Workers, Replace(w)
        PROVE  BornInv'
    <2>1. PICK r \in Requests, d \in Drafts, dest \in Places, doc \in Doc :
             Replaces(w, r, d, dest, doc)
      BY <1>1, <1>7, ReplaceFacts
    <2> DEFINE moved == [pc |-> "unlinking", at |-> r.at, to |-> r.to,
                         judged |-> r.judged, doc |-> r.doc]
    <2>2. /\ r = req[w] /\ r.pc = "replacing" /\ r.doc.draft = d /\ doc.draft = d
          /\ files' = Put(files, dest, doc) /\ written' = written
          /\ Step(w, Idle) \/ Step(w, moved)
      BY <2>1 DEF Replaces
    <2>3. Known(r, written) /\ d \in written
      BY <1>1, <2>2 DEF Known
    <2>4. \A q \in DOMAIN files' : files'[q].draft \in written
      BY <1>1, <2>2, <2>3 DEF Put
    <2>5. moved.pc = "unlinking" /\ moved.doc = r.doc /\ moved.judged = r.judged
      OBVIOUS
    <2> HIDE DEF moved
    <2>6. Known(moved, written)
      BY <2>2, <2>3, <2>5 DEF Known
    <2>7. QED
      BY <1>1, <1>2, <2>2, <2>4, <2>5, <2>6, BornClose
  <1>8. ASSUME NEW w \in Workers, Unlink(w)
        PROVE  BornInv'
    <2>1. PICK r \in Requests, d \in Drafts : Unlinks(w, r, d)
      BY <1>1, <1>8, UnlinkFacts
    <2> DEFINE next == [pc |-> "filing", at |-> r.at, to |-> r.to, judged |-> r.judged]
    <2>2. /\ r = req[w] /\ r.pc = "unlinking"
          /\ files' = files \/ files' = Remove(files, r.at)
          /\ written' = written
          /\ Step(w, Idle) \/ Step(w, next)
      BY <2>1 DEF Unlinks
    <2>3. Known(r, written)
      BY <1>1, <2>2
    <2>4. \A q \in DOMAIN files' : files'[q].draft \in written
      BY <1>1, <2>2 DEF Remove
    <2>5. next.pc = "filing" /\ next.judged = r.judged
      OBVIOUS
    <2> HIDE DEF next
    <2>6. Known(next, written)
      BY <2>2, <2>3, <2>5 DEF Known
    <2>7. QED
      BY <1>1, <1>2, <2>2, <2>4, <2>5, <2>6, BornClose
  <1>9. ASSUME NEW w \in Workers, NEW name \in Names, NEW auto \in BOOLEAN,
               ValidateStart(w, name, auto)
        PROVE  BornInv'
    <2>1. PICK r : /\ Step(w, r) /\ r.pc = "running"
                   /\ \E p \in DOMAIN files : r.draft = files[p].draft
      BY <1>9 DEF ValidateStart, Resolves, Exists
    <2>2. Known(r, written)
      BY <1>1, <2>1 DEF Known
    <2>3. QED
      BY <1>1, <1>9, <2>1, <2>2, BornClose DEF ValidateStart
  <1>10. ASSUME NEW w \in Workers, NEW verdict \in {"pass", "fail"},
                WriteReport(w, verdict)
         PROVE  BornInv'
    <2>1. PICK d : d = req[w].draft /\ d \in written
      BY <1>1, <1>10 DEF WriteReport, Known
    <2>2. PICK r : /\ Step(w, r)
                   /\ \/ r = Idle
                      \/ /\ r.pc = "resolved"
                         /\ r.judged = {[draft |-> d, verdict |-> verdict]}
      BY <1>10, <2>1 DEF WriteReport
    <2>3. Known(r, written) /\ r.pc # "creating"
      BY <1>2, <2>1, <2>2 DEF Known
    <2>4. QED
      BY <1>1, <1>10, <2>2, <2>3, BornClose DEF WriteReport
  <1>11. ASSUME NEW w \in Workers, ValidateStop(w) \/ FileReport(w) \/ Crash(w)
         PROVE  BornInv'
    <2>1. Step(w, Idle) /\ UNCHANGED <<files, written>>
      BY <1>11 DEF ValidateStop, FileReport, Crash
    <2>2. QED
      BY <1>1, <1>2, <2>1, BornClose
  <1>12. CASE UNCHANGED storeVars
    <2>1. UNCHANGED <<files, written, req>>
      BY <1>12 DEF storeVars
    <2>2. QED
      BY <1>1, <2>1 DEF BornInv
  <1>13. QED
    BY <1>3, <1>4, <1>5, <1>6, <1>7, <1>8, <1>9, <1>10, <1>11, <1>12
       DEF Next, Transition, Validation


-----------------------------------------------------------------------------
\* One place, and the verdict beside it

Moving(w, d) == req[w].pc = "unlinking" /\ req[w].doc.draft = d

\* A proposal is in one place, or one request has its next version in another
\* and has to remove the last one.
Single(d) ==
    \/ /\ \A p, q \in FilesOf(d) : p = q
       /\ \A w \in Workers : ~Moving(w, d)
    \/ \E w \in Workers, at, dest \in Places :
          /\ Moving(w, d)
          /\ \A v \in Workers : Moving(v, d) => v = w
          /\ at = req[w].at /\ dest = NewPlace(at, req[w].to) /\ at # dest
          /\ FilesOf(d) = {at, dest}
          /\ Len(files[dest].log) = Len(files[at].log) + 1

\* A version the validator has written, and the verdict it calls for
Due(doc) == doc.log # <<>> /\ doc.log[Len(doc.log)].by = "validator"

VerdictOn(doc) ==
    [draft |-> doc.draft,
     verdict |-> IF doc.log[Len(doc.log)].to = "approved" THEN "pass" ELSE "fail"]

\* A request that has written it has still to bring the report.
Pending(w, p) ==
    /\ req[w].pc \in {"unlinking", "filing"}
    /\ NewPlace(req[w].at, req[w].to) = p
    /\ req[w].judged = {VerdictOn(files[p])}
    /\ req[w].pc = "unlinking" => req[w].doc.draft = files[p].draft

Reported(d) ==
    \A p \in FilesOf(d) :
        Due(files[p]) =>
            \/ p \in DOMAIN reports /\ reports[p] = VerdictOn(files[p])
            \/ \E w \in Workers : Pending(w, p)

CalmInv ==
    /\ BornInv
    /\ Calm => \A d \in Drafts \ Raced : Single(d) /\ Reported(d)

\* A step that is not about a proposal leaves it so.
LEMMA SingleStays ==
    ASSUME NEW e, Single(e),
           FilesOf(e)' = FilesOf(e), \A p \in FilesOf(e) : files'[p] = files[p],
           \A v \in Workers : \/ req'[v] = req[v]
                              \/ ~Moving(v, e) /\ ~Moving(v, e)'
    PROVE  Single(e)'
  <1>1. \A v \in Workers : /\ Moving(v, e)' <=> Moving(v, e)
                           /\ Moving(v, e) => req'[v] = req[v]
    BY DEF Moving
  <1>2. CASE /\ \A p, q \in FilesOf(e) : p = q
             /\ \A v \in Workers : ~Moving(v, e)
    <2>1. \A p, q \in FilesOf(e)' : p = q
      BY <1>2
    <2>2. QED
      BY <1>1, <1>2, <2>1 DEF Single
  <1>3. ASSUME NEW w \in Workers, NEW at \in Places, NEW dest \in Places,
               Moving(w, e), \A v \in Workers : Moving(v, e) => v = w,
               at = req[w].at, dest = NewPlace(at, req[w].to), at # dest,
               FilesOf(e) = {at, dest},
               Len(files[dest].log) = Len(files[at].log) + 1
        PROVE  Single(e)'
    <2>1. /\ Moving(w, e)' /\ \A v \in Workers : Moving(v, e)' => v = w
          /\ at = req'[w].at /\ dest = NewPlace(at, req'[w].to)
      BY <1>1, <1>3
    <2>2. files'[dest] = files[dest] /\ files'[at] = files[at]
      BY <1>3
    <2>3. FilesOf(e)' = {at, dest} /\ Len(files'[dest].log) = Len(files'[at].log) + 1
      BY <1>3, <2>2
    <2>4. QED
      BY <1>3, <2>1, <2>3 DEF Single, NewPlace
  <1>4. QED
    BY <1>2, <1>3 DEF Single

LEMMA ReportedStays ==
    ASSUME NEW e, Reported(e),
           FilesOf(e)' = FilesOf(e), \A p \in FilesOf(e) : files'[p] = files[p],
           \A p \in FilesOf(e) :
              Due(files[p]) /\ p \in DOMAIN reports =>
                 p \in DOMAIN reports' /\ reports'[p] = reports[p],
           \A v \in Workers : \/ req'[v] = req[v]
                              \/ \A p \in FilesOf(e) : ~Pending(v, p)
    PROVE  Reported(e)'
  <1>1. SUFFICES ASSUME NEW p \in FilesOf(e), Due(files[p])
                 PROVE  \/ p \in DOMAIN reports' /\ reports'[p] = VerdictOn(files[p])
                        \/ \E w \in Workers : Pending(w, p)'
    <2>1. \A p \in FilesOf(e) : /\ Due(files[p])' <=> Due(files[p])
                                /\ VerdictOn(files[p])' = VerdictOn(files[p])
      BY DEF Due, VerdictOn
    <2>2. QED
      BY <2>1 DEF Reported
  <1>2. CASE p \in DOMAIN reports /\ reports[p] = VerdictOn(files[p])
    BY <1>1, <1>2
  <1>3. CASE \E w \in Workers : Pending(w, p)
    <2>1. PICK w \in Workers : Pending(w, p)
      BY <1>3
    <2>2. req'[w] = req[w] /\ files'[p] = files[p]
      BY <1>1, <2>1
    <2>3. Pending(w, p)'
      BY <2>1, <2>2 DEF Pending, NewPlace, VerdictOn
    <2>4. QED
      BY <2>3
  <1>4. QED
    BY <1>1, <1>2, <1>3 DEF Reported

\* What the validator has written lies outside the root, in the directory its
\* verdict calls for.
LEMMA DueFacts ==
    ASSUME StoreInv, NEW p \in DOMAIN files, Due(files[p])
    PROVE  /\ files[p].status \in {"approved", "rejected"}
           /\ p[1] = SinkDir(files[p].status) /\ p[1] # "root"
           /\ files[p].status = Outcome(VerdictOn(files[p]).verdict)
           /\ VerdictOn(files[p]).draft = files[p].draft
  <1>1. PICK doc \in Doc : doc = files[p] /\ Story(doc) /\ Filed(p, doc.status)
    BY DEF StoreInv, TypeOK
  <1>2. doc.log \in Seq(Line) /\ doc.log # <<>>
    BY <1>1 DEF Due, Doc
  <1>3. Len(doc.log) \in DOMAIN doc.log
    BY <1>2, EmptySeq, LenProperties
  <1>4. doc.status = doc.log[Len(doc.log)].to /\ doc.status \in {"approved", "rejected"}
    BY <1>1, <1>2, <1>3 DEF Story, LegalStory, Due
  <1>5. p[1] = SinkDir(doc.status) /\ p[1] # "root"
    BY <1>1, <1>4 DEF Filed, SinkDir
  <1>6. doc.status = Outcome(VerdictOn(doc).verdict) /\ VerdictOn(doc).draft = doc.draft
    BY <1>4 DEF Outcome, VerdictOn
  <1>7. QED
    BY <1>1, <1>4, <1>5, <1>6

\* The proposal a step works for is in one place after it, or in two while the
\* request that works for it is to unlink.
LEMMA OwnSingle ==
    ASSUME BornInv, NEW w \in Workers, NEW d \in Drafts, WorksFor(w, d),
           d \notin Raced', d \notin Raced => Single(d)
    PROVE  Single(d)'
  <1>1. /\ StoreInv /\ d \notin Raced
        /\ \A p \in DOMAIN files : files[p].draft \in written
        /\ \A v \in Workers : Known(req[v], written)
    <2>1. overwritten \subseteq overwritten' /\ overtaken \subseteq overtaken'
      BY DEF WorksFor, WriteFile, Replace, Unlink
    <2>2. QED
      BY <2>1 DEF BornInv, KeptInv, Raced
  <1>2. CASE WriteFile(w) /\ req[w].draft = d
    <2>1. PICK p \in Places, c \in Drafts :
              /\ req[w].pc = "creating" /\ req[w].draft = c
              /\ files' = Put(files, p, NewDoc(c))
              /\ NewDoc(c).draft = c /\ Step(w, Idle)
      BY <1>1, <1>2, WriteFileFacts
    <2>2. c = d /\ d \notin written
      BY <1>1, <1>2, <2>1 DEF Known
    <2>3. FilesOf(d)' = {p}
      BY <1>1, <2>1, <2>2 DEF Put, FilesOf
    <2>4. req'[w] = Idle /\ \A v \in Workers : v # w => req'[v] = req[v]
      BY <1>1, <2>1, StepAlone
    <2>5. \A v \in Workers : ~Moving(v, d)'
      BY <1>1, <2>2, <2>4 DEF Moving, Known, Idle
    <2>6. QED
      BY <2>3, <2>5 DEF Single
  <1>3. CASE Replace(w) /\ req[w].doc.draft = d
    <2>1. PICK r \in Requests, c \in Drafts, dest \in Places, doc \in Doc :
             Replaces(w, r, c, dest, doc)
      BY <1>1, <1>3, ReplaceFacts
    <2> DEFINE moved == [pc |-> "unlinking", at |-> r.at, to |-> r.to,
                         judged |-> r.judged, doc |-> r.doc]
    <2>2. /\ r = req[w] /\ r.pc = "replacing" /\ r.at \in Places /\ c = d
          /\ doc.draft = d /\ files' = Put(files, dest, doc)
          /\ dest = NewPlace(r.at, r.to)
          /\ Len(doc.log) = Len(r.doc.log) + 1
          /\ Step(w, IF dest = r.at THEN Idle ELSE moved)
          /\ overtaken' = overtaken \cup
                (IF /\ FileAt(r.at) = {r.doc}
                    /\ FilesOf(d) = {r.at}
                    /\ \A report \in r.judged : report.draft = d
                 THEN {} ELSE {d})
      BY <1>3, <2>1 DEF Replaces
    <2>3. FileAt(r.at) = {r.doc} /\ FilesOf(d) = {r.at}
      BY <2>2 DEF Raced
    <2>4. r.at \in DOMAIN files /\ files[r.at] = r.doc
      BY <2>3 DEF FilesOf, FileAt
    <2>5. \A v \in Workers : ~Moving(v, d)
      BY <1>1, <2>3 DEF Single
    <2>6. /\ req'[w] = IF dest = r.at THEN Idle ELSE moved
          /\ \A v \in Workers : v # w => req'[v] = req[v]
      BY <1>1, <2>2, StepAlone
    <2>7. FilesOf(d)' = {r.at, dest}
      BY <2>2, <2>3 DEF Put, FilesOf
    <2>8. \A v \in Workers : Moving(v, d)' => v = w
      BY <2>5, <2>6 DEF Moving
    <2>9. CASE dest = r.at
      <3>1. ~Moving(w, d)'
        BY <2>6, <2>9 DEF Moving, Idle
      <3>2. QED
        BY <2>7, <2>8, <2>9, <3>1 DEF Single
    <2>10. CASE dest # r.at
      <3>1. req'[w] = moved /\ Moving(w, d)'
        BY <2>2, <2>6, <2>10, <1>3 DEF Moving
      <3>2. r.at = req'[w].at /\ dest = NewPlace(r.at, req'[w].to)
        BY <2>2, <3>1
      <3>3. Len(files'[dest].log) = Len(files'[r.at].log) + 1
        BY <2>2, <2>4, <2>10 DEF Put
      <3>4. QED
        BY <2>2, <2>7, <2>8, <2>10, <3>1, <3>2, <3>3 DEF Single, NewPlace
    <2>11. QED
      BY <2>9, <2>10
  <1>4. CASE Unlink(w) /\ req[w].doc.draft = d
    <2>1. PICK r \in Requests, c \in Drafts : Unlinks(w, r, c)
      BY <1>1, <1>4, UnlinkFacts
    <2>2. /\ r = req[w] /\ r.pc = "unlinking" /\ c = d
          /\ overtaken' = overtaken \cup (IF FileAt(r.at) = {r.doc} THEN {} ELSE {d})
          /\ \/ /\ Exists(r.at)
                /\ files' = Remove(files, r.at)
                /\ Step(w, IF r.judged = {} THEN Idle
                           ELSE [pc |-> "filing", at |-> r.at, to |-> r.to,
                                 judged |-> r.judged])
             \/ ~Exists(r.at)
      BY <1>4, <2>1 DEF Unlinks
    <2>3. FileAt(r.at) = {r.doc}
      BY <2>2 DEF Raced
    <2>4. Exists(r.at)
      BY <2>3 DEF FileAt, Exists
    <2>5. Moving(w, d)
      BY <1>4, <2>2 DEF Moving
    <2>6. PICK dest \in Places :
            /\ \A v \in Workers : Moving(v, d) => v = w
            /\ FilesOf(d) = {r.at, dest} /\ r.at # dest
      BY <1>1, <2>2, <2>5 DEF Single
    <2>7. FilesOf(d)' = {dest}
      BY <2>2, <2>4, <2>6 DEF Remove, FilesOf
    <2>8. PICK next : Step(w, next) /\ next.pc # "unlinking"
      BY <1>4 DEF Unlink, Idle
    <2>9. req'[w] = next /\ \A v \in Workers : v # w => req'[v] = req[v]
      BY <1>1, <2>8, StepAlone
    <2>10. \A v \in Workers : ~Moving(v, d)'
      BY <2>6, <2>8, <2>9 DEF Moving
    <2>11. QED
      BY <2>7, <2>10 DEF Single
  <1>5. QED
    BY <1>2, <1>3, <1>4 DEF WorksFor

\* Its verdict lies beside it, or the request has still to bring it.
LEMMA OwnReported ==
    ASSUME BornInv, NEW w \in Workers, NEW d \in Drafts, WorksFor(w, d),
           d \notin Raced', d \notin Raced => Single(d) /\ Reported(d)
    PROVE  Reported(d)'
  <1>1. /\ StoreInv /\ d \notin Raced /\ Single(d) /\ Reported(d)
        /\ \A p \in DOMAIN files : files[p].draft \in written
        /\ \A v \in Workers : Known(req[v], written)
    <2>1. overwritten \subseteq overwritten' /\ overtaken \subseteq overtaken'
      BY DEF WorksFor, WriteFile, Replace, Unlink
    <2>2. QED
      BY <2>1 DEF BornInv, KeptInv, Raced
  <1>2. CASE WriteFile(w) /\ req[w].draft = d
    <2>1. PICK p \in Places, c \in Drafts :
              /\ req[w].pc = "creating" /\ req[w].draft = c
              /\ files' = Put(files, p, NewDoc(c))
              /\ NewDoc(c).draft = c /\ NewDoc(c).log = <<>>
      BY <1>1, <1>2, WriteFileFacts
    <2>2. c = d /\ d \notin written
      BY <1>1, <1>2, <2>1 DEF Known
    <2>3. FilesOf(d)' = {p} /\ files'[p].log = <<>>
      BY <1>1, <2>1, <2>2 DEF Put, FilesOf
    <2>4. QED
      BY <2>3 DEF Reported, Due
  <1>3. CASE Replace(w) /\ req[w].doc.draft = d
    <2>1. PICK r \in Requests, c \in Drafts, dest \in Places, doc \in Doc :
             Replaces(w, r, c, dest, doc)
      BY <1>1, <1>3, ReplaceFacts
    <2> DEFINE moved == [pc |-> "unlinking", at |-> r.at, to |-> r.to,
                         judged |-> r.judged, doc |-> r.doc]
    <2>2. /\ r = req[w] /\ r.pc = "replacing" /\ Sound(r) /\ c = d /\ r.to \in Statuses
          /\ doc.draft = d /\ files' = Put(files, dest, doc)
          /\ dest = NewPlace(r.at, r.to) /\ dest[1] = SinkDir(r.to)
          /\ doc.log[Len(doc.log)] = [from |-> r.doc.status, to |-> r.to, by |-> Actor(r)]
          /\ Step(w, IF dest = r.at THEN Idle ELSE moved)
          /\ UNCHANGED reports
          /\ overtaken' = overtaken \cup
                (IF /\ FileAt(r.at) = {r.doc}
                    /\ FilesOf(d) = {r.at}
                    /\ \A report \in r.judged : report.draft = d
                 THEN {} ELSE {d})
      BY <1>3, <2>1 DEF Replaces
    <2>3. FilesOf(d) = {r.at} /\ \A report \in r.judged : report.draft = d
      BY <2>2 DEF Raced
    <2>4. /\ req'[w] = IF dest = r.at THEN Idle ELSE moved
          /\ \A v \in Workers : v # w => req'[v] = req[v]
      BY <1>1, <2>2, StepAlone
    <2>5. FilesOf(d)' = {r.at, dest} /\ files'[dest] = doc
      BY <2>2, <2>3 DEF Put, FilesOf
    <2>6. ASSUME Due(doc)
          PROVE  Pending(w, dest)'
      <3>1. Actor(r) = "validator"
        BY <2>2, <2>6 DEF Due
      <3>2. PICK report : report \in r.judged
        BY <3>1 DEF Actor
      <3>3. /\ r.judged = {report} /\ r.at[1] = "root" /\ r.to = Outcome(report.verdict)
            /\ report.draft = d /\ report \in Report
        BY <2>1, <2>2, <2>3, <3>2 DEF Sound, Replaces
      <3>4. report = VerdictOn(doc)
        BY <2>2, <3>3 DEF VerdictOn, Outcome, Report
      <3>5. dest # r.at
        BY <2>2, <3>3 DEF SinkDir, Outcome
      <3>6. req'[w] = moved
        BY <2>4, <3>5
      <3>7. /\ req'[w].pc = "unlinking" /\ req'[w].at = r.at /\ req'[w].to = r.to
            /\ req'[w].judged = r.judged /\ req'[w].doc.draft = d
        BY <1>3, <2>2, <3>6
      <3>8. QED
        BY <2>2, <2>5, <3>3, <3>4, <3>7 DEF Pending, NewPlace, VerdictOn
    <2>7. ASSUME r.at # dest, Due(files[r.at])
          PROVE  \/ r.at \in DOMAIN reports /\ reports[r.at] = VerdictOn(files[r.at])
                 \/ \E v \in Workers : Pending(v, r.at)'
      <3>1. \/ r.at \in DOMAIN reports /\ reports[r.at] = VerdictOn(files[r.at])
            \/ \E v \in Workers : Pending(v, r.at)
        BY <1>1, <2>3, <2>7 DEF Reported
      <3>2. ASSUME NEW v \in Workers, Pending(v, r.at)
            PROVE  Pending(v, r.at)'
        <4>1. req'[v] = req[v]
          BY <2>2, <2>4, <3>2 DEF Pending
        <4>2. r.at \in DOMAIN files /\ files'[r.at] = files[r.at]
          BY <2>2, <2>3, <2>7 DEF Put, FilesOf
        <4>3. QED
          BY <3>2, <4>1, <4>2 DEF Pending, NewPlace, VerdictOn
      <3>3. QED
        BY <3>1, <3>2
    <2>8. r.at # dest => files'[r.at] = files[r.at]
      BY <2>2, <2>3 DEF Put, FilesOf
    <2>9. QED
      BY <2>2, <2>5, <2>6, <2>7, <2>8 DEF Reported, Due, VerdictOn
  <1>4. CASE Unlink(w) /\ req[w].doc.draft = d
    <2>1. PICK r \in Requests, c \in Drafts : Unlinks(w, r, c)
      BY <1>1, <1>4, UnlinkFacts
    <2> DEFINE filing == [pc |-> "filing", at |-> r.at, to |-> r.to, judged |-> r.judged]
    <2>2. /\ r = req[w] /\ r.pc = "unlinking" /\ c = d
          /\ overtaken' = overtaken \cup (IF FileAt(r.at) = {r.doc} THEN {} ELSE {d})
          /\ UNCHANGED reports
          /\ \/ /\ Exists(r.at)
                /\ files' = Remove(files, r.at)
                /\ Step(w, IF r.judged = {} THEN Idle ELSE filing)
             \/ ~Exists(r.at)
      BY <1>4, <2>1 DEF Unlinks
    <2>3. FileAt(r.at) = {r.doc}
      BY <2>2 DEF Raced
    <2>4. /\ files' = Remove(files, r.at)
          /\ Step(w, IF r.judged = {} THEN Idle ELSE filing)
      BY <2>2, <2>3 DEF FileAt, Exists
    <2>5. /\ req'[w] = IF r.judged = {} THEN Idle ELSE filing
          /\ \A v \in Workers : v # w => req'[v] = req[v]
      BY <1>1, <2>4, StepAlone
    <2>6. SUFFICES ASSUME NEW p \in FilesOf(d)', Due(files'[p])
                   PROVE  \/ p \in DOMAIN reports /\ reports[p] = VerdictOn(files'[p])
                          \/ \E v \in Workers : Pending(v, p)'
      BY <2>2 DEF Reported, Due, VerdictOn
    <2>7. p \in FilesOf(d) /\ files'[p] = files[p]
      BY <2>4, <2>6 DEF Remove, FilesOf
    <2>8. \/ p \in DOMAIN reports /\ reports[p] = VerdictOn(files[p])
          \/ \E v \in Workers : Pending(v, p)
      BY <1>1, <2>6, <2>7 DEF Reported
    <2>9. ASSUME NEW v \in Workers, Pending(v, p)
          PROVE  Pending(v, p)'
      <3>1. CASE v # w
        BY <2>5, <2>7, <2>9, <3>1 DEF Pending, NewPlace, VerdictOn
      <3>2. CASE v = w
        <4>1. /\ req'[w] = filing /\ NewPlace(r.at, r.to) = p
              /\ r.judged = {VerdictOn(files[p])}
          BY <2>2, <2>5, <2>9, <3>2 DEF Pending
        <4>2. /\ req'[w].pc = "filing" /\ req'[w].at = r.at /\ req'[w].to = r.to
              /\ req'[w].judged = r.judged
          BY <4>1
        <4>3. QED
          BY <2>7, <3>2, <4>1, <4>2 DEF Pending, NewPlace, VerdictOn
      <3>3. QED
        BY <3>1, <3>2
    <2>10. QED
      BY <2>7, <2>8, <2>9
  <1>5. QED
    BY <1>2, <1>3, <1>4 DEF WorksFor

\* A step that works for another proposal leaves both so.
LEMMA OtherCalm ==
    ASSUME BornInv, NEW w \in Workers, NEW d \in Drafts, WorksFor(w, d),
           NEW e \in Drafts, e # d, e \notin overwritten', Single(e), Reported(e)
    PROVE  Single(e)' /\ Reported(e)'
  <1>1. StoreInv
    BY DEF BornInv, KeptInv
  <1>2. /\ FilesOf(e)' = FilesOf(e)
        /\ \A p \in FilesOf(e) : files'[p] = files[p]
    BY <1>1, OthersSpared
  <1>3. PICK r : Step(w, r)
    BY DEF WorksFor, WriteFile, Replace, Unlink
  <1>4. \A v \in Workers : v # w => req'[v] = req[v]
    BY <1>1, <1>3, StepAlone
  <1>5. ~Moving(w, e) /\ \A p \in FilesOf(e) : ~Pending(w, p)
    BY DEF WorksFor, WriteFile, Replace, Unlink, Moving, Pending, FilesOf
  <1>6. ~Moving(w, e)'
    <2>1. CASE WriteFile(w)
      <3>1. Step(w, Idle)
        BY <2>1 DEF WriteFile
      <3>2. QED
        BY <1>1, <3>1, StepAlone DEF Moving, Idle
    <2>2. CASE Replace(w) /\ req[w].doc.draft = d
      <3>1. PICK s \in Requests, c \in Drafts, dest \in Places, doc \in Doc :
               Replaces(w, s, c, dest, doc)
        BY <1>1, <2>2, ReplaceFacts
      <3> DEFINE moved == [pc |-> "unlinking", at |-> s.at, to |-> s.to,
                           judged |-> s.judged, doc |-> s.doc]
      <3>2. s.doc.draft = d /\ (Step(w, Idle) \/ Step(w, moved))
        BY <2>2, <3>1 DEF Replaces
      <3>3. req'[w] = Idle \/ req'[w] = moved
        BY <1>1, <3>2, StepAlone
      <3>4. QED
        BY <3>2, <3>3 DEF Moving, Idle
    <2>3. CASE Unlink(w)
      <3>1. PICK next : Step(w, next) /\ next.pc # "unlinking"
        BY <2>3 DEF Unlink, Idle
      <3>2. QED
        BY <1>1, <3>1, StepAlone DEF Moving
    <2>4. QED
      BY <2>1, <2>2, <2>3 DEF WorksFor
  <1>7. UNCHANGED reports
    BY DEF WorksFor, WriteFile, Replace, Unlink
  <1>8. Single(e)'
    BY <1>2, <1>4, <1>5, <1>6, SingleStays
  <1>9. Reported(e)'
    BY <1>2, <1>4, <1>5, <1>7, ReportedStays
  <1>10. QED
    BY <1>8, <1>9

\* A report of a backtest lands in the root, where no verdict has been acted on.
LEMMA ReportCalm ==
    ASSUME StoreInv, NEW w \in Workers, NEW verdict \in {"pass", "fail"},
           WriteReport(w, verdict), NEW e, Single(e), Reported(e)
    PROVE  Single(e)' /\ Reported(e)'
  <1>1. PICK r \in Requests : r = req[w] /\ Sound(r)
    BY RequestSound
  <1>2. r.pc = "running" /\ r.at[1] = "root" /\ UNCHANGED files
    BY <1>1 DEF WriteReport, Sound
  <1>3. PICK report : reports' = Put(reports, r.at, report)
    BY <1>1 DEF WriteReport
  <1>4. PICK next : Step(w, next) /\ next.pc \in {"idle", "resolved"}
    BY DEF WriteReport, Idle
  <1>5. req'[w] = next /\ \A v \in Workers : v # w => req'[v] = req[v]
    BY <1>4, StepAlone
  <1>6. /\ FilesOf(e)' = FilesOf(e)
        /\ \A p \in FilesOf(e) : files'[p] = files[p]
    BY <1>2 DEF FilesOf
  <1>7. ~Moving(w, e) /\ ~Moving(w, e)' /\ \A p : ~Pending(w, p)
    BY <1>1, <1>2, <1>4, <1>5 DEF Moving, Pending
  <1>8. \A p \in FilesOf(e) :
           Due(files[p]) /\ p \in DOMAIN reports =>
              p \in DOMAIN reports' /\ reports'[p] = reports[p]
    BY <1>2, <1>3, DueFacts DEF FilesOf, Put
  <1>9. Single(e)'
    BY <1>5, <1>6, <1>7, SingleStays
  <1>10. Reported(e)'
    BY <1>5, <1>6, <1>7, <1>8, ReportedStays
  <1>11. QED
    BY <1>9, <1>10

\* A report that follows a proposal is the verdict on it, or the proposal counts
\* as overtaken.
LEMMA FilingCalm ==
    ASSUME StoreInv, NEW w \in Workers, FileReport(w),
           NEW e \in Drafts, e \notin overtaken', Single(e), Reported(e)
    PROVE  Single(e)' /\ Reported(e)'
  <1>1. PICK r \in Requests : r = req[w] /\ Sound(r)
    BY RequestSound
  <1>2. r.pc = "filing" /\ r.at \in Places /\ r.to \in Statuses /\ r.judged \subseteq Report
    BY <1>1, RequestAt DEF FileReport
  <1>3. PICK dest \in Places : dest = NewPlace(r.at, r.to) /\ dest[1] = SinkDir(r.to)
    BY <1>2, NewPlaceFacts
  <1>4. PICK report \in r.judged : r.judged = {report}
    BY <1>1, <1>2 DEF Sound
  <1>5. /\ r.at[1] = "root" /\ r.to = Outcome(report.verdict) /\ report \in Report
        /\ r.at # dest
    BY <1>1, <1>2, <1>3, <1>4 DEF Sound, Outcome, SinkDir
  <1>6. /\ \/ /\ r.at \in DOMAIN reports
              /\ reports' = Put(Remove(reports, r.at), dest, reports[r.at])
           \/ r.at \notin DOMAIN reports /\ UNCHANGED reports
        /\ overtaken' = overtaken
              \cup (IF \A own \in r.judged : r.at \in DOMAIN reports /\ reports[r.at] = own
                    THEN {} ELSE {own.draft : own \in r.judged})
              \cup ({doc.draft : doc \in FileAt(dest)} \ {own.draft : own \in r.judged})
        /\ Step(w, Idle) /\ UNCHANGED files
    BY <1>1, <1>3 DEF FileReport
  <1>7. req'[w] = Idle /\ \A v \in Workers : v # w => req'[v] = req[v]
    BY <1>6, StepAlone
  <1>8. /\ FilesOf(e)' = FilesOf(e)
        /\ \A p \in FilesOf(e) : files'[p] = files[p] /\ p \in DOMAIN files
                                 /\ files[p].draft = e
    BY <1>6 DEF FilesOf
  <1>9. ~Moving(w, e) /\ ~Moving(w, e)'
    BY <1>1, <1>2, <1>7 DEF Moving, Idle
  <1>10. Single(e)'
    BY <1>7, <1>8, <1>9, SingleStays
  <1>11. \A p \in FilesOf(e) : Due(files[p]) => p # r.at
    BY <1>5, <1>8, DueFacts
  <1>12. ASSUME NEW p \in FilesOf(e), Due(files[p]), p = dest
         PROVE  p \in DOMAIN reports' /\ reports'[p] = VerdictOn(files[p])
    <2>1. FileAt(dest) = {files[p]}
      BY <1>8, <1>12 DEF FileAt
    <2>2. report.draft = e
      BY <1>4, <1>6, <1>8, <2>1
    <2>3. r.at \in DOMAIN reports /\ reports[r.at] = report
      BY <1>4, <1>6, <2>2
    <2>4. /\ files[p].status = Outcome(VerdictOn(files[p]).verdict)
          /\ files[p].status \in {"approved", "rejected"}
          /\ SinkDir(r.to) = SinkDir(files[p].status) /\ VerdictOn(files[p]).draft = e
      BY <1>3, <1>8, <1>12, DueFacts
    <2>5. Outcome(report.verdict) = Outcome(VerdictOn(files[p]).verdict)
      BY <1>5, <2>4 DEF SinkDir, Outcome
    <2>6. VerdictOn(files[p]).verdict \in {"pass", "fail"} /\ report.verdict \in {"pass", "fail"}
      BY <1>5 DEF VerdictOn, Report
    <2>7. report.verdict = VerdictOn(files[p]).verdict
      BY <2>5, <2>6 DEF Outcome
    <2>8. report = VerdictOn(files[p])
      BY <1>5, <2>2, <2>4, <2>7 DEF VerdictOn, Report
    <2>9. QED
      BY <1>6, <1>12, <2>3, <2>8 DEF Put
  <1>13. ASSUME NEW p \in FilesOf(e), Due(files[p]), p # dest
         PROVE  \/ p \in DOMAIN reports' /\ reports'[p] = VerdictOn(files[p])
                \/ \E v \in Workers : Pending(v, p)'
    <2>1. CASE p \in DOMAIN reports /\ reports[p] = VerdictOn(files[p])
      BY <1>6, <1>11, <1>13, <2>1 DEF Put, Remove
    <2>2. CASE \E v \in Workers : Pending(v, p)
      <3>1. PICK v \in Workers : Pending(v, p)
        BY <2>2
      <3>2. v # w
        BY <1>1, <1>3, <1>13, <3>1 DEF Pending
      <3>3. req'[v] = req[v] /\ files'[p] = files[p]
        BY <1>7, <1>8, <3>2
      <3>4. Pending(v, p)'
        BY <3>1, <3>3 DEF Pending, NewPlace, VerdictOn
      <3>5. QED
        BY <3>4
    <2>3. QED
      BY <1>13, <2>1, <2>2 DEF Reported
  <1>14. \A p \in FilesOf(e) : /\ Due(files[p])' <=> Due(files[p])
                               /\ VerdictOn(files[p])' = VerdictOn(files[p])
    BY <1>8 DEF Due, VerdictOn
  <1>15. Reported(e)'
    BY <1>8, <1>12, <1>13, <1>14 DEF Reported
  <1>16. QED
    BY <1>10, <1>15

\* The steps that start a request, read, or give up touch neither.
LEMMA QuietCalm ==
    ASSUME StoreInv, NEW w \in Workers,
           \/ \E d \in Drafts : WriteStart(w, d)
           \/ \E name \in Names, status \in Statuses : TransitionStart(w, name, status)
           \/ Read(w)
           \/ \E name \in Names, auto \in BOOLEAN : ValidateStart(w, name, auto)
           \/ ValidateStop(w),
           NEW e, Single(e), Reported(e)
    PROVE  Single(e)' /\ Reported(e)'
  <1>1. UNCHANGED <<files, reports>> /\ req[w].pc \in {"idle", "resolved", "running"}
    BY DEF WriteStart, TransitionStart, Read, ValidateStart, ValidateStop, Idle
  <1>2. PICK r : Step(w, r) /\ r.pc \notin {"unlinking", "filing"}
    <2>1. CASE Read(w)
      BY <2>1 DEF Read, Proceed, Idle
    <2>2. CASE \E d \in Drafts : WriteStart(w, d)
      BY <2>2 DEF WriteStart
    <2>3. CASE \E name \in Names, status \in Statuses : TransitionStart(w, name, status)
      BY <2>3 DEF TransitionStart
    <2>4. CASE \E name \in Names, auto \in BOOLEAN : ValidateStart(w, name, auto)
      BY <2>4 DEF ValidateStart
    <2>5. CASE ValidateStop(w)
      BY <2>5 DEF ValidateStop, Idle
    <2>6. QED
      BY <2>1, <2>2, <2>3, <2>4, <2>5
  <1>3. req'[w] = r /\ \A v \in Workers : v # w => req'[v] = req[v]
    BY <1>2, StepAlone
  <1>4. /\ FilesOf(e)' = FilesOf(e)
        /\ \A p \in FilesOf(e) : files'[p] = files[p]
    BY <1>1 DEF FilesOf
  <1>5. ~Moving(w, e) /\ ~Moving(w, e)' /\ \A p : ~Pending(w, p)
    BY <1>1, <1>2, <1>3 DEF Moving, Pending
  <1>6. Single(e)'
    BY <1>3, <1>4, <1>5, SingleStays
  <1>7. Reported(e)'
    BY <1>1, <1>3, <1>4, <1>5, ReportedStays
  <1>8. QED
    BY <1>6, <1>7

\* The histories, and the count of the dead, only grow.
LEMMA HistoryGrows ==
    ASSUME StoreInv, [Next]_storeVars
    PROVE  /\ overwritten \subseteq overwritten' /\ overtaken \subseteq overtaken'
           /\ crashes \in Nat /\ crashes' >= crashes /\ (crashes' = 0 => crashes = 0)
  <1>1. crashes \in Nat
    BY StoreAssumption DEF StoreInv, TypeOK
  <1>2. ASSUME NEW w \in Workers,
               \/ \E d \in Drafts : WriteStart(w, d)
               \/ WriteFile(w) \/ Transition(w) \/ Validation(w)
        PROVE  UNCHANGED crashes /\ overwritten \subseteq overwritten'
    BY <1>2 DEF Transition, Validation, history, WriteStart, WriteFile, TransitionStart,
          Read, Replace, Unlink, ValidateStart, ValidateStop, WriteReport, FileReport
  <1>3. ASSUME NEW w \in Workers,
               \/ \E d \in Drafts : WriteStart(w, d)
               \/ WriteFile(w) \/ Transition(w) \/ Validation(w)
        PROVE  overtaken \subseteq overtaken'
    BY <1>3 DEF Transition, Validation, history, WriteStart, WriteFile, TransitionStart,
          Read, Replace, Unlink, ValidateStart, ValidateStop, WriteReport, FileReport
  <1>4. ASSUME NEW w \in Workers, Crash(w)
        PROVE  crashes' = crashes + 1 /\ UNCHANGED history
    BY <1>4 DEF Crash
  <1>5. QED
    BY <1>1, <1>2, <1>3, <1>4 DEF Next, storeVars, history

\* Until a request dies, what nobody has raced for stays so.
LEMMA CalmStep ==
    ASSUME CalmInv, [Next]_storeVars
    PROVE  CalmInv'
  <1>1. BornInv /\ BornInv' /\ StoreInv
    BY BornStep DEF CalmInv, BornInv, KeptInv
  <1>2. /\ overwritten \subseteq overwritten' /\ overtaken \subseteq overtaken'
        /\ crashes \in Nat /\ crashes' >= crashes /\ (crashes' = 0 => crashes = 0)
    BY <1>1, HistoryGrows
  <1>3. SUFFICES ASSUME Calm', NEW e \in Drafts, e \notin Raced'
                 PROVE  Single(e)' /\ Reported(e)'
    BY <1>1 DEF CalmInv
  <1>4. Calm /\ e \notin Raced /\ e \notin overwritten' /\ e \notin overtaken'
    BY <1>2, <1>3 DEF Calm, Raced
  <1>5. Single(e) /\ Reported(e)
    BY <1>3, <1>4 DEF CalmInv
  <1>6. ASSUME NEW w \in Workers, WriteFile(w) \/ Replace(w) \/ Unlink(w)
        PROVE  Single(e)' /\ Reported(e)'
    <2>1. PICK d \in Drafts : WorksFor(w, d)
      BY <1>1, <1>6, WorksForOne
    <2>2. CASE e = d
      BY <1>1, <1>3, <1>5, <2>1, <2>2, OwnSingle, OwnReported
    <2>3. CASE e # d
      BY <1>1, <1>4, <1>5, <2>1, <2>3, OtherCalm
    <2>4. QED
      BY <2>2, <2>3
  <1>7. ASSUME NEW w \in Workers, Crash(w) PROVE FALSE
    BY <1>2, <1>3, <1>4, <1>7 DEF Crash, Calm
  <1>8. CASE UNCHANGED storeVars
    <2>1. UNCHANGED <<files, reports, req>>
      BY <1>8 DEF storeVars
    <2>2. /\ FilesOf(e)' = FilesOf(e)
          /\ \A p \in FilesOf(e) : files'[p] = files[p]
      BY <2>1 DEF FilesOf
    <2>3. Single(e)'
      BY <1>5, <2>1, <2>2, SingleStays
    <2>4. Reported(e)'
      BY <1>5, <2>1, <2>2, ReportedStays
    <2>5. QED
      BY <2>3, <2>4
  <1>9. QED
    BY <1>1, <1>4, <1>5, <1>6, <1>7, <1>8, QuietCalm, ReportCalm, FilingCalm
       DEF Next, Transition, Validation

\* So it is when there are no files.
LEMMA CalmInit == Init => CalmInv
  <1>1. SUFFICES ASSUME Init PROVE CalmInv
    OBVIOUS
  <1>2. KeptInv
    BY <1>1, StoreInit DEF Init, KeptInv, NoProposalLost, Idle
  <1>3. BornInv
    BY <1>1, <1>2 DEF Init, BornInv, Known, Idle
  <1>4. \A d : FilesOf(d) = {} /\ \A w \in Workers : ~Moving(w, d)
    BY <1>1 DEF Init, FilesOf, Moving, Idle
  <1>5. \A d : Single(d) /\ Reported(d)
    BY <1>4 DEF Single, Reported
  <1>6. QED
    BY <1>3, <1>5 DEF CalmInv

\* Between requests a proposal is in one place, with the verdict that moved it
\* there, although other requests went on meanwhile.
LEMMA CalmTells ==
    ASSUME CalmInv
    PROVE  VerdictBesideProposal
  <1>1. SUFFICES ASSUME Settled, Calm, NEW d \in Drafts, d \notin Raced
                 PROVE  /\ Cardinality(FilesOf(d)) <= 1
                        /\ \A p \in FilesOf(d) :
                              Due(files[p]) =>
                                 p \in DOMAIN reports /\ reports[p] = VerdictOn(files[p])
    <2>1. \A p \in DOMAIN files : files[p].draft \in Drafts /\ p \in FilesOf(files[p].draft)
      BY DEF CalmInv, BornInv, KeptInv, StoreInv, TypeOK, Doc, FilesOf
    <2>2. QED
      BY <2>1 DEF VerdictBesideProposal, Due, VerdictOn
  <1>2. Single(d) /\ Reported(d)
    BY <1>1 DEF CalmInv
  <1>3. \A w \in Workers : ~Moving(w, d) /\ \A p : ~Pending(w, p)
    BY <1>1 DEF Settled, Moving, Pending
  <1>4. \A p, q \in FilesOf(d) : p = q
    BY <1>2, <1>3 DEF Single
  <1>5. Cardinality(FilesOf(d)) <= 1
    <2>1. CASE FilesOf(d) = {}
      BY <2>1, FS_EmptySet
    <2>2. CASE FilesOf(d) # {}
      <3>1. PICK p : FilesOf(d) = {p}
        BY <1>4, <2>2
      <3>2. QED
        BY <3>1, FS_Singleton
    <2>3. QED
      BY <2>1, <2>2
  <1>6. QED
    BY <1>2, <1>3, <1>5 DEF Reported

\* The verdict beside a proposal is the one it was approved or rejected with, for
\* any number of requests in flight.
THEOREM VerdictsBeside == Spec => []VerdictBesideProposal
  <1>1. QED
    BY CalmInit, CalmStep, CalmTells, PTL DEF Spec

-----------------------------------------------------------------------------
\* The five-state workflow

\* p is the one newest file of draft d.
Newest(fs, d, p) ==
    /\ p \in DOMAIN fs /\ fs[p].draft = d /\ Len(fs[p].log) \in Nat
    /\ \A q \in DOMAIN fs :
          q # p /\ fs[q].draft = d =>
              Len(fs[q].log) \in Nat /\ Len(fs[q].log) < Len(fs[p].log)

\* StatusOf, of the files fs and the drafts raced for
StatusIn(fs, raced, d) ==
    LET own == {p \in DOMAIN fs : fs[p].draft = d} IN
    IF d \in raced THEN "raced"
    ELSE IF own = {} THEN "none"
    ELSE LET newest == CHOOSE p \in own :
                          \A q \in own : Len(fs[q].log) <= Len(fs[p].log)
         IN  fs[newest].status

StatusNow(d) == StatusIn(files, Raced, d)

\* The status of a draft is that of its newest file.
LEMMA NewestTells ==
    ASSUME NEW fs, NEW raced, NEW d, NEW p, d \notin raced, Newest(fs, d, p)
    PROVE  StatusIn(fs, raced, d) = fs[p].status
  <1> DEFINE own == {q \in DOMAIN fs : fs[q].draft = d}
             Tops(q) == \A o \in own : Len(fs[o].log) <= Len(fs[q].log)
             newest == CHOOSE q \in own : Tops(q)
  <1>1. p \in own /\ Tops(p)
    BY DEF Newest
  <1>2. newest \in own /\ Tops(newest)
    BY <1>1
  <1>3. newest = p
    BY <1>1, <1>2 DEF Newest
  <1>4. StatusIn(fs, raced, d) = fs[newest].status
    BY <1>1 DEF StatusIn
  <1>5. QED
    BY <1>3, <1>4

\* A draft without a file has no status yet.
LEMMA NoFileTells ==
    ASSUME NEW fs, NEW raced, NEW d, d \notin raced, \A p \in DOMAIN fs : fs[p].draft # d
    PROVE  StatusIn(fs, raced, d) = "none"
  BY DEF StatusIn

\* A proposal nobody has raced for has one newest file, or none.
LEMMA NewestExists ==
    ASSUME CalmInv, Calm, NEW d \in Drafts, d \notin Raced
    PROVE  (\E p : Newest(files, d, p)) \/ FilesOf(d) = {}
  <1>1. Single(d)
    BY DEF CalmInv
  <1>2. \A p \in DOMAIN files : Len(files[p].log) \in Nat
    <2>1. \A p \in DOMAIN files : files[p].log \in Seq(Line)
      BY DEF CalmInv, BornInv, KeptInv, StoreInv, TypeOK, Doc
    <2>2. QED
      BY <2>1, LenProperties
  <1>3. ASSUME NEW p \in FilesOf(d), \A q \in FilesOf(d) : p = q
        PROVE  Newest(files, d, p)
    BY <1>2, <1>3 DEF Newest, FilesOf
  <1>4. ASSUME NEW at \in Places, NEW dest \in Places, at # dest,
               FilesOf(d) = {at, dest},
               Len(files[dest].log) = Len(files[at].log) + 1
        PROVE  Newest(files, d, dest)
    <2>1. /\ at \in DOMAIN files /\ dest \in DOMAIN files /\ files[dest].draft = d
          /\ \A q \in DOMAIN files : files[q].draft = d => q \in {at, dest}
      BY <1>4 DEF FilesOf
    <2>2. Len(files[at].log) \in Nat /\ Len(files[dest].log) \in Nat
      BY <1>2, <2>1
    <2>3. Len(files[at].log) < Len(files[dest].log)
      BY <1>4, <2>2
    <2>4. QED
      BY <2>1, <2>2, <2>3 DEF Newest
  <1>5. QED
    BY <1>1, <1>3, <1>4 DEF Single

\* A draft in the workflow that has a file has one of the five statuses.
LEMMA StatusIsOne ==
    ASSUME CalmInv, Calm, NEW d \in Drafts, d \notin Raced, d \in written
    PROVE  StatusNow(d) \in Statuses
  <1>1. FilesOf(d) # {} /\ TypeOK
    BY DEF CalmInv, BornInv, KeptInv, NoProposalLost, Raced, StoreInv
  <1>2. PICK p : Newest(files, d, p)
    BY <1>1, NewestExists
  <1>3. StatusNow(d) = files[p].status /\ p \in DOMAIN files
    BY <1>2, NewestTells DEF StatusNow, Newest
  <1>4. QED
    BY <1>1, <1>3 DEF TypeOK, Doc

\* Only proposals that have been written are raced for.
LEMMA RacedAreWritten ==
    ASSUME BornInv, [Next]_storeVars, NEW d \in Drafts, d \in Raced', d \notin Raced
    PROVE  d \in written
  <1>1. /\ \A p \in DOMAIN files : files[p].draft \in written
        /\ \A w \in Workers : Known(req[w], written)
        /\ StoreInv
    BY DEF BornInv, KeptInv
  <1>2. \A p, c : Others(p, c) \subseteq written
    BY <1>1 DEF Others, FileAt
  <1>3. ASSUME NEW w \in Workers, WriteFile(w) PROVE d \in written
    BY <1>2, <1>3 DEF WriteFile, Raced
  <1>4. ASSUME NEW w \in Workers, Replace(w) PROVE d \in written
    <2>1. req[w].doc.draft \in written
      BY <1>1, <1>4 DEF Replace, Known
    <2>2. QED
      BY <1>2, <1>4, <2>1 DEF Replace, Raced
  <1>5. ASSUME NEW w \in Workers, Unlink(w) PROVE d \in written
    <2>1. req[w].doc.draft \in written
      BY <1>1, <1>5 DEF Unlink, Known
    <2>2. QED
      BY <1>2, <1>5, <2>1 DEF Unlink, Raced
  <1>6. ASSUME NEW w \in Workers, FileReport(w) PROVE d \in written
    <2>1. \A report \in req[w].judged : report.draft \in written
      BY <1>1, <1>6 DEF FileReport, Known
    <2>2. \A p : \A doc \in FileAt(p) : doc.draft \in written
      BY <1>1 DEF FileAt
    <2>3. QED
      BY <1>6, <2>1, <2>2 DEF FileReport, Raced
  <1>7. ASSUME ~ \E w \in Workers :
                    WriteFile(w) \/ Replace(w) \/ Unlink(w) \/ FileReport(w)
        PROVE  UNCHANGED <<overwritten, overtaken>>
    BY <1>7 DEF Next, Transition, Validation, storeVars, history, WriteStart,
          TransitionStart, Read, ValidateStart, ValidateStop, WriteReport, Crash
  <1>8. QED
    BY <1>3, <1>4, <1>5, <1>6, <1>7 DEF Raced

\* What a step does to the status of a proposal it does not work for.
LEMMA SparedStatus ==
    ASSUME CalmInv, Calm, NEW e \in Drafts, e \notin Raced, e \notin Raced',
           FilesOf(e)' = FilesOf(e), \A p \in FilesOf(e) : files'[p] = files[p]
    PROVE  StatusNow(e)' = StatusNow(e)
  <1>1. CASE FilesOf(e) = {}
    <2>1. /\ \A p \in DOMAIN files : files[p].draft # e
          /\ \A p \in DOMAIN files' : files'[p].draft # e
      BY <1>1 DEF FilesOf
    <2>2. QED
      BY <2>1, NoFileTells DEF StatusNow
  <1>2. ASSUME NEW p, Newest(files, e, p)
        PROVE  StatusNow(e)' = StatusNow(e)
    <2>1. Newest(files', e, p) /\ files'[p] = files[p]
      BY <1>2 DEF Newest, FilesOf
    <2>2. QED
      BY <1>2, <2>1, NewestTells DEF StatusNow
  <1>3. QED
    BY <1>1, <1>2, NewestExists

\* What it does to that of the one it works for.
LEMMA OwnStatus ==
    ASSUME CalmInv, Calm, NEW w \in Workers, NEW d \in Drafts, WorksFor(w, d),
           d \notin Raced, d \notin Raced'
    PROVE  \/ StatusNow(d)' = StatusNow(d)
           \/ StatusNow(d) = "none" /\ StatusNow(d)' = "pending"
           \/ <<StatusNow(d), StatusNow(d)'>> \in LegalTransitions
  <1>1. /\ StoreInv /\ Single(d)
        /\ \A p \in DOMAIN files : files[p].draft \in written
        /\ \A v \in Workers : Known(req[v], written)
    BY DEF CalmInv, BornInv, KeptInv
  <1>2. \A p \in DOMAIN files : Len(files[p].log) \in Nat
    <2>1. \A p \in DOMAIN files : files[p].log \in Seq(Line)
      BY <1>1 DEF StoreInv, TypeOK, Doc
    <2>2. QED
      BY <2>1, LenProperties
  <1>3. CASE WriteFile(w) /\ req[w].draft = d
    <2>1. PICK p \in Places, c \in Drafts :
              /\ req[w].pc = "creating" /\ req[w].draft = c
              /\ files' = Put(files, p, NewDoc(c))
              /\ NewDoc(c).draft = c /\ NewDoc(c).status = "pending" /\ NewDoc(c).log = <<>>
      BY <1>1, <1>3, WriteFileFacts
    <2>2. c = d /\ d \notin written
      BY <1>1, <1>3, <2>1 DEF Known
    <2>3. \A q \in DOMAIN files : files[q].draft # d
      BY <1>1, <2>2
    <2>4. StatusNow(d) = "none"
      BY <2>3, NoFileTells DEF StatusNow
    <2>5. /\ p \in DOMAIN files' /\ files'[p] = NewDoc(d)
          /\ \A q \in DOMAIN files' : q # p => files'[q].draft # d
      BY <2>1, <2>2, <2>3 DEF Put
    <2>6. Len(NewDoc(d).log) \in Nat
      BY <2>1, <2>2
    <2>7. Newest(files', d, p)
      BY <2>1, <2>2, <2>5, <2>6 DEF Newest
    <2>8. StatusNow(d)' = "pending"
      BY <2>1, <2>2, <2>5, <2>7, NewestTells DEF StatusNow
    <2>9. QED
      BY <2>4, <2>8
  <1>4. CASE Replace(w) /\ req[w].doc.draft = d
    <2>1. PICK r \in Requests, c \in Drafts, dest \in Places, doc \in Doc :
             Replaces(w, r, c, dest, doc)
      BY <1>1, <1>4, ReplaceFacts
    <2>2. /\ r = req[w] /\ r.pc = "replacing" /\ Sound(r) /\ c = d
          /\ doc.draft = d /\ doc.status = r.to /\ files' = Put(files, dest, doc)
          /\ Len(r.doc.log) \in Nat /\ Len(doc.log) = Len(r.doc.log) + 1
          /\ overtaken' = overtaken \cup
                (IF /\ FileAt(r.at) = {r.doc}
                    /\ FilesOf(d) = {r.at}
                    /\ \A report \in r.judged : report.draft = d
                 THEN {} ELSE {d})
      BY <1>4, <2>1 DEF Replaces
    <2>3. FileAt(r.at) = {r.doc} /\ FilesOf(d) = {r.at}
      BY <2>2 DEF Raced
    <2>4. /\ r.at \in DOMAIN files /\ files[r.at] = r.doc /\ r.doc.draft = d
          /\ \A q \in DOMAIN files : q # r.at => files[q].draft # d
      BY <2>3 DEF FilesOf, FileAt
    <2>5. Newest(files, d, r.at)
      BY <2>2, <2>4 DEF Newest
    <2>6. /\ dest \in DOMAIN files' /\ files'[dest] = doc
          /\ \A q \in DOMAIN files' :
                q # dest /\ files'[q].draft = d => q = r.at /\ files'[q] = r.doc
      BY <2>2, <2>4 DEF Put
    <2>7. Len(r.doc.log) < Len(doc.log) /\ Len(doc.log) \in Nat
      BY <2>2
    <2>8. Newest(files', d, dest)
      BY <2>2, <2>6, <2>7 DEF Newest
    <2>9. StatusNow(d) = r.doc.status /\ StatusNow(d)' = r.to
      BY <2>2, <2>4, <2>5, <2>6, <2>8, NewestTells DEF StatusNow
    <2>10. QED
      BY <2>2, <2>9 DEF Sound
  <1>5. CASE Unlink(w) /\ req[w].doc.draft = d
    <2>1. PICK r \in Requests, c \in Drafts : Unlinks(w, r, c)
      BY <1>1, <1>5, UnlinkFacts
    <2>2. /\ r = req[w] /\ r.pc = "unlinking" /\ c = d
          /\ overtaken' = overtaken \cup (IF FileAt(r.at) = {r.doc} THEN {} ELSE {d})
          /\ (Exists(r.at) /\ files' = Remove(files, r.at)) \/ ~Exists(r.at)
      BY <1>5, <2>1 DEF Unlinks
    <2>3. FileAt(r.at) = {r.doc}
      BY <2>2 DEF Raced
    <2>4. files' = Remove(files, r.at)
      BY <2>2, <2>3 DEF FileAt, Exists
    <2>5. Moving(w, d)
      BY <1>5, <2>2 DEF Moving
    <2>6. PICK dest \in Places :
            /\ FilesOf(d) = {r.at, dest} /\ r.at # dest
            /\ Len(files[dest].log) = Len(files[r.at].log) + 1
      BY <1>1, <2>2, <2>5 DEF Single
    <2>7. /\ r.at \in DOMAIN files /\ dest \in DOMAIN files /\ files[dest].draft = d
          /\ \A q \in DOMAIN files : files[q].draft = d => q \in {r.at, dest}
      BY <2>6 DEF FilesOf
    <2>8. Len(files[r.at].log) \in Nat /\ Len(files[dest].log) \in Nat
      BY <1>2, <2>7
    <2>9. Len(files[r.at].log) < Len(files[dest].log)
      BY <2>6, <2>8
    <2>10. Newest(files, d, dest)
      BY <2>7, <2>8, <2>9 DEF Newest
    <2>11. files'[dest] = files[dest] /\ Newest(files', d, dest)
      BY <2>4, <2>6, <2>7, <2>8 DEF Newest, Remove
    <2>12. QED
      BY <2>10, <2>11, NewestTells DEF StatusNow
  <1>6. QED
    BY <1>3, <1>4, <1>5 DEF WorksFor

\* A step of the store is one of the workflow, or none.
WorkflowStep(old, new) ==
    \/ new = old
    \/ \E d \in Drafts :
          /\ \/ old[d] = "none" /\ new[d] = "pending"
             \/ <<old[d], new[d]>> \in LegalTransitions
             \/ old[d] \in Statuses /\ new[d] = "raced"
          /\ \A e \in Drafts \ {d} :
                \/ new[e] = old[e]
                \/ old[e] \in Statuses /\ new[e] = "raced"

StatusMap == [d \in Drafts |-> StatusNow(d)]

\* One request takes one proposal on; others it may have raced for drop out.
LEMMA StoreStepsAreMoves ==
    ASSUME CalmInv, [Next]_storeVars, Calm'
    PROVE  WorkflowStep(StatusMap, StatusMap')
  <1>1. /\ BornInv /\ StoreInv /\ Calm
        /\ overwritten \subseteq overwritten' /\ overtaken \subseteq overtaken'
    BY HistoryGrows DEF CalmInv, BornInv, KeptInv, Calm
  <1> DEFINE Same(e) == StatusNow(e)' = StatusNow(e)
             Raced1(e) == StatusNow(e) \in Statuses /\ StatusNow(e)' = "raced"
             Moved(e) == \/ StatusNow(e) = "none" /\ StatusNow(e)' = "pending"
                         \/ <<StatusNow(e), StatusNow(e)'>> \in LegalTransitions
  <1>2. ASSUME NEW e \in Drafts, e \in Raced'
        PROVE  Same(e) \/ Raced1(e)
    <2>1. StatusNow(e)' = "raced"
      BY <1>2 DEF StatusNow, StatusIn
    <2>2. CASE e \in Raced
      BY <2>1, <2>2 DEF StatusNow, StatusIn
    <2>3. CASE e \notin Raced
      <3>1. StatusNow(e) \in Statuses
        BY <1>1, <1>2, <2>3, RacedAreWritten, StatusIsOne
      <3>2. QED
        BY <2>1, <3>1
    <2>4. QED
      BY <2>2, <2>3
  <1>3. ASSUME NEW e \in Drafts, e \notin Raced',
               FilesOf(e)' = FilesOf(e), \A p \in FilesOf(e) : files'[p] = files[p]
        PROVE  Same(e)
    <2>1. e \notin Raced
      BY <1>1, <1>3 DEF Raced
    <2>2. QED
      BY <1>1, <1>3, <2>1, SparedStatus
  <1>4. \E d \in Drafts \cup {"nobody"} :
           /\ d \in Drafts => Same(d) \/ Raced1(d) \/ Moved(d)
           /\ \A e \in Drafts : e # d => Same(e) \/ Raced1(e)
    <2>1. CASE Elsewhere
      <3>1. \A e : FilesOf(e)' = FilesOf(e) /\ files' = files
        BY <2>1 DEF Elsewhere, FilesOf
      <3>2. \A e \in Drafts : Same(e) \/ Raced1(e)
        BY <1>2, <1>3, <3>1
      <3>3. QED
        BY <3>2
    <2>2. ASSUME NEW w \in Workers, NEW d \in Drafts, WorksFor(w, d)
          PROVE  /\ Same(d) \/ Raced1(d) \/ Moved(d)
                 /\ \A e \in Drafts : e # d => Same(e) \/ Raced1(e)
      <3>1. Same(d) \/ Raced1(d) \/ Moved(d)
        <4>1. CASE d \in Raced'
          BY <1>2, <4>1
        <4>2. CASE d \notin Raced'
          <5>1. d \notin Raced
            BY <1>1, <4>2 DEF Raced
          <5>2. QED
            BY <1>1, <2>2, <4>2, <5>1, OwnStatus
        <4>3. QED
          BY <4>1, <4>2
      <3>2. ASSUME NEW e \in Drafts, e # d
            PROVE  Same(e) \/ Raced1(e)
        <4>1. CASE e \in Raced'
          BY <1>2, <4>1
        <4>2. CASE e \notin Raced'
          <5>1. e \notin overwritten'
            BY <4>2 DEF Raced
          <5>2. /\ FilesOf(e)' = FilesOf(e)
                /\ \A p \in FilesOf(e) : files'[p] = files[p]
            BY <1>1, <2>2, <3>2, <5>1, OthersSpared
          <5>3. QED
            BY <1>3, <4>2, <5>2
        <4>3. QED
          BY <4>1, <4>2
      <3>3. QED
        BY <3>1, <3>2
    <2>3. QED
      BY <1>1, <2>1, <2>2, FileSteps, WorksForOne
  <1>5. PICK d \in Drafts \cup {"nobody"} :
           /\ d \in Drafts => Same(d) \/ Raced1(d) \/ Moved(d)
           /\ \A e \in Drafts : e # d => Same(e) \/ Raced1(e)
    BY <1>4
  <1>6. \A e \in Drafts : /\ StatusMap[e] = StatusNow(e)
                          /\ StatusMap'[e] = StatusNow(e)'
    BY DEF StatusMap
  <1>7. CASE \A e \in Drafts : Same(e)
    <2>1. StatusMap' = StatusMap
      BY <1>7 DEF StatusMap
    <2>2. QED
      BY <2>1 DEF WorkflowStep
  <1>8. CASE d \in Drafts /\ (Raced1(d) \/ Moved(d))
    BY <1>5, <1>6, <1>8 DEF WorkflowStep
  <1>9. CASE ~(d \in Drafts /\ (Raced1(d) \/ Moved(d))) /\ ~(\A e \in Drafts : Same(e))
    <2>1. PICK e \in Drafts : ~Same(e)
      BY <1>9
    <2>2. e # d /\ Raced1(e) /\ \A c \in Drafts : Same(c) \/ Raced1(c)
      BY <1>5, <1>9, <2>1
    <2>3. QED
      BY <1>6, <2>2 DEF WorkflowStep
  <1>10. QED
    BY <1>7, <1>8, <1>9

\* Until a request dies the files implement the workflow, for any number of
\* requests in flight: a proposal has one status, which moves along the five
\* legal edges until somebody races for it.
THEOREM StoreImplementsWorkflow == Spec => ImplementsWorkflow
  <1> DEFINE bar == [d \in Drafts |-> StatusOf(d)]
  <1>1. bar = StatusMap /\ bar' = StatusMap'
    BY DEF StatusMap, StatusNow, StatusIn, StatusOf, FilesOf
  <1>2. Init => Workflow!Init
    <2>1. ASSUME Init, NEW d PROVE StatusOf(d) = "none"
      BY <2>1 DEF Init, StatusOf, FilesOf, Raced
    <2>2. QED
      BY <2>1 DEF Workflow!Init
  <1>3. CalmInv /\ [Next]_storeVars => [Calm' => Workflow!Next]_bar
    <2> SUFFICES ASSUME CalmInv, [Next]_storeVars, Calm', bar' # bar
                 PROVE  Workflow!Next
      OBVIOUS
    <2>1. WorkflowStep(StatusMap, StatusMap')
      BY StoreStepsAreMoves
    <2>2. WorkflowStep(bar, bar')
      BY <1>1, <2>1
    <2>3. QED
      BY <2>2 DEF WorkflowStep, Workflow!Next, Workflow!Create, Workflow!Move, Workflow!Race,
                  Workflow!Edges, Workflow!Statuses, Statuses, LegalTransitions
  <1>4. QED
    BY <1>2, <1>3, CalmInit, CalmStep, PTL DEF Spec, ImplementsWorkflow, Workflow!Spec

=============================================================================
