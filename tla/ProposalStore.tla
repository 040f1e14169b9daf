---------------------------- MODULE ProposalStore ----------------------------
(***************************************************************************)
(* Strategy-change proposals: one markdown file per proposal, whose front  *)
(* matter holds the status and whose directory follows the status, and the *)
(* report the walk-forward validator leaves beside it.  Nothing locks the  *)
(* files: a transition reads a file, writes its next version to a place    *)
(* that may be another one, then unlinks the old place; each is a step.    *)
(* The drafts modelled here have the same date and topic, so that they     *)
(* compete for the same file names; other drafts never meet.               *)
(***************************************************************************)
EXTENDS Naturals, Sequences, FiniteSets

CONSTANTS Drafts,      \* the proposals of one topic and day
          Workers,     \* requests and CLI processes in flight together
          MaxSuffix,   \* the last collision suffix (99 in the code)
          MaxCrashes   \* bound: requests that die between two steps

ASSUME StoreAssumption == MaxSuffix \in Nat \ {0} /\ MaxCrashes \in Nat

Statuses == {"pending", "validating", "approved", "merged", "rejected"}

LegalTransitions ==
    {<<"pending", "validating">>, <<"validating", "approved">>,
     <<"validating", "rejected">>, <<"approved", "merged">>,
     <<"approved", "rejected">>}

\* The proposals root and its subdirectories, as a slug is looked up in them
Dirs == <<"root", "PENDING_REVIEW", "merged", "rejected">>

DirNames == {"root", "PENDING_REVIEW", "merged", "rejected"}

\* Mutant: merged ones stay where they were
SinkDirForgetsMerged(status) ==
    CASE status \in {"pending", "validating"} -> "root"
      [] status \in {"approved", "merged"} -> "PENDING_REVIEW"
      [] status = "rejected" -> "rejected"

SinkDir(status) ==
    CASE status \in {"pending", "validating"} -> "root"
      [] status = "approved" -> "PENDING_REVIEW"
      [] status = "merged" -> "merged"
      [] status = "rejected" -> "rejected"

\* <date>-<topic>.md, <date>-<topic>-2.md, ...
Names == 1..MaxSuffix

Places == DirNames \X Names

Actors == {"human", "validator"}

\* A line of the changelog section
Line == [from : Statuses, to : Statuses, by : Actors]

\* A proposal file.  "draft" is its body, which no transition changes.
Doc == [draft : Drafts, status : Statuses, log : Seq(Line)]

Report == [draft : Drafts, verdict : {"pass", "fail"}]

VARIABLES files,     \* the proposal files there are, by place
          reports,   \* the validation reports there are, by place of the proposal
          written,   \* drafts write_proposal returned a path for
          req,       \* requests in flight
          crashes,
          overwritten,   \* history: drafts whose file a request for another draft
                         \* replaced or removed, without having seen it there
          overtaken      \* history: drafts a request acted on although another
                         \* had changed what it had looked at

history == <<overwritten, overtaken>>

storeVars == <<files, reports, written, req, crashes, history>>

\* "doc" is the version a transition has read and "there" what it has found at
\* the place the next one goes to; "judged" is the report of a validator's.
Requests ==
    [pc : {"idle"}]
      \cup [pc : {"creating"}, at : {"root"} \X Names, draft : Drafts]
      \cup [pc : {"resolved", "filing"}, at : Places, to : Statuses,
           judged : SUBSET Report]
      \cup [pc : {"replacing"}, at : Places, to : Statuses, judged : SUBSET Report,
           doc : Doc, there : SUBSET Doc]
      \cup [pc : {"unlinking"}, at : Places, to : Statuses, judged : SUBSET Report,
           doc : Doc]
      \cup [pc : {"running"}, at : Places, draft : Drafts, auto : BOOLEAN]

Idle == [pc |-> "idle"]

Init ==
    /\ files = <<>>
    /\ reports = <<>>
    /\ written = {}
    /\ req = [w \in Workers |-> Idle]
    /\ crashes = 0
    /\ overwritten = {}
    /\ overtaken = {}

Exists(p) == p \in DOMAIN files

\* os.replace of a complete temporary file: the new content is there at once
Put(table, p, content) ==
    [q \in DOMAIN table \cup {p} |-> IF q = p THEN content ELSE table[q]]

Remove(table, p) == [q \in DOMAIN table \ {p} |-> table[q]]

\* The file at a place, if there is one; the proposals other than d it is of
FileAt(p) == {files[q] : q \in {p} \cap DOMAIN files}

Others(p, d) == {doc.draft : doc \in FileAt(p)} \ {d}

FilesOf(d) == {p \in DOMAIN files : files[p].draft = d}

\* _resolve_slug_to_path: the first of the four directories that has the file
Resolves(name, p) ==
    \E k \in 1..4 : /\ p = <<Dirs[k], name>>
                    /\ Exists(p)
                    /\ \A j \in 1..(k-1) : ~Exists(<<Dirs[j], name>>)

Step(w, r) == req' = [req EXCEPT ![w] = r]

-----------------------------------------------------------------------------
\* write_proposal

\* The first free name in the root; the subdirectories are not looked at.
\* With none free it raises, and nothing has happened.
WriteStart(w, d) ==
    /\ req[w] = Idle
    /\ d \notin written
    /\ \A v \in Workers : req[v].pc = "creating" => req[v].draft # d
    /\ \E name \in Names :
          /\ ~Exists(<<"root", name>>)
          /\ \A n \in 1..(name-1) : Exists(<<"root", n>>)
          /\ Step(w, [pc |-> "creating", at |-> <<"root", name>>, draft |-> d])
    /\ UNCHANGED <<files, reports, written, crashes, history>>

NewDoc(d) == [draft |-> d, status |-> "pending", log |-> <<>>]

\* write_text to the name that was free: a file that is there is replaced
WriteFile(w) ==
    /\ req[w].pc = "creating"
    /\ files' = Put(files, req[w].at, NewDoc(req[w].draft))
    /\ written' = written \cup {req[w].draft}
    /\ overwritten' = overwritten \cup Others(req[w].at, req[w].draft)
    /\ Step(w, Idle)
    /\ UNCHANGED <<reports, crashes, overtaken>>

-----------------------------------------------------------------------------
\* transition_proposal

\* POST /api/admin/proposals/{slug}/transition finds the file (or answers 404)
TransitionStart(w, name, status) ==
    /\ req[w] = Idle
    /\ \E p \in Places :
          /\ Resolves(name, p)
          /\ Step(w, [pc |-> "resolved", at |-> p, to |-> status, judged |-> {}])
    /\ UNCHANGED <<files, reports, written, crashes, history>>

\* Where the next version goes: the root is inferred from the path
NewPlace(p, status) == <<SinkDir(status), p[2]>>

\* The request goes on with the version it has read if ok, else it raises
Proceed(w, ok) ==
    LET r == req[w] IN
    \/ ok /\ Step(w, [pc |-> "replacing", at |-> r.at, to |-> r.to,
                      judged |-> r.judged, doc |-> files[r.at],
                      there |-> FileAt(NewPlace(r.at, r.to))])
    \/ ~ok /\ Step(w, Idle)

Legal(r) == /\ Exists(r.at)
            /\ <<files[r.at].status, r.to>> \in LegalTransitions

Free(r) == NewPlace(r.at, r.to) # r.at => ~Exists(NewPlace(r.at, r.to))

\* Mutants: the destination is not looked at; any transition is legal
ReadOverExisting(w) ==
    /\ req[w].pc = "resolved"
    /\ Proceed(w, Legal(req[w]))
    /\ UNCHANGED <<files, reports, written, crashes, history>>

ReadAnyTransition(w) ==
    /\ req[w].pc = "resolved"
    /\ Proceed(w, Exists(req[w].at) /\ Free(req[w]))
    /\ UNCHANGED <<files, reports, written, crashes, history>>

\* The file is read, the transition checked against its status, and the
\* destination looked for; anything amiss (illegal_transition,
\* destination_exists, the file is gone) raises.  One step: what changes
\* between the three only turns into such a refusal.
Read(w) ==
    /\ req[w].pc = "resolved"
    /\ Proceed(w, Legal(req[w]) /\ Free(req[w]))
    /\ UNCHANGED <<files, reports, written, crashes, history>>

\* Mutant: the status line is left as it was
NextVersionKeepsStatus(doc, status, actor) ==
    [doc EXCEPT !.log = Append(@, [from |-> doc.status, to |-> status, by |-> actor])]

\* _mutate_frontmatter and _append_changelog on the content that was read
NextVersion(doc, status, actor) ==
    [doc EXCEPT !.status = status,
                !.log = Append(@, [from |-> doc.status, to |-> status, by |-> actor])]

Actor(r) == IF r.judged = {} THEN "human" ELSE "validator"

\* The next version goes to its place, whatever has become of that and of the
\* version that was read
Replace(w) ==
    LET r == req[w]
        d == r.doc.draft
        dest == NewPlace(r.at, r.to)
        current == /\ FileAt(r.at) = {r.doc}
                   /\ FilesOf(d) = {r.at}
                   /\ \A report \in r.judged : report.draft = d
    IN  /\ r.pc = "replacing"
        /\ files' = Put(files, dest, NextVersion(r.doc, r.to, Actor(r)))
        /\ Step(w, IF dest = r.at THEN Idle
                   ELSE [pc |-> "unlinking", at |-> r.at, to |-> r.to,
                         judged |-> r.judged, doc |-> r.doc])
        /\ overwritten' = overwritten \cup (IF FileAt(dest) = r.there THEN {}
                                            ELSE Others(dest, d))
        /\ overtaken' = overtaken \cup (IF current THEN {} ELSE {d})
        /\ UNCHANGED <<reports, written, crashes>>

\* The old file goes, whatever it holds by now; unlink raises if it is gone
Unlink(w) ==
    LET r == req[w]
        d == r.doc.draft
    IN  /\ r.pc = "unlinking"
        /\ \/ /\ Exists(r.at)
              /\ files' = Remove(files, r.at)
              /\ Step(w, IF r.judged = {} THEN Idle
                         ELSE [pc |-> "filing", at |-> r.at, to |-> r.to,
                               judged |-> r.judged])
           \/ /\ ~Exists(r.at)
              /\ Step(w, Idle)
              /\ UNCHANGED files
        /\ overwritten' = overwritten \cup Others(r.at, d)
        /\ overtaken' = overtaken \cup (IF FileAt(r.at) = {r.doc} THEN {} ELSE {d})
        /\ UNCHANGED <<reports, written, crashes>>

-----------------------------------------------------------------------------
\* run_validation: from the CLI with the transition its verdict calls for
\* (auto), from POST .../validate without

ValidateStart(w, name, auto) ==
    /\ req[w] = Idle
    /\ \E p \in Places :
          /\ Resolves(name, p)
          /\ files[p].status = "validating"
          /\ Step(w, [pc |-> "running", at |-> p, draft |-> files[p].draft,
                      auto |-> auto])
    /\ UNCHANGED <<files, reports, written, crashes, history>>

\* missing_bars, backtest_failed, window_has_no_bars; or a dry run
ValidateStop(w) ==
    /\ req[w].pc = "running"
    /\ Step(w, Idle)
    /\ UNCHANGED <<files, reports, written, crashes, history>>

\* Mutant: the verdict is turned round
WriteReportSwapped(w, verdict) ==
    LET r == req[w]
        report == [draft |-> r.draft, verdict |-> verdict]
    IN  /\ r.pc = "running"
        /\ reports' = Put(reports, r.at, report)
        /\ Step(w, IF r.auto
                   THEN [pc |-> "resolved", at |-> r.at, judged |-> {report},
                         to |-> IF verdict = "pass" THEN "rejected" ELSE "approved"]
                   ELSE Idle)
        /\ UNCHANGED <<files, written, crashes, history>>

\* The report goes beside the file that was read when the run began
WriteReport(w, verdict) ==
    LET r == req[w]
        report == [draft |-> r.draft, verdict |-> verdict]
    IN  /\ r.pc = "running"
        /\ reports' = Put(reports, r.at, report)
        /\ Step(w, IF r.auto
                   THEN [pc |-> "resolved", at |-> r.at, judged |-> {report},
                         to |-> IF verdict = "pass" THEN "approved" ELSE "rejected"]
                   ELSE Idle)
        /\ UNCHANGED <<files, written, crashes, history>>

\* The report follows its proposal, whichever report is there by now;
\* os.replace raises if there is none
FileReport(w) ==
    LET r == req[w]
        dest == NewPlace(r.at, r.to)
        mine == {report.draft : report \in r.judged}
        own == \A report \in r.judged : /\ r.at \in DOMAIN reports
                                        /\ reports[r.at] = report
    IN  /\ r.pc = "filing"
        /\ \/ /\ r.at \in DOMAIN reports
              /\ reports' = Put(Remove(reports, r.at), dest, reports[r.at])
           \/ r.at \notin DOMAIN reports /\ UNCHANGED reports
        /\ overtaken' = overtaken \cup (IF own THEN {} ELSE mine)
                                  \cup ({doc.draft : doc \in FileAt(dest)} \ mine)
        /\ Step(w, Idle)
        /\ UNCHANGED <<files, written, crashes, overwritten>>

\* The process dies between two steps.  (write_text is not atomic: dying in it
\* can also leave a file without its front matter, which every reader refuses.)
Crash(w) ==
    /\ req[w] # Idle
    /\ crashes < MaxCrashes
    /\ crashes' = crashes + 1
    /\ Step(w, Idle)
    /\ UNCHANGED <<files, reports, written, history>>

Transition(w) ==
    \/ \E name \in Names, status \in Statuses : TransitionStart(w, name, status)
    \/ Read(w)
    \/ Replace(w)
    \/ Unlink(w)

Validation(w) ==
    \/ \E name \in Names, auto \in BOOLEAN : ValidateStart(w, name, auto)
    \/ ValidateStop(w)
    \/ \E verdict \in {"pass", "fail"} : WriteReport(w, verdict)
    \/ FileReport(w)

Next ==
    \E w \in Workers :
        \/ \E d \in Drafts : WriteStart(w, d)
        \/ WriteFile(w)
        \/ Transition(w)
        \/ Validation(w)
        \/ Crash(w)

Spec == Init /\ [][Next]_storeVars

-----------------------------------------------------------------------------
\* Properties

\* Every variable has its type.
TypeOK ==
    /\ DOMAIN files \subseteq Places /\ \A p \in DOMAIN files : files[p] \in Doc
    /\ DOMAIN reports \subseteq Places /\ \A p \in DOMAIN reports : reports[p] \in Report
    /\ written \subseteq Drafts
    /\ req \in [Workers -> Requests]
    /\ crashes \in 0..MaxCrashes
    /\ overwritten \subseteq Drafts
    /\ overtaken \subseteq Drafts

\* A changelog is a path through the legal transitions from pending to status
LegalStory(log, status) ==
    /\ \A k \in DOMAIN log : <<log[k].from, log[k].to>> \in LegalTransitions
    /\ \A k \in DOMAIN log : log[k].from = IF k = 1 THEN "pending" ELSE log[k-1].to
    /\ status = IF log = <<>> THEN "pending" ELSE log[Len(log)].to

\* Whatever requests race and wherever they die, each file's changelog is a
\* complete legal story that ends in its status: no version mixes the reads of
\* two requests (state.py reads once and writes whole files).
LogTellsStatus == \A p \in DOMAIN files : LegalStory(files[p].log, files[p].status)

\* A file always lies in the directory proposals/README.md shows for its
\* status, so what a person finds there and the status that is read agree.
FiledByStatus ==
    \A p \in DOMAIN files :
        <<p[1], files[p].status>> \in
            {<<"root", "pending">>, <<"root", "validating">>,
             <<"PENDING_REVIEW", "approved">>, <<"merged", "merged">>,
             <<"rejected", "rejected">>}

\* A proposal that was written is never lost ("write_proposal SHALL never
\* overwrite an existing file", proposal-writer/spec.md:56; a transition writes
\* the next version before it removes the last one): not by any number of
\* requests racing for it, nor by one that dies between two file operations.
\* Only a request for another draft can do it, whose write or unlink hits a file
\* that came to its name after it had looked there.
NoProposalLost == \A d \in written \ overwritten : FilesOf(d) # {}

\* What is merged or rejected is final: its file is never removed and never gets
\* another status, and no request touches it that could have seen it: if it is
\* replaced then by a transition that had found its place free.
FinalFilesKept ==
    [][\A p \in DOMAIN files :
          files[p].status \in {"merged", "rejected"} =>
              /\ p \in DOMAIN files'
              /\ files'[p].status = files[p].status
              /\ files'[p] # files[p] =>
                    \E w \in Workers : /\ req[w].pc = "replacing"
                                       /\ NewPlace(req[w].at, req[w].to) = p
                                       /\ files[p] \notin req[w].there]_storeVars

Settled == \A w \in Workers : req[w].pc \notin {"replacing", "unlinking", "filing"}

\* As long as no request has died in the middle
Calm == crashes = 0

Raced == overwritten \cup overtaken

\* Between requests a proposal is in one place, the old file gone once the new one
\* is there (proposal-state-machine/spec.md, scenario "validating -> approved"),
\* and the verdict that approved or rejected it lies beside it, the verdict on this
\* proposal, although names are used again and other requests went on during the
\* backtests: unless one of them changed what a request for it had looked at.
VerdictBesideProposal ==
    Settled /\ Calm =>
        /\ \A d \in Drafts \ Raced : Cardinality(FilesOf(d)) <= 1
        /\ \A p \in DOMAIN files :
              LET doc == files[p]
                  last == doc.log[Len(doc.log)]
              IN  /\ doc.draft \notin Raced
                  /\ doc.log # <<>>
                  /\ last.by = "validator"
                  =>
                  /\ p \in DOMAIN reports
                  /\ reports[p] = [draft |-> doc.draft,
                                   verdict |-> IF last.to = "approved" THEN "pass"
                                               ELSE "fail"]

\* The status of a proposal is that of its newest file
StatusOf(d) ==
    IF d \in Raced THEN "raced"
    ELSE IF FilesOf(d) = {} THEN "none"
    ELSE LET newest == CHOOSE p \in FilesOf(d) :
                          \A q \in FilesOf(d) : Len(files[q].log) <= Len(files[p].log)
         IN  files[newest].status

Workflow == INSTANCE ProposalLifecycle
                WITH status <- [d \in Drafts |-> StatusOf(d)], calm <- Calm

\* Until a request dies the files implement the five-state workflow, with any
\* number of requests in flight: a proposal leaves it only by a race for itself
\* or for its name.
ImplementsWorkflow == Workflow!Spec

=============================================================================
