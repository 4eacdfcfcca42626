------------------------------ MODULE DocReload ------------------------------
(***************************************************************************)
(* Opening a document and opening it again when it changes: the file       *)
(* watcher's hints, the manager that debounces them and waits for the file *)
(* to settle, the candidate every renderer worker opens, its promotion,    *)
(* and the release of what it replaces.                                    *)
(*                                                                         *)
(* Source: crates/pulpit/src/doc/manager.rs, doc/watcher.rs,               *)
(* doc/images.rs, and the handlers of crates/pulpit/src/app.rs that drive  *)
(* them; the open documents of crates/pulpit-render/src/supervisor.rs.     *)
(*                                                                         *)
(* The application is one event loop: each handler is a step.  The file,   *)
(* the notification of its changes, the thread that prepares a document    *)
(* and the workers move on their own.  A file is its version, which is     *)
(* what a SourceStamp tells apart, and what a worker that reads it gets.   *)
(* A deadline is a choice: the tick that finds it passed is the step.      *)
(***************************************************************************)
EXTENDS Integers, Sequences, FiniteSets

CONSTANTS
  Files, NoFile,
  Folders,        \* the files that are directories of images
  Archives,       \* the files that are archives of images
  Contents,       \* what a write may leave: subset of "good" "bad" "empty" "gone"
  Workers,
  WatchDocument,  \* settings.rendering.watch_document
  ReportAfter,    \* attempts_before_reporting
  MaxAttempts,    \* bound: attempts at a file that will not open
  MaxOpens,       \* bound: opens, reloads and closes asked by the user
  MaxWrites,      \* bound: changes on disk
  MaxFaults       \* bound: workers replaced, watchers that cannot be made

ASSUME ReloadAssumption ==
  /\ NoFile \notin Files
  /\ Folders \subseteq Files /\ Archives \subseteq Files
  /\ Workers # {}   \* settings.rendering.workers is clamped to 1..8
  /\ Contents \subseteq {"good", "bad", "empty", "gone"}
  /\ WatchDocument \in BOOLEAN
  /\ ReportAfter \in Nat /\ MaxAttempts \in Nat
  /\ MaxOpens \in Nat /\ MaxWrites \in Nat /\ MaxFaults \in Nat

VARIABLES
  file,       \* the file system
  watch,      \* the watcher: "none" "asked" (on the thread) "made" "on"
  coming,     \* a change the operating system has not reported yet
  hint,       \* the watcher's channel is not empty
  path,       \* DocumentManager::path
  phase,      \* DocumentManager::state
  active,     \* DocumentManager::active
  next,       \* DocumentManager::next_document
  failing,    \* DocumentManager::reported_failure
  shown,      \* App::state.document(), as its worker read it
  retired,    \* App::retired_document
  candidate,  \* ImageDocumentState::candidate, 0 for none
  table,      \* ImageDocumentState::active, 0 for none
  documents,  \* Supervisor::documents
  reported,   \* Supervisor::reported_open
  asked,      \* per worker, the opens in its pipe
  held,       \* per worker, the version of each document it holds
  answers,    \* per worker, what it said
  events,     \* what the pump returned and the application has yet to handle
  handling,   \* the application is in the middle of those events
  unseen,     \* history: a change no watcher was there for
  wanted,     \* history: the candidate nothing has superseded
  opens, writes, faults

diskVars == <<file, coming, writes>>
managerVars == <<phase, active, next, failing, wanted>>
appVars == <<path, shown, retired, candidate, table, opens>>
watchVars == <<watch, hint, unseen>>
poolVars == <<documents, reported, held>>
pipeVars == <<asked, answers, faults>>
pumpVars == <<events, handling>>
vars == <<diskVars, managerVars, appVars, watchVars, poolVars, pipeVars, pumpVars>>

Nothing == [doc |-> 0, file |-> NoFile, version |-> 0]

(* What FileProbe::probe finds; 0 stands for None. *)
Stamp(f) == IF f = NoFile THEN 0 ELSE IF file[f].content = "gone" THEN 0 ELSE file[f].version

Content(f) == IF f = NoFile THEN "gone" ELSE file[f].content

Images == Folders \cup Archives

(* PageTable::source_digest: an archive has none. *)
Digest(f, version) == IF f \in Folders THEN <<f, version>> ELSE <<>>

(* ImageDocumentState::agrees_with. *)
Agrees(e) == candidate # 0 /\ Digest(path, candidate) = Digest(e.file, e.version)

-----------------------------------------------------------------------------
(* The states of the manager. *)

State(at, doc, attempt, stamp) == [at |-> at, doc |-> doc, attempt |-> attempt, stamp |-> stamp]
Idle == State("idle", 0, 0, 0)
Debouncing == State("debouncing", 0, 0, 0)
Stabilising(stamp) == State("stabilising", 0, 0, stamp)
Opening(doc, attempt) == State("opening", doc, attempt, 0)
Backoff(attempt) == State("backoff", 0, attempt, 0)

(* open_initial: the first probe is never equal to no stamp at all. *)
Initial(f) == IF Stamp(f) = 0 THEN Backoff(1) ELSE Stabilising(Stamp(f))

-----------------------------------------------------------------------------
(* The supervisor's part. *)

Without(f, S) == [x \in DOMAIN f \ S |-> f[x]]

MutantClose(S) ==
  /\ documents' = Without(documents, S)
  /\ reported' = reported \ S
  /\ held' = held
(* Supervisor::close.  A worker that was asked to open d drops it after. *)
Close(S) ==
  /\ documents' = Without(documents, S)
  /\ reported' = reported \ S
  /\ held' = [w \in Workers |-> Without(held[w], S)]

(* Supervisor::open *)
Open(d) ==
  /\ documents' = [e \in DOMAIN documents \cup {d} |-> IF e = d THEN path ELSE documents[e]]
  /\ reported' = reported \ {d}
  /\ asked' = [w \in Workers |-> asked[w] \cup {[doc |-> d, file |-> path]}]

(* A worker's pipe is read in the order it was written. *)
WorkerOpens(w) ==
  \E ask \in asked[w] :
    LET content == Content(ask.file)
        version == Stamp(ask.file)
        opened  == content \in {"good", "empty"}
    IN  /\ \A other \in asked[w] : ask.doc <= other.doc
        /\ asked' = [asked EXCEPT ![w] = @ \ {ask}]
        /\ held' = IF opened /\ ask.doc \in DOMAIN documents
                   THEN [held EXCEPT ![w] = [d \in DOMAIN @ \cup {ask.doc} |->
                                               IF d = ask.doc THEN version ELSE @[d]]]
                   ELSE held
        /\ answers' = [answers EXCEPT ![w] = Append(@,
             [doc |-> ask.doc, file |-> ask.file, version |-> version,
              said |-> IF opened THEN content ELSE "failed"])]
        /\ UNCHANGED <<diskVars, managerVars, appVars, watchVars, documents, reported,
                       faults, pumpVars>>

Replaced(w) == [asked EXCEPT ![w] = {[doc |-> d, file |-> documents[d]] : d \in DOMAIN documents}]

(* kill and respawn: what the old process said is dropped by its epoch, *)
(* and the new one is sent every open document.                         *)
Respawn(w) ==
  /\ faults < MaxFaults
  /\ faults' = faults + 1
  /\ asked' = Replaced(w)
  /\ held' = [held EXCEPT ![w] = <<>>]
  /\ answers' = [answers EXCEPT ![w] = <<>>]
  /\ UNCHANGED <<diskVars, managerVars, appVars, watchVars, documents, reported, pumpVars>>

(* Supervisor::handle: only the first answer about a document goes on.  The  *)
(* threads that read the workers' pipes fill one channel in any order.       *)
Drain(w) ==
  /\ ~handling /\ answers[w] # <<>>
  /\ answers' = [answers EXCEPT ![w] = Tail(@)]
  /\ LET a == Head(answers[w])
     IN  IF a.doc \in reported THEN UNCHANGED <<reported, events>>
         ELSE reported' = reported \cup {a.doc} /\ events' = Append(events, a)
  /\ UNCHANGED <<diskVars, managerVars, appVars, watchVars, documents, held, asked, faults,
                 handling>>

-----------------------------------------------------------------------------
(* Actions of the manager, as run_document_actions carries them out. *)

(* on_candidate_failed, and the DiscardCandidate it returns. *)
CandidateFailed(d) ==
  /\ Close({d}) /\ candidate' = 0
  /\ wanted' = IF d = wanted THEN 0 ELSE wanted
  /\ IF phase.at \in {"opening", "backoff"}
     THEN /\ phase' = Backoff(phase.attempt)
          /\ failing' = (failing \/ phase.attempt >= ReportAfter)
     ELSE UNCHANGED <<phase, failing>>
  /\ UNCHANGED <<path, active, next, shown, retired, table, opens>>

MutantDiscard(d) == UNCHANGED <<managerVars, appVars, poolVars>>
(* An answer for a candidate nobody waits for; the listing goes with it. *)
Discard(d) ==
  /\ Close({d}) /\ candidate' = 0
  /\ UNCHANGED <<managerVars, path, shown, retired, table, opens>>

(* Promote, then DiscardCandidate of the document it replaces. *)
Promote(e) ==
  /\ phase' = Idle /\ active' = e.doc /\ failing' = FALSE /\ wanted' = 0
  /\ shown' = [doc |-> e.doc, file |-> e.file, version |-> e.version]
  /\ table' = IF path \in Images THEN candidate ELSE table
  /\ candidate' = 0 /\ retired' = 0
  /\ Close({retired, active} \ {e.doc})
  /\ UNCHANGED <<next, path, opens>>

(* on_candidate_opened *)
MutantCandidateOpened(e) ==
  IF phase.at # "opening"
  THEN IF active = e.doc
       THEN UNCHANGED <<managerVars, appVars, poolVars>>
       ELSE Discard(e.doc)
  ELSE IF e.said = "empty" THEN CandidateFailed(e.doc)
       ELSE Promote(e)
CandidateOpened(e) ==
  IF phase.at # "opening"
  THEN IF active = e.doc
       THEN UNCHANGED <<managerVars, appVars, poolVars>>
       ELSE Discard(e.doc)
  ELSE IF e.doc # phase.doc THEN Discard(e.doc)
       ELSE IF e.said = "empty" THEN CandidateFailed(e.doc)
            ELSE Promote(e)

(* on_render_event, for Opened and OpenFailed. *)
Handle ==
  /\ events # <<>>
  /\ events' = Tail(events)
  /\ handling' = (Tail(events) # <<>>)
  /\ LET e == Head(events)
     IN  IF e.said = "failed" \/ (path \in Images /\ ~Agrees(e))
         THEN CandidateFailed(e.doc)
         ELSE CandidateOpened(e)
  /\ UNCHANGED <<diskVars, watchVars, pipeVars>>

(* OpenCandidate.  A listing that fails fails the candidate at once. *)
OpenCandidate(attempt) ==
  LET d == next + 1
      listed == path \in Images => Content(path) \in {"good", "empty"}
  IN  /\ next' = d
      /\ IF listed
         THEN /\ Open(d)
              /\ phase' = Opening(d, attempt) /\ wanted' = d
              /\ candidate' = IF path \in Images THEN Stamp(path) ELSE candidate
              /\ UNCHANGED <<failing, held>>
         ELSE /\ Close({d})
              /\ phase' = Backoff(attempt) /\ wanted' = 0
              /\ candidate' = 0
              /\ failing' = (failing \/ attempt >= ReportAfter)
              /\ UNCHANGED asked
      /\ UNCHANGED <<active, path, shown, retired, table, opens>>

-----------------------------------------------------------------------------
(* The update loop, between two pumps: every handler runs to its end. *)

AtRest == events = <<>>

(* drain() in the tick, and Message::FileChanged: on_file_event. *)
MutantHinted ==
  /\ AtRest /\ WatchDocument /\ watch = "on" /\ hint
  /\ hint' = FALSE /\ unseen' = FALSE
  /\ phase' = IF phase.at = "opening" THEN phase ELSE Debouncing
  /\ wanted' = IF phase.at = "opening" THEN wanted ELSE 0
  /\ UNCHANGED <<diskVars, active, next, failing, appVars, watch, poolVars,
                 pipeVars, pumpVars>>
Hinted ==
  /\ AtRest /\ WatchDocument /\ watch = "on" /\ hint
  /\ hint' = FALSE /\ unseen' = FALSE
  /\ phase' = Debouncing /\ wanted' = 0
  /\ UNCHANGED <<diskVars, active, next, failing, appVars, watch, poolVars,
                 pipeVars, pumpVars>>

(* tick() is reached only when watching is on, and after drain(). *)
Ticking == AtRest /\ WatchDocument /\ ~(watch = "on" /\ hint)

Quiet ==
  /\ Ticking /\ phase.at = "debouncing"
  /\ phase' = Stabilising(Stamp(path))
  /\ UNCHANGED <<diskVars, active, next, failing, wanted, appVars, watchVars,
                 poolVars, pipeVars, pumpVars>>

Settle ==
  /\ Ticking /\ phase.at = "stabilising"
  /\ LET now == Stamp(path)
     IN  \/ /\ now = 0
            /\ phase' = Backoff(1)
            /\ UNCHANGED <<active, next, failing, wanted, appVars, poolVars, asked>>
         \/ /\ now # 0 /\ now # phase.stamp
            /\ phase' = Stabilising(now)
            /\ UNCHANGED <<active, next, failing, wanted, appVars, poolVars, asked>>
         \/ /\ now # 0 /\ now = phase.stamp
            /\ OpenCandidate(1)
  /\ UNCHANGED <<diskVars, watchVars, answers, faults, pumpVars>>

Retry ==
  /\ Ticking /\ phase.at = "backoff"
  /\ Content(path) # "good" => phase.attempt < MaxAttempts
  /\ OpenCandidate(phase.attempt + 1)
  /\ UNCHANGED <<diskVars, watchVars, answers, faults, pumpVars>>

Tick == Quiet \/ Settle \/ Retry

-----------------------------------------------------------------------------
(* What the user asks for. *)

MutantOpenDocument(f) ==
  /\ AtRest /\ opens < MaxOpens
  /\ opens' = opens + 1
  /\ path' = f /\ phase' = Initial(f)
  /\ active' = 0 /\ failing' = FALSE /\ wanted' = 0
  /\ retired' = 0
  /\ Close({active})
  /\ candidate' = 0 /\ table' = 0
  /\ watch' = "asked" /\ hint' = FALSE /\ coming' = FALSE /\ unseen' = FALSE
  /\ UNCHANGED <<file, writes, next, shown, pipeVars, pumpVars>>
RestartedIds(f) ==
  /\ AtRest /\ opens < MaxOpens
  /\ opens' = opens + 1
  /\ path' = f /\ phase' = Initial(f) /\ next' = 0
  /\ active' = 0 /\ failing' = FALSE /\ wanted' = 0
  /\ retired' = active
  /\ candidate' = 0 /\ table' = 0
  /\ watch' = "asked" /\ hint' = FALSE /\ coming' = FALSE /\ unseen' = FALSE
  /\ UNCHANGED <<file, writes, shown, poolVars, pipeVars, pumpVars>>
(* open_document: a new manager that continues the numbering, *)
(* put_down_document, and open_initial.                       *)
OpenDocument(f) ==
  /\ AtRest /\ opens < MaxOpens
  /\ opens' = opens + 1
  /\ path' = f /\ phase' = Initial(f)
  /\ active' = 0 /\ failing' = FALSE /\ wanted' = 0
  /\ retired' = active
  /\ candidate' = 0 /\ table' = 0
  /\ watch' = "asked" /\ hint' = FALSE /\ coming' = FALSE /\ unseen' = FALSE
  /\ UNCHANGED <<file, writes, next, shown, poolVars, pipeVars, pumpVars>>

(* Action::ReloadDocument, which asks nothing of what is open. *)
ReloadDocument ==
  /\ AtRest /\ opens < MaxOpens
  /\ opens' = opens + 1
  /\ phase' = Initial(path) /\ wanted' = 0 /\ unseen' = FALSE
  /\ UNCHANGED <<diskVars, active, next, failing, path, shown, retired, candidate,
                 table, watch, hint, poolVars, pipeVars, pumpVars>>

(* close_document *)
CloseDocument ==
  /\ AtRest /\ opens < MaxOpens
  /\ shown.doc # 0 \/ path # NoFile
  /\ opens' = opens + 1
  /\ path' = NoFile /\ phase' = Idle
  /\ active' = 0 /\ failing' = FALSE /\ wanted' = 0
  /\ Close({active})
  /\ shown' = Nothing /\ retired' = 0 /\ candidate' = 0 /\ table' = 0
  /\ watch' = "none" /\ hint' = FALSE /\ coming' = FALSE /\ unseen' = FALSE
  /\ UNCHANGED <<file, writes, next, pipeVars, pumpVars>>

-----------------------------------------------------------------------------
(* The world. *)

Write(f, content) ==
  /\ writes < MaxWrites
  /\ writes' = writes + 1
  /\ file' = [file EXCEPT ![f] = [version |-> @.version + 1, content |-> content]]
  /\ coming' = (coming \/ (f = path /\ watch \in {"made", "on"}))
  /\ unseen' = (unseen \/ (f = path /\ watch \in {"none", "asked"}))
  /\ UNCHANGED <<managerVars, appVars, watch, hint, poolVars, pipeVars, pumpVars>>

(* The watcher's callback: send_then_ring. *)
Notice ==
  /\ coming
  /\ coming' = FALSE /\ hint' = TRUE
  /\ UNCHANGED <<file, writes, managerVars, appVars, watch, unseen, poolVars, pipeVars,
                 pumpVars>>

(* DocumentWatcher::new, on the thread that prepares the document. *)
MakeWatcher ==
  /\ watch = "asked"
  /\ \/ watch' = "made" /\ UNCHANGED faults
     \/ watch' = "none" /\ faults < MaxFaults /\ faults' = faults + 1
  /\ UNCHANGED <<diskVars, managerVars, appVars, hint, unseen, poolVars, asked, answers,
                 pumpVars>>

(* finish_document_prepare *)
Prepared ==
  /\ AtRest /\ watch = "made"
  /\ watch' = "on"
  /\ UNCHANGED <<diskVars, managerVars, appVars, hint, unseen, poolVars, pipeVars, pumpVars>>

-----------------------------------------------------------------------------
(* The program starts with nothing open. *)
Init ==
  /\ file = [f \in Files |-> [version |-> 1, content |-> "good"]]
  /\ watch = "none" /\ coming = FALSE /\ hint = FALSE /\ unseen = FALSE
  /\ path = NoFile /\ phase = Idle /\ active = 0 /\ next = 0 /\ failing = FALSE
  /\ shown = Nothing /\ retired = 0 /\ candidate = 0 /\ table = 0
  /\ documents = <<>> /\ reported = {}
  /\ asked = [w \in Workers |-> {}] /\ held = [w \in Workers |-> <<>>]
  /\ answers = [w \in Workers |-> <<>>] /\ events = <<>> /\ handling = FALSE
  /\ wanted = 0
  /\ opens = 0 /\ writes = 0 /\ faults = 0

User == \/ \E f \in Files : OpenDocument(f)
        \/ ReloadDocument
        \/ CloseDocument

World == \/ \E f \in Files, content \in Contents : Write(f, content)
         \/ \E w \in Workers : Respawn(w)

Next == \/ User \/ World
        \/ Notice \/ MakeWatcher \/ Prepared
        \/ \E w \in Workers : WorkerOpens(w) \/ Drain(w)
        \/ Handle \/ Hinted \/ Tick

Spec == Init /\ [][Next]_vars

(* The loop ticks and pumps, its threads run and a worker serves its pipe. *)
Fairness == /\ WF_vars(Notice) /\ WF_vars(MakeWatcher) /\ WF_vars(Prepared)
            /\ \A w \in Workers : WF_vars(WorkerOpens(w)) /\ WF_vars(Drain(w))
            /\ WF_vars(Handle) /\ WF_vars(Hinted) /\ WF_vars(Tick)

FairSpec == Spec /\ Fairness

-----------------------------------------------------------------------------
Ask == [doc : Nat \ {0}, file : Files \cup {NoFile}]
Answer == [doc : Nat \ {0}, file : Files \cup {NoFile}, version : Nat,
           said : {"good", "empty", "failed"}]

TypeOK ==
  /\ file \in [Files -> [version : Nat \ {0}, content : {"good", "bad", "empty", "gone"}]]
  /\ watch \in {"none", "asked", "made", "on"}
  /\ coming \in BOOLEAN /\ hint \in BOOLEAN /\ unseen \in BOOLEAN
  /\ failing \in BOOLEAN /\ handling \in BOOLEAN
  /\ path \in Files \cup {NoFile}
  /\ phase \in [at : {"idle", "debouncing", "stabilising", "opening", "backoff"},
                doc : Nat, attempt : Nat, stamp : Nat]
  /\ active \in Nat /\ next \in Nat /\ retired \in Nat
  /\ candidate \in Nat /\ table \in Nat /\ wanted \in Nat
  /\ shown \in [doc : Nat, file : Files \cup {NoFile}, version : Nat]
  /\ DOMAIN documents \subseteq Nat \ {0} /\ reported \subseteq Nat \ {0}
  /\ \A d \in DOMAIN documents : documents[d] \in Files \cup {NoFile}
  /\ asked \in [Workers -> SUBSET Ask]
  /\ DOMAIN held = Workers
  /\ \A w \in Workers : DOMAIN held[w] \subseteq DOMAIN documents
  /\ answers \in [Workers -> Seq(Answer)] /\ events \in Seq(Answer)
  /\ opens \in 0..MaxOpens /\ writes \in 0..MaxWrites /\ faults \in 0..MaxFaults

(* What is on screen is never closed under the audience: whatever is        *)
(* discarded, retired or answered late, the supervisor still holds the      *)
(* document that is shown, and would open the same file again in a worker   *)
(* it replaces.                                                             *)
ScreenHeld == shown.doc # 0 => /\ shown.doc \in DOMAIN documents
                               /\ documents[shown.doc] = shown.file

(* A second file continues the numbering of the first, so no answer about   *)
(* the file put down is taken for the one that was asked for.               *)
RightFile == active # 0 => shown.file = path

(* The newer build wins: only a candidate that no later hint, failure, open *)
(* or reload has superseded replaces what is shown.                         *)
PromotesWanted == [][shown'.doc \notin {0, shown.doc} => shown'.doc = wanted]_vars

(* Every open document the application has not heard of is still on its     *)
(* way, through a worker's pipe or in an answer, also when the worker that  *)
(* had it was replaced.                                                     *)
AnswerOwed ==
  \A d \in DOMAIN documents \ reported :
    \/ \E w \in Workers : \E ask \in asked[w] : ask.doc = d
    \/ \E w \in Workers : \E i \in DOMAIN answers[w] : answers[w][i].doc = d

(* What the workers hold although nobody will ask for it, and nobody is to   *)
(* let it go: it was reported, it is not shown, and no event is about it.    *)
Stray ==
  {d \in DOMAIN documents \cap reported :
     d # shown.doc /\ \A i \in DOMAIN events : events[i].doc # d}

(* Abandoned candidates, failed ones and replaced documents are all          *)
(* released.  Only a document that is still shown while another is coming,   *)
(* and that the application no longer knows it has to retire (opened twice   *)
(* before the second appeared, or closed), is left behind.                   *)
NoneLeaked ==
  [][\A d \in Stray' \ Stray :
       d = shown.doc /\ active = 0 /\ (retired = 0 \/ path' = NoFile)]_vars

(* Documents are neither lost nor leaked, whichever worker dies and however *)
(* often a candidate is superseded.                                         *)
NothingStranded == []AnswerOwed /\ NoneLeaked

Current == shown.file = path /\ shown.version = file[path].version

(* When a file has stopped changing, can be read, and changed only while a  *)
(* watcher was there to see it, what is shown becomes and stays what is on  *)
(* disk, whatever came between: bursts, partial builds, late answers.       *)
ComesUpToDate ==
  <>[](path # NoFile /\ Content(path) = "good" /\ ~unseen)
    => <>[](path # NoFile /\ Current)
=============================================================================
