---------------------------- MODULE RenderWorker ----------------------------
(***************************************************************************)
(* One renderer process: a reader thread that parses requests from the     *)
(* pipe into an inbox, and a main thread that takes work from the inbox in *)
(* an order of its own, so that a cancel arrives during a render.          *)
(*                                                                         *)
(* Source: crates/pulpit-render/src/worker.rs (run, render_one, drain_jobs, *)
(* pick_job, read_requests).  The other end of the pipe is the supervisor, *)
(* here as much of it as decides what the process can be sent: generations *)
(* only rise, no job below the floor is sent, and a worker is told to shut *)
(* down only when no job is in flight (retire_idle).                       *)
(***************************************************************************)
EXTENDS Integers, Sequences, FiniteSets, SequencesExt

CONSTANTS
  JobCount,      \* bound: jobs ever sent, in id order
  Elsewhere,     \* ids of jobs other workers hold: a cancel is told to all
  Priority,      \* [Jobs -> Nat]: RenderJob::priority
  Urgent,        \* Priority::Presenter: jobs up to it pre-empt questions
  DocOf,         \* [Jobs -> Docs]: RenderJob::document
  Docs, Questions,
  MaxFloor,      \* bound: the generation floor
  MaxCancels,    \* MAX_REMEMBERED_CANCELS
  Budget         \* bound: requests written to the process

Jobs == 1..JobCount

ASSUME WorkerAssumption ==
  /\ JobCount \in Nat /\ Priority \in [Jobs -> Nat] /\ Urgent \in Nat
  /\ DocOf \in [Jobs -> Docs]
  /\ Elsewhere \subseteq Nat \ (Jobs \cup {0})
  /\ Budget \in Nat /\ MaxFloor \in Nat /\ MaxCancels \in Nat \ {0, 1}

VARIABLES
  (* the supervisor's end *)
  pipe,        \* requests written and not yet read
  sent,        \* jobs sent so far
  gen,         \* the generation each job was sent with
  top,         \* generation_floor of the supervisor
  said,        \* documents opened, closed, questions put, and so on
  held, stoppable, asked, opening, reply,   \* as in WorkerContract
  (* the inbox, behind one lock *)
  jobs, control, cancelled, floor, unacknowledged, shutdown,
  (* in_flight, behind its own lock: the job being rendered and its flag *)
  inFlight,
  (* the threads *)
  reading,     \* the request the reader thread is in the middle of, or "none"
  main,        \* "choose", "check", "prepare", "draw" or "exit"
  current,     \* the job main took from the inbox, or None
  open,        \* documents: those the backend has open
  heeded       \* jobs whose Cancel was read whole before main looked at them

ends == <<pipe, sent, gen, top, said, held, stoppable, asked, opening, reply>>
inbox == <<jobs, control, cancelled, floor, unacknowledged, shutdown>>
vars == <<ends, inbox, inFlight, reading, main, current, open, heeded>>

None == 0
Idle == [id |-> None, stop |-> FALSE]

Init ==
  /\ pipe = <<>> /\ sent = 0 /\ gen = [j \in Jobs |-> 0] /\ top = 0 /\ said = {}
  /\ held = {} /\ stoppable = {} /\ asked = {} /\ opening = {}
  /\ reply = [j \in Jobs |-> "none"]
  /\ jobs = <<>> /\ control = <<>> /\ cancelled = <<>> /\ floor = 0
  /\ unacknowledged = <<>> /\ shutdown = FALSE
  /\ inFlight = Idle /\ reading = "none" /\ main = "choose" /\ current = None
  /\ open = {} /\ heeded = {}

-----------------------------------------------------------------------------
(* The supervisor's end of the pipe. *)

Write(kind, what) ==
  /\ sent + Cardinality(said) < Budget
  /\ pipe' = Append(pipe, [kind |-> kind, what |-> what])

(* Each request but Render is written at most once: a bound. *)
Once(kind, what) ==
  /\ <<kind, what>> \notin said /\ <<"Shutdown", None>> \notin said
  /\ said' = said \cup {<<kind, what>>}
  /\ Write(kind, what)

(* A job of a document the process was told to open: another worker of the  *)
(* pool may have reported it open already.                                  *)
SendRender(j, g) ==
  /\ j = sent + 1 /\ <<"Open", DocOf[j]>> \in said /\ <<"Shutdown", None>> \notin said
  /\ g >= top
  /\ sent' = j
  /\ gen' = [gen EXCEPT ![j] = g]
  /\ held' = held \cup {j}
  /\ Write("Render", j)
  /\ UNCHANGED <<top, said, stoppable, asked, opening, reply>>

(* A cancel is told to every worker, and may come after the job's reply. *)
SendCancel(j) ==
  /\ j \in 1..sent \cup Elsewhere /\ Once("Cancel", j)
  /\ stoppable' = stoppable \cup ({j} \cap held)
  /\ UNCHANGED <<sent, gen, top, held, asked, opening, reply>>

SendCancelGeneration(g) ==
  /\ g > top /\ Once("CancelGeneration", g)
  /\ top' = g
  /\ stoppable' = held
  /\ UNCHANGED <<sent, gen, held, asked, opening, reply>>

SendOpen(d) ==
  /\ Once("Open", d)
  /\ opening' = opening \cup {d}
  /\ UNCHANGED <<sent, gen, top, held, stoppable, asked, reply>>

SendClose(d) ==
  /\ <<"Open", d>> \in said /\ Once("Close", d)
  /\ UNCHANGED <<sent, gen, top, held, stoppable, asked, opening, reply>>

SendQuestion(q) ==
  /\ Once("Question", q)
  /\ asked' = asked \cup {q}
  /\ UNCHANGED <<sent, gen, top, held, stoppable, opening, reply>>

SendShutdown ==
  /\ held = {} /\ Once("Shutdown", None)
  /\ UNCHANGED <<sent, gen, top, held, stoppable, asked, opening, reply>>

Supervisor ==
  /\ \/ \E j \in Jobs \cup Elsewhere : SendCancel(j)
     \/ \E j \in Jobs, g \in 0..(MaxFloor + 1) : SendRender(j, g)
     \/ \E g \in 1..MaxFloor : SendCancelGeneration(g)
     \/ \E d \in Docs : SendOpen(d) \/ SendClose(d)
     \/ \E q \in Questions : SendQuestion(q)
     \/ SendShutdown
  /\ UNCHANGED <<inbox, inFlight, reading, main, current, open, heeded>>

-----------------------------------------------------------------------------
(* The reader thread: read_requests. *)

Reading(kind) == reading = "none" /\ pipe # <<>> /\ Head(pipe).kind = kind
Read == pipe' = Tail(pipe)
What == Head(pipe).what

RestOfEnds == <<sent, gen, top, said, held, stoppable, asked, opening, reply>>
Threads == <<main, current, open>>

(* Raise the flag of the render in flight, if it is one of those in S. *)
Flag(S) == inFlight' = [inFlight EXCEPT !.stop = @ \/ inFlight.id \in S]

(* The members of s that are in S, in their order. *)
Only(s, S) ==
  LET kept[i \in 0..Len(s)] ==
        IF i = 0 THEN <<>>
        ELSE IF s[i] \in S THEN Append(kept[i - 1], s[i]) ELSE kept[i - 1]
  IN kept[Len(s)]

(* drain_jobs: those dropped must each be acknowledged. *)
Drain(doomed) ==
  /\ jobs' = Only(jobs, Jobs \ doomed)
  /\ unacknowledged' = unacknowledged \o Only(jobs, doomed)

MutantRemember(j) == Append(cancelled, j)
(* Half the remembered cancels are forgotten at the cap. *)
Remember(j) ==
  LET kept == IF Len(cancelled) >= MaxCancels
                THEN SubSeq(cancelled, MaxCancels \div 2 + 1, Len(cancelled)) ELSE cancelled
  IN  Append(kept, j)

(* Cancel first flags the render in flight, under that lock alone ... *)
ReadCancel ==
  /\ Reading("Cancel")
  /\ Flag({What})
  /\ reading' = "Cancel"
  /\ UNCHANGED <<ends, inbox, Threads, heeded>>

MutantFinishCancel ==
  /\ reading = "Cancel"
  /\ LET j == What IN
     /\ jobs' = Only(jobs, Jobs \ {j})
     /\ cancelled' = Remember(j)
  /\ Read /\ reading' = "none"
  /\ UNCHANGED <<RestOfEnds, control, floor, unacknowledged, shutdown, inFlight, Threads, heeded>>

(* ... and then drains the inbox and remembers the id, under the other. *)
FinishCancel ==
  /\ reading = "Cancel"
  /\ LET j == What IN
     /\ Drain({j})
     /\ cancelled' = Remember(j)
     /\ heeded' = IF main = "check" /\ current = j THEN heeded \cup {j} ELSE heeded
  /\ Read /\ reading' = "none"
  /\ UNCHANGED <<RestOfEnds, control, floor, shutdown, inFlight, Threads>>

(* CancelGeneration: the other order, inbox first. *)
ReadCancelGeneration ==
  /\ Reading("CancelGeneration")
  /\ floor' = What
  /\ cancelled' = <<>>
  /\ LET g == What IN Drain({j \in Jobs : gen[j] < g})
  /\ reading' = "CancelGeneration"
  /\ UNCHANGED <<ends, control, shutdown, inFlight, Threads, heeded>>

(* The render in flight is flagged whatever its generation. *)
FinishCancelGeneration ==
  /\ reading = "CancelGeneration"
  /\ Flag(Jobs)
  /\ Read /\ reading' = "none"
  /\ UNCHANGED <<RestOfEnds, inbox, Threads, heeded>>

(* A job below the floor is dropped without a word. *)
ReadRender ==
  /\ Reading("Render")
  /\ jobs' = IF gen[What] >= floor THEN Append(jobs, What) ELSE jobs
  /\ Read
  /\ UNCHANGED <<RestOfEnds, control, cancelled, floor, unacknowledged, shutdown, inFlight,
                 reading, Threads, heeded>>

(* Shutdown ends the reader; what is in the inbox is still worked through. *)
ReadShutdown ==
  /\ Reading("Shutdown")
  /\ shutdown' = TRUE
  /\ Flag(Jobs)
  /\ reading' = "ended"
  /\ Read
  /\ UNCHANGED <<RestOfEnds, jobs, control, cancelled, floor, unacknowledged, Threads, heeded>>

ReadControl ==
  /\ Reading("Open") \/ Reading("Close") \/ Reading("Question")
  /\ control' = Append(control, Head(pipe))
  /\ Read
  /\ UNCHANGED <<RestOfEnds, jobs, cancelled, floor, unacknowledged, shutdown, inFlight,
                 reading, Threads, heeded>>

Reader ==
  \/ ReadCancel \/ FinishCancel \/ ReadCancelGeneration \/ FinishCancelGeneration
  \/ ReadRender \/ ReadShutdown \/ ReadControl

-----------------------------------------------------------------------------
(* The main thread: run and render_one. *)

(* A reply to job j leaves the process. *)
ReplyTo(j, kind) ==
  /\ reply' = [reply EXCEPT ![j] = kind]
  /\ held' = held \ {j}
  /\ stoppable' = stoppable \ {j}

RestOfReply == <<pipe, sent, gen, top, said, asked, opening>>

(* pick_job: the highest priority, then the oldest. *)
Picked(i) ==
  /\ i \in 1..Len(jobs)
  /\ \A k \in 1..Len(jobs) : \/ Priority[jobs[i]] < Priority[jobs[k]]
                             \/ Priority[jobs[i]] = Priority[jobs[k]] /\ i <= k

Deferrable == control # <<>> /\ Head(control).kind = "Question"
UrgentWork == \E i \in 1..Len(jobs) : Picked(i) /\ Priority[jobs[i]] <= Urgent

(* What was accepted before Shutdown is finished first. *)
Done == shutdown /\ control = <<>> /\ jobs = <<>>

Acknowledge ==
  /\ main = "choose" /\ ~Done /\ unacknowledged # <<>>
  /\ ReplyTo(Last(unacknowledged), "Cancelled")
  /\ unacknowledged' = Front(unacknowledged)
  /\ UNCHANGED <<RestOfReply, jobs, control, cancelled, floor, shutdown, inFlight, reading,
                 Threads, heeded>>

(* A frame a window waits for pre-empts a question at the front of control. *)
TakeJob ==
  /\ main = "choose" /\ ~Done /\ unacknowledged = <<>>
  /\ control = <<>> \/ (Deferrable /\ UrgentWork)
  /\ \E i \in 1..Len(jobs) :
       /\ Picked(i)
       /\ jobs' = RemoveAt(jobs, i)
       /\ current' = jobs[i]
  /\ main' = "check"
  /\ UNCHANGED <<ends, control, cancelled, floor, unacknowledged, shutdown, inFlight, reading,
                 open, heeded>>

(* Otherwise the control request at the front is carried out at once. *)
TakeControl ==
  /\ main = "choose" /\ ~Done /\ unacknowledged = <<>>
  /\ control # <<>> /\ ~(Deferrable /\ UrgentWork)
  /\ control' = Tail(control)
  /\ LET m == Head(control) IN
     \/ /\ m.kind = "Open"
        /\ open' \in {open, open \cup {m.what}}
        /\ opening' = opening \ {m.what}
        /\ UNCHANGED asked
     \/ /\ m.kind = "Close"
        /\ open' = open \ {m.what}
        /\ UNCHANGED <<asked, opening>>
     \/ /\ m.kind = "Question"
        /\ asked' = asked \ {m.what}
        /\ UNCHANGED <<open, opening>>
  /\ UNCHANGED <<pipe, sent, gen, top, said, held, stoppable, reply, jobs, cancelled, floor,
                 unacknowledged, shutdown, inFlight, reading, main, current, heeded>>

Exit ==
  /\ main = "choose" /\ Done
  /\ main' = "exit"
  /\ UNCHANGED <<ends, inbox, inFlight, reading, current, open, heeded>>

FloorOnly(j) == gen[j] < floor
MutantObsolete(j) == gen[j] <= floor \/ j \in Range(cancelled)
(* render_one looks at the floor and the remembered cancels once ... *)
Obsolete(j) == gen[j] < floor \/ j \in Range(cancelled)

CheckObsolete ==
  /\ main = "check" /\ Obsolete(current)
  /\ ReplyTo(current, "Cancelled")
  /\ main' = "choose" /\ current' = None
  /\ UNCHANGED <<RestOfReply, inbox, inFlight, reading, open, heeded>>

CheckPassed ==
  /\ main = "check" /\ ~Obsolete(current)
  /\ main' = "prepare"
  /\ UNCHANGED <<ends, inbox, inFlight, reading, current, open, heeded>>

(* ... fails a job whose document is not open, or whose region will not map *)
PrepareFails ==
  /\ main = "prepare"
  /\ ReplyTo(current, "RenderFailed")
  /\ main' = "choose" /\ current' = None
  /\ UNCHANGED <<RestOfReply, inbox, inFlight, reading, open, heeded>>

(* ... and only then publishes the flag a cancel can raise. *)
Begin ==
  /\ main = "prepare" /\ DocOf[current] \in open
  /\ inFlight' = [id |-> current, stop |-> FALSE]
  /\ main' = "draw"
  /\ UNCHANGED <<ends, inbox, reading, current, open, heeded>>

(* The backend may notice the flag, or finish or fail first. *)
Draw(kind) ==
  /\ main = "draw"
  /\ kind = "Cancelled" => inFlight.stop
  /\ ReplyTo(current, kind)
  /\ inFlight' = Idle
  /\ main' = "choose" /\ current' = None
  /\ UNCHANGED <<RestOfReply, inbox, reading, open, heeded>>

Main ==
  \/ Acknowledge \/ TakeJob \/ TakeControl \/ Exit \/ CheckObsolete \/ CheckPassed
  \/ PrepareFails \/ Begin \/ \E kind \in {"Rendered", "RenderFailed", "Cancelled"} : Draw(kind)

Next == Supervisor \/ Reader \/ Main

Spec == Init /\ [][Next]_vars

(* Both threads are scheduled; nothing makes the supervisor write. *)
FairSpec == Spec /\ WF_vars(Reader) /\ WF_vars(Main)

-----------------------------------------------------------------------------
(* Properties. *)

Requests == [kind : {"Render", "Cancel", "CancelGeneration", "Open", "Close", "Question", "Shutdown"},
             what : Nat \cup Docs \cup Questions]

(* Every variable has the shape its field has in the code. *)
TypeOK ==
  /\ pipe \in Seq(Requests) /\ control \in Seq(Requests)
  /\ sent \in 0..JobCount /\ gen \in [Jobs -> Nat] /\ top \in Nat /\ floor \in Nat
  /\ held \subseteq Jobs /\ stoppable \subseteq held
  /\ asked \subseteq Questions /\ opening \subseteq Docs /\ open \subseteq Docs
  /\ jobs \in Seq(Jobs) /\ cancelled \in Seq(Jobs \cup Elsewhere) /\ unacknowledged \in Seq(Jobs)
  /\ Len(cancelled) <= MaxCancels
  /\ shutdown \in BOOLEAN
  /\ inFlight \in [id : Jobs \cup {None}, stop : BOOLEAN]
  /\ reading \in {"none", "Cancel", "CancelGeneration", "ended"}
  /\ main \in {"choose", "check", "prepare", "draw", "exit"}
  /\ current \in Jobs \cup {None}

(* The process keeps the contract the supervisor counts on: one reply per    *)
(* job, Cancelled only for a stop written after the job, one answer per      *)
(* question and per open.                                                    *)
Contract == INSTANCE WorkerContract
KeepsContract == Contract!Spec

(* Every job written to a process that is not replaced is replied to,        *)
(* whatever is cancelled, asked or opened meanwhile.                         *)
RepliesEnd == \A j \in Jobs : j \in held ~> j \notin held

(* "Queued work already accepted is finished": a process that leaves its     *)
(* loop after Shutdown owes no reply, no answer and no report of an open.    *)
ShutdownFinishes == main = "exit" => held = {} /\ asked = {} /\ opening = {}

(* A job whose Cancel was read whole before the main thread looked at the    *)
(* list is not rendered all the same, though it had left the queue and had   *)
(* no flag yet: unless the generation moved on, which clears the list, or    *)
(* more cancels came than are remembered.                                    *)
CancelHeeded ==
  /\ current \in heeded /\ top = 0
  /\ Cardinality({r \in said : r[1] = "Cancel"}) <= MaxCancels
  => main \notin {"prepare", "draw"}

(* A shutdown and a cancel do what they are for, whatever they race with. *)
OrdersHeeded == ShutdownFinishes /\ CancelHeeded
=============================================================================
