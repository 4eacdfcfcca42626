----------------------------- MODULE RenderPool -----------------------------
(***************************************************************************)
(* The renderer supervisor: a queue of render jobs, a pool of worker       *)
(* processes that grows, crashes, is restarted, gives up and is retired,   *)
(* and the application's ledger of the requests it still waits for.        *)
(*                                                                         *)
(* Source: crates/pulpit-render/src/supervisor.rs, with the ledger of      *)
(* crates/pulpit/src/app.rs (submit_render, cancel_renders,                *)
(* invalidate_renders, take_pending).                                      *)
(*                                                                         *)
(* The supervisor is single threaded: `pc` says where in pump_bounded or   *)
(* submit it is, and the worker processes and their reader threads run     *)
(* between any two of its steps.  A process appears here only through its  *)
(* contract (module RenderWorker models its inside): it holds what it was  *)
(* sent and, unless it hangs or dies, answers each item once.              *)
(***************************************************************************)
EXTENDS Integers, Sequences, FiniteSets

CONSTANTS
  JobCount,        \* bound: requests ever made; ids are 1..JobCount
  Generation,      \* [Jobs -> Nat]: RenderJob::generation
  Priority,        \* [Jobs -> Nat]: RenderJob::priority, smallest first
  Bytes,           \* [Jobs -> Nat]: RenderJob::byte_len
  InlineFrame,     \* INLINE_FRAME_BYTES: larger frames go through the region
  InlineCap,       \* MAX_INLINE_IN_FLIGHT_BYTES
  Depth,           \* SMALL_PIPELINE_DEPTH
  PoolSize,        \* config.workers
  MaxRestarts,     \* config.max_restarts
  Docs,            \* document ids
  Questions,       \* requests sent through ask()
  Topic,           \* [Questions -> topic]: what request_answers compares
  MaxSlots,        \* bound: slots the pool may reach
  MaxEpochs,       \* bound: processes ever spawned
  MaxFaults,       \* bound: crashes, hangs and failed system calls
  MaxFloor,        \* bound: generations the application moves through
  MaxOpens,        \* bound: times one document id is opened
  Budget           \* bound: all of these and the questions, together

Jobs == 1..JobCount

ASSUME PoolAssumption ==
  /\ JobCount \in Nat
  /\ Generation \in [Jobs -> Nat]
  /\ Priority \in [Jobs -> Nat]
  /\ Bytes \in [Jobs -> Nat]
  /\ InlineFrame \in Nat /\ InlineCap \in Nat
  /\ Depth \in Nat \ {0} /\ PoolSize \in Nat \ {0}
  /\ MaxRestarts \in Nat
  /\ MaxSlots \in Nat \ {0} /\ MaxEpochs \in Nat \ {0}
  /\ MaxFaults \in Nat /\ MaxFloor \in Nat /\ MaxOpens \in Nat /\ Budget \in Nat

VARIABLES
  pc,         \* where the event-loop thread is
  todo,       \* slots the current loop of the pump has still to visit
  next,       \* next_request: ids given out so far
  queue,      \* RendererSupervisor::queue; FIFO order is id order
  floor,      \* generation_floor
  slot,       \* workers: the record of each slot
  size,       \* workers.len()
  epochs,     \* the last epoch given out
  documents,  \* documents the supervisor replays to new workers
  reported,   \* reported_open
  owed,       \* answers the supervisor itself owes, as <<job, kind>>
  events,     \* the channel of worker messages, oldest first
  proc,       \* the process of each epoch
  waiting,    \* App::pending: requests not answered and not given up
  answers,    \* every answer each job was ever given, in order
  picture,    \* the job whose pixels each job's frame carried
  status,     \* what became of each question, one of Fates
  reports,    \* Opened/OpenFailed events since the document was last opened or closed
  opens,      \* times each document was opened
  faults      \* faults so far

super == <<pc, todo, next, queue, floor, slot, size, epochs, documents, reported, owed>>
app == <<waiting, answers, picture, status, reports, opens>>
vars == <<super, events, proc, app, faults>>

Slots == 1..MaxSlots
Epochs == 1..MaxEpochs
None == 0

Phases == {"idle", "drain", "drained", "kill", "retry", "retire", "dispatch", "submitted"}
AnswerKinds == {"Frame", "Failed", "Cancelled"}

(* A question is not yet asked; asked while nobody could hear it; put to a  *)
(* worker; answered; or lost, with the slot that had it or in a replay.     *)
Fates == {"new", "unheard", "asked", "answered", "retired", "dropped"}

(* A slot no worker has: beyond workers.len(). *)
Vacant == [epoch |-> None, alive |-> FALSE, inFlight |-> {}, asked |-> {},
           recent |-> 0, backoff |-> "none", silent |-> FALSE]

(* Worker as spawn_worker builds it. *)
Fresh(e) == [Vacant EXCEPT !.epoch = e, !.alive = TRUE]

NoProcess == [run |-> "none", at |-> None, jobs |-> {}, asks |-> {}, docs |-> {},
              opening |-> [d \in Docs |-> 0], stoppable |-> {}, region |-> None]

MutantSpawned(i, qs) == [NoProcess EXCEPT !.run = "up", !.at = i]
(* A process that has been sent Hello, the open documents and questions qs. *)
Spawned(i, qs) ==
  [NoProcess EXCEPT !.run = "up", !.at = i, !.asks = qs, !.docs = documents,
                    !.opening = [d \in Docs |-> IF d \in documents THEN 1 ELSE 0]]

Inline(j) == Bytes[j] <= InlineFrame

InlineBytes[S \in SUBSET Jobs] ==
  IF S = {} THEN 0
  ELSE LET j == CHOOSE k \in S : TRUE
       IN  (IF Inline(j) THEN Bytes[j] ELSE 0) + InlineBytes[S \ {j}]

Live == {i \in 1..size : slot[i].alive}

(* worker_count() *)
WorkerCount == Cardinality(Live)

(* A process is "late" once it speaks again after hanging; "exited" while its *)
(* reader thread has not reached the end of its pipe, then "closed".         *)
Running == {"up", "hung", "late"}

(* The pool runs as many processes as it may: dead slots do not count. *)
PoolFull == WorkerCount >= PoolSize

(* The pipe to a process takes a write for as long as the process runs. *)
Writable(i) == proc[slot[i].epoch].run \in Running

(* Live workers that hear a broadcast. *)
Hearing == {slot[i].epoch : i \in {k \in Live : Writable(k)}}

Init ==
  /\ pc = "idle" /\ todo = {} /\ next = 0 /\ queue = {} /\ floor = 0
  /\ slot = [i \in Slots |-> IF i = 1 THEN Fresh(1) ELSE Vacant]
  /\ size = 1 /\ epochs = 1
  /\ documents = {} /\ reported = {} /\ owed = {}
  /\ events = <<>>
  /\ proc = [e \in Epochs |->
               IF e = 1 THEN [NoProcess EXCEPT !.run = "up", !.at = 1] ELSE NoProcess]
  /\ waiting = {}
  /\ answers = [j \in Jobs |-> <<>>]
  /\ picture = [j \in Jobs |-> j]
  /\ status = [q \in Questions |-> "new"]
  /\ reports = [d \in Docs |-> 0]
  /\ opens = [d \in Docs |-> 0]
  /\ faults = 0

(* Requests, questions, opens, generations and faults so far. *)
Spent == next + Cardinality({q \in Questions : status[q] # "new"})
         + Cardinality({p \in Docs \X (1..MaxOpens) : p[2] <= opens[p[1]]})
         + floor + faults

-----------------------------------------------------------------------------
(* The application's calls: only between pumps. *)

(* Answers reach the application: take_pending forgets each job named. *)
Answer(js, kind) ==
  /\ answers' = [j \in Jobs |-> IF j \in js THEN Append(answers[j], kind) ELSE answers[j]]
  /\ waiting' = waiting \ js

(* submit_render: next_request_id, then submit. *)
Submit(j) ==
  /\ pc = "idle" /\ j = next + 1 /\ Spent < Budget
  /\ next' = j
  /\ waiting' = waiting \cup {j}
  /\ IF Generation[j] < floor
       THEN /\ owed' = owed \cup {<<j, "Cancelled">>}
            /\ UNCHANGED <<queue, pc>>
       ELSE /\ queue' = queue \cup {j}
            /\ pc' = "submitted"
            /\ UNCHANGED owed
  /\ UNCHANGED <<todo, floor, slot, size, epochs, documents, reported, events, proc,
                 answers, picture, status, reports, opens, faults>>

(* cancel_renders for one obsolete request, and supervisor.cancel. *)
CancelRender(j) ==
  /\ pc = "idle" /\ j \in waiting
  /\ waiting' = waiting \ {j}
  /\ queue' = queue \ {j}
  /\ proc' = [e \in Epochs |->
                IF e \in Hearing THEN [proc[e] EXCEPT !.stoppable = @ \cup ({j} \cap proc[e].jobs)]
                ELSE proc[e]]
  /\ UNCHANGED <<pc, todo, next, floor, slot, size, epochs, documents, reported, owed, events,
                 answers, picture, status, reports, opens, faults>>

(* invalidate_renders: cancel_older_than, then the sweep of plan_renders     *)
(* gives up every older request.  A process may stop any job it holds: the  *)
(* one it is rendering is flagged whatever its generation.                  *)
Invalidate(g) ==
  /\ pc = "idle" /\ g > floor /\ g <= MaxFloor /\ Spent < Budget
  /\ floor' = g
  /\ queue' = {j \in queue : Generation[j] >= g}
  /\ waiting' = {j \in waiting : Generation[j] >= g}
  /\ proc' = [e \in Epochs |->
                IF e \in Hearing THEN [proc[e] EXCEPT !.stoppable = proc[e].jobs] ELSE proc[e]]
  /\ UNCHANGED <<pc, todo, next, slot, size, epochs, documents, reported, owed, events,
                 answers, picture, status, reports, opens, faults>>

(* The first of the workers in S with the fewest jobs in flight. *)
LeastLoaded(i, S) ==
  /\ i \in S
  /\ \A k \in S : \/ Cardinality(slot[i].inFlight) < Cardinality(slot[k].inFlight)
                  \/ /\ Cardinality(slot[i].inFlight) = Cardinality(slot[k].inFlight)
                     /\ i <= k

(* ask: one write to the least loaded live worker; nobody hears it if there *)
(* is none, or if the write fails.                                          *)
Ask(q) ==
  /\ pc = "idle" /\ status[q] = "new" /\ Spent < Budget
  /\ \/ \E i \in Live :
          /\ LeastLoaded(i, Live) /\ Writable(i)
          /\ slot' = [slot EXCEPT ![i].asked = @ \cup {q}]
          /\ proc' = [proc EXCEPT ![slot[i].epoch].asks = @ \cup {q}]
          /\ status' = [status EXCEPT ![q] = "asked"]
     \/ /\ \A i \in Live : LeastLoaded(i, Live) => ~Writable(i)
        /\ status' = [status EXCEPT ![q] = "unheard"]
        /\ UNCHANGED <<slot, proc>>
  /\ UNCHANGED <<pc, todo, next, queue, floor, size, epochs, documents, reported, owed, events,
                 waiting, answers, picture, reports, opens, faults>>

Open(d) ==
  /\ pc = "idle" /\ d \notin documents /\ opens[d] < MaxOpens /\ Spent < Budget
  /\ documents' = documents \cup {d}
  /\ reported' = reported \ {d}
  /\ proc' = [e \in Epochs |->
                IF e \in Hearing THEN [proc[e] EXCEPT !.docs = @ \cup {d}, !.opening[d] = @ + 1] ELSE proc[e]]
  /\ reports' = [reports EXCEPT ![d] = 0]
  /\ opens' = [opens EXCEPT ![d] = @ + 1]
  /\ UNCHANGED <<pc, todo, next, queue, floor, slot, size, epochs, owed, events,
                 waiting, answers, picture, status, faults>>

(* close: a worker still answers the Open it was sent before the Close. *)
Close(d) ==
  /\ pc = "idle" /\ d \in documents
  /\ documents' = documents \ {d}
  /\ reported' = reported \ {d}
  /\ proc' = [e \in Epochs |->
                IF e \in Hearing THEN [proc[e] EXCEPT !.docs = @ \ {d}] ELSE proc[e]]
  /\ reports' = [reports EXCEPT ![d] = 0]
  /\ UNCHANGED <<pc, todo, next, queue, floor, slot, size, epochs, owed, events,
                 waiting, answers, picture, status, opens, faults>>

-----------------------------------------------------------------------------
(* pump_bounded. *)

PumpStart ==
  /\ pc = "idle"
  /\ pc' = "drain"
  /\ UNCHANGED <<todo, next, queue, floor, slot, size, epochs, documents, reported, owed,
                 events, proc, app, faults>>

MutantCurrent(m) == m.at <= size
(* A message from the process the slot has now. *)
Current(m) == m.at <= size /\ slot[m.at].epoch = m.epoch

(* Any message is proof of life, and an answer clears what it answers. *)
Heard(m) ==
  [slot EXCEPT ![m.at].silent = FALSE,
               ![m.at].asked = IF m.kind = "Answer"
                                 THEN {q \in @ : Topic[q] # Topic[m.what]} ELSE @]

(* in_flight.remove: the worker in slot i no longer holds job j. *)
Finished(s, i, j) == [s EXCEPT ![i].inFlight = @ \ {j}]

MutantHandleRendered(m, heard) ==
  /\ slot' = heard
  /\ Answer({m.what}, "Frame")
  /\ UNCHANGED picture
(* What handle does with the payload, given the slots after Heard. *)
HandleRendered(m, heard) ==
  IF m.what \in heard[m.at].inFlight
    THEN /\ slot' = Finished(heard, m.at, m.what)
         /\ IF Generation[m.what] < floor
              THEN /\ Answer({m.what}, "Cancelled")
                   /\ UNCHANGED picture
              ELSE /\ Answer({m.what}, "Frame")
                   /\ picture' = [picture EXCEPT ![m.what] =
                                    IF Inline(m.what) THEN @ ELSE proc[m.epoch].region]
    ELSE /\ slot' = heard
         /\ UNCHANGED <<answers, waiting, picture>>

HandleFailed(m, heard) ==
  /\ UNCHANGED picture
  /\ IF m.what \in heard[m.at].inFlight
       THEN /\ slot' = Finished(heard, m.at, m.what)
            /\ Answer({m.what}, "Failed")
       ELSE /\ slot' = heard
            /\ UNCHANGED <<answers, waiting>>

(* Cancelled is reported whether or not the job was still in flight. *)
HandleCancelled(m, heard) ==
  /\ slot' = Finished(heard, m.at, m.what)
  /\ Answer({m.what}, "Cancelled")
  /\ UNCHANGED picture

(* Only the first answer between an open and its close is reported. *)
HandleOpened(m, heard) ==
  /\ slot' = heard
  /\ reported' = reported \cup {m.what}
  /\ reports' = IF m.what \in reported THEN reports ELSE [reports EXCEPT ![m.what] = @ + 1]

HandleAnswer(m, heard) ==
  /\ slot' = heard
  /\ status' = [status EXCEPT ![m.what] = "answered"]

(* child.kill and wait: what the process wrote is still in its pipe. *)
Ended(e) == [proc EXCEPT ![e].run = IF @ = "closed" THEN @ ELSE "exited"]

MutantGaveUp(s, i, recent) ==
  [s EXCEPT ![i].alive = FALSE, ![i].recent = recent, ![i].backoff = "waiting"]
(* The slot of a worker that is dead until its backoff is over; it keeps its *)
(* epoch and its questions.                                                  *)
GaveUp(s, i, recent) ==
  [s EXCEPT ![i].alive = FALSE, ![i].inFlight = {}, ![i].recent = recent,
            ![i].backoff = "waiting"]

(* A system call fails, or a process does: a fault of the environment. *)
Fault == /\ faults < MaxFaults /\ Spent < Budget
         /\ faults' = faults + 1

MutantReplay(s, i) == {}
(* The questions a replacement is to be asked again: all not yet answered. *)
Replay(s, i) == s[i].asked

(* A replacement that dies while it is being told (run "exited") has been   *)
(* asked only some of them, and the rest, whose write failed, are dropped.  *)
Replayed(s, i, kept, run) ==
  /\ kept \subseteq Replay(s, i)
  /\ \/ run = "up" /\ kept = Replay(s, i) /\ UNCHANGED faults
     \/ run = "exited" /\ Fault
  /\ status' = [q \in Questions |->
       IF q \in Replay(s, i) \ kept /\ status[q] = "asked" THEN "dropped" ELSE status[q]]

(* respawn: a new process, replaying documents and unanswered questions. *)
Respawn(s, p, i, recent) ==
  /\ epochs < MaxEpochs
  /\ epochs' = epochs + 1
  /\ \E kept \in SUBSET Questions, run \in {"up", "exited"} :
       /\ Replayed(s, i, kept, run)
       /\ slot' = [s EXCEPT ![i] = [Fresh(epochs + 1) EXCEPT !.asked = kept, !.recent = recent]]
       /\ proc' = [p EXCEPT ![epochs + 1] = [Spawned(i, kept) EXCEPT !.run = run]]

MutantFailAll(js) == UNCHANGED <<answers, waiting>>
(* Every job in flight on a worker that dies is answered. *)
FailAll(js) == Answer(js, "Failed")

(* Kill the worker in slot i: fail what it held, then restart it if fewer   *)
(* than the budget of restarts fell inside the window, else back off.       *)
(* Older restarts may have left the window, so the count is a choice.       *)
Kill(s, i) ==
  /\ FailAll(s[i].inFlight)
  /\ \E recent \in 1..(s[i].recent + 1) :
       \/ /\ recent > MaxRestarts
          /\ slot' = GaveUp(s, i, recent)
          /\ proc' = Ended(s[i].epoch)
          /\ UNCHANGED <<epochs, status, faults>>
       \/ /\ recent <= MaxRestarts
          /\ Respawn(s, Ended(s[i].epoch), i, recent)
       \/ /\ recent <= MaxRestarts /\ Fault
          /\ slot' = GaveUp(s, i, recent)
          /\ proc' = Ended(s[i].epoch)
          /\ UNCHANGED <<epochs, status>>

(* handle: a message of a process that was replaced is dropped whole.  The  *)
(* limit of pump_bounded may end the drain after any message.               *)
HandleMessage ==
  /\ pc \in {"drain", "drained"} /\ events # <<>>
  /\ pc' = "drained"
  /\ events' = Tail(events)
  /\ LET m == Head(events)  heard == Heard(m) IN
     \/ /\ ~Current(m)
        /\ UNCHANGED <<slot, epochs, reported, proc, app, faults>>
     \/ /\ Current(m) /\ m.kind = "Rendered" /\ HandleRendered(m, heard)
        /\ UNCHANGED <<epochs, reported, proc, status, reports, opens, faults>>
     \/ /\ Current(m) /\ m.kind = "RenderFailed" /\ HandleFailed(m, heard)
        /\ UNCHANGED <<epochs, reported, proc, status, reports, opens, faults>>
     \/ /\ Current(m) /\ m.kind = "Cancelled" /\ HandleCancelled(m, heard)
        /\ UNCHANGED <<epochs, reported, proc, status, reports, opens, faults>>
     \/ /\ Current(m) /\ m.kind = "Opened" /\ HandleOpened(m, heard)
        /\ UNCHANGED <<epochs, proc, waiting, answers, picture, status, opens, faults>>
     \/ /\ Current(m) /\ m.kind = "Answer" /\ HandleAnswer(m, heard)
        /\ UNCHANGED <<epochs, reported, proc, waiting, answers, picture, reports, opens, faults>>
     \/ /\ Current(m) /\ m.kind = "Died" /\ slot[m.at].alive /\ Kill(heard, m.at)
        /\ UNCHANGED <<reported, picture, reports, opens>>
     \/ /\ Current(m) /\ m.kind = "Died" /\ ~slot[m.at].alive
        /\ slot' = heard
        /\ UNCHANGED <<epochs, reported, proc, app, faults>>
  /\ UNCHANGED <<todo, next, queue, floor, size, documents, owed>>

(* A worker silent past its deadline while it holds work. *)
Overdue(i) == slot[i].silent /\ slot[i].inFlight # {}

MutantDoomed == {i \in Live : proc[slot[i].epoch].run \in {"exited", "closed"}}
(* enforce_deadlines and reap name their workers before they kill any. *)
Doomed == {i \in Live : Overdue(i) \/ proc[slot[i].epoch].run \in {"exited", "closed"}}

DrainEnd ==
  /\ pc = "drained" \/ (pc = "drain" /\ events = <<>>)
  /\ pc' = "kill"
  /\ todo' = Doomed
  /\ UNCHANGED <<next, queue, floor, slot, size, epochs, documents, reported, owed,
                 events, proc, app, faults>>

First(i, S) == i \in S /\ \A k \in S : i <= k

KillDoomed(i) ==
  /\ pc = "kill" /\ First(i, todo)
  /\ todo' = todo \ {i}
  /\ Kill(slot, i)
  /\ UNCHANGED <<pc, next, queue, floor, size, documents, reported, owed, events,
                 picture, reports, opens>>

(* retry_backoff visits every slot whose backoff is over. *)
KillEnd ==
  /\ pc = "kill" /\ todo = {}
  /\ pc' = "retry"
  /\ todo' = {i \in 1..size : slot[i].backoff = "due"}
  /\ UNCHANGED <<next, queue, floor, slot, size, epochs, documents, reported, owed,
                 events, proc, app, faults>>

RetryBackoff(i) ==
  /\ pc = "retry" /\ First(i, todo)
  /\ \/ /\ PoolFull
        /\ todo' = {}
        /\ UNCHANGED <<slot, epochs, proc, status, faults>>
     \/ /\ ~PoolFull
        /\ todo' = todo \ {i}
        /\ Respawn(slot, proc, i, slot[i].recent)
     \/ /\ ~PoolFull /\ Fault
        /\ todo' = todo \ {i}
        /\ slot' = [slot EXCEPT ![i].backoff = "waiting"]
        /\ UNCHANGED <<epochs, proc, status>>
  /\ UNCHANGED <<pc, next, queue, floor, size, documents, reported, owed, events,
                 waiting, answers, picture, reports, opens>>

RetryEnd ==
  /\ pc = "retry" /\ todo = {}
  /\ pc' = "retire"
  /\ UNCHANGED <<todo, next, queue, floor, slot, size, epochs, documents, reported, owed,
                 events, proc, app, faults>>

(* retire_idle pops the last slot: one given up beyond the configured pool, *)
(* or a live worker that has been idle and silent.                          *)
RetireGivenUp ==
  /\ pc = "retire" /\ size > PoolSize
  /\ ~slot[size].alive /\ slot[size].backoff # "none"
  /\ slot' = [slot EXCEPT ![size] = Vacant]
  /\ size' = size - 1
  /\ UNCHANGED proc

MutantRetirable ==
  queue = {} /\ slot[size].alive /\ slot[size].inFlight = {} /\ slot[size].silent
(* The last worker, never the only one, and only while nothing is queued. *)
Retirable ==
  /\ queue = {} /\ size > 1
  /\ slot[size].alive /\ slot[size].inFlight = {} /\ slot[size].silent

RetireIdle ==
  /\ pc = "retire" /\ Retirable
  /\ slot' = [slot EXCEPT ![size] = Vacant]
  /\ size' = size - 1
  /\ proc' = Ended(slot[size].epoch)

(* The questions of the popped slot go with it. *)
Retire ==
  /\ RetireGivenUp \/ RetireIdle
  /\ status' = [q \in Questions |-> IF q \in slot[size].asked THEN "retired" ELSE status[q]]
  /\ UNCHANGED <<pc, todo, next, queue, floor, epochs, documents, reported, owed, events,
                 waiting, answers, picture, reports, opens, faults>>

RetireEnd ==
  /\ pc = "retire"
  /\ ~(size > PoolSize /\ ~slot[size].alive /\ slot[size].backoff # "none")
  /\ ~Retirable
  /\ pc' = "dispatch"
  /\ UNCHANGED <<todo, next, queue, floor, slot, size, epochs, documents, reported, owed,
                 events, proc, app, faults>>

-----------------------------------------------------------------------------
(* dispatch, from submit or from the end of a pump. *)

Dispatching == pc \in {"dispatch", "submitted"}

MutantEligible(i, j) == slot[i].alive /\ Cardinality(slot[i].inFlight) < Depth
(* A worker can be handed a job: one large frame at a time, since the region *)
(* is its result buffer, and small frames up to a total of bytes.            *)
Eligible(i, j) ==
  /\ slot[i].alive
  /\ Cardinality(slot[i].inFlight) < Depth
  /\ IF Inline(j)
       THEN InlineBytes[slot[i].inFlight] + Bytes[j] <= InlineCap
       ELSE \A k \in slot[i].inFlight : Inline(k)

Takers(j) == {i \in 1..size : Eligible(i, j)}

Before(j, k) == Priority[j] < Priority[k] \/ (Priority[j] = Priority[k] /\ j <= k)

(* The first queued job, by priority and age, that some worker can take. *)
Choice(j) ==
  /\ j \in queue /\ Takers(j) # {}
  /\ \A k \in queue : Takers(k) # {} => Before(j, k)

(* Hand the choice to the least loaded worker that can take it. *)
Dispatch(j, i) ==
  /\ Dispatching /\ Choice(j) /\ LeastLoaded(i, Takers(j)) /\ Writable(i)
  /\ queue' = queue \ {j}
  /\ slot' = [slot EXCEPT ![i].inFlight = @ \cup {j},
                          ![i].silent = IF slot[i].inFlight = {} THEN FALSE ELSE @]
  /\ proc' = [proc EXCEPT ![slot[i].epoch].jobs = @ \cup {j}]
  /\ UNCHANGED <<pc, todo, next, floor, size, epochs, documents, reported, owed, events,
                 app, faults>>

(* The shared region cannot be sized: the job is failed, not dropped. *)
DispatchUnsized(j) ==
  /\ Dispatching /\ Choice(j) /\ ~Inline(j) /\ Fault
  /\ queue' = queue \ {j}
  /\ owed' = owed \cup {<<j, "Failed">>}
  /\ UNCHANGED <<pc, todo, next, floor, slot, size, epochs, documents, reported, events,
                 proc, app>>

Stuck == \A j \in queue : Takers(j) = {}

(* Nobody can take the waiting work: spawn_additional_worker. *)
Grow ==
  /\ Dispatching /\ queue # {} /\ Stuck
  /\ ~PoolFull /\ epochs < MaxEpochs /\ size < MaxSlots
  /\ epochs' = epochs + 1
  /\ size' = size + 1
  /\ slot' = [slot EXCEPT ![size + 1] = Fresh(epochs + 1)]
  /\ proc' = [proc EXCEPT ![epochs + 1] = Spawned(size + 1, {})]
  /\ UNCHANGED <<pc, todo, next, queue, floor, documents, reported, owed, events, app, faults>>

(* The end of a pump hands over what the supervisor owes; the dispatch of a *)
(* submit leaves it for the next pump.                                      *)
Leave ==
  IF pc = "dispatch"
    THEN /\ owed' = {}
         /\ answers' = [j \in Jobs |->
              LET kinds == {kind \in AnswerKinds : <<j, kind>> \in owed} IN
              IF kinds = {} THEN answers[j] ELSE Append(answers[j], CHOOSE kind \in kinds : TRUE)]
         /\ waiting' = {j \in waiting : \A kind \in AnswerKinds : <<j, kind>> \notin owed}
    ELSE UNCHANGED <<owed, answers, waiting>>

(* Dispatch ends when nothing is left, when nobody can take what is left    *)
(* and the pool cannot grow, or when a pipe turns out to be gone.           *)
DispatchEnd ==
  /\ Dispatching
  /\ \/ queue = {} /\ UNCHANGED faults
     \/ /\ queue # {} /\ Stuck
        /\ \/ PoolFull /\ UNCHANGED faults
           \/ ~PoolFull /\ Fault
     \/ /\ \E j \in queue, i \in 1..size :
             Choice(j) /\ LeastLoaded(i, Takers(j)) /\ ~Writable(i)
        /\ UNCHANGED faults
  /\ pc' = "idle"
  /\ Leave
  /\ UNCHANGED <<todo, next, queue, floor, slot, size, epochs, documents, reported, events,
                 proc, picture, status, reports, opens>>

-----------------------------------------------------------------------------
(* The processes and their reader threads. *)

Send(e, kind, what) ==
  events' = Append(events, [at |-> proc[e].at, epoch |-> e, kind |-> kind, what |-> what])

(* What a process wrote before it ended is still read from its pipe. *)
Speaking(e) == proc[e].run \in {"up", "late", "exited"}

RenderAnswers == {"Rendered", "RenderFailed", "Cancelled"}

(* One reply per job; Cancelled only once it was told to stop.  Rendering a *)
(* large frame overwrites the region the process shares with the supervisor. *)
ReplyJob(e, j, kind) ==
  /\ Speaking(e) /\ j \in proc[e].jobs
  /\ kind = "Cancelled" => j \in proc[e].stoppable
  /\ Send(e, kind, j)
  /\ proc' = [proc EXCEPT ![e].jobs = @ \ {j},
                          ![e].stoppable = @ \ {j},
                          ![e].region = IF Inline(j) THEN @ ELSE j]

ReplyQuestion(e, q) ==
  /\ Speaking(e) /\ q \in proc[e].asks
  /\ Send(e, "Answer", q)
  /\ proc' = [proc EXCEPT ![e].asks = @ \ {q}]

ReplyOpen(e, d) ==
  /\ Speaking(e) /\ proc[e].opening[d] > 0
  /\ Send(e, "Opened", d)
  /\ proc' = [proc EXCEPT ![e].opening[d] = @ - 1]

(* The reader thread reaches the end of the pipe. *)
ReaderEnd(e) ==
  /\ proc[e].run = "exited"
  /\ Send(e, "Died", None)
  /\ proc' = [proc EXCEPT ![e] = [NoProcess EXCEPT !.run = "closed", !.at = proc[e].at,
                                                !.region = proc[e].region]]

Process(e) ==
  /\ \/ \E j \in Jobs, kind \in RenderAnswers : ReplyJob(e, j, kind)
     \/ \E q \in Questions : ReplyQuestion(e, q)
     \/ \E d \in Docs : ReplyOpen(e, d)
     \/ ReaderEnd(e)
  /\ UNCHANGED <<super, app, faults>>

Crash(e) ==
  /\ proc[e].run \in Running /\ Fault
  /\ proc' = [proc EXCEPT ![e].run = "exited"]
  /\ UNCHANGED <<super, events, app>>

Hang(e) ==
  /\ proc[e].run = "up" /\ Fault
  /\ proc' = [proc EXCEPT ![e].run = "hung"]
  /\ UNCHANGED <<super, events, app>>

Resume(e) ==
  /\ proc[e].run = "hung"
  /\ proc' = [proc EXCEPT ![e].run = "late"]
  /\ UNCHANGED <<super, events, app, faults>>

(* Time passes.  A worker's silence outlasts the deadline while it has no   *)
(* work, or because it hangs; a backoff window ends.                        *)
SilencePasses(i) ==
  /\ i <= size /\ slot[i].alive /\ ~slot[i].silent
  /\ slot[i].inFlight = {} \/ proc[slot[i].epoch].run = "hung"
  /\ slot' = [slot EXCEPT ![i].silent = TRUE]
  /\ UNCHANGED <<pc, todo, next, queue, floor, size, epochs, documents, reported, owed,
                 events, proc, app, faults>>

BackoffPasses(i) ==
  /\ i <= size /\ slot[i].backoff = "waiting"
  /\ slot' = [slot EXCEPT ![i].backoff = "due"]
  /\ UNCHANGED <<pc, todo, next, queue, floor, size, epochs, documents, reported, owed,
                 events, proc, app, faults>>

-----------------------------------------------------------------------------
Pump ==
  \/ PumpStart \/ HandleMessage \/ DrainEnd \/ KillEnd \/ RetryEnd \/ Retire \/ RetireEnd
  \/ \E i \in Slots : KillDoomed(i) \/ RetryBackoff(i)
  \/ \E j \in Jobs : DispatchUnsized(j) \/ \E i \in Slots : Dispatch(j, i)
  \/ Grow \/ DispatchEnd

Application ==
  \/ \E j \in Jobs : Submit(j) \/ CancelRender(j)
  \/ \E g \in 1..MaxFloor : Invalidate(g)
  \/ \E q \in Questions : Ask(q)
  \/ \E d \in Docs : Open(d) \/ Close(d)

Environment ==
  \/ \E e \in Epochs : Process(e) \/ Crash(e) \/ Hang(e) \/ Resume(e)
  \/ \E i \in Slots : SilencePasses(i) \/ BackoffPasses(i)

Next == Pump \/ Application \/ Environment

Spec == Init /\ [][Next]_vars

(* The event loop pumps on every tick and every ring of the doorbell, and a  *)
(* pump always returns.  A process that does not hang works through what it  *)
(* holds, its reader thread reads the pipe to its end, and clocks advance.   *)
(* Nothing makes a hung process resume, and no fault or call is fair.        *)
Fairness ==
  /\ WF_vars(Pump)
  /\ \A e \in Epochs : WF_vars(Process(e))
  /\ \A i \in Slots : WF_vars(SilencePasses(i)) /\ WF_vars(BackoffPasses(i))

FairSpec == Spec /\ Fairness

-----------------------------------------------------------------------------
(* Properties. *)

SlotType ==
  [epoch : 0..MaxEpochs, alive : BOOLEAN, inFlight : SUBSET Jobs, asked : SUBSET Questions,
   recent : Nat, backoff : {"none", "waiting", "due"}, silent : BOOLEAN]

ProcType ==
  [run : {"none", "exited", "closed"} \cup Running, at : 0..MaxSlots, jobs : SUBSET Jobs,
   asks : SUBSET Questions, docs : SUBSET Docs, opening : [Docs -> Nat],
   stoppable : SUBSET Jobs, region : Jobs \cup {None}]

Said(kinds, whats) == [at : Slots, epoch : Epochs, kind : kinds, what : whats]

MessageType ==
  Said(RenderAnswers, Jobs) \cup Said({"Opened"}, Docs) \cup Said({"Answer"}, Questions)
    \cup Said({"Died"}, {None})

(* Every variable has the shape its field has in the code. *)
TypeOK ==
  /\ pc \in Phases /\ todo \subseteq Slots /\ next \in 0..JobCount
  /\ queue \subseteq Jobs /\ floor \in 0..MaxFloor
  /\ slot \in [Slots -> SlotType] /\ size \in Slots /\ epochs \in Epochs
  /\ documents \subseteq Docs /\ reported \subseteq Docs
  /\ owed \subseteq Jobs \X {"Failed", "Cancelled"}
  /\ events \in Seq(MessageType)
  /\ proc \in [Epochs -> ProcType]
  /\ waiting \subseteq Jobs
  /\ answers \in [Jobs -> Seq(AnswerKinds)]
  /\ picture \in [Jobs -> Jobs \cup {None}]
  /\ status \in [Questions -> Fates]
  /\ reports \in [Docs -> Nat] /\ opens \in [Docs -> Nat]
  /\ faults \in 0..MaxFaults

Owed == {w[1] : w \in owed}
InFlight == UNION {slot[i].inFlight : i \in Slots}

(* No request is leaked: each one the application still waits for is queued, *)
(* in the hands of a live worker, or about to be answered by the supervisor  *)
(* itself, through every crash, restart, give-up and retirement.             *)
Accounted ==
  \A j \in waiting : j \in queue \/ j \in Owed \/ \E i \in Live : j \in slot[i].inFlight

(* A job is in one place only: it is never queued and dispatched at once,    *)
(* never held by two workers, and a dead or popped slot holds nothing.       *)
OneHome ==
  /\ queue \cap InFlight = {} /\ queue \cap Owed = {} /\ Owed \cap InFlight = {}
  /\ \A i, k \in Slots : i # k => slot[i].inFlight \cap slot[k].inFlight = {}
  /\ \A i \in Slots \ Live : slot[i].inFlight = {}

(* The application hears of a job once.  The one exception the code has is   *)
(* the acknowledgement a process wrote before its worker gave up: the job    *)
(* has failed with its worker, and is then reported cancelled as well.       *)
AnsweredOnce ==
  \A j \in Jobs : Len(answers[j]) <= 1 \/ answers[j] = <<"Failed", "Cancelled">>

(* Each open is reported to the application at most once, however many       *)
(* workers answer it and however often it is replayed after a crash.         *)
ReportedOnce == \A d \in Docs : reports[d] <= 1

(* Whatever crashes, is replayed or is acknowledged late, nothing is said   *)
(* to the application twice.                                                *)
SaidOnce == AnsweredOnce /\ ReportedOnce

(* A frame copied out of the shared region holds the pixels of its own job:  *)
(* no other large job has drawn into that region since.                      *)
PictureOwn == \A j \in Jobs : picture[j] = j

(* Growth, immediate restarts and delayed restarts together never run more   *)
(* processes for the pool than config.workers.                               *)
PoolBounded == WorkerCount <= PoolSize

(* A restarted or added worker catches up: every live worker whose process   *)
(* still runs has been told of exactly the documents that are open.          *)
CaughtUp == \A i \in Live : Writable(i) => proc[slot[i].epoch].docs = documents

(* Every question put to a worker and not answered is still tracked by some *)
(* slot, through crashes, restarts and backoffs.  It is lost in two ways    *)
(* only, both named: retired with an idle worker, or dropped because the    *)
(* replacement that was to be asked it again died before it was.            *)
NoQuestionLost ==
  \A q \in Questions : status[q] = "asked" => \E i \in 1..size : q \in slot[i].asked

(* Crashes, restarts and growth leave the pool as the application set it    *)
(* up: no more processes than it asked for, each of them with the documents *)
(* that are open, and the questions nobody answered kept to be asked again. *)
WorkersKeepUp == PoolBounded /\ CaughtUp /\ NoQuestionLost

(* A worker is only ever killed for what its own process did: it ended, or   *)
(* it hung while it held work.  A late message of a replaced process and a   *)
(* spell of idleness never take down a healthy worker.                       *)
NoInnocentKill ==
  [][\A i \in Live : (slot'[i].epoch = slot[i].epoch /\ slot'[i].alive)
                   \/ proc[slot[i].epoch].run # "up"
                   \/ (i = size /\ size' = i - 1 /\ slot[i].inFlight = {})]_vars

(* Every request submitted is in the end answered, or given up by the        *)
(* application: a crash, a hang, a full pipeline or a give-up delays it.     *)
WaitEnds == \A j \in Jobs : j \in waiting ~> j \notin waiting

(* Held by a process that hangs: only a render deadline would end it.        *)
HeldHung(q) == \E i \in Live : q \in slot[i].asked /\ proc[slot[i].epoch].run = "hung"

(* A question that reached a worker is answered, through crashes, unless its *)
(* worker is retired, the process that holds it hangs, or a replacement dies *)
(* before it was asked it again.                                             *)
QuestionsAnswered ==
  \A q \in Questions :
    status[q] = "asked" ~> (status[q] \in {"answered", "retired", "dropped"} \/ HeldHung(q))

(* An opened document is reported, unless it is closed first or every worker *)
(* that could report it hangs.                                               *)
OpensReported ==
  \A d \in Docs : (d \in documents /\ reports[d] = 0) ~>
       (reports[d] > 0 \/ d \notin documents
         \/ \E i \in Live : proc[slot[i].epoch].run = "hung")

(* What is asked of the pool by a question or an open comes to an end. *)
AsksEnd == QuestionsAnswered /\ OpensReported
=============================================================================
