# TLA+ specifications of pulpit

pulpit is a PDF presenter: an audience window, a presenter window and a reader
over one document. Every PDF is opened, drawn and searched in separate worker
processes, because a document may crash or hang the library that reads it. The
hard part of the program is therefore not drawing but *keeping its word* around
processes that die: each request is answered, each frame shows its own page, a
replacement catches up, and no fault takes more down than itself.

These modules specify that part. Source paths below are relative to
`src/crates/`.

## The system

| Component | Source | State it keeps | Operations | Talks to |
|---|---|---|---|---|
| Renderer supervisor | `pulpit-render/src/supervisor.rs` | queue, worker slots (jobs in flight, questions asked, restarts, backoff), generation floor, open documents, answers it owes | `submit`, `cancel`, `cancel_older_than`, `ask`, `open`, `close`, `pump_bounded` (drain, deadlines, reap, retry, retire, dispatch) | application (calls and returned events), workers (pipe, shared region), one reader thread per worker (channel) |
| Ledger of renders | `pulpit/src/app.rs` | `pending`: the requests it waits for | `submit_render`, `cancel_renders`, `invalidate_renders`, `take_pending` | supervisor |
| Renderer worker | `pulpit-render/src/worker.rs` | inbox of jobs and control messages, `in_flight` and its cancel flag, remembered cancels, generation floor | reader thread, main loop, `render_one` | supervisor |
| Search | `pulpit-core/src/search.rs`, `pulpit/src/app/search.rs` | query, generation, coverage, chunks outstanding, hits | new query, next chunk, accept, renderer replaced | supervisor (`ask`) |
| Document reload | `pulpit/src/doc/manager.rs`, `doc/watcher.rs` | phase of the candidate, debounce, backoff, working document | file event, tick, opened, failed, promote | watcher thread, supervisor |
| Reading aloud | `pulpit-core/src/speech/cursor.rs`, `pulpit/src/speech.rs`, `app/speech.rs`, `pulpit-media/src/speech/*` | cursor, generation of the speaker, results kept, what sounds | toggle, skip, stop, page text, poll, drop | document worker, a control thread, a synthesis thread, a player process |
| Frame cache, thumbnails, residency | `pulpit-render/src/cache.rs`, `pulpit/src/residency.rs` | entries, cost, pins | insert, pin, evict | application |
| Worker IPC | `pulpit-core/src/ipc/*`, `pulpit-render/src/shm.rs` | a bell's flag, frames of bytes, regions | ring, wait, read, reclaim | everyone |
| Display reconciliation | `pulpit-display/src/reconcile.rs` | windows, their monitors and roles | reconcile | window system |
| Media sessions and surface ring | `pulpit-media/src/supervisor.rs`, `surface.rs`, `worker/mpv.rs`, `pulpit/src/media/coordinator.rs`, `app/media.rs` | session of each overlay, parked sessions, retained frames, workers, ring slots | page turn, rebuild, frame, restart, fallback, failure | media workers (pipe, shared ring) |
| Document session and journal | `pulpit-render/src/document/*`, `pulpit/src/reader_link.rs`, `reader_journal.rs` | revision, marks, fields, edits in flight, undo stacks, journal file | edit, undo, save, crash, recover | document worker (pipe, one thread), disk |
| Atomic replacement, session snapshot | `pulpit-render/src/atomic.rs`, `pulpit/src/session.rs`, `app/persist.rs` | what was last written, a snapshot file for each copy | save, close, quit, list, take | disk, a writer thread, the other running copies |
| Presentation, history, timing | `pulpit-core/src/state.rs`, `history.rs`, `autoadvance.rs` | page, freeze, blank, stacks, timers | navigate, freeze, tick | windows |
| Forms and coalescing | `pulpit/src/form_flow.rs`, `coalesce.rs` | writes not sent, commits outstanding | type, commit, answer | document worker |
| Layouts, settings | `pulpit/src/layout/*`, `settings/*` | designer tree, undo, preferences | edit, undo, save | disk |
| Instances, inhibition, printing, platform | `pulpit/src/platform/*`, `printing.rs` | claim of the first instance | claim, hand over | operating system |
| Signing and verification | `pulpit-render/src/sign/*`, `verify/*` | none between calls | sign, verify | disk |

What is hard in it, and what would make each part correct:

- *Rendering.* Processes crash and hang with work in hand; the messages of a
  process that was replaced are still in its pipe; a shared region holds one
  frame at a time. Correct when every request is answered once or given up,
  every frame shows its own job, no healthy process is killed, and a
  replacement knows what the one before it knew.
- *Worker.* A reader thread files cancels, floors and jobs while the main loop
  picks one and looks again just before it draws. Correct when every item it
  was sent is answered once and nothing is cancelled that was not to be.
- *Search.* Three chunks of a document are outstanding at once and a query may
  change under them. Correct when a finished scan covers the document once and
  a scan never waits for an answer nobody owes.
- *Reload.* A file event is a hint. Correct when the working document is never
  lost, a candidate is promoted only after it settled and opened, and the last
  change is eventually shown.
- *Editing.* Mutations are posted without waiting and answered by position,
  each naming the revision it expects; form events may move the revision too.
  Correct when every answer is taken for its own edit and nothing conflicts
  with a rival it did not have.
- *Journal, atomic replacement, session.* A crash may fall between any two
  system calls, and other copies of the program run beside this one. Correct
  when what the reader was told is on disk comes back, a snapshot is whole, and
  nobody takes that of a copy that runs.
- *Media.* A worker writes a ring that the supervisor reads, sessions follow
  the page, and a runtime that dies or fails is replaced by itself or by the
  next. Correct when a slot in hand is not overwritten, none is lost, and
  nothing plays that nobody sees.
- *Reading aloud.* Two threads and a player run behind the cursor. Correct when
  nothing is spoken after a stop, no sentence is passed over by an event of an
  old utterance, and no wait is for ever.

`PROJECT.json` lists the hazards one by one, at the line where each bites, with
the property that would catch it.

## The modules

### RenderPool: the supervisor and the ledger of renders

`pc` is the place of the event-loop thread inside `submit` or `pump_bounded`,
and a pump is the phases in the order the code runs them: `drain`
(`HandleMessage`), overdue and exited workers (`KillDoomed`), backoffs that are
due (`RetryBackoff`), given-up and idle workers (`RetireGivenUp`,
`RetireIdle`), `dispatch` (`Dispatch`, `DispatchUnsized`, `Grow`). The
processes and their reader threads move between any two of those steps, the
application's calls (`Submit`, `CancelRender`, `Invalidate`, `Ask`, `Open`,
`Close`) only when the thread is idle, because that thread makes them.

| State | Code |
|---|---|
| `queue`, `floor`, `slot`, `size`, `documents`, `reported` | the fields of `RendererSupervisor`; a slot is a `Worker` |
| `owed` | the answers `submit` and `cancel` return themselves |
| `events` | the channel every reader thread sends into |
| `proc[e]` | the process of epoch `e`: what it was sent and has not answered, the job last drawn into its region |
| `waiting`, `answers`, `picture`, `status`, `reports` | `App::pending` and what the application was told |

Time is not counted: `SilencePasses` says that a worker holding jobs has been
silent for the deadline, `BackoffPasses` that a delay has elapsed. A process
that is killed still has what it wrote in its pipe, so it ends as "exited" and
its reader thread empties the pipe. A replacement may die while `respawn` is
still telling it the documents and the questions: `kept` is what could be written
to it, and the slot tracks no more than that (status "dropped"). The reap and the deadline check, two loops
over one snapshot, are one loop. A worker whose `Hello` does not match is
killed on the path a crash takes. The FIFO order of the queue is the order of
the ids.

### WorkerContract and RenderWorker: one process

`WorkerContract` is what RenderPool relies on: every job handed over is
replied to once, with `Cancelled` only if it was told to stop since then; every
question and open is answered once. `RenderWorker` is the process: the reader
thread files requests in the inbox (`reading` is the request it is in the
middle of, since it takes two locks one after the other), the main thread
picks (`choose`), looks at the cancels (`check`), registers itself
(`prepare`) and draws (`draw`). `KeepsContract` is the refinement: RenderWorker
carries the contract's variables as its own and every step is a contract step
or a stutter.

### SearchScan: search

`scan` is `SearchState` with its fields; `User`, `Tick`, `Handle`, `Prepared`
and `Promote` are handlers of the event loop, `Serve` the thread of
`reader_link.rs`, `PoolAnswers` and `PoolLoses` what the render pool does with a
question (it does lose them, see below). The document worker cuts a range off at
the end of its document and says so (`Hits`); the pool reads what there is and
answers with the range it was asked for (`PoolHits`). A hit is a number
whose order is the document's. The cursor, the results list and the pane are
left out, and so is the answer `CannotSearch`, which no execution produces. The
delay between a keystroke and its scan is a choice.

### DocReload: opening and reloading

| State | Code |
|---|---|
| `phase`, `active`, `next`, `failing`, `path` | `DocumentManager` |
| `shown`, `retired` | `App::state.document()`, `App::retired_document` |
| `candidate`, `table` | the two listings of `ImageDocumentState` |
| `watch`, `hint`, `coming` | the watcher, its channel, a change not yet reported by the operating system |
| `documents`, `reported` | the supervisor's open documents |
| `asked`, `held`, `answers` | per worker: opens in its pipe, documents it holds, what it said |
| `events`, `handling` | what one pump returned, handled one by one before the next pump |

A file is a version and a content; the version is what a `SourceStamp` tells
apart. Deadlines are choices: a tick may always find that the quiet time, the
settling time or the backoff has passed, so every relation between those delays
and the changes on disk is covered (a debounce of zero, which would skip a
state, is not considered). A file that cannot be opened is tried `MaxAttempts`
times. A worker that is replaced comes back: the pool giving up for good is
RenderPool's subject. What a promotion does to the page, the notes and the
messages is left out. `wanted` and `unseen` are history variables the properties read.

### EditSession and DurableEdits: editing, forms and the journal

| State | Code |
|---|---|
| `reader` | revision, undo and redo stacks, `history_epoch` |
| `pending`, `deferred`, `events` | `reader_pending`, `FormFlow::deferred`, `events_in_flight` |
| `asks`, `told`, `serving` | the two channels of `ReaderLink` and its thread |
| `worker` | the worker process: its document, revision, marks and field |
| `journal`, `own`, `left`, `offer` | `ReaderJournal`, its file, the files of processes that are gone, what is offered for recovery |
| `disk` | the files a document is opened from and saved to |
| `log`, `skew`, `promise` | histories: the edits the reader was told of, what moved the revision behind its back, what an accepted restore is to bring back |

`User` is a handler of the event loop for each gesture, `Serve` the thread of
the link with the process behind it (one step for each request, applied or
refused in the order the engine checks: conflict, missing object, what it will
not have),
`Pump` the handling of each answer by position. `Crash` ends the application
and leaves the journal; the next start reads it, and `RestoreEdits` posts its
edits to the new worker and discards it. A mark is named by the process that
drew it, because a worker names marks anew.

`DurableEdits` is what the journal promises: while the reader has not been told
otherwise, the edits on disk are the edits it was told of, in order.
`JournalKeepsUp` is the refinement, with the journal file as `kept` and "on and
not full" as `covered`. Left out: a save still in flight when the document is
put down, the scratch saves of printing and signing (`app.rs:7149`), the other
questions on the link and the response limits. A crash inside an append or a
finish leaves what a crash before or after it leaves.

### AtomicFile and SavedSession: the snapshot of the session

`AtomicFile` says what one file may hold: what a reader sees, and what a power
loss may leave of it (`kept`). `SavedSession` has one such file for each running
copy, its writer thread (`writer`), what it remembers having written (`last`)
and the claim it holds on its pid (`claimed`). A copy lists the snapshots of
others, loads one and takes it, in three steps, between which the others go on.
Two writes of one copy do not overlap (they are seconds apart, `persist.rs:88`),
a pid is not used again, a directory can always be synced, and what a restore
plan brings back is one place, applied in one step.

### MediaSessions: sessions, runtimes and rings

| State | Code |
|---|---|
| `page`, `blank`, `generation` | what the audience sees |
| `sessions`, `parked`, `frames`, `indexed`, `staging` | `MediaCoordinator`; `staging`: its directory could be made |
| `live`, `workers`, `pending`, `opened` | `MediaSupervisor`; a worker with its pipes and its process |
| `workers[r].hosted[s]` | the session in its process, with its end of the ring: `held`, `next`, `sequence` |
| `astray` | for `NoOrphan` only: overlays that had an open nobody took, or a session forgotten in its own generation |

The application's steps are a page turn, a blank screen, a rebuild, a changed
declaration, `poll` of one worker (messages in order, then its end) and of a late
session; a worker reads one request or draws one frame. A session keeps its
number when it is relaunched or falls back and gets a new ring. `Rebuild` is
`rebuild` when it finds a new generation or no staging directory
(`coordinator.rs:342`), `Regroup` when it finds neither; making the directory may
fail, and what is embedded is then not opened. What fails in a worker is
transient (`Crashed`) or not (`Unavailable` stands for every other kind that may
fall back). Left out: the rest of staging (with a directory an asset is there once
indexed), byte budgets, playback commands and progress, a worker that speaks
another version, a failure that names no session (the supervisor only notes it,
`supervisor.rs:896-907`), and the media of removed overlays. A poll of several workers is several polls of one.

### ReadAloud: the cursor, the speaker and its threads

| State | Code |
|---|---|
| `reading` | `Reading`: scope, page, sentence, state |
| `todo` | the actions the running handler has yet to carry out: `outdate` and `silence` are the two halves of `Speaker::stop` |
| `asks`, `link` | pages asked of the document worker, and whether it has a text layer |
| `generation`, `commands`, `events` | `Speaker` and its channels to and from `control_loop` |
| `control`, `requests`, `ready`, `synth`, `cache` | the two threads, their channels and the results kept |
| `stopping`, `sounding`, `ending` | `Player` and `EngineStop` |

A handler updates the cursor and then carries its actions out one at a time,
the threads running between them. The control thread's steps are the points at
which it looks at the generation or the player: take a command, hear of a
result, check and announce, arm, register, end. Left out: the choice and
download of a voice, the prompt for one, rates (so a sentence is the key of its
result), and `refused`, which is cleared before it can matter. Quitting does
what a change of voice does.

## What the runs check

| Run | Question | Instance |
|---|---|---|
| `PoolJobs` | Does a request leak, and is a shared region overwritten before it is read? | 3 jobs of both frame sizes, 2 workers, 1 fault, 1 floor, 5 events in all |
| `PoolFaults` | Is a healthy replacement killed by what is late, a question forgotten, an open reported twice or never, the pool exceeded, and does anything wait for ever? | pool of 1 restarted once; a job, a question, 2 opens, 3 faults, any 3 of them |
| `WorkerJobs` | Does a process keep its contract, heed cancels, drop nothing and finish before a shutdown? | 2 jobs, a document, a question, a floor, room for 2 cancels, any 5 of them |
| `Search` | Has a finished scan read all of one document and nothing else, and does every scan end? | documents of 4, 1 and 2 pages (the last without text), 2 queries, one invalid, 3 moves, 1 fault |
| `ReloadWorkers` | Can two workers' late answers promote something superseded, lose an open or keep a candidate? | 2 workers, good or bad builds, 3 opens, 1 write, 1 fault |
| `ReloadFiles` | Is what is on screen ever closed, or the wrong file, and is the last build shown? | a folder of images, an archive and a plain file, good or gone, 2 opens, 2 writes, 1 worker |
| `EditAnswers` | Is an answer taken for another edit's, is an edit refused for a rival it did not have, and is the journal what the reader was told? | 2 files, 2 journal entries, 3 acts, 2 opens, 2 faults |
| `SessionCopies` | Is a snapshot torn, left behind by a clean end or stolen from a copy that runs, and does it catch up? | 3 pids, 1 place, 2 moves, 1 fault |
| `Media` | Is a frame torn or a slot lost, does anything play unseen, does every open end? | an animation of 3 frames and an embedded still on page 1, page 2 empty, 2 slots, 2 runtimes, 3 opens, 2 moves, 1 fault |
| `ReadAloud` | Is the utterance under way the one at the cursor, is a stop silent, does every wait end? | a blank page, one of 2 sentences, a selection, 1 result kept, 3 keys, 1 fault |
| `MediaReload` | (violated) Is a frame kept until a complete replacement arrives? | 1 overlay, 1 move, no fault |
| `ReadResumed` | (violated) Does a control thread told of its result find it? | that of `ReadAloud`, no fault |

Several properties are conjunctions of parts that belong together, each with a
name and a comment of its own in the module: `SaidOnce` is `AnsweredOnce` and
`ReportedOnce`; `WorkersKeepUp` is `PoolBounded`, `CaughtUp` and
`NoQuestionLost`; `AsksEnd` is `QuestionsAnswered` and `OpensReported`;
`OrdersHeeded` is `ShutdownFinishes` and `CancelHeeded`; `HitsRight` is
`HitsFromHere` and `FoundEverything`; `NothingStranded` is `AnswerOwed` and
`NoneLeaked`; `AnswersTrue` is `PairedAnswers` and `ConflictHasCause`;
`SnapshotSound` is `NeverTorn` and `CleanExitStays`; `RingSound` is
`FrameIntact` and `SlotsComeBack`; `FollowsAudience` is `NoOrphan` and
`PlaysOnPage`.

What a property leaves out, it leaves out by name, because the code does it:

- `AnsweredOnce`: a process may acknowledge a cancel just before its worker gives
  up, and the application then hears `Failed` and `Cancelled` of one job.
- `NoQuestionLost`, `QuestionsAnswered`: a question that goes with a retired
  worker (status "retired"), or with a replacement that died before it was asked
  it again (status "dropped"); `QuestionsAnswered` also one that a worker hangs on
  with no render to be late with (`HeldHung`).
- `CancelHeeded`: a cancel that a new floor or the cap of the list made the
  process forget.
- `OwedOnce`: a scan over a document whose worker has not measured it, which is
  started again when it has. `FoundEverything` speaks, after a fault, of one
  version of the text, since the list can mix two when the document worker dies
  between them, and of the pages that every document of the pool has (`Beyond`):
  the others count as read and were not.
- `NoneLeaked`: the document still shown when another was opened and, before that
  one appeared, a third was, or the deck was closed.
- `ComesUpToDate`: a change no watcher was there for (`unseen`).
- `ConflictHasCause`: an edit behind a refusal, or behind a Focus event that
  committed. `RestoredWhole`: a journal that names marks of its own run.
- `CatchesUp`: a copy whose last write failed, or that has no claim.
- `FrameIntact`, `PlaysOnPage`: a session relaunched under its number; `NoOrphan`:
  an overlay that had an open no runtime took, or whose session a rebuild without a
  staging directory forgot (`astray`); `PlaysOnPage`: turns while the
  audience saw nothing.
- `Accompanied`, `WaitsEnd`: a text refused without a word (`untold`), an engine
  that hangs outside a drop; `QuietWhenStopped`: an utterance whose last check
  came before the stop and that was armed after it (`raced`).

"What does not hold" says what happens in those cases.

### Bounds

Every bound is a constant that a guard names: `JobCount`, `MaxSlots`,
`MaxEpochs`, `MaxFaults`, `MaxFloor`, `MaxOpens` and `Budget` in RenderPool;
`JobCount`, `MaxFloor`, `Elsewhere` (jobs of other workers whose cancels this
one hears) and `Budget` in RenderWorker; `MaxMoves` (what the user
does) and `MaxFaults` (what fails) in the others, with `MaxOpens`, `MaxWrites`,
`MaxActs` and `MaxPlaces` where a module counts those. `Budget` bounds the sum
of what the application asks and what fails, so that a run may contain many
kinds of event without containing all of them at once. `MaxCancels`,
`MaxAttempts`, `MaxEntries`, `MaxParked`, `MaxRestarts`, `Slots`, `MaxCached` and
the limits of a search are the code's own, made small so that they are reached.

They are chosen so that the interesting case happens: two workers and three
jobs with a crash and a floor among them, so that the pool grows and retires; a
pool of one that crashes, gives up with a job and a question in hand, and grows
beside the slot that backs off; four pages in chunks of one, then two, so that
two chunks are outstanding and the scan wraps; two writes, so that one falls
while a candidate opens; a journal that fills up, is saved, and is restored by
a second run that may crash too; a third copy that starts while one runs and
one has crashed; two overlays on one page with one parking place, so that
leaving the page evicts one, and two slots, so that the ring fills up; a
sentence that plays while the next one of its page is made, in a cache of one.
No run of RenderPool reaches `MaxSlots` or `MaxEpochs` (checked by TLC as an
invariant of each), so these two cut nothing off.

Where one more would be out of reach: two workers over three kinds of file
(`ReloadFiles` has one; more than 20 million states), and a rebuild that opens
two overlays again (`Media` would need a fourth session): there a rebuild opens
both after one that had no staging directory and opened one, and `MediaReload`
has one overlay. In `MediaSessions` a redeclaration that neither closes nor opens a
session is left out: it tells every session again what it was told, and would
make half as many states again. `ReloadWorkers` takes the two workers as
symmetric; nothing in DocReload orders them, and the run has no liveness
property. A run that does not check deadlock is one of a program that, with
nothing to do and nobody asking, rightly stops.

### Fairness

- `RenderPool!Fairness`: the event loop pumps on a tick and on every ring of the
  doorbell, so `Pump` is weakly fair; a process that is not hung works through
  what it holds, since the operating system runs it; clocks advance. No fault,
  call of the application or resumption of a hung process is fair.
- `RenderWorker!FairSpec`: both threads are scheduled. Nothing makes the
  supervisor write.
- `SearchScan!FairSpec`: the tick, the handlers, the document worker's thread,
  the pool's answers and the preparation thread finish what they were given.
- `DocReload!Fairness`: the operating system reports a change, the preparation
  thread ends, a worker reads its pipe, the loop pumps and ticks. `Tick` is one
  fair action, since the code calls `tick` once in each turn of the loop.
- `EditSession!Fairness`: the thread of the link serves what it is asked and the
  loop pumps what it is told.
- `SavedSession!Fairness`: the tick timer of a copy runs while it does
  (`Runs`), and so does its writer thread (`Writes`).
- `MediaSessions!Fairness`: a worker's loop reads its pipe and draws the first
  frame of what it hosts, and the tick polls. `[]<>~Unheard(r)` and
  `[]<>~Late(s)` are weak fairness of `Poll` and `PollLate`, which are enabled
  exactly when something is unheard or late and leave nothing of it; written so,
  TLC need not compute ENABLED of a long handler.
- `ReadAloud!Fairness`: a handler carries on, the loop polls, the document worker
  answers, both threads run, a player reaches the end of its audio, and an
  engine that does not hang answers or is ended.

In none of them is the user, the disk or a fault fair.

## What does not hold

Modelling the code showed executions that contradict what its comments say.
Two are kept as runs that end in a violation, and `PROJECT.json` quotes the
lines:

| Run | The execution |
|---|---|
| `MediaReload` | frames are compared by sequence across sessions: after a rebuild the first frame of the new session is copied out and thrown away, and the old document's picture stays until the new one has drawn more (`coordinator.rs:804`) |
| `ReadResumed` | the notice of a prefetch that was taken from the cache answers the next request for the same sentence too early: a pause and a resume end the reading with an error (`speaker.rs:412`) |

The others are executions of these modules, most of them seen with TLC and a
property of a line or two, and are not part of the runs.

Rendering:

- an idle worker is retired with questions it has not answered
  (`supervisor.rs:720`, against `:476`); one chunk's answer clears the record of
  the other chunks of its search, and a crash then loses them (`:552`);
- `respawn` takes the questions out of the slot and puts back those it could write
  to the replacement (`supervisor.rs:1457`, `:1472-1476`): when that one dies while
  it is told, the rest are gone without a word, although they are "not lost" when
  it cannot be spawned at all (`:1486`) and the record exists so that a crash loses
  none (`:476`). A worker that hangs on a question and holds no job is never
  overdue (`:1339`);
- an urgent job overtakes a question and with it the open behind the question,
  and fails (`worker.rs:153`, against `:140`); raising the floor forgets the
  cancel of a job already taken from the queue (`worker.rs:639`).

Search:

- a document without a text layer (`reader_link.rs:694`), a document worker that
  dies (`app.rs:6654`) and notes that fill the list (`search.rs:695`) each leave
  the scan running for ever; a document change scans for a pattern already
  refused as invalid, and for the old copy after a rebuild (`app/search.rs:318`);
  one chunk cut short ends the search as if its own bound had been reached
  (`search.rs:733`);
- the pool answers a chunk with the range it was asked for, whatever the length of
  its document (`worker.rs:349-357`), and the scan counts all of it as searched
  (`search.rs:716-731`): handed over from a lost document worker to a pool that has
  a shorter version, it says it is complete with pages never read.

Reloading:

- a late failure of one candidate discards the next (`manager.rs:338`); a
  document opened or closed before the last one opened was promoted makes the
  application forget the one to be retired (`app.rs:6411`, `:6338`), which the
  workers then hold for good, against the comment that it is "let go once the new
  one has actually taken over" (`app.rs:6409`); a file
  changed during a backoff is opened without a look at its stamp
  (`manager.rs:266`); the second worker may draw a folder from another listing
  (`supervisor.rs:1152`); with watching off no document is ever opened, because
  the ticks that drive the first open belong to the setting (`app.rs:5516`,
  against `settings/mod.rs:878`); and a change before the watcher exists is not
  shown (`app.rs:6473`).

Editing:

- a Focus event may commit a field without being counted as one that may
  (`protocol.rs:182`, against `pdfium.rs:4042`), and an edit then conflicts with
  no rival; an undo does not wait for the form events before it, and the history
  it takes from is torn by their commits (`app.rs:8481`);
- a stroke and its undo come back from a restore as the stroke alone, because
  the undo names a mark of the run that is gone (`app.rs:9087`, against `:9081`);
  the journal restored from is discarded before its edits are answered
  (`app.rs:9108`), so a crash at that moment loses them.

Session:

- closing a document does not wait for the writer, which may bring its snapshot
  back (`app.rs:6355`, against `:6322`); two copies started together may take the
  same snapshot (`session.rs:418`); a write that failed is not tried again while
  the session stays where it is (`persist.rs:85`).

Media:

- a late report of a failure puts down the session opened since
  (`coordinator.rs:860`); while no staging directory can be made every rebuild takes
  itself for that of a new generation (`coordinator.rs:342`), forgets what plays
  without closing it and opens it again: the old session plays on beside the new
  one until the next generation, against the comments that open sessions survive
  every rebuild but that of a new generation (`:311-316`) and that orphans are
  closed (`:330-333`); a frame announced for the ring of a session since
  relaunched is read from the new ring (`supervisor.rs:1003`); turns while the
  screen is blank start and stop nothing, nor does coming back
  (`app/media.rs:359`); a session relaunched while parked plays on unseen; a
  launch discards a dead worker before its end was drained, and its other
  sessions are never reported (`supervisor.rs:577`, against `:926`); closing a
  document leaves its media sessions as they are.

Reading aloud:

- a stop between the last check of the generation and `arm` is forgotten, and
  the sentence is read to its end (`speaker.rs:336-349`, against `:332`);
- at the end of a document the worker is asked for a page that does not exist,
  and its refusal is shown as an error (`app/speech.rs:102-130`);
- a text refused for its size leaves the reading waiting for ever
  (`reader_link.rs:684`); skipping past the last sentence of a page while paused
  starts talking again (`cursor.rs:413-466`); a sentence whose prefetch is under
  way is made twice when it is skipped to; an engine that hangs has no deadline
  until the speaker is dropped.

## What is proved

TLAPS checks these for every value of the constants: any number of processes,
jobs, copies, files and faults. A property that a run checks is seldom inductive,
so behind each theorem stands an invariant that is. TLC checked each of them on
the runs' instances before it was proved.

### The supervisor (RenderPoolProofs)

- `TypeCorrect`, by `TypeInv` = `TypeOK` and `Placed`: a message carries the slot
  of its process, and only `Placed` says that a process that was started has one.
- `RequestsAccounted` and `JobsHaveOneHome`: `Accounted` and `OneHome`, by
  `LedgerInv`. `BackoffDead` and `RetryDead` say that a worker that waits for its
  retry is dead and holds nothing, also in the middle of the loop that retries it;
  without them a restart would drop what the slot held. `Given` says that a job
  anybody holds was submitted, so a new submission has no home yet.
- `OnlyTheGuiltyDie` (`NoInnocentKill`) and `PoolAsConfigured` (`PoolBounded`,
  `CaughtUp` and `Tracked`), by `ProcessInv`. Two slots never share a process and an
  epoch never comes back (`Owners`); the end of a pipe is read after its process
  ended (`Mail`); a worker that is silent past its deadline with work in hand
  hangs or is gone (`SilentDown`); and what was seen when the doomed were named
  still holds when they are killed (`Visits`). `WorkersNeverFallBehind`
  (`WorkersKeepUp`) is the same for questions none of which share a topic: such a
  question stays with a slot until it is answered, retired with its worker, or
  dropped by the replay to a replacement that died first. With
  shared topics one answer serves both, and whether the other is then still
  tracked depends on which slot had it (`request_answers`,
  `supervisor.rs:494-545`); `Tracked` says what holds then.
- `NothingSaidTwice` (`SaidOnce`) and `PicturesAreOwn` (`PictureOwn`), by `AnswerInv`:
  a job is with one process or in one message (`SentOnce`), and only once it has left
  the queue (`Unsent`); a slot counts what its process has not answered as in
  flight, unless it gave up and failed it (`Holds`), which is where the one late
  `Cancelled` comes from; what is queued or held was never answered
  (`Unanswered`); a worker holds one large job at a time (`OneBig`), so the
  region still holds a frame when its message is read (`Drawn`).

### The worker process (RenderWorkerProofs)

- `WorkerTypeCorrect`, `WorkerHeedsOrders` (`OrdersHeeded`), `NoJobLost`, and
  `WorkerKeepsContract`: every step of RenderWorker is a step of WorkerContract or
  leaves it unchanged. `WorkerInv` follows a job from the pipe to its reply: it is
  in one place at a time (`Homes`), nothing is in the pipe twice (`Written`), what
  makes a job `Cancelled` was written after it (`Stops`, and `Behind` for a floor
  still in the pipe), and nothing follows a shutdown (`Ended`). `Heeding` carries
  the cancels that were read before the job was looked at: the list that remembers
  them has a limit, and none is forgotten while no more were written.
- `NoJobLost` is about `read_requests`, which drops a job below the floor without
  a word (`worker.rs:651`). None ever is: a floor is written behind the
  jobs it stops and before the jobs it spares (`Floors`).

### Reloading (DocReloadProofs)

- `TypeCorrect`: the types. Among them is that a worker never holds a document the
  supervisor has closed.
- `ScreenNeverClosed` and `RightFileShown`: `ScreenHeld` and `RightFile`, by
  `HeldInv`. What is on screen stays open because whatever is closed is about to
  be numbered anew (`Numbered`), is the subject of an event (`EventsOnce`: an
  event is never about the document shown, because that one was reported), or is
  what a promotion replaces (`ScreenKnown`: the active and the retired document
  are the one shown or none). What is promoted is on the right file because a
  message names the file its document was opened on (`OneFile`) and the candidate
  was opened on the manager's path (`CandidateHeld`).
- `NoneStranded` (`NothingStranded`) and `NewestPromoted` (`PromotesWanted`): an
  answer is owed by the pipe of some worker (`Answering`), for which there must be a
  worker at all, and the candidate that opens is the one nothing has superseded
  (`WantedOpens`). The proof showed what a run of two opens could not: a document
  still shown can be forgotten. `NoneLeaked` now names that case as the only one,
  and the run has the third open that reaches it.

### Editing and the journal (EditSessionProofs)

- `EditTypeCorrect`, `AnswersAreOwn` (`AnswersTrue`), `RestoreIsWhole`
  (`RestoredWhole`), `NothingIsLost` (`Durable!NothingLost`), and `SessionKeepsUp`
  (`JournalKeepsUp`): every step of the session is a step of DurableEdits or leaves
  it unchanged.
- No answer names the edit it answers. `Linked` says why the first pending edit is
  the right one: the mutations on the link, answers before requests, are the
  pending ones one for one and in order, and so are the form events. The rank of a
  place is counted (`UpTo`), and the lemmas at the head of the module say what a
  push and a pop do to it. `Closed` says that a closed reader has an empty link.
  `Ordered` (a journal's entries go up in revision) and `Recorded` (a journal that
  covers the session holds the whole log) carry the refinement; `SavesBounded`
  keeps a file's version within its type.
- A restore posts every edit of a journal before the first is answered, so none of
  them may be refused. None is, first, because no journal erases a mark twice
  (`Erasures`): what the worker has done, what is told of it and what the journal
  holds are one course of operations, in which a mark that was erased is restored
  before it is erased again (`Leads`), and no new mark has the name of an erased one
  (`Named`). Second, because each request names the revision it will meet
  (`Replaying`): nothing but copies is on the link beside the replay, the worker is
  at one of the documents the journal makes, and there are as many requests left as
  documents to go through (`Chain`, `Awaits`). Nothing waits that nothing will
  release (`Deferral`), and a thread that has ended has said so (`GoneTold`), so at
  rest the replay is at its end.

### The snapshot of the session (SavedSessionProofs)

- `SessionTypeCorrect`, `SnapshotsSound` (`SnapshotSound`) and `NothingStolen`
  (`NeverStolen`), by `SessionInv`, for any number of copies. The claims are looked
  at when the snapshots are listed and not again, so a listing from before a copy
  claimed its pid must not name that copy (`Listed`); it does not, because a copy
  that has yet to start has no snapshot, not even one a power loss could bring back
  (`Unwritten`). A copy that cleared its snapshot has no writer left (`Cleared`).

### Reading aloud (ReadAloudProofs)

- `ReadTypeCorrect`, `OneVoice` (`Accompanied`) and `StopsAreHeard`
  (`QuietWhenStopped`), by `ReadInv`. What a handler has left to do is one of a few
  plans, each of which fits the cursor (`Planned`); in all of them whatever was
  under way has been outdated before the next sentence is said (`Still`). A
  generation is never ahead of the speaker's, so one outdated stays so (`Stamped`).
  `Company` is what holds between handlers. A player is armed for an outdated
  utterance only while the stop is still to come, or by the race listed above
  (`Heeded`).

### The search (SearchScanProofs)

- `ScansTyped` (`TypeOK`), `ListHoldsWhatIsThere` (`HitsRight`) and
  `NoChunkLostOrTwice` (`OwedOnce`), by `ScanInv` (`ScanSound`), for any documents,
  queries, text and limits. None of the three is inductive: a scan counts pages,
  so that `scanned` says how many were answered for and not which. An answer of the
  document worker is cut off at the end of its document, one of the pool is not.
- `Read` names them: there is a set of pages (`Counted`) at least as large as
  `scanned`, none of which is covered by a chunk still out, and each of which was
  read in the document the scan is of, or lies beyond the end of one the pool had
  (`Content`). At the end it must be all of
  them. The chunks on their way are kept apart by how far behind the start of the
  scan they lie (`Behind`), since a scan begins at the reader's page and goes round.
- What is on its way asks the query that runs, or is of an older generation
  (`Letters`); an answer says truly what its document holds (`Reported`); the
  worker measures its document before it is asked for text (`Places`), and the pool
  is asked when there is no worker (`Asks`). Once an engine was lost none of this
  ties an answer to one version, and `HitsRight` says only what is left.
- `Once` ties each chunk waited for to one message, in any of three queues. It
  holds while nothing keeps an answer from coming whole (`Steady`), also of an
  unmeasured document whose remembered shape will be confirmed, which is why it is
  wider than `OwedOnce`.

### Media sessions (MediaSessionsProofs)

- `SessionsTyped` (`TypeOK`), `NoTornFrameNoLostSlot` (`RingSound`) and
  `PlaysForTheAudience` (`FollowsAudience`), by `Inv` (`SessionsSound`), for any
  overlays, pages, runtimes, slots and limits. The invariant speaks of one record
  (`Media`), since a handler closes, opens, tells and recovers any number of
  sessions in one step. Each of these is a lemma about that record, and each loop of
  a handler (`AllClosed`, `AllOpened`, `AllTold`, `Ended`, `AllHeard`,
  `AllRecovered`) is an induction over the places of its list (`NumberInduction`,
  and the lemmas on folds at the head of the module). What holds inside a handler is
  weaker than what holds between two: there a session can be closed and still be
  the coordinator's, or its failure not yet be reported (`Reported`, `Pend`).
- No frame is torn because a frame that was announced and not yet heard is still in
  its slot (`InOrder`), which is so because the slot stays held until its release
  is read, and a held slot is announced or on its way back and never both (`Ringed`).
  Before the first `Open` is read there is no ring and no word of one (`Awaited`),
  another runtime knows nothing of the session (`Unknown`), and a worker holds
  no slot for two numbers (`Sane`). All of it is about the first run of a session: a
  relaunched one has a new ring under its old number, and that is where the code
  lets it fail.
- No session is an orphan because an entry of the coordinator and the session
  behind it name each other (`Owned`, `Adopted`) and all sessions of the shown
  generation came after every older one was closed (`OneAge`). Closing by the entry
  would otherwise leave the session it used to stand for. `Adopted` leaves out the
  overlays in `astray`: a rebuild without a staging directory puts in there every
  overlay it forgets a session of (`Strays`), and so does an open nobody takes, so
  that a report of failure never puts down an entry that still had an owner.
- What plays is decided by the last request in the pipe that opens, plays or pauses
  the session, or by what the worker has it do if there is none (`PlaysSo`); a page
  turn appends the request that fits (`Follows`), unless the screen is blank
  (`missed`).

### From which assumptions

`PoolAssumption`, `WorkerAssumption`, `ReloadAssumption`, `EditAssumption`,
`SessionAssumption`, `ReadingAssumption`, `SearchAssumption` and `MediaAssumption` give
the types of the constants, `ReloadAssumption` that there is a worker (the setting is clamped to 1..8,
`app.rs:1852`), and `SearchAssumption` that a page has finitely many matches, and
`MediaAssumption` that there is a first page and that no runtime is listed twice;
`WorkersNeverFallBehind` has its hypothesis about topics in its statement. Nothing
else is assumed. TLC evaluates each assumption on the runs.

### What is only model-checked

- Every liveness property, and whatever needs fairness or ENABLED: out of the
  prover's reach.
- What a fold or a recursive function computes for every input. (An induction over
  a number is within reach with a set for the predicate; EditSessionProofs and
  RenderWorkerProofs do it so.)

## What is not modelled, and the plan

Left out for good: pixels, PDF objects, cryptography and signature formats (data,
not protocol), text segmentation, key maps, widgets, printing and the other
calls into the operating system. `PROJECT.json` gives the reason for each
component.

Not modelled yet, in the order in which they are worth it:

1. `SettingsStore` (`settings/store.rs`) over AtomicFile: two running copies write
   the whole file over each other, an unreadable file is copied over the one good
   backup, a failed flush forgets that anything changed.
2. `Doorbell` (abstract: no ring is lost), `FrameCache` with residency (bounds
   and pins), `Reconcile` (roles through hot-plug).
3. `Presentation`, visit history, automatic advance, the hand-over between
   instances, the designer's undo, the gesture machine, the prompt for a voice and
   its download.

Every safety invariant and action property that a run checks is a theorem; what is
left to prove comes with the models above.

## Running it

    tlc -workers 2 -config PoolJobs.cfg MCRenderPool
    tlapm RenderPoolProofs.tla

`PROJECT.json` lists each run with its module, each property with a mutation of
the code that violates it, and the source lines every definition stands for.
