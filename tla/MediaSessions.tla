---------------------------- MODULE MediaSessions ----------------------------
(***************************************************************************)
(* Animated images, videos and web pages on the slides: the sessions the   *)
(* presenter's window opens for the overlays of a page, the worker         *)
(* processes that play them, and the shared rings their frames come in.    *)
(*                                                                         *)
(* Source: MediaSupervisor of crates/pulpit-media/src/supervisor.rs,       *)
(* SurfaceRing of surface.rs, the worker loop of worker/mpv.rs, the        *)
(* coordinator of crates/pulpit/src/media/coordinator.rs and               *)
(* service_media and poll_media of app/media.rs.                           *)
(*                                                                         *)
(* The application's handlers are steps of one event loop.  A worker is a  *)
(* process with a pipe each way, shared by the sessions of its runtime.  A *)
(* session keeps its number when it is restarted or falls back to another  *)
(* runtime, and gets a new ring.                                           *)
(*                                                                         *)
(* Of staging the directory is here, which can fail to be made; with one an *)
(* overlay's asset is at hand as soon as it is indexed.  Left out: the byte *)
(* budgets, playback commands and progress, and the events the application  *)
(* only writes to its diagnostics (Ready, Warning, Closed, a failure that   *)
(* names no session).                                                       *)
(***************************************************************************)
EXTENDS Naturals, Sequences, FiniteSets, SequencesExt

CONSTANTS
  Overlays,     \* a set of numbers: OverlayId
  Embedded,     \* the overlays whose asset is in the document
  PageOf,       \* [Overlays -> Pages]
  Pages,
  Runtimes,     \* the capable runtimes, best first
  Slots,        \* config.slots
  MaxRestarts,  \* config.max_restarts
  MaxParked,    \* MAX_PARKED_SESSIONS
  MaxOpens,     \* bound: sessions
  FrameCount,   \* [Overlays -> Nat \ {0}]: its frames, one for a still
                \* (bound: a relaunched or second choice draws one)
  MaxMoves,     \* bound: page turns, rebuilt documents, changed declarations
  MaxFaults     \* bound: what fails or dies

Kinds == Range(Runtimes)

ASSUME MediaAssumption ==
  /\ Overlays \subseteq Nat /\ IsFiniteSet(Overlays) /\ Embedded \subseteq Overlays /\ PageOf \in [Overlays -> Pages] /\ 1 \in Pages
  /\ Runtimes \in Seq(Kinds) /\ Runtimes # <<>> /\ Cardinality(Kinds) = Len(Runtimes)
  /\ Slots \in Nat \ {0} /\ MaxRestarts \in Nat /\ MaxParked \in Nat
  /\ MaxOpens \in Nat /\ FrameCount \in [Overlays -> Nat \ {0}]
  /\ MaxMoves \in Nat /\ MaxFaults \in Nat

VARIABLES
  silent,      \* the overlays whose content never paints: a fault of theirs
  page,        \* the committed audience page
  blank,       \* state.blank: the audience sees black or white
  generation,  \* state.generation
  indexed,     \* coordinator.generation, 0 before the first rebuild
  staging,     \* coordinator.staging: its directory could be made
  sessions,    \* coordinator.sessions: a session of each overlay, or 0
  parked,      \* coordinator.parked
  frames,      \* coordinator.frames: the frame each overlay retains
  live,        \* supervisor.sessions
  workers,     \* supervisor.workers, with their pipes and processes
  pending,     \* supervisor.pending: overlays with a Failed { exhausted }
  opened,      \* supervisor.next_session
  astray,      \* for a property: overlays that had an open no runtime took,
               \* or a session of this generation that was forgotten
  missed,      \* for a property: the page turned while the audience was blank
  moves, faults

vars == <<silent, page, blank, generation, indexed, staging, sessions, parked, frames, live, workers, pending,
          opened, astray, missed, moves, faults>>

(* What one handler may change, as a record that is passed through it. *)
Media == [indexed |-> indexed, staging |-> staging, sessions |-> sessions, parked |-> parked,
          frames |-> frames, live |-> live, workers |-> workers, pending |-> pending, opened |-> opened,
          astray |-> astray]

Becomes(m) ==
  /\ m.opened <= MaxOpens
  /\ indexed' = m.indexed /\ staging' = m.staging
  /\ sessions' = m.sessions /\ parked' = m.parked /\ frames' = m.frames /\ live' = m.live
  /\ workers' = m.workers /\ pending' = m.pending /\ opened' = m.opened
  /\ astray' = m.astray

With(f, x, v) == [y \in DOMAIN f \cup {x} |-> IF y = x THEN v ELSE f[y]]
Without(f, S) == [x \in DOMAIN f \ S |-> f[x]]
Nobody == [x \in {} |-> 0]

(* A set of numbers in order, and what a sequence has of a set. *)
Ascending(S) ==
  CHOOSE q \in [1..Cardinality(S) -> S] : \A i, j \in 1..Cardinality(S) : i < j => q[i] < q[j]
Only(q, S) == FoldLeft(LAMBDA kept, x : IF x \in S THEN Append(kept, x) ELSE kept, <<>>, q)

(* A frame nobody drew: a ring is zeroes when it is created. *)
Zeroes == 0
NoFrame == [of |-> 0, sequence |-> 0, drawn |-> Zeroes, relaunched |-> FALSE]

------------------------------------------------------------------------------
(* The rings.  A worker hosts a session with its end of one. *)

SlotIds == 0..(Slots - 1)

Attached(restarts, count) ==
  [restarts |-> restarts, count |-> count, sequence |-> 0, held |-> {}, next |-> 0, active |-> TRUE]

(* The first slot from next_slot on that the supervisor does not hold. *)
Free(at) == {slot \in SlotIds : \A h \in at.held : h.slot # slot}
Claimed(at) ==
  LET ahead(slot) == (slot + Slots - at.next) % Slots IN
  CHOOSE slot \in Free(at) : \A other \in Free(at) : ahead(slot) <= ahead(other)

Released(at, slot, sequence) == [at EXCEPT !.held = @ \ {[slot |-> slot, sequence |-> sequence]}]

------------------------------------------------------------------------------
(* The supervisor. *)

NoWorker == [known |-> FALSE, alive |-> FALSE, inbox |-> <<>>, outbox |-> <<>>, hosted |-> Nobody]
Spawned == [NoWorker EXCEPT !.known = TRUE, !.alive = TRUE]

Send(m, r, request) ==
  IF m.workers[r].alive THEN [m EXCEPT !.workers[r].inbox = Append(@, request)] ELSE m

OpenRequest(s, is) ==
  [kind |-> "Open", session |-> s, restarts |-> is.restarts,
   count |-> IF is.overlay \in silent THEN 0
             ELSE IF is.relaunched \/ is.runtime # Head(Runtimes) THEN 1 ELSE FrameCount[is.overlay]]
CloseRequest(s) == [kind |-> "Close", session |-> s]
ActiveRequest(s, active) == [kind |-> "SetActive", session |-> s, active |-> active]
ReleaseRequest(f) ==
  [kind |-> "ReleaseFrame", session |-> f.session, slot |-> f.slot, sequence |-> f.sequence]

(* `broken` are the runtimes for which no ring or no process can be made.   *)
(* A worker that died and was not yet drained will not take the request.    *)
Launches(m, r, broken) == r \notin broken /\ (m.workers[r].known => m.workers[r].alive)

(* launch has the worker that will not listen discarded. *)
Refused(m, S, broken) ==
  [m EXCEPT !.workers = [r \in Kinds |->
     IF r \in S \ broken /\ ~@[r].alive THEN NoWorker ELSE @[r]]]

Launched(m, s, session) ==
  LET r == session.runtime
      w == IF m.workers[r].known THEN m.workers[r] ELSE Spawned
  IN [m EXCEPT !.live = With(@, s, session),
               !.workers[r] = [w EXCEPT !.inbox = Append(@, OpenRequest(s, session))]]

(* A session with a new ring, before its first frame. *)
Session(o, g, r, rest, restarts, relaunched) ==
  [overlay |-> o, generation |-> g, runtime |-> r, rest |-> rest, restarts |-> restarts,
   relaunched |-> relaunched, first |-> FALSE, last |-> 0, memory |-> [k \in SlotIds |-> Zeroes]]

(* The first candidate that launches has the session; without one it is     *)
(* exhausted, and the application hears of it in the next batch.            *)
FellBack(m, s, o, g, rest, relaunched, broken) ==
  LET fits == {i \in DOMAIN rest : Launches(m, rest[i], broken)}
      i == IF fits = {} THEN Len(rest) + 1 ELSE CHOOSE k \in fits : \A j \in fits : k <= j
      tried == Refused(m, {rest[k] : k \in 1..(i - 1)}, broken)
  IN IF fits = {} THEN [tried EXCEPT !.pending = @ \cup {o}]
     ELSE Launched(tried, s, Session(o, g, rest[i], SubSeq(rest, i + 1, Len(rest)), 0, relaunched))

Opened(m, o, broken) ==
  LET s == m.opened + 1
      n == FellBack([m EXCEPT !.opened = s, !.sessions[o] = s], s, o, m.indexed, Runtimes, FALSE, broken)
  IN IF s \in DOMAIN n.live THEN n ELSE [n EXCEPT !.astray = @ \cup {o}]

MutantClosed(m, s) ==
  IF s \notin DOMAIN m.live THEN m
  ELSE Send(m, m.live[s].runtime, CloseRequest(s))
Closed(m, s) ==
  IF s \notin DOMAIN m.live THEN m
  ELSE [Send(m, m.live[s].runtime, CloseRequest(s)) EXCEPT !.live = Without(@, {s})]

AllClosed(m, q) == FoldLeft(Closed, m, q)
RetireGeneration(m, current) ==
  AllClosed(m, SetToSeq({s \in DOMAIN m.live : m.live[s].generation # current}))

SetActive(m, s, active) ==
  IF s \in DOMAIN m.live THEN Send(m, m.live[s].runtime, ActiveRequest(s, active)) ELSE m

(* Restart once for a transient fault, then fall back, then go static. *)
Transient == {"Crashed", "TimedOut"}
MutantRestarted(was) == [was EXCEPT !.relaunched = TRUE]
Restarted(was) == [was EXCEPT !.relaunched = TRUE, !.restarts = @ + 1]

Recovered(m, s, error, broken) ==
  IF s \notin DOMAIN m.live THEN m
  ELSE
    LET was == m.live[s]
        closed == [Send(m, was.runtime, CloseRequest(s)) EXCEPT !.live = Without(@, {s})]
        retry == error \in Transient /\ was.restarts < MaxRestarts
        again == Restarted(was)
        left == IF retry THEN Refused(closed, {was.runtime}, broken) ELSE closed
    IN IF retry /\ Launches(closed, was.runtime, broken)
       THEN Launched(closed, s, Session(was.overlay, was.generation, was.runtime, was.rest,
                                        again.restarts, again.relaunched))
       ELSE FellBack(left, s, was.overlay, was.generation,
                     IF error = "PolicyDenied" THEN <<>> ELSE was.rest, TRUE, broken)

------------------------------------------------------------------------------
(* The coordinator. *)

OnPage(m, p) == IF m.indexed = 0 THEN {} ELSE {o \in Overlays : PageOf[o] = p}

(* frame_ready *)
Retained(m, s, f) ==
  LET was == m.live[s]
      o == was.overlay
  IN IF was.generation # m.indexed \/ m.frames[o].sequence >= f.sequence THEN m
     ELSE [m EXCEPT !.frames[o] = [of |-> s, sequence |-> f.sequence,
                                   drawn |-> was.memory[f.slot], relaunched |-> was.relaunched]]

(* session_failed goes by the overlay, whichever session had it. *)
SessionsFailed(m) ==
  [m EXCEPT !.sessions = [o \in Overlays |-> IF o \in m.pending THEN 0 ELSE @[o]],
            !.parked = Only(@, Overlays \ m.pending),
            !.pending = {}]

AllOpened(m, q, broken) == FoldLeft(LAMBDA n, o : Opened(n, o, broken), m, q)
(* Without a staging directory what is embedded is blocked.                 *)
Ready(m, p) == {o \in OnPage(m, p) : m.sessions[o] = 0 /\ (o \in Embedded => m.staging)}
OpenReady(m, p, broken) == AllOpened(m, Ascending(Ready(m, p)), broken)

MutantParkedOn(m, p) ==
  LET stay == Only(m.parked, {o \in Overlays : m.sessions[o] # 0})
      newly == {o \in Overlays : m.sessions[o] # 0 /\ o \notin OnPage(m, p)} \ Range(stay)
  IN stay \o Ascending(newly)
ParkedOn(m, p) ==
  LET stay == Only(m.parked, {o \in Overlays : m.sessions[o] # 0} \ OnPage(m, p))
      newly == {o \in Overlays : m.sessions[o] # 0 /\ o \notin OnPage(m, p)} \ Range(stay)
  IN stay \o Ascending(newly)

AllTold(m, q, on) == FoldLeft(LAMBDA n, o : SetActive(n, n.sessions[o], o \in on), m, q)
Told(m, p) == AllTold(m, Ascending({o \in Overlays : m.sessions[o] # 0}), OnPage(m, p))

(* Sessions parked longest are closed; their frames stay. *)
Ended(m, q) == FoldLeft(LAMBDA n, o : Closed(n, n.sessions[o]), m, q)
FollowPage(m, p) ==
  LET n == Told(m, p)
      all == ParkedOn(n, p)
      excess == IF Len(all) > MaxParked THEN Len(all) - MaxParked ELSE 0
      evicted == SubSeq(all, 1, excess)
      closed == Ended(n, evicted)
  IN [closed EXCEPT !.parked = SubSeq(all, excess + 1, Len(all)),
                    !.sessions = [o \in Overlays |-> IF o \in Range(evicted) THEN 0 ELSE @[o]]]

(* service_media: nothing, while there is no audience source. *)
Serviced(m, p, broken) ==
  IF blank THEN m ELSE FollowPage(OpenReady(RetireGeneration(m, generation), p, broken), p)

------------------------------------------------------------------------------
(* The application's handlers. *)

Move == moves < MaxMoves /\ moves' = moves + 1

(* The runtimes that fail to launch in a step, at most one, are its faults. *)
Broken == {{}} \cup {{r} : r \in Kinds}
Breaks(broken) == faults + Cardinality(broken) <= MaxFaults /\ faults' = faults + Cardinality(broken)

TurnPage(p, broken) ==
  LET m == Serviced(Media, p, broken) IN
  /\ p # page /\ Move /\ Breaks(broken)
  /\ broken # {} => m.opened # opened
  /\ page' = p /\ missed' = blank
  /\ Becomes(m)
  /\ UNCHANGED <<silent, blank, generation>>

(* Blanking and coming back commit no page, and service_media is not called. *)
Blank ==
  /\ Move
  /\ blank' = ~blank
  /\ UNCHANGED <<silent, page, generation, indexed, staging, sessions, parked, frames, live, workers, pending,
                 opened, astray, missed, faults>>

(* A rebuilt document is promoted; its pages' declarations come later. *)
Reload ==
  /\ Move
  /\ generation' = generation + 1
  /\ UNCHANGED <<silent, page, blank, indexed, staging, sessions, parked, frames, live, workers, pending, opened,
                 astray, missed, faults>>

(* The Overlays events of a batch.  The first of a generation, and every    *)
(* one for as long as no staging directory could be made, forget every      *)
(* session without closing it, keep the frames and make the directory.      *)
Forgotten(m, staged) ==
  [m EXCEPT !.sessions = [o \in Overlays |-> 0], !.parked = <<>>,
            !.indexed = generation, !.staging = staged,
            !.astray = @ \cup {o \in Overlays : \E s \in DOMAIN m.live :
                                 m.live[s].overlay = o /\ m.live[s].generation = generation}]

Rebuild(staged, broken) ==
  LET m == Serviced(Forgotten(Media, staged), page, broken)
      fails == Cardinality(broken) + (IF staged THEN 0 ELSE 1)
  IN
  /\ \/ generation # indexed /\ UNCHANGED moves
     \/ generation = indexed /\ ~staging /\ Move
  /\ faults + fails <= MaxFaults /\ faults' = faults + fails
  /\ broken # {} => m.opened # opened
  /\ Becomes(m) /\ missed' = (missed /\ blank)
  /\ UNCHANGED <<silent, page, blank, generation>>

(* The others close the sessions whose overlay is not what it was opened    *)
(* for, and have what has no session opened (bound: one that does neither   *)
(* only repeats every SetActive, and is left out).                          *)
Orphaned(m, changed) ==
  [Ended(m, SetToSeq(changed)) EXCEPT
     !.sessions = [o \in Overlays |-> IF o \in changed THEN 0 ELSE @[o]],
     !.frames = [o \in Overlays |-> IF o \in changed THEN NoFrame ELSE @[o]],
     !.parked = Only(@, Overlays \ changed)]

Regroup(changed, broken) ==
  LET m == Serviced(Orphaned(Media, changed), page, broken) IN
  /\ generation = indexed /\ staging /\ Move /\ Breaks(broken)
  /\ \A o \in changed : sessions[o] # 0
  /\ changed = {} => m.opened # opened
  /\ broken # {} => m.opened # opened
  /\ Becomes(m) /\ missed' = (missed /\ blank)
  /\ UNCHANGED <<silent, page, blank, generation>>

(* One message of a batch that poll_bounded drained from worker r.  Of the  *)
(* frames of a session only the newest is copied out; its slot goes back as *)
(* soon as it is, and so do the slots of the others.                        *)
Superseded(f, batch) ==
  \E i \in DOMAIN batch :
    batch[i].kind = "FrameReady" /\ batch[i].session = f.session /\ batch[i].sequence > f.sequence

MutantFrameReady(m, r, f, batch) ==
  IF \/ Superseded(f, batch) \/ f.session \notin DOMAIN m.live
     \/ m.live[f.session].first /\ f.sequence <= m.live[f.session].last THEN m
  ELSE Retained(Send([m EXCEPT !.live[f.session].first = TRUE, !.live[f.session].last = f.sequence],
                     r, ReleaseRequest(f)), f.session, f)
FrameReady(m, r, f, batch) ==
  IF Superseded(f, batch) THEN Send(m, r, ReleaseRequest(f))
  ELSE IF \/ f.session \notin DOMAIN m.live
          \/ m.live[f.session].first /\ f.sequence <= m.live[f.session].last THEN m
  ELSE Retained(Send([m EXCEPT !.live[f.session].first = TRUE, !.live[f.session].last = f.sequence],
                     r, ReleaseRequest(f)), f.session, f)

(* A batch of k messages, and what it leaves to recover: sessions that      *)
(* failed, and all of a worker that has said everything and is gone.        *)
FailedEvent(s, error) == [kind |-> "Failed", session |-> s, error |-> error]

Gone(r, k) == workers[r].known /\ ~workers[r].alive /\ k = Len(workers[r].outbox)

AllHeard(m, r, batch) ==
  FoldLeft(LAMBDA n, e : IF e.kind = "FrameReady" THEN FrameReady(n, r, e, batch) ELSE n, m, batch)

Drained(r, k) ==
  AllHeard([Media EXCEPT !.workers[r].outbox = SubSeq(@, k + 1, Len(@))],
           r, SubSeq(workers[r].outbox, 1, k))

Casualties(r, k) ==
  LET batch == SubSeq(workers[r].outbox, 1, k)
      failed == Only(batch, {e \in Range(batch) : e.kind = "Failed" /\ e.session \in DOMAIN live})
      lost == {s \in DOMAIN live : Gone(r, k) /\ live[s].runtime = r}
  IN failed \o [i \in 1..Cardinality(lost) |-> FailedEvent(Ascending(lost)[i], "Crashed")]

AllRecovered(m, q, broken) == FoldLeft(LAMBDA n, e : Recovered(n, e.session, e.error, broken), m, q)

(* poll_media *)
Poll(r, k, broken) ==
  /\ k > 0 \/ Gone(r, k) \/ pending # {}
  /\ Breaks(broken)
  /\ broken # {} => Casualties(r, k) # <<>>
  /\ \E drained \in {IF Gone(r, k) THEN [Drained(r, k) EXCEPT !.workers[r] = NoWorker]
                     ELSE Drained(r, k)} :
       \E m \in {AllRecovered(drained, Casualties(r, k), broken)} : Becomes(SessionsFailed(m))
  /\ UNCHANGED <<silent, page, blank, generation, missed, moves>>

(* No frame before first_frame_deadline: nobody draws one any more, or the  *)
(* worker is slow, which is a fault.                                        *)
Drawing(s) ==
  LET w == workers[live[s].runtime] IN
  \/ \E i \in DOMAIN w.inbox : w.inbox[i].session = s
  \/ \E i \in DOMAIN w.outbox : w.outbox[i].session = s
  \/ s \in DOMAIN w.hosted /\ w.hosted[s].active /\ w.hosted[s].sequence = 0 /\ w.hosted[s].count > 0

PollLate(s, broken) ==
  LET slow == IF Drawing(s) THEN 1 ELSE 0 IN
  /\ s \in DOMAIN live /\ ~live[s].first
  /\ faults + Cardinality(broken) + slow <= MaxFaults
  /\ faults' = faults + Cardinality(broken) + slow
  /\ \E m \in {Recovered(Media, s, "TimedOut", broken)} : Becomes(SessionsFailed(m))
  /\ UNCHANGED <<silent, page, blank, generation, missed, moves>>

------------------------------------------------------------------------------
(* A worker process. *)

Rest == <<silent, page, blank, generation, indexed, staging, sessions, parked, frames, pending, opened, astray,
          missed, moves>>

Says(w, message) == [w EXCEPT !.outbox = Append(@, message)]
(* `error` is what stops an Open, or "none"; every kind that is not         *)
(* transient or a denial is handled as Unavailable is.                      *)
OpenErrors == {"Unavailable", "PolicyDenied"}
Answered(w, request, error) ==
  LET s == request.session IN
  CASE request.kind = "Open" /\ error = "none" ->
         [w EXCEPT !.hosted = With(@, s, Attached(request.restarts, request.count))]
    [] request.kind = "Open" /\ error # "none" -> Says(w, FailedEvent(s, error))
    [] request.kind = "Close" -> [w EXCEPT !.hosted = Without(@, {s})]
    [] request.kind # "Open" /\ s \notin DOMAIN w.hosted -> w
    [] request.kind = "SetActive" /\ s \in DOMAIN w.hosted ->
         [w EXCEPT !.hosted[s].active = request.active]
    [] request.kind = "ReleaseFrame" /\ s \in DOMAIN w.hosted ->
         [w EXCEPT !.hosted[s] = Released(@, request.slot, request.sequence)]

Serve(r, error) ==
  LET w == workers[r]
      request == Head(w.inbox)
      fault == IF error = "none" THEN 0 ELSE 1
  IN
  /\ w.inbox # <<>> /\ (error # "none" => request.kind = "Open")
  /\ faults + fault <= MaxFaults /\ faults' = faults + fault
  /\ workers' = [workers EXCEPT ![r] = Answered([w EXCEPT !.inbox = Tail(@)], request, error)]
  /\ UNCHANGED <<Rest, live>>

(* pump: the first frame, and another one when playback has moved.  With    *)
(* every slot held the frame is dropped, and its number is used again.      *)
Draw(r, s) ==
  LET at == workers[r].hosted[s]
      slot == Claimed(at)
      n == at.sequence + 1
      seen == s \in DOMAIN live /\ live[s].runtime = r /\ live[s].restarts = at.restarts
  IN
  /\ s \in DOMAIN workers[r].hosted /\ at.active /\ at.sequence < at.count /\ Free(at) # {}
  /\ workers' = [workers EXCEPT
       ![r].hosted[s] = [at EXCEPT !.sequence = n, !.next = (slot + 1) % Slots,
                                   !.held = @ \cup {[slot |-> slot, sequence |-> n]}],
       ![r].outbox = Append(@, [kind |-> "FrameReady", session |-> s, sequence |-> n, slot |-> slot])]
  /\ live' = IF seen THEN [live EXCEPT ![s].memory[slot] = n] ELSE live
  /\ UNCHANGED <<Rest, faults>>

Fault == faults < MaxFaults /\ faults' = faults + 1

(* The browser or the library failed, which is a transient fault, or what   *)
(* it plays cannot be decoded, which is handled as Unavailable is.          *)
PumpErrors == {"Crashed", "Unavailable"}
PumpFails(r, s, error) ==
  LET w == workers[r] IN
  /\ s \in DOMAIN w.hosted /\ Fault
  /\ workers' = [workers EXCEPT ![r] =
       Says([w EXCEPT !.hosted = Without(@, {s})], FailedEvent(s, error))]
  /\ UNCHANGED <<Rest, live>>

(* What the process wrote can still be read. *)
Dies(r) ==
  /\ workers[r].alive /\ Fault
  /\ workers' = [workers EXCEPT ![r] = [@ EXCEPT !.alive = FALSE, !.inbox = <<>>, !.hosted = Nobody]]
  /\ UNCHANGED <<Rest, live>>

------------------------------------------------------------------------------
Init ==
  /\ page = 1 /\ blank = FALSE /\ generation = 1 /\ indexed = 0 /\ staging = FALSE
  /\ sessions = [o \in Overlays |-> 0] /\ parked = <<>>
  /\ frames = [o \in Overlays |-> NoFrame]
  /\ live = Nobody /\ workers = [r \in Kinds |-> NoWorker]
  /\ pending = {} /\ opened = 0 /\ astray = {} /\ missed = FALSE
  /\ silent \in {S \in SUBSET Overlays : Cardinality(S) <= MaxFaults}
  /\ moves = 0 /\ faults = Cardinality(silent)

Handles ==
  \E broken \in Broken :
    \/ \E p \in Pages : TurnPage(p, broken)
    \/ \E staged \in BOOLEAN : Rebuild(staged, broken)
    \/ \E changed \in SUBSET Overlays : Regroup(changed, broken)
    \/ \E r \in Kinds : \E k \in 0..Len(workers[r].outbox) : Poll(r, k, broken)
    \/ \E s \in DOMAIN live : PollLate(s, broken)

Plays(r) ==
  \/ \E error \in OpenErrors \cup {"none"} : Serve(r, error)
  \/ \E s \in DOMAIN workers[r].hosted :
       Draw(r, s) \/ \E error \in PumpErrors : PumpFails(r, s, error)
  \/ Dies(r)

Next == Handles \/ Blank \/ Reload \/ \E r \in Kinds : Plays(r)

Spec == Init /\ [][Next]_vars

(* A worker's loop never rests: it reads its pipe and draws the first frame *)
(* of what it hosts.  The tick polls the supervisor, so that nothing is     *)
(* owed for ever: Poll and PollLate are enabled exactly when something is,  *)
(* and leave nothing of it, which makes this weak fairness of both.         *)
Loop(r) ==
  \/ Serve(r, "none")
  \/ \E s \in DOMAIN workers[r].hosted : workers[r].hosted[s].sequence = 0 /\ Draw(r, s)
Unheard(r) == workers[r].outbox # <<>> \/ Gone(r, 0) \/ pending # {}
Late(s) == s \in DOMAIN live /\ ~live[s].first /\ ~Drawing(s)

Fairness ==
  /\ \A r \in Kinds : WF_vars(Loop(r)) /\ []<>~Unheard(r)
  /\ \A s \in 1..MaxOpens : []<>~Late(s)

FairSpec == Spec /\ Fairness

------------------------------------------------------------------------------
(* Properties. *)

(* Every variable stays in its range: parked overlays are distinct, have a  *)
(* session and are bounded, sessions are numbered once, a worker that is    *)
(* not alive hosts nothing, and a ring never has more frames than slots.    *)
TypeOK ==
  /\ silent \subseteq Overlays /\ page \in Pages /\ {blank, missed, staging} \subseteq BOOLEAN /\ generation \in 1..(MaxMoves + 1) /\ indexed \in 0..generation
  /\ sessions \in [Overlays -> 0..opened] /\ opened \in 0..MaxOpens
  /\ IsInjective(parked) /\ Len(parked) <= MaxParked
  /\ \A o \in Range(parked) : sessions[o] # 0 /\ (o \in OnPage(Media, page) => missed)
  /\ DOMAIN live \subseteq 1..opened /\ pending \subseteq Overlays /\ astray \subseteq Overlays
  /\ \A s \in DOMAIN live :
       live[s].restarts \in 0..MaxRestarts /\ live[s].last \in 0..FrameCount[live[s].overlay]
  /\ \A r \in Kinds :
       /\ workers[r].alive => workers[r].known
       /\ ~workers[r].alive => workers[r].hosted = Nobody /\ workers[r].inbox = <<>>
       /\ \A s \in DOMAIN workers[r].hosted : Cardinality(workers[r].hosted[s].held) <= Slots

(* The process that hosts s from its first launch on. *)
Steady(r, s) ==
  /\ s \in DOMAIN live /\ live[s].runtime = r /\ ~live[s].relaunched
  /\ s \in DOMAIN workers[r].hosted

(* A frame on screen is a whole one: what was copied out of its slot is     *)
(* what the worker drew under that number, though the worker goes on        *)
(* drawing in the ring.  A session that was relaunched under its number is  *)
(* left out: a frame announced for its old ring is looked up in the new one.*)
FrameIntact ==
  \A o \in Overlays :
    frames[o].of # 0 /\ ~frames[o].relaunched => frames[o].drawn = frames[o].sequence

Announced(r, s, h) ==
  Cardinality({i \in DOMAIN workers[r].outbox :
    /\ workers[r].outbox[i].kind = "FrameReady" /\ workers[r].outbox[i].session = s
    /\ workers[r].outbox[i].slot = h.slot /\ workers[r].outbox[i].sequence = h.sequence})
Returning(r, s, h) ==
  Cardinality({i \in DOMAIN workers[r].inbox : workers[r].inbox[i] =
    ReleaseRequest([session |-> s, slot |-> h.slot, sequence |-> h.sequence])})

(* No slot leaks: each one a worker holds back is on its way to the         *)
(* supervisor or on its way home, once, also when its frame is superseded.  *)
SlotsComeBack ==
  \A r \in Kinds : \A s \in DOMAIN workers[r].hosted :
    Steady(r, s) =>
      \A h \in workers[r].hosted[s].held : Announced(r, s, h) + Returning(r, s, h) = 1

(* The ring is never the reason for a torn or a frozen picture. *)
RingSound == FrameIntact /\ SlotsComeBack

(* Of the generation that is shown, every session that plays is the one the *)
(* coordinator has for its overlay: none is orphaned by a page turn, a      *)
(* rebuild, an eviction or a failure, to play on unseen beside another.     *)
(* Two kinds of overlay are left out, where it happens: one that had an     *)
(* open nobody took, whose late report puts down the session that was       *)
(* opened since, and one whose session was forgotten, not closed, by a      *)
(* rebuild in its own generation that found no staging directory.           *)
NoOrphan ==
  \A s \in DOMAIN live :
    LET o == live[s].overlay IN
    live[s].generation = generation /\ o \notin astray => sessions[o] = s

(* A session plays on its page only, once it has read what it was told:     *)
(* "a video running on a slide nobody is looking at would keep talking over *)
(* the presenter" (mpv.rs set_active).  One that was relaunched while it    *)
(* was parked is left out: nobody tells it again.                           *)
PlaysOnPage ==
  \A r \in Kinds : \A s \in DOMAIN workers[r].hosted :
    /\ Steady(r, s) /\ sessions[live[s].overlay] = s
    /\ \A i \in DOMAIN workers[r].inbox : workers[r].inbox[i].session # s
    => workers[r].hosted[s].active = (PageOf[live[s].overlay] = page)

(* What plays is what the audience is looking at -- once a page turn has     *)
(* found it looking: turned while the screen is blank, the page has no one  *)
(* to start its sessions and stop those of the page that was left.          *)
FollowsAudience == NoOrphan /\ (~missed => PlaysOnPage)

(* No session stays without a picture: it has a first frame, or it is      *)
(* closed or given up; restarts and fallbacks do not go on for ever.        *)
OpenEnds == []<>(\A s \in DOMAIN live : live[s].first)

(* "Its last complete frame is retained until a complete replacement        *)
(* arrives": once a frame of the session an overlay has was copied out, the *)
(* frame on screen is one of that session (coordinator.rs frame_ready).     *)
ReplacedByComplete ==
  \A o \in Overlays :
    LET s == sessions[o] IN
    s \in DOMAIN live /\ live[s].first /\ live[s].generation = indexed => frames[o].of = s
=============================================================================
