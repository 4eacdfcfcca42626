---------------------------- MODULE SavedSession ----------------------------
(***************************************************************************)
(* The snapshot each running copy of pulpit keeps of its session: written  *)
(* from a helper thread, removed by a clean end, and taken by a later copy *)
(* after a crash, which tells a copy that is gone from one that runs by    *)
(* the claim it holds on its pid.                                          *)
(*                                                                         *)
(* Source: crates/pulpit/src/app.rs, app/persist.rs, session.rs and        *)
(* platform/instance.rs.                                                   *)
(*                                                                         *)
(* A session is the place it is at, 0 when there is nothing worth          *)
(* offering.  Two writes of one copy do not overlap: they are seconds      *)
(* apart (persist.rs:88).  A pid is not used again.                        *)
(***************************************************************************)
EXTENDS AtomicFile, Sequences, FiniteSets

CONSTANTS
  Copies,     \* the processes, by pid
  MaxPlaces,  \* bound: the places a session may be at
  MaxMoves,   \* bound: moves from one place to another
  MaxFaults   \* bound: crashes, power losses, failed writes and claims

ASSUME SessionAssumption ==
  /\ Copies \subseteq Nat /\ IsFiniteSet(Copies)
  /\ MaxPlaces \in Nat /\ MaxMoves \in Nat /\ MaxFaults \in Nat
  /\ Missing = 0 /\ Torn = MaxPlaces + 1

VARIABLES
  phase,    \* where each copy is between its start and its end
  claimed,  \* the copies whose live claim is held
  todo,     \* the abandoned snapshots a starting copy has listed
  found,    \* what it has read of the first of them
  session,  \* the place each copy is at
  last,     \* App::last_session
  writer,   \* App::session_writer: what the thread writes, and how far it got
  snap,     \* the snapshot files
  failed,   \* history: the copies whose last write failed
  blackout, \* history: the power went
  moves, faults

startVars == <<claimed, todo, found>>
sessionVars == <<session, last>>
vars == <<phase, startVars, sessionVars, writer, snap, failed, blackout, moves, faults>>

Fault == faults < MaxFaults /\ faults' = faults + 1

Idle == [at |-> "idle", what |-> 0]

Running == {c \in Copies : phase[c] \notin {"off", "gone", "dead"}}

Goes(c, from, to) == phase[c] = from /\ phase' = [phase EXCEPT ![c] = to]

------------------------------------------------------------------------------
(* acquire: a lock that ends with the process, or that cannot be had. *)
Claims(c) ==
  \/ claimed' = claimed \cup {c} /\ UNCHANGED faults
  \/ Fault /\ UNCHANGED claimed

(* A copy starts: it says that it runs, then looks for what others left. *)
Start(c, looks) ==
  /\ Goes(c, "off", IF looks THEN "listing" ELSE "up")
  /\ Claims(c)
  /\ UNCHANGED <<todo, found, sessionVars, writer, snap, failed, blackout, moves>>

(* abandoned_snapshots, is_live *)
MutantAbandoned(c) == {d \in Copies \ {c} : snap[d].seen # Missing}
Abandoned(c) == {d \in Copies \ {c} : snap[d].seen # Missing /\ d \notin claimed}

(* Oldest process first. *)
Sorted(S) == {q \in [1..Cardinality(S) -> S] : \A i, j \in DOMAIN q : i < j => q[i] < q[j]}

List(c) ==
  /\ Goes(c, "listing", IF Abandoned(c) = {} THEN "up" ELSE "loading")
  /\ \E oldestFirst \in Sorted(Abandoned(c)) : todo' = [todo EXCEPT ![c] = oldestFirst]
  /\ UNCHANGED <<claimed, found, sessionVars, writer, snap, failed, blackout, moves, faults>>

Load(c) ==
  /\ Goes(c, "loading", "taking")
  /\ found' = [found EXCEPT ![c] = snap[Head(todo[c])].seen]
  /\ UNCHANGED <<claimed, todo, sessionVars, writer, snap, failed, blackout, moves, faults>>

MutantRemaining(c, read) == Tail(todo[c])
Remaining(c, read) == IF read THEN <<>> ELSE Tail(todo[c])

(* Taken off disk; if it could be read it is restored, or given up for the *)
(* document the copy was started with, and if not the next one is tried.   *)
Take(c) ==
  LET read == found[c] \notin {Missing, Torn} IN
  /\ Goes(c, "taking", IF read \/ Len(todo[c]) = 1 THEN "up" ELSE "loading")
  /\ todo' = [todo EXCEPT ![c] = Remaining(c, read)]
  /\ snap' = [snap EXCEPT ![Head(todo[c])] = Removed(@)]
  /\ found' = [found EXCEPT ![c] = Missing]
  /\ \E place \in IF read THEN {found[c], 0} ELSE {0} : session' = [session EXCEPT ![c] = place]
  /\ UNCHANGED <<claimed, last, writer, failed, blackout, moves, faults>>

------------------------------------------------------------------------------
(* The session. *)
Move(c, place) ==
  /\ phase[c] = "up" /\ moves < MaxMoves /\ session[c] # place
  /\ moves' = moves + 1
  /\ session' = [session EXCEPT ![c] = place]
  /\ UNCHANGED <<phase, startVars, last, writer, snap, failed, blackout, faults>>

(* close_document, which does not wait for a writer. *)
MutantForgotten(c) == last
Forgotten(c) == [last EXCEPT ![c] = 0]

CloseDocument(c) ==
  /\ phase[c] = "up" /\ session[c] # 0
  /\ session' = [session EXCEPT ![c] = 0]
  /\ snap' = [snap EXCEPT ![c] = Removed(@)]
  /\ last' = Forgotten(c)
  /\ UNCHANGED <<phase, startVars, writer, failed, blackout, moves, faults>>

(* save_session: remembered as written before it is. *)
SaveSession(c) ==
  /\ phase[c] = "up" /\ writer[c] = Idle
  /\ session[c] # 0 /\ session[c] # last[c]
  /\ writer' = [writer EXCEPT ![c] = [at |-> "write", what |-> session[c]]]
  /\ last' = [last EXCEPT ![c] = session[c]]
  /\ UNCHANGED <<phase, startVars, session, snap, failed, blackout, moves, faults>>

(* SessionStore::save, in the thread of the writer. *)
Write(c) ==
  /\ writer[c].at = "write"
  /\ writer' = [writer EXCEPT ![c].at = "sync"]
  /\ snap' = [snap EXCEPT ![c] = Renamed(@, writer[c].what)]
  /\ failed' = failed \ {c}
  /\ UNCHANGED <<phase, startVars, sessionVars, blackout, moves, faults>>

WriteFails(c) ==
  /\ writer[c].at = "write" /\ Fault
  /\ writer' = [writer EXCEPT ![c] = Idle]
  /\ failed' = failed \cup {c}
  /\ UNCHANGED <<phase, startVars, sessionVars, snap, blackout, moves>>

SyncDirectory(c) ==
  /\ writer[c].at = "sync"
  /\ writer' = [writer EXCEPT ![c] = Idle]
  /\ snap' = [d \in Copies |-> Settled(snap[d])]
  /\ UNCHANGED <<phase, startVars, sessionVars, failed, blackout, moves, faults>>

------------------------------------------------------------------------------
(* The end of a copy.  quit waits for the writer, then clears. *)
Quit(c) ==
  /\ Goes(c, "up", "quitting")
  /\ UNCHANGED <<startVars, sessionVars, writer, snap, failed, blackout, moves, faults>>

Joined(c) == writer[c] = Idle

Clear(c) ==
  /\ Goes(c, "quitting", "leaving") /\ Joined(c)
  /\ snap' = [snap EXCEPT ![c] = Removed(@)]
  /\ UNCHANGED <<startVars, sessionVars, writer, failed, blackout, moves, faults>>

(* What goes with the processes in S, their threads and claims included. *)
Ends(S, as) ==
  LET reset(f, to) == [c \in Copies |-> IF c \in S THEN to ELSE f[c]] IN
  /\ phase' = reset(phase, as) /\ claimed' = claimed \ S
  /\ todo' = reset(todo, <<>>) /\ found' = reset(found, Missing)
  /\ session' = reset(session, 0) /\ last' = reset(last, 0)
  /\ writer' = reset(writer, Idle)
  /\ failed' = failed \ S
  /\ UNCHANGED moves

Exit(c) ==
  /\ phase[c] = "leaving"
  /\ Ends({c}, "gone")
  /\ UNCHANGED <<snap, blackout, faults>>

Crash(c) ==
  /\ c \in Running /\ Fault
  /\ Ends({c}, "dead")
  /\ UNCHANGED <<snap, blackout>>

PowerLoss ==
  /\ Running # {} /\ Fault
  /\ Ends(Running, "dead")
  /\ snap' \in {s \in [Copies -> UNION {AfterPowerLoss(snap[c]) : c \in Copies}] :
                  \A c \in Copies : s[c] \in AfterPowerLoss(snap[c])}
  /\ blackout' = TRUE

------------------------------------------------------------------------------
Init ==
  /\ phase = [c \in Copies |-> "off"] /\ claimed = {}
  /\ todo = [c \in Copies |-> <<>>] /\ found = [c \in Copies |-> Missing]
  /\ session = [c \in Copies |-> 0] /\ last = [c \in Copies |-> 0]
  /\ writer = [c \in Copies |-> Idle] /\ snap = [c \in Copies |-> File(Missing)]
  /\ failed = {} /\ blackout = FALSE
  /\ moves = 0 /\ faults = 0

User(c) ==
  \/ \E looks \in BOOLEAN : Start(c, looks)
  \/ \E place \in 1..MaxPlaces : Move(c, place)
  \/ CloseDocument(c) \/ Quit(c)

Runs(c) == List(c) \/ Load(c) \/ Take(c) \/ SaveSession(c) \/ Clear(c) \/ Exit(c)

Writes(c) == Write(c) \/ SyncDirectory(c)

Next ==
  \/ \E c \in Copies : User(c) \/ Runs(c) \/ Writes(c) \/ WriteFails(c) \/ Crash(c)
  \/ PowerLoss

Spec == Init /\ [][Next]_vars

(* The tick timer of a copy runs while it does, and so does its writer. *)
Fairness == \A c \in Copies : WF_vars(Runs(c)) /\ WF_vars(Writes(c))

FairSpec == Spec /\ Fairness

------------------------------------------------------------------------------
(* Properties. *)

(* Every variable stays in its range, and a copy that ended has no thread. *)
TypeOK ==
  /\ phase \in [Copies -> {"off", "listing", "loading", "taking", "up", "quitting", "leaving",
                           "gone", "dead"}]
  /\ claimed \subseteq Running /\ failed \subseteq Running
  /\ todo \in [Copies -> Seq(Copies)] /\ found \in [Copies -> 0..Torn]
  /\ session \in [Copies -> 0..MaxPlaces] /\ last \in [Copies -> 0..MaxPlaces]
  /\ writer \in [Copies -> [at : {"idle", "write", "sync"}, what : 0..MaxPlaces]]
  /\ snap \in [Copies -> [seen : 0..Torn, kept : SUBSET (0..Torn)]]
  /\ \A c \in Copies :
       /\ phase[c] \in {"loading", "taking"} <=> todo[c] # <<>>
       /\ snap[c].seen \in snap[c].kept
       /\ c \notin Running => writer[c] = Idle

(* A crash of a process or of the machine in the middle of a write must not *)
(* be what destroys the snapshot: it is a version somebody wrote, or it is  *)
(* not there (session.rs save, atomic.rs).                                  *)
NeverTorn == \A c \in Copies : Torn \notin snap[c].kept

(* A clean exit must never offer a restore (app.rs quit): the snapshot of  *)
(* a copy that quit is gone, and no writer brings it back.  The removal    *)
(* itself is not synced: a power loss may undo it.                         *)
CleanExitStays == \A c \in Copies : phase[c] = "gone" => snap[c].seen = Missing \/ blackout

(* What the next start finds is what the last one left. *)
SnapshotSound == NeverTorn /\ CleanExitStays

(* Taking the snapshot of a copy that runs would offer a running session   *)
(* back as a crashed one: nobody takes that of a copy that holds its claim *)
(* (session.rs abandoned_snapshots).                                       *)
NeverStolen ==
  [][\A c \in Copies : phase[c] = "taking" /\ phase'[c] \in {"loading", "up"}
       => Head(todo[c]) \notin claimed]_vars

(* The session a copy stays in gets to disk, after whatever it did before, *)
(* unless the write fails or the copy has no claim to keep it with.        *)
Stays(c, place) == phase[c] = "up" /\ c \in claimed /\ session[c] = place
CatchesUp ==
  \A c \in Copies : \A place \in 1..MaxPlaces :
    Stays(c, place) ~> \/ snap[c].seen = place /\ writer[c].at # "write"
                       \/ ~Stays(c, place) \/ c \in failed
=============================================================================
