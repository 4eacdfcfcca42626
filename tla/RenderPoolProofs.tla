-------------------------- MODULE RenderPoolProofs --------------------------
(*****************************************************************************)
(* Theorems about RenderPool, for every value of its constants, in three     *)
(* parts: the types and the ledger of requests, which process a slot has,    *)
(* and what the application is told of its requests.                         *)
(*****************************************************************************)
EXTENDS RenderPool, FiniteSetTheorems, SequenceTheorems, TLAPS

-----------------------------------------------------------------------------
(* A process that was ever started belongs to a slot, so that the messages  *)
(* it sends name one, and a slot's process was started.                     *)
Placed(s, p) ==
  /\ \A e \in Epochs : p[e].run = "none" \/ p[e].at \in Slots
  /\ \A i \in Slots : s[i].epoch \in Epochs => p[s[i].epoch].run # "none"

TypeInv == TypeOK /\ Placed(slot, proc)

-----------------------------------------------------------------------------
(* Slots and processes as they are built. *)

LEMMA VacantType == Vacant \in SlotType
  BY PoolAssumption DEF SlotType, Vacant, None

LEMMA FreshType == ASSUME NEW e \in Epochs PROVE Fresh(e) \in SlotType
  <1>1. e \in 0..MaxEpochs
    BY PoolAssumption DEF Epochs
  <1> QED
    BY <1>1, VacantType DEF Fresh, SlotType

LEMMA NoProcessType == NoProcess \in ProcType
  BY PoolAssumption DEF NoProcess, ProcType, None

LEMMA SpawnedType ==
  ASSUME TypeOK, NEW i \in Slots, NEW qs \in SUBSET Questions
  PROVE  Spawned(i, qs) \in ProcType
  <1>1. [d \in Docs |-> IF d \in documents THEN 1 ELSE 0] \in [Docs -> Nat]
    OBVIOUS
  <1>2. i \in 0..MaxSlots
    BY PoolAssumption DEF Slots
  <1> QED
    BY <1>1, <1>2, NoProcessType DEF Spawned, ProcType, TypeOK, Running

LEMMA FirstEpoch == 1 \in Epochs /\ 1 \in Slots
  BY PoolAssumption DEF Epochs, Slots

LEMMA TypeInit == Init => TypeInv
  <1> SUFFICES ASSUME Init PROVE TypeInv
    OBVIOUS
  <1>1. slot \in [Slots -> SlotType]
    BY VacantType, FreshType, FirstEpoch DEF Init
  <1>2. [NoProcess EXCEPT !.run = "up", !.at = 1] \in ProcType
    <2>1. 1 \in 0..MaxSlots
      BY PoolAssumption
    <2> QED
      BY <2>1, NoProcessType DEF ProcType, Running
  <1>3. proc \in [Epochs -> ProcType]
    BY <1>2, NoProcessType DEF Init
  <1>4. next \in 0..JobCount /\ floor \in 0..MaxFloor /\ faults \in 0..MaxFaults
    BY PoolAssumption DEF Init
  <1>5. events \in Seq(MessageType) /\ answers \in [Jobs -> Seq(AnswerKinds)]
    BY DEF Init
  <1>6. TypeOK
    BY <1>1, <1>3, <1>4, <1>5, FirstEpoch DEF Init, TypeOK, Phases, Fates
  <1>7. Placed(slot, proc)
    <2>1. None \notin Epochs
      BY DEF None, Epochs
    <2>2. \A i \in Slots : slot[i] = Fresh(1) \/ slot[i] = Vacant
      BY DEF Init
    <2>4. Fresh(1).epoch = 1 /\ Vacant.epoch = None
      BY DEF Fresh, Vacant
    <2> DEFINE first == [NoProcess EXCEPT !.run = "up", !.at = 1]
    <2>5. first.run = "up" /\ first.at = 1 /\ NoProcess.run = "none"
      BY DEF NoProcess
    <2> HIDE DEF first
    <2>3. \A e \in Epochs : proc[e] = IF e = 1 THEN first ELSE NoProcess
      BY DEF Init, first
    <2> QED
      BY <2>1, <2>2, <2>3, <2>4, <2>5, FirstEpoch DEF Placed
  <1> QED
    BY <1>6, <1>7 DEF TypeInv

-----------------------------------------------------------------------------
(* The application's calls. *)

LEMMA PlacedKept ==
  ASSUME TypeInv, \A i \in Slots : slot'[i].epoch \in {slot[i].epoch, None},
         \A e \in Epochs : /\ proc'[e].at = proc[e].at
                           /\ proc'[e].run = "none" <=> proc[e].run = "none"
  PROVE  Placed(slot, proc)'
  <1>1. ASSUME NEW e \in Epochs PROVE proc'[e].run = "none" \/ proc'[e].at \in Slots
    BY DEF TypeInv, Placed
  <1>2. ASSUME NEW i \in Slots, slot'[i].epoch \in Epochs
        PROVE  proc'[slot'[i].epoch].run # "none"
    <2>1. slot'[i].epoch = slot[i].epoch
      BY <1>2 DEF None, Epochs
    <2> QED
      BY <1>2, <2>1 DEF TypeInv, Placed
  <1> QED
    BY <1>1, <1>2 DEF Placed

LEMMA TypeSubmit == ASSUME TypeInv, NEW j \in Jobs, Submit(j) PROVE TypeInv'
  <1>1. next' \in 0..JobCount
    BY DEF Submit, Jobs
  <1>2. <<j, "Cancelled">> \in Jobs \X {"Failed", "Cancelled"}
    OBVIOUS
  <1>3. owed' \subseteq Jobs \X {"Failed", "Cancelled"}
    BY <1>2 DEF TypeInv, TypeOK, Submit
  <1>4. Placed(slot, proc)'
    BY DEF TypeInv, Placed, Submit
  <1> QED
    BY <1>1, <1>3, <1>4 DEF TypeInv, TypeOK, Submit, Phases

LEMMA TypeCancelRender == ASSUME TypeInv, NEW j \in Jobs, CancelRender(j) PROVE TypeInv'
  <1>1. ASSUME NEW e \in Epochs
        PROVE  /\ proc'[e] \in ProcType
               /\ proc'[e].run = proc[e].run /\ proc'[e].at = proc[e].at
    BY DEF TypeInv, TypeOK, CancelRender, ProcType
  <1>2. proc' \in [Epochs -> ProcType]
    BY <1>1 DEF CancelRender
  <1>3. Placed(slot, proc)'
    BY <1>1, PlacedKept DEF CancelRender
  <1> QED
    BY <1>2, <1>3 DEF TypeInv, TypeOK, CancelRender

LEMMA TypeInvalidate == ASSUME TypeInv, NEW g \in 1..MaxFloor, Invalidate(g) PROVE TypeInv'
  <1>1. ASSUME NEW e \in Epochs
        PROVE  /\ proc'[e] \in ProcType
               /\ proc'[e].run = proc[e].run /\ proc'[e].at = proc[e].at
    BY ZenonT(40) DEF TypeInv, TypeOK, Invalidate, ProcType
  <1>2. proc' \in [Epochs -> ProcType]
    BY <1>1 DEF Invalidate
  <1>3. Placed(slot, proc)'
    BY <1>1, PlacedKept DEF Invalidate
  <1>4. floor' \in 0..MaxFloor
    BY PoolAssumption DEF Invalidate
  <1> QED
    BY <1>2, <1>3, <1>4 DEF TypeInv, TypeOK, Invalidate

LEMMA TypeAsk == ASSUME TypeInv, NEW q \in Questions, Ask(q) PROVE TypeInv'
  <1>1. CASE UNCHANGED <<slot, proc>>
    <2>1. Placed(slot, proc)'
      BY <1>1, PlacedKept
    <2> QED
      BY <1>1, <2>1 DEF TypeInv, TypeOK, Ask, Fates
  <1>2. ASSUME NEW i \in Live,
               slot' = [slot EXCEPT ![i].asked = @ \cup {q}],
               proc' = [proc EXCEPT ![slot[i].epoch].asks = @ \cup {q}]
        PROVE  TypeInv'
    <2>0. slot \in [Slots -> SlotType]
      BY DEF TypeInv, TypeOK
    <2>1. /\ slot' \in [Slots -> SlotType]
          /\ \A k \in Slots : slot'[k].epoch = slot[k].epoch
      BY <1>2, <2>0 DEF SlotType
    <2>2. ASSUME NEW e \in Epochs
          PROVE  /\ proc'[e] \in ProcType
                 /\ proc'[e].run = proc[e].run /\ proc'[e].at = proc[e].at
      <3>1. proc[e] \in ProcType
        BY DEF TypeInv, TypeOK
      <3>2. proc'[e] = proc[e] \/ proc'[e] = [proc[e] EXCEPT !.asks = @ \cup {q}]
        BY <1>2 DEF TypeInv, TypeOK
      <3> QED
        BY <3>1, <3>2 DEF ProcType
    <2>3. proc' \in [Epochs -> ProcType]
      BY <1>2, <2>2 DEF TypeInv, TypeOK
    <2>4. Placed(slot, proc)'
      BY <2>1, <2>2, PlacedKept
    <2> QED
      BY <2>1, <2>3, <2>4 DEF TypeInv, TypeOK, Ask, Fates
  <1> QED
    BY <1>1, <1>2 DEF Ask

LEMMA TypeOpen == ASSUME TypeInv, NEW d \in Docs, Open(d) PROVE TypeInv'
  <1>1. ASSUME NEW e \in Epochs
        PROVE  /\ proc'[e] \in ProcType
               /\ proc'[e].run = proc[e].run /\ proc'[e].at = proc[e].at
    <2>1. proc[e] \in ProcType
      BY DEF TypeInv, TypeOK
    <2>2. \/ proc'[e] = proc[e]
          \/ proc'[e] = [proc[e] EXCEPT !.docs = @ \cup {d}, !.opening[d] = @ + 1]
      BY DEF Open
    <2>3. [proc[e].opening EXCEPT ![d] = @ + 1] \in [Docs -> Nat]
      BY <2>1 DEF ProcType
    <2> DEFINE o == [proc[e].opening EXCEPT ![d] = @ + 1]
    <2>4. [proc[e] EXCEPT !.docs = @ \cup {d}, !.opening = o] \in ProcType
      BY <2>1, <2>3 DEF ProcType
    <2>5. [proc[e] EXCEPT !.docs = @ \cup {d}, !.opening[d] = @ + 1]
            = [proc[e] EXCEPT !.docs = @ \cup {d}, !.opening = o]
      BY <2>1 DEF ProcType
    <2> HIDE DEF o
    <2>6. /\ [proc[e] EXCEPT !.docs = @ \cup {d}, !.opening = o].run = proc[e].run
          /\ [proc[e] EXCEPT !.docs = @ \cup {d}, !.opening = o].at = proc[e].at
      BY <2>1 DEF ProcType
    <2> QED
      BY <2>1, <2>2, <2>4, <2>5, <2>6
  <1>2. proc' \in [Epochs -> ProcType]
    BY <1>1 DEF Open
  <1>3. Placed(slot, proc)'
    BY <1>1, PlacedKept DEF Open
  <1>4. reports' \in [Docs -> Nat] /\ opens' \in [Docs -> Nat]
    <2>1. reports \in [Docs -> Nat] /\ opens \in [Docs -> Nat]
      BY DEF TypeInv, TypeOK
    <2>2. reports' = [reports EXCEPT ![d] = 0] /\ opens' = [opens EXCEPT ![d] = @ + 1]
      BY DEF Open
    <2> QED
      BY <2>1, <2>2
  <1> QED
    BY <1>2, <1>3, <1>4 DEF TypeInv, TypeOK, Open

LEMMA TypeClose == ASSUME TypeInv, NEW d \in Docs, Close(d) PROVE TypeInv'
  <1>1. ASSUME NEW e \in Epochs
        PROVE  /\ proc'[e] \in ProcType
               /\ proc'[e].run = proc[e].run /\ proc'[e].at = proc[e].at
    BY DEF TypeInv, TypeOK, Close, ProcType
  <1>2. proc' \in [Epochs -> ProcType]
    BY <1>1 DEF Close
  <1>3. Placed(slot, proc)'
    BY <1>1, PlacedKept DEF Close
  <1>4. reports' \in [Docs -> Nat]
    BY DEF TypeInv, TypeOK, Close
  <1> QED
    BY <1>2, <1>3, <1>4 DEF TypeInv, TypeOK, Close

-----------------------------------------------------------------------------
(* What a message, a kill and a restart do to the slots.                    *)

LEMMA HeardSlot ==
  ASSUME TypeInv, NEW m \in MessageType
  PROVE  /\ Heard(m) \in [Slots -> SlotType]
         /\ \A i \in Slots : /\ Heard(m)[i].inFlight = slot[i].inFlight
                             /\ Heard(m)[i].alive = slot[i].alive
                             /\ Heard(m)[i].backoff = slot[i].backoff
                             /\ Heard(m)[i].epoch = slot[i].epoch
  <1> DEFINE asked == IF m.kind = "Answer" THEN {q \in slot[m.at].asked : Topic[q] # Topic[m.what]}
                                           ELSE slot[m.at].asked
             now == [slot[m.at] EXCEPT !.silent = FALSE, !.asked = asked]
  <1>1. slot \in [Slots -> SlotType] /\ m.at \in Slots
    BY DEF TypeInv, TypeOK, MessageType, Said
  <1>2. slot[m.at] \in SlotType
    BY <1>1
  <1>3. asked \in SUBSET Questions
    BY <1>2 DEF SlotType
  <1>4. Heard(m) = [slot EXCEPT ![m.at] = now]
    BY <1>1 DEF Heard
  <1> HIDE DEF asked
  <1>5. now \in SlotType
    BY <1>2, <1>3 DEF SlotType
  <1>6. /\ now.inFlight = slot[m.at].inFlight /\ now.alive = slot[m.at].alive
        /\ now.backoff = slot[m.at].backoff /\ now.epoch = slot[m.at].epoch
    BY <1>2 DEF SlotType
  <1> HIDE DEF now
  <1> QED
    BY <1>1, <1>4, <1>5, <1>6

LEMMA GaveUpSlot ==
  ASSUME NEW s \in [Slots -> SlotType], NEW i \in Slots, NEW recent \in Nat
  PROVE  /\ GaveUp(s, i, recent) \in [Slots -> SlotType]
         /\ ~GaveUp(s, i, recent)[i].alive
         /\ GaveUp(s, i, recent)[i].inFlight = {}
         /\ GaveUp(s, i, recent)[i].epoch = s[i].epoch
         /\ \A k \in Slots \ {i} : GaveUp(s, i, recent)[k] = s[k]
  <1> DEFINE now == [s[i] EXCEPT !.alive = FALSE, !.inFlight = {}, !.recent = recent,
                                 !.backoff = "waiting"]
  <1>1. GaveUp(s, i, recent) = [s EXCEPT ![i] = now]
    BY DEF GaveUp
  <1>2. now \in SlotType /\ ~now.alive /\ now.inFlight = {} /\ now.epoch = s[i].epoch
    BY DEF SlotType
  <1> HIDE DEF now
  <1> QED
    BY <1>1, <1>2

LEMMA RunChange ==
  ASSUME NEW r \in ProcType, NEW run \in {"none", "exited", "closed"} \cup Running
  PROVE  /\ [r EXCEPT !.run = run] \in ProcType
         /\ [r EXCEPT !.run = run].at = r.at
         /\ [r EXCEPT !.run = run].run = run
  BY DEF ProcType

LEMMA EndedProc ==
  ASSUME TypeInv, NEW s \in [Slots -> SlotType], NEW i \in Slots, Placed(s, proc)
  PROVE  /\ Ended(s[i].epoch) \in [Epochs -> ProcType]
         /\ Placed(s, Ended(s[i].epoch))
  <1> DEFINE e == s[i].epoch
  <1>1. proc \in [Epochs -> ProcType]
    BY DEF TypeInv, TypeOK
  <1>2. CASE e \notin Epochs
    <2>1. Ended(e) = proc
      BY <1>1, <1>2 DEF Ended
    <2> QED
      BY <1>1, <2>1
  <1>3. CASE e \in Epochs
    <2> DEFINE run == IF proc[e].run = "closed" THEN "closed" ELSE "exited"
               now == [proc[e] EXCEPT !.run = run]
    <2>1. Ended(e) = [proc EXCEPT ![e] = now]
      BY DEF Ended
    <2>2. proc[e] \in ProcType /\ run # "none"
            /\ run \in {"none", "exited", "closed"} \cup Running
      BY <1>1, <1>3
    <2> HIDE DEF run
    <2>3. now \in ProcType /\ now.at = proc[e].at /\ now.run # "none"
      BY <2>2, RunChange
    <2>4. proc[e].run # "none"
      BY <1>3 DEF Placed
    <2> HIDE DEF now
    <2> QED
      BY <1>1, <1>3, <2>1, <2>3, <2>4 DEF Placed
  <1> QED
    BY <1>2, <1>3

LEMMA FaultType == ASSUME TypeInv, Fault PROVE faults' \in 0..MaxFaults
  BY PoolAssumption DEF TypeInv, TypeOK, Fault

(* A replacement is up or, when the replay came too late for it, gone. *)
LEMMA ReplacementIs ==
  ASSUME TypeInv, NEW i \in Slots, NEW qs \in SUBSET Questions, NEW run \in {"up", "exited"}
  PROVE  /\ [Spawned(i, qs) EXCEPT !.run = run] \in ProcType
         /\ [Spawned(i, qs) EXCEPT !.run = run].at = i
         /\ [Spawned(i, qs) EXCEPT !.run = run].run = run
  <1>1. Spawned(i, qs) \in ProcType
    BY SpawnedType DEF TypeInv
  <1>2. run \in {"none", "exited", "closed"} \cup Running
    BY DEF Running
  <1>3. Spawned(i, qs).at = i
    BY DEF Spawned, NoProcess
  <1> QED
    BY <1>1, <1>2, <1>3, RunChange

LEMMA ReplayedType ==
  ASSUME TypeInv, NEW s, NEW i, NEW kept, NEW run, Replayed(s, i, kept, run)
  PROVE  status' \in [Questions -> Fates] /\ faults' \in 0..MaxFaults
  <1>1. status' \in [Questions -> Fates]
    BY DEF Replayed, TypeInv, TypeOK, Fates
  <1>2. UNCHANGED faults \/ Fault
    BY DEF Replayed
  <1> QED
    BY <1>1, <1>2, FaultType DEF TypeInv, TypeOK

LEMMA RespawnSlot ==
  ASSUME TypeInv, NEW s \in [Slots -> SlotType], NEW p \in [Epochs -> ProcType],
         Placed(s, p), NEW i \in Slots, NEW recent \in Nat, Respawn(s, p, i, recent)
  PROVE  /\ epochs' \in Epochs
         /\ slot' \in [Slots -> SlotType]
         /\ proc' \in [Epochs -> ProcType] /\ Placed(slot, proc)'
         /\ status' \in [Questions -> Fates] /\ faults' \in 0..MaxFaults
         /\ slot'[i].alive /\ slot'[i].inFlight = {} /\ slot'[i].backoff = "none"
         /\ \A k \in Slots \ {i} : slot'[k] = s[k]
  <1> DEFINE e == epochs + 1
  <1>1. epochs' = e /\ e \in Epochs
    BY PoolAssumption, SMTT(20) DEF TypeInv, TypeOK, Respawn, Epochs
  <1>2. PICK qs \in SUBSET Questions, run \in {"up", "exited"} :
          /\ Replayed(s, i, qs, run)
          /\ slot' = [s EXCEPT ![i] = [Fresh(e) EXCEPT !.asked = qs, !.recent = recent]]
          /\ proc' = [p EXCEPT ![e] = [Spawned(i, qs) EXCEPT !.run = run]]
    BY DEF Respawn
  <1> DEFINE now == [Fresh(e) EXCEPT !.asked = qs, !.recent = recent]
             r == [Spawned(i, qs) EXCEPT !.run = run]
  <1>3. slot' = [s EXCEPT ![i] = now] /\ proc' = [p EXCEPT ![e] = r]
    BY <1>2
  <1>4. status' \in [Questions -> Fates] /\ faults' \in 0..MaxFaults
    BY <1>2, ReplayedType
  <1>5. r \in ProcType /\ r.at = i /\ r.run # "none"
    BY ReplacementIs
  <1>6. /\ Fresh(e) \in SlotType /\ Fresh(e).alive /\ Fresh(e).inFlight = {}
        /\ Fresh(e).backoff = "none" /\ Fresh(e).epoch = e
    BY <1>1, FreshType DEF Fresh, Vacant
  <1> HIDE DEF e, r
  <1>7. /\ now \in SlotType /\ now.alive /\ now.inFlight = {} /\ now.backoff = "none"
        /\ now.epoch = e
    BY <1>6 DEF SlotType
  <1> HIDE DEF now
  <1>8. slot' \in [Slots -> SlotType] /\ slot'[i] = now /\ \A k \in Slots \ {i} : slot'[k] = s[k]
    BY <1>3, <1>7
  <1>9. proc' \in [Epochs -> ProcType] /\ Placed(slot, proc)'
    <2>1. proc' \in [Epochs -> ProcType] /\ proc'[e].run # "none" /\ proc'[e].at = i
            /\ \A f \in Epochs \ {e} : proc'[f] = p[f]
      BY <1>1, <1>3, <1>5
    <2> QED
      BY <1>7, <1>8, <2>1 DEF Placed
  <1> QED
    BY <1>1, <1>4, <1>7, <1>8, <1>9

(* Answers and the ledger. *)
LEMMA AnswerType ==
  ASSUME TypeInv, NEW js, NEW kind \in AnswerKinds, Answer(js, kind)
  PROVE  /\ answers' \in [Jobs -> Seq(AnswerKinds)]
         /\ waiting' \subseteq Jobs
  BY DEF TypeInv, TypeOK, Answer

LEMMA KillSlot ==
  ASSUME TypeInv, NEW s \in [Slots -> SlotType], NEW i \in Slots, Placed(s, proc), Kill(s, i)
  PROVE  /\ epochs' \in Epochs
         /\ slot' \in [Slots -> SlotType]
         /\ proc' \in [Epochs -> ProcType] /\ Placed(slot, proc)'
         /\ status' \in [Questions -> Fates] /\ faults' \in 0..MaxFaults
         /\ answers' \in [Jobs -> Seq(AnswerKinds)]
         /\ waiting' = waiting \ s[i].inFlight
         /\ slot'[i].inFlight = {}
         /\ slot'[i].alive => slot'[i].backoff = "none"
         /\ \A k \in Slots \ {i} : slot'[k] = s[k]
  <1>1. answers' \in [Jobs -> Seq(AnswerKinds)] /\ waiting' = waiting \ s[i].inFlight
    <2>1. Answer(s[i].inFlight, "Failed") /\ "Failed" \in AnswerKinds
      BY DEF Kill, FailAll, AnswerKinds
    <2> QED
      BY <2>1, AnswerType DEF Answer
  <1>2. epochs \in Epochs /\ faults \in 0..MaxFaults /\ status \in [Questions -> Fates]
    BY DEF TypeInv, TypeOK
  <1>3. s[i].recent \in Nat
    BY DEF SlotType
  <1>4. PICK recent \in 1..(s[i].recent + 1) :
          \/ /\ slot' = GaveUp(s, i, recent)
             /\ proc' = Ended(s[i].epoch)
             /\ epochs' = epochs /\ status' = status
             /\ faults' = faults \/ Fault
          \/ Respawn(s, Ended(s[i].epoch), i, recent)
    BY DEF Kill
  <1>5. recent \in Nat
    BY <1>3
  <1>7. CASE /\ slot' = GaveUp(s, i, recent) /\ proc' = Ended(s[i].epoch)
             /\ epochs' = epochs /\ status' = status
             /\ faults' = faults \/ Fault
    <2>0. slot' = GaveUp(s, i, recent)
      BY <1>7
    <2>1. \A k \in Slots : slot'[k].epoch = s[k].epoch
      BY <1>5, <2>0, GaveUpSlot
    <2>2. Placed(slot, proc)'
      BY <1>7, <2>1, EndedProc DEF Placed
    <2>3. faults' \in 0..MaxFaults
      BY <1>2, <1>7, FaultType
    <2> QED
      BY <1>1, <1>2, <1>5, <1>7, <2>2, <2>3, EndedProc, GaveUpSlot
  <1>8. CASE Respawn(s, Ended(s[i].epoch), i, recent)
    <2>1. /\ epochs' \in Epochs
          /\ slot' \in [Slots -> SlotType]
          /\ proc' \in [Epochs -> ProcType] /\ Placed(slot, proc)'
          /\ status' \in [Questions -> Fates] /\ faults' \in 0..MaxFaults
          /\ slot'[i].inFlight = {} /\ slot'[i].backoff = "none"
          /\ \A k \in Slots \ {i} : slot'[k] = s[k]
      BY <1>5, <1>8, EndedProc, RespawnSlot
    <2> QED
      BY <1>1, <2>1
  <1> QED
    BY <1>4, <1>7, <1>8

-----------------------------------------------------------------------------
(* The steps of a pump. *)

LEMMA MessageKind ==
  ASSUME NEW m \in MessageType
  PROVE  /\ m.at \in Slots /\ m.epoch \in Epochs
         /\ m.kind \in RenderAnswers => m.what \in Jobs
         /\ m.kind = "Opened" => m.what \in Docs
         /\ m.kind = "Answer" => m.what \in Questions
  BY DEF MessageType, Said, RenderAnswers

(* One slot gives up a job it held; nothing else about the slots changes. *)
LEMMA FinishedSlot ==
  ASSUME NEW s \in [Slots -> SlotType], NEW i \in Slots, NEW j
  PROVE  /\ Finished(s, i, j) \in [Slots -> SlotType]
         /\ \A k \in Slots :
              /\ Finished(s, i, j)[k].epoch = s[k].epoch
              /\ Finished(s, i, j)[k].alive = s[k].alive
              /\ Finished(s, i, j)[k].backoff = s[k].backoff
              /\ k # i => Finished(s, i, j)[k].inFlight = s[k].inFlight
         /\ Finished(s, i, j)[i].inFlight = s[i].inFlight \ {j}
  <1> DEFINE now == [s[i] EXCEPT !.inFlight = @ \ {j}]
  <1>1. Finished(s, i, j) = [s EXCEPT ![i] = now]
    BY DEF Finished
  <1>2. /\ now \in SlotType /\ now.epoch = s[i].epoch /\ now.alive = s[i].alive
        /\ now.backoff = s[i].backoff /\ now.inFlight = s[i].inFlight \ {j}
    BY DEF SlotType
  <1> HIDE DEF now
  <1> QED
    BY <1>1, <1>2

(* What the three answers to a job have in common. *)
HandleJob(m, heard) ==
  \/ HandleRendered(m, heard) \/ HandleFailed(m, heard) \/ HandleCancelled(m, heard)

LEMMA HandleJobEffect ==
  ASSUME TypeInv, NEW m \in MessageType, m.kind \in RenderAnswers, HandleJob(m, Heard(m))
  PROVE  /\ slot' \in [Slots -> SlotType]
         /\ picture' \in [Jobs -> Jobs \cup {None}]
         /\ answers' \in [Jobs -> Seq(AnswerKinds)]
         /\ \A k \in Slots : /\ slot'[k].epoch = slot[k].epoch
                             /\ slot'[k].alive = slot[k].alive
                             /\ slot'[k].backoff = slot[k].backoff
         /\ \/ /\ waiting' = waiting
               /\ \A k \in Slots : slot'[k].inFlight = slot[k].inFlight
            \/ /\ waiting' = waiting \ {m.what}
               /\ \A k \in Slots : k # m.at => slot'[k].inFlight = slot[k].inFlight
               /\ slot'[m.at].inFlight = slot[m.at].inFlight \ {m.what}
  <1> DEFINE heard == Heard(m)
  <1>1. m.at \in Slots /\ m.epoch \in Epochs /\ m.what \in Jobs
    BY MessageKind
  <1>2. /\ heard \in [Slots -> SlotType]
        /\ \A k \in Slots : /\ heard[k].inFlight = slot[k].inFlight
                            /\ heard[k].alive = slot[k].alive
                            /\ heard[k].backoff = slot[k].backoff
                            /\ heard[k].epoch = slot[k].epoch
    BY HeardSlot
  <1>3. /\ picture \in [Jobs -> Jobs \cup {None}] /\ answers \in [Jobs -> Seq(AnswerKinds)]
        /\ proc[m.epoch].region \in Jobs \cup {None}
    BY <1>1 DEF TypeInv, TypeOK, ProcType
  <1>4. /\ \/ slot' = heard /\ UNCHANGED <<answers, waiting>>
           \/ /\ slot' = Finished(heard, m.at, m.what)
              /\ \E kind \in AnswerKinds : Answer({m.what}, kind)
        /\ \/ picture' = picture
           \/ picture' = [picture EXCEPT ![m.what] =
                            IF Inline(m.what) THEN @ ELSE proc[m.epoch].region]
    BY DEF HandleJob, HandleRendered, HandleFailed, HandleCancelled, AnswerKinds
  <1> HIDE DEF heard
  <1>5. picture' \in [Jobs -> Jobs \cup {None}]
    BY <1>1, <1>3, <1>4
  <1>6. CASE slot' = heard /\ UNCHANGED <<answers, waiting>>
    BY <1>2, <1>3, <1>5, <1>6
  <1>7. CASE /\ slot' = Finished(heard, m.at, m.what)
             /\ \E kind \in AnswerKinds : Answer({m.what}, kind)
    <2>1. answers' \in [Jobs -> Seq(AnswerKinds)] /\ waiting' = waiting \ {m.what}
      BY <1>7, AnswerType DEF Answer
    <2>2. /\ slot' \in [Slots -> SlotType]
          /\ \A k \in Slots : /\ slot'[k].epoch = heard[k].epoch
                              /\ slot'[k].alive = heard[k].alive
                              /\ slot'[k].backoff = heard[k].backoff
                              /\ k # m.at => slot'[k].inFlight = heard[k].inFlight
          /\ slot'[m.at].inFlight = heard[m.at].inFlight \ {m.what}
      <3>1. heard \in [Slots -> SlotType] /\ m.at \in Slots
        BY <1>1, <1>2
      <3>2. slot' = Finished(heard, m.at, m.what)
        BY <1>7
      <3> QED
        BY <3>1, <3>2, FinishedSlot
    <2>3. /\ \A k \in Slots : k # m.at => slot'[k].inFlight = slot[k].inFlight
          /\ slot'[m.at].inFlight = slot[m.at].inFlight \ {m.what}
      BY <1>1, <1>2, <2>2
    <2>4. \A k \in Slots : /\ slot'[k].epoch = slot[k].epoch
                           /\ slot'[k].alive = slot[k].alive
                           /\ slot'[k].backoff = slot[k].backoff
      BY <1>2, <2>2
    <2> QED
      BY <1>5, <2>1, <2>2, <2>3, <2>4
  <1> QED
    BY <1>4, <1>6, <1>7

LEMMA TypeHandleMessage == ASSUME TypeInv, HandleMessage PROVE TypeInv'
  <1> DEFINE m == Head(events)
             heard == Heard(m)
  <1>1. /\ m \in MessageType /\ events' \in Seq(MessageType) /\ pc' \in Phases
    BY DEF HandleMessage, TypeInv, TypeOK, Phases
  <1>2. UNCHANGED <<todo, next, queue, floor, size, documents, owed>>
    BY DEF HandleMessage
  <1>3. /\ heard \in [Slots -> SlotType]
        /\ \A k \in Slots : heard[k].epoch = slot[k].epoch
    BY <1>1, HeardSlot
  <1>4. Placed(heard, proc)
    BY <1>3 DEF TypeInv, Placed
  <1>5. /\ m.at \in Slots /\ m.epoch \in Epochs
        /\ m.kind \in RenderAnswers => m.what \in Jobs
        /\ m.kind = "Opened" => m.what \in Docs
        /\ m.kind = "Answer" => m.what \in Questions
    BY <1>1, MessageKind
  <1>6. CASE UNCHANGED <<slot, epochs, reported, proc, app, faults>>
    <2>1. Placed(slot, proc)'
      BY <1>6, PlacedKept
    <2> QED
      BY <1>1, <1>2, <1>6, <2>1 DEF TypeInv, TypeOK, app
  <1>7. CASE /\ m.kind \in RenderAnswers /\ HandleJob(m, heard)
             /\ UNCHANGED <<epochs, reported, proc, status, reports, opens, faults>>
    <2>1. /\ slot' \in [Slots -> SlotType]
          /\ picture' \in [Jobs -> Jobs \cup {None}]
          /\ answers' \in [Jobs -> Seq(AnswerKinds)]
          /\ \A k \in Slots : slot'[k].epoch = slot[k].epoch
          /\ waiting' = waiting \/ waiting' = waiting \ {m.what}
      BY <1>1, <1>7, HandleJobEffect
    <2>2. Placed(slot, proc)'
      BY <1>7, <2>1, PlacedKept
    <2> QED
      BY <1>1, <1>2, <1>7, <2>1, <2>2 DEF TypeInv, TypeOK
  <1>8. CASE /\ m.kind = "Opened" /\ HandleOpened(m, heard)
             /\ UNCHANGED <<epochs, proc, waiting, answers, picture, status, opens, faults>>
    <2>1. slot' = heard /\ reported' = reported \cup {m.what}
      BY <1>8 DEF HandleOpened
    <2>2. reports' \in [Docs -> Nat]
      <3>1. reports \in [Docs -> Nat]
        BY DEF TypeInv, TypeOK
      <3>2. reports' = reports \/ reports' = [reports EXCEPT ![m.what] = @ + 1]
        BY <1>8 DEF HandleOpened
      <3> QED
        BY <3>1, <3>2
    <2>3. Placed(slot, proc)'
      BY <1>3, <1>8, <2>1, PlacedKept
    <2> QED
      BY <1>1, <1>2, <1>3, <1>5, <1>8, <2>1, <2>2, <2>3 DEF TypeInv, TypeOK
  <1>9. CASE /\ m.kind = "Answer" /\ HandleAnswer(m, heard)
             /\ UNCHANGED <<epochs, reported, proc, waiting, answers, picture, reports, opens,
                            faults>>
    <2>1. slot' = heard /\ status' = [status EXCEPT ![m.what] = "answered"]
      BY <1>9 DEF HandleAnswer
    <2>2. status' \in [Questions -> Fates]
      BY <2>1 DEF TypeInv, TypeOK, Fates
    <2>3. Placed(slot, proc)'
      BY <1>3, <1>9, <2>1, PlacedKept
    <2> QED
      BY <1>1, <1>2, <1>3, <1>9, <2>1, <2>2, <2>3 DEF TypeInv, TypeOK
  <1>10. CASE Kill(heard, m.at) /\ UNCHANGED <<reported, picture, reports, opens>>
    <2>1. /\ epochs' \in Epochs /\ status' \in [Questions -> Fates]
          /\ slot' \in [Slots -> SlotType]
          /\ proc' \in [Epochs -> ProcType] /\ Placed(slot, proc)'
          /\ faults' \in 0..MaxFaults
          /\ answers' \in [Jobs -> Seq(AnswerKinds)]
          /\ waiting' = waiting \ heard[m.at].inFlight
      BY <1>3, <1>4, <1>5, <1>10, KillSlot
    <2> QED
      BY <1>1, <1>2, <1>10, <2>1 DEF TypeInv, TypeOK
  <1>11. CASE slot' = heard /\ UNCHANGED <<epochs, reported, proc, app, faults>>
    <2>1. Placed(slot, proc)'
      BY <1>3, <1>11, PlacedKept
    <2> QED
      BY <1>1, <1>2, <1>3, <1>11, <2>1 DEF TypeInv, TypeOK, app
  <1> QED
    BY <1>6, <1>7, <1>8, <1>9, <1>10, <1>11 DEF HandleMessage, HandleJob, RenderAnswers

LEMMA SizeSlots == ASSUME TypeInv PROVE 1..size \subseteq Slots
  BY PoolAssumption DEF TypeInv, TypeOK, Slots

(* Steps that only move the event loop on. *)
LEMMA TypeMove ==
  ASSUME TypeInv, pc' \in Phases, todo' \subseteq Slots,
         UNCHANGED <<next, queue, floor, slot, size, epochs, documents, reported, owed,
                     events, proc, app, faults>>
  PROVE  TypeInv'
  <1>1. Placed(slot, proc)'
    BY PlacedKept
  <1> QED
    BY <1>1 DEF TypeInv, TypeOK, app

LEMMA TypePhase ==
  ASSUME TypeInv, PumpStart \/ DrainEnd \/ KillEnd \/ RetryEnd \/ RetireEnd
  PROVE  TypeInv'
  <1>1. pc' \in Phases
    BY DEF PumpStart, DrainEnd, KillEnd, RetryEnd, RetireEnd, Phases
  <1>2. todo' \subseteq Slots
    BY SizeSlots DEF PumpStart, DrainEnd, KillEnd, RetryEnd, RetireEnd, Doomed, Live,
                     TypeInv, TypeOK
  <1>3. UNCHANGED <<next, queue, floor, slot, size, epochs, documents, reported, owed,
                    events, proc, app, faults>>
    BY DEF PumpStart, DrainEnd, KillEnd, RetryEnd, RetireEnd
  <1> QED
    BY <1>1, <1>2, <1>3, TypeMove

LEMMA TypeKillDoomed == ASSUME TypeInv, NEW i \in Slots, KillDoomed(i) PROVE TypeInv'
  <1>1. slot \in [Slots -> SlotType] /\ Placed(slot, proc)
    BY DEF TypeInv, TypeOK
  <1>2. Kill(slot, i)
    BY DEF KillDoomed
  <1>3. /\ epochs' \in Epochs /\ status' \in [Questions -> Fates]
        /\ slot' \in [Slots -> SlotType]
        /\ proc' \in [Epochs -> ProcType] /\ Placed(slot, proc)'
        /\ faults' \in 0..MaxFaults
        /\ answers' \in [Jobs -> Seq(AnswerKinds)]
        /\ waiting' = waiting \ slot[i].inFlight
    BY <1>1, <1>2, KillSlot
  <1>4. /\ todo' \subseteq todo
        /\ UNCHANGED <<pc, next, queue, floor, size, documents, reported, owed, events,
                       picture, reports, opens>>
    BY DEF KillDoomed
  <1> QED
    BY <1>3, <1>4 DEF TypeInv, TypeOK

LEMMA BackoffSet ==
  ASSUME NEW s \in [Slots -> SlotType], NEW i \in Slots, NEW b \in {"none", "waiting", "due"},
         NEW t, t = [s EXCEPT ![i].backoff = b]
  PROVE  /\ t \in [Slots -> SlotType]
         /\ t[i].backoff = b
         /\ \A k \in Slots \ {i} : t[k] = s[k]
         /\ \A k \in Slots : t[k].epoch = s[k].epoch /\ t[k].alive = s[k].alive
                             /\ t[k].inFlight = s[k].inFlight
  <1> DEFINE now == [s[i] EXCEPT !.backoff = b]
  <1>1. t = [s EXCEPT ![i] = now]
    OBVIOUS
  <1>2. /\ now \in SlotType /\ now.epoch = s[i].epoch /\ now.alive = s[i].alive
        /\ now.backoff = b /\ now.inFlight = s[i].inFlight
    BY DEF SlotType
  <1> HIDE DEF now
  <1> QED
    BY <1>1, <1>2

LEMMA TypeRetryBackoff == ASSUME TypeInv, NEW i \in Slots, RetryBackoff(i) PROVE TypeInv'
  <1>1. /\ slot \in [Slots -> SlotType] /\ proc \in [Epochs -> ProcType]
        /\ Placed(slot, proc) /\ slot[i].recent \in Nat
    BY DEF TypeInv, TypeOK, SlotType
  <1>2. /\ todo' \subseteq Slots
        /\ UNCHANGED <<pc, next, queue, floor, size, documents, reported, owed, events,
                       waiting, answers, picture, reports, opens>>
    BY DEF RetryBackoff, TypeInv, TypeOK
  <1>3. CASE UNCHANGED <<slot, epochs, proc, status, faults>>
    <2>1. Placed(slot, proc)'
      BY <1>3, PlacedKept
    <2> QED
      BY <1>2, <1>3, <2>1 DEF TypeInv, TypeOK
  <1>4. CASE Respawn(slot, proc, i, slot[i].recent)
    <2>1. /\ epochs' \in Epochs
          /\ status' \in [Questions -> Fates] /\ faults' \in 0..MaxFaults
          /\ slot' \in [Slots -> SlotType]
          /\ proc' \in [Epochs -> ProcType] /\ Placed(slot, proc)'
      BY <1>1, <1>4, RespawnSlot
    <2> QED
      BY <1>2, <1>4, <2>1 DEF TypeInv, TypeOK
  <1>5. CASE /\ slot' = [slot EXCEPT ![i].backoff = "waiting"] /\ Fault
             /\ UNCHANGED <<epochs, proc, status>>
    <2>1. slot' \in [Slots -> SlotType] /\ \A k \in Slots : slot'[k].epoch = slot[k].epoch
      BY <1>1, <1>5, BackoffSet
    <2>2. Placed(slot, proc)'
      BY <1>5, <2>1, PlacedKept
    <2>3. faults' \in 0..MaxFaults
      BY <1>5, FaultType
    <2> QED
      BY <1>2, <1>5, <2>1, <2>2, <2>3 DEF TypeInv, TypeOK
  <1> QED
    BY <1>3, <1>4, <1>5 DEF RetryBackoff

LEMMA TypeRetire == ASSUME TypeInv, Retire PROVE TypeInv'
  <1>1. /\ slot \in [Slots -> SlotType] /\ Placed(slot, proc) /\ size \in Slots
    BY DEF TypeInv, TypeOK
  <1>2. /\ slot' = [slot EXCEPT ![size] = Vacant] /\ size' = size - 1
        /\ proc' = proc \/ proc' = Ended(slot[size].epoch)
        /\ UNCHANGED <<pc, todo, next, queue, floor, epochs, documents, reported, owed, events,
                       waiting, answers, picture, reports, opens, faults>>
    BY DEF Retire, RetireGivenUp, RetireIdle
  <1>3. size' \in Slots
    <2>1. size > 1
      BY PoolAssumption DEF Retire, RetireGivenUp, RetireIdle, Retirable, TypeInv, TypeOK, Slots
    <2> QED
      BY <1>1, <1>2, <2>1, PoolAssumption DEF Slots
  <1>4. /\ slot' \in [Slots -> SlotType]
        /\ \A k \in Slots : slot'[k].epoch \in {slot[k].epoch, None}
    <2>1. Vacant.epoch = None
      BY DEF Vacant
    <2> QED
      BY <1>1, <1>2, <2>1, VacantType
  <1>5. proc' \in [Epochs -> ProcType] /\ Placed(slot, proc')
    BY <1>1, <1>2, EndedProc DEF TypeInv, TypeOK
  <1>6. Placed(slot, proc)'
    BY <1>4, <1>5 DEF Placed, None, Epochs
  <1>7. status' \in [Questions -> Fates]
    BY DEF Retire, TypeInv, TypeOK, Fates
  <1> QED
    BY <1>2, <1>3, <1>4, <1>5, <1>6, <1>7 DEF TypeInv, TypeOK

(* A dispatched job is in the hands of its worker, and of its process. *)
LEMMA DispatchSlot ==
  ASSUME TypeInv, NEW j \in Jobs, NEW i \in Slots, Dispatch(j, i)
  PROVE  /\ slot' \in [Slots -> SlotType]
         /\ slot'[i].inFlight = slot[i].inFlight \cup {j}
         /\ \A k \in Slots : k # i => slot'[k].inFlight = slot[k].inFlight
         /\ \A k \in Slots : /\ slot'[k].epoch = slot[k].epoch
                             /\ slot'[k].alive = slot[k].alive
                             /\ slot'[k].backoff = slot[k].backoff
  <1> DEFINE silent == IF slot[i].inFlight = {} THEN FALSE ELSE slot[i].silent
             now == [slot[i] EXCEPT !.inFlight = @ \cup {j}, !.silent = silent]
  <1>1. slot \in [Slots -> SlotType] /\ slot[i] \in SlotType
    BY DEF TypeInv, TypeOK
  <1>2. slot' = [slot EXCEPT ![i] = now]
    BY DEF Dispatch
  <1>3. silent \in BOOLEAN
    BY <1>1 DEF SlotType
  <1> HIDE DEF silent
  <1>4. /\ now \in SlotType /\ now.epoch = slot[i].epoch /\ now.alive = slot[i].alive
        /\ now.backoff = slot[i].backoff /\ now.inFlight = slot[i].inFlight \cup {j}
    BY <1>1, <1>3 DEF SlotType
  <1> HIDE DEF now
  <1> QED
    BY <1>1, <1>2, <1>4

LEMMA TypeDispatch ==
  ASSUME TypeInv, NEW j \in Jobs, NEW i \in Slots, Dispatch(j, i) PROVE TypeInv'
  <1>1. /\ slot' \in [Slots -> SlotType]
        /\ \A k \in Slots : slot'[k].epoch = slot[k].epoch
    BY DispatchSlot
  <1>2. ASSUME NEW e \in Epochs
        PROVE  /\ proc'[e] \in ProcType
               /\ proc'[e].run = proc[e].run /\ proc'[e].at = proc[e].at
    <2>1. proc[e] \in ProcType
      BY DEF TypeInv, TypeOK
    <2>2. proc'[e] = proc[e] \/ proc'[e] = [proc[e] EXCEPT !.jobs = @ \cup {j}]
      BY DEF Dispatch, TypeInv, TypeOK
    <2> QED
      BY <2>1, <2>2 DEF ProcType
  <1>3. proc' \in [Epochs -> ProcType]
    BY <1>2 DEF Dispatch, TypeInv, TypeOK
  <1>4. Placed(slot, proc)'
    BY <1>1, <1>2, PlacedKept
  <1>5. /\ queue' \subseteq queue
        /\ UNCHANGED <<pc, todo, next, floor, size, epochs, documents, reported, owed, events,
                       app, faults>>
    BY DEF Dispatch
  <1> QED
    BY <1>1, <1>3, <1>4, <1>5 DEF TypeInv, TypeOK, app

LEMMA TypeDispatchUnsized ==
  ASSUME TypeInv, NEW j \in Jobs, DispatchUnsized(j) PROVE TypeInv'
  <1>1. owed' \subseteq Jobs \X {"Failed", "Cancelled"}
    BY DEF DispatchUnsized, TypeInv, TypeOK
  <1>2. faults' \in 0..MaxFaults
    BY FaultType DEF DispatchUnsized
  <1>3. /\ queue' \subseteq queue
        /\ UNCHANGED <<pc, todo, next, floor, slot, size, epochs, documents, reported, events,
                       proc, app>>
    BY DEF DispatchUnsized
  <1>4. Placed(slot, proc)'
    BY <1>3, PlacedKept
  <1> QED
    BY <1>1, <1>2, <1>3, <1>4 DEF TypeInv, TypeOK, app

LEMMA TypeGrow == ASSUME TypeInv, Grow PROVE TypeInv'
  <1> DEFINE e == epochs + 1
             i == size + 1
  <1>1. e \in Epochs /\ i \in Slots
    BY PoolAssumption DEF Grow, TypeInv, TypeOK, Epochs, Slots
  <1>2. /\ epochs' = e /\ size' = i
        /\ slot' = [slot EXCEPT ![i] = Fresh(e)]
        /\ proc' = [proc EXCEPT ![e] = Spawned(i, {})]
        /\ UNCHANGED <<pc, todo, next, queue, floor, documents, reported, owed, events, app,
                       faults>>
    BY DEF Grow
  <1>3. Fresh(e) \in SlotType /\ Fresh(e).epoch = e
    BY <1>1, FreshType DEF Fresh, Vacant
  <1>4. Spawned(i, {}) \in ProcType
    BY <1>1, SpawnedType DEF TypeInv
  <1>5. Spawned(i, {}).run = "up" /\ Spawned(i, {}).at = i
    BY DEF Spawned, NoProcess
  <1> HIDE DEF e, i
  <1>6. slot' \in [Slots -> SlotType] /\ proc' \in [Epochs -> ProcType]
    BY <1>2, <1>3, <1>4 DEF TypeInv, TypeOK
  <1>7. Placed(slot, proc)'
    <2>1. /\ slot'[i].epoch = e /\ \A k \in Slots \ {i} : slot'[k] = slot[k]
          /\ proc'[e].run = "up" /\ proc'[e].at = i
          /\ \A f \in Epochs \ {e} : proc'[f] = proc[f]
      BY <1>1, <1>2, <1>3, <1>5 DEF TypeInv, TypeOK
    <2> QED
      BY <1>1, <2>1 DEF TypeInv, Placed
  <1> QED
    BY <1>1, <1>2, <1>6, <1>7 DEF TypeInv, TypeOK, app

LEMMA TypeDispatchEnd == ASSUME TypeInv, DispatchEnd PROVE TypeInv'
  <1>1. /\ pc' \in Phases
        /\ UNCHANGED <<todo, next, queue, floor, slot, size, epochs, documents, reported,
                       events, proc, picture, status, reports, opens>>
    BY DEF DispatchEnd, Phases
  <1>2. faults' \in 0..MaxFaults
    BY FaultType DEF DispatchEnd, TypeInv, TypeOK
  <1>3. /\ owed' \subseteq owed /\ waiting' \subseteq waiting
        /\ answers' \in [Jobs -> Seq(AnswerKinds)]
    <2>1. CASE pc = "dispatch"
      <3>1. ASSUME NEW j \in Jobs PROVE answers'[j] \in Seq(AnswerKinds)
        <4> DEFINE kinds == {kind \in AnswerKinds : <<j, kind>> \in owed}
        <4>1. answers'[j] = IF kinds = {} THEN answers[j]
                            ELSE Append(answers[j], CHOOSE kind \in kinds : TRUE)
          BY <2>1 DEF DispatchEnd, Leave
        <4>2. answers[j] \in Seq(AnswerKinds)
          BY DEF TypeInv, TypeOK
        <4>3. kinds # {} => (CHOOSE kind \in kinds : TRUE) \in AnswerKinds
          OBVIOUS
        <4> HIDE DEF kinds
        <4> QED
          BY <4>1, <4>2, <4>3
      <3>2. DOMAIN answers' = Jobs /\ answers' = [j \in Jobs |-> answers'[j]]
        BY <2>1 DEF DispatchEnd, Leave
      <3>3. owed' = {} /\ waiting' \subseteq waiting
        BY <2>1 DEF DispatchEnd, Leave
      <3> QED
        BY <3>1, <3>2, <3>3
    <2>2. CASE pc # "dispatch"
      BY <2>2 DEF DispatchEnd, Leave, TypeInv, TypeOK
    <2> QED
      BY <2>1, <2>2
  <1>4. Placed(slot, proc)'
    BY <1>1, PlacedKept
  <1> QED
    BY <1>1, <1>2, <1>3, <1>4 DEF TypeInv, TypeOK

-----------------------------------------------------------------------------
(* The processes, and time. *)

LEMMA SendType ==
  ASSUME TypeInv, NEW e \in Epochs, NEW kind, NEW what, Send(e, kind, what),
         proc[e].run # "none",
         \/ kind \in RenderAnswers /\ what \in Jobs
         \/ kind = "Opened" /\ what \in Docs
         \/ kind = "Answer" /\ what \in Questions
         \/ kind = "Died" /\ what = None
  PROVE  events' \in Seq(MessageType)
  <1> DEFINE m == [at |-> proc[e].at, epoch |-> e, kind |-> kind, what |-> what]
  <1>1. proc[e].at \in Slots
    BY DEF TypeInv, Placed
  <1>2. m \in MessageType
    BY <1>1 DEF MessageType, Said
  <1>3. events \in Seq(MessageType) /\ events' = Append(events, m)
    BY DEF TypeInv, TypeOK, Send
  <1> HIDE DEF m
  <1> QED
    BY <1>2, <1>3

LEMMA TypeReplyJob ==
  ASSUME TypeInv, NEW e \in Epochs, NEW j \in Jobs, NEW kind \in RenderAnswers,
         ReplyJob(e, j, kind), UNCHANGED <<super, app, faults>>
  PROVE  TypeInv'
  <1> DEFINE region == IF Inline(j) THEN proc[e].region ELSE j
             now == [proc[e] EXCEPT !.jobs = @ \ {j}, !.stoppable = @ \ {j}, !.region = region]
  <1>1. proc \in [Epochs -> ProcType] /\ proc[e] \in ProcType
    BY DEF TypeInv, TypeOK
  <1>2. proc' = [proc EXCEPT ![e] = now]
    BY DEF ReplyJob
  <1>3. region \in Jobs \cup {None}
    BY <1>1 DEF ProcType
  <1>4. proc[e].run # "none"
    BY DEF ReplyJob, Speaking
  <1> HIDE DEF region
  <1>5. now \in ProcType /\ now.run = proc[e].run /\ now.at = proc[e].at
    BY <1>1, <1>3 DEF ProcType
  <1> HIDE DEF now
  <1>6. /\ proc' \in [Epochs -> ProcType]
        /\ \A f \in Epochs : proc'[f].run = proc[f].run /\ proc'[f].at = proc[f].at
    BY <1>1, <1>2, <1>5
  <1>7. Placed(slot, proc)'
    BY <1>6, PlacedKept DEF super
  <1>8. events' \in Seq(MessageType)
    BY <1>4, SendType DEF ReplyJob
  <1> QED
    BY <1>6, <1>7, <1>8 DEF TypeInv, TypeOK, super, app

LEMMA TypeReplyQuestion ==
  ASSUME TypeInv, NEW e \in Epochs, NEW q \in Questions, ReplyQuestion(e, q),
         UNCHANGED <<super, app, faults>>
  PROVE  TypeInv'
  <1> DEFINE now == [proc[e] EXCEPT !.asks = @ \ {q}]
  <1>1. proc \in [Epochs -> ProcType] /\ proc[e] \in ProcType
    BY DEF TypeInv, TypeOK
  <1>2. proc' = [proc EXCEPT ![e] = now]
    BY DEF ReplyQuestion
  <1>3. proc[e].run # "none"
    BY DEF ReplyQuestion, Speaking
  <1>4. now \in ProcType /\ now.run = proc[e].run /\ now.at = proc[e].at
    BY <1>1 DEF ProcType
  <1> HIDE DEF now
  <1>5. /\ proc' \in [Epochs -> ProcType]
        /\ \A f \in Epochs : proc'[f].run = proc[f].run /\ proc'[f].at = proc[f].at
    BY <1>1, <1>2, <1>4
  <1>6. Placed(slot, proc)'
    BY <1>5, PlacedKept DEF super
  <1>7. events' \in Seq(MessageType)
    BY <1>3, SendType DEF ReplyQuestion
  <1> QED
    BY <1>5, <1>6, <1>7 DEF TypeInv, TypeOK, super, app

LEMMA TypeReplyOpen ==
  ASSUME TypeInv, NEW e \in Epochs, NEW d \in Docs, ReplyOpen(e, d),
         UNCHANGED <<super, app, faults>>
  PROVE  TypeInv'
  <1> DEFINE opening == [proc[e].opening EXCEPT ![d] = @ - 1]
             now == [proc[e] EXCEPT !.opening = opening]
  <1>1. proc \in [Epochs -> ProcType] /\ proc[e] \in ProcType
    BY DEF TypeInv, TypeOK
  <1>2. proc' = [proc EXCEPT ![e] = now]
    BY DEF ReplyOpen
  <1>3. proc[e].run # "none" /\ proc[e].opening[d] > 0
    BY DEF ReplyOpen, Speaking
  <1>4. opening \in [Docs -> Nat]
    <2>1. proc[e].opening \in [Docs -> Nat]
      BY <1>1 DEF ProcType
    <2> QED
      BY <1>3, <2>1
  <1> HIDE DEF opening
  <1>5. now \in ProcType /\ now.run = proc[e].run /\ now.at = proc[e].at
    BY <1>1, <1>4 DEF ProcType
  <1> HIDE DEF now
  <1>6. /\ proc' \in [Epochs -> ProcType]
        /\ \A f \in Epochs : proc'[f].run = proc[f].run /\ proc'[f].at = proc[f].at
    BY <1>1, <1>2, <1>5
  <1>7. Placed(slot, proc)'
    BY <1>6, PlacedKept DEF super
  <1>8. events' \in Seq(MessageType)
    BY <1>3, SendType DEF ReplyOpen
  <1> QED
    BY <1>6, <1>7, <1>8 DEF TypeInv, TypeOK, super, app

LEMMA TypeReaderEnd ==
  ASSUME TypeInv, NEW e \in Epochs, ReaderEnd(e), UNCHANGED <<super, app, faults>>
  PROVE  TypeInv'
  <1> DEFINE now == [NoProcess EXCEPT !.run = "closed", !.at = proc[e].at,
                                      !.region = proc[e].region]
  <1>1. proc \in [Epochs -> ProcType] /\ proc[e] \in ProcType
    BY DEF TypeInv, TypeOK
  <1>2. proc' = [proc EXCEPT ![e] = now]
    BY DEF ReaderEnd
  <1>3. proc[e].run = "exited"
    BY DEF ReaderEnd
  <1>4. now \in ProcType
    BY <1>1, NoProcessType DEF ProcType
  <1>5. now.run = "closed" /\ now.at = proc[e].at
    BY DEF NoProcess
  <1> HIDE DEF now
  <1>6. /\ proc' \in [Epochs -> ProcType]
        /\ \A f \in Epochs : /\ proc'[f].at = proc[f].at
                             /\ proc'[f].run = "none" <=> proc[f].run = "none"
    BY <1>1, <1>2, <1>3, <1>4, <1>5
  <1>7. Placed(slot, proc)'
    BY <1>6, PlacedKept DEF super
  <1>8. events' \in Seq(MessageType)
    BY <1>3, SendType DEF ReaderEnd
  <1> QED
    BY <1>6, <1>7, <1>8 DEF TypeInv, TypeOK, super, app

LEMMA TypeRun ==
  ASSUME TypeInv, NEW e \in Epochs, Crash(e) \/ Hang(e) \/ Resume(e) PROVE TypeInv'
  <1>1. PICK run \in {"exited", "hung", "late"} : proc' = [proc EXCEPT ![e].run = run]
    BY DEF Crash, Hang, Resume
  <1>2. proc \in [Epochs -> ProcType] /\ proc[e] \in ProcType
    BY DEF TypeInv, TypeOK
  <1> DEFINE now == [proc[e] EXCEPT !.run = run]
  <1>3. proc' = [proc EXCEPT ![e] = now]
    BY <1>1
  <1>4. run \in {"none", "exited", "closed"} \cup Running /\ run # "none"
    BY DEF Running
  <1>5. now \in ProcType /\ now.run = run /\ now.at = proc[e].at
    BY <1>2, <1>4, RunChange
  <1>6. proc[e].run # "none"
    BY DEF Crash, Hang, Resume, Running
  <1> HIDE DEF now
  <1>7. /\ proc' \in [Epochs -> ProcType]
        /\ \A f \in Epochs : /\ proc'[f].at = proc[f].at
                             /\ proc'[f].run = "none" <=> proc[f].run = "none"
    BY <1>2, <1>3, <1>4, <1>5, <1>6
  <1>8. faults' \in 0..MaxFaults /\ UNCHANGED <<super, events, app>>
    BY FaultType DEF Crash, Hang, Resume, TypeInv, TypeOK
  <1>9. Placed(slot, proc)'
    BY <1>7, <1>8, PlacedKept DEF super
  <1> QED
    BY <1>7, <1>8, <1>9 DEF TypeInv, TypeOK, super, app

LEMMA TypeTime ==
  ASSUME TypeInv, NEW i \in Slots, SilencePasses(i) \/ BackoffPasses(i) PROVE TypeInv'
  <1>1. slot \in [Slots -> SlotType] /\ slot[i] \in SlotType
    BY DEF TypeInv, TypeOK
  <1>2. /\ slot' \in [Slots -> SlotType]
        /\ \A k \in Slots : slot'[k].epoch = slot[k].epoch
    <2>1. CASE SilencePasses(i)
      <3> DEFINE now == [slot[i] EXCEPT !.silent = TRUE]
      <3>1. slot' = [slot EXCEPT ![i] = now]
        BY <2>1 DEF SilencePasses
      <3>2. now \in SlotType /\ now.epoch = slot[i].epoch
        BY <1>1 DEF SlotType
      <3> HIDE DEF now
      <3> QED
        BY <1>1, <3>1, <3>2
    <2>2. CASE BackoffPasses(i)
      <3>1. slot' = [slot EXCEPT ![i].backoff = "due"]
        BY <2>2 DEF BackoffPasses
      <3> QED
        BY <1>1, <3>1, BackoffSet
    <2> QED
      BY <2>1, <2>2
  <1>3. UNCHANGED <<pc, todo, next, queue, floor, size, epochs, documents, reported, owed,
                    events, proc, app, faults>>
    BY DEF SilencePasses, BackoffPasses
  <1>4. Placed(slot, proc)'
    BY <1>2, <1>3, PlacedKept
  <1> QED
    BY <1>2, <1>3, <1>4 DEF TypeInv, TypeOK, app

-----------------------------------------------------------------------------
LEMMA TypeProcess ==
  ASSUME TypeInv, NEW e \in Epochs, Process(e) PROVE TypeInv'
  BY TypeReplyJob, TypeReplyQuestion, TypeReplyOpen, TypeReaderEnd DEF Process

LEMMA TypeStutter == ASSUME TypeInv, UNCHANGED vars PROVE TypeInv'
  BY PlacedKept DEF TypeInv, TypeOK, vars, super, app

LEMMA TypeNext == TypeInv /\ [Next]_vars => TypeInv'
  <1> SUFFICES ASSUME TypeInv, [Next]_vars PROVE TypeInv'
    OBVIOUS
  <1>1. CASE Pump
    BY <1>1, TypePhase, TypeHandleMessage, TypeRetire, TypeKillDoomed, TypeRetryBackoff,
       TypeDispatchUnsized, TypeDispatch, TypeGrow, TypeDispatchEnd DEF Pump
  <1>2. CASE Application
    BY <1>2, TypeSubmit, TypeCancelRender, TypeInvalidate, TypeAsk, TypeOpen, TypeClose
       DEF Application
  <1>3. CASE Environment
    BY <1>3, TypeProcess, TypeRun, TypeTime DEF Environment
  <1>4. CASE UNCHANGED vars
    BY <1>4, TypeStutter
  <1> QED
    BY <1>1, <1>2, <1>3, <1>4 DEF Next

(* Every variable keeps the shape its field has in the code, through every   *)
(* interleaving of the event loop, the worker processes and their faults.    *)
THEOREM TypeCorrect == Spec => []TypeOK
  <1>1. TypeInv => TypeOK
    BY DEF TypeInv
  <1> QED
    BY <1>1, TypeInit, TypeNext, PTL DEF Spec

-----------------------------------------------------------------------------
(* The ledger: no render request is leaked and none is in two places.       *)
(*                                                                          *)
(* Accounted is not inductive.  A restart throws away what its slot held,   *)
(* so the slots a retry visits must be dead and dead slots must hold        *)
(* nothing (OneHome); a job is dispatched from the queue, so nothing else   *)
(* may hold it; and the id of a new request must not be in use (Given).     *)

(* A backoff is the state of a worker that is dead. *)
BackoffDead == \A i \in Slots : slot[i].backoff # "none" => ~slot[i].alive

(* retry_backoff restarts none but dead workers. *)
RetryDead == pc = "retry" => \A i \in todo : ~slot[i].alive

(* Every id in use was given out by next_request_id. *)
Given ==
  /\ queue \subseteq 1..next /\ Owed \subseteq 1..next
  /\ \A i \in Slots : slot[i].inFlight \subseteq 1..next

LedgerInv == TypeInv /\ BackoffDead /\ RetryDead /\ Given /\ OneHome /\ Accounted

LEMMA LiveSlot ==
  ASSUME TypeInv, NEW i \in Slots
  PROVE  i \in Live <=> i <= size /\ slot[i].alive
  BY PoolAssumption DEF Live, Slots, TypeInv, TypeOK

(* OneHome without unions. *)
LEMMA InFlightMember == ASSUME NEW j PROVE j \in InFlight <=> \E i \in Slots : j \in slot[i].inFlight
  BY DEF InFlight

LEMMA LedgerInit == Init => LedgerInv
  <1> SUFFICES ASSUME Init PROVE LedgerInv
    OBVIOUS
  <1>1. TypeInv
    BY TypeInit
  <1>2. \A i \in Slots : slot[i] = Fresh(1) \/ slot[i] = Vacant
    BY DEF Init
  <1>3. /\ Fresh(1).inFlight = {} /\ Vacant.inFlight = {}
        /\ Fresh(1).backoff = "none" /\ Vacant.backoff = "none"
    BY DEF Fresh, Vacant
  <1>4. \A i \in Slots : slot[i].inFlight = {} /\ slot[i].backoff = "none"
    BY <1>2, <1>3
  <1>5. BackoffDead /\ RetryDead
    BY <1>4 DEF BackoffDead, RetryDead, Init
  <1>6. InFlight = {} /\ Owed = {} /\ queue = {} /\ waiting = {}
    BY <1>4 DEF InFlight, Owed, Init
  <1>7. Given /\ OneHome /\ Accounted
    BY <1>4, <1>6 DEF Given, OneHome, Accounted
  <1> QED
    BY <1>1, <1>5, <1>7 DEF LedgerInv

-----------------------------------------------------------------------------
(* Steps after which every slot holds what it held. *)
LEMMA LedgerSame ==
  ASSUME LedgerInv, TypeInv', UNCHANGED <<queue, owed, waiting, size, next>>,
         \A k \in Slots : /\ slot'[k].inFlight = slot[k].inFlight
                          /\ slot'[k].alive = slot[k].alive
                          /\ slot'[k].backoff = "none" <=> slot[k].backoff = "none",
         pc' = "retry" => \A i \in todo' : ~slot[i].alive
  PROVE  LedgerInv'
  <1>1. BackoffDead'
    BY DEF LedgerInv, BackoffDead
  <1>2. RetryDead'
    <2>1. pc' = "retry" => todo' \subseteq Slots
      BY DEF TypeInv, TypeOK
    <2> QED
      BY <2>1 DEF RetryDead
  <1>3. Owed' = Owed
    BY DEF Owed
  <1>4. Live' = Live
    BY SizeSlots DEF Live, LedgerInv
  <1>5. InFlight' = InFlight
    BY DEF InFlight
  <1>6. Given'
    BY <1>3 DEF LedgerInv, Given
  <1>7. OneHome'
    BY <1>3, <1>4, <1>5 DEF LedgerInv, OneHome
  <1>8. Accounted'
    BY <1>3, <1>4, SizeSlots DEF LedgerInv, Accounted, Live
  <1> QED
    BY <1>1, <1>2, <1>6, <1>7, <1>8 DEF LedgerInv

(* Steps of one slot that answers some of the jobs it held, or that starts   *)
(* or ends a worker that holds nothing.                                      *)
LEMMA LedgerDrop ==
  ASSUME LedgerInv, TypeInv', NEW i \in Slots, NEW js,
         UNCHANGED <<queue, owed, size, next>>,
         waiting' = waiting \ js,
         \A k \in Slots \ {i} : /\ slot'[k].inFlight = slot[k].inFlight
                                /\ slot'[k].alive = slot[k].alive
                                /\ slot'[k].backoff = slot[k].backoff,
         slot'[i].inFlight = slot[i].inFlight \ js,
         slot'[i].alive = slot[i].alive \/ slot'[i].inFlight = {},
         slot'[i].backoff # "none" => ~slot'[i].alive,
         pc' = "retry" => \A k \in todo' : ~slot'[k].alive
  PROVE  LedgerInv'
  <1>1. BackoffDead'
    BY DEF LedgerInv, BackoffDead
  <1>2. RetryDead'
    BY DEF RetryDead
  <1>3. Owed' = Owed
    BY DEF Owed
  <1>4. \A k \in Slots : slot'[k].inFlight \subseteq slot[k].inFlight
    OBVIOUS
  <1>5. Given'
    BY <1>3, <1>4 DEF LedgerInv, Given
  <1>6. \A k \in Slots \ {i} : k \in Live' <=> k \in Live
    BY LiveSlot DEF Live, LedgerInv
  <1>7. i \in Live' <=> i <= size /\ slot'[i].alive
    BY PoolAssumption DEF Live, Slots, LedgerInv, TypeInv, TypeOK
  <1>8. i \in Live <=> i <= size /\ slot[i].alive
    BY LiveSlot DEF LedgerInv
  <1>9. OneHome'
    <2>1. InFlight' \subseteq InFlight
      BY <1>4 DEF InFlight
    <2>2. \A k \in Slots \ Live' : slot'[k].inFlight = {}
      BY <1>4, <1>6, <1>7, <1>8 DEF LedgerInv, OneHome
    <2>3. \A k, l \in Slots : k # l => slot'[k].inFlight \cap slot'[l].inFlight = {}
      BY <1>4 DEF LedgerInv, OneHome
    <2> QED
      BY <1>3, <2>1, <2>2, <2>3 DEF LedgerInv, OneHome
  <1>10. Accounted'
    <2> SUFFICES ASSUME NEW j \in waiting',
                        j \notin queue, j \notin Owed
                 PROVE  \E k \in Live' : j \in slot'[k].inFlight
      BY <1>3 DEF Accounted
    <2>1. j \in waiting /\ j \notin js
      OBVIOUS
    <2>2. PICK k \in Live : j \in slot[k].inFlight
      BY <2>1 DEF LedgerInv, Accounted
    <2>3. k \in Slots
      BY SizeSlots DEF Live, LedgerInv
    <2> QED
      BY <1>6, <1>7, <1>8, <2>1, <2>2, <2>3
  <1> QED
    BY <1>1, <1>2, <1>5, <1>9, <1>10 DEF LedgerInv

-----------------------------------------------------------------------------
(* The application's calls. *)

LEMMA OwedAdd ==
  ASSUME NEW j, NEW kind, owed' = owed \cup {<<j, kind>>}
  PROVE  Owed' = Owed \cup {j}
  <1>1. <<j, kind>>[1] = j
    OBVIOUS
  <1> QED
    BY <1>1, Zenon DEF Owed

LEMMA LedgerSubmit ==
  ASSUME LedgerInv, TypeInv', NEW j \in Jobs, Submit(j) PROVE LedgerInv'
  <1>1. /\ next' = next + 1 /\ j = next + 1 /\ next \in Nat
        /\ UNCHANGED <<todo, slot, size>> /\ waiting' = waiting \cup {j}
        /\ pc' # "retry"
    BY PoolAssumption DEF Submit, LedgerInv, TypeInv, TypeOK
  <1>2. BackoffDead' /\ RetryDead'
    BY <1>1 DEF LedgerInv, BackoffDead, RetryDead
  <1>3. Live' = Live /\ InFlight' = InFlight
    BY <1>1 DEF Live, InFlight
  <1>4. \/ queue' = queue \cup {j} /\ Owed' = Owed
        \/ queue' = queue /\ Owed' = Owed \cup {j}
    <2>1. \/ queue' = queue \cup {j} /\ owed' = owed
          \/ queue' = queue /\ owed' = owed \cup {<<j, "Cancelled">>}
      BY DEF Submit
    <2>2. owed' = owed \cup {<<j, "Cancelled">>} => Owed' = Owed \cup {j}
      BY OwedAdd
    <2>3. owed' = owed => Owed' = Owed
      BY DEF Owed
    <2> QED
      BY <2>1, <2>2, <2>3
  <1>5. j \notin queue /\ j \notin Owed /\ j \notin InFlight
    BY <1>1 DEF LedgerInv, Given, InFlight
  <1>6. Given'
    <2>1. 1..next \subseteq 1..next' /\ j \in 1..next'
      BY <1>1
    <2> QED
      BY <1>1, <1>4, <2>1 DEF LedgerInv, Given
  <1>7. OneHome'
    <2>1. /\ queue' \cap InFlight = {} /\ queue' \cap Owed' = {}
          /\ Owed' \cap InFlight = {}
      BY <1>4, <1>5 DEF LedgerInv, OneHome
    <2> QED
      BY <1>1, <1>3, <2>1 DEF LedgerInv, OneHome
  <1>8. Accounted'
    BY <1>1, <1>3, <1>4 DEF LedgerInv, Accounted
  <1> QED
    BY <1>2, <1>6, <1>7, <1>8 DEF LedgerInv

(* A request that is given up leaves the ledger and the queue together. *)
LEMMA LedgerGiveUp ==
  ASSUME LedgerInv, TypeInv',
         (\E j \in Jobs : CancelRender(j)) \/ (\E g \in 1..MaxFloor : Invalidate(g))
  PROVE  LedgerInv'
  <1>1. UNCHANGED <<pc, todo, next, slot, size, owed>> /\ pc = "idle"
    BY DEF CancelRender, Invalidate
  <1>2. /\ queue' \subseteq queue /\ waiting' \subseteq waiting
        /\ waiting' \cap queue \subseteq queue'
    BY DEF CancelRender, Invalidate
  <1>3. BackoffDead' /\ RetryDead'
    BY <1>1 DEF LedgerInv, BackoffDead, RetryDead
  <1>4. Live' = Live /\ InFlight' = InFlight /\ Owed' = Owed
    BY <1>1 DEF Live, InFlight, Owed
  <1>5. Given'
    BY <1>1, <1>2, <1>4 DEF LedgerInv, Given
  <1>6. OneHome'
    BY <1>1, <1>2, <1>4 DEF LedgerInv, OneHome
  <1>7. Accounted'
    BY <1>1, <1>2, <1>4 DEF LedgerInv, Accounted
  <1> QED
    BY <1>3, <1>5, <1>6, <1>7 DEF LedgerInv

LEMMA LedgerAsk ==
  ASSUME LedgerInv, TypeInv', NEW q \in Questions, Ask(q) PROVE LedgerInv'
  <1>1. UNCHANGED <<pc, queue, owed, waiting, size, next>> /\ pc = "idle"
    BY DEF Ask
  <1>2. \A k \in Slots : /\ slot'[k].inFlight = slot[k].inFlight
                         /\ slot'[k].alive = slot[k].alive
                         /\ slot'[k].backoff = slot[k].backoff
    <2>1. CASE UNCHANGED slot
      BY <2>1
    <2>2. ASSUME NEW i \in Live, slot' = [slot EXCEPT ![i].asked = @ \cup {q}]
          PROVE  <1>2
      <3> DEFINE now == [slot[i] EXCEPT !.asked = @ \cup {q}]
      <3>1. slot \in [Slots -> SlotType] /\ slot[i] \in SlotType
        BY SizeSlots DEF LedgerInv, TypeInv, TypeOK, Live
      <3>2. slot' = [slot EXCEPT ![i] = now]
        BY <2>2
      <3>3. /\ now.inFlight = slot[i].inFlight /\ now.alive = slot[i].alive
            /\ now.backoff = slot[i].backoff
        BY <3>1 DEF SlotType
      <3> HIDE DEF now
      <3> QED
        BY <3>1, <3>2, <3>3
    <2> QED
      BY <2>1, <2>2 DEF Ask
  <1> QED
    BY <1>1, <1>2, LedgerSame

LEMMA LedgerDocuments ==
  ASSUME LedgerInv, TypeInv', NEW d \in Docs, Open(d) \/ Close(d) PROVE LedgerInv'
  <1>1. UNCHANGED <<pc, queue, owed, waiting, size, next, slot>> /\ pc = "idle"
    BY DEF Open, Close
  <1> QED
    BY <1>1, LedgerSame

-----------------------------------------------------------------------------
(* The steps of a pump. *)

LEMMA LedgerPhase ==
  ASSUME LedgerInv, TypeInv', PumpStart \/ DrainEnd \/ KillEnd \/ RetryEnd \/ RetireEnd
  PROVE  LedgerInv'
  <1>1. UNCHANGED <<queue, owed, waiting, size, next, slot>>
    BY DEF PumpStart, DrainEnd, KillEnd, RetryEnd, RetireEnd, app
  <1>2. pc' = "retry" => \A i \in todo' : ~slot[i].alive
    BY SizeSlots DEF PumpStart, DrainEnd, KillEnd, RetryEnd, RetireEnd, LedgerInv, BackoffDead
  <1> QED
    BY <1>1, <1>2, LedgerSame

LEMMA LedgerKill ==
  ASSUME LedgerInv, TypeInv', NEW s \in [Slots -> SlotType], NEW i \in Slots,
         Placed(s, proc), Kill(s, i),
         \A k \in Slots : /\ s[k].inFlight = slot[k].inFlight
                          /\ s[k].alive = slot[k].alive
                          /\ s[k].backoff = slot[k].backoff,
         UNCHANGED <<queue, owed, size, next>>, pc' # "retry"
  PROVE  LedgerInv'
  <1>1. TypeInv
    BY DEF LedgerInv
  <1>2. /\ waiting' = waiting \ s[i].inFlight
        /\ slot'[i].inFlight = {}
        /\ slot'[i].alive => slot'[i].backoff = "none"
        /\ \A k \in Slots \ {i} : slot'[k] = s[k]
    BY <1>1, KillSlot
  <1>3. \A k \in Slots \ {i} : /\ slot'[k].inFlight = slot[k].inFlight
                               /\ slot'[k].alive = slot[k].alive
                               /\ slot'[k].backoff = slot[k].backoff
    BY <1>2
  <1>4. /\ waiting' = waiting \ slot[i].inFlight
        /\ slot'[i].inFlight = slot[i].inFlight \ slot[i].inFlight
    BY <1>2
  <1> QED
    BY <1>2, <1>3, <1>4, LedgerDrop

LEMMA LedgerHandleMessage == ASSUME LedgerInv, TypeInv', HandleMessage PROVE LedgerInv'
  <1> DEFINE m == Head(events)
             heard == Heard(m)
  <1>1. TypeInv /\ m \in MessageType
    BY DEF HandleMessage, LedgerInv, TypeInv, TypeOK
  <1>2. pc' = "drained" /\ UNCHANGED <<queue, owed, size, next>>
    BY DEF HandleMessage
  <1>3. /\ heard \in [Slots -> SlotType]
        /\ \A k \in Slots : /\ heard[k].inFlight = slot[k].inFlight
                            /\ heard[k].alive = slot[k].alive
                            /\ heard[k].backoff = slot[k].backoff
                            /\ heard[k].epoch = slot[k].epoch
    BY <1>1, HeardSlot
  <1>4. Placed(heard, proc) /\ m.at \in Slots
    BY <1>1, <1>3, MessageKind DEF TypeInv, Placed
  <1>5. CASE UNCHANGED <<slot, waiting>>
    BY <1>2, <1>5, LedgerSame
  <1>6. CASE slot' = heard /\ UNCHANGED waiting
    BY <1>2, <1>3, <1>6, LedgerSame
  <1>7. CASE m.kind \in RenderAnswers /\ HandleJob(m, heard)
    <2>1. /\ \A k \in Slots : /\ slot'[k].alive = slot[k].alive
                              /\ slot'[k].backoff = slot[k].backoff
          /\ \/ /\ waiting' = waiting
                /\ \A k \in Slots : slot'[k].inFlight = slot[k].inFlight
             \/ /\ waiting' = waiting \ {m.what}
                /\ \A k \in Slots : k # m.at => slot'[k].inFlight = slot[k].inFlight
                /\ slot'[m.at].inFlight = slot[m.at].inFlight \ {m.what}
      BY <1>1, <1>7, HandleJobEffect
    <2>2. CASE waiting' = waiting /\ \A k \in Slots : slot'[k].inFlight = slot[k].inFlight
      BY <1>2, <2>1, <2>2, LedgerSame
    <2>3. CASE /\ waiting' = waiting \ {m.what}
               /\ \A k \in Slots : k # m.at => slot'[k].inFlight = slot[k].inFlight
               /\ slot'[m.at].inFlight = slot[m.at].inFlight \ {m.what}
      <3>1. slot'[m.at].backoff # "none" => ~slot'[m.at].alive
        BY <1>4, <2>1 DEF LedgerInv, BackoffDead
      <3> HIDE DEF m
      <3> QED
        BY <1>2, <1>4, <2>1, <2>3, <3>1, LedgerDrop
    <2> QED
      BY <2>1, <2>2, <2>3
  <1>8. CASE Kill(heard, m.at)
    BY <1>2, <1>3, <1>4, <1>8, LedgerKill
  <1> QED
    BY <1>5, <1>6, <1>7, <1>8
       DEF HandleMessage, HandleJob, RenderAnswers, HandleOpened, HandleAnswer, app

LEMMA LedgerKillDoomed ==
  ASSUME LedgerInv, TypeInv', NEW i \in Slots, KillDoomed(i) PROVE LedgerInv'
  <1>1. /\ Kill(slot, i) /\ pc' = "kill"
        /\ UNCHANGED <<queue, owed, size, next>>
    BY DEF KillDoomed
  <1>2. slot \in [Slots -> SlotType] /\ Placed(slot, proc)
    BY DEF LedgerInv, TypeInv, TypeOK
  <1> QED
    BY <1>1, <1>2, LedgerKill

(* The slot a retry visits is dead, so that no job is lost with it. *)
LEMMA LedgerRetryBackoff ==
  ASSUME LedgerInv, TypeInv', NEW i \in Slots, RetryBackoff(i) PROVE LedgerInv'
  <1>1. /\ TypeInv /\ slot \in [Slots -> SlotType] /\ proc \in [Epochs -> ProcType]
        /\ Placed(slot, proc) /\ slot[i].recent \in Nat
    BY DEF LedgerInv, TypeInv, TypeOK, SlotType
  <1>2. /\ pc' = "retry" /\ pc = "retry" /\ i \in todo
        /\ todo' \subseteq todo \ {i} \/ (todo' = {} /\ UNCHANGED slot)
        /\ UNCHANGED <<queue, owed, waiting, size, next>>
    BY DEF RetryBackoff, First
  <1>3. \A k \in todo : ~slot[k].alive
    BY <1>2 DEF LedgerInv, RetryDead
  <1>4. slot[i].inFlight = {}
    BY <1>1, <1>2, <1>3, LiveSlot DEF LedgerInv, OneHome
  <1>5. todo \subseteq Slots
    BY DEF LedgerInv, TypeInv, TypeOK
  <1>6. CASE UNCHANGED slot
    <2>1. \A k \in todo' : ~slot[k].alive
      BY <1>2, <1>3
    <2> QED
      BY <1>2, <1>6, <2>1, LedgerSame
  <1>7. ASSUME slot'[i].inFlight = {}, slot'[i].backoff # "none" => ~slot'[i].alive,
               \A k \in Slots \ {i} : slot'[k] = slot[k], todo' \subseteq todo \ {i}
        PROVE  LedgerInv'
    <2>1. \A k \in todo' : ~slot'[k].alive
      BY <1>3, <1>5, <1>7
    <2>2. waiting' = waiting \ {} /\ slot'[i].inFlight = slot[i].inFlight \ {}
      BY <1>2, <1>4, <1>7
    <2>3. \A k \in Slots \ {i} : /\ slot'[k].inFlight = slot[k].inFlight
                                 /\ slot'[k].alive = slot[k].alive
                                 /\ slot'[k].backoff = slot[k].backoff
      BY <1>7
    <2> QED
      BY <1>2, <1>7, <2>1, <2>2, <2>3, LedgerDrop
  <1>8. CASE Respawn(slot, proc, i, slot[i].recent) /\ todo' = todo \ {i}
    <2>1. /\ slot'[i].inFlight = {} /\ slot'[i].backoff = "none"
          /\ \A k \in Slots \ {i} : slot'[k] = slot[k]
      BY <1>1, <1>8, RespawnSlot
    <2> QED
      BY <1>7, <1>8, <2>1
  <1>9. CASE slot' = [slot EXCEPT ![i].backoff = "waiting"] /\ todo' = todo \ {i}
    <2>1. /\ slot'[i].inFlight = {} /\ ~slot'[i].alive
          /\ \A k \in Slots \ {i} : slot'[k] = slot[k]
      BY <1>1, <1>2, <1>3, <1>4, <1>9, BackoffSet
    <2> QED
      BY <1>7, <1>9, <2>1
  <1> QED
    BY <1>6, <1>8, <1>9 DEF RetryBackoff

(* The slot that is popped holds nothing: its worker is dead or idle. *)
LEMMA LedgerRetire == ASSUME LedgerInv, TypeInv', Retire PROVE LedgerInv'
  <1>1. /\ TypeInv /\ slot \in [Slots -> SlotType] /\ size \in Slots
        /\ size' \in Slots
    BY DEF LedgerInv, TypeInv, TypeOK
  <1>2. /\ slot' = [slot EXCEPT ![size] = Vacant] /\ size' = size - 1
        /\ pc = "retire"
        /\ UNCHANGED <<pc, todo, next, queue, owed, waiting>>
    BY DEF Retire, RetireGivenUp, RetireIdle, app
  <1>3. slot[size].inFlight = {}
    <2>1. ~slot[size].alive \/ slot[size].inFlight = {}
      BY DEF Retire, RetireGivenUp, RetireIdle, Retirable
    <2> QED
      BY <1>1, <2>1, LiveSlot DEF LedgerInv, OneHome
  <1>4. /\ slot'[size].inFlight = {} /\ slot'[size].backoff = "none"
        /\ ~slot'[size].alive
        /\ \A k \in Slots \ {size} : slot'[k] = slot[k]
    BY <1>1, <1>2 DEF Vacant
  <1>5. BackoffDead' /\ RetryDead'
    BY <1>1, <1>2, <1>4 DEF LedgerInv, BackoffDead, RetryDead
  <1>6. Owed' = Owed
    BY <1>2 DEF Owed
  <1>7. \A k \in Slots : slot'[k].inFlight = slot[k].inFlight
    BY <1>1, <1>3, <1>4
  <1>8. InFlight' = InFlight
    BY <1>7 DEF InFlight
  <1>9. \A k \in Slots : k # size => (k \in Live' <=> k \in Live)
    BY <1>1, <1>2, <1>4, PoolAssumption DEF Live, Slots
  <1>10. Given'
    BY <1>2, <1>6, <1>7 DEF LedgerInv, Given
  <1>11. OneHome'
    <2>1. \A k \in Slots \ Live' : slot'[k].inFlight = {}
      BY <1>3, <1>7, <1>9 DEF LedgerInv, OneHome
    <2> QED
      BY <1>2, <1>6, <1>7, <1>8, <2>1 DEF LedgerInv, OneHome
  <1>12. Accounted'
    <2>1. \A k \in Live : k \in Slots
      BY <1>1, SizeSlots DEF Live
    <2>2. \A k \in Live : \A j \in slot[k].inFlight : k \in Live' /\ j \in slot'[k].inFlight
      BY <1>3, <1>7, <1>9, <2>1
    <2> QED
      BY <1>2, <1>6, <2>2 DEF LedgerInv, Accounted
  <1> QED
    BY <1>5, <1>10, <1>11, <1>12 DEF LedgerInv

LEMMA LedgerDispatch ==
  ASSUME LedgerInv, TypeInv', NEW j \in Jobs, NEW i \in Slots, Dispatch(j, i)
  PROVE  LedgerInv'
  <1>1. TypeInv /\ queue \subseteq Jobs
    BY DEF LedgerInv, TypeInv, TypeOK
  <1>2. /\ slot'[i].inFlight = slot[i].inFlight \cup {j}
        /\ \A k \in Slots : k # i => slot'[k].inFlight = slot[k].inFlight
        /\ \A k \in Slots : slot'[k].alive = slot[k].alive /\ slot'[k].backoff = slot[k].backoff
    BY <1>1, DispatchSlot
  <1>3. /\ queue' = queue \ {j} /\ j \in queue
        /\ UNCHANGED <<pc, todo, next, size, owed, waiting>> /\ pc # "retry"
    BY DEF Dispatch, Choice, Dispatching, app
  <1>4. i \in Live
    BY SizeSlots DEF Dispatch, LeastLoaded, Takers, Eligible, Live
  <1>5. BackoffDead' /\ RetryDead'
    BY <1>2, <1>3 DEF LedgerInv, BackoffDead, RetryDead
  <1>6. Owed' = Owed
    BY <1>3 DEF Owed
  <1>7. Live' = Live
    BY <1>1, <1>2, <1>3, SizeSlots DEF Live
  <1>8. InFlight' = InFlight \cup {j}
    BY <1>2 DEF InFlight
  <1>9. j \notin Owed /\ j \notin InFlight
    BY <1>3 DEF LedgerInv, OneHome
  <1>10. Given'
    BY <1>2, <1>3, <1>6 DEF LedgerInv, Given
  <1>11. OneHome'
    <2>1. /\ queue' \cap InFlight' = {} /\ queue' \cap Owed' = {}
          /\ Owed' \cap InFlight' = {}
      BY <1>3, <1>6, <1>8, <1>9 DEF LedgerInv, OneHome
    <2>2. \A k \in Slots : j \notin slot[k].inFlight
      BY <1>9 DEF InFlight
    <2>3. \A k, l \in Slots : k # l => slot'[k].inFlight \cap slot'[l].inFlight = {}
      BY <1>2, <2>2 DEF LedgerInv, OneHome
    <2>4. \A k \in Slots \ Live' : slot'[k].inFlight = {}
      BY <1>2, <1>4, <1>7 DEF LedgerInv, OneHome
    <2> QED
      BY <2>1, <2>3, <2>4 DEF OneHome
  <1>12. Accounted'
    <2>1. \A k \in Live : k \in Slots
      BY <1>1, SizeSlots DEF Live
    <2>2. \A k \in Live : slot[k].inFlight \subseteq slot'[k].inFlight
      BY <1>2, <2>1
    <2> QED
      BY <1>2, <1>3, <1>4, <1>6, <1>7, <2>2 DEF LedgerInv, Accounted
  <1> QED
    BY <1>5, <1>10, <1>11, <1>12 DEF LedgerInv

LEMMA LedgerDispatchUnsized ==
  ASSUME LedgerInv, TypeInv', NEW j \in Jobs, DispatchUnsized(j) PROVE LedgerInv'
  <1>1. /\ queue' = queue \ {j} /\ j \in queue
        /\ owed' = owed \cup {<<j, "Failed">>}
        /\ UNCHANGED <<pc, todo, next, slot, size, waiting>> /\ pc # "retry"
    BY DEF DispatchUnsized, Choice, Dispatching, app
  <1>2. BackoffDead' /\ RetryDead'
    BY <1>1 DEF LedgerInv, BackoffDead, RetryDead
  <1>3. Owed' = Owed \cup {j}
    BY <1>1, OwedAdd
  <1>4. Live' = Live /\ InFlight' = InFlight
    BY <1>1 DEF Live, InFlight
  <1>5. Given'
    BY <1>1, <1>3 DEF LedgerInv, Given
  <1>6. OneHome'
    <2>1. j \notin InFlight
      BY <1>1 DEF LedgerInv, OneHome
    <2>2. /\ queue' \cap InFlight = {} /\ queue' \cap Owed' = {}
          /\ Owed' \cap InFlight = {}
      BY <1>1, <1>3, <2>1 DEF LedgerInv, OneHome
    <2> QED
      BY <1>1, <1>4, <2>2 DEF LedgerInv, OneHome
  <1>7. Accounted'
    BY <1>1, <1>3, <1>4 DEF LedgerInv, Accounted
  <1> QED
    BY <1>2, <1>5, <1>6, <1>7 DEF LedgerInv

LEMMA LedgerGrow == ASSUME LedgerInv, TypeInv', Grow PROVE LedgerInv'
  <1> DEFINE i == size + 1
  <1>1. /\ i \in Slots /\ i # size /\ i \notin Live
        /\ \A k \in Slots : k # i => (k <= i <=> k <= size)
    BY PoolAssumption DEF Grow, Live, LedgerInv, TypeInv, TypeOK, Slots
  <1>2. /\ size' = i /\ slot' = [slot EXCEPT ![i] = Fresh(epochs + 1)]
        /\ UNCHANGED <<pc, todo, next, queue, owed, waiting>> /\ pc # "retry"
    BY DEF Grow, Dispatching, app
  <1>3. /\ Fresh(epochs + 1).inFlight = {} /\ Fresh(epochs + 1).backoff = "none"
    BY DEF Fresh, Vacant
  <1>4. slot \in [Slots -> SlotType]
    BY DEF LedgerInv, TypeInv, TypeOK
  <1>5. slot[i].inFlight = {}
    BY <1>1 DEF LedgerInv, OneHome
  <1>6. /\ slot'[i].inFlight = {} /\ slot'[i].backoff = "none"
        /\ \A k \in Slots \ {i} : slot'[k] = slot[k]
    BY <1>1, <1>2, <1>3, <1>4
  <1>7. \A k \in Slots : slot'[k].inFlight = slot[k].inFlight
    BY <1>5, <1>6
  <1>8. BackoffDead' /\ RetryDead'
    BY <1>2, <1>6 DEF LedgerInv, BackoffDead, RetryDead
  <1>9. Owed' = Owed
    BY <1>2 DEF Owed
  <1>10. InFlight' = InFlight
    BY <1>7 DEF InFlight
  <1> HIDE DEF i
  <1>11. \A k \in Slots : k # i => (k \in Live' <=> k \in Live)
    <2>1. \A k \in Slots : k \in Live' <=> k <= i /\ slot'[k].alive
      BY <1>1, <1>2, PoolAssumption DEF Live, Slots
    <2>2. \A k \in Slots : k \in Live <=> k <= size /\ slot[k].alive
      BY LiveSlot DEF LedgerInv
    <2> QED
      BY <1>1, <1>6, <2>1, <2>2
  <1>12. Given'
    BY <1>2, <1>7, <1>9 DEF LedgerInv, Given
  <1>13. OneHome'
    <2>1. \A k \in Slots \ Live' : slot'[k].inFlight = {}
      BY <1>6, <1>7, <1>11 DEF LedgerInv, OneHome
    <2> QED
      BY <1>2, <1>7, <1>9, <1>10, <2>1 DEF LedgerInv, OneHome
  <1>14. Accounted'
    <2>1. \A k \in Live : k \in Slots
      BY SizeSlots DEF Live, LedgerInv
    <2>2. \A k \in Live : k \in Live' /\ slot'[k].inFlight = slot[k].inFlight
      BY <1>1, <1>7, <1>11, <2>1
    <2> QED
      BY <1>2, <1>9, <2>2 DEF LedgerInv, Accounted
  <1> QED
    BY <1>8, <1>12, <1>13, <1>14 DEF LedgerInv

(* What the supervisor owes leaves its list when the application hears it. *)
LEMMA LedgerDispatchEnd == ASSUME LedgerInv, TypeInv', DispatchEnd PROVE LedgerInv'
  <1>1. UNCHANGED <<todo, next, queue, slot, size>> /\ pc' = "idle"
    BY DEF DispatchEnd
  <1>2. CASE UNCHANGED <<owed, waiting>>
    BY <1>1, <1>2, LedgerSame
  <1>3. CASE /\ owed' = {}
             /\ waiting' = {j \in waiting : \A kind \in AnswerKinds : <<j, kind>> \notin owed}
    <2>1. BackoffDead' /\ RetryDead'
      BY <1>1 DEF LedgerInv, BackoffDead, RetryDead
    <2>2. Live' = Live /\ InFlight' = InFlight /\ Owed' = {}
      BY <1>1, <1>3 DEF Live, InFlight, Owed
    <2>3. Given' /\ OneHome'
      BY <1>1, <2>2 DEF LedgerInv, Given, OneHome
    <2>4. waiting' \cap Owed = {}
      <3> SUFFICES ASSUME NEW w \in owed PROVE w[1] \notin waiting'
        BY DEF Owed
      <3>1. w[2] \in AnswerKinds /\ w = <<w[1], w[2]>>
        BY DEF LedgerInv, TypeInv, TypeOK, AnswerKinds
      <3> QED
        BY <1>3, <3>1
    <2>5. Accounted'
      BY <1>1, <1>3, <2>2, <2>4 DEF LedgerInv, Accounted
    <2> QED
      BY <2>1, <2>3, <2>5 DEF LedgerInv
  <1> QED
    BY <1>2, <1>3 DEF DispatchEnd, Leave

-----------------------------------------------------------------------------
(* The processes, and time. *)

LEMMA LedgerProcess ==
  ASSUME LedgerInv, TypeInv', NEW e \in Epochs,
         Process(e) \/ Crash(e) \/ Hang(e) \/ Resume(e)
  PROVE  LedgerInv'
  <1>1. UNCHANGED <<super, app>>
    BY DEF Process, Crash, Hang, Resume
  <1>2. UNCHANGED <<pc, todo, queue, owed, waiting, size, next, slot>>
    BY <1>1 DEF super, app
  <1> QED
    BY <1>2, LedgerSame DEF LedgerInv, RetryDead

LEMMA LedgerTime ==
  ASSUME LedgerInv, TypeInv', NEW i \in Slots, SilencePasses(i) \/ BackoffPasses(i)
  PROVE  LedgerInv'
  <1>1. slot \in [Slots -> SlotType] /\ slot[i] \in SlotType
    BY DEF LedgerInv, TypeInv, TypeOK
  <1>2. UNCHANGED <<pc, todo, queue, owed, waiting, size, next>>
    BY DEF SilencePasses, BackoffPasses, app
  <1>3. \A k \in Slots : /\ slot'[k].inFlight = slot[k].inFlight
                         /\ slot'[k].alive = slot[k].alive
                         /\ slot'[k].backoff = "none" <=> slot[k].backoff = "none"
    <2>1. CASE SilencePasses(i)
      <3> DEFINE now == [slot[i] EXCEPT !.silent = TRUE]
      <3>1. slot' = [slot EXCEPT ![i] = now]
        BY <2>1 DEF SilencePasses
      <3>2. /\ now.inFlight = slot[i].inFlight /\ now.alive = slot[i].alive
            /\ now.backoff = slot[i].backoff
        BY <1>1 DEF SlotType
      <3> HIDE DEF now
      <3> QED
        BY <1>1, <3>1, <3>2
    <2>2. CASE BackoffPasses(i)
      <3>1. slot' = [slot EXCEPT ![i].backoff = "due"] /\ slot[i].backoff = "waiting"
        BY <2>2 DEF BackoffPasses
      <3> QED
        BY <1>1, <3>1, BackoffSet
    <2> QED
      BY <2>1, <2>2
  <1> QED
    BY <1>2, <1>3, LedgerSame DEF LedgerInv, RetryDead

-----------------------------------------------------------------------------
LEMMA LedgerNext == LedgerInv /\ [Next]_vars => LedgerInv'
  <1> SUFFICES ASSUME LedgerInv, [Next]_vars PROVE LedgerInv'
    OBVIOUS
  <1>0. TypeInv'
    BY TypeNext DEF LedgerInv
  <1>1. CASE Pump
    BY <1>0, <1>1, LedgerPhase, LedgerHandleMessage, LedgerRetire, LedgerKillDoomed,
       LedgerRetryBackoff, LedgerDispatchUnsized, LedgerDispatch, LedgerGrow,
       LedgerDispatchEnd DEF Pump
  <1>2. CASE Application
    BY <1>0, <1>2, LedgerSubmit, LedgerGiveUp, LedgerAsk, LedgerDocuments DEF Application
  <1>3. CASE Environment
    BY <1>0, <1>3, LedgerProcess, LedgerTime DEF Environment
  <1>4. CASE UNCHANGED vars
    <2>1. UNCHANGED <<pc, todo, queue, owed, waiting, size, next, slot>>
      BY <1>4 DEF vars, super, app
    <2> QED
      BY <1>0, <2>1, LedgerSame DEF LedgerInv, RetryDead
  <1> QED
    BY <1>1, <1>2, <1>3, <1>4 DEF Next

LEMMA LedgerCorrect == Spec => []LedgerInv
  BY LedgerInit, LedgerNext, PTL DEF Spec

(* No request is leaked: each one the application still waits for is queued, *)
(* in the hands of a live worker, or about to be answered by the supervisor  *)
(* itself, whatever crashes, restarts, gives up or is retired.               *)
THEOREM RequestsAccounted == Spec => []Accounted
  <1>1. LedgerInv => Accounted
    BY DEF LedgerInv
  <1> QED
    BY <1>1, LedgerCorrect, PTL

(* A job is queued, owed an answer, or held by one live worker, and in no    *)
(* two of these places: what a crash fails is never also dispatched again.   *)
THEOREM JobsHaveOneHome == Spec => []OneHome
  <1>1. LedgerInv => OneHome
    BY DEF LedgerInv
  <1> QED
    BY <1>1, LedgerCorrect, PTL

-----------------------------------------------------------------------------
(*****************************************************************************)
(* Which process a slot of the pool has: no healthy worker is killed, the    *)
(* pool never runs more processes than it may, each of them knows the        *)
(* documents that are open, and no crash forgets a question.                 *)
(*                                                                           *)
(* Two slots never share a process and an epoch never comes back (Owners),   *)
(* so a message is about the process that wrote it: the end of a pipe is     *)
(* read after its process ended (Mail).  A worker is condemned by its        *)
(* silence, so one that is silent while it holds work must hang              *)
(* (SilentDown), and what was seen when the doomed were named must still     *)
(* be so when they are killed (Visits).                                      *)
(*****************************************************************************)

(* Every live slot has a process of its own, and an epoch is given once. *)
Owners ==
  /\ \A i \in Slots : /\ slot[i].epoch <= epochs
                      /\ slot[i].alive => slot[i].epoch # None /\ i <= size
  /\ \A i, k \in Slots : i # k => slot[i].epoch = None \/ slot[i].epoch # slot[k].epoch
  /\ \A e \in Epochs : e > epochs => proc[e].run = "none"

(* Nothing is heard of a process to come; "Died" is read after the end. *)
MailOf(m) == /\ m.epoch <= epochs
             /\ m.kind = "Died" => proc[m.epoch].run = "closed"
Mail == \A n \in 1..Len(events) : MailOf(events[n])

(* A worker silent past its deadline with work in hand hangs, or is gone. *)
Overtime(i) == slot[i].alive /\ slot[i].silent /\ slot[i].inFlight # {}
SilentDown == \A i \in Slots : Overtime(i) => proc[slot[i].epoch].run # "up"

(* What the loops of the pump have still to visit is what they named. *)
Visits ==
  /\ pc = "kill" => \A i \in todo : slot[i].alive /\ proc[slot[i].epoch].run # "up"
  /\ pc = "retry" => todo \subseteq 1..size

(* A question is only forgotten because another one of its topic, whose     *)
(* answer serves both, was answered or went with its worker.                *)
Served(q) ==
  \E r \in Questions \ {q} : Topic[r] = Topic[q] /\ status[r] \in {"answered", "retired"}
Tracked ==
  \A q \in Questions :
    status[q] = "asked" => Served(q) \/ \E i \in 1..size : q \in slot[i].asked

ProcessInv ==
  LedgerInv /\ Owners /\ Mail /\ SilentDown /\ Visits /\ CaughtUp /\ PoolBounded /\ Tracked

(* A process only goes on: it starts once, may hang and come back late, and *)
(* ends for good.                                                           *)
Ages(e) ==
  /\ proc'[e].run = "none" <=> proc[e].run = "none"
  /\ proc'[e].run \in Running => proc[e].run \in Running
  /\ proc'[e].run = "up" => proc[e].run = "up"
  /\ proc[e].run = "closed" => proc'[e].run = "closed"

(* What a process knows and holds stays as it was. *)
Content(e) == /\ proc'[e].jobs = proc[e].jobs /\ proc'[e].docs = proc[e].docs
              /\ proc'[e].region = proc[e].region

-----------------------------------------------------------------------------
(* The first state. *)

LEMMA LiveFinite == ASSUME TypeInv PROVE IsFiniteSet(Live) /\ WorkerCount \in Nat
  <1>1. IsFiniteSet(1..size)
    BY FS_Interval, PoolAssumption DEF TypeInv, TypeOK, Slots
  <1>2. Live \subseteq 1..size
    BY DEF Live
  <1> QED
    BY <1>1, <1>2, FS_Subset, FS_CardinalityType DEF WorkerCount

LEMMA ProcessInit == Init => ProcessInv
  <1> SUFFICES ASSUME Init PROVE ProcessInv
    OBVIOUS
  <1>1. LedgerInv /\ TypeInv
    BY LedgerInit DEF LedgerInv
  <1>2. /\ slot = [i \in Slots |-> IF i = 1 THEN Fresh(1) ELSE Vacant]
        /\ size = 1 /\ epochs = 1 /\ pc = "idle" /\ events = <<>> /\ documents = {}
    BY DEF Init
  <1>3. /\ Fresh(1).epoch = 1 /\ Fresh(1).inFlight = {}
        /\ ~Vacant.alive /\ Vacant.epoch = None /\ Vacant.inFlight = {}
    BY DEF Fresh, Vacant
  <1>4. /\ proc[1].run = "up" /\ proc[1].docs = {}
        /\ \A e \in Epochs : e # 1 => proc[e].run = "none"
    BY FirstEpoch DEF Init, NoProcess
  <1>5. Owners
    BY <1>2, <1>3, <1>4 DEF Owners, Epochs, None
  <1>6. Mail /\ Visits
    BY <1>2 DEF Mail, Visits
  <1>7. SilentDown
    BY <1>2, <1>3 DEF SilentDown, Overtime
  <1>8. CaughtUp
    BY <1>2, <1>3, <1>4, FirstEpoch DEF CaughtUp, Live
  <1>9. PoolBounded
    <2>1. Live \subseteq {1}
      BY <1>2 DEF Live
    <2>2. Cardinality(Live) <= Cardinality({1}) /\ Cardinality({1}) = 1
      BY <2>1, FS_Singleton, FS_Subset
    <2> QED
      BY <2>2, PoolAssumption, LiveFinite, <1>1 DEF PoolBounded, WorkerCount
  <1>10. Tracked
    BY DEF Tracked, Init
  <1> QED
    BY <1>1, <1>5, <1>6, <1>7, <1>8, <1>9, <1>10 DEF ProcessInv

-----------------------------------------------------------------------------
(* What steps have in common. *)

LEMMA SlotTypes ==
  ASSUME TypeInv, NEW i \in Slots
  PROVE  /\ slot[i].epoch \in 0..MaxEpochs /\ slot[i].alive \in BOOLEAN
         /\ slot[i].silent \in BOOLEAN
         /\ slot[i].inFlight \subseteq Jobs /\ slot[i].asked \subseteq Questions
         /\ slot[i].epoch # None => slot[i].epoch \in Epochs
  BY PoolAssumption DEF TypeInv, TypeOK, SlotType, None, Epochs

LEMMA LiveIs ==
  ASSUME TypeInv, Owners PROVE Live = {i \in Slots : slot[i].alive}
  BY LiveSlot, SizeSlots DEF Owners, Live

LEMMA LiveWillBe ==
  ASSUME TypeInv', Owners' PROVE Live' = {i \in Slots : slot'[i].alive}
  <1>1. 1..size' \subseteq Slots /\ size' \in Int
    BY PoolAssumption DEF TypeInv, TypeOK, Slots
  <1>2. \A i \in Slots : slot'[i].alive => i \in 1..size'
    BY <1>1 DEF Owners, Slots
  <1> QED
    BY <1>1, <1>2 DEF Live

LEMMA MailKept ==
  ASSUME Mail, TypeInv, TypeInv', epochs <= epochs',
         \A e \in Epochs : proc[e].run = "closed" => proc'[e].run = "closed",
         \A n \in 1..Len(events') :
           (\E k \in 1..Len(events) : events'[n] = events[k]) \/ MailOf(events[n])'
  PROVE  Mail'
  <1>1. \A n \in 1..Len(events) : events[n] \in MessageType
    BY DEF TypeInv, TypeOK
  <1>2. epochs \in Int /\ epochs' \in Int
    BY PoolAssumption DEF TypeInv, TypeOK, Epochs
  <1>3. ASSUME NEW k \in 1..Len(events)
        PROVE  /\ events[k].epoch <= epochs' /\ events[k].epoch \in Epochs
               /\ events[k].kind = "Died" => proc'[events[k].epoch].run = "closed"
    <2>1. events[k].epoch \in Epochs
      BY <1>1, MessageKind
    <2> QED
      BY <1>2, <2>1 DEF Mail, MailOf, Epochs
  <1> QED
    BY <1>3 DEF Mail, MailOf

LEMMA VisitsKept ==
  ASSUME Visits, TypeInv', pc' = pc, todo' \subseteq todo, size' = size,
         \A k \in todo' \cap Slots :
            /\ slot'[k].alive = slot[k].alive /\ slot'[k].epoch = slot[k].epoch
            /\ proc'[slot[k].epoch].run = "up" => proc[slot[k].epoch].run = "up"
  PROVE  Visits'
  <1>1. todo' \subseteq Slots
    BY DEF TypeInv, TypeOK
  <1> QED
    BY <1>1 DEF Visits

(* Steps that start no process: workers stay what they are, or end. *)
LEMMA ProcessFrame ==
  ASSUME ProcessInv, LedgerInv', epochs' = epochs,
         \A k \in Slots :
           /\ slot'[k].epoch \in {slot[k].epoch, None}
           /\ slot'[k].alive => slot[k].alive /\ slot'[k].epoch = slot[k].epoch /\ k <= size'
           /\ Overtime(k)' => Overtime(k) \/ proc[slot[k].epoch].run # "up",
         \A e \in Epochs : Ages(e),
         \A n \in 1..Len(events') :
           (\E k \in 1..Len(events) : events'[n] = events[k]) \/ MailOf(events[n])',
         Visits', Tracked', CaughtUp'
  PROVE  ProcessInv'
  <1>1. TypeInv /\ TypeInv'
    BY DEF ProcessInv, LedgerInv
  <1>2. \A k \in Slots : slot[k].epoch \in 0..MaxEpochs
    BY <1>1, SlotTypes
  <1>3. Owners'
    <2>1. epochs \in Epochs /\ None <= epochs
      BY <1>1, PoolAssumption DEF TypeInv, TypeOK, Epochs, None
    <2>2. \A k \in Slots : slot'[k].epoch <= epochs'
      BY <2>1 DEF ProcessInv, Owners
    <2>3. \A k \in Slots : slot'[k].alive => slot'[k].epoch # None /\ k <= size'
      BY DEF ProcessInv, Owners
    <2>4. \A k, l \in Slots : k # l => slot'[k].epoch = None \/ slot'[k].epoch # slot'[l].epoch
      BY DEF ProcessInv, Owners
    <2>5. \A e \in Epochs : e > epochs' => proc'[e].run = "none"
      BY DEF ProcessInv, Owners, Ages
    <2> QED
      BY <2>2, <2>3, <2>4, <2>5 DEF Owners
  <1>4. Mail'
    <2>1. epochs <= epochs'
      BY <1>1 DEF TypeInv, TypeOK, Epochs
    <2>2. \A e \in Epochs : proc[e].run = "closed" => proc'[e].run = "closed"
      BY DEF Ages
    <2> QED
      BY <1>1, <2>1, <2>2, MailKept DEF ProcessInv
  <1>5. SilentDown'
    <2> SUFFICES ASSUME NEW k \in Slots, Overtime(k)'
                 PROVE  proc'[slot'[k].epoch].run # "up"
      BY DEF SilentDown
    <2>1. slot[k].alive /\ slot'[k].epoch = slot[k].epoch
      BY DEF Overtime
    <2>2. slot[k].epoch \in Epochs
      BY <1>1, <2>1, SlotTypes DEF ProcessInv, Owners
    <2>3. proc[slot[k].epoch].run # "up"
      BY DEF ProcessInv, SilentDown
    <2> QED
      BY <2>1, <2>2, <2>3 DEF Ages
  <1>6. PoolBounded'
    <2>1. Live' = {i \in Slots : slot'[i].alive} /\ Live = {i \in Slots : slot[i].alive}
      BY <1>1, <1>3, LiveIs, LiveWillBe DEF ProcessInv
    <2>2. Live' \subseteq Live
      BY <2>1
    <2>3. IsFiniteSet(Live) /\ Cardinality(Live) \in Nat
      BY <1>1, LiveFinite DEF WorkerCount
    <2>4. Cardinality(Live') <= Cardinality(Live) /\ Cardinality(Live') \in Nat
      BY <2>2, <2>3, FS_Subset, FS_CardinalityType
    <2>5. Cardinality(Live) <= PoolSize
      BY DEF ProcessInv, PoolBounded, WorkerCount
    <2> QED
      BY <2>3, <2>4, <2>5, PoolAssumption DEF PoolBounded, WorkerCount
  <1> QED
    BY <1>3, <1>4, <1>5, <1>6 DEF ProcessInv

(* Steps that start one: the slot had a worker, or there is room for it. *)
LEMMA ProcessStart ==
  ASSUME ProcessInv, LedgerInv', NEW i \in Slots, epochs' = epochs + 1,
         slot[i].alive \/ ~PoolFull,
         slot'[i].alive, slot'[i].epoch = epochs', slot'[i].inFlight = {},
         i <= size', size <= size',
         proc'[epochs'].docs = documents, documents' = documents,
         \A k \in Slots \ {i} : /\ slot'[k].epoch = slot[k].epoch
                                /\ slot'[k].alive = slot[k].alive
                                /\ Overtime(k)' => Overtime(k),
         \A e \in Epochs \ {epochs'} :
           Ages(e) /\ (proc'[e].run \in Running => proc'[e].docs = proc[e].docs),
         \A n \in 1..Len(events') :
           (\E k \in 1..Len(events) : events'[n] = events[k]) \/ MailOf(events[n])',
         Visits', Tracked'
  PROVE  ProcessInv'
  <1> DEFINE e == epochs'
  <1>1. TypeInv /\ TypeInv'
    BY DEF ProcessInv, LedgerInv
  <1>2. e \in Epochs /\ epochs \in Epochs /\ size \in Int /\ size' \in Int
    BY <1>1, PoolAssumption DEF TypeInv, TypeOK, Slots
  <1>3. \A k \in Slots : /\ slot[k].epoch \in 0..MaxEpochs
                         /\ slot[k].epoch # None => slot[k].epoch \in Epochs
    BY <1>1, SlotTypes
  <1>4. proc[e].run = "none" /\ \A k \in Slots : slot[k].epoch # e
    BY <1>2, <1>3 DEF ProcessInv, Owners, Epochs
  <1>5. Owners'
    <2>1. ASSUME NEW k \in Slots
          PROVE  slot'[k].epoch <= epochs' /\ (slot'[k].alive => slot'[k].epoch # None /\ k <= size')
      BY <1>2, <1>3 DEF ProcessInv, Owners, Epochs, Slots, None
    <2>2. ASSUME NEW k \in Slots, NEW l \in Slots, k # l
          PROVE  slot'[k].epoch = None \/ slot'[k].epoch # slot'[l].epoch
      BY <1>4, <2>2 DEF ProcessInv, Owners
    <2>3. ASSUME NEW f \in Epochs, f > epochs' PROVE proc'[f].run = "none"
      BY <1>2, <2>3 DEF ProcessInv, Owners, Ages, Epochs
    <2> QED
      BY <2>1, <2>2, <2>3 DEF Owners
  <1>6. Mail'
    <2>1. \A f \in Epochs : proc[f].run = "closed" => proc'[f].run = "closed"
      BY <1>4 DEF Ages
    <2>2. epochs <= epochs'
      BY <1>2 DEF Epochs
    <2> QED
      BY <1>1, <2>1, <2>2, MailKept DEF ProcessInv
  <1>7. SilentDown'
    <2> SUFFICES ASSUME NEW k \in Slots, Overtime(k)'
                 PROVE  proc'[slot'[k].epoch].run # "up"
      BY DEF SilentDown
    <2>1. k # i
      BY DEF Overtime
    <2>2. slot[k].alive /\ slot'[k].epoch = slot[k].epoch
      BY <2>1 DEF Overtime
    <2>3. slot[k].epoch \in Epochs \ {e}
      BY <1>3, <1>4, <2>2 DEF ProcessInv, Owners
    <2>4. proc[slot[k].epoch].run # "up"
      BY <2>1 DEF ProcessInv, SilentDown
    <2> QED
      BY <2>2, <2>3, <2>4 DEF Ages
  <1>8. Live' = Live \cup {i}
    <2>1. Live' = {k \in Slots : slot'[k].alive} /\ Live = {k \in Slots : slot[k].alive}
      BY <1>1, <1>5, LiveIs, LiveWillBe DEF ProcessInv
    <2> QED
      BY <2>1
  <1>9. CaughtUp'
    <2> SUFFICES ASSUME NEW k \in Live', proc'[slot'[k].epoch].run \in Running
                 PROVE  proc'[slot'[k].epoch].docs = documents
      BY DEF CaughtUp, Writable
    <2>1. CASE k = i
      BY <2>1
    <2>2. CASE k # i
      <3>1. k \in Live /\ k \in Slots
        BY <1>1, <1>8, <2>2, LiveIs DEF ProcessInv
      <3>2. slot[k].alive /\ slot'[k].epoch = slot[k].epoch
        BY <2>2, <3>1 DEF Live
      <3>3. slot[k].epoch \in Epochs \ {e}
        BY <1>3, <1>4, <3>1, <3>2 DEF ProcessInv, Owners
      <3>4. proc[slot[k].epoch].run \in Running /\ proc'[slot[k].epoch].docs = proc[slot[k].epoch].docs
        BY <3>2, <3>3 DEF Ages
      <3> QED
        BY <3>1, <3>2, <3>4 DEF ProcessInv, CaughtUp, Writable
    <2> QED
      BY <2>1, <2>2
  <1>10. PoolBounded'
    <2>1. IsFiniteSet(Live) /\ Cardinality(Live) \in Nat
      BY <1>1, LiveFinite DEF WorkerCount
    <2>2. Cardinality(Live) <= PoolSize
      BY DEF ProcessInv, PoolBounded, WorkerCount
    <2>3. CASE i \in Live
      <3>1. Live' = Live
        BY <1>8, <2>3
      <3> QED
        BY <2>2, <3>1 DEF PoolBounded, WorkerCount
    <2>4. CASE i \notin Live
      <3>1. ~(Cardinality(Live) >= PoolSize)
        BY <1>1, <2>4, LiveIs DEF PoolFull, WorkerCount, ProcessInv
      <3>2. Cardinality(Live') = Cardinality(Live) + 1
        BY <1>8, <2>1, <2>4, FS_AddElement
      <3> QED
        BY <2>1, <3>1, <3>2, PoolAssumption DEF PoolBounded, WorkerCount
    <2> QED
      BY <2>3, <2>4
  <1> QED
    BY <1>5, <1>6, <1>7, <1>9, <1>10 DEF ProcessInv

(* Steps that leave the documents alone. *)
LEMMA ProcessCalm ==
  ASSUME ProcessInv, LedgerInv', UNCHANGED <<epochs, documents>>,
         \A k \in Slots :
           /\ slot'[k].epoch \in {slot[k].epoch, None}
           /\ slot'[k].alive => slot[k].alive /\ slot'[k].epoch = slot[k].epoch /\ k <= size'
           /\ Overtime(k)' => Overtime(k) \/ proc[slot[k].epoch].run # "up",
         \A e \in Epochs : Ages(e) /\ (proc'[e].run \in Running => proc'[e].docs = proc[e].docs),
         \A n \in 1..Len(events') :
           (\E k \in 1..Len(events) : events'[n] = events[k]) \/ MailOf(events[n])',
         Visits', Tracked'
  PROVE  ProcessInv'
  <1>1. TypeInv /\ TypeInv'
    BY DEF ProcessInv, LedgerInv
  <1>2. CaughtUp'
    <2> SUFFICES ASSUME NEW k \in Live', proc'[slot'[k].epoch].run \in Running
                 PROVE  proc'[slot'[k].epoch].docs = documents
      BY DEF CaughtUp, Writable
    <2>1. k \in Slots /\ slot'[k].alive
      BY <1>1, PoolAssumption DEF Live, TypeInv, TypeOK, Slots
    <2>2. slot[k].alive /\ slot'[k].epoch = slot[k].epoch
      BY <2>1
    <2>3. k \in Live /\ slot[k].epoch \in Epochs
      BY <1>1, <2>1, <2>2, LiveIs, SlotTypes DEF ProcessInv, Owners
    <2>4. proc[slot[k].epoch].run \in Running /\ proc'[slot[k].epoch].docs = proc[slot[k].epoch].docs
      BY <2>2, <2>3 DEF Ages
    <2> QED
      BY <2>2, <2>3, <2>4 DEF ProcessInv, CaughtUp, Writable
  <1> QED
    BY <1>2, ProcessFrame

LEMMA TrackedKept ==
  ASSUME Tracked,
         \A q \in Questions :
           /\ status'[q] = "asked" =>
                status[q] = "asked" \/ \E i \in 1..size' : q \in slot'[i].asked
           /\ status[q] \in {"answered", "retired"} => status'[q] \in {"answered", "retired"},
         \A i \in 1..size : \A q \in slot[i].asked \cap Questions :
           status'[q] = "asked" => Served(q)' \/ \E k \in 1..size' : q \in slot'[k].asked
  PROVE  Tracked'
  BY DEF Tracked, Served

-----------------------------------------------------------------------------
(* What ends and starts a process. *)

LEMMA EndedEffect ==
  ASSUME TypeInv, NEW e
  PROVE  \A f \in Epochs :
           /\ f # e => Ended(e)[f] = proc[f]
           /\ f = e => /\ Ended(e)[f].run = IF proc[f].run = "closed" THEN "closed" ELSE "exited"
                       /\ Ended(e)[f].jobs = proc[f].jobs /\ Ended(e)[f].docs = proc[f].docs
                       /\ Ended(e)[f].region = proc[f].region
  <1>1. proc \in [Epochs -> ProcType]
    BY DEF TypeInv, TypeOK
  <1> SUFFICES ASSUME NEW f \in Epochs
               PROVE  /\ f # e => Ended(e)[f] = proc[f]
                      /\ f = e =>
                           /\ Ended(e)[f].run = IF proc[f].run = "closed" THEN "closed" ELSE "exited"
                           /\ Ended(e)[f].jobs = proc[f].jobs /\ Ended(e)[f].docs = proc[f].docs
                           /\ Ended(e)[f].region = proc[f].region
    OBVIOUS
  <1> DEFINE run == IF proc[f].run = "closed" THEN "closed" ELSE "exited"
  <1>2. f = e => Ended(e)[f] = [proc[f] EXCEPT !.run = run]
    BY <1>1 DEF Ended
  <1>3. f # e => Ended(e)[f] = proc[f]
    BY <1>1 DEF Ended
  <1> HIDE DEF run
  <1>4. f = e => /\ Ended(e)[f].run = run
                 /\ Ended(e)[f].jobs = proc[f].jobs /\ Ended(e)[f].docs = proc[f].docs
                 /\ Ended(e)[f].region = proc[f].region
    BY <1>1, <1>2 DEF ProcType
  <1> QED
    BY <1>3, <1>4 DEF run

LEMMA FreshIs ==
  ASSUME NEW e \in Epochs
  PROVE  /\ Fresh(e) \in SlotType /\ Fresh(e).epoch = e /\ Fresh(e).alive
         /\ Fresh(e).inFlight = {} /\ Fresh(e).asked = {} /\ ~Fresh(e).silent
  BY FreshType DEF Fresh, Vacant

LEMMA SpawnedIs ==
  ASSUME TypeInv, NEW i \in Slots, NEW qs \in SUBSET Questions
  PROVE  /\ Spawned(i, qs) \in ProcType
         /\ Spawned(i, qs).run = "up" /\ Spawned(i, qs).docs = documents
         /\ Spawned(i, qs).jobs = {}
  <1>1. Spawned(i, qs) \in ProcType
    BY SpawnedType DEF TypeInv
  <1> QED
    BY <1>1 DEF Spawned, NoProcess

(* The questions a slot had on its mind are on its mind still, dropped or   *)
(* at their end; no other step ends or forgets one.                         *)
Followed(s, i) ==
  \A q \in Questions :
    /\ status'[q] = "asked" => status[q] = "asked"
    /\ status[q] \in {"answered", "retired"} => status'[q] = status[q]
    /\ q \in s[i].asked /\ status'[q] = "asked" => q \in slot'[i].asked

LEMMA RespawnEffect ==
  ASSUME TypeInv, NEW s \in [Slots -> SlotType], NEW p \in [Epochs -> ProcType],
         NEW i \in Slots, NEW recent \in Nat, Respawn(s, p, i, recent)
  PROVE  /\ epochs' = epochs + 1 /\ epochs' \in Epochs
         /\ slot'[i].epoch = epochs' /\ slot'[i].alive /\ slot'[i].inFlight = {}
         /\ Followed(s, i) /\ ~slot'[i].silent
         /\ \A k \in Slots \ {i} : slot'[k] = s[k]
         /\ proc'[epochs'].docs = documents
         /\ proc'[epochs'].jobs = {}
         /\ \A e \in Epochs \ {epochs'} : proc'[e] = p[e]
  <1> DEFINE e == epochs + 1
  <1>1. epochs' = e /\ e \in Epochs
    BY PoolAssumption, SMTT(20) DEF TypeInv, TypeOK, Respawn, Epochs
  <1>2. PICK kept \in SUBSET Questions, run \in {"up", "exited"} :
          /\ Replayed(s, i, kept, run)
          /\ slot' = [s EXCEPT ![i] = [Fresh(e) EXCEPT !.asked = kept, !.recent = recent]]
          /\ proc' = [p EXCEPT ![e] = [Spawned(i, kept) EXCEPT !.run = run]]
    BY DEF Respawn
  <1> DEFINE now == [Fresh(e) EXCEPT !.asked = kept, !.recent = recent]
             r == [Spawned(i, kept) EXCEPT !.run = run]
  <1>3. slot' = [s EXCEPT ![i] = now] /\ proc' = [p EXCEPT ![e] = r]
    BY <1>2
  <1>4. /\ now.epoch = e /\ now.alive /\ now.inFlight = {} /\ now.asked = kept
        /\ ~now.silent
    BY <1>1, FreshIs DEF SlotType
  <1>5. r.docs = documents /\ r.jobs = {}
    <2>1. /\ Spawned(i, kept) \in ProcType
          /\ Spawned(i, kept).docs = documents /\ Spawned(i, kept).jobs = {}
      BY SpawnedIs
    <2> QED
      BY <2>1 DEF ProcType
  <1> HIDE DEF e, now, r
  <1>6. slot'[i] = now /\ \A k \in Slots \ {i} : slot'[k] = s[k]
    BY <1>3
  <1>7. proc'[e] = r /\ \A f \in Epochs \ {e} : proc'[f] = p[f]
    BY <1>1, <1>3
  <1>8. Followed(s, i)
    <2>1. status' = [q \in Questions |-> IF q \in s[i].asked \ kept /\ status[q] = "asked"
                                           THEN "dropped" ELSE status[q]]
      BY <1>2 DEF Replayed, Replay
    <2>2. slot'[i].asked = kept
      BY <1>4, <1>6
    <2> QED
      BY <2>1, <2>2 DEF Followed
  <1> QED
    BY <1>1, <1>4, <1>5, <1>6, <1>7, <1>8 DEF e

(* A killed worker is given up or replaced; its questions stay with its *)
(* slot, but for those its replacement died before being asked.             *)
LEMMA KillEffect ==
  ASSUME TypeInv, Owners, NEW s \in [Slots -> SlotType], NEW i \in Slots, Placed(s, proc),
         Kill(s, i)
  PROVE  /\ \A k \in Slots \ {i} : slot'[k] = s[k]
         /\ slot'[i].inFlight = {} /\ Followed(s, i)
         /\ \/ /\ epochs' = epochs
               /\ ~slot'[i].alive /\ slot'[i].epoch = s[i].epoch
               /\ \A e \in Epochs : Ages(e) /\ Content(e)
            \/ /\ epochs' = epochs + 1 /\ epochs' \in Epochs
               /\ slot'[i].alive /\ slot'[i].epoch = epochs'
               /\ proc'[epochs'].docs = documents
               /\ proc'[epochs'].jobs = {}
               /\ \A e \in Epochs \ {epochs'} : Ages(e) /\ Content(e)
         /\ \A e \in Epochs \ {epochs', s[i].epoch} : proc'[e] = proc[e]
  <1> DEFINE old == s[i].epoch
  <1>1. s[i].recent \in Nat
    BY DEF SlotType
  <1>2. PICK recent \in 1..(s[i].recent + 1) :
          \/ /\ slot' = GaveUp(s, i, recent)
             /\ proc' = Ended(old)
             /\ epochs' = epochs /\ status' = status
          \/ Respawn(s, Ended(old), i, recent)
    BY DEF Kill
  <1>3. recent \in Nat
    BY <1>1
  <1>4. \A e \in Epochs :
          /\ e # old => Ended(old)[e] = proc[e]
          /\ e = old => /\ Ended(old)[e].run = IF proc[e].run = "closed" THEN "closed" ELSE "exited"
                        /\ Ended(old)[e].jobs = proc[e].jobs /\ Ended(old)[e].docs = proc[e].docs
                        /\ Ended(old)[e].region = proc[e].region
    BY EndedEffect
  <1>5. old \in Epochs => proc[old].run # "none"
    BY DEF Placed
  <1>6. \A e \in Epochs : proc'[e] = Ended(old)[e] => Ages(e) /\ Content(e)
    BY <1>4, <1>5 DEF Ages, Content, Running
  <1>7. CASE /\ slot' = GaveUp(s, i, recent) /\ proc' = Ended(old)
             /\ epochs' = epochs /\ status' = status
    <2>1. Followed(s, i)
      <3> DEFINE now == [s[i] EXCEPT !.alive = FALSE, !.inFlight = {}, !.recent = recent,
                                     !.backoff = "waiting"]
      <3>1. slot' = [s EXCEPT ![i] = now] /\ now.asked = s[i].asked
        BY <1>7 DEF GaveUp, SlotType
      <3> HIDE DEF now
      <3> QED
        BY <1>7, <3>1 DEF Followed
    <2> QED
      BY <1>3, <1>4, <1>6, <1>7, <2>1, GaveUpSlot
  <1>8. CASE Respawn(s, Ended(old), i, recent)
    <2>1. Ended(old) \in [Epochs -> ProcType]
      BY EndedProc
    <2>2. /\ epochs' = epochs + 1 /\ epochs' \in Epochs
          /\ slot'[i].epoch = epochs' /\ slot'[i].alive /\ slot'[i].inFlight = {}
          /\ Followed(s, i)
          /\ \A k \in Slots \ {i} : slot'[k] = s[k]
          /\ proc'[epochs'].docs = documents
          /\ proc'[epochs'].jobs = {}
          /\ \A e \in Epochs \ {epochs'} : proc'[e] = Ended(old)[e]
      BY <1>3, <1>8, <2>1, RespawnEffect
    <2>3. \A e \in Epochs \ {epochs'} : Ages(e) /\ Content(e)
      BY <1>6, <2>2
    <2>4. \A e \in Epochs \ {epochs', old} : proc'[e] = proc[e]
      BY <1>4, <2>2
    <2> QED
      BY <2>2, <2>3, <2>4
  <1> QED
    BY <1>2, <1>7, <1>8

(* What a message does to the slots: it is proof of life of its own. *)
LEMMA HeardEffect ==
  ASSUME TypeInv, NEW m \in MessageType
  PROVE  /\ Heard(m) \in [Slots -> SlotType] /\ m.at \in Slots
         /\ \A k \in Slots \ {m.at} : Heard(m)[k] = slot[k]
         /\ ~Heard(m)[m.at].silent
         /\ Heard(m)[m.at].asked =
              IF m.kind = "Answer" THEN {q \in slot[m.at].asked : Topic[q] # Topic[m.what]}
                                   ELSE slot[m.at].asked
         /\ Heard(m)[m.at].recent = slot[m.at].recent
  <1> DEFINE asked == IF m.kind = "Answer" THEN {q \in slot[m.at].asked : Topic[q] # Topic[m.what]}
                                           ELSE slot[m.at].asked
             now == [slot[m.at] EXCEPT !.silent = FALSE, !.asked = asked]
  <1>1. slot \in [Slots -> SlotType] /\ m.at \in Slots
    BY MessageKind DEF TypeInv, TypeOK
  <1>2. Heard(m) = [slot EXCEPT ![m.at] = now]
    BY <1>1 DEF Heard
  <1>3. ~now.silent /\ now.asked = asked /\ now.recent = slot[m.at].recent
    BY <1>1 DEF SlotType
  <1>4. Heard(m) \in [Slots -> SlotType]
    BY HeardSlot
  <1> HIDE DEF now
  <1>5. Heard(m)[m.at] = now /\ \A k \in Slots \ {m.at} : Heard(m)[k] = slot[k]
    BY <1>1, <1>2
  <1> QED
    BY <1>1, <1>3, <1>4, <1>5

LEMMA FinishedEffect ==
  ASSUME NEW s \in [Slots -> SlotType], NEW i \in Slots, NEW j
  PROVE  \A k \in Slots : /\ Finished(s, i, j)[k].silent = s[k].silent
                          /\ Finished(s, i, j)[k].asked = s[k].asked
  <1> DEFINE now == [s[i] EXCEPT !.inFlight = @ \ {j}]
  <1>1. Finished(s, i, j) = [s EXCEPT ![i] = now]
    BY DEF Finished
  <1>2. now.silent = s[i].silent /\ now.asked = s[i].asked
    BY DEF SlotType
  <1> HIDE DEF now
  <1> QED
    BY <1>1, <1>2

LEMMA MessageSlots ==
  ASSUME TypeInv, NEW m \in MessageType,
         slot' = Heard(m) \/ slot' = Finished(Heard(m), m.at, m.what)
  PROVE  \A k \in Slots :
           /\ slot'[k].epoch = slot[k].epoch /\ slot'[k].alive = slot[k].alive
           /\ slot'[k].inFlight \subseteq slot[k].inFlight
           /\ slot'[k].silent => slot[k].silent
           /\ slot'[k].asked = IF k = m.at /\ m.kind = "Answer"
                                  THEN {q \in slot[k].asked : Topic[q] # Topic[m.what]}
                                  ELSE slot[k].asked
  <1> DEFINE heard == Heard(m)
  <1>1. heard \in [Slots -> SlotType] /\ m.at \in Slots
    BY HeardEffect
  <1>2. \A k \in Slots : /\ heard[k].epoch = slot[k].epoch /\ heard[k].alive = slot[k].alive
                         /\ heard[k].inFlight = slot[k].inFlight
                         /\ heard[k].silent => slot[k].silent
                         /\ heard[k].asked = IF k = m.at /\ m.kind = "Answer"
                              THEN {q \in slot[k].asked : Topic[q] # Topic[m.what]}
                              ELSE slot[k].asked
    BY HeardSlot, HeardEffect
  <1> HIDE DEF heard
  <1>3. ASSUME slot' = Finished(heard, m.at, m.what)
        PROVE  \A k \in Slots :
                 /\ slot'[k].epoch = heard[k].epoch /\ slot'[k].alive = heard[k].alive
                 /\ slot'[k].inFlight \subseteq heard[k].inFlight
                 /\ slot'[k].silent = heard[k].silent /\ slot'[k].asked = heard[k].asked
    BY <1>1, <1>3, FinishedSlot, FinishedEffect
  <1> QED
    BY <1>2, <1>3 DEF heard

-----------------------------------------------------------------------------
(* The steps of a pump. *)

LEMMA ProcessKill ==
  ASSUME ProcessInv, LedgerInv', NEW s \in [Slots -> SlotType], NEW i \in Slots,
         Placed(s, proc), Kill(s, i), slot[i].alive,
         \A k \in Slots : /\ s[k].epoch = slot[k].epoch /\ s[k].alive = slot[k].alive
                          /\ s[k].inFlight = slot[k].inFlight /\ s[k].asked = slot[k].asked
                          /\ s[k].silent => slot[k].silent,
         UNCHANGED <<documents, size>>,
         \A n \in 1..Len(events') : \E k \in 1..Len(events) : events'[n] = events[k],
         Visits'
  PROVE  ProcessInv'
  <1>1. TypeInv /\ Owners
    BY DEF ProcessInv, LedgerInv
  <1>2. /\ \A k \in Slots \ {i} : slot'[k] = s[k]
        /\ slot'[i].inFlight = {} /\ Followed(s, i)
        /\ \/ /\ epochs' = epochs
              /\ ~slot'[i].alive /\ slot'[i].epoch = s[i].epoch
              /\ \A e \in Epochs : Ages(e) /\ Content(e)
           \/ /\ epochs' = epochs + 1 /\ epochs' \in Epochs
              /\ slot'[i].alive /\ slot'[i].epoch = epochs'
              /\ proc'[epochs'].docs = documents
              /\ proc'[epochs'].jobs = {}
              /\ \A e \in Epochs \ {epochs'} : Ages(e) /\ Content(e)
    BY <1>1, KillEffect
  <1>3. ASSUME NEW k \in Slots, NEW q \in slot[k].asked \cap Questions, status'[q] = "asked"
        PROVE  q \in slot'[k].asked
    BY <1>2, <1>3 DEF Followed
  <1>4. Tracked'
    <2>1. 1..size \subseteq Slots
      BY <1>1, SizeSlots
    <2> QED
      BY <1>2, <1>3, <2>1, TrackedKept DEF ProcessInv, Followed
  <1>5. \A k \in Slots \ {i} : /\ slot'[k].epoch = slot[k].epoch
                               /\ slot'[k].alive = slot[k].alive
                               /\ Overtime(k)' => Overtime(k)
    BY <1>2 DEF Overtime
  <1>6. i <= size
    BY <1>1 DEF Owners
  <1>7. CASE /\ epochs' = epochs
             /\ ~slot'[i].alive /\ slot'[i].epoch = s[i].epoch
             /\ \A e \in Epochs : Ages(e) /\ Content(e)
    <2>1. \A k \in Slots :
            /\ slot'[k].epoch \in {slot[k].epoch, None}
            /\ slot'[k].alive => slot[k].alive /\ slot'[k].epoch = slot[k].epoch /\ k <= size'
            /\ Overtime(k)' => Overtime(k) \/ proc[slot[k].epoch].run # "up"
      <3>1. slot'[i].epoch = slot[i].epoch /\ ~slot'[i].alive /\ ~Overtime(i)'
        BY <1>7 DEF Overtime
      <3>2. \A k \in Slots : slot[k].alive => k <= size'
        BY <1>1 DEF Owners
      <3> SUFFICES ASSUME NEW k \in Slots
                   PROVE  /\ slot'[k].epoch \in {slot[k].epoch, None}
                          /\ slot'[k].alive =>
                               slot[k].alive /\ slot'[k].epoch = slot[k].epoch /\ k <= size'
                          /\ Overtime(k)' => Overtime(k) \/ proc[slot[k].epoch].run # "up"
        OBVIOUS
      <3>3. CASE k = i
        BY <3>1, <3>3
      <3>4. CASE k # i
        BY <1>5, <3>2, <3>4 DEF Overtime
      <3> QED
        BY <3>3, <3>4
    <2>2. \A e \in Epochs : Ages(e) /\ (proc'[e].run \in Running => proc'[e].docs = proc[e].docs)
      BY <1>7 DEF Content
    <2> QED
      BY <1>4, <1>7, <2>1, <2>2, ProcessCalm
  <1>8. CASE /\ epochs' = epochs + 1 /\ epochs' \in Epochs
             /\ slot'[i].alive /\ slot'[i].epoch = epochs'
             /\ proc'[epochs'].docs = documents
             /\ proc'[epochs'].jobs = {}
             /\ \A e \in Epochs \ {epochs'} : Ages(e) /\ Content(e)
    <2>1. size <= size'
      BY <1>1, PoolAssumption DEF TypeInv, TypeOK, Slots
    <2>2. \A e \in Epochs \ {epochs'} :
            Ages(e) /\ (proc'[e].run \in Running => proc'[e].docs = proc[e].docs)
      BY <1>8 DEF Content
    <2> QED
      BY <1>2, <1>4, <1>5, <1>6, <1>8, <2>1, <2>2, ProcessStart
  <1> QED
    BY <1>2, <1>7, <1>8

(* Steps that touch no worker and no process. *)
LEMMA ProcessSame ==
  ASSUME ProcessInv, LedgerInv', UNCHANGED <<slot, size, epochs, documents, proc, events, status>>,
         Visits'
  PROVE  ProcessInv'
  <1>1. \A e \in Epochs : Ages(e)
    BY DEF Ages
  <1>2. Tracked'
    BY TrackedKept DEF ProcessInv
  <1>3. \A k \in Slots : /\ slot'[k].alive => k <= size'
                         /\ Overtime(k)' => Overtime(k)
    BY DEF Overtime, ProcessInv, Owners
  <1> QED
    BY <1>1, <1>2, <1>3, ProcessCalm

LEMMA ProcessPhase ==
  ASSUME ProcessInv, LedgerInv', PumpStart \/ DrainEnd \/ KillEnd \/ RetryEnd \/ RetireEnd
  PROVE  ProcessInv'
  <1>1. UNCHANGED <<slot, size, epochs, documents, proc, events, status>>
    BY DEF PumpStart, DrainEnd, KillEnd, RetryEnd, RetireEnd, app
  <1>2. CASE DrainEnd
    <2>1. \A i \in Doomed : slot[i].alive /\ proc[slot[i].epoch].run # "up"
      <3> SUFFICES ASSUME NEW i \in Doomed PROVE slot[i].alive /\ proc[slot[i].epoch].run # "up"
        OBVIOUS
      <3>1. i \in Slots /\ slot[i].alive
        BY SizeSlots DEF Doomed, Live, ProcessInv, LedgerInv
      <3> QED
        BY <3>1 DEF Doomed, Overdue, Overtime, ProcessInv, SilentDown
    <2>2. Visits'
      BY <1>1, <1>2, <2>1 DEF DrainEnd, Visits
    <2> QED
      BY <1>1, <2>2, ProcessSame
  <1>3. CASE PumpStart \/ KillEnd \/ RetryEnd \/ RetireEnd
    <2>1. Visits'
      BY <1>1, <1>3 DEF PumpStart, KillEnd, RetryEnd, RetireEnd, Visits
    <2> QED
      BY <1>1, <2>1, ProcessSame
  <1> QED
    BY <1>2, <1>3

LEMMA ProcessHandleMessage ==
  ASSUME ProcessInv, LedgerInv', HandleMessage PROVE ProcessInv'
  <1> DEFINE m == Head(events)
             heard == Heard(m)
  <1>1. /\ TypeInv /\ m \in MessageType /\ Len(events) \in Nat
        /\ \A n \in 1..Len(events') : \E k \in 1..Len(events) : events'[n] = events[k]
    <2>1. events \in Seq(MessageType) /\ events # <<>> /\ events' = Tail(events) /\ TypeInv
      BY DEF HandleMessage, ProcessInv, LedgerInv, TypeInv, TypeOK
    <2>2. Len(events') = Len(events) - 1 /\ \A n \in 1..Len(events') : events'[n] = events[n + 1]
      BY <2>1
    <2> QED
      BY <2>1, <2>2
  <1>2. Visits' /\ UNCHANGED <<size, documents>>
    BY DEF HandleMessage, Visits
  <1>3. 1..size \subseteq Slots
    BY <1>1, SizeSlots
  <1>4. ASSUME slot' \in {slot, heard, Finished(heard, m.at, m.what)}, UNCHANGED <<epochs, proc>>,
               \/ UNCHANGED status /\ (m.kind # "Answer" \/ UNCHANGED slot)
               \/ m.kind = "Answer" /\ status' = [status EXCEPT ![m.what] = "answered"]
        PROVE  ProcessInv'
    <2>1. \A k \in Slots :
            /\ slot'[k].epoch = slot[k].epoch /\ slot'[k].alive = slot[k].alive
            /\ slot'[k].inFlight \subseteq slot[k].inFlight
            /\ slot'[k].silent => slot[k].silent
            /\ \/ slot'[k].asked = slot[k].asked
               \/ /\ m.kind = "Answer" /\ ~UNCHANGED slot
                  /\ slot'[k].asked = {q \in slot[k].asked : Topic[q] # Topic[m.what]}
      BY <1>1, <1>4, MessageSlots, ZenonT(40)
    <2>2. Tracked'
      <3>1. CASE UNCHANGED status /\ (m.kind # "Answer" \/ UNCHANGED slot)
        <4>1. \A k \in Slots : slot'[k].asked = slot[k].asked
          BY <2>1, <3>1
        <4> QED
          BY <1>2, <1>3, <3>1, <4>1, TrackedKept DEF ProcessInv
      <3>2. CASE m.kind = "Answer" /\ status' = [status EXCEPT ![m.what] = "answered"]
        <4>1. m.what \in Questions /\ DOMAIN status = Questions
          BY <1>1, <3>2, MessageKind DEF TypeInv, TypeOK
        <4>2. status'[m.what] = "answered" /\ \A q \in Questions \ {m.what} : status'[q] = status[q]
          BY <3>2, <4>1
        <4> HIDE DEF m
        <4>3. ASSUME NEW i \in 1..size, NEW q \in slot[i].asked \cap Questions, status'[q] = "asked"
              PROVE  Served(q)' \/ \E k \in 1..size' : q \in slot'[k].asked
          <5>1. q # m.what
            BY <4>2, <4>3
          <5>2. CASE Topic[q] = Topic[m.what]
            <6>1. m.what \in Questions \ {q} /\ Topic[m.what] = Topic[q] /\ status'[m.what] = "answered"
              BY <4>1, <4>2, <5>1, <5>2
            <6> QED
              BY <6>1 DEF Served
          <5>3. CASE Topic[q] # Topic[m.what]
            BY <1>2, <1>3, <2>1, <4>3, <5>3
          <5> QED
            BY <5>2, <5>3
        <4>4. \A q \in Questions :
                /\ status'[q] = "asked" => status[q] = "asked"
                /\ status[q] \in {"answered", "retired"} => status'[q] \in {"answered", "retired"}
          BY <4>2
        <4> QED
          BY <4>3, <4>4, TrackedKept DEF ProcessInv
      <3> QED
        BY <1>4, <3>1, <3>2
    <2>3. \A e \in Epochs : Ages(e) /\ (proc'[e].run \in Running => proc'[e].docs = proc[e].docs)
      BY <1>4 DEF Ages
    <2>4. \A k \in Slots :
            /\ slot'[k].epoch \in {slot[k].epoch, None}
            /\ slot'[k].alive => slot[k].alive /\ slot'[k].epoch = slot[k].epoch /\ k <= size'
            /\ Overtime(k)' => Overtime(k)
      BY <1>2, <2>1 DEF Overtime, ProcessInv, Owners
    <2> HIDE DEF m, heard
    <2> QED
      BY <1>1, <1>2, <1>4, <2>2, <2>3, <2>4, ProcessCalm
  <1>5. ASSUME Kill(heard, m.at), slot[m.at].alive, m.kind = "Died"
        PROVE  ProcessInv'
    <2>1. /\ heard \in [Slots -> SlotType] /\ m.at \in Slots
          /\ \A k \in Slots : /\ heard[k].epoch = slot[k].epoch /\ heard[k].alive = slot[k].alive
                              /\ heard[k].inFlight = slot[k].inFlight
                              /\ heard[k].asked = slot[k].asked
                              /\ heard[k].silent => slot[k].silent
      BY <1>1, <1>5, HeardSlot, HeardEffect
    <2> HIDE DEF m, heard
    <2>2. Placed(heard, proc)
      BY <1>1, <2>1 DEF TypeInv, Placed
    <2>3. UNCHANGED <<documents, size>>
      BY <1>2, <1>5
    <2> QED
      BY <1>1, <1>2, <1>5, <2>1, <2>2, <2>3, ProcessKill
  <1> QED
    BY <1>4, <1>5
       DEF HandleMessage, HandleRendered, HandleFailed, HandleCancelled, HandleOpened, HandleAnswer,
           app

LEMMA ProcessKillDoomed ==
  ASSUME ProcessInv, LedgerInv', NEW i \in Slots, KillDoomed(i) PROVE ProcessInv'
  <1>1. /\ Kill(slot, i) /\ pc = "kill" /\ pc' = pc /\ i \in todo /\ todo' = todo \ {i}
        /\ UNCHANGED <<documents, size, events>>
    BY DEF KillDoomed, First
  <1>2. TypeInv /\ Owners /\ slot \in [Slots -> SlotType] /\ Placed(slot, proc)
    BY DEF ProcessInv, LedgerInv, TypeInv, TypeOK
  <1>3. slot[i].alive
    BY <1>1 DEF ProcessInv, Visits
  <1>4. /\ \A k \in Slots \ {i} : slot'[k] = slot[k]
        /\ \A e \in Epochs \ {epochs', slot[i].epoch} : proc'[e] = proc[e]
        /\ epochs' \in {epochs, epochs + 1}
    BY <1>1, <1>2, KillEffect
  <1>5. Visits'
    <2>1. ASSUME NEW k \in todo' \cap Slots
          PROVE  /\ slot'[k].alive = slot[k].alive /\ slot'[k].epoch = slot[k].epoch
                 /\ proc'[slot[k].epoch].run = "up" => proc[slot[k].epoch].run = "up"
      <3>1. k # i /\ slot[k].alive
        BY <1>1 DEF ProcessInv, Visits
      <3>2. /\ slot[k].epoch \in Epochs /\ slot[k].epoch # slot[i].epoch
            /\ slot[k].epoch <= epochs
        BY <1>2, <3>1, SlotTypes DEF Owners
      <3>3. slot[k].epoch # epochs' \/ epochs' = epochs
        BY <1>2, <1>4, <3>2 DEF TypeInv, TypeOK, Epochs
      <3>4. CASE slot[k].epoch # epochs'
        BY <1>4, <3>1, <3>2, <3>4
      <3>5. CASE epochs' = epochs
        <4>0. epochs \in Int
          BY <1>2 DEF TypeInv, TypeOK, Epochs
        <4>1. \A e \in Epochs : Ages(e)
          BY <1>1, <1>2, <3>5, <4>0, KillEffect
        <4> QED
          BY <1>4, <3>1, <3>2, <4>1 DEF Ages
      <3> QED
        BY <3>3, <3>4, <3>5
    <2> QED
      BY <1>1, <2>1, VisitsKept DEF ProcessInv, LedgerInv
  <1> QED
    BY <1>1, <1>2, <1>3, <1>5, ProcessKill

LEMMA ProcessRetryBackoff ==
  ASSUME ProcessInv, LedgerInv', NEW i \in Slots, RetryBackoff(i) PROVE ProcessInv'
  <1>1. /\ pc = "retry" /\ pc' = pc /\ i \in todo /\ todo' \subseteq todo
        /\ UNCHANGED <<documents, size, events>>
    BY DEF RetryBackoff, First
  <1>2. /\ TypeInv /\ Owners /\ slot \in [Slots -> SlotType] /\ proc \in [Epochs -> ProcType]
        /\ slot[i].recent \in Nat /\ 1..size \subseteq Slots
    BY SizeSlots DEF ProcessInv, LedgerInv, TypeInv, TypeOK, SlotType
  <1>3. ~slot[i].alive /\ i <= size
    BY <1>1 DEF ProcessInv, LedgerInv, RetryDead, Visits
  <1>4. Visits'
    BY <1>1 DEF ProcessInv, Visits
  <1>5. CASE UNCHANGED <<slot, epochs, proc, status>>
    BY <1>1, <1>4, <1>5, ProcessSame
  <1>6. CASE ~PoolFull /\ Respawn(slot, proc, i, slot[i].recent)
    <2>1. /\ epochs' = epochs + 1 /\ epochs' \in Epochs
          /\ slot'[i].epoch = epochs' /\ slot'[i].alive /\ slot'[i].inFlight = {}
          /\ Followed(slot, i)
          /\ \A k \in Slots \ {i} : slot'[k] = slot[k]
          /\ proc'[epochs'].docs = documents
          /\ \A e \in Epochs \ {epochs'} : proc'[e] = proc[e]
      BY <1>2, <1>6, RespawnEffect
    <2>2. ASSUME NEW k \in Slots, NEW q \in slot[k].asked \cap Questions, status'[q] = "asked"
          PROVE  q \in slot'[k].asked
      BY <2>1, <2>2 DEF Followed
    <2>3. Tracked'
      BY <1>1, <1>2, <2>1, <2>2, TrackedKept DEF ProcessInv, Followed
    <2>4. size <= size' /\ i <= size'
      BY <1>1, <1>2, <1>3, PoolAssumption DEF TypeInv, TypeOK, Slots
    <2>5. \A k \in Slots \ {i} : /\ slot'[k].epoch = slot[k].epoch
                                 /\ slot'[k].alive = slot[k].alive
                                 /\ Overtime(k)' => Overtime(k)
      BY <2>1 DEF Overtime
    <2>6. \A e \in Epochs \ {epochs'} :
            Ages(e) /\ (proc'[e].run \in Running => proc'[e].docs = proc[e].docs)
      BY <2>1 DEF Ages
    <2> QED
      BY <1>1, <1>4, <1>6, <2>1, <2>3, <2>4, <2>5, <2>6, ProcessStart
  <1>7. CASE slot' = [slot EXCEPT ![i].backoff = "waiting"] /\ UNCHANGED <<epochs, proc, status>>
    <2> DEFINE now == [slot[i] EXCEPT !.backoff = "waiting"]
    <2>1. /\ slot' = [slot EXCEPT ![i] = now]
          /\ now.epoch = slot[i].epoch /\ now.alive = slot[i].alive /\ now.silent = slot[i].silent
          /\ now.asked = slot[i].asked /\ now.inFlight = slot[i].inFlight
      BY <1>2, <1>7 DEF SlotType
    <2> HIDE DEF now
    <2>2. \A k \in Slots : /\ slot'[k].epoch = slot[k].epoch /\ slot'[k].alive = slot[k].alive
                           /\ slot'[k].asked = slot[k].asked
                           /\ Overtime(k)' <=> Overtime(k)
      BY <1>2, <2>1 DEF Overtime
    <2>3. Tracked'
      BY <1>1, <1>2, <1>7, <2>2, TrackedKept DEF ProcessInv
    <2>4. \A e \in Epochs : Ages(e)
      BY <1>7 DEF Ages
    <2>5. \A k \in Slots : /\ slot'[k].alive => slot[k].alive /\ k <= size'
                           /\ Overtime(k)' => Overtime(k)
      BY <1>1, <2>2 DEF ProcessInv, Owners
    <2> QED
      BY <1>1, <1>4, <1>7, <2>2, <2>3, <2>4, <2>5, ProcessCalm
  <1> QED
    BY <1>5, <1>6, <1>7 DEF RetryBackoff

LEMMA ProcessRetire == ASSUME ProcessInv, LedgerInv', Retire PROVE ProcessInv'
  <1>1. /\ slot' = [slot EXCEPT ![size] = Vacant] /\ size' = size - 1
        /\ pc' = "retire"
        /\ UNCHANGED <<epochs, documents, events>>
        /\ proc' = proc \/ proc' = Ended(slot[size].epoch)
        /\ status' = [q \in Questions |-> IF q \in slot[size].asked THEN "retired" ELSE status[q]]
    BY DEF Retire, RetireGivenUp, RetireIdle
  <1>2. TypeInv /\ Owners /\ slot \in [Slots -> SlotType] /\ size \in Slots /\ Placed(slot, proc)
    BY DEF ProcessInv, LedgerInv, TypeInv, TypeOK
  <1>3. /\ slot'[size].epoch = None /\ ~slot'[size].alive
        /\ \A k \in Slots \ {size} : slot'[k] = slot[k]
    BY <1>1, <1>2 DEF Vacant
  <1>4. \A k \in Slots : k <= size /\ k # size => k <= size'
    BY <1>1, <1>2, PoolAssumption DEF Slots
  <1>5. \A k \in Slots :
          /\ slot'[k].epoch \in {slot[k].epoch, None}
          /\ slot'[k].alive => slot[k].alive /\ slot'[k].epoch = slot[k].epoch /\ k <= size'
          /\ Overtime(k)' => Overtime(k)
    BY <1>2, <1>3, <1>4 DEF Owners, Overtime
  <1>6. \A e \in Epochs : Ages(e) /\ proc'[e].docs = proc[e].docs
    <2>1. CASE proc' = proc
      BY <2>1 DEF Ages
    <2>2. CASE proc' = Ended(slot[size].epoch)
      BY <1>2, <2>2, EndedEffect DEF Ages, Placed, Running
    <2> QED
      BY <1>1, <2>1, <2>2
  <1>7. Visits'
    BY <1>1 DEF Visits
  <1>8. Tracked'
    <2>1. 1..size \subseteq Slots /\ \A k \in 1..size : k # size => k \in 1..size'
      BY <1>1, <1>2, SizeSlots, PoolAssumption DEF Slots
    <2>2. ASSUME NEW k \in 1..size, NEW q \in slot[k].asked \cap Questions, status'[q] = "asked"
          PROVE  \E l \in 1..size' : q \in slot'[l].asked
      <3>1. k # size
        BY <1>1, <2>2
      <3> QED
        BY <1>3, <2>1, <2>2, <3>1
    <2>3. \A q \in Questions :
            /\ status'[q] = "asked" => status[q] = "asked"
            /\ status[q] \in {"answered", "retired"} => status'[q] \in {"answered", "retired"}
      BY <1>1
    <2> QED
      BY <2>2, <2>3, TrackedKept DEF ProcessInv
  <1> QED
    BY <1>1, <1>5, <1>6, <1>7, <1>8, ProcessCalm

(* A job handed over clears the silence of a worker that was idle. *)
LEMMA ProcessDispatch ==
  ASSUME ProcessInv, LedgerInv', NEW j \in Jobs, NEW i \in Slots, Dispatch(j, i)
  PROVE  ProcessInv'
  <1> DEFINE silent == IF slot[i].inFlight = {} THEN FALSE ELSE slot[i].silent
             now == [slot[i] EXCEPT !.inFlight = @ \cup {j}, !.silent = silent]
  <1>1. /\ TypeInv /\ Owners /\ slot \in [Slots -> SlotType] /\ proc \in [Epochs -> ProcType]
        /\ 1..size \subseteq Slots
    BY SizeSlots DEF ProcessInv, LedgerInv, TypeInv, TypeOK
  <1>2. /\ slot' = [slot EXCEPT ![i] = now]
        /\ proc' = [proc EXCEPT ![slot[i].epoch].jobs = @ \cup {j}]
        /\ UNCHANGED <<pc, todo, size, epochs, documents, events, status>> /\ Dispatching
    BY DEF Dispatch, app
  <1>3. silent \in BOOLEAN
    BY <1>1 DEF SlotType
  <1>4. silent => slot[i].silent /\ slot[i].inFlight # {}
    OBVIOUS
  <1> HIDE DEF silent
  <1>5. /\ now.epoch = slot[i].epoch /\ now.alive = slot[i].alive /\ now.asked = slot[i].asked
        /\ now.silent = silent
    BY <1>1, <1>3 DEF SlotType
  <1> HIDE DEF now
  <1>6. slot'[i] = now /\ \A k \in Slots \ {i} : slot'[k] = slot[k]
    BY <1>1, <1>2
  <1>7. \A k \in Slots : /\ slot'[k].epoch = slot[k].epoch /\ slot'[k].alive = slot[k].alive
                         /\ slot'[k].asked = slot[k].asked
                         /\ Overtime(k)' => Overtime(k)
    BY <1>4, <1>5, <1>6 DEF Overtime
  <1>8. ASSUME NEW e \in Epochs PROVE proc'[e].run = proc[e].run /\ proc'[e].docs = proc[e].docs
    <2>1. proc'[e] = proc[e] \/ proc'[e] = [proc[e] EXCEPT !.jobs = @ \cup {j}]
      BY <1>1, <1>2
    <2> QED
      BY <1>1, <2>1 DEF ProcType
  <1>9. Tracked'
    BY <1>1, <1>2, <1>7, TrackedKept DEF ProcessInv
  <1>10. Visits'
    BY <1>2 DEF Visits, Dispatching
  <1>11. \A k \in Slots : slot'[k].alive => k <= size'
    BY <1>2, <1>7 DEF ProcessInv, Owners
  <1>12. \A e \in Epochs : Ages(e) /\ proc'[e].docs = proc[e].docs
    BY <1>8 DEF Ages
  <1> QED
    BY <1>2, <1>7, <1>9, <1>10, <1>11, <1>12, ProcessCalm

LEMMA ProcessDispatchEnd ==
  ASSUME ProcessInv, LedgerInv', DispatchEnd \/ \E j \in Jobs : DispatchUnsized(j)
  PROVE  ProcessInv'
  <1>1. /\ UNCHANGED <<slot, size, epochs, documents, proc, events, status>>
        /\ pc' \notin {"kill", "retry"}
    BY DEF DispatchEnd, DispatchUnsized, Dispatching, app
  <1>2. Visits'
    BY <1>1 DEF Visits
  <1> QED
    BY <1>1, <1>2, ProcessSame

(* The pool grows into a slot that has no worker, and only while it may. *)
LEMMA ProcessGrow == ASSUME ProcessInv, LedgerInv', Grow PROVE ProcessInv'
  <1> DEFINE i == size + 1
             e == epochs + 1
  <1>1. /\ TypeInv /\ Owners /\ slot \in [Slots -> SlotType] /\ proc \in [Epochs -> ProcType]
        /\ 1..size \subseteq Slots
    BY SizeSlots DEF ProcessInv, LedgerInv, TypeInv, TypeOK
  <1>2. /\ slot' = [slot EXCEPT ![i] = Fresh(e)] /\ size' = i /\ epochs' = e
        /\ proc' = [proc EXCEPT ![e] = Spawned(i, {})]
        /\ ~PoolFull /\ Dispatching
        /\ UNCHANGED <<pc, todo, documents, events, status>>
    BY DEF Grow, app
  <1>3. i \in Slots /\ e \in Epochs /\ i \notin 1..size /\ size <= i /\ i <= i
        /\ 1..size \subseteq 1..i
    BY <1>1, PoolAssumption DEF Grow, TypeInv, TypeOK, Slots, Epochs
  <1>4. /\ Fresh(e).epoch = e /\ Fresh(e).alive /\ Fresh(e).inFlight = {}
        /\ Spawned(i, {}).run = "up" /\ Spawned(i, {}).docs = documents
    BY <1>1, <1>3, FreshIs, SpawnedIs
  <1> HIDE DEF i, e
  <1>5. slot'[i] = Fresh(e) /\ \A k \in Slots \ {i} : slot'[k] = slot[k]
    BY <1>1, <1>2, <1>3
  <1>6. proc'[e] = Spawned(i, {}) /\ \A f \in Epochs \ {e} : proc'[f] = proc[f]
    BY <1>1, <1>2, <1>3
  <1>7. \A k \in Slots \ {i} : /\ slot'[k].epoch = slot[k].epoch
                               /\ slot'[k].alive = slot[k].alive
                               /\ Overtime(k)' => Overtime(k)
    BY <1>5 DEF Overtime
  <1>8. \A f \in Epochs \ {e} : Ages(f) /\ proc'[f].docs = proc[f].docs
    BY <1>6 DEF Ages
  <1>9. Tracked'
    <2>1. \A k \in 1..size : k \in 1..size' /\ slot'[k] = slot[k]
      BY <1>1, <1>2, <1>3, <1>5
    <2> QED
      BY <1>2, <2>1, TrackedKept DEF ProcessInv
  <1>10. Visits'
    BY <1>2 DEF Visits, Dispatching
  <1>11. epochs' = epochs + 1 /\ i <= size' /\ size <= size'
    BY <1>2, <1>3 DEF e
  <1> QED
    BY <1>2, <1>3, <1>4, <1>5, <1>6, <1>7, <1>8, <1>9, <1>10, <1>11, ProcessStart

-----------------------------------------------------------------------------
(* The application's calls. *)

LEMMA ProcessRender ==
  ASSUME ProcessInv, LedgerInv',
         \/ \E j \in Jobs : Submit(j) \/ CancelRender(j)
         \/ \E g \in 1..MaxFloor : Invalidate(g)
  PROVE  ProcessInv'
  <1>1. /\ UNCHANGED <<slot, size, epochs, documents, events, status>>
        /\ pc' \notin {"kill", "retry"}
    BY DEF Submit, CancelRender, Invalidate
  <1>2. ASSUME NEW e \in Epochs PROVE proc'[e].run = proc[e].run /\ proc'[e].docs = proc[e].docs
    <2>1. proc[e] \in ProcType
      BY DEF ProcessInv, LedgerInv, TypeInv, TypeOK
    <2>2. \/ proc'[e] = proc[e]
          \/ \E told : proc'[e] = [proc[e] EXCEPT !.stoppable = told]
      BY DEF Submit, CancelRender, Invalidate
    <2> QED
      BY <2>1, <2>2 DEF ProcType
  <1>3. Visits' /\ \A e \in Epochs : Ages(e) /\ proc'[e].docs = proc[e].docs
    BY <1>1, <1>2 DEF Visits, Ages
  <1>4. Tracked'
    BY <1>1, TrackedKept DEF ProcessInv
  <1>5. \A k \in Slots : /\ slot'[k].alive => k <= size'
                         /\ Overtime(k)' => Overtime(k)
    BY <1>1 DEF Overtime, ProcessInv, Owners
  <1> QED
    BY <1>1, <1>3, <1>4, <1>5, ProcessCalm

LEMMA ProcessAsk == ASSUME ProcessInv, LedgerInv', NEW q \in Questions, Ask(q) PROVE ProcessInv'
  <1>1. /\ TypeInv /\ Owners /\ slot \in [Slots -> SlotType] /\ proc \in [Epochs -> ProcType]
        /\ 1..size \subseteq Slots
    BY SizeSlots DEF ProcessInv, LedgerInv, TypeInv, TypeOK
  <1>2. /\ UNCHANGED <<size, epochs, documents, events>> /\ pc' \notin {"kill", "retry"}
        /\ status[q] = "new" /\ DOMAIN status = Questions
    BY <1>1 DEF Ask, TypeInv, TypeOK
  <1>3. Visits'
    BY <1>2 DEF Visits
  <1>4. ASSUME NEW i \in Live,
               slot' = [slot EXCEPT ![i].asked = @ \cup {q}],
               proc' = [proc EXCEPT ![slot[i].epoch].asks = @ \cup {q}],
               status' = [status EXCEPT ![q] = "asked"]
        PROVE  ProcessInv'
    <2> DEFINE now == [slot[i] EXCEPT !.asked = @ \cup {q}]
    <2>1. i \in Slots /\ i \in 1..size /\ slot' = [slot EXCEPT ![i] = now]
      BY <1>1, <1>4 DEF Live
    <2>2. /\ now.epoch = slot[i].epoch /\ now.alive = slot[i].alive /\ now.silent = slot[i].silent
          /\ now.inFlight = slot[i].inFlight /\ now.asked = slot[i].asked \cup {q}
      BY <1>1, <2>1 DEF SlotType
    <2> HIDE DEF now
    <2>3. slot'[i] = now /\ \A k \in Slots \ {i} : slot'[k] = slot[k]
      BY <1>1, <2>1
    <2>4. \A k \in Slots : /\ slot'[k].epoch = slot[k].epoch /\ slot'[k].alive = slot[k].alive
                           /\ slot[k].asked \subseteq slot'[k].asked
                           /\ Overtime(k)' => Overtime(k)
      BY <2>2, <2>3 DEF Overtime
    <2>5. ASSUME NEW e \in Epochs PROVE proc'[e].run = proc[e].run /\ proc'[e].docs = proc[e].docs
      <3>1. proc'[e] = proc[e] \/ proc'[e] = [proc[e] EXCEPT !.asks = @ \cup {q}]
        BY <1>1, <1>4
      <3> QED
        BY <1>1, <3>1 DEF ProcType
    <2>6. Tracked'
      <3>1. status'[q] = "asked" /\ \A r \in Questions \ {q} : status'[r] = status[r]
        BY <1>2, <1>4
      <3>2. q \in slot'[i].asked
        BY <2>2, <2>3
      <3>3. \A k \in 1..size : \A r \in slot[k].asked : r \in slot'[k].asked
        BY <1>1, <2>4
      <3> QED
        BY <1>2, <2>1, <3>1, <3>2, <3>3, TrackedKept DEF ProcessInv
    <2>7. \A k \in Slots : slot'[k].alive => k <= size'
      BY <1>2, <2>4 DEF ProcessInv, Owners
    <2>8. \A e \in Epochs : Ages(e) /\ proc'[e].docs = proc[e].docs
      BY <2>5 DEF Ages
    <2> QED
      BY <1>2, <1>3, <2>4, <2>6, <2>7, <2>8, ProcessCalm
  <1>5. CASE status' = [status EXCEPT ![q] = "unheard"] /\ UNCHANGED <<slot, proc>>
    <2>1. Tracked'
      BY <1>2, <1>5, TrackedKept DEF ProcessInv
    <2>2. \A k \in Slots : /\ slot'[k].alive => k <= size'
                           /\ Overtime(k)' => Overtime(k)
      BY <1>2, <1>5 DEF Overtime, ProcessInv, Owners
    <2>3. \A e \in Epochs : Ages(e)
      BY <1>5 DEF Ages
    <2> QED
      BY <1>2, <1>3, <1>5, <2>1, <2>2, <2>3, ProcessCalm
  <1> QED
    BY <1>4, <1>5 DEF Ask

(* Every worker that runs hears of an open and of a close. *)
LEMMA ProcessDocuments ==
  ASSUME ProcessInv, LedgerInv', NEW d \in Docs, Open(d) \/ Close(d) PROVE ProcessInv'
  <1>1. /\ UNCHANGED <<slot, size, epochs, events, status>> /\ pc' \notin {"kill", "retry"}
    BY DEF Open, Close
  <1>2. TypeInv /\ Owners /\ proc \in [Epochs -> ProcType]
    BY DEF ProcessInv, LedgerInv, TypeInv, TypeOK
  <1>3. ASSUME NEW e \in Epochs
        PROVE  /\ proc'[e].run = proc[e].run
               /\ e \in Hearing /\ proc[e].docs = documents => proc'[e].docs = documents'
    <2>1. CASE Open(d)
      <3>1. /\ documents' = documents \cup {d}
            /\ proc'[e] = IF e \in Hearing
                 THEN [proc[e] EXCEPT !.docs = @ \cup {d}, !.opening[d] = @ + 1] ELSE proc[e]
        BY <2>1 DEF Open
      <3>2. CASE e \in Hearing
        <4> DEFINE opening == [proc[e].opening EXCEPT ![d] = @ + 1]
        <4>1. proc'[e] = [proc[e] EXCEPT !.docs = @ \cup {d}, !.opening = opening]
          BY <3>1, <3>2
        <4> HIDE DEF opening
        <4>2. proc'[e].run = proc[e].run /\ proc'[e].docs = proc[e].docs \cup {d}
          BY <1>2, <4>1 DEF ProcType
        <4> QED
          BY <3>1, <4>2
      <3>3. CASE e \notin Hearing
        BY <3>1, <3>3
      <3> QED
        BY <3>2, <3>3
    <2>2. CASE Close(d)
      <3>1. /\ documents' = documents \ {d}
            /\ proc'[e] = IF e \in Hearing THEN [proc[e] EXCEPT !.docs = @ \ {d}] ELSE proc[e]
        BY <2>2 DEF Close
      <3> QED
        BY <1>2, <3>1 DEF ProcType
    <2> QED
      BY <2>1, <2>2
  <1>4. Visits' /\ \A e \in Epochs : Ages(e)
    BY <1>1, <1>3 DEF Visits, Ages
  <1>5. Tracked'
    BY <1>1, TrackedKept DEF ProcessInv
  <1>6. CaughtUp'
    <2> SUFFICES ASSUME NEW k \in Live', proc'[slot'[k].epoch].run \in Running
                 PROVE  proc'[slot'[k].epoch].docs = documents'
      BY DEF CaughtUp, Writable
    <2>1. k \in Live /\ k \in Slots /\ slot[k].alive
      BY <1>1, <1>2, SizeSlots DEF Live
    <2>2. slot[k].epoch \in Epochs
      BY <1>2, <2>1, SlotTypes DEF Owners
    <2>3. proc[slot[k].epoch].run \in Running
      BY <1>1, <1>3, <2>2
    <2>4. slot[k].epoch \in Hearing /\ proc[slot[k].epoch].docs = documents
      BY <2>1, <2>3 DEF Hearing, Writable, ProcessInv, CaughtUp
    <2> QED
      BY <1>1, <1>3, <2>2, <2>4
  <1>7. \A k \in Slots : /\ slot'[k].alive => k <= size'
                         /\ Overtime(k)' => Overtime(k)
    BY <1>1 DEF Overtime, ProcessInv, Owners
  <1> QED
    BY <1>1, <1>4, <1>5, <1>6, <1>7, ProcessFrame

-----------------------------------------------------------------------------
(* The processes, and time. *)

(* A reply changes what its own process holds, and nothing else about it. *)
LEMMA ReplyEffect ==
  ASSUME TypeInv, NEW e \in Epochs, Process(e)
  PROVE  /\ proc[e].run # "none" /\ proc'[e].run # "none"
         /\ \A f \in Epochs \ {e} : proc'[f] = proc[f]
         /\ \E m : /\ events' = Append(events, m) /\ m.epoch = e
                   /\ m.kind = "Died" => proc'[e].run = "closed"
         /\ \/ proc'[e].run = proc[e].run /\ proc'[e].docs = proc[e].docs
            \/ proc[e].run = "exited" /\ proc'[e].run = "closed"
  <1>1. proc \in [Epochs -> ProcType] /\ proc[e] \in ProcType
    BY DEF TypeInv, TypeOK
  <1> DEFINE m(kind, what) == [at |-> proc[e].at, epoch |-> e, kind |-> kind, what |-> what]
  <1>2. ASSUME NEW now, proc' = [proc EXCEPT ![e] = now], proc[e].run # "none",
               NEW kind, NEW what, Send(e, kind, what),
               \/ now.run = proc[e].run /\ now.docs = proc[e].docs /\ kind # "Died"
               \/ proc[e].run = "exited" /\ now.run = "closed"
        PROVE  /\ proc[e].run # "none" /\ proc'[e].run # "none"
               /\ \A f \in Epochs \ {e} : proc'[f] = proc[f]
               /\ \E n : /\ events' = Append(events, n) /\ n.epoch = e
                         /\ n.kind = "Died" => proc'[e].run = "closed"
               /\ \/ proc'[e].run = proc[e].run /\ proc'[e].docs = proc[e].docs
                  \/ proc[e].run = "exited" /\ proc'[e].run = "closed"
    <2>1. proc'[e] = now /\ \A f \in Epochs \ {e} : proc'[f] = proc[f]
      BY <1>1, <1>2
    <2>2. /\ events' = Append(events, m(kind, what))
          /\ m(kind, what).epoch = e /\ m(kind, what).kind = kind
      BY <1>2 DEF Send
    <2> HIDE DEF m
    <2>3. m(kind, what).kind = "Died" => proc'[e].run = "closed"
      BY <1>2, <2>1, <2>2
    <2> QED
      BY <1>2, <2>1, <2>2, <2>3
  <1>3. ASSUME NEW j \in Jobs, NEW kind \in RenderAnswers, ReplyJob(e, j, kind)
        PROVE  \E now : /\ proc' = [proc EXCEPT ![e] = now]
                        /\ now.run = proc[e].run /\ now.docs = proc[e].docs
    <2> DEFINE region == IF Inline(j) THEN proc[e].region ELSE j
               now == [proc[e] EXCEPT !.jobs = @ \ {j}, !.stoppable = @ \ {j}, !.region = region]
    <2>1. proc' = [proc EXCEPT ![e] = now]
      BY <1>3 DEF ReplyJob
    <2> HIDE DEF region
    <2>2. now.run = proc[e].run /\ now.docs = proc[e].docs
      BY <1>1 DEF ProcType
    <2> QED
      BY <2>1, <2>2
  <1>4. CASE \E j \in Jobs, kind \in RenderAnswers : ReplyJob(e, j, kind)
    <2>1. PICK j \in Jobs, kind \in RenderAnswers : ReplyJob(e, j, kind)
      BY <1>4
    <2>2. kind # "Died" /\ proc[e].run # "none" /\ Send(e, kind, j)
      BY <2>1 DEF ReplyJob, Speaking, RenderAnswers
    <2> QED
      BY <1>2, <1>3, <2>1, <2>2
  <1>5. CASE \E q \in Questions : ReplyQuestion(e, q)
    <2>1. PICK q \in Questions : ReplyQuestion(e, q)
      BY <1>5
    <2> DEFINE now == [proc[e] EXCEPT !.asks = @ \ {q}]
    <2>2. /\ proc' = [proc EXCEPT ![e] = now] /\ proc[e].run # "none" /\ Send(e, "Answer", q)
          /\ now.run = proc[e].run /\ now.docs = proc[e].docs
      BY <1>1, <2>1 DEF ReplyQuestion, Speaking, ProcType
    <2> HIDE DEF now
    <2> QED
      BY <1>2, <2>2
  <1>6. CASE \E d \in Docs : ReplyOpen(e, d)
    <2>1. PICK d \in Docs : ReplyOpen(e, d)
      BY <1>6
    <2> DEFINE opening == [proc[e].opening EXCEPT ![d] = @ - 1]
               now == [proc[e] EXCEPT !.opening = opening]
    <2>2. /\ proc' = [proc EXCEPT ![e] = now] /\ proc[e].run # "none" /\ Send(e, "Opened", d)
      BY <2>1 DEF ReplyOpen, Speaking
    <2> HIDE DEF opening
    <2>3. now.run = proc[e].run /\ now.docs = proc[e].docs
      BY <1>1 DEF ProcType
    <2> HIDE DEF now
    <2> QED
      BY <1>2, <2>2, <2>3
  <1>7. CASE ReaderEnd(e)
    <2> DEFINE now == [NoProcess EXCEPT !.run = "closed", !.at = proc[e].at, !.region = proc[e].region]
    <2>1. /\ proc' = [proc EXCEPT ![e] = now] /\ proc[e].run = "exited" /\ Send(e, "Died", None)
          /\ now.run = "closed"
      BY <1>7 DEF ReaderEnd, NoProcess
    <2> HIDE DEF now
    <2> QED
      BY <1>2, <2>1
  <1> QED
    BY <1>4, <1>5, <1>6, <1>7 DEF Process

(* Steps of a process: the workers stay, and its process goes on. *)
LEMMA ProcessOn ==
  ASSUME ProcessInv, LedgerInv', UNCHANGED <<super, app>>, NEW e \in Epochs,
         proc[e].run # "none", proc'[e].run # "none",
         \A f \in Epochs \ {e} : proc'[f] = proc[f],
         Ages(e), proc'[e].run \in Running => proc'[e].docs = proc[e].docs,
         \/ UNCHANGED events
         \/ \E m : /\ events' = Append(events, m) /\ m.epoch = e
                   /\ m.kind = "Died" => proc'[e].run = "closed"
  PROVE  ProcessInv'
  <1>1. /\ UNCHANGED <<pc, todo, slot, size, epochs, documents, status>>
        /\ TypeInv /\ Owners /\ events \in Seq(MessageType)
    BY DEF super, app, ProcessInv, LedgerInv, TypeInv, TypeOK
  <1>2. e <= epochs
    BY <1>1 DEF Owners, Epochs, TypeInv, TypeOK
  <1>3. ASSUME NEW n \in 1..Len(events')
        PROVE  (\E k \in 1..Len(events) : events'[n] = events[k]) \/ MailOf(events[n])'
    <2>1. CASE UNCHANGED events
      BY <2>1
    <2>2. ASSUME NEW m, events' = Append(events, m), m.epoch = e,
                 m.kind = "Died" => proc'[e].run = "closed"
          PROVE  (\E k \in 1..Len(events) : events'[n] = events[k]) \/ MailOf(events[n])'
      <3>1. Len(events') = Len(events) + 1 /\ Len(events) \in Nat
        BY <1>1, <2>2
      <3>2. CASE n \in 1..Len(events)
        BY <1>1, <2>2, <3>2
      <3>3. CASE n = Len(events) + 1
        <4>1. events'[n] = m
          BY <1>1, <2>2, <3>3
        <4> QED
          BY <1>1, <1>2, <2>2, <4>1 DEF MailOf
      <3> QED
        BY <3>1, <3>2, <3>3
    <2> QED
      BY <2>1, <2>2
  <1>4. \A f \in Epochs : Ages(f) /\ (proc'[f].run \in Running => proc'[f].docs = proc[f].docs)
    BY DEF Ages
  <1>5. \A k \in Slots : slot[k].alive => slot[k].epoch \in Epochs
    BY <1>1, SlotTypes DEF Owners
  <1>6. Visits'
    BY <1>1, <1>4, <1>5 DEF Visits, ProcessInv, Ages, TypeInv, TypeOK
  <1>7. Tracked'
    BY <1>1, TrackedKept DEF ProcessInv
  <1>8. \A k \in Slots : /\ slot'[k].alive => k <= size'
                         /\ Overtime(k)' => Overtime(k)
    BY <1>1 DEF Overtime, Owners
  <1> QED
    BY <1>1, <1>3, <1>4, <1>6, <1>7, <1>8, ProcessCalm

LEMMA ProcessSteps ==
  ASSUME ProcessInv, LedgerInv', NEW e \in Epochs, Process(e) \/ Crash(e) \/ Hang(e) \/ Resume(e)
  PROVE  ProcessInv'
  <1>1. UNCHANGED <<super, app>>
    BY DEF Process, Crash, Hang, Resume
  <1>2. TypeInv /\ proc \in [Epochs -> ProcType]
    BY DEF ProcessInv, LedgerInv, TypeInv, TypeOK
  <1>3. CASE Process(e)
    <2>1. /\ proc[e].run # "none" /\ proc'[e].run # "none"
          /\ \A f \in Epochs \ {e} : proc'[f] = proc[f]
          /\ \E m : /\ events' = Append(events, m) /\ m.epoch = e
                    /\ m.kind = "Died" => proc'[e].run = "closed"
          /\ \/ proc'[e].run = proc[e].run /\ proc'[e].docs = proc[e].docs
             \/ proc[e].run = "exited" /\ proc'[e].run = "closed"
      BY <1>2, <1>3, ReplyEffect
    <2>2. Ages(e) /\ (proc'[e].run \in Running => proc'[e].docs = proc[e].docs)
      BY <2>1 DEF Ages, Running
    <2> QED
      BY <1>1, <2>1, <2>2, ProcessOn
  <1>4. ASSUME NEW run \in {"exited", "hung", "late"}, proc' = [proc EXCEPT ![e].run = run],
               UNCHANGED events, proc[e].run \in Running
        PROVE  ProcessInv'
    <2>1. proc'[e] = [proc[e] EXCEPT !.run = run] /\ \A f \in Epochs \ {e} : proc'[f] = proc[f]
      BY <1>2, <1>4
    <2>2. proc'[e].run = run /\ proc'[e].docs = proc[e].docs
      BY <1>2, <2>1 DEF ProcType
    <2>3. Ages(e) /\ proc[e].run # "none" /\ proc'[e].run # "none"
      BY <1>4, <2>2 DEF Ages, Running
    <2> QED
      BY <1>1, <1>4, <2>1, <2>2, <2>3, ProcessOn
  <1> QED
    BY <1>3, <1>4 DEF Crash, Hang, Resume, Running

(* Silence only outlasts the deadline of a worker that is idle or hangs. *)
LEMMA ProcessTime ==
  ASSUME ProcessInv, LedgerInv', NEW i \in Slots, SilencePasses(i) \/ BackoffPasses(i)
  PROVE  ProcessInv'
  <1>1. /\ TypeInv /\ slot \in [Slots -> SlotType] /\ slot[i] \in SlotType /\ 1..size \subseteq Slots
        /\ UNCHANGED <<pc, todo, size, epochs, documents, proc, events, status>>
    BY SizeSlots DEF ProcessInv, LedgerInv, TypeInv, TypeOK, SilencePasses, BackoffPasses, app
  <1>2. PICK now :
          /\ slot' = [slot EXCEPT ![i] = now]
          /\ now.epoch = slot[i].epoch /\ now.alive = slot[i].alive
          /\ now.inFlight = slot[i].inFlight /\ now.asked = slot[i].asked
          /\ \/ now.silent = slot[i].silent
             \/ slot[i].inFlight = {} \/ proc[slot[i].epoch].run = "hung"
    <2>1. CASE SilencePasses(i)
      <3> DEFINE now == [slot[i] EXCEPT !.silent = TRUE]
      <3>1. /\ slot' = [slot EXCEPT ![i] = now]
            /\ slot[i].inFlight = {} \/ proc[slot[i].epoch].run = "hung"
            /\ now.epoch = slot[i].epoch /\ now.alive = slot[i].alive
            /\ now.inFlight = slot[i].inFlight /\ now.asked = slot[i].asked
        BY <1>1, <2>1 DEF SilencePasses, SlotType
      <3> HIDE DEF now
      <3> QED
        BY <3>1
    <2>2. CASE BackoffPasses(i)
      <3> DEFINE now == [slot[i] EXCEPT !.backoff = "due"]
      <3>1. /\ slot' = [slot EXCEPT ![i] = now] /\ now.silent = slot[i].silent
            /\ now.epoch = slot[i].epoch /\ now.alive = slot[i].alive
            /\ now.inFlight = slot[i].inFlight /\ now.asked = slot[i].asked
        BY <1>1, <2>2 DEF BackoffPasses, SlotType
      <3> HIDE DEF now
      <3> QED
        BY <3>1
    <2> QED
      BY <2>1, <2>2
  <1>3. slot'[i] = now /\ \A k \in Slots \ {i} : slot'[k] = slot[k]
    BY <1>1, <1>2
  <1>4. \A k \in Slots :
          /\ slot'[k].epoch = slot[k].epoch /\ slot'[k].alive = slot[k].alive
          /\ slot'[k].asked = slot[k].asked
          /\ Overtime(k)' => Overtime(k) \/ proc[slot[k].epoch].run # "up"
    BY <1>2, <1>3 DEF Overtime
  <1>5. Tracked'
    BY <1>1, <1>4, TrackedKept DEF ProcessInv
  <1>6. Visits'
    BY <1>1, <1>4, VisitsKept DEF ProcessInv, LedgerInv
  <1>7. \A e \in Epochs : Ages(e)
    BY <1>1 DEF Ages
  <1>8. \A k \in Slots : slot'[k].alive => k <= size'
    BY <1>1, <1>4 DEF ProcessInv, Owners
  <1> QED
    BY <1>1, <1>4, <1>5, <1>6, <1>7, <1>8, ProcessCalm

-----------------------------------------------------------------------------
LEMMA ProcessNext == ProcessInv /\ [Next]_vars => ProcessInv'
  <1> SUFFICES ASSUME ProcessInv, [Next]_vars PROVE ProcessInv'
    OBVIOUS
  <1>0. LedgerInv'
    BY LedgerNext DEF ProcessInv
  <1>1. CASE Pump
    BY <1>0, <1>1, ProcessPhase, ProcessHandleMessage, ProcessRetire, ProcessKillDoomed,
       ProcessRetryBackoff, ProcessDispatch, ProcessGrow, ProcessDispatchEnd DEF Pump
  <1>2. CASE Application
    BY <1>0, <1>2, ProcessRender, ProcessAsk, ProcessDocuments DEF Application
  <1>3. CASE Environment
    BY <1>0, <1>3, ProcessSteps, ProcessTime DEF Environment
  <1>4. CASE UNCHANGED vars
    <2>1. UNCHANGED <<pc, todo, slot, size, epochs, documents, proc, events, status>>
      BY <1>4 DEF vars, super, app
    <2>2. Visits'
      BY <2>1 DEF ProcessInv, Visits
    <2> QED
      BY <1>0, <2>1, <2>2, ProcessSame
  <1> QED
    BY <1>1, <1>2, <1>3, <1>4 DEF Next

LEMMA ProcessCorrect == Spec => []ProcessInv
  BY ProcessInit, ProcessNext, PTL DEF Spec

-----------------------------------------------------------------------------
(* What a step does to a worker that is alive. *)

(* It keeps its process, or the process did not run as it should, or it was  *)
(* the last worker and had nothing to do.                                    *)
Spared(i) == \/ slot'[i].epoch = slot[i].epoch /\ slot'[i].alive
             \/ proc[slot[i].epoch].run # "up"
             \/ i = size /\ size' = i - 1 /\ slot[i].inFlight = {}

LEMMA SparedPump ==
  ASSUME ProcessInv, Pump, NEW i \in Live PROVE Spared(i)
  <1>1. /\ TypeInv /\ Owners /\ slot \in [Slots -> SlotType] /\ size \in Slots
        /\ Placed(slot, proc) /\ proc \in [Epochs -> ProcType]
        /\ i \in Slots /\ i <= size /\ slot[i].alive
    <2>1. TypeInv /\ Owners
      BY DEF ProcessInv, LedgerInv
    <2>2. i \in Slots /\ i <= size /\ slot[i].alive
      BY <2>1, SizeSlots DEF Live
    <2> QED
      BY <2>1, <2>2 DEF TypeInv, TypeOK
  <1>2. CASE UNCHANGED slot
    BY <1>1, <1>2 DEF Spared
  <1>3. CASE HandleMessage
    <2> DEFINE m == Head(events)
               heard == Heard(m)
    <2>1. m \in MessageType /\ events[1] = m /\ 1 \in 1..Len(events)
      BY <1>1, <1>3 DEF HandleMessage, TypeInv, TypeOK
    <2>2. CASE slot' = heard \/ slot' = Finished(heard, m.at, m.what)
      BY <1>1, <2>1, <2>2, MessageSlots DEF Spared
    <2>3. CASE Current(m) /\ m.kind = "Died" /\ Kill(heard, m.at)
      <3>1. proc[m.epoch].run = "closed" /\ slot[m.at].epoch = m.epoch
        BY <2>1, <2>3 DEF ProcessInv, Mail, MailOf, Current
      <3>2. /\ heard \in [Slots -> SlotType] /\ m.at \in Slots
            /\ \A k \in Slots \ {m.at} : heard[k] = slot[k]
            /\ \A k \in Slots : heard[k].epoch = slot[k].epoch
        BY <1>1, <2>1, HeardEffect, HeardSlot
      <3> HIDE DEF m, heard
      <3>3. Placed(heard, proc)
        BY <1>1, <3>2 DEF Placed
      <3>4. \A k \in Slots \ {m.at} : slot'[k] = heard[k]
        BY <1>1, <2>3, <3>2, <3>3, KillEffect
      <3>5. CASE i = m.at
        BY <3>1, <3>5 DEF Spared
      <3>6. CASE i # m.at
        BY <1>1, <3>2, <3>4, <3>6 DEF Spared
      <3> QED
        BY <3>5, <3>6
    <2> QED
      BY <1>2, <1>3, <2>2, <2>3
         DEF HandleMessage, HandleRendered, HandleFailed, HandleCancelled, HandleOpened, HandleAnswer
  <1>4. ASSUME NEW k \in Slots, KillDoomed(k) PROVE Spared(i)
    <2>1. Kill(slot, k) /\ proc[slot[k].epoch].run # "up"
      BY <1>4 DEF KillDoomed, First, ProcessInv, Visits
    <2>2. \A l \in Slots \ {k} : slot'[l] = slot[l]
      BY <1>1, <2>1, KillEffect
    <2>3. CASE i = k
      BY <2>1, <2>3 DEF Spared
    <2>4. CASE i # k
      BY <1>1, <2>2, <2>4 DEF Spared
    <2> QED
      BY <2>3, <2>4
  <1>5. ASSUME NEW k \in Slots, RetryBackoff(k) PROVE Spared(i)
    <2>1. i # k /\ slot[k].recent \in Nat
      BY <1>1, <1>5 DEF RetryBackoff, First, ProcessInv, LedgerInv, RetryDead, SlotType
    <2>2. slot'[i] = slot[i]
      BY <1>1, <1>5, <2>1, RespawnEffect DEF RetryBackoff
    <2> QED
      BY <1>1, <2>2 DEF Spared
  <1>6. CASE Retire
    <2>1. slot' = [slot EXCEPT ![size] = Vacant] /\ size' = size - 1
      BY <1>6 DEF Retire, RetireGivenUp, RetireIdle
    <2>2. CASE i = size
      BY <1>1, <1>6, <2>1, <2>2 DEF Retire, RetireGivenUp, RetireIdle, Retirable, Spared
    <2>3. CASE i # size
      BY <1>1, <2>1, <2>3 DEF Spared
    <2> QED
      BY <2>2, <2>3
  <1>7. ASSUME NEW j \in Jobs, NEW k \in Slots, Dispatch(j, k) PROVE Spared(i)
    BY <1>1, <1>7, DispatchSlot DEF Spared
  <1>8. CASE Grow
    <2>1. slot' = [slot EXCEPT ![size + 1] = Fresh(epochs + 1)] /\ i # size + 1
      BY <1>1, <1>8, PoolAssumption DEF Grow, Slots
    <2> QED
      BY <1>1, <2>1 DEF Spared
  <1> QED
    BY <1>2, <1>3, <1>4, <1>5, <1>6, <1>7, <1>8
       DEF Pump, PumpStart, DrainEnd, KillEnd, RetryEnd, RetireEnd, DispatchUnsized, DispatchEnd

LEMMA SparedElse ==
  ASSUME ProcessInv, Application \/ Environment, NEW i \in Live PROVE Spared(i)
  <1>1. /\ slot \in [Slots -> SlotType] /\ i \in Slots /\ slot[i].alive /\ 1..size \subseteq Slots
    BY SizeSlots DEF ProcessInv, LedgerInv, TypeInv, TypeOK, Live
  <1>2. ASSUME NEW k \in Slots, NEW now, slot' = [slot EXCEPT ![k] = now],
               now.epoch = slot[k].epoch, now.alive = slot[k].alive
        PROVE  Spared(i)
    BY <1>1, <1>2 DEF Spared
  <1>3. CASE UNCHANGED slot
    BY <1>1, <1>3 DEF Spared
  <1>4. ASSUME NEW q \in Questions, Ask(q), ~UNCHANGED slot PROVE Spared(i)
    <2>1. PICK k \in Slots : slot' = [slot EXCEPT ![k].asked = @ \cup {q}]
      BY <1>1, <1>4 DEF Ask, Live
    <2> DEFINE now == [slot[k] EXCEPT !.asked = @ \cup {q}]
    <2>2. /\ slot' = [slot EXCEPT ![k] = now]
          /\ now.epoch = slot[k].epoch /\ now.alive = slot[k].alive
      BY <1>1, <2>1 DEF SlotType
    <2> HIDE DEF now
    <2> QED
      BY <1>2, <2>2
  <1>5. ASSUME NEW k \in Slots, SilencePasses(k) PROVE Spared(i)
    <2> DEFINE now == [slot[k] EXCEPT !.silent = TRUE]
    <2>1. /\ slot' = [slot EXCEPT ![k] = now]
          /\ now.epoch = slot[k].epoch /\ now.alive = slot[k].alive
      BY <1>1, <1>5 DEF SlotType, SilencePasses
    <2> HIDE DEF now
    <2> QED
      BY <1>2, <2>1
  <1>6. ASSUME NEW k \in Slots, BackoffPasses(k) PROVE Spared(i)
    <2> DEFINE now == [slot[k] EXCEPT !.backoff = "due"]
    <2>1. /\ slot' = [slot EXCEPT ![k] = now]
          /\ now.epoch = slot[k].epoch /\ now.alive = slot[k].alive
      BY <1>1, <1>6 DEF SlotType, BackoffPasses
    <2> HIDE DEF now
    <2> QED
      BY <1>2, <2>1
  <1>7. CASE Application
    BY <1>3, <1>4, <1>7 DEF Application, Submit, CancelRender, Invalidate, Open, Close
  <1>8. CASE Environment
    BY <1>3, <1>5, <1>6, <1>8 DEF Environment, Process, Crash, Hang, Resume, super
  <1> QED
    BY <1>7, <1>8

-----------------------------------------------------------------------------
(* A worker is only ever killed for what its own process did: it ended, or   *)
(* it hung while it held work.  A late message of a replaced process and a   *)
(* spell of idleness never take down a healthy worker (handle,               *)
(* enforce_deadlines, reap, retire_idle).                                    *)
THEOREM OnlyTheGuiltyDie == Spec => NoInnocentKill
  <1>1. ProcessInv /\ [Next]_vars => [\A i \in Live : Spared(i)]_vars
    BY SparedPump, SparedElse DEF Next
  <1>2. ProcessInv /\ [Next]_vars =>
          [\A i \in Live : (slot'[i].epoch = slot[i].epoch /\ slot'[i].alive)
                           \/ proc[slot[i].epoch].run # "up"
                           \/ (i = size /\ size' = i - 1 /\ slot[i].inFlight = {})]_vars
    BY <1>1 DEF Spared
  <1> QED
    BY <1>2, ProcessCorrect, PTL DEF Spec, NoInnocentKill

(* Growth, immediate restarts and delayed restarts together never run more   *)
(* processes than config.workers; every worker whose process runs has been   *)
(* told of exactly the open documents; and a question put to a worker is     *)
(* tracked by some slot until it, or one of its topic whose answer serves    *)
(* both, is answered or retired with its worker, or until the replacement it *)
(* was to be put to again died before it was: the replay drops a question    *)
(* whose write fails (spawn_worker, respawn, restart_or_give_up,             *)
(* retry_backoff, request_answers).                                          *)
THEOREM PoolAsConfigured == Spec => [](PoolBounded /\ CaughtUp /\ Tracked)
  <1>1. ProcessInv => PoolBounded /\ CaughtUp /\ Tracked
    BY DEF ProcessInv
  <1> QED
    BY <1>1, ProcessCorrect, PTL

(* When no two questions ask for the same, a slot remembers each of them as  *)
(* long as it is owed an answer: a crash, a give-up, a restart and growth    *)
(* lose none, and the only losses are the two of the source, a question      *)
(* retired with an idle worker and one the replay could not write (respawn). *)
THEOREM WorkersNeverFallBehind ==
  ASSUME \A q, r \in Questions : Topic[q] = Topic[r] => q = r
  PROVE  Spec => []WorkersKeepUp
  <1>1. ProcessInv => WorkersKeepUp
    BY DEF ProcessInv, WorkersKeepUp, Tracked, Served, NoQuestionLost
  <1> QED
    BY <1>1, ProcessCorrect, PTL

-----------------------------------------------------------------------------
(*****************************************************************************)
(* What the application is told of its requests: once of each job, once of   *)
(* each open, and a frame that holds the pixels of its own job.              *)
(*                                                                           *)
(* Neither is inductive.  A job is sent to one process and answered by it    *)
(* in one message (SentOnce), and only once it left the queue (Unsent); a    *)
(* worker counts what its process was sent and has not answered among the    *)
(* jobs in flight, unless it gave up and failed them (Holds).  What is       *)
(* queued or in flight was never answered (Unanswered).  A worker holds      *)
(* one large job at a time (OneBig), so between the message about a large    *)
(* frame and its copy nothing else draws into the region (Drawn).            *)
(*****************************************************************************)

(* The process of epoch e was sent job j, and its answer was not read yet. *)
Answers(m, e, j) == m.kind \in RenderAnswers /\ m.epoch = e /\ m.what = j
Sent(e, j) == \/ j \in proc[e].jobs
              \/ \E n \in 1..Len(events) : Answers(events[n], e, j)

(* A job no worker has had yet: to come, queued, or failed by the supervisor. *)
Free(j) == j \in queue \/ j \in Owed \/ j > next
Held(j) == \E i \in Slots : j \in slot[i].inFlight

(* A job is with one process, or in one message. *)
SentOnce ==
  /\ \A e, f \in Epochs : e # f => proc[e].jobs \cap proc[f].jobs = {}
  /\ \A n \in 1..Len(events) : events[n].kind \in RenderAnswers =>
       /\ \A e \in Epochs : events[n].what \notin proc[e].jobs
       /\ \A k \in 1..Len(events) :
            events[k].kind \in RenderAnswers /\ events[k].what = events[n].what => k = n

Unsent == \A e \in Epochs : \A j \in Jobs : Sent(e, j) => ~Free(j)

(* A worker that gave up keeps its epoch, and has failed what it held. *)
Holds == \A i \in Slots : \A e \in Epochs : \A j \in Jobs :
           slot[i].epoch = e /\ Sent(e, j) =>
             j \in slot[i].inFlight \/ (answers[j] = <<"Failed">> /\ ~slot[i].alive)

Unanswered == \A j \in Jobs : Free(j) \/ Held(j) => answers[j] = <<>>

(* The region is the result buffer of one large frame at a time. *)
OneBig == \A i \in Slots : \A j, k \in slot[i].inFlight : ~Inline(j) /\ ~Inline(k) => j = k

(* A large frame that was announced is still in the region. *)
DrawnFor(m, i) ==
  m.kind = "Rendered" /\ slot[i].epoch = m.epoch /\ m.what \in slot[i].inFlight /\ ~Inline(m.what)
    => proc[m.epoch].region = m.what
Drawn == \A n \in 1..Len(events) : \A i \in Slots : DrawnFor(events[n], i)

(* reported_open guards the report of an open. *)
OpensOnce == \A d \in Docs : reports[d] <= 1 /\ (d \notin reported => reports[d] = 0)

AnswerInv ==
  /\ ProcessInv /\ SentOnce /\ Unsent /\ Holds /\ Unanswered /\ OneBig /\ Drawn
  /\ OpensOnce /\ AnsweredOnce /\ PictureOwn

-----------------------------------------------------------------------------
(* What steps have in common. *)

LEMMA AnswerTypes ==
  ASSUME TypeInv
  PROVE  /\ \A e \in Epochs : proc[e] \in ProcType /\ proc[e].jobs \subseteq Jobs
         /\ \A n \in 1..Len(events) :
              /\ events[n] \in MessageType /\ events[n].epoch \in Epochs /\ events[n].at \in Slots
              /\ events[n].kind \in RenderAnswers => events[n].what \in Jobs
         /\ Len(events) \in Nat /\ next \in Nat /\ queue \subseteq Jobs
  <1>1. \A e \in Epochs : proc[e] \in ProcType
    BY DEF TypeInv, TypeOK
  <1>2. events \in Seq(MessageType)
    BY DEF TypeInv, TypeOK
  <1>3. \A n \in 1..Len(events) : events[n] \in MessageType
    BY <1>2
  <1>4. next \in Nat /\ queue \subseteq Jobs
    BY PoolAssumption DEF TypeInv, TypeOK
  <1> QED
    BY <1>1, <1>2, <1>3, <1>4, MessageKind DEF ProcType

(* Nothing is sent but what was: jobs are dropped, and s messages are read. *)
LEMMA SentFewer ==
  ASSUME TypeInv, SentOnce, NEW s \in Nat,
         \A e \in Epochs : proc'[e].jobs \subseteq proc[e].jobs,
         \A n \in 1..Len(events') : events'[n].kind \in RenderAnswers =>
            n + s \in 1..Len(events) /\ events'[n] = events[n + s],
         Len(events') \in Nat
  PROVE  SentOnce' /\ \A e \in Epochs : \A j \in Jobs : Sent(e, j)' => Sent(e, j)
  <1>1. ASSUME NEW e \in Epochs, NEW j \in Jobs, Sent(e, j)' PROVE Sent(e, j)
    <2>1. CASE j \in proc'[e].jobs
      BY <2>1 DEF Sent
    <2>2. ASSUME NEW n \in 1..Len(events'), Answers(events'[n], e, j) PROVE Sent(e, j)
      <3>1. n + s \in 1..Len(events) /\ events'[n] = events[n + s]
        BY <2>2 DEF Answers
      <3> QED
        BY <2>2, <3>1 DEF Sent
    <2> QED
      BY <1>1, <2>1, <2>2 DEF Sent
  <1>2. \A e, f \in Epochs : e # f => proc'[e].jobs \cap proc'[f].jobs = {}
    BY DEF SentOnce
  <1>3. ASSUME NEW n \in 1..Len(events'), events'[n].kind \in RenderAnswers
        PROVE  /\ \A e \in Epochs : events'[n].what \notin proc'[e].jobs
               /\ \A k \in 1..Len(events') :
                    events'[k].kind \in RenderAnswers /\ events'[k].what = events'[n].what => k = n
    <2>1. n + s \in 1..Len(events) /\ events'[n] = events[n + s]
      BY <1>3
    <2>2. \A e \in Epochs : events'[n].what \notin proc'[e].jobs
      BY <1>3, <2>1 DEF SentOnce
    <2>3. ASSUME NEW k \in 1..Len(events'), events'[k].kind \in RenderAnswers,
                 events'[k].what = events'[n].what
          PROVE  k = n
      <3>1. k + s \in 1..Len(events) /\ events'[k] = events[k + s]
        BY <2>3
      <3>2. k + s = n + s
        BY <1>3, <2>1, <2>3, <3>1 DEF SentOnce
      <3> QED
        BY <3>2
    <2> QED
      BY <2>2, <2>3
  <1> QED
    BY <1>1, <1>2, <1>3 DEF SentOnce

LEMMA SentSame ==
  ASSUME TypeInv, SentOnce, UNCHANGED events, \A e \in Epochs : proc'[e].jobs \subseteq proc[e].jobs
  PROVE  SentOnce' /\ \A e \in Epochs : \A j \in Jobs : Sent(e, j)' => Sent(e, j)
  <1>1. \A n \in 1..Len(events') : n + 0 = n
    OBVIOUS
  <1>2. Len(events') \in Nat
    BY AnswerTypes
  <1> QED
    BY <1>1, <1>2, SentFewer

(* A process that starts was sent nothing and has said nothing. *)
LEMMA SentNone ==
  ASSUME TypeInv, Mail, NEW e \in Epochs, e = epochs + 1, proc'[e].jobs = {},
         \A n \in 1..Len(events') : events'[n].kind \in RenderAnswers =>
            \E k \in 1..Len(events) : events'[n] = events[k]
  PROVE  \A j \in Jobs : ~Sent(e, j)'
  <1>1. \A n \in 1..Len(events) : events[n].epoch # e
    BY DEF Mail, MailOf, TypeInv, TypeOK, Epochs
  <1> QED
    BY <1>1 DEF Sent, Answers

(* Steps after which no more is sent, free or held than before. *)
LEMMA AnswerKept ==
  ASSUME AnswerInv, ProcessInv', SentOnce', OpensOnce', AnsweredOnce', PictureOwn',
         \A e \in Epochs : \A j \in Jobs : Sent(e, j)' => Sent(e, j),
         \A j \in Jobs : Free(j)' => Free(j),
         \A i \in Slots : slot'[i].inFlight \subseteq slot[i].inFlight,
         \A j \in Jobs : Free(j)' \/ Held(j)' => answers'[j] = answers[j],
         \A i \in Slots : \A e \in Epochs : \A j \in Jobs : slot'[i].epoch = e /\ Sent(e, j)' =>
            /\ slot[i].epoch = e /\ (slot'[i].alive => slot[i].alive)
            /\ \/ j \in slot'[i].inFlight
               \/ j \notin slot[i].inFlight /\ answers'[j] = answers[j]
               \/ answers'[j] = <<"Failed">> /\ ~slot'[i].alive,
         \A e \in Epochs : \A j \in Jobs : Sent(e, j)' => proc'[e].region = proc[e].region,
         \A n \in 1..Len(events') : events'[n].kind \in RenderAnswers =>
            \E k \in 1..Len(events) : events'[n] = events[k]
  PROVE  AnswerInv'
  <1>1. TypeInv /\ TypeInv'
    BY DEF AnswerInv, ProcessInv, LedgerInv
  <1>2. Unsent'
    BY DEF AnswerInv, Unsent
  <1>3. Holds'
    <2> SUFFICES ASSUME NEW i \in Slots, NEW e \in Epochs, NEW j \in Jobs,
                        slot'[i].epoch = e, Sent(e, j)'
                 PROVE  j \in slot'[i].inFlight \/ (answers'[j] = <<"Failed">> /\ ~slot'[i].alive)
      BY DEF Holds
    <2>1. slot[i].epoch = e /\ Sent(e, j)
      OBVIOUS
    <2>2. j \in slot[i].inFlight \/ (answers[j] = <<"Failed">> /\ ~slot[i].alive)
      BY <2>1 DEF AnswerInv, Holds
    <2> QED
      BY <2>2
  <1>4. Unanswered'
    BY DEF AnswerInv, Unanswered, Held
  <1>5. OneBig'
    BY DEF AnswerInv, OneBig
  <1>6. Drawn'
    <2> SUFFICES ASSUME NEW n \in 1..Len(events'), NEW i \in Slots,
                        events'[n].kind = "Rendered", slot'[i].epoch = events'[n].epoch,
                        events'[n].what \in slot'[i].inFlight, ~Inline(events'[n].what)
                 PROVE  proc'[events'[n].epoch].region = events'[n].what
      BY DEF Drawn, DrawnFor
    <2>1. "Rendered" \in RenderAnswers
      BY DEF RenderAnswers
    <2>2. PICK k \in 1..Len(events) : events'[n] = events[k]
      BY <2>1
    <2>3. PICK e \in Epochs, j \in Jobs : events[k].epoch = e /\ events[k].what = j
      BY <1>1, <2>1, <2>2, AnswerTypes
    <2>4. Sent(e, j)'
      BY <2>1, <2>2, <2>3 DEF Sent, Answers
    <2>5. slot[i].epoch = e /\ proc'[e].region = proc[e].region
      BY <2>2, <2>3, <2>4
    <2> QED
      BY <2>2, <2>3, <2>5 DEF AnswerInv, Drawn, DrawnFor
  <1> QED
    BY <1>2, <1>3, <1>4, <1>5, <1>6 DEF AnswerInv

(* Steps that answer nothing. *)
LEMMA AnswerCalm ==
  ASSUME AnswerInv, ProcessInv', SentOnce', OpensOnce', UNCHANGED <<answers, picture>>,
         \A e \in Epochs : \A j \in Jobs : Sent(e, j)' => Sent(e, j),
         \A j \in Jobs : Free(j)' => Free(j),
         \A i \in Slots : slot'[i].inFlight = slot[i].inFlight,
         \A i \in Slots :
            \/ slot'[i].epoch = slot[i].epoch /\ (slot'[i].alive => slot[i].alive)
            \/ \A e \in Epochs : \A j \in Jobs : slot'[i].epoch = e => ~Sent(e, j)',
         \A e \in Epochs : \A j \in Jobs : Sent(e, j)' => proc'[e].region = proc[e].region,
         \A n \in 1..Len(events') : events'[n].kind \in RenderAnswers =>
            \E k \in 1..Len(events) : events'[n] = events[k]
  PROVE  AnswerInv'
  <1>1. AnsweredOnce' /\ PictureOwn'
    BY DEF AnswerInv, AnsweredOnce, PictureOwn
  <1>2. \A j \in Jobs : Free(j)' \/ Held(j)' => answers'[j] = answers[j]
    OBVIOUS
  <1>3. \A i \in Slots : \A e \in Epochs : \A j \in Jobs : slot'[i].epoch = e /\ Sent(e, j)' =>
            /\ slot[i].epoch = e /\ (slot'[i].alive => slot[i].alive)
            /\ \/ j \in slot'[i].inFlight
               \/ j \notin slot[i].inFlight /\ answers'[j] = answers[j]
    OBVIOUS
  <1> QED
    BY <1>1, <1>2, <1>3, AnswerKept

(* Steps that neither send nor read. *)
LEMMA AnswerQuiet ==
  ASSUME AnswerInv, ProcessInv', OpensOnce', UNCHANGED <<answers, picture, events>>,
         \A j \in Jobs : Free(j)' => Free(j),
         \A i \in Slots : /\ slot'[i].inFlight = slot[i].inFlight
                          /\ \/ slot'[i].epoch = slot[i].epoch /\ (slot'[i].alive => slot[i].alive)
                             \/ slot'[i].epoch = None,
         \A e \in Epochs : proc'[e].jobs = proc[e].jobs /\ proc'[e].region = proc[e].region
  PROVE  AnswerInv'
  <1>1. TypeInv /\ SentOnce
    BY DEF AnswerInv, ProcessInv, LedgerInv
  <1>2. SentOnce' /\ \A e \in Epochs : \A j \in Jobs : Sent(e, j)' => Sent(e, j)
    BY <1>1, SentSame
  <1>3. \A e \in Epochs : e # None
    BY PoolAssumption DEF Epochs, None
  <1> QED
    BY <1>2, <1>3, AnswerCalm

LEMMA AnswerInit == Init => AnswerInv
  <1> SUFFICES ASSUME Init PROVE AnswerInv
    OBVIOUS
  <1>1. ProcessInv
    BY ProcessInit
  <1>2. /\ events = <<>> /\ Len(<<>>) = 0 /\ 1..0 = {}
        /\ answers = [j \in Jobs |-> <<>>] /\ picture = [j \in Jobs |-> j]
        /\ reports = [d \in Docs |-> 0]
        /\ slot = [i \in Slots |-> IF i = 1 THEN Fresh(1) ELSE Vacant]
    BY DEF Init
  <1>3. \A e \in Epochs : proc[e].jobs = {}
    BY DEF Init, NoProcess
  <1>4. \A e \in Epochs : \A j \in Jobs : ~Sent(e, j)
    BY <1>2, <1>3 DEF Sent
  <1>5. \A i \in Slots : slot[i].inFlight = {}
    BY <1>2 DEF Fresh, Vacant
  <1>6. SentOnce /\ Unsent /\ Holds /\ Drawn
    BY <1>2, <1>3, <1>4 DEF SentOnce, Unsent, Holds, Drawn
  <1>7. Unanswered /\ OneBig /\ OpensOnce /\ AnsweredOnce /\ PictureOwn
    BY <1>2, <1>5 DEF Unanswered, OneBig, OpensOnce, AnsweredOnce, PictureOwn
  <1> QED
    BY <1>1, <1>6, <1>7 DEF AnswerInv

-----------------------------------------------------------------------------
(* The application's calls. *)

LEMMA FreeSame == ASSUME UNCHANGED <<queue, owed, next>> PROVE \A j \in Jobs : Free(j)' => Free(j)
  BY DEF Free, Owed

LEMMA OpensSame == ASSUME AnswerInv, UNCHANGED <<reports, reported>> PROVE OpensOnce'
  BY DEF AnswerInv, OpensOnce

LEMMA AnswerRender ==
  ASSUME AnswerInv, ProcessInv',
         \/ \E j \in Jobs : Submit(j) \/ CancelRender(j)
         \/ \E g \in 1..MaxFloor : Invalidate(g)
  PROVE  AnswerInv'
  <1>1. UNCHANGED <<slot, events, answers, picture, reports, reported>>
    BY DEF Submit, CancelRender, Invalidate
  <1>2. ASSUME NEW e \in Epochs
        PROVE  proc'[e].jobs = proc[e].jobs /\ proc'[e].region = proc[e].region
    <2>1. proc[e] \in ProcType
      BY DEF AnswerInv, ProcessInv, LedgerInv, TypeInv, TypeOK
    <2>2. \/ proc'[e] = proc[e]
          \/ \E told : proc'[e] = [proc[e] EXCEPT !.stoppable = told]
      BY DEF Submit, CancelRender, Invalidate
    <2> QED
      BY <2>1, <2>2 DEF ProcType
  <1>3. \A j \in Jobs : Free(j)' => Free(j)
    <2>1. ASSUME NEW k \in Jobs, Submit(k) PROVE \A j \in Jobs : Free(j)' => Free(j)
      <3>1. k = next + 1 /\ next' = k /\ next \in Nat
        BY <2>1, AnswerTypes DEF Submit, AnswerInv, ProcessInv, LedgerInv
      <3>2. Owed' \subseteq Owed \cup {k} /\ queue' \subseteq queue \cup {k}
        <4>1. CASE UNCHANGED owed /\ queue' = queue \cup {k}
          BY <4>1 DEF Owed
        <4>2. CASE owed' = owed \cup {<<k, "Cancelled">>} /\ UNCHANGED queue
          BY <4>2, OwedAdd
        <4> QED
          BY <2>1, <4>1, <4>2 DEF Submit
      <3> QED
        BY <3>1, <3>2 DEF Free, Jobs
    <2>2. CASE \/ \E j \in Jobs : CancelRender(j)
               \/ \E g \in 1..MaxFloor : Invalidate(g)
      <3>1. queue' \subseteq queue /\ UNCHANGED <<owed, next>>
        BY <2>2 DEF CancelRender, Invalidate
      <3> QED
        BY <3>1 DEF Free, Owed
    <2> QED
      BY <2>1, <2>2
  <1> QED
    BY <1>1, <1>2, <1>3, OpensSame, AnswerQuiet

LEMMA AnswerAsk == ASSUME AnswerInv, ProcessInv', NEW q \in Questions, Ask(q) PROVE AnswerInv'
  <1>1. /\ slot \in [Slots -> SlotType] /\ proc \in [Epochs -> ProcType]
        /\ 1..size \subseteq Slots
    BY SizeSlots DEF AnswerInv, ProcessInv, LedgerInv, TypeInv, TypeOK
  <1>2. UNCHANGED <<queue, owed, next, events, answers, picture, reports, reported>>
    BY DEF Ask
  <1>3. ASSUME NEW i \in Live,
               slot' = [slot EXCEPT ![i].asked = @ \cup {q}],
               proc' = [proc EXCEPT ![slot[i].epoch].asks = @ \cup {q}]
        PROVE  AnswerInv'
    <2>1. ASSUME NEW k \in Slots
          PROVE  /\ slot'[k].inFlight = slot[k].inFlight /\ slot'[k].epoch = slot[k].epoch
                 /\ slot'[k].alive = slot[k].alive
      <3>1. slot'[k] = slot[k] \/ slot'[k] = [slot[k] EXCEPT !.asked = @ \cup {q}]
        BY <1>1, <1>3
      <3> QED
        BY <1>1, <3>1 DEF SlotType
    <2>2. ASSUME NEW e \in Epochs
          PROVE  proc'[e].jobs = proc[e].jobs /\ proc'[e].region = proc[e].region
      <3>1. proc'[e] = proc[e] \/ proc'[e] = [proc[e] EXCEPT !.asks = @ \cup {q}]
        BY <1>1, <1>3
      <3> QED
        BY <1>1, <3>1 DEF ProcType
    <2> QED
      BY <1>2, <2>1, <2>2, FreeSame, OpensSame, AnswerQuiet
  <1>4. CASE UNCHANGED <<slot, proc>>
    BY <1>2, <1>4, FreeSame, OpensSame, AnswerQuiet
  <1> QED
    BY <1>3, <1>4 DEF Ask

LEMMA AnswerDocuments ==
  ASSUME AnswerInv, ProcessInv', NEW d \in Docs, Open(d) \/ Close(d) PROVE AnswerInv'
  <1>1. /\ UNCHANGED <<slot, queue, owed, next, events, answers, picture>>
        /\ reports' = [reports EXCEPT ![d] = 0] /\ reported' = reported \ {d}
    BY DEF Open, Close
  <1>2. ASSUME NEW e \in Epochs
        PROVE  proc'[e].jobs = proc[e].jobs /\ proc'[e].region = proc[e].region
    <2>1. proc[e] \in ProcType
      BY DEF AnswerInv, ProcessInv, LedgerInv, TypeInv, TypeOK
    <2>2. \/ proc'[e] = proc[e]
          \/ \E docs : proc'[e] = [proc[e] EXCEPT !.docs = docs]
          \/ \E docs, opening : proc'[e] = [proc[e] EXCEPT !.docs = docs, !.opening = opening]
      <3>1. CASE Open(d)
        <4> DEFINE opening == [proc[e].opening EXCEPT ![d] = @ + 1]
        <4>1. \/ proc'[e] = proc[e]
              \/ proc'[e] = [proc[e] EXCEPT !.docs = @ \cup {d}, !.opening = opening]
          BY <3>1 DEF Open
        <4> HIDE DEF opening
        <4> QED
          BY <4>1
      <3>2. CASE Close(d)
        BY <3>2 DEF Close
      <3> QED
        BY <3>1, <3>2
    <2> QED
      BY <2>1, <2>2 DEF ProcType
  <1>3. OpensOnce'
    <2>1. reports \in [Docs -> Nat]
      BY DEF AnswerInv, ProcessInv, LedgerInv, TypeInv, TypeOK
    <2> QED
      BY <1>1, <2>1 DEF AnswerInv, OpensOnce
  <1> QED
    BY <1>1, <1>2, <1>3, FreeSame, AnswerQuiet

-----------------------------------------------------------------------------
(* The steps of a pump that answer nothing. *)

LEMMA AnswerPhase ==
  ASSUME AnswerInv, ProcessInv', PumpStart \/ DrainEnd \/ KillEnd \/ RetryEnd \/ RetireEnd
  PROVE  AnswerInv'
  <1>1. UNCHANGED <<slot, queue, owed, next, proc, events, answers, picture, reports, reported>>
    BY DEF PumpStart, DrainEnd, KillEnd, RetryEnd, RetireEnd, app
  <1> QED
    BY <1>1, FreeSame, OpensSame, AnswerQuiet

LEMMA AnswerRetire == ASSUME AnswerInv, ProcessInv', Retire PROVE AnswerInv'
  <1>1. /\ TypeInv /\ slot \in [Slots -> SlotType] /\ size \in Slots /\ Placed(slot, proc)
        /\ slot[size].inFlight = {}
    <2>1. TypeInv
      BY DEF AnswerInv, ProcessInv, LedgerInv
    <2>2. \A i \in Slots : ~slot[i].alive => slot[i].inFlight = {}
      BY DEF AnswerInv, ProcessInv, LedgerInv, OneHome, Live
    <2>3. size \in Slots
      BY <2>1 DEF TypeInv, TypeOK
    <2> QED
      BY <2>1, <2>2, <2>3 DEF TypeInv, TypeOK, Retire, RetireGivenUp, RetireIdle, Retirable
  <1>2. /\ slot' = [slot EXCEPT ![size] = Vacant]
        /\ proc' = proc \/ proc' = Ended(slot[size].epoch)
        /\ UNCHANGED <<queue, owed, next, events, answers, picture, reports, reported>>
    BY DEF Retire, RetireGivenUp, RetireIdle
  <1>3. Vacant.inFlight = {} /\ Vacant.epoch = None
    BY DEF Vacant
  <1>4. \A i \in Slots : /\ slot'[i].inFlight = slot[i].inFlight
                         /\ \/ slot'[i].epoch = slot[i].epoch /\ (slot'[i].alive => slot[i].alive)
                            \/ slot'[i].epoch = None
    BY <1>1, <1>2, <1>3
  <1>5. \A e \in Epochs : proc'[e].jobs = proc[e].jobs /\ proc'[e].region = proc[e].region
    BY <1>1, <1>2, EndedEffect
  <1> QED
    BY <1>2, <1>4, <1>5, FreeSame, OpensSame, AnswerQuiet

(* A worker that starts in a slot that held nothing. *)
LEMMA AnswerStart ==
  ASSUME AnswerInv, ProcessInv', NEW i \in Slots, NEW e \in Epochs, e = epochs + 1,
         slot[i].inFlight = {}, slot'[i].inFlight = {}, slot'[i].epoch = e,
         \A k \in Slots \ {i} : slot'[k] = slot[k],
         proc'[e].jobs = {}, \A f \in Epochs \ {e} : proc'[f] = proc[f],
         UNCHANGED <<queue, owed, next, events, answers, picture, reports, reported>>
  PROVE  AnswerInv'
  <1>1. TypeInv /\ SentOnce /\ Mail
    BY DEF AnswerInv, ProcessInv, LedgerInv
  <1>2. \A f \in Epochs : proc'[f].jobs \subseteq proc[f].jobs
    OBVIOUS
  <1>3. SentOnce' /\ \A f \in Epochs : \A j \in Jobs : Sent(f, j)' => Sent(f, j)
    BY <1>1, <1>2, SentSame
  <1>4. \A n \in 1..Len(events') : events'[n].kind \in RenderAnswers =>
          \E k \in 1..Len(events) : events'[n] = events[k]
    OBVIOUS
  <1>5. \A j \in Jobs : ~Sent(e, j)'
    BY <1>1, <1>4, SentNone
  <1>6. \A f \in Epochs : \A j \in Jobs : Sent(f, j)' => proc'[f].region = proc[f].region
    BY <1>5
  <1>7. \A k \in Slots :
          /\ slot'[k].inFlight = slot[k].inFlight
          /\ \/ slot'[k].epoch = slot[k].epoch /\ (slot'[k].alive => slot[k].alive)
             \/ \A f \in Epochs : \A j \in Jobs : slot'[k].epoch = f => ~Sent(f, j)'
    BY <1>5
  <1> QED
    BY <1>3, <1>4, <1>6, <1>7, FreeSame, OpensSame, AnswerCalm

LEMMA AnswerRetryBackoff ==
  ASSUME AnswerInv, ProcessInv', NEW i \in Slots, RetryBackoff(i) PROVE AnswerInv'
  <1>1. /\ TypeInv /\ slot \in [Slots -> SlotType] /\ proc \in [Epochs -> ProcType]
        /\ slot[i].recent \in Nat
    BY DEF AnswerInv, ProcessInv, LedgerInv, TypeInv, TypeOK, SlotType
  <1>2. UNCHANGED <<queue, owed, next, events, answers, picture, reports, reported>>
    BY DEF RetryBackoff, app
  <1>3. CASE UNCHANGED <<slot, proc>>
    BY <1>2, <1>3, FreeSame, OpensSame, AnswerQuiet
  <1>4. CASE Respawn(slot, proc, i, slot[i].recent)
    <2>1. /\ epochs' = epochs + 1 /\ epochs' \in Epochs
          /\ slot'[i].epoch = epochs' /\ slot'[i].inFlight = {}
          /\ \A k \in Slots \ {i} : slot'[k] = slot[k]
          /\ proc'[epochs'].jobs = {}
          /\ \A e \in Epochs \ {epochs'} : proc'[e] = proc[e]
      BY <1>1, <1>4, RespawnEffect
    <2>2. slot[i].inFlight = {}
      BY DEF AnswerInv, ProcessInv, LedgerInv, RetryDead, RetryBackoff, First, OneHome, Live
    <2> QED
      BY <1>2, <2>1, <2>2, AnswerStart
  <1>5. CASE slot' = [slot EXCEPT ![i].backoff = "waiting"] /\ UNCHANGED proc
    <2>1. ASSUME NEW k \in Slots
          PROVE  /\ slot'[k].inFlight = slot[k].inFlight /\ slot'[k].epoch = slot[k].epoch
                 /\ slot'[k].alive = slot[k].alive
      <3>1. slot'[k] = slot[k] \/ slot'[k] = [slot[k] EXCEPT !.backoff = "waiting"]
        BY <1>1, <1>5
      <3> QED
        BY <1>1, <3>1 DEF SlotType
    <2> QED
      BY <1>2, <1>5, <2>1, FreeSame, OpensSame, AnswerQuiet
  <1> QED
    BY <1>3, <1>4, <1>5 DEF RetryBackoff

LEMMA AnswerGrow == ASSUME AnswerInv, ProcessInv', Grow PROVE AnswerInv'
  <1> DEFINE i == size + 1
             e == epochs + 1
  <1>1. TypeInv /\ slot \in [Slots -> SlotType] /\ proc \in [Epochs -> ProcType]
    BY DEF AnswerInv, ProcessInv, LedgerInv, TypeInv, TypeOK
  <1>2. /\ slot' = [slot EXCEPT ![i] = Fresh(e)]
        /\ proc' = [proc EXCEPT ![e] = Spawned(i, {})]
        /\ UNCHANGED <<queue, owed, next, events, answers, picture, reports, reported>>
    BY DEF Grow, app
  <1>3. i \in Slots /\ e \in Epochs /\ ~(i <= size)
    BY <1>1, PoolAssumption DEF Grow, TypeInv, TypeOK, Slots, Epochs
  <1>4. slot[i].inFlight = {}
    BY <1>1, <1>3, LiveSlot DEF AnswerInv, ProcessInv, LedgerInv, OneHome
  <1>5. Fresh(e).epoch = e /\ Fresh(e).inFlight = {} /\ Spawned(i, {}).jobs = {}
    BY <1>1, <1>3, FreshIs, SpawnedIs
  <1>6. e = epochs + 1
    OBVIOUS
  <1> HIDE DEF i, e
  <1>7. /\ slot'[i].epoch = e /\ slot'[i].inFlight = {} /\ proc'[e].jobs = {}
        /\ \A k \in Slots \ {i} : slot'[k] = slot[k]
        /\ \A f \in Epochs \ {e} : proc'[f] = proc[f]
    BY <1>1, <1>2, <1>3, <1>5
  <1> QED
    BY <1>2, <1>3, <1>4, <1>6, <1>7, AnswerStart

LEMMA AnswerDispatchUnsized ==
  ASSUME AnswerInv, ProcessInv', NEW j \in Jobs, DispatchUnsized(j) PROVE AnswerInv'
  <1>1. /\ queue' = queue \ {j} /\ j \in queue /\ owed' = owed \cup {<<j, "Failed">>}
        /\ UNCHANGED <<next, slot, proc, events, answers, picture, reports, reported>>
    BY DEF DispatchUnsized, Choice, app
  <1>2. Owed' = Owed \cup {j}
    BY <1>1, OwedAdd
  <1>3. \A k \in Jobs : Free(k)' => Free(k)
    BY <1>1, <1>2 DEF Free
  <1> QED
    BY <1>1, <1>3, OpensSame, AnswerQuiet

-----------------------------------------------------------------------------
(* A job is handed to a worker. *)

LEMMA AnswerDispatch ==
  ASSUME AnswerInv, ProcessInv', NEW j \in Jobs, NEW i \in Slots, Dispatch(j, i)
  PROVE  AnswerInv'
  <1> DEFINE e == slot[i].epoch
  <1>1. /\ TypeInv /\ Owners /\ proc \in [Epochs -> ProcType]
        /\ queue \cap Owed = {} /\ queue \subseteq 1..next /\ next \in Nat
    BY AnswerTypes DEF AnswerInv, ProcessInv, LedgerInv, TypeInv, TypeOK, OneHome, Given
  <1>2. /\ j \in queue /\ queue' = queue \ {j}
        /\ proc' = [proc EXCEPT ![e].jobs = @ \cup {j}]
        /\ UNCHANGED <<next, owed, events, answers, picture, reports, reported>>
        /\ Eligible(i, j)
    BY DEF Dispatch, Choice, LeastLoaded, Takers, app
  <1>3. e \in Epochs /\ slot[i].alive
    BY <1>1, <1>2, SlotTypes DEF Eligible, Owners
  <1>4. /\ slot'[i].inFlight = slot[i].inFlight \cup {j}
        /\ \A k \in Slots : k # i => slot'[k].inFlight = slot[k].inFlight
        /\ \A k \in Slots : slot'[k].epoch = slot[k].epoch /\ slot'[k].alive = slot[k].alive
    BY <1>1, DispatchSlot
  <1>5. /\ proc'[e].jobs = proc[e].jobs \cup {j} /\ proc'[e].region = proc[e].region
        /\ \A f \in Epochs \ {e} : proc'[f] = proc[f]
    <2> DEFINE now == [proc[e] EXCEPT !.jobs = @ \cup {j}]
    <2>1. proc' = [proc EXCEPT ![e] = now]
      BY <1>2
    <2>2. now.jobs = proc[e].jobs \cup {j} /\ now.region = proc[e].region
      BY <1>1, <1>3 DEF ProcType
    <2> HIDE DEF now, e
    <2> QED
      BY <1>1, <1>3, <2>1, <2>2
  <1> HIDE DEF e
  <1>6. ASSUME NEW f \in Epochs PROVE ~Sent(f, j)
    BY <1>2 DEF AnswerInv, Unsent, Free
  <1>7. ASSUME NEW f \in Epochs, NEW k \in Jobs, Sent(f, k)'
        PROVE  Sent(f, k) \/ (f = e /\ k = j)
    BY <1>2, <1>5, <1>7 DEF Sent
  <1>8. SentOnce'
    <2>1. \A f \in Epochs : j \notin proc[f].jobs
      BY <1>6 DEF Sent
    <2>2. \A n \in 1..Len(events) : events[n].kind \in RenderAnswers => events[n].what # j
      BY <1>1, <1>6, AnswerTypes DEF Sent, Answers
    <2>3. \A f, g \in Epochs : f # g => proc'[f].jobs \cap proc'[g].jobs = {}
      BY <1>5, <2>1 DEF AnswerInv, SentOnce
    <2>4. \A n \in 1..Len(events) : events[n].kind \in RenderAnswers =>
            \A f \in Epochs : events[n].what \notin proc'[f].jobs
      BY <1>5, <2>2 DEF AnswerInv, SentOnce
    <2> QED
      BY <1>2, <2>3, <2>4 DEF AnswerInv, SentOnce
  <1>9. Unsent'
    <2>1. ASSUME NEW f \in Epochs, NEW k \in Jobs, Sent(f, k)' PROVE ~Free(k)'
      <3>1. CASE Sent(f, k)
        BY <1>2, <2>1, <3>1 DEF AnswerInv, Unsent, Free, Owed
      <3>2. CASE k = j
        BY <1>1, <1>2, <3>2 DEF Free, Owed
      <3> QED
        BY <1>7, <2>1, <3>1, <3>2
    <2> QED
      BY <2>1 DEF Unsent
  <1>10. Holds'
    <2> SUFFICES ASSUME NEW k \in Slots, NEW f \in Epochs, NEW l \in Jobs,
                        slot'[k].epoch = f, Sent(f, l)'
                 PROVE  l \in slot'[k].inFlight \/ (answers'[l] = <<"Failed">> /\ ~slot'[k].alive)
      BY DEF Holds
    <2>1. CASE Sent(f, l)
      BY <1>2, <1>4, <2>1 DEF AnswerInv, Holds
    <2>2. CASE f = e /\ l = j
      <3>1. slot[k].epoch = slot[i].epoch /\ slot[i].epoch # None
        BY <1>3, <1>4, <2>2, PoolAssumption DEF e, Epochs, None
      <3>2. k = i
        BY <1>1, <3>1 DEF Owners
      <3> QED
        BY <1>4, <2>2, <3>2
    <2> QED
      BY <1>7, <2>1, <2>2
  <1>11. Unanswered'
    <2>1. ASSUME NEW k \in Jobs, Free(k)' \/ Held(k)' PROVE Free(k) \/ Held(k)
      <3>1. CASE k = j
        BY <1>2, <3>1 DEF Free
      <3>2. CASE k # j
        BY <1>2, <1>4, <2>1, <3>2 DEF Free, Held, Owed
      <3> QED
        BY <3>1, <3>2
    <2> QED
      BY <1>2, <2>1 DEF AnswerInv, Unanswered
  <1>12. OneBig'
    <2>1. ASSUME NEW k \in Slots, NEW a \in slot'[k].inFlight, NEW b \in slot'[k].inFlight,
                 ~Inline(a), ~Inline(b)
          PROVE  a = b
      BY <1>2, <1>4, <2>1 DEF AnswerInv, OneBig, Eligible
    <2> QED
      BY <2>1 DEF OneBig
  <1>13. Drawn'
    <2> SUFFICES ASSUME NEW n \in 1..Len(events), NEW k \in Slots,
                        events[n].kind = "Rendered", slot'[k].epoch = events[n].epoch,
                        events[n].what \in slot'[k].inFlight, ~Inline(events[n].what)
                 PROVE  proc'[events[n].epoch].region = events[n].what
      BY <1>2 DEF Drawn, DrawnFor
    <2>1. events[n].kind \in RenderAnswers /\ events[n].epoch \in Epochs
      BY <1>1, AnswerTypes DEF RenderAnswers
    <2>2. events[n].what # j
      BY <1>6, <2>1 DEF Sent, Answers
    <2>3. proc'[events[n].epoch].region = proc[events[n].epoch].region
      BY <1>5, <2>1
    <2> QED
      BY <1>4, <2>2, <2>3 DEF AnswerInv, Drawn, DrawnFor
  <1>14. OpensOnce' /\ AnsweredOnce' /\ PictureOwn'
    BY <1>2, OpensSame DEF AnswerInv, AnsweredOnce, PictureOwn
  <1> QED
    BY <1>8, <1>9, <1>10, <1>11, <1>12, <1>13, <1>14 DEF AnswerInv

-----------------------------------------------------------------------------
(* The steps that answer. *)

LEMMA FirstAnswer == ASSUME NEW kind \in AnswerKinds PROVE Append(<<>>, kind) = <<kind>> /\ Len(<<kind>>) = 1
  OBVIOUS

LEMMA SecondAnswer ==
  ASSUME NEW a \in AnswerKinds, NEW b \in AnswerKinds PROVE Append(<<a>>, b) = <<a, b>>
  <1> DEFINE s == <<a>>
             t == <<a, b>>
             u == Append(s, b)
  <1>1. s \in Seq(AnswerKinds) /\ Len(s) = 1 /\ s[1] = a
    OBVIOUS
  <1>2. t \in Seq(AnswerKinds)
    OBVIOUS
  <1>3. Len(t) = 2 /\ t[1] = a /\ t[2] = b
    OBVIOUS
  <1> HIDE DEF s, t
  <1>4. u \in Seq(AnswerKinds)
    BY <1>1
  <1> HIDE DEF u
  <1>5. Len(u) = 2 /\ u[1] = a /\ u[2] = b
    <2>1. /\ Len(Append(s, b)) = Len(s) + 1
          /\ \A i \in 1..Len(s) : Append(s, b)[i] = s[i]
          /\ Append(s, b)[Len(s) + 1] = b
      BY <1>1, AppendProperties, ZenonT(40)
    <2>2. 1 + 1 = 2 /\ 1 \in 1..1
      OBVIOUS
    <2>3. Len(Append(s, b)) = 2 /\ Append(s, b)[1] = a /\ Append(s, b)[2] = b
      BY <1>1, <2>1, <2>2, Zenon
    <2> QED
      BY <2>3 DEF u
  <1>6. \A i \in 1..2 : u[i] = t[i]
    BY <1>3, <1>5
  <1>7. u = t
    BY <1>2, <1>3, <1>4, <1>5, <1>6, SeqEqual
  <1> QED
    BY <1>7 DEF u, s, t

LEMMA AnswerEffect ==
  ASSUME TypeInv, NEW js, NEW kind, Answer(js, kind)
  PROVE  \A j \in Jobs : answers'[j] = IF j \in js THEN Append(answers[j], kind) ELSE answers[j]
  BY DEF Answer

(* The jobs the supervisor owes an answer are neither queued nor sent. *)
LEMMA AnswerDispatchEnd == ASSUME AnswerInv, ProcessInv', DispatchEnd PROVE AnswerInv'
  <1>1. /\ UNCHANGED <<next, queue, slot, events, proc, picture, reports, reported>>
        /\ TypeInv /\ SentOnce /\ next \in Nat
    BY AnswerTypes DEF DispatchEnd, AnswerInv, ProcessInv, LedgerInv
  <1>2. CASE UNCHANGED <<owed, answers>>
    BY <1>1, <1>2, FreeSame, OpensSame, AnswerQuiet
  <1>3. CASE /\ owed' = {}
             /\ answers' = [j \in Jobs |->
                  LET kinds == {kind \in AnswerKinds : <<j, kind>> \in owed} IN
                  IF kinds = {} THEN answers[j] ELSE Append(answers[j], CHOOSE kind \in kinds : TRUE)]
    <2>1. SentOnce' /\ \A e \in Epochs : \A j \in Jobs : Sent(e, j)' => Sent(e, j)
      BY <1>1, SentSame
    <2>2. Owed' = {} /\ \A j \in Jobs : Free(j)' => Free(j) /\ (j \in queue \/ j > next)
      BY <1>1, <1>3 DEF Free, Owed
    <2>3. ASSUME NEW j \in Jobs
          PROVE  /\ answers'[j] = answers[j] \/ \E kind \in AnswerKinds : answers'[j] = Append(answers[j], kind)
                 /\ j \notin Owed => answers'[j] = answers[j]
      <3> DEFINE kinds == {kind \in AnswerKinds : <<j, kind>> \in owed}
      <3>1. answers'[j] = IF kinds = {} THEN answers[j] ELSE Append(answers[j], CHOOSE kind \in kinds : TRUE)
        BY <1>3
      <3>2. kinds # {} => (CHOOSE kind \in kinds : TRUE) \in AnswerKinds
        OBVIOUS
      <3>3. kinds # {} => j \in Owed
        <4> SUFFICES ASSUME NEW kind \in kinds PROVE j \in Owed
          OBVIOUS
        <4>1. <<j, kind>> \in owed /\ <<j, kind>>[1] = j
          OBVIOUS
        <4> QED
          BY <4>1, Zenon DEF Owed
      <3> HIDE DEF kinds
      <3> QED
        BY <3>1, <3>2, <3>3
    <2>4. \A j \in Jobs : Free(j)' \/ Held(j)' => j \notin Owed
      <3>1. queue \cap Owed = {} /\ Owed \subseteq 1..next /\ Owed \cap InFlight = {}
        BY DEF AnswerInv, ProcessInv, LedgerInv, OneHome, Given
      <3>2. \A j \in Jobs : Held(j)' => j \in InFlight
        BY <1>1 DEF Held, InFlight
      <3>3. ASSUME NEW j \in Jobs, Free(j)' PROVE j \notin Owed
        <4>1. j \in queue \/ j > next
          BY <2>2, <3>3
        <4>2. Owed \subseteq 1..next /\ next \in Nat
          BY <1>1, <3>1
        <4>3. j > next => j \notin Owed
          BY <4>2 DEF Jobs
        <4> QED
          BY <3>1, <4>1, <4>3
      <3>4. ASSUME NEW j \in Jobs, Held(j)' PROVE j \notin Owed
        BY <3>1, <3>2, <3>4
      <3> QED
        BY <3>3, <3>4
    <2>5. AnsweredOnce'
      <3>1. ASSUME NEW j \in Jobs, j \in Owed PROVE Len(answers'[j]) <= 1
        <4>1. answers[j] = <<>>
          BY <3>1 DEF AnswerInv, Unanswered, Free
        <4> QED
          BY <2>3, <4>1, FirstAnswer
      <3> QED
        BY <2>3, <3>1 DEF AnswerInv, AnsweredOnce
    <2>6. \A e \in Epochs : \A j \in Jobs : Sent(e, j)' => answers'[j] = answers[j]
      BY <2>1, <2>3 DEF AnswerInv, Unsent, Free
    <2>7. OpensOnce' /\ PictureOwn'
      BY <1>1, OpensSame DEF AnswerInv, PictureOwn
    <2> QED
      BY <1>1, <2>1, <2>2, <2>3, <2>4, <2>5, <2>6, <2>7, AnswerKept
  <1> QED
    BY <1>2, <1>3 DEF DispatchEnd, Leave

(* A worker is killed: it fails what it held, and what it wrote may follow. *)
LEMMA AnswerKill ==
  ASSUME AnswerInv, ProcessInv', SentOnce', NEW s \in [Slots -> SlotType], NEW i \in Slots,
         Placed(s, proc), Kill(s, i),
         \A k \in Slots : /\ s[k].epoch = slot[k].epoch /\ s[k].alive = slot[k].alive
                          /\ s[k].inFlight = slot[k].inFlight,
         slot[i].alive,
         \A e \in Epochs : \A j \in Jobs : Sent(e, j)' => Sent(e, j),
         \A n \in 1..Len(events') : events'[n].kind \in RenderAnswers =>
            \E k \in 1..Len(events) : events'[n] = events[k],
         UNCHANGED <<queue, owed, next, picture, reports, reported>>
  PROVE  AnswerInv'
  <1>1. TypeInv /\ Owners /\ Mail /\ next \in Nat
    BY AnswerTypes DEF AnswerInv, ProcessInv, LedgerInv
  <1>2. /\ \A k \in Slots \ {i} : slot'[k] = s[k]
        /\ slot'[i].inFlight = {}
        /\ \/ /\ epochs' = epochs
              /\ ~slot'[i].alive /\ slot'[i].epoch = s[i].epoch
              /\ \A e \in Epochs : Ages(e) /\ Content(e)
           \/ /\ epochs' = epochs + 1 /\ epochs' \in Epochs
              /\ slot'[i].epoch = epochs'
              /\ proc'[epochs'].jobs = {}
              /\ \A e \in Epochs \ {epochs'} : Ages(e) /\ Content(e)
    BY <1>1, KillEffect
  <1>3. \A j \in Jobs :
          answers'[j] = IF j \in slot[i].inFlight THEN Append(answers[j], "Failed") ELSE answers[j]
    <2>1. Answer(s[i].inFlight, "Failed")
      BY DEF Kill, FailAll
    <2> QED
      BY <1>1, <2>1, AnswerEffect
  <1>4. \A j \in Jobs : j \in slot[i].inFlight => answers[j] = <<>> /\ answers'[j] = <<"Failed">>
    <2>1. \A j \in Jobs : j \in slot[i].inFlight => answers[j] = <<>>
      BY DEF AnswerInv, Unanswered, Held
    <2> QED
      BY <1>3, <2>1, FirstAnswer DEF AnswerKinds
  <1>5. \A j \in Jobs : Free(j)' \/ Held(j)' => j \notin slot[i].inFlight
    <2>1. /\ queue \cap InFlight = {} /\ Owed \cap InFlight = {}
          /\ slot[i].inFlight \subseteq 1..next /\ slot[i].inFlight \subseteq InFlight
          /\ \A k \in Slots \ {i} : slot[i].inFlight \cap slot[k].inFlight = {}
      BY DEF AnswerInv, ProcessInv, LedgerInv, OneHome, Given, InFlight
    <2>2. ASSUME NEW j \in Jobs, Free(j)' PROVE j \notin slot[i].inFlight
      BY <1>1, <2>1, <2>2 DEF Free, Owed
    <2>3. ASSUME NEW j \in Jobs, Held(j)' PROVE j \notin slot[i].inFlight
      BY <1>2, <2>1, <2>3 DEF Held
    <2> QED
      BY <2>2, <2>3
  <1>6. AnsweredOnce'
    <2>1. Len(<<"Failed">>) <= 1
      OBVIOUS
    <2> QED
      BY <1>3, <1>4, <2>1 DEF AnswerInv, AnsweredOnce
  <1>7. \A e \in Epochs : \A j \in Jobs : Sent(e, j)' =>
          (epochs' = epochs \/ e # epochs') /\ proc'[e].region = proc[e].region
    <2>1. CASE epochs' = epochs /\ \A e \in Epochs : Ages(e) /\ Content(e)
      BY <2>1 DEF Content
    <2>2. CASE /\ epochs' = epochs + 1 /\ epochs' \in Epochs /\ proc'[epochs'].jobs = {}
               /\ \A e \in Epochs \ {epochs'} : Ages(e) /\ Content(e)
      <3>1. ASSUME NEW e \in Epochs, e = epochs' PROVE \A j \in Jobs : ~Sent(e, j)'
        BY <1>1, <2>2, <3>1, SentNone
      <3>2. ASSUME NEW e \in Epochs, NEW j \in Jobs, Sent(e, j)'
            PROVE  e # epochs' /\ proc'[e].region = proc[e].region
        <4>1. e # epochs'
          BY <3>1, <3>2
        <4> QED
          BY <2>2, <4>1 DEF Content
      <3> QED
        BY <3>2
    <2> QED
      BY <1>2, <2>1, <2>2
  <1>8. ASSUME NEW k \in Slots, NEW e \in Epochs, NEW j \in Jobs, slot'[k].epoch = e, Sent(e, j)'
        PROVE  /\ slot[k].epoch = e /\ (slot'[k].alive => slot[k].alive)
               /\ \/ j \in slot'[k].inFlight
                  \/ j \notin slot[k].inFlight /\ answers'[j] = answers[j]
                  \/ answers'[j] = <<"Failed">> /\ ~slot'[k].alive
    <2>1. CASE k = i
      <3>1. epochs # epochs + 1
        BY <1>1 DEF TypeInv, TypeOK, Epochs
      <3>2. epochs' = epochs \/ e # epochs'
        BY <1>7, <1>8
      <3>3. ~slot'[i].alive /\ slot'[i].epoch = slot[i].epoch
        BY <1>2, <1>8, <2>1, <3>1, <3>2
      <3> QED
        BY <1>3, <1>4, <1>8, <2>1, <3>3
    <2>2. CASE k # i
      <3>1. /\ slot[k].epoch = e /\ slot'[k].alive = slot[k].alive
            /\ slot'[k].inFlight = slot[k].inFlight
        BY <1>2, <1>8, <2>2
      <3>2. j \in slot[k].inFlight \/ answers[j] = <<"Failed">>
        BY <1>8, <3>1 DEF AnswerInv, Holds
      <3>3. j \in slot[k].inFlight \/ j \notin slot[i].inFlight
        BY <1>4, <3>2
      <3> QED
        BY <1>3, <3>1, <3>3
    <2> QED
      BY <2>1, <2>2
  <1>9. \A k \in Slots : slot'[k].inFlight \subseteq slot[k].inFlight
    BY <1>2
  <1>10. \A j \in Jobs : Free(j)' \/ Held(j)' => answers'[j] = answers[j]
    BY <1>3, <1>5
  <1>11. OpensOnce' /\ PictureOwn'
    BY OpensSame DEF AnswerInv, PictureOwn
  <1> QED
    BY <1>6, <1>7, <1>8, <1>9, <1>10, <1>11, FreeSame, AnswerKept

(* The answer to a job is read: after it, no message and no process has it. *)
LEMMA AnswerRead ==
  ASSUME AnswerInv, ProcessInv', SentOnce', NEW m, NEW kind \in AnswerKinds,
         events # <<>>, m = Head(events), events' = Tail(events), m.kind \in RenderAnswers,
         Current(m), Answer({m.what}, kind), UNCHANGED proc,
         m.what \in slot[m.at].inFlight \/ kind = "Cancelled",
         \A k \in Slots : /\ slot'[k].epoch = slot[k].epoch /\ slot'[k].alive = slot[k].alive
                          /\ slot'[k].inFlight =
                               IF k = m.at THEN slot[k].inFlight \ {m.what} ELSE slot[k].inFlight,
         \A e \in Epochs : \A j \in Jobs : Sent(e, j)' => Sent(e, j),
         \A n \in 1..Len(events') : events'[n].kind \in RenderAnswers =>
            \E k \in 1..Len(events) : events'[n] = events[k],
         PictureOwn', UNCHANGED <<queue, owed, next, reports, reported>>
  PROVE  AnswerInv'
  <1> DEFINE what == m.what
  <1>1. /\ TypeInv /\ Len(events) \in Nat /\ 1 \in 1..Len(events) /\ events[1] = m
        /\ \A n \in 1..Len(events') : events'[n] = events[n + 1] /\ n + 1 \in 1..Len(events)
        /\ events \in Seq(MessageType)
    <2>1. TypeInv /\ events \in Seq(MessageType)
      BY DEF AnswerInv, ProcessInv, LedgerInv, TypeInv, TypeOK
    <2>2. Len(events') = Len(events) - 1 /\ Len(events) \in Nat /\ Len(events) # 0
      BY <2>1
    <2> QED
      BY <2>1, <2>2
  <1>2. m.at \in Slots /\ m.epoch \in Epochs /\ what \in Jobs
    BY <1>1, AnswerTypes
  <1>3. Sent(m.epoch, what)
    BY <1>1, <1>2 DEF Sent, Answers
  <1>4. ASSUME NEW e \in Epochs PROVE ~Sent(e, what)'
    <2>1. what \notin proc'[e].jobs
      BY <1>1 DEF AnswerInv, SentOnce
    <2>2. ASSUME NEW n \in 1..Len(events') PROVE ~Answers(events'[n], e, what)
      <3>1. events'[n] = events[n + 1] /\ n + 1 \in 1..Len(events) /\ n + 1 # 1
        BY <1>1
      <3> QED
        BY <1>1, <3>1 DEF AnswerInv, SentOnce, Answers
    <2> QED
      BY <2>1, <2>2 DEF Sent
  <1>5. /\ answers'[what] = Append(answers[what], kind)
        /\ \A j \in Jobs \ {what} : answers'[j] = answers[j]
    BY <1>1, <1>2, AnswerEffect
  <1>6. \/ answers[what] = <<>> /\ what \in slot[m.at].inFlight
        \/ answers[what] = <<"Failed">> /\ kind = "Cancelled" /\ \A k \in Slots : what \notin slot[k].inFlight
    <2>1. \A k \in Slots : what \in slot[k].inFlight => answers[what] = <<>>
      BY <1>2 DEF AnswerInv, Unanswered, Held
    <2>2. slot[m.at].epoch = m.epoch
      BY DEF Current
    <2>3. what \in slot[m.at].inFlight \/ answers[what] = <<"Failed">>
      BY <1>2, <1>3, <2>2 DEF AnswerInv, Holds
    <2>4. <<>> # <<"Failed">>
      OBVIOUS
    <2> QED
      BY <1>2, <2>1, <2>3, <2>4
  <1>7. AnsweredOnce'
    <2>1. Append(<<"Failed">>, "Cancelled") = <<"Failed", "Cancelled">>
      BY SecondAnswer DEF AnswerKinds
    <2>2. Len(answers'[what]) <= 1 \/ answers'[what] = <<"Failed", "Cancelled">>
      <3>1. CASE answers[what] = <<>>
        <4>1. answers'[what] = <<kind>> /\ Len(<<kind>>) = 1
          BY <1>5, <3>1, FirstAnswer
        <4> QED
          BY <4>1
      <3>2. CASE answers[what] = <<"Failed">> /\ kind = "Cancelled"
        BY <1>5, <2>1, <3>2
      <3> QED
        BY <1>6, <3>1, <3>2
    <2> HIDE DEF what
    <2> QED
      BY <1>5, <2>2 DEF AnswerInv, AnsweredOnce
  <1>8. ASSUME NEW j \in Jobs, Free(j)' \/ Held(j)' PROVE j # what
    <2>1. ~Free(what)
      BY <1>2, <1>3 DEF AnswerInv, Unsent
    <2>2. \A k \in Slots : what \notin slot'[k].inFlight
      <3>1. \A k, l \in Slots : k # l => slot[k].inFlight \cap slot[l].inFlight = {}
        BY DEF AnswerInv, ProcessInv, LedgerInv, OneHome
      <3>2. \A k \in Slots \ {m.at} : what \notin slot[k].inFlight
        BY <1>2, <1>6, <3>1
      <3> QED
        BY <3>2
    <2> QED
      BY <1>8, <2>1, <2>2, FreeSame DEF Held
  <1>9. ASSUME NEW k \in Slots, NEW e \in Epochs, NEW j \in Jobs, slot'[k].epoch = e, Sent(e, j)'
        PROVE  /\ slot[k].epoch = e /\ (slot'[k].alive => slot[k].alive)
               /\ \/ j \in slot'[k].inFlight
                  \/ j \notin slot[k].inFlight /\ answers'[j] = answers[j]
    <2>1. j # what
      BY <1>4, <1>9
    <2> QED
      BY <1>5, <1>9, <2>1
  <1>10. /\ \A j \in Jobs : Free(j)' \/ Held(j)' => answers'[j] = answers[j]
         /\ \A k \in Slots : slot'[k].inFlight \subseteq slot[k].inFlight
         /\ OpensOnce'
    BY <1>5, <1>8, OpensSame
  <1> HIDE DEF what
  <1> QED
    BY <1>7, <1>9, <1>10, FreeSame, AnswerKept

LEMMA AnswerKillDoomed ==
  ASSUME AnswerInv, ProcessInv', NEW i \in Slots, KillDoomed(i) PROVE AnswerInv'
  <1>1. /\ Kill(slot, i) /\ i \in todo /\ pc = "kill"
        /\ UNCHANGED <<queue, owed, next, picture, reports, reported, events>>
    BY DEF KillDoomed, First
  <1>2. TypeInv /\ SentOnce /\ slot \in [Slots -> SlotType] /\ Placed(slot, proc) /\ slot[i].alive
    BY <1>1 DEF AnswerInv, ProcessInv, LedgerInv, TypeInv, TypeOK, Visits
  <1>3. \A e \in Epochs : proc'[e].jobs \subseteq proc[e].jobs
    <2>1. Owners /\ epochs \in Int
      BY <1>2 DEF AnswerInv, ProcessInv, TypeInv, TypeOK, Epochs
    <2>2. \A e \in Epochs : Content(e) \/ proc'[e].jobs = {}
      BY <1>1, <1>2, <2>1, KillEffect
    <2> QED
      BY <2>2 DEF Content
  <1>4. SentOnce' /\ \A e \in Epochs : \A j \in Jobs : Sent(e, j)' => Sent(e, j)
    BY <1>1, <1>2, <1>3, SentSame
  <1>5. \A n \in 1..Len(events') : events'[n].kind \in RenderAnswers =>
          \E k \in 1..Len(events) : events'[n] = events[k]
    BY <1>1
  <1> QED
    BY <1>1, <1>2, <1>4, <1>5, AnswerKill

LEMMA AnswerHandleMessage == ASSUME AnswerInv, ProcessInv', HandleMessage PROVE AnswerInv'
  <1> DEFINE m == Head(events)
             heard == Heard(m)
  <1>1. /\ TypeInv /\ SentOnce /\ Owners /\ events \in Seq(MessageType) /\ events # <<>>
        /\ events' = Tail(events) /\ slot \in [Slots -> SlotType] /\ Placed(slot, proc)
        /\ UNCHANGED <<next, queue, owed>>
    BY DEF HandleMessage, AnswerInv, ProcessInv, LedgerInv, TypeInv, TypeOK
  <1>2. /\ m \in MessageType /\ m = events[1] /\ 1 \in 1..Len(events) /\ Len(events') \in Nat
        /\ \A n \in 1..Len(events') : n + 1 \in 1..Len(events) /\ events'[n] = events[n + 1]
    <2>1. Len(events') = Len(events) - 1 /\ Len(events) \in Nat /\ Len(events) # 0
      BY <1>1
    <2> QED
      BY <1>1, <2>1
  <1>3. \A n \in 1..Len(events') : events'[n].kind \in RenderAnswers =>
          \E k \in 1..Len(events) : events'[n] = events[k]
    BY <1>2
  <1>4. ASSUME \A e \in Epochs : proc'[e].jobs \subseteq proc[e].jobs
        PROVE  SentOnce' /\ \A e \in Epochs : \A j \in Jobs : Sent(e, j)' => Sent(e, j)
    BY <1>1, <1>2, <1>4, SentFewer
  <1>5. /\ heard \in [Slots -> SlotType] /\ m.at \in Slots
        /\ \A k \in Slots : /\ heard[k].inFlight = slot[k].inFlight
                            /\ heard[k].alive = slot[k].alive /\ heard[k].epoch = slot[k].epoch
    BY <1>1, <1>2, HeardSlot, HeardEffect
  <1>6. m.kind \in RenderAnswers => m.what \in Jobs
    BY <1>2, MessageKind
  <1>7. ASSUME slot' \in {slot, heard}, UNCHANGED <<proc, answers, picture>>, OpensOnce'
        PROVE  AnswerInv'
    <2>1. \A k \in Slots : /\ slot'[k].inFlight = slot[k].inFlight
                           /\ slot'[k].epoch = slot[k].epoch /\ slot'[k].alive = slot[k].alive
      BY <1>5, <1>7
    <2>2. SentOnce' /\ \A e \in Epochs : \A j \in Jobs : Sent(e, j)' => Sent(e, j)
      BY <1>4, <1>7
    <2> HIDE DEF m, heard
    <2> QED
      BY <1>1, <1>3, <1>7, <2>1, <2>2, FreeSame, AnswerCalm
  <1>8. ASSUME m.kind \in RenderAnswers, Current(m), slot' = Finished(heard, m.at, m.what),
               NEW kind \in AnswerKinds, Answer({m.what}, kind),
               m.what \in slot[m.at].inFlight \/ kind = "Cancelled",
               UNCHANGED <<proc, reports, reported>>, PictureOwn'
        PROVE  AnswerInv'
    <2>1. \A k \in Slots :
            /\ slot'[k].epoch = slot[k].epoch /\ slot'[k].alive = slot[k].alive
            /\ slot'[k].inFlight = IF k = m.at THEN slot[k].inFlight \ {m.what} ELSE slot[k].inFlight
      <3> HIDE DEF m, heard
      <3>1. /\ \A k \in Slots :
                 /\ slot'[k].epoch = heard[k].epoch /\ slot'[k].alive = heard[k].alive
                 /\ k # m.at => slot'[k].inFlight = heard[k].inFlight
            /\ slot'[m.at].inFlight = heard[m.at].inFlight \ {m.what}
        BY <1>5, <1>8, FinishedSlot
      <3> QED
        BY <1>5, <3>1
    <2>2. SentOnce' /\ \A e \in Epochs : \A j \in Jobs : Sent(e, j)' => Sent(e, j)
      BY <1>4, <1>8
    <2>3. m = Head(events)
      OBVIOUS
    <2> HIDE DEF m, heard
    <2> QED
      BY <1>1, <1>3, <1>8, <2>1, <2>2, <2>3, AnswerRead
  <1>9. UNCHANGED <<reports, reported>> => OpensOnce'
    BY OpensSame
  <1>10. UNCHANGED picture => PictureOwn'
    BY DEF AnswerInv, PictureOwn
  <1>11. CASE Current(m) /\ m.kind = "Rendered" /\ HandleRendered(m, heard)
              /\ UNCHANGED <<proc, reports, reported>>
    <2>1. CASE m.what \notin slot[m.at].inFlight
      BY <1>5, <1>7, <1>9, <1>11, <2>1 DEF HandleRendered
    <2>2. CASE m.what \in slot[m.at].inFlight /\ Generation[m.what] < floor
      BY <1>5, <1>8, <1>10, <1>11, <2>2 DEF HandleRendered, RenderAnswers, AnswerKinds
    <2>3. CASE m.what \in slot[m.at].inFlight /\ ~(Generation[m.what] < floor)
      <3>1. picture' = [picture EXCEPT ![m.what] =
                          IF Inline(m.what) THEN @ ELSE proc[m.epoch].region]
        BY <1>5, <1>11, <2>3 DEF HandleRendered
      <3>2. ~Inline(m.what) => proc[m.epoch].region = m.what
        <4>1. slot[m.at].epoch = m.epoch
          BY <1>11 DEF Current
        <4>2. DrawnFor(m, m.at)
          BY <1>2, <1>5 DEF AnswerInv, Drawn
        <4> QED
          BY <1>11, <2>3, <4>1, <4>2 DEF DrawnFor
      <3>3. PictureOwn'
        <4>1. picture[m.what] = m.what /\ \A j \in Jobs : picture[j] = j
          BY <1>6, <1>11 DEF AnswerInv, PictureOwn, RenderAnswers
        <4>2. \A j \in Jobs : picture'[j] = picture[j]
          <5> HIDE DEF m
          <5> QED
            BY <1>1, <3>1, <3>2, <4>1 DEF TypeInv, TypeOK
        <4> QED
          BY <4>1, <4>2 DEF PictureOwn
      <3> QED
        BY <1>5, <1>8, <1>11, <2>3, <3>3 DEF HandleRendered, RenderAnswers, AnswerKinds
    <2> QED
      BY <2>1, <2>2, <2>3
  <1>12. CASE Current(m) /\ m.kind = "RenderFailed" /\ HandleFailed(m, heard)
              /\ UNCHANGED <<proc, reports, reported>>
    <2>1. CASE m.what \notin slot[m.at].inFlight
      BY <1>5, <1>7, <1>9, <1>12, <2>1 DEF HandleFailed
    <2>2. CASE m.what \in slot[m.at].inFlight
      BY <1>5, <1>8, <1>10, <1>12, <2>2 DEF HandleFailed, RenderAnswers, AnswerKinds
    <2> QED
      BY <2>1, <2>2
  <1>13. CASE Current(m) /\ m.kind = "Cancelled" /\ HandleCancelled(m, heard)
              /\ UNCHANGED <<proc, reports, reported>>
    BY <1>8, <1>10, <1>13 DEF HandleCancelled, RenderAnswers, AnswerKinds
  <1>14. CASE Current(m) /\ m.kind = "Opened" /\ HandleOpened(m, heard)
              /\ UNCHANGED <<proc, answers, picture>>
    <2>1. OpensOnce'
      <3>1. reports \in [Docs -> Nat] /\ m.what \in Docs
        BY <1>1, <1>2, <1>14, MessageKind DEF TypeInv, TypeOK
      <3> HIDE DEF m, heard
      <3> QED
        BY <1>14, <3>1 DEF HandleOpened, AnswerInv, OpensOnce
    <2> QED
      BY <1>7, <1>14, <2>1 DEF HandleOpened
  <1>15. CASE Current(m) /\ m.kind = "Died" /\ slot[m.at].alive /\ Kill(heard, m.at)
              /\ UNCHANGED <<reported, picture, reports>>
    <2> HIDE DEF m, heard
    <2>1. Placed(heard, proc)
      BY <1>1, <1>5 DEF Placed
    <2>2. \A e \in Epochs : proc'[e].jobs \subseteq proc[e].jobs
      <3>1. epochs \in Int
        BY <1>1 DEF TypeInv, TypeOK, Epochs
      <3>2. \A e \in Epochs : Content(e) \/ proc'[e].jobs = {}
        BY <1>1, <1>5, <1>15, <2>1, <3>1, KillEffect
      <3> QED
        BY <3>2 DEF Content
    <2>3. SentOnce' /\ \A e \in Epochs : \A j \in Jobs : Sent(e, j)' => Sent(e, j)
      BY <1>4, <2>2
    <2> QED
      BY <1>1, <1>3, <1>5, <1>15, <2>1, <2>3, AnswerKill
  <1> QED
    BY <1>7, <1>9, <1>11, <1>12, <1>13, <1>14, <1>15 DEF HandleMessage, HandleAnswer, app

-----------------------------------------------------------------------------
(* The processes, and time. *)

(* A process answers a job: it says so, and a large frame takes its region. *)
LEMMA AnswerReplyJob ==
  ASSUME AnswerInv, ProcessInv', NEW e \in Epochs, NEW j \in Jobs, NEW kind \in RenderAnswers,
         ReplyJob(e, j, kind), UNCHANGED <<super, app>>
  PROVE  AnswerInv'
  <1> DEFINE m == [at |-> proc[e].at, epoch |-> e, kind |-> kind, what |-> j]
             last == Len(events) + 1
             region == IF Inline(j) THEN proc[e].region ELSE j
             now == [proc[e] EXCEPT !.jobs = @ \ {j}, !.stoppable = @ \ {j}, !.region = region]
  <1>1. /\ TypeInv /\ proc \in [Epochs -> ProcType] /\ events \in Seq(MessageType)
        /\ UNCHANGED <<slot, queue, owed, next, answers, picture, reports, reported>>
    BY DEF AnswerInv, ProcessInv, LedgerInv, TypeInv, TypeOK, super, app
  <1>2. /\ proc' = [proc EXCEPT ![e] = now] /\ events' = Append(events, m)
        /\ j \in proc[e].jobs
    BY DEF ReplyJob, Send
  <1>3. m.epoch = e /\ m.kind = kind /\ m.what = j
    OBVIOUS
  <1> HIDE DEF m, region
  <1>4. now.jobs = proc[e].jobs \ {j} /\ now.region = region
    BY <1>1 DEF ProcType
  <1> HIDE DEF now
  <1>5. /\ proc'[e].jobs = proc[e].jobs \ {j} /\ proc'[e].region = region
        /\ \A f \in Epochs \ {e} : proc'[f] = proc[f]
    BY <1>1, <1>2, <1>4
  <1>6. /\ last \in 1..last /\ Len(events') = last /\ events'[last] = m
        /\ \A n \in 1..Len(events) : events'[n] = events[n] /\ n # last
        /\ 1..last = 1..Len(events) \cup {last}
    BY <1>1, <1>2
  <1> HIDE DEF last
  <1>7. \A n \in 1..Len(events) : events[n].kind \in RenderAnswers => events[n].what # j
    BY <1>2 DEF AnswerInv, SentOnce
  <1>8. \A f \in Epochs : j \notin proc'[f].jobs
    BY <1>2, <1>5 DEF AnswerInv, SentOnce
  <1>9. ASSUME NEW f \in Epochs, NEW k \in Jobs, Sent(f, k)' PROVE Sent(f, k)
    <2>1. CASE k \in proc'[f].jobs
      BY <1>5, <2>1 DEF Sent
    <2>2. ASSUME NEW n \in 1..last, Answers(events'[n], f, k) PROVE Sent(f, k)
      <3>1. CASE n = last
        BY <1>2, <1>3, <1>6, <2>2, <3>1 DEF Sent, Answers
      <3>2. CASE n \in 1..Len(events)
        BY <1>6, <2>2, <3>2 DEF Sent
      <3> QED
        BY <1>6, <3>1, <3>2
    <2> QED
      BY <1>6, <1>9, <2>1, <2>2 DEF Sent
  <1>10. SentOnce'
    <2>1. \A f, g \in Epochs : f # g => proc'[f].jobs \cap proc'[g].jobs = {}
      BY <1>5 DEF AnswerInv, SentOnce
    <2>2. ASSUME NEW n \in 1..last, events'[n].kind \in RenderAnswers
          PROVE  /\ \A f \in Epochs : events'[n].what \notin proc'[f].jobs
                 /\ \A k \in 1..last :
                      events'[k].kind \in RenderAnswers /\ events'[k].what = events'[n].what => k = n
      <3>1. CASE n = last
        BY <1>3, <1>6, <1>7, <1>8, <3>1
      <3>2. CASE n \in 1..Len(events)
        <4>1. events[n].what # j /\ events'[n] = events[n]
          BY <1>6, <1>7, <2>2, <3>2
        <4>2. \A f \in Epochs : events[n].what \notin proc'[f].jobs
          BY <1>5, <2>2, <3>2, <4>1 DEF AnswerInv, SentOnce
        <4>3. ASSUME NEW k \in 1..last, events'[k].kind \in RenderAnswers,
                     events'[k].what = events'[n].what
              PROVE  k = n
          <5>1. k # last
            BY <1>3, <1>6, <4>1, <4>3
          <5>2. k \in 1..Len(events) /\ events'[k] = events[k]
            BY <1>6, <5>1
          <5> QED
            BY <2>2, <3>2, <4>1, <4>3, <5>2 DEF AnswerInv, SentOnce
        <4> QED
          BY <4>1, <4>2, <4>3
      <3> QED
        BY <1>6, <3>1, <3>2
    <2> QED
      BY <1>6, <2>1, <2>2 DEF SentOnce
  <1>11. Unsent' /\ Holds'
    BY <1>1, <1>9 DEF AnswerInv, Unsent, Holds, Free, Owed
  <1>12. Unanswered' /\ OneBig' /\ OpensOnce' /\ AnsweredOnce' /\ PictureOwn'
    BY <1>1
       DEF AnswerInv, Unanswered, Free, Held, Owed, OneBig, OpensOnce, AnsweredOnce, PictureOwn
  <1>13. Drawn'
    <2> SUFFICES ASSUME NEW n \in 1..last, NEW i \in Slots,
                        events'[n].kind = "Rendered", slot[i].epoch = events'[n].epoch,
                        events'[n].what \in slot[i].inFlight, ~Inline(events'[n].what)
                 PROVE  proc'[events'[n].epoch].region = events'[n].what
      BY <1>1, <1>6 DEF Drawn, DrawnFor
    <2>1. CASE n = last
      BY <1>3, <1>5, <1>6, <2>1 DEF region
    <2>2. CASE n \in 1..Len(events)
      <3>1. /\ events'[n] = events[n] /\ events[n].kind \in RenderAnswers
            /\ events[n].epoch \in Epochs
        BY <1>1, <1>6, <2>2, AnswerTypes DEF RenderAnswers
      <3>2. proc[events[n].epoch].region = events[n].what
        BY <2>2, <3>1 DEF AnswerInv, Drawn, DrawnFor
      <3>3. CASE events[n].epoch # e \/ Inline(j)
        BY <1>5, <3>1, <3>2, <3>3 DEF region
      <3>4. CASE events[n].epoch = e /\ ~Inline(j)
        <4>1. Sent(e, j) /\ slot[i].epoch = e
          BY <1>2, <3>1, <3>4 DEF Sent
        <4>2. slot[i].alive
          BY <3>1 DEF AnswerInv, ProcessInv, LedgerInv, OneHome, Live
        <4>3. j \in slot[i].inFlight
          BY <4>1, <4>2 DEF AnswerInv, Holds
        <4>4. events[n].what = j
          BY <3>1, <3>4, <4>3 DEF AnswerInv, OneBig
        <4> QED
          BY <1>7, <2>2, <3>1, <4>4
      <3> QED
        BY <3>3, <3>4
    <2> QED
      BY <1>6, <2>1, <2>2
  <1> QED
    BY <1>10, <1>11, <1>12, <1>13 DEF AnswerInv

(* Any other message of a process says nothing of a job. *)
LEMMA AnswerSteps ==
  ASSUME AnswerInv, ProcessInv', NEW e \in Epochs, Process(e) \/ Crash(e) \/ Hang(e) \/ Resume(e)
  PROVE  AnswerInv'
  <1>1. /\ TypeInv /\ SentOnce /\ proc \in [Epochs -> ProcType] /\ events \in Seq(MessageType)
        /\ UNCHANGED <<super, app>>
        /\ UNCHANGED <<slot, queue, owed, next, answers, picture, reports, reported>>
    BY DEF AnswerInv, ProcessInv, LedgerInv, TypeInv, TypeOK, super, app, Process, Crash, Hang, Resume
  <1>2. ASSUME NEW now, proc' = [proc EXCEPT ![e] = now], now.jobs \subseteq proc[e].jobs,
               now.region = proc[e].region, NEW m, m.kind \notin RenderAnswers,
               events' = events \/ events' = Append(events, m)
        PROVE  AnswerInv'
    <2>1. \A f \in Epochs : proc'[f].jobs \subseteq proc[f].jobs /\ proc'[f].region = proc[f].region
      BY <1>1, <1>2
    <2>2. /\ Len(events') \in Nat
          /\ \A n \in 1..Len(events') : events'[n].kind \in RenderAnswers =>
               n \in 1..Len(events) /\ events'[n] = events[n] /\ n + 0 = n
      BY <1>1, <1>2
    <2>3. SentOnce' /\ \A f \in Epochs : \A j \in Jobs : Sent(f, j)' => Sent(f, j)
      <3>1. \A n \in 1..Len(events') : events'[n].kind \in RenderAnswers =>
               n + 0 \in 1..Len(events) /\ events'[n] = events[n + 0]
        BY <2>2
      <3> QED
        BY <1>1, <2>1, <2>2, <3>1, SentFewer
    <2> QED
      BY <1>1, <2>1, <2>2, <2>3, FreeSame, OpensSame, AnswerCalm
  <1>3. ASSUME NEW j \in Jobs, NEW kind \in RenderAnswers, ReplyJob(e, j, kind) PROVE AnswerInv'
    BY <1>1, <1>3, AnswerReplyJob
  <1>4. ASSUME NEW q \in Questions, ReplyQuestion(e, q) PROVE AnswerInv'
    <2> DEFINE now == [proc[e] EXCEPT !.asks = @ \ {q}]
               m == [at |-> proc[e].at, epoch |-> e, kind |-> "Answer", what |-> q]
    <2>1. /\ proc' = [proc EXCEPT ![e] = now] /\ events' = Append(events, m)
          /\ m.kind \notin RenderAnswers
      BY <1>4 DEF ReplyQuestion, Send, RenderAnswers
    <2>2. now.jobs \subseteq proc[e].jobs /\ now.region = proc[e].region
      BY <1>1 DEF ProcType
    <2> HIDE DEF now, m
    <2> QED
      BY <1>2, <2>1, <2>2
  <1>5. ASSUME NEW d \in Docs, ReplyOpen(e, d) PROVE AnswerInv'
    <2> DEFINE opening == [proc[e].opening EXCEPT ![d] = @ - 1]
               now == [proc[e] EXCEPT !.opening = opening]
               m == [at |-> proc[e].at, epoch |-> e, kind |-> "Opened", what |-> d]
    <2>1. /\ proc' = [proc EXCEPT ![e] = now] /\ events' = Append(events, m)
          /\ m.kind \notin RenderAnswers
      BY <1>5 DEF ReplyOpen, Send, RenderAnswers
    <2> HIDE DEF opening
    <2>2. now.jobs \subseteq proc[e].jobs /\ now.region = proc[e].region
      BY <1>1 DEF ProcType
    <2> HIDE DEF now, m
    <2> QED
      BY <1>2, <2>1, <2>2
  <1>6. CASE ReaderEnd(e)
    <2> DEFINE now == [NoProcess EXCEPT !.run = "closed", !.at = proc[e].at, !.region = proc[e].region]
               m == [at |-> proc[e].at, epoch |-> e, kind |-> "Died", what |-> None]
    <2>1. /\ proc' = [proc EXCEPT ![e] = now] /\ events' = Append(events, m)
          /\ m.kind \notin RenderAnswers
      BY <1>6 DEF ReaderEnd, Send, RenderAnswers
    <2>2. now.jobs \subseteq proc[e].jobs /\ now.region = proc[e].region
      BY DEF NoProcess
    <2> HIDE DEF now, m
    <2> QED
      BY <1>2, <2>1, <2>2
  <1>7. ASSUME NEW run, proc' = [proc EXCEPT ![e].run = run], UNCHANGED events PROVE AnswerInv'
    <2>1. ASSUME NEW f \in Epochs
          PROVE  proc'[f].jobs = proc[f].jobs /\ proc'[f].region = proc[f].region
      <3>1. proc'[f] = proc[f] \/ proc'[f] = [proc[f] EXCEPT !.run = run]
        BY <1>1, <1>7
      <3> QED
        BY <1>1, <3>1 DEF ProcType
    <2> QED
      BY <1>1, <1>7, <2>1, FreeSame, OpensSame, AnswerQuiet
  <1> QED
    BY <1>3, <1>4, <1>5, <1>6, <1>7 DEF Process, Crash, Hang, Resume

LEMMA AnswerTime ==
  ASSUME AnswerInv, ProcessInv', NEW i \in Slots, SilencePasses(i) \/ BackoffPasses(i)
  PROVE  AnswerInv'
  <1>1. /\ slot \in [Slots -> SlotType]
        /\ UNCHANGED <<queue, owed, next, events, proc, answers, picture, reports, reported>>
    BY DEF AnswerInv, ProcessInv, LedgerInv, TypeInv, TypeOK, SilencePasses, BackoffPasses, app
  <1>2. ASSUME NEW k \in Slots
        PROVE  /\ slot'[k].inFlight = slot[k].inFlight /\ slot'[k].epoch = slot[k].epoch
               /\ slot'[k].alive = slot[k].alive
    <2>1. \/ slot'[k] = slot[k] \/ slot'[k] = [slot[k] EXCEPT !.silent = TRUE]
          \/ slot'[k] = [slot[k] EXCEPT !.backoff = "due"]
      BY <1>1 DEF SilencePasses, BackoffPasses
    <2> QED
      BY <1>1, <2>1 DEF SlotType
  <1> QED
    BY <1>1, <1>2, FreeSame, OpensSame, AnswerQuiet

-----------------------------------------------------------------------------
LEMMA AnswerNext == AnswerInv /\ [Next]_vars => AnswerInv'
  <1> SUFFICES ASSUME AnswerInv, [Next]_vars PROVE AnswerInv'
    OBVIOUS
  <1>0. ProcessInv'
    BY ProcessNext DEF AnswerInv
  <1>1. CASE Pump
    BY <1>0, <1>1, AnswerPhase, AnswerHandleMessage, AnswerRetire, AnswerKillDoomed,
       AnswerRetryBackoff, AnswerDispatch, AnswerDispatchUnsized, AnswerGrow, AnswerDispatchEnd
       DEF Pump
  <1>2. CASE Application
    BY <1>0, <1>2, AnswerRender, AnswerAsk, AnswerDocuments DEF Application
  <1>3. CASE Environment
    BY <1>0, <1>3, AnswerSteps, AnswerTime DEF Environment
  <1>4. CASE UNCHANGED vars
    <2>1. UNCHANGED <<slot, queue, owed, next, proc, events, answers, picture, reports, reported>>
      BY <1>4 DEF vars, super, app
    <2> QED
      BY <1>0, <2>1, FreeSame, OpensSame, AnswerQuiet
  <1> QED
    BY <1>1, <1>2, <1>3, <1>4 DEF Next

LEMMA AnswerCorrect == Spec => []AnswerInv
  BY AnswerInit, AnswerNext, PTL DEF Spec

(* Whatever crashes, is replayed or is acknowledged late, the application is *)
(* told of a job once and of an open once; the only second word is the late  *)
(* acknowledgement of a job that failed with its worker (handle,             *)
(* take_pending, reported_open).                                             *)
THEOREM NothingSaidTwice == Spec => []SaidOnce
  <1>1. AnswerInv => SaidOnce
    BY DEF AnswerInv, SaidOnce, OpensOnce, ReportedOnce
  <1> QED
    BY <1>1, AnswerCorrect, PTL

(* A frame copied out of the shared region holds the pixels of its own job:  *)
(* one large frame at a time is out with a worker, and what it announces is  *)
(* copied while the region still holds it (eligible, handle).                *)
THEOREM PicturesAreOwn == Spec => []PictureOwn
  <1>1. AnswerInv => PictureOwn
    BY DEF AnswerInv
  <1> QED
    BY <1>1, AnswerCorrect, PTL
=============================================================================
