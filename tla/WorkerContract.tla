--------------------------- MODULE WorkerContract ---------------------------
(***************************************************************************)
(* What the supervisor may count on from one renderer process, whatever    *)
(* goes on inside it: every job it was handed is replied to exactly once,  *)
(* with Cancelled only if it was told to stop since it was handed the job, *)
(* and every question and every Open is answered once.                     *)
(*                                                                         *)
(* RenderPool uses this contract for its processes; RenderWorker, which    *)
(* models crates/pulpit-render/src/worker.rs, implements it.               *)
(***************************************************************************)
EXTENDS Naturals

CONSTANTS Jobs, Questions, Docs

VARIABLES
  held,       \* jobs handed over and not replied to
  stoppable,  \* those the process was told to stop since it was handed them
  asked,      \* questions not answered
  opening,    \* documents it was told to open and has not answered for
  reply       \* the reply each job got, or "none"

vars == <<held, stoppable, asked, opening, reply>>

Init ==
  /\ held = {} /\ stoppable = {} /\ asked = {} /\ opening = {}
  /\ reply = [j \in Jobs |-> "none"]

Hand(j) ==
  /\ reply[j] = "none" /\ j \notin held
  /\ held' = held \cup {j}
  /\ UNCHANGED <<stoppable, asked, opening, reply>>

Stop(S) ==
  /\ stoppable' = stoppable \cup (S \cap held)
  /\ UNCHANGED <<held, asked, opening, reply>>

Put(q) ==
  /\ asked' = asked \cup {q}
  /\ UNCHANGED <<held, stoppable, opening, reply>>

Open(d) ==
  /\ opening' = opening \cup {d}
  /\ UNCHANGED <<held, stoppable, asked, reply>>

Reply(j, kind) ==
  /\ j \in held
  /\ kind = "Cancelled" => j \in stoppable
  /\ held' = held \ {j}
  /\ stoppable' = stoppable \ {j}
  /\ reply' = [reply EXCEPT ![j] = kind]
  /\ UNCHANGED <<asked, opening>>

Answer(q) ==
  /\ q \in asked
  /\ asked' = asked \ {q}
  /\ UNCHANGED <<held, stoppable, opening, reply>>

Opened(d) ==
  /\ d \in opening
  /\ opening' = opening \ {d}
  /\ UNCHANGED <<held, stoppable, asked, reply>>

Next ==
  \/ \E j \in Jobs : Hand(j) \/ \E kind \in {"Rendered", "RenderFailed", "Cancelled"} : Reply(j, kind)
  \/ \E S \in SUBSET Jobs : Stop(S)
  \/ \E q \in Questions : Put(q) \/ Answer(q)
  \/ \E d \in Docs : Open(d) \/ Opened(d)

Spec == Init /\ [][Next]_vars

(* No job is left without a reply. *)
Fairness == \A j \in Jobs : WF_vars(\E kind \in {"Rendered", "RenderFailed", "Cancelled"} : Reply(j, kind))
FairSpec == Spec /\ Fairness
=============================================================================
