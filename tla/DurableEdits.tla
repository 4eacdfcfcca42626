---------------------------- MODULE DurableEdits ----------------------------
(***************************************************************************)
(* What the edit journal promises, without the queues that keep it: while  *)
(* the reader has not been told otherwise, every edit the reader has been  *)
(* told of is on disk, in order, relative to a file that lacks exactly     *)
(* those edits.                                                            *)
(***************************************************************************)
EXTENDS Naturals, Sequences, SequencesExt

VARIABLES
  log,     \* the edits the reader has been told of, since the file they change
  kept,    \* the edits on disk
  covered  \* nothing has been said about edits no longer being recorded

vars == <<log, kept, covered>>

Init == log = <<>> /\ kept = <<>> /\ covered \in BOOLEAN

(* One more edit is told. *)
Tell == log' # <<>> /\ Front(log') = log

(* It is recorded in the same step. *)
Record ==
  /\ covered /\ Tell
  /\ kept' = Append(kept, Last(log'))
  /\ UNCHANGED covered

(* It is not, and the reader is told that too. *)
Uncover ==
  /\ Tell /\ covered' = FALSE
  /\ UNCHANGED kept

(* A copy holds the first n edits: what is kept is kept relative to it. *)
Save(n) ==
  /\ log' = SubSeq(log, n + 1, Len(log))
  /\ IF covered \/ covered' THEN kept' = log' ELSE UNCHANGED kept

(* The document is put down; a journal is begun for the next one. *)
PutDown ==
  /\ log' = <<>>
  /\ \/ kept' = <<>>
     \/ ~covered' /\ kept' = kept

Next ==
  \/ Record \/ Uncover
  \/ \E n \in 0..Len(log) : Save(n)
  \/ PutDown

Spec == Init /\ [][Next]_vars

(* While edits are covered, what is kept is what was told: recovery puts    *)
(* back exactly the edits the file it starts from lacks.                    *)
NothingLost == covered => kept = log
=============================================================================
