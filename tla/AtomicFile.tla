----------------------------- MODULE AtomicFile -----------------------------
(***************************************************************************)
(* A file that is only ever replaced or removed: what a reader sees of it, *)
(* and what a power loss may leave.                                        *)
(*                                                                         *)
(* Source: crates/pulpit-render/src/atomic.rs.  A process that dies before *)
(* the rename leaves a temporary file nobody reads, and nothing else.      *)
(***************************************************************************)
EXTENDS Naturals

CONSTANTS
  Missing,  \* there is no file
  Torn      \* a file nobody can read

File(content) == [seen |-> content, kept |-> {content}]

(* write_and_sync comes before promote: a name given to bytes that were     *)
(* never synced may be left without them.                                  *)
MutantSynced == FALSE
Synced == TRUE

(* promote, up to the rename *)
Renamed(file, content) ==
  [seen |-> content,
   kept |-> file.kept \cup {content} \cup (IF Synced THEN {} ELSE {Torn})]

(* promote syncs the directory: the name is there to stay. *)
Settled(file) == [file EXCEPT !.kept = @ \cap {file.seen, Torn}]

(* remove_file syncs nothing. *)
Removed(file) == [seen |-> Missing, kept |-> file.kept \cup {Missing}]

(* The power goes and comes back. *)
AfterPowerLoss(file) == {File(content) : content \in file.kept}
=============================================================================
