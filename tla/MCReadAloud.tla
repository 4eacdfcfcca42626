---------------------------- MODULE MCReadAloud ----------------------------
(* Instances of ReadAloud for TLC: a blank page, a page of two sentences    *)
(* and a selection of one.                                                  *)
EXTENDS ReadAloud

MCSentenceCount == [page \in 0..Pages |-> CASE page = 0 -> 1 [] page = 1 -> 0 [] OTHER -> 2]
=============================================================================
