----------------------------- MODULE MCDocReload -----------------------------
(* Instances of DocReload for TLC.  Workers read and answer alike. *)
EXTENDS DocReload, TLC

Alike == Permutations(Workers)
=============================================================================
