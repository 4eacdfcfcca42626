---------------------------- MODULE MCEditSession ----------------------------
(* Instances of EditSession for TLC. *)
EXTENDS EditSession
=============================================================================
