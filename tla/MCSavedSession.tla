--------------------------- MODULE MCSavedSession ---------------------------
(* Instances of SavedSession for TLC. *)
EXTENDS SavedSession
=============================================================================
