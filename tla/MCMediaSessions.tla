-------------------------- MODULE MCMediaSessions --------------------------
(* Instances of MediaSessions for TLC: two overlays that share page 1, a    *)
(* page 2 with none, and two runtimes that can play both.                   *)
EXTENDS MediaSessions

MCPageOf == [o \in Overlays |-> 1]
(* Overlay 1 plays, overlay 2 is a still. *)
MCFrameCount == [o \in Overlays |-> IF o = 1 THEN 3 ELSE 1]
MCRuntimes == <<"mpv", "web">>
=============================================================================
