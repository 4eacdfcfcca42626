--------------------------- MODULE MCRenderWorker ---------------------------
(* Instances of RenderWorker for TLC. *)
EXTENDS RenderWorker

(* Job 1 is a thumbnail, the others are frames a window waits for. *)
MCPriority == [j \in Jobs |-> IF j = 1 THEN 3 ELSE 0]
(* All of one document. *)
MCDocOf == [j \in Jobs |-> CHOOSE d \in Docs : TRUE]
=============================================================================
