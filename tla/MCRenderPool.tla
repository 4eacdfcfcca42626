---------------------------- MODULE MCRenderPool ----------------------------
(* Instances of RenderPool for TLC. *)
EXTENDS RenderPool

(* Jobs 1 and 3 are presentation frames, job 2 is a reader page (its         *)
(* generation is above every floor) and outranks them.                       *)
MCGeneration == [j \in Jobs |-> IF j = 2 THEN 9 ELSE IF j = 1 THEN 0 ELSE 1]
MCPriority == [j \in Jobs |-> IF j = 2 THEN 0 ELSE 1]

(* Jobs 1 and 2 go through the shared region, job 3 travels inline. *)
MCBytes == [j \in Jobs |-> IF j = 3 THEN 2 ELSE 4]

(* Each question has an answer of its own. *)
MCOwnTopic == [q \in Questions |-> q]
=============================================================================
