---------------------------- MODULE MCSearchScan ----------------------------
(* Instances of SearchScan for TLC.  A hit is 10 * page + k, k >= 1. *)
EXTENDS SearchScan
CONSTANTS d1, q1

(* d2 is d1 rebuilt shorter, with its words moved; a rebuild without a text *)
(* layer is one page.                                                       *)
MCPageCount == [d \in Docs |-> IF d = d1 THEN 4 ELSE IF d \in Unsearchable THEN 1 ELSE 2]

(* q1 is on the odd pages of d1 and on every page of d2; q2 on page 0 only. *)
MCText ==
  [d \in Docs |-> [q \in Queries |-> [p \in 0..(PageCount[d] - 1) |->
     IF q \in Invalid THEN {}
     ELSE IF q = q1 THEN IF d = d1 THEN IF p % 2 = 1 THEN {10 * p + 1} ELSE {}
                                   ELSE {10 * p + 2}
     ELSE IF p = 0 THEN {1} ELSE {}]]]

MCNotes == [d \in Docs |-> [q \in Queries |-> IF d = d1 /\ q = q1 THEN {25} ELSE {}]]
=============================================================================
