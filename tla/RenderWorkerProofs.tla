------------------------- MODULE RenderWorkerProofs -------------------------
(***************************************************************************)
(* Theorems about RenderWorker, for every value of its constants: its      *)
(* types, that it keeps WorkerContract, that no job is lost inside it, and *)
(* that a shutdown and a cancel do what they are for.                      *)
(*                                                                         *)
(* The argument follows a job from the pipe to its reply.  It is in one    *)
(* place at a time (Homes); Cancelled is only ever said of a job that was  *)
(* told to stop, because what the reader thread raises it for stands in    *)
(* the pipe behind the job (Behind); and no job is below the floor when it  *)
(* is read, because a floor stands in the pipe before the jobs it spares   *)
(* (Floors).                                                               *)
(***************************************************************************)
EXTENDS RenderWorker, FiniteSetTheorems, SequenceTheorems, WellFoundedInduction, TLAPS

-----------------------------------------------------------------------------
(* The inductive invariant. *)

Controls == [kind : {"Open", "Close"}, what : Docs] \cup [kind : {"Question"}, what : Questions]
Messages ==
  [kind : {"Render"}, what : Jobs] \cup [kind : {"Cancel"}, what : Jobs \cup Elsewhere]
    \cup [kind : {"CancelGeneration"}, what : Nat \ {0}]
    \cup [kind : {"Shutdown"}, what : {None}] \cup Controls

(* What the sequences hold, and what stands before what in the pipe. *)
Piped == {pipe[i] : i \in 1..Len(pipe)}
Ahead == {p \in Piped \X Piped :
            \E i, k \in 1..Len(pipe) : i < k /\ pipe[i] = p[1] /\ pipe[k] = p[2]}
Queued == {jobs[i] : i \in 1..Len(jobs)}
Dropped == {unacknowledged[i] : i \in 1..Len(unacknowledged)}
Ordered == {control[i] : i \in 1..Len(control)}
Remembered == {cancelled[i] : i \in 1..Len(cancelled)}

PipedOnce == \A i, k \in 1..Len(pipe) : pipe[i] = pipe[k] => i = k
QueuedOnce == \A i, k \in 1..Len(jobs) : jobs[i] = jobs[k] => i = k
DroppedOnce == \A i, k \in 1..Len(unacknowledged) : unacknowledged[i] = unacknowledged[k] => i = k
RememberedOnce == \A i, k \in 1..Len(cancelled) : cancelled[i] = cancelled[k] => i = k

TypeInv ==
  /\ TypeOK
  /\ pipe \in Seq(Messages) /\ control \in Seq(Controls)
  /\ reply \in [Jobs -> {"none", "Rendered", "RenderFailed", "Cancelled"}]
  /\ heeded \subseteq Jobs /\ IsFiniteSet(said)

(* The threads and what each has in hand. *)
Phases ==
  /\ current # None <=> main \in {"check", "prepare", "draw"}
  /\ inFlight.id = IF main = "draw" THEN current ELSE None
  /\ main # "draw" => ~inFlight.stop
  /\ reading \in {"Cancel", "CancelGeneration"} => pipe # <<>> /\ Head(pipe).kind = reading

(* What is in the pipe was written, and no more than once; a cancel comes    *)
(* after its job.                                                            *)
Written ==
  /\ PipedOnce
  /\ \A m \in Piped : m.kind # "Render" => <<m.kind, m.what>> \in said
  /\ \A j \in Jobs : <<"Cancel", j>> \in said => j <= sent

(* A job handed over and not replied to is in the pipe, in the queue, among  *)
(* those dropped or in hand, and in one of them only.                        *)
Homes ==
  /\ \A j \in held : \/ [kind |-> "Render", what |-> j] \in Piped
                     \/ j \in Queued \/ j \in Dropped \/ j = current
  /\ \A j \in Jobs : [kind |-> "Render", what |-> j] \in Piped =>
                       j \in held /\ j \notin Queued /\ j \notin Dropped /\ j # current
  /\ \A j \in Queued : j \in held /\ j \notin Dropped /\ j # current
  /\ \A j \in Dropped : j \in held /\ j # current
  /\ current # None => current \in held
  /\ QueuedOnce /\ DroppedOnce
  /\ \A j \in held : j <= sent
  /\ \A j \in Jobs : j > sent => reply[j] = "none"

(* What can make a job Cancelled was written after the job. *)
Stops ==
  /\ \A j \in held : gen[j] < top => j \in stoppable
  /\ \A j \in held : <<"Cancel", j>> \in said => j \in stoppable
  /\ floor <= top
  /\ \A j \in Remembered : <<"Cancel", j>> \in said
  /\ \A j \in Dropped : j \in stoppable
  /\ inFlight.stop => current \in stoppable

(* A new floor is written behind the jobs it stops. *)
Behind ==
  \A g \in Nat : [kind |-> "CancelGeneration", what |-> g] \in Piped =>
    /\ g <= top
    /\ \A j \in held : \/ j \in stoppable
                       \/ <<[kind |-> "CancelGeneration", what |-> g],
                            [kind |-> "Render", what |-> j]>> \in Ahead

(* No job in the pipe is below a floor that stands before it. *)
Floors ==
  \A j \in Jobs : [kind |-> "Render", what |-> j] \in Piped =>
    /\ gen[j] >= floor
    /\ \A g \in Nat : <<[kind |-> "CancelGeneration", what |-> g],
                        [kind |-> "Render", what |-> j]>> \in Ahead => gen[j] >= g

(* Nothing is written after Shutdown, and all before it is worked through. *)
Ended ==
  /\ <<"Shutdown", None>> \in said => held = {}
  /\ \A m \in Messages : <<[kind |-> "Shutdown", what |-> None], m>> \notin Ahead
  /\ shutdown => pipe = <<>> /\ <<"Shutdown", None>> \in said
  /\ \A q \in asked : [kind |-> "Question", what |-> q] \in Piped \cup Ordered
  /\ \A d \in opening : [kind |-> "Open", what |-> d] \in Piped \cup Ordered
  /\ main = "exit" => shutdown /\ control = <<>>

Cancels == {r \in said : r[1] = "Cancel"}
Few == top = 0 /\ Cardinality(Cancels) <= MaxCancels

(* The list of cancels forgets none while there are few of them. *)
Heeding ==
  /\ RememberedOnce
  /\ \A j \in Remembered : [kind |-> "Cancel", what |-> j] \notin Piped
  /\ Few => heeded \subseteq Remembered
  /\ Few /\ current \in heeded => main \notin {"prepare", "draw"}

WorkerInv ==
  TypeInv /\ Phases /\ Written /\ Homes /\ Stops /\ Behind /\ Floors /\ Ended /\ Heeding

-----------------------------------------------------------------------------
(* Sequences. *)

(* Induction over a number, with a set for the predicate. *)
LEMMA NumberInduction ==
  ASSUME NEW n \in Nat, NEW S, 0 \in S, \A k \in 0..n : k \in S /\ k < n => k + 1 \in S
  PROVE  0..n \subseteq S
<1>1. SUFFICES ASSUME ~(0..n \subseteq S) PROVE FALSE
  OBVIOUS
<1>2. 0..n \ S \subseteq Nat /\ 0..n \ S # {}
  BY <1>1
<1>3. PICK m \in 0..n \ S : \A y \in 0..n \ S : <<y, m>> \notin OpToRel(<, Nat)
  BY <1>2, NatLessThanWellFounded, WFMin
<1>4. \A y \in 0..n \ S : ~(y < m)
  BY <1>2, <1>3 DEF OpToRel
<1>5. m - 1 \in 0..n /\ m - 1 < m /\ m - 1 < n /\ (m - 1) + 1 = m
  OBVIOUS
<1>6. m - 1 \in S
  BY <1>4, <1>5
<1> QED
  BY <1>5, <1>6

(* What Only keeps: the members of s that are in D, each as often. *)
Kept(f, m, s, D) ==
  f = [i \in 0..m |-> IF i = 0 THEN <<>>
                      ELSE IF s[i] \in D THEN Append(f[i - 1], s[i]) ELSE f[i - 1]]

Sifted(t, m, s, D, M) ==
  /\ t \in Seq(M)
  /\ \A x : (\E i \in 1..Len(t) : t[i] = x) <=> x \in D /\ \E i \in 1..m : s[i] = x
  /\ (\A i, k \in 1..m : s[i] = s[k] => i = k) => \A i, k \in 1..Len(t) : t[i] = t[k] => i = k

LEMMA SiftedNext ==
  ASSUME NEW M, NEW s \in Seq(M), NEW D, NEW m \in Nat, m + 1 \in 1..Len(s),
         NEW t, Sifted(t, m, s, D, M), NEW u,
         u = IF s[m + 1] \in D THEN Append(t, s[m + 1]) ELSE t
  PROVE  Sifted(u, m + 1, s, D, M)
<1>1. s[m + 1] \in M /\ t \in Seq(M) /\ Len(t) \in Nat
  BY DEF Sifted
<1>2. CASE s[m + 1] \notin D
  <2>1. u = t
    BY <1>2
  <2>2. \A x : x \in D => ((\E i \in 1..m + 1 : s[i] = x) <=> \E i \in 1..m : s[i] = x)
    BY <1>2
  <2> QED
    BY <2>1, <2>2 DEF Sifted
<1>3. CASE s[m + 1] \in D
  <2> DEFINE n == Len(t)
  <2>1. /\ u \in Seq(M) /\ Len(u) = n + 1 /\ u[n + 1] = s[m + 1]
        /\ \A i \in 1..n : u[i] = t[i]
    BY <1>1, <1>3
  <2>2. n \in Nat /\ \A i \in 1..n + 1 : i \in 1..n \/ i = n + 1
    BY <1>1
  <2>3. \A i \in 1..m + 1 : i \in 1..m \/ i = m + 1
    OBVIOUS
  <2>4. ASSUME NEW x
        PROVE  (\E i \in 1..Len(u) : u[i] = x) <=> x \in D /\ \E i \in 1..m + 1 : s[i] = x
    <3>1. (\E i \in 1..n + 1 : u[i] = x) <=> (\E i \in 1..n : t[i] = x) \/ x = s[m + 1]
      BY <2>1, <2>2
    <3>2. (\E i \in 1..m + 1 : s[i] = x) <=> (\E i \in 1..m : s[i] = x) \/ x = s[m + 1]
      BY <2>3
    <3> QED
      BY <1>3, <2>1, <3>1, <3>2 DEF Sifted
  <2>5. ASSUME \A i, k \in 1..m + 1 : s[i] = s[k] => i = k
        PROVE  \A i, k \in 1..Len(u) : u[i] = u[k] => i = k
    <3>1. \A i, k \in 1..n : t[i] = t[k] => i = k
      <4>1. \A i, k \in 1..m : s[i] = s[k] => i = k
        BY <2>5
      <4> QED
        BY <4>1 DEF Sifted
    <3>2. \A i \in 1..n : t[i] # s[m + 1]
      <4>1. \A i \in 1..m : s[i] # s[m + 1]
        BY <2>5
      <4> QED
        BY <4>1 DEF Sifted
    <3> QED
      BY <2>1, <2>2, <3>1, <3>2
  <2> QED
    BY <2>1, <2>4, <2>5 DEF Sifted
<1> QED
  BY <1>2, <1>3

LEMMA OnlyKeeps ==
  ASSUME NEW M, NEW s \in Seq(M), NEW D
  PROVE  Sifted(Only(s, D), Len(s), s, D, M)
<1> DEFINE n == Len(s)
           Good == {m \in 0..n : \E f : Kept(f, m, s, D)}
<1>0. n \in Nat /\ \A i \in 1..n : s[i] \in M
  OBVIOUS
<1>1. 0 \in Good
  <2> DEFINE g == [i \in 0..0 |-> <<>>]
  <2>1. Kept(g, 0, s, D)
    BY DEF Kept
  <2> QED
    BY <1>0, <2>1
<1>2. ASSUME NEW k \in 0..n, k \in Good, k < n PROVE k + 1 \in Good
  <2>1. PICK f : Kept(f, k, s, D)
    BY <1>2
  <2> DEFINE e(i) == IF i = 0 THEN <<>>
                     ELSE IF s[i] \in D THEN Append(f[i - 1], s[i]) ELSE f[i - 1]
             g == [i \in 0..(k + 1) |-> e(i)]
  <2>2. \A i \in 0..k : g[i] = f[i]
    <3>1. f = [i \in 0..k |-> e(i)]
      BY <2>1 DEF Kept
    <3> HIDE DEF e
    <3> QED
      BY <3>1
  <2>3. \A i \in 0..(k + 1) : i # 0 => g[i - 1] = f[i - 1]
    <3>1. \A i \in 0..(k + 1) : i # 0 => i - 1 \in 0..k
      OBVIOUS
    <3> QED
      BY <2>2, <3>1
  <2>4. Kept(g, k + 1, s, D)
    BY <2>3 DEF Kept
  <2>5. \E h : Kept(h, k + 1, s, D)
    BY <2>4
  <2>6. k + 1 \in 0..n
    BY <1>0, <1>2
  <2> QED
    BY <2>5, <2>6
<1>3. 0..n \subseteq Good
  BY <1>0, <1>1, <1>2, NumberInduction
<1>4. \E f : Kept(f, n, s, D)
  BY <1>0, <1>3
<1> DEFINE F == CHOOSE f : f = [i \in 0..n |->
                  IF i = 0 THEN <<>>
                  ELSE IF s[i] \in D THEN Append(f[i - 1], s[i]) ELSE f[i - 1]]
<1>5. Kept(F, n, s, D)
  BY <1>4, Zenon DEF Kept
<1>6. Only(s, D) = F[n]
  BY DEF Only
<1> HIDE DEF F
<1> DEFINE Right == {m \in 0..n : Sifted(F[m], m, s, D, M)}
<1>7. 0 \in Right
  <2>1. F[0] = <<>>
    BY <1>0, <1>5 DEF Kept
  <2>2. Sifted(<<>>, 0, s, D, M)
    BY DEF Sifted
  <2> QED
    BY <1>0, <2>1, <2>2
<1>8. ASSUME NEW k \in 0..n, k \in Right, k < n PROVE k + 1 \in Right
  <2>1. k \in Nat /\ k + 1 \in 0..n /\ k + 1 \in 1..n /\ k + 1 # 0 /\ (k + 1) - 1 = k
    BY <1>0, <1>8
  <2>2. F[k + 1] = IF s[k + 1] \in D THEN Append(F[k], s[k + 1]) ELSE F[k]
    BY <1>5, <2>1 DEF Kept
  <2>3. Sifted(F[k], k, s, D, M)
    BY <1>8
  <2>4. Sifted(F[k + 1], k + 1, s, D, M)
    BY <2>1, <2>2, <2>3, SiftedNext
  <2> QED
    BY <2>1, <2>4
<1>9. 0..n \subseteq Right
  BY <1>0, <1>7, <1>8, NumberInduction
<1> QED
  BY <1>0, <1>6, <1>9

(* What the operations on the pipe, the inbox and the list of cancels do to  *)
(* what these hold.                                                          *)
LEMMA PipeAdded ==
  ASSUME pipe \in Seq(Messages), NEW m \in Messages, pipe' = Append(pipe, m)
  PROVE  /\ Piped' = Piped \cup {m}
         /\ \A x, y : <<x, y>> \in Ahead' <=> <<x, y>> \in Ahead \/ (x \in Piped /\ y = m)
         /\ PipedOnce /\ m \notin Piped => PipedOnce'
         /\ pipe # <<>> => pipe' # <<>> /\ Head(pipe') = Head(pipe)
<1> DEFINE n == Len(pipe)
<1>1. /\ n \in Nat /\ Len(pipe') = n + 1 /\ pipe'[n + 1] = m
      /\ \A i \in 1..n : pipe'[i] = pipe[i]
  OBVIOUS
<1>2. \A i \in 1..n + 1 : i \in 1..n \/ i = n + 1
  BY <1>1
<1> HIDE DEF n
<1>3. Piped = {pipe[i] : i \in 1..n} /\ Piped' = {pipe'[i] : i \in 1..n + 1}
  BY <1>1 DEF Piped, n
<1>4. Piped' = Piped \cup {m}
  BY <1>1, <1>2, <1>3
<1>5. \A x, y : <<x, y>> \in Ahead <=> \E i, k \in 1..n : i < k /\ pipe[i] = x /\ pipe[k] = y
  BY <1>3 DEF Ahead, n
<1>6. \A x, y : <<x, y>> \in Ahead' <=>
                  \E i, k \in 1..n + 1 : i < k /\ pipe'[i] = x /\ pipe'[k] = y
  BY <1>1, <1>3 DEF Ahead, n
<1>7. ASSUME NEW x, NEW y
      PROVE  <<x, y>> \in Ahead' <=> <<x, y>> \in Ahead \/ (x \in Piped /\ y = m)
  <2>1. ASSUME NEW i \in 1..n + 1, NEW k \in 1..n + 1, i < k, pipe'[i] = x, pipe'[k] = y
        PROVE  <<x, y>> \in Ahead \/ (x \in Piped /\ y = m)
    <3>1. i \in 1..n /\ pipe[i] = x /\ x \in Piped
      BY <1>1, <1>2, <1>3, <2>1
    <3>2. CASE k = n + 1
      BY <1>1, <2>1, <3>1, <3>2
    <3>3. CASE k \in 1..n
      BY <1>1, <1>5, <2>1, <3>1, <3>3
    <3> QED
      BY <1>2, <3>2, <3>3
  <2>2. ASSUME NEW i \in 1..n, NEW k \in 1..n, i < k, pipe[i] = x, pipe[k] = y
        PROVE  <<x, y>> \in Ahead'
    <3>1. i \in 1..n + 1 /\ k \in 1..n + 1 /\ pipe'[i] = x /\ pipe'[k] = y
      BY <1>1, <2>2
    <3> QED
      BY <1>6, <2>2, <3>1
  <2>3. ASSUME x \in Piped, y = m PROVE <<x, y>> \in Ahead'
    <3>1. PICK i \in 1..n : pipe[i] = x
      BY <1>3, <2>3
    <3>2. i \in 1..n + 1 /\ n + 1 \in 1..n + 1 /\ i < n + 1 /\ pipe'[i] = x
      BY <1>1, <3>1
    <3> QED
      BY <1>1, <1>6, <2>3, <3>2
  <2>4. <<x, y>> \in Ahead => <<x, y>> \in Ahead'
    BY <1>5, <2>2
  <2>5. <<x, y>> \in Ahead' => \E i, k \in 1..n + 1 : i < k /\ pipe'[i] = x /\ pipe'[k] = y
    BY <1>1, <1>3 DEF Ahead, n
  <2>6. <<x, y>> \in Ahead' => <<x, y>> \in Ahead \/ (x \in Piped /\ y = m)
    BY <2>1, <2>5
  <2> QED
    BY <2>3, <2>4, <2>6
<1>8. ASSUME PipedOnce, m \notin Piped PROVE PipedOnce'
  <2>1. \A i, k \in 1..n : pipe[i] = pipe[k] => i = k
    BY <1>8 DEF PipedOnce, n
  <2>2. \A i \in 1..n : pipe[i] # m
    BY <1>3, <1>8
  <2>3. \A i, k \in 1..n + 1 : pipe'[i] = pipe'[k] => i = k
    BY <1>1, <1>2, <2>1, <2>2
  <2> QED
    BY <1>1, <2>3 DEF PipedOnce
<1>9. pipe # <<>> => pipe' # <<>> /\ Head(pipe') = Head(pipe)
  <2>1. pipe # <<>> => n >= 1
    BY <1>1 DEF n
  <2> QED
    BY <1>1, <2>1 DEF n
<1> QED
  BY <1>4, <1>7, <1>8, <1>9

LEMMA PipeRead ==
  ASSUME pipe \in Seq(Messages), pipe # <<>>, pipe' = Tail(pipe), PipedOnce
  PROVE  /\ Head(pipe) \in Piped /\ Piped \subseteq Messages
         /\ Piped' = Piped \ {Head(pipe)}
         /\ \A x, y : <<x, y>> \in Ahead' => <<x, y>> \in Ahead
         /\ \A x, y : <<x, y>> \in Ahead /\ x # Head(pipe) => <<x, y>> \in Ahead'
         /\ \A y \in Piped' : <<Head(pipe), y>> \in Ahead
         /\ \A x : <<x, Head(pipe)>> \notin Ahead
         /\ PipedOnce'
         /\ Piped' = {} => pipe' = <<>>
<1> DEFINE n == Len(pipe)
           h == Head(pipe)
<1>1. /\ n \in Nat /\ n >= 1 /\ Len(pipe') = n - 1 /\ pipe[1] = h
      /\ \A i \in 1..n - 1 : pipe'[i] = pipe[i + 1]
  BY HeadTailProperties
<1>2. \A i \in 1..n - 1 : i + 1 \in 1..n /\ i + 1 # 1 /\ i \in 1..n
  BY <1>1
<1>3. \A i \in 1..n : i = 1 \/ (i - 1 \in 1..n - 1 /\ (i - 1) + 1 = i)
  BY <1>1
<1>4. \A i \in 1..n : pipe[i] \in Messages
  BY <1>1
<1> HIDE DEF n, h
<1>5. Piped = {pipe[i] : i \in 1..n} /\ Piped' = {pipe'[i] : i \in 1..n - 1}
  BY <1>1 DEF Piped, n
<1>6. \A i, k \in 1..n : pipe[i] = pipe[k] => i = k
  BY DEF PipedOnce, n
<1>7. 1 \in 1..n
  BY <1>1
<1>8. Piped' \subseteq Piped \ {h}
  BY <1>1, <1>2, <1>5, <1>6, <1>7
<1>9. Piped \ {h} \subseteq Piped'
  <2> SUFFICES ASSUME NEW i \in 1..n, pipe[i] # h PROVE pipe[i] \in Piped'
    BY <1>5
  <2>1. i - 1 \in 1..n - 1 /\ pipe'[i - 1] = pipe[i]
    BY <1>1, <1>3
  <2> QED
    BY <1>5, <2>1
<1>10. \A x, y : <<x, y>> \in Ahead <=> \E i, k \in 1..n : i < k /\ pipe[i] = x /\ pipe[k] = y
  BY <1>5 DEF Ahead, n
<1>11. \A x, y : <<x, y>> \in Ahead' <=>
                   \E i, k \in 1..n - 1 : i < k /\ pipe'[i] = x /\ pipe'[k] = y
  BY <1>1, <1>5 DEF Ahead, n
<1>12. ASSUME NEW x, NEW y, <<x, y>> \in Ahead' PROVE <<x, y>> \in Ahead
  <2>0. \E i, k \in 1..n - 1 : i < k /\ pipe'[i] = x /\ pipe'[k] = y
    BY <1>1, <1>5, <1>12 DEF Ahead, n
  <2>1. PICK i \in 1..n - 1, k \in 1..n - 1 : i < k /\ pipe'[i] = x /\ pipe'[k] = y
    BY <2>0
  <2>2. i + 1 \in 1..n /\ k + 1 \in 1..n /\ i + 1 < k + 1
    BY <1>1, <2>1
  <2>3. pipe[i + 1] = x /\ pipe[k + 1] = y
    BY <1>1, <2>1
  <2> QED
    BY <1>10, <2>2, <2>3
<1>13. ASSUME NEW x, NEW y, <<x, y>> \in Ahead, x # h PROVE <<x, y>> \in Ahead'
  <2>1. PICK i \in 1..n, k \in 1..n : i < k /\ pipe[i] = x /\ pipe[k] = y
    BY <1>10, <1>13
  <2>2. i # 1
    BY <1>1, <1>13, <2>1
  <2>3. i - 1 \in 1..n - 1 /\ k - 1 \in 1..n - 1 /\ i - 1 < k - 1
    BY <1>1, <2>1, <2>2
  <2>4. pipe'[i - 1] = x /\ pipe'[k - 1] = y
    BY <1>1, <2>1, <2>3
  <2> QED
    BY <1>11, <2>3, <2>4
<1>14. ASSUME NEW y \in Piped' PROVE <<h, y>> \in Ahead
  <2>1. PICK i \in 1..n - 1 : pipe'[i] = y
    BY <1>5
  <2>2. i + 1 \in 1..n /\ 1 < i + 1 /\ pipe[i + 1] = y
    BY <1>1, <2>1
  <2> QED
    BY <1>1, <1>7, <1>10, <2>2
<1>15. ASSUME NEW x PROVE <<x, h>> \notin Ahead
  <2> SUFFICES ASSUME NEW i \in 1..n, NEW k \in 1..n, i < k, pipe[k] = h PROVE FALSE
    BY <1>10
  <2>1. k = 1
    BY <1>1, <1>6, <1>7
  <2> QED
    BY <2>1
<1>16. PipedOnce'
  <2>1. ASSUME NEW i \in 1..n - 1, NEW k \in 1..n - 1, pipe'[i] = pipe'[k] PROVE i = k
    <3>1. i + 1 = k + 1
      BY <1>1, <1>2, <1>6, <2>1
    <3> QED
      BY <3>1
  <2> QED
    BY <1>1, <2>1 DEF PipedOnce
<1>17. ASSUME Piped' = {} PROVE pipe' = <<>>
  <2>1. 1..n - 1 = {}
    BY <1>5, <1>17
  <2>2. n - 1 = 0
    BY <1>1, <2>1
  <2>3. pipe' \in Seq(Messages)
    BY HeadTailProperties
  <2> QED
    BY <1>1, <2>2, <2>3, EmptySeq
<1>18. h \in Piped /\ Piped \subseteq Messages /\ Piped' = Piped \ {h}
  <2>1. h \in Piped
    BY <1>1, <1>5, <1>7
  <2>2. Piped \subseteq Messages
    BY <1>4, <1>5
  <2> QED
    BY <1>8, <1>9, <2>1, <2>2
<1> QED
  BY <1>12, <1>13, <1>14, <1>15, <1>16, <1>17, <1>18 DEF h

LEMMA ControlAdded ==
  ASSUME control \in Seq(Controls), NEW m \in Controls, control' = Append(control, m)
  PROVE  Ordered' = Ordered \cup {m}
<1> DEFINE n == Len(control)
<1>1. /\ n \in Nat /\ Len(control') = n + 1 /\ control'[n + 1] = m
      /\ \A i \in 1..n : control'[i] = control[i]
  OBVIOUS
<1>2. \A i \in 1..n + 1 : i \in 1..n \/ i = n + 1
  BY <1>1
<1>3. Ordered = {control[i] : i \in 1..n} /\ Ordered' = {control'[i] : i \in 1..n + 1}
  BY <1>1 DEF Ordered
<1> HIDE DEF n
<1> QED
  BY <1>1, <1>2, <1>3

LEMMA ControlTaken ==
  ASSUME control \in Seq(Controls), control # <<>>, control' = Tail(control)
  PROVE  /\ Head(control) \in Ordered /\ Head(control) \in Controls
         /\ Ordered' \subseteq Ordered /\ Ordered \subseteq Ordered' \cup {Head(control)}
<1> DEFINE n == Len(control)
           h == Head(control)
<1>1. /\ n \in Nat /\ n >= 1 /\ Len(control') = n - 1 /\ control[1] = h /\ h \in Controls
      /\ \A i \in 1..n - 1 : control'[i] = control[i + 1]
  BY HeadTailProperties
<1>2. \A i \in 1..n - 1 : i + 1 \in 1..n
  BY <1>1
<1>3. \A i \in 1..n : i = 1 \/ (i - 1 \in 1..n - 1 /\ (i - 1) + 1 = i)
  BY <1>1
<1>4. Ordered = {control[i] : i \in 1..n} /\ Ordered' = {control'[i] : i \in 1..n - 1}
  BY <1>1 DEF Ordered
<1> HIDE DEF n, h
<1>5. h \in Ordered
  BY <1>1, <1>4
<1>6. Ordered' \subseteq Ordered
  BY <1>1, <1>2, <1>4
<1>7. Ordered \subseteq Ordered' \cup {h}
  <2> SUFFICES ASSUME NEW i \in 1..n, control[i] # h PROVE control[i] \in Ordered'
    BY <1>4
  <2>1. i - 1 \in 1..n - 1 /\ control'[i - 1] = control[i]
    BY <1>1, <1>3
  <2> QED
    BY <1>4, <2>1
<1> QED
  BY <1>1, <1>5, <1>6, <1>7 DEF h

LEMMA ControlEmpty == ASSUME control \in Seq(Controls) PROVE control = <<>> <=> Ordered = {}
<1>1. Len(control) \in Nat
  OBVIOUS
<1>2. control # <<>> => 1 \in 1..Len(control)
  BY <1>1, EmptySeq
<1> QED
  BY <1>2 DEF Ordered

LEMMA QueueAdded ==
  ASSUME jobs \in Seq(Jobs), NEW j \in Jobs, jobs' = Append(jobs, j)
  PROVE  Queued' = Queued \cup {j} /\ (QueuedOnce /\ j \notin Queued => QueuedOnce')
<1> DEFINE n == Len(jobs)
<1>1. /\ n \in Nat /\ Len(jobs') = n + 1 /\ jobs'[n + 1] = j
      /\ \A i \in 1..n : jobs'[i] = jobs[i]
  OBVIOUS
<1>2. \A i \in 1..n + 1 : i \in 1..n \/ i = n + 1
  BY <1>1
<1>3. Queued = {jobs[i] : i \in 1..n} /\ Queued' = {jobs'[i] : i \in 1..n + 1}
  BY <1>1 DEF Queued
<1>4. (QueuedOnce <=> \A i, k \in 1..n : jobs[i] = jobs[k] => i = k)
      /\ (QueuedOnce' <=> \A i, k \in 1..n + 1 : jobs'[i] = jobs'[k] => i = k)
  BY <1>1 DEF QueuedOnce
<1> HIDE DEF n
<1>5. Queued' = Queued \cup {j}
  BY <1>1, <1>2, <1>3
<1>6. ASSUME QueuedOnce, j \notin Queued PROVE QueuedOnce'
  <2>1. \A i \in 1..n : jobs[i] # j
    BY <1>3, <1>6
  <2> QED
    BY <1>1, <1>2, <1>4, <1>6, <2>1
<1> QED
  BY <1>5, <1>6

LEMMA QueueTaken ==
  ASSUME jobs \in Seq(Jobs), NEW p \in 1..Len(jobs), jobs' = RemoveAt(jobs, p), QueuedOnce
  PROVE  /\ jobs' \in Seq(Jobs) /\ jobs[p] \in Queued
         /\ Queued' = Queued \ {jobs[p]} /\ QueuedOnce'
<1> DEFINE n == Len(jobs)
           b == SubSeq(jobs, 1, p - 1)
           a == SubSeq(jobs, p + 1, n)
<1>1. n \in Nat /\ p \in 1..n /\ p - 1 \in 0..n - 1
  OBVIOUS
<1>2. b \in Seq(Jobs) /\ Len(b) = p - 1 /\ \A i \in 1..p - 1 : b[i] = jobs[i]
  <2>1. \A i \in 1..p - 1 : jobs[i] \in Jobs
    BY <1>1
  <2> QED
    BY <1>1, <2>1, SubSeqProperties
<1>3. a \in Seq(Jobs) /\ Len(a) = n - p /\ \A i \in 1..n - p : a[i] = jobs[i + p]
  <2>1. \A i \in p + 1..n : jobs[i] \in Jobs
    BY <1>1
  <2> QED
    BY <1>1, <2>1, SubSeqProperties
<1>4. jobs' = b \o a
  BY DEF RemoveAt
<1> HIDE DEF a, b, n
<1>5. /\ jobs' \in Seq(Jobs) /\ Len(jobs') = n - 1
      /\ \A i \in 1..n - 1 : jobs'[i] = IF i <= p - 1 THEN b[i] ELSE a[i - (p - 1)]
  BY <1>1, <1>2, <1>3, <1>4, ConcatProperties
<1>6. \A i \in 1..n - 1 : jobs'[i] = IF i < p THEN jobs[i] ELSE jobs[i + 1]
  <2> SUFFICES ASSUME NEW i \in 1..n - 1 PROVE jobs'[i] = IF i < p THEN jobs[i] ELSE jobs[i + 1]
    OBVIOUS
  <2>1. CASE i < p
    <3>1. i <= p - 1 /\ i \in 1..p - 1
      BY <1>1, <2>1
    <3> QED
      BY <1>2, <1>5, <2>1, <3>1
  <2>2. CASE ~(i < p)
    <3>1. ~(i <= p - 1) /\ i - (p - 1) \in 1..n - p /\ (i - (p - 1)) + p = i + 1
      BY <1>1, <2>2
    <3> QED
      BY <1>3, <1>5, <2>2, <3>1
  <2> QED
    BY <2>1, <2>2
<1>7. Queued = {jobs[i] : i \in 1..n} /\ Queued' = {jobs'[i] : i \in 1..n - 1}
  BY <1>5 DEF Queued, n
<1>8. \A i, k \in 1..n : jobs[i] = jobs[k] => i = k
  BY DEF QueuedOnce, n
<1>9. Queued' \subseteq Queued \ {jobs[p]}
  <2> SUFFICES ASSUME NEW i \in 1..n - 1 PROVE jobs'[i] \in Queued \ {jobs[p]}
    BY <1>7
  <2>1. PICK k \in 1..n : k # p /\ jobs'[i] = jobs[k]
    <3>1. i \in 1..n /\ i + 1 \in 1..n
      BY <1>1
    <3>2. CASE i < p
      BY <1>6, <3>1, <3>2
    <3>3. CASE ~(i < p)
      BY <1>1, <1>6, <3>1, <3>3
    <3> QED
      BY <3>2, <3>3
  <2> QED
    BY <1>1, <1>7, <1>8, <2>1
<1>10. Queued \ {jobs[p]} \subseteq Queued'
  <2> SUFFICES ASSUME NEW k \in 1..n, jobs[k] # jobs[p] PROVE jobs[k] \in Queued'
    BY <1>7
  <2>1. PICK i \in 1..n - 1 : jobs'[i] = jobs[k]
    <3>1. CASE k < p
      <4>1. k \in 1..n - 1
        BY <1>1, <3>1
      <4> QED
        BY <1>6, <3>1, <4>1
    <3>2. CASE ~(k < p)
      <4>1. k - 1 \in 1..n - 1 /\ ~(k - 1 < p) /\ (k - 1) + 1 = k
        BY <1>1, <3>2
      <4> QED
        BY <1>6, <4>1
    <3> QED
      BY <3>1, <3>2
  <2> QED
    BY <1>7, <2>1
<1>11. QueuedOnce'
  <2> SUFFICES ASSUME NEW i \in 1..n - 1, NEW k \in 1..n - 1, jobs'[i] = jobs'[k] PROVE i = k
    BY <1>5 DEF QueuedOnce
  <2>1. /\ i \in 1..n /\ i + 1 \in 1..n /\ k \in 1..n /\ k + 1 \in 1..n
        /\ (i + 1 = k + 1 => i = k) /\ (i < p => i # k + 1 \/ k < p) /\ (k < p => k # i + 1 \/ i < p)
    BY <1>1
  <2> QED
    BY <1>6, <1>8, <2>1
<1>12. jobs[p] \in Queued
  BY <1>1, <1>7
<1> QED
  BY <1>5, <1>9, <1>10, <1>11, <1>12

LEMMA Drained ==
  ASSUME jobs \in Seq(Jobs), unacknowledged \in Seq(Jobs), QueuedOnce, DroppedOnce,
         \A j \in Queued : j \notin Dropped, NEW doomed, Drain(doomed)
  PROVE  /\ jobs' \in Seq(Jobs) /\ unacknowledged' \in Seq(Jobs)
         /\ Queued' = Queued \ doomed /\ Dropped' = Dropped \cup (Queued \cap doomed)
         /\ QueuedOnce' /\ DroppedOnce'
<1> DEFINE a == Only(jobs, Jobs \ doomed)
           b == Only(jobs, doomed)
           n == Len(jobs)
           u == unacknowledged
           k == Len(u)
<1>1. jobs' = a /\ unacknowledged' = u \o b
  BY DEF Drain
<1>2. /\ n \in Nat /\ k \in Nat /\ \A i \in 1..n : jobs[i] \in Jobs
      /\ Queued = {jobs[i] : i \in 1..n} /\ Dropped = {u[i] : i \in 1..k}
  BY DEF Queued, Dropped
<1>3. Sifted(a, n, jobs, Jobs \ doomed, Jobs) /\ Sifted(b, n, jobs, doomed, Jobs)
  BY OnlyKeeps
<1>4. \A i, m \in 1..n : jobs[i] = jobs[m] => i = m
  BY DEF QueuedOnce
<1>5. \A i, m \in 1..k : u[i] = u[m] => i = m
  BY DEF DroppedOnce
<1> HIDE DEF a, b, n, k, u
<1>6. /\ a \in Seq(Jobs)
      /\ \A x : (\E i \in 1..Len(a) : a[i] = x) <=> x \in Jobs \ doomed /\ \E i \in 1..n : jobs[i] = x
      /\ \A i, m \in 1..Len(a) : a[i] = a[m] => i = m
  BY <1>3, <1>4 DEF Sifted
<1>7. /\ b \in Seq(Jobs)
      /\ \A x : (\E i \in 1..Len(b) : b[i] = x) <=> x \in doomed /\ \E i \in 1..n : jobs[i] = x
      /\ \A i, m \in 1..Len(b) : b[i] = b[m] => i = m
  BY <1>3, <1>4 DEF Sifted
<1>8. Queued' = {a[i] : i \in 1..Len(a)}
  BY <1>1 DEF Queued
<1>9. Queued' = Queued \ doomed
  <2>1. \A x : x \in Queued' <=> \E i \in 1..Len(a) : a[i] = x
    BY <1>8
  <2>2. \A x : x \in Queued <=> x \in Jobs /\ \E i \in 1..n : jobs[i] = x
    BY <1>2
  <2> QED
    BY <1>6, <2>1, <2>2
<1>10. QueuedOnce'
  BY <1>1, <1>6 DEF QueuedOnce
<1> DEFINE c == u \o b
           l == Len(b)
<1>11. /\ c \in Seq(Jobs) /\ l \in Nat /\ Len(c) = k + l
       /\ \A i \in 1..k + l : c[i] = IF i <= k THEN u[i] ELSE b[i - k]
  <2>1. u \in Seq(Jobs) /\ Len(u) = k /\ b \in Seq(Jobs) /\ Len(b) = l /\ l \in Nat
    BY <1>7 DEF u, k
  <2> HIDE DEF l
  <2>2. u \o b \in Seq(Jobs) /\ Len(u \o b) = Len(u) + Len(b)
    BY <2>1, ConcatProperties
  <2>3. \A i \in 1..Len(u) + Len(b) : (u \o b)[i] = IF i <= Len(u) THEN u[i] ELSE b[i - Len(u)]
    BY <2>1, ConcatProperties
  <2> QED
    BY <2>1, <2>2, <2>3
<1> HIDE DEF c, l
<1>12. Dropped' = {c[i] : i \in 1..k + l}
  BY <1>1, <1>11 DEF Dropped, c
<1>13. \A i \in 1..k : c[i] = u[i] /\ i \in 1..k + l
  BY <1>2, <1>11
<1>14. \A i \in 1..l : c[i + k] = b[i] /\ i + k \in 1..k + l
  BY <1>2, <1>11
<1>15. \A i \in 1..k + l : i \in 1..k \/ (i - k \in 1..l /\ (i - k) + k = i)
  BY <1>2, <1>11
<1>16. \A x : (\E i \in 1..l : b[i] = x) <=> x \in doomed /\ x \in Queued
  BY <1>2, <1>7 DEF l
<1>17. Dropped' \subseteq Dropped \cup (Queued \cap doomed)
  <2> SUFFICES ASSUME NEW i \in 1..k + l PROVE c[i] \in Dropped \cup (Queued \cap doomed)
    BY <1>12
  <2>1. CASE i \in 1..k
    BY <1>2, <1>13, <2>1
  <2>2. CASE i - k \in 1..l /\ (i - k) + k = i
    <3>1. c[i] = b[i - k]
      BY <1>14, <2>2
    <3> QED
      BY <1>16, <2>2, <3>1
  <2> QED
    BY <1>15, <2>1, <2>2
<1>18. Dropped \subseteq Dropped'
  BY <1>2, <1>12, <1>13
<1>19. Queued \cap doomed \subseteq Dropped'
  <2> SUFFICES ASSUME NEW x \in Queued \cap doomed PROVE x \in Dropped'
    OBVIOUS
  <2>1. PICK i \in 1..l : b[i] = x
    BY <1>16
  <2> QED
    BY <1>12, <1>14, <2>1
<1>20. DroppedOnce'
  <2>1. \A i \in 1..k, m \in 1..l : u[i] # b[m]
    BY <1>2, <1>16
  <2>2. ASSUME NEW i \in 1..k + l, NEW m \in 1..k + l, c[i] = c[m] PROVE i = m
    <3>1. CASE i \in 1..k /\ m \in 1..k
      BY <1>5, <1>13, <2>2, <3>1
    <3>2. CASE i - k \in 1..l /\ (i - k) + k = i /\ m - k \in 1..l /\ (m - k) + k = m
      <4>1. b[i - k] = b[m - k]
        BY <1>14, <2>2, <3>2
      <4>2. i - k = m - k
        BY <1>7, <3>2, <4>1 DEF l
      <4> QED
        BY <3>2, <4>2
    <3>3. CASE i \in 1..k /\ m - k \in 1..l /\ (m - k) + k = m
      <4>1. c[i] = u[i] /\ c[m] = b[m - k]
        BY <1>13, <1>14, <3>3
      <4> QED
        BY <2>1, <2>2, <3>3, <4>1
    <3>4. CASE m \in 1..k /\ i - k \in 1..l /\ (i - k) + k = i
      <4>1. c[m] = u[m] /\ c[i] = b[i - k]
        BY <1>13, <1>14, <3>4
      <4> QED
        BY <2>1, <2>2, <3>4, <4>1
    <3> QED
      BY <1>15, <3>1, <3>2, <3>3, <3>4
  <2>3. Len(unacknowledged') = k + l /\ unacknowledged' = c
    BY <1>1, <1>11 DEF c
  <2> QED
    BY <2>2, <2>3 DEF DroppedOnce
<1>21. jobs' \in Seq(Jobs) /\ unacknowledged' \in Seq(Jobs)
  BY <1>1, <1>6, <1>11 DEF c
<1> QED
  BY <1>9, <1>10, <1>17, <1>18, <1>19, <1>20, <1>21

LEMMA DropTaken ==
  ASSUME unacknowledged \in Seq(Jobs), unacknowledged # <<>>, DroppedOnce,
         unacknowledged' = Front(unacknowledged)
  PROVE  /\ unacknowledged' \in Seq(Jobs) /\ Last(unacknowledged) \in Dropped
         /\ Dropped' = Dropped \ {Last(unacknowledged)} /\ DroppedOnce'
<1> DEFINE u == unacknowledged
           n == Len(u)
<1>1. n \in Nat /\ n >= 1 /\ Last(u) = u[n] /\ \A i \in 1..n : u[i] \in Jobs
  BY EmptySeq DEF Last
<1>2. Len(u') = n - 1 /\ u' \in Seq(Jobs) /\ \A i \in 1..n - 1 : u'[i] = u[i]
  <2>1. u' = SubSeq(u, 1, n - 1)
    BY DEF Front
  <2>2. \A i \in 1..n - 1 : u[i] \in Jobs
    BY <1>1
  <2>3. /\ SubSeq(u, 1, n - 1) \in Seq(Jobs) /\ Len(SubSeq(u, 1, n - 1)) = n - 1
        /\ \A i \in 1..n - 1 : SubSeq(u, 1, n - 1)[i] = u[i]
    <3> DEFINE e == n - 1
    <3>1. 1 \in Int /\ e \in Nat /\ (e - 1) + 1 = e /\ (1 <= e \/ e = 0)
      <4>1. n \in Nat /\ n >= 1
        BY <1>1
      <4> HIDE DEF n
      <4> QED
        BY <4>1
    <3>2. \A i \in 1..e : (1 + i) - 1 = i
      BY <3>1
    <3>3. \A i \in 1..e : u[i] \in Jobs
      BY <2>2
    <3> HIDE DEF e, u
    <3>4. /\ SubSeq(u, 1, e) \in Seq(Jobs) /\ Len(SubSeq(u, 1, e)) = e
          /\ \A i \in 1..e : SubSeq(u, 1, e)[i] = u[i]
      BY <3>1, <3>2, <3>3, SubSeqProperties
    <3> QED
      BY <3>4 DEF e
  <2> QED
    BY <2>1, <2>3
<1>3. Dropped = {u[i] : i \in 1..n} /\ Dropped' = {u'[i] : i \in 1..n - 1}
  BY <1>2 DEF Dropped
<1>4. \A i, k \in 1..n : u[i] = u[k] => i = k
  BY DEF DroppedOnce
<1>5. DroppedOnce' <=> \A i, k \in 1..n - 1 : u'[i] = u'[k] => i = k
  BY <1>2 DEF DroppedOnce
<1>6. \A i \in 1..n - 1 : i \in 1..n /\ i # n
  BY <1>1
<1>7. \A i \in 1..n : i = n \/ i \in 1..n - 1
  BY <1>1
<1>8. n \in 1..n
  BY <1>1
<1> HIDE DEF n
<1>9. Dropped' = Dropped \ {u[n]}
  <2>1. Dropped' \subseteq Dropped \ {u[n]}
    BY <1>2, <1>3, <1>4, <1>6, <1>8
  <2>2. Dropped \ {u[n]} \subseteq Dropped'
    BY <1>2, <1>3, <1>7
  <2> QED
    BY <2>1, <2>2
<1>10. DroppedOnce'
  BY <1>2, <1>4, <1>5, <1>6
<1>11. u[n] \in Dropped
  BY <1>3, <1>8
<1> QED
  BY <1>1, <1>2, <1>9, <1>10, <1>11

LEMMA CancelRemembered ==
  ASSUME cancelled \in Seq(Jobs \cup Elsewhere), Len(cancelled) <= MaxCancels, RememberedOnce,
         NEW j \in Jobs \cup Elsewhere, j \notin Remembered, cancelled' = Remember(j)
  PROVE  /\ cancelled' \in Seq(Jobs \cup Elsewhere) /\ Len(cancelled') <= MaxCancels
         /\ RememberedOnce' /\ j \in Remembered' /\ Remembered' \subseteq Remembered \cup {j}
         /\ Len(cancelled) < MaxCancels => Remembered' = Remembered \cup {j}
<1> DEFINE n == Len(cancelled)
           half == MaxCancels \div 2
           kept == IF n >= MaxCancels THEN SubSeq(cancelled, half + 1, n) ELSE cancelled
           X == Jobs \cup Elsewhere
<1>1. n \in Nat /\ half \in Nat /\ half >= 1 /\ half < MaxCancels /\ MaxCancels \in Nat
  BY WorkerAssumption
<1>2. \A i \in 1..n : cancelled[i] \in X
  OBVIOUS
<1>3. cancelled' = Append(kept, j)
  BY DEF Remember
<1>4. PICK d \in {0, half} :
        /\ kept \in Seq(X) /\ Len(kept) = n - d /\ n - d < MaxCancels /\ n - d \in Nat
        /\ \A i \in 1..n - d : kept[i] = cancelled[i + d] /\ i + d \in 1..n
        /\ n < MaxCancels => d = 0
  <2>1. CASE n >= MaxCancels
    <3>1. \A i \in half + 1..n : cancelled[i] \in X
      BY <1>1, <1>2
    <3>2. /\ SubSeq(cancelled, half + 1, n) \in Seq(X)
          /\ Len(SubSeq(cancelled, half + 1, n)) = n - half
          /\ \A i \in 1..n - half : SubSeq(cancelled, half + 1, n)[i] = cancelled[i + half]
      <4> DEFINE h == half
      <4>1. h \in Nat /\ h + 1 \in Int /\ h <= n /\ n - (h + 1) + 1 = n - h /\ n \in Nat
        BY <1>1, <2>1
      <4>2. \A i \in 1..n - h : (h + 1) + i - 1 = i + h
        BY <4>1
      <4> HIDE DEF h, n, X
      <4>3. \A i \in h + 1..n : cancelled[i] \in X
        BY <3>1 DEF h
      <4>4. /\ SubSeq(cancelled, h + 1, n) \in Seq(X)
            /\ Len(SubSeq(cancelled, h + 1, n)) = n - h
            /\ \A i \in 1..n - h : SubSeq(cancelled, h + 1, n)[i] = cancelled[i + h]
        BY <4>1, <4>2, <4>3, SubSeqProperties
      <4> QED
        BY <4>4 DEF h
    <3>3. \A i \in 1..n - half : i + half \in 1..n
      BY <1>1
    <3> HIDE DEF half
    <3>4. kept = SubSeq(cancelled, half + 1, n)
      BY <2>1, Zenon
    <3>5. n - half < MaxCancels /\ n - half \in Nat /\ ~(n < MaxCancels)
      BY <1>1, <2>1
    <3> HIDE DEF kept
    <3> QED
      BY <3>2, <3>3, <3>4, <3>5
  <2>2. CASE ~(n >= MaxCancels)
    <3>1. kept = cancelled /\ n - 0 = n
      BY <1>1, <2>2
    <3> HIDE DEF kept
    <3>2. \A i \in 1..n - 0 : kept[i] = cancelled[i + 0] /\ i + 0 \in 1..n
      BY <1>1, <3>1
    <3>3. n - 0 < MaxCancels
      BY <1>1, <2>2
    <3> QED
      BY <1>1, <3>1, <3>2, <3>3
  <2> QED
    BY <2>1, <2>2
<1> DEFINE m == n - d
<1> HIDE DEF kept, half, n
<1>5. /\ cancelled' \in Seq(X) /\ Len(cancelled') = m + 1 /\ cancelled'[m + 1] = j /\ m \in Nat
      /\ \A i \in 1..m : cancelled'[i] = kept[i]
  <2>1. j \in X /\ kept \in Seq(X) /\ Len(kept) = m
    BY <1>4
  <2> QED
    BY <1>3, <1>4, <2>1
<1>6. \A i \in 1..m : cancelled'[i] = cancelled[i + d] /\ i + d \in 1..n
  BY <1>4, <1>5
<1>7. Remembered = {cancelled[i] : i \in 1..n} /\ Remembered' = {cancelled'[i] : i \in 1..m + 1}
  BY <1>5 DEF Remembered, n
<1>8. \A i, k \in 1..n : cancelled[i] = cancelled[k] => i = k
  BY DEF RememberedOnce, n
<1>9. d \in Nat /\ m + 1 <= MaxCancels /\ (n < MaxCancels => m = n /\ d = 0)
  BY <1>1, <1>4 DEF n
<1> HIDE DEF m
<1>10. \A i \in 1..m + 1 : i \in 1..m \/ i = m + 1
  BY <1>5
<1>11. \A i \in 1..m : i \in 1..m + 1
  BY <1>5
<1>12. m + 1 \in 1..m + 1
  BY <1>5
<1>13. j \in Remembered' /\ Remembered' \subseteq Remembered \cup {j}
  <2>1. j \in Remembered'
    BY <1>5, <1>7, <1>12
  <2>2. \A i \in 1..m : cancelled'[i] \in Remembered
    BY <1>6, <1>7
  <2>3. \A i \in 1..m + 1 : cancelled'[i] \in Remembered \cup {j}
    BY <1>5, <1>10, <2>2
  <2> QED
    BY <1>7, <2>1, <2>3
<1>14. ASSUME n < MaxCancels PROVE Remembered \subseteq Remembered'
  <2>1. m = n /\ d = 0
    BY <1>9, <1>14
  <2>2. \A i \in 1..n : cancelled'[i] = cancelled[i] /\ i \in 1..m + 1
    BY <1>6, <1>11, <2>1
  <2> QED
    BY <1>7, <2>2
<1>15. RememberedOnce'
  <2> SUFFICES ASSUME NEW i \in 1..m + 1, NEW k \in 1..m + 1, cancelled'[i] = cancelled'[k]
               PROVE  i = k
    BY <1>5 DEF RememberedOnce
  <2>1. \A a \in 1..m : cancelled'[a] # j
    BY <1>6, <1>7
  <2>2. CASE i \in 1..m /\ k \in 1..m
    <3>1. i + d = k + d
      BY <1>6, <1>8, <2>2
    <3> QED
      BY <1>9, <3>1
  <2> QED
    BY <1>5, <1>10, <2>1, <2>2
<1>16. cancelled' \in Seq(X) /\ Len(cancelled') <= MaxCancels
  BY <1>5, <1>9
<1> QED
  BY <1>13, <1>14, <1>15, <1>16 DEF n

-----------------------------------------------------------------------------
(* What stays as it was. *)

LEMMA SamePipe == ASSUME pipe' = pipe PROVE Piped' = Piped /\ Ahead' = Ahead /\ PipedOnce' = PipedOnce
  BY DEF Piped, Ahead, PipedOnce

LEMMA SameQueue == ASSUME jobs' = jobs PROVE Queued' = Queued /\ QueuedOnce' = QueuedOnce
  BY DEF Queued, QueuedOnce

LEMMA SameDropped ==
  ASSUME unacknowledged' = unacknowledged PROVE Dropped' = Dropped /\ DroppedOnce' = DroppedOnce
  BY DEF Dropped, DroppedOnce

LEMMA SameControl == ASSUME control' = control PROVE Ordered' = Ordered
  BY DEF Ordered

LEMMA SameList ==
  ASSUME cancelled' = cancelled PROVE Remembered' = Remembered /\ RememberedOnce' = RememberedOnce
  BY DEF Remembered, RememberedOnce

LEMMA SameFew == ASSUME said' = said, top' = top PROVE Few' = Few
  BY DEF Few, Cancels

(* There are fewer cancels before a write than after it. *)
LEMMA FewBefore ==
  ASSUME IsFiniteSet(said), NEW r, said' = said \cup {r}, top \in Nat, top' \in Nat, top <= top'
  PROVE  IsFiniteSet(said') /\ (Few' => Few)
<1>1. IsFiniteSet(said')
  BY FS_AddElement
<1>2. Cancels \subseteq Cancels' /\ Cancels' \subseteq said' /\ Cancels \subseteq said
  BY DEF Cancels
<1>3. IsFiniteSet(Cancels') /\ IsFiniteSet(Cancels) /\ Cardinality(Cancels) <= Cardinality(Cancels')
  BY <1>1, <1>2, FS_Subset
<1>4. Cardinality(Cancels) \in Nat /\ Cardinality(Cancels') \in Nat /\ MaxCancels \in Nat
  BY <1>3, FS_CardinalityType, WorkerAssumption
<1> QED
  BY <1>1, <1>3, <1>4 DEF Few

(* While there are few, the list has room for the one that is being read. *)
LEMMA FewRoom ==
  ASSUME IsFiniteSet(said), Few, cancelled \in Seq(Jobs \cup Elsewhere), RememberedOnce,
         \A j \in Remembered : <<"Cancel", j>> \in said,
         NEW j, j \notin Remembered, <<"Cancel", j>> \in said
  PROVE  Len(cancelled) < MaxCancels
<1> DEFINE n == Len(cancelled)
           f == [i \in 1..n + 1 |-> IF i = n + 1 THEN <<"Cancel", j>> ELSE <<"Cancel", cancelled[i]>>]
<1>1. n \in Nat /\ \A i \in 1..n : cancelled[i] \in Remembered
  BY DEF Remembered
<1>2. \A i, k \in 1..n : cancelled[i] = cancelled[k] => i = k
  BY DEF RememberedOnce
<1> HIDE DEF n
<1>3. \A i \in 1..n + 1 : i = n + 1 \/ (i \in 1..n /\ i # n + 1)
  BY <1>1
<1>4. \A i \in 1..n : cancelled[i] # j
  BY <1>1
<1>5. f \in Injection(1..n + 1, Cancels)
  <2>1. \A i \in 1..n + 1 : f[i] \in Cancels
    BY <1>1, <1>3 DEF Cancels
  <2>2. ASSUME NEW i \in 1..n + 1, NEW k \in 1..n + 1, f[i] = f[k] PROVE i = k
    BY <1>2, <1>3, <1>4, <2>2
  <2>3. f \in [1..n + 1 -> Cancels]
    BY <2>1
  <2> QED
    BY <2>2, <2>3 DEF Injection, IsInjective
<1>6. IsFiniteSet(Cancels)
  <2>1. Cancels \subseteq said
    BY DEF Cancels
  <2> QED
    BY <2>1, FS_Subset
<1>7. IsFiniteSet(1..n + 1) /\ Cardinality(1..n + 1) = n + 1
  <2>1. n + 1 \in Int /\ 1 \in Int /\ ~(1 > n + 1) /\ (n + 1) - 1 + 1 = n + 1
    BY <1>1
  <2> QED
    BY <2>1, FS_Interval
<1>8. n + 1 <= Cardinality(Cancels)
  BY <1>5, <1>6, <1>7, FS_Injection
<1>9. Cardinality(Cancels) \in Nat /\ MaxCancels \in Nat
  BY <1>6, FS_CardinalityType, WorkerAssumption
<1> QED
  BY <1>1, <1>8, <1>9 DEF Few, n

(* What the reader thread has in front of it. *)
LEMMA HeadIs ==
  ASSUME pipe \in Seq(Messages), pipe # <<>>
  PROVE  /\ Head(pipe) \in Messages
         /\ Head(pipe) = [kind |-> Head(pipe).kind, what |-> What]
         /\ Head(pipe).kind = "Render" => What \in Jobs
         /\ Head(pipe).kind = "Cancel" => What \in Jobs \cup Elsewhere
         /\ Head(pipe).kind = "CancelGeneration" => What \in Nat /\ What # 0
         /\ Head(pipe).kind = "Shutdown" => What = None
         /\ Head(pipe).kind \in {"Open", "Close", "Question"} => Head(pipe) \in Controls
         /\ pipe' = Tail(pipe) => pipe' \in Seq(Messages)
<1>1. Head(pipe) \in Messages /\ (pipe' = Tail(pipe) => pipe' \in Seq(Messages))
  BY HeadTailProperties
<1> DEFINE h == Head(pipe)
<1>2. What = h.what
  BY DEF What
<1> HIDE DEF h
<1>3. h \in Messages => /\ h = [kind |-> h.kind, what |-> h.what]
                        /\ h.kind = "Render" => h.what \in Jobs
                        /\ h.kind = "Cancel" => h.what \in Jobs \cup Elsewhere
                        /\ h.kind = "CancelGeneration" => h.what \in Nat /\ h.what # 0
                        /\ h.kind = "Shutdown" => h.what = None
                        /\ h.kind \in {"Open", "Close", "Question"} => h \in Controls
  BY DEF Messages, Controls
<1> QED
  BY <1>1, <1>2, <1>3 DEF h

LEMMA ConstantsApart == None \notin Jobs /\ None \notin Elsewhere /\ Jobs \cap Elsewhere = {}
                        /\ Jobs \subseteq Nat /\ Elsewhere \subseteq Nat /\ None = 0
  BY WorkerAssumption DEF None, Jobs

LEMMA MessagesAre == Messages \subseteq Requests /\ Controls \subseteq Messages /\ Controls \subseteq Requests
<1>1. Jobs \subseteq Nat /\ Elsewhere \subseteq Nat /\ None \in Nat
  BY ConstantsApart
<1>2. Controls \subseteq Messages /\ Controls \subseteq Requests
  BY DEF Messages, Controls, Requests
<1> DEFINE W == Nat \cup Docs \cup Questions
<1>3. Jobs \subseteq W /\ Jobs \cup Elsewhere \subseteq W /\ Nat \ {0} \subseteq W /\ {None} \subseteq W
  BY <1>1
<1>4. Requests = [kind : {"Render", "Cancel", "CancelGeneration", "Open", "Close", "Question",
                          "Shutdown"}, what : W]
  BY DEF Requests
<1> HIDE DEF W
<1>5. /\ [kind : {"Render"}, what : Jobs] \subseteq Requests
      /\ [kind : {"Cancel"}, what : Jobs \cup Elsewhere] \subseteq Requests
  BY <1>3, <1>4
<1>6. /\ [kind : {"CancelGeneration"}, what : Nat \ {0}] \subseteq Requests
      /\ [kind : {"Shutdown"}, what : {None}] \subseteq Requests
  BY <1>3, <1>4
<1> QED
  BY <1>2, <1>5, <1>6 DEF Messages

(* A longer set of requests is one of more requests. *)
LEMMA SeqRequests ==
  /\ pipe \in Seq(Messages) => pipe \in Seq(Requests)
  /\ control \in Seq(Controls) => control \in Seq(Requests)
  BY MessagesAre

-----------------------------------------------------------------------------
(* The types, as the steps use them. *)
Typed ==
  /\ sent \in Nat /\ gen \in [Jobs -> Nat] /\ top \in Nat /\ floor \in Nat
  /\ held \subseteq Jobs /\ stoppable \subseteq held /\ heeded \subseteq Jobs
  /\ Piped \subseteq Messages /\ Queued \subseteq Jobs /\ Dropped \subseteq Jobs
  /\ Ordered \subseteq Controls /\ Remembered \subseteq Jobs \cup Elsewhere
  /\ Jobs \subseteq Nat /\ None \notin Jobs /\ None = 0 /\ current \in Jobs \cup {None}
  /\ reply \in [Jobs -> {"none", "Rendered", "RenderFailed", "Cancelled"}]
  /\ inFlight \in [id : Jobs \cup {None}, stop : BOOLEAN]

LEMMA TypedFacts == TypeInv => Typed
<1> SUFFICES ASSUME TypeInv PROVE Typed
  OBVIOUS
<1>1. Piped \subseteq Messages /\ Ordered \subseteq Controls
  BY DEF TypeInv, Piped, Ordered
<1>2. Queued \subseteq Jobs /\ Dropped \subseteq Jobs /\ Remembered \subseteq Jobs \cup Elsewhere
  BY DEF TypeInv, TypeOK, Queued, Dropped, Remembered
<1>3. sent \in Nat
  BY WorkerAssumption DEF TypeInv, TypeOK
<1> QED
  BY <1>1, <1>2, <1>3, ConstantsApart DEF TypeInv, TypeOK, Typed


(* The process leaves its loop. *)
LEMMA ExitKeeps ==
  ASSUME WorkerInv, Exit
  PROVE  WorkerInv'
<1>0. TypeInv /\ Phases /\ Written /\ Homes /\ Stops /\ Behind /\ Floors /\ Ended /\ Heeding
  BY DEF WorkerInv
<1>1. /\ main = "choose" /\ shutdown /\ control = <<>> /\ main' = "exit"
  BY DEF Exit, Done, ends, inbox
<1>2. /\ pipe' = pipe /\ sent' = sent /\ gen' = gen /\ top' = top /\ said' = said
      /\ held' = held /\ stoppable' = stoppable /\ asked' = asked /\ opening' = opening
      /\ reply' = reply /\ jobs' = jobs /\ control' = control /\ cancelled' = cancelled
      /\ floor' = floor /\ unacknowledged' = unacknowledged /\ shutdown' = shutdown
      /\ inFlight' = inFlight /\ reading' = reading /\ current' = current /\ open' = open
      /\ heeded' = heeded
  BY DEF Exit, Done, ends, inbox
<1>3. /\ Piped' = Piped /\ Ahead' = Ahead /\ PipedOnce' = PipedOnce
      /\ Queued' = Queued /\ QueuedOnce' = QueuedOnce
      /\ Dropped' = Dropped /\ DroppedOnce' = DroppedOnce
      /\ Ordered' = Ordered
      /\ Remembered' = Remembered /\ RememberedOnce' = RememberedOnce
  BY <1>2, SamePipe, SameQueue, SameDropped, SameControl, SameList
<1>4. Few' = Few
  BY <1>2, SameFew
<1>5. Typed
  BY <1>0, TypedFacts
<1>6. TypeInv'
  BY <1>0, <1>1, <1>2, <1>3, <1>4 DEF TypeInv, TypeOK
<1>7. Phases'
  BY <1>0, <1>1, <1>2 DEF Phases
<1>8. Written'
  BY <1>0, <1>2, <1>3, <1>5 DEF Written, Typed
<1>9. Homes'
  BY <1>0, <1>1, <1>2, <1>3 DEF Homes
<1>10. Stops'
  BY <1>0, <1>2, <1>3, <1>5 DEF Stops, Typed
<1>11. Behind'
  BY <1>0, <1>2, <1>3, <1>5 DEF Behind, Typed
<1>12. Floors'
  BY <1>0, <1>2, <1>3, <1>5 DEF Floors, Typed
<1>13. Ended'
  BY <1>0, <1>1, <1>2, <1>3 DEF Ended
<1>14. Heeding'
  BY <1>0, <1>1, <1>2, <1>3, <1>4 DEF Heeding
<1> QED
  BY <1>6, <1>7, <1>8, <1>9, <1>10, <1>11, <1>12, <1>13, <1>14 DEF WorkerInv

(* A job that no order forbids is prepared. *)
LEMMA CheckPassedKeeps ==
  ASSUME WorkerInv, CheckPassed
  PROVE  WorkerInv'
<1>0. TypeInv /\ Phases /\ Written /\ Homes /\ Stops /\ Behind /\ Floors /\ Ended /\ Heeding
  BY DEF WorkerInv
<1>1. /\ main = "check" /\ main' = "prepare"
      /\ current \notin Remembered
  BY DEF CheckPassed, Obsolete, ends, inbox, Remembered, Range
<1>2. /\ pipe' = pipe /\ sent' = sent /\ gen' = gen /\ top' = top /\ said' = said
      /\ held' = held /\ stoppable' = stoppable /\ asked' = asked /\ opening' = opening
      /\ reply' = reply /\ jobs' = jobs /\ control' = control /\ cancelled' = cancelled
      /\ floor' = floor /\ unacknowledged' = unacknowledged /\ shutdown' = shutdown
      /\ inFlight' = inFlight /\ reading' = reading /\ current' = current /\ open' = open
      /\ heeded' = heeded
  BY DEF CheckPassed, Obsolete, ends, inbox, Remembered, Range
<1>3. /\ Piped' = Piped /\ Ahead' = Ahead /\ PipedOnce' = PipedOnce
      /\ Queued' = Queued /\ QueuedOnce' = QueuedOnce
      /\ Dropped' = Dropped /\ DroppedOnce' = DroppedOnce
      /\ Ordered' = Ordered
      /\ Remembered' = Remembered /\ RememberedOnce' = RememberedOnce
  BY <1>2, SamePipe, SameQueue, SameDropped, SameControl, SameList
<1>4. Few' = Few
  BY <1>2, SameFew
<1>5. Typed
  BY <1>0, TypedFacts
<1>6. TypeInv'
  BY <1>0, <1>1, <1>2, <1>3, <1>4 DEF TypeInv, TypeOK
<1>7. Phases'
  BY <1>0, <1>1, <1>2 DEF Phases
<1>8. Written'
  BY <1>0, <1>2, <1>3, <1>5 DEF Written, Typed
<1>9. Homes'
  BY <1>0, <1>1, <1>2, <1>3 DEF Homes
<1>10. Stops'
  BY <1>0, <1>1, <1>2, <1>3 DEF Stops
<1>11. Behind'
  BY <1>0, <1>2, <1>3, <1>5 DEF Behind, Typed
<1>12. Floors'
  BY <1>0, <1>2, <1>3, <1>5 DEF Floors, Typed
<1>13. Ended'
  BY <1>0, <1>1, <1>2, <1>3 DEF Ended
<1>14. Heeding'
  BY <1>0, <1>1, <1>2, <1>3, <1>4 DEF Heeding
<1> QED
  BY <1>6, <1>7, <1>8, <1>9, <1>10, <1>11, <1>12, <1>13, <1>14 DEF WorkerInv

(* The flag a cancel can raise is published. *)
LEMMA BeginKeeps ==
  ASSUME WorkerInv, Begin
  PROVE  WorkerInv'
<1>0. TypeInv /\ Phases /\ Written /\ Homes /\ Stops /\ Behind /\ Floors /\ Ended /\ Heeding
  BY DEF WorkerInv
<1>1. /\ main = "prepare" /\ main' = "draw" /\ inFlight' = [id |-> current, stop |-> FALSE]
  BY DEF Begin, ends, inbox
<1>2. /\ pipe' = pipe /\ sent' = sent /\ gen' = gen /\ top' = top /\ said' = said
      /\ held' = held /\ stoppable' = stoppable /\ asked' = asked /\ opening' = opening
      /\ reply' = reply /\ jobs' = jobs /\ control' = control /\ cancelled' = cancelled
      /\ floor' = floor /\ unacknowledged' = unacknowledged /\ shutdown' = shutdown
      /\ reading' = reading /\ current' = current /\ open' = open /\ heeded' = heeded
  BY DEF Begin, ends, inbox
<1>3. /\ Piped' = Piped /\ Ahead' = Ahead /\ PipedOnce' = PipedOnce
      /\ Queued' = Queued /\ QueuedOnce' = QueuedOnce
      /\ Dropped' = Dropped /\ DroppedOnce' = DroppedOnce
      /\ Ordered' = Ordered
      /\ Remembered' = Remembered /\ RememberedOnce' = RememberedOnce
  BY <1>2, SamePipe, SameQueue, SameDropped, SameControl, SameList
<1>4. Few' = Few
  BY <1>2, SameFew
<1>5. Typed
  BY <1>0, TypedFacts
<1>6. TypeInv'
  BY <1>0, <1>1, <1>2, <1>3, <1>4 DEF TypeInv, TypeOK
<1>7. Phases'
  BY <1>0, <1>1, <1>2 DEF Phases
<1>8. Written'
  BY <1>0, <1>2, <1>3, <1>5 DEF Written, Typed
<1>9. Homes'
  BY <1>0, <1>1, <1>2, <1>3 DEF Homes
<1>10. Stops'
  BY <1>0, <1>1, <1>2, <1>3 DEF Stops
<1>11. Behind'
  BY <1>0, <1>2, <1>3, <1>5 DEF Behind, Typed
<1>12. Floors'
  BY <1>0, <1>2, <1>3, <1>5 DEF Floors, Typed
<1>13. Ended'
  BY <1>0, <1>1, <1>2, <1>3 DEF Ended
<1>14. Heeding'
  BY <1>0, <1>1, <1>2, <1>3, <1>4 DEF Heeding
<1> QED
  BY <1>6, <1>7, <1>8, <1>9, <1>10, <1>11, <1>12, <1>13, <1>14 DEF WorkerInv

(* A job an order forbids is refused. *)
LEMMA CheckObsoleteKeeps ==
  ASSUME WorkerInv, CheckObsolete
  PROVE  WorkerInv'
<1>0. TypeInv /\ Phases /\ Written /\ Homes /\ Stops /\ Behind /\ Floors /\ Ended /\ Heeding
  BY DEF WorkerInv
<1>1. /\ main = "check" /\ main' = "choose" /\ current' = None
      /\ reply' = [reply EXCEPT ![current] = "Cancelled"]
      /\ held' = held \ {current} /\ stoppable' = stoppable \ {current}
  BY DEF CheckObsolete, ReplyTo, RestOfReply, inbox
<1>2. /\ pipe' = pipe /\ sent' = sent /\ gen' = gen /\ top' = top /\ said' = said
      /\ asked' = asked /\ opening' = opening /\ jobs' = jobs /\ control' = control
      /\ cancelled' = cancelled /\ floor' = floor /\ unacknowledged' = unacknowledged
      /\ shutdown' = shutdown /\ inFlight' = inFlight /\ reading' = reading /\ open' = open
      /\ heeded' = heeded
  BY DEF CheckObsolete, ReplyTo, RestOfReply, inbox
<1>3. /\ Piped' = Piped /\ Ahead' = Ahead /\ PipedOnce' = PipedOnce
      /\ Queued' = Queued /\ QueuedOnce' = QueuedOnce
      /\ Dropped' = Dropped /\ DroppedOnce' = DroppedOnce
      /\ Ordered' = Ordered
      /\ Remembered' = Remembered /\ RememberedOnce' = RememberedOnce
  BY <1>2, SamePipe, SameQueue, SameDropped, SameControl, SameList
<1>4. Few' = Few
  BY <1>2, SameFew
<1>5. Typed
  BY <1>0, TypedFacts
<1>6. TypeInv'
  BY <1>0, <1>1, <1>2, <1>3, <1>4 DEF TypeInv, TypeOK
<1>7. Phases'
  BY <1>0, <1>1, <1>2 DEF Phases
<1>8. Written'
  BY <1>0, <1>2, <1>3, <1>5 DEF Written, Typed
<1>9. Homes'
  BY <1>0, <1>1, <1>2, <1>3, <1>5 DEF Homes, Typed
<1>10. Stops'
  <2>1. \A j \in held' : gen'[j] < top' => j \in stoppable'
    BY <1>0, <1>1, <1>2 DEF Stops
  <2>2. \A j \in held' : <<"Cancel", j>> \in said' => j \in stoppable'
    BY <1>0, <1>1, <1>2 DEF Stops
  <2>3. floor' <= top' /\ \A j \in Remembered' : <<"Cancel", j>> \in said'
    BY <1>0, <1>1, <1>2, <1>3 DEF Stops
  <2>4. \A j \in Dropped' : j \in stoppable'
    BY <1>0, <1>1, <1>3 DEF Stops, Homes
  <2>5. inFlight'.stop => current' \in stoppable'
    BY <1>0, <1>1, <1>2 DEF Stops, Homes, Phases
  <2> QED
    BY <2>1, <2>2, <2>3, <2>4, <2>5 DEF Stops
<1>11. Behind'
  BY <1>0, <1>1, <1>2, <1>3 DEF Behind
<1>12. Floors'
  BY <1>0, <1>2, <1>3, <1>5 DEF Floors, Typed
<1>13. Ended'
  BY <1>0, <1>1, <1>2, <1>3 DEF Ended
<1>14. Heeding'
  BY <1>0, <1>1, <1>2, <1>3, <1>4 DEF Heeding
<1> QED
  BY <1>6, <1>7, <1>8, <1>9, <1>10, <1>11, <1>12, <1>13, <1>14 DEF WorkerInv

(* A job that cannot be prepared fails. *)
LEMMA PrepareFailsKeeps ==
  ASSUME WorkerInv, PrepareFails
  PROVE  WorkerInv'
<1>0. TypeInv /\ Phases /\ Written /\ Homes /\ Stops /\ Behind /\ Floors /\ Ended /\ Heeding
  BY DEF WorkerInv
<1>1. /\ main = "prepare" /\ main' = "choose" /\ current' = None
      /\ reply' = [reply EXCEPT ![current] = "RenderFailed"]
      /\ held' = held \ {current} /\ stoppable' = stoppable \ {current}
  BY DEF PrepareFails, ReplyTo, RestOfReply, inbox
<1>2. /\ pipe' = pipe /\ sent' = sent /\ gen' = gen /\ top' = top /\ said' = said
      /\ asked' = asked /\ opening' = opening /\ jobs' = jobs /\ control' = control
      /\ cancelled' = cancelled /\ floor' = floor /\ unacknowledged' = unacknowledged
      /\ shutdown' = shutdown /\ inFlight' = inFlight /\ reading' = reading /\ open' = open
      /\ heeded' = heeded
  BY DEF PrepareFails, ReplyTo, RestOfReply, inbox
<1>3. /\ Piped' = Piped /\ Ahead' = Ahead /\ PipedOnce' = PipedOnce
      /\ Queued' = Queued /\ QueuedOnce' = QueuedOnce
      /\ Dropped' = Dropped /\ DroppedOnce' = DroppedOnce
      /\ Ordered' = Ordered
      /\ Remembered' = Remembered /\ RememberedOnce' = RememberedOnce
  BY <1>2, SamePipe, SameQueue, SameDropped, SameControl, SameList
<1>4. Few' = Few
  BY <1>2, SameFew
<1>5. Typed
  BY <1>0, TypedFacts
<1>6. TypeInv'
  BY <1>0, <1>1, <1>2, <1>3, <1>4 DEF TypeInv, TypeOK
<1>7. Phases'
  BY <1>0, <1>1, <1>2 DEF Phases
<1>8. Written'
  BY <1>0, <1>2, <1>3, <1>5 DEF Written, Typed
<1>9. Homes'
  BY <1>0, <1>1, <1>2, <1>3, <1>5 DEF Homes, Typed
<1>10. Stops'
  <2>1. \A j \in held' : gen'[j] < top' => j \in stoppable'
    BY <1>0, <1>1, <1>2 DEF Stops
  <2>2. \A j \in held' : <<"Cancel", j>> \in said' => j \in stoppable'
    BY <1>0, <1>1, <1>2 DEF Stops
  <2>3. floor' <= top' /\ \A j \in Remembered' : <<"Cancel", j>> \in said'
    BY <1>0, <1>1, <1>2, <1>3 DEF Stops
  <2>4. \A j \in Dropped' : j \in stoppable'
    BY <1>0, <1>1, <1>3 DEF Stops, Homes
  <2>5. inFlight'.stop => current' \in stoppable'
    BY <1>0, <1>1, <1>2 DEF Stops, Homes, Phases
  <2> QED
    BY <2>1, <2>2, <2>3, <2>4, <2>5 DEF Stops
<1>11. Behind'
  BY <1>0, <1>1, <1>2, <1>3 DEF Behind
<1>12. Floors'
  BY <1>0, <1>2, <1>3, <1>5 DEF Floors, Typed
<1>13. Ended'
  BY <1>0, <1>1, <1>2, <1>3 DEF Ended
<1>14. Heeding'
  BY <1>0, <1>1, <1>2, <1>3, <1>4 DEF Heeding
<1> QED
  BY <1>6, <1>7, <1>8, <1>9, <1>10, <1>11, <1>12, <1>13, <1>14 DEF WorkerInv

(* A job is drawn, fails or is given up. *)
LEMMA DrawKeeps ==
  ASSUME WorkerInv, NEW kind \in {"Rendered", "RenderFailed", "Cancelled"}, Draw(kind)
  PROVE  WorkerInv'
<1>0. TypeInv /\ Phases /\ Written /\ Homes /\ Stops /\ Behind /\ Floors /\ Ended /\ Heeding
  BY DEF WorkerInv
<1>1. /\ main = "draw" /\ main' = "choose" /\ current' = None /\ inFlight' = [id |-> None, stop |-> FALSE]
      /\ reply' = [reply EXCEPT ![current] = kind]
      /\ held' = held \ {current} /\ stoppable' = stoppable \ {current}
  BY DEF Draw, Idle, ReplyTo, RestOfReply, inbox
<1>2. /\ pipe' = pipe /\ sent' = sent /\ gen' = gen /\ top' = top /\ said' = said
      /\ asked' = asked /\ opening' = opening /\ jobs' = jobs /\ control' = control
      /\ cancelled' = cancelled /\ floor' = floor /\ unacknowledged' = unacknowledged
      /\ shutdown' = shutdown /\ reading' = reading /\ open' = open /\ heeded' = heeded
  BY DEF Draw, Idle, ReplyTo, RestOfReply, inbox
<1>3. /\ Piped' = Piped /\ Ahead' = Ahead /\ PipedOnce' = PipedOnce
      /\ Queued' = Queued /\ QueuedOnce' = QueuedOnce
      /\ Dropped' = Dropped /\ DroppedOnce' = DroppedOnce
      /\ Ordered' = Ordered
      /\ Remembered' = Remembered /\ RememberedOnce' = RememberedOnce
  BY <1>2, SamePipe, SameQueue, SameDropped, SameControl, SameList
<1>4. Few' = Few
  BY <1>2, SameFew
<1>5. Typed
  BY <1>0, TypedFacts
<1>6. TypeInv'
  BY <1>0, <1>1, <1>2, <1>3, <1>4 DEF TypeInv, TypeOK
<1>7. Phases'
  BY <1>0, <1>1, <1>2 DEF Phases
<1>8. Written'
  BY <1>0, <1>2, <1>3, <1>5 DEF Written, Typed
<1>9. Homes'
  BY <1>0, <1>1, <1>2, <1>3, <1>5 DEF Homes, Typed
<1>10. Stops'
  <2>1. \A j \in held' : gen'[j] < top' => j \in stoppable'
    BY <1>0, <1>1, <1>2 DEF Stops
  <2>2. \A j \in held' : <<"Cancel", j>> \in said' => j \in stoppable'
    BY <1>0, <1>1, <1>2 DEF Stops
  <2>3. floor' <= top' /\ \A j \in Remembered' : <<"Cancel", j>> \in said'
    BY <1>0, <1>1, <1>2, <1>3 DEF Stops
  <2>4. \A j \in Dropped' : j \in stoppable'
    BY <1>0, <1>1, <1>3 DEF Stops, Homes
  <2>5. inFlight'.stop => current' \in stoppable'
    BY <1>0, <1>1 DEF Stops, Homes, Phases
  <2> QED
    BY <2>1, <2>2, <2>3, <2>4, <2>5 DEF Stops
<1>11. Behind'
  BY <1>0, <1>1, <1>2, <1>3 DEF Behind
<1>12. Floors'
  BY <1>0, <1>2, <1>3, <1>5 DEF Floors, Typed
<1>13. Ended'
  BY <1>0, <1>1, <1>2, <1>3 DEF Ended
<1>14. Heeding'
  BY <1>0, <1>1, <1>2, <1>3, <1>4 DEF Heeding
<1> QED
  BY <1>6, <1>7, <1>8, <1>9, <1>10, <1>11, <1>12, <1>13, <1>14 DEF WorkerInv

(* A job that was dropped is acknowledged. *)
LEMMA AcknowledgeKeeps ==
  ASSUME WorkerInv, Acknowledge
  PROVE  WorkerInv'
<1>0. TypeInv /\ Phases /\ Written /\ Homes /\ Stops /\ Behind /\ Floors /\ Ended /\ Heeding
  BY DEF WorkerInv
<1>1. /\ main = "choose" /\ unacknowledged # <<>>
      /\ unacknowledged' = Front(unacknowledged)
      /\ reply' = [reply EXCEPT ![Last(unacknowledged)] = "Cancelled"]
      /\ held' = held \ {Last(unacknowledged)} /\ stoppable' = stoppable \ {Last(unacknowledged)}
  BY DEF Acknowledge, ReplyTo, RestOfReply, Threads
<1>2. /\ pipe' = pipe /\ sent' = sent /\ gen' = gen /\ top' = top /\ said' = said
      /\ asked' = asked /\ opening' = opening /\ jobs' = jobs /\ control' = control
      /\ cancelled' = cancelled /\ floor' = floor /\ shutdown' = shutdown
      /\ inFlight' = inFlight /\ reading' = reading /\ main' = main /\ current' = current
      /\ open' = open /\ heeded' = heeded
  BY DEF Acknowledge, ReplyTo, RestOfReply, Threads
<1>3. /\ Piped' = Piped /\ Ahead' = Ahead /\ PipedOnce' = PipedOnce
      /\ Queued' = Queued /\ QueuedOnce' = QueuedOnce
      /\ Ordered' = Ordered
      /\ Remembered' = Remembered /\ RememberedOnce' = RememberedOnce
  BY <1>2, SamePipe, SameQueue, SameControl, SameList
<1>4. Few' = Few
  BY <1>2, SameFew
<1>5. /\ unacknowledged' \in Seq(Jobs) /\ Last(unacknowledged) \in Dropped
      /\ Dropped' = Dropped \ {Last(unacknowledged)} /\ DroppedOnce'
  BY <1>0, <1>1, DropTaken DEF TypeInv, TypeOK, Homes
<1>6. Typed
  BY <1>0, TypedFacts
<1>7. TypeInv'
  BY <1>0, <1>1, <1>2, <1>3, <1>4, <1>5 DEF TypeInv, TypeOK
<1>8. Phases'
  BY <1>0, <1>1, <1>2 DEF Phases
<1>9. Written'
  BY <1>0, <1>2, <1>3, <1>6 DEF Written, Typed
<1>10. Homes'
  BY <1>0, <1>1, <1>2, <1>3, <1>5, <1>6 DEF Homes, Typed
<1>11. Stops'
  <2>1. \A j \in held' : gen'[j] < top' => j \in stoppable'
    BY <1>0, <1>1, <1>2 DEF Stops
  <2>2. \A j \in held' : <<"Cancel", j>> \in said' => j \in stoppable'
    BY <1>0, <1>1, <1>2 DEF Stops
  <2>3. floor' <= top' /\ \A j \in Remembered' : <<"Cancel", j>> \in said'
    BY <1>0, <1>1, <1>2, <1>3 DEF Stops
  <2>4. \A j \in Dropped' : j \in stoppable'
    BY <1>0, <1>1, <1>2, <1>5 DEF Stops, Homes
  <2>5. inFlight'.stop => current' \in stoppable'
    BY <1>0, <1>1, <1>2 DEF Stops, Homes, Phases
  <2> QED
    BY <2>1, <2>2, <2>3, <2>4, <2>5 DEF Stops
<1>12. Behind'
  BY <1>0, <1>1, <1>2, <1>3 DEF Behind
<1>13. Floors'
  BY <1>0, <1>2, <1>3, <1>6 DEF Floors, Typed
<1>14. Ended'
  BY <1>0, <1>1, <1>2, <1>3 DEF Ended
<1>15. Heeding'
  BY <1>0, <1>1, <1>2, <1>3, <1>4 DEF Heeding
<1> QED
  BY <1>7, <1>8, <1>9, <1>10, <1>11, <1>12, <1>13, <1>14, <1>15 DEF WorkerInv

(* The main thread takes a job from the queue. *)
LEMMA TakeJobKeeps ==
  ASSUME WorkerInv, TakeJob
  PROVE  WorkerInv'
<1>0. TypeInv /\ Phases /\ Written /\ Homes /\ Stops /\ Behind /\ Floors /\ Ended /\ Heeding
  BY DEF WorkerInv
<1>1. /\ main = "choose" /\ main' = "check"
      /\ \E i \in 1..Len(jobs) : jobs' = RemoveAt(jobs, i) /\ current' = jobs[i]
  BY DEF TakeJob, ends
<1>2. /\ pipe' = pipe /\ sent' = sent /\ gen' = gen /\ top' = top /\ said' = said
      /\ held' = held /\ stoppable' = stoppable /\ asked' = asked /\ opening' = opening
      /\ reply' = reply /\ control' = control /\ cancelled' = cancelled /\ floor' = floor
      /\ unacknowledged' = unacknowledged /\ shutdown' = shutdown /\ inFlight' = inFlight
      /\ reading' = reading /\ open' = open /\ heeded' = heeded
  BY DEF TakeJob, ends
<1>3. /\ Piped' = Piped /\ Ahead' = Ahead /\ PipedOnce' = PipedOnce
      /\ Dropped' = Dropped /\ DroppedOnce' = DroppedOnce
      /\ Ordered' = Ordered
      /\ Remembered' = Remembered /\ RememberedOnce' = RememberedOnce
  BY <1>2, SamePipe, SameDropped, SameControl, SameList
<1>4. Few' = Few
  BY <1>2, SameFew
<1>5. \E i \in 1..Len(jobs) : jobs' = RemoveAt(jobs, i) /\ current' = jobs[i]
  BY <1>1
<1>6. /\ jobs' \in Seq(Jobs) /\ current' \in Queued
      /\ Queued' = Queued \ {current'} /\ QueuedOnce'
  BY <1>0, <1>5, QueueTaken DEF TypeInv, TypeOK, Homes
<1>7. Typed
  BY <1>0, TypedFacts
<1>8. TypeInv'
  BY <1>0, <1>1, <1>2, <1>3, <1>4, <1>5, <1>6, SMTT(20) DEF TypeInv, TypeOK
<1>9. Phases'
  BY <1>0, <1>1, <1>2, <1>5, <1>6, <1>7 DEF Phases, Typed
<1>10. Written'
  BY <1>0, <1>2, <1>3, <1>7 DEF Written, Typed
<1>11. Homes'
  <2>1. \A j \in held' : \/ [kind |-> "Render", what |-> j] \in Piped'
                         \/ j \in Queued' \/ j \in Dropped' \/ j = current'
    BY <1>0, <1>1, <1>2, <1>3, <1>5, <1>6, <1>7 DEF Homes, Phases, Typed
  <2>2. \A j \in Jobs : [kind |-> "Render", what |-> j] \in Piped' =>
                         j \in held' /\ j \notin Queued' /\ j \notin Dropped' /\ j # current'
    BY <1>0, <1>1, <1>2, <1>3, <1>5, <1>6 DEF Homes
  <2>3. /\ \A j \in Queued' : j \in held' /\ j \notin Dropped' /\ j # current'
        /\ \A j \in Dropped' : j \in held' /\ j # current'
        /\ current' # None => current' \in held'
    BY <1>0, <1>1, <1>2, <1>3, <1>5, <1>6 DEF Homes
  <2>4. QueuedOnce' /\ DroppedOnce'
    BY <1>0, <1>1, <1>2, <1>3, <1>5, <1>6, <1>7 DEF Homes
  <2>5. \A j \in held' : j <= sent'
    BY <1>0, <1>1, <1>2, <1>3, <1>5, <1>6 DEF Homes
  <2>6. \A j \in Jobs : j > sent' => reply'[j] = "none"
    BY <1>0, <1>1, <1>2, <1>3, <1>5, <1>6 DEF Homes
  <2> QED
    BY <2>1, <2>2, <2>3, <2>4, <2>5, <2>6 DEF Homes
<1>12. Stops'
  <2>1. \A j \in held' : gen'[j] < top' => j \in stoppable'
    BY <1>0, <1>1, <1>2, <1>5, <1>6 DEF Stops
  <2>2. \A j \in held' : <<"Cancel", j>> \in said' => j \in stoppable'
    BY <1>0, <1>1, <1>2, <1>5, <1>6 DEF Stops
  <2>3. floor' <= top' /\ \A j \in Remembered' : <<"Cancel", j>> \in said'
    BY <1>0, <1>1, <1>2, <1>3, <1>5, <1>6 DEF Stops
  <2>4. \A j \in Dropped' : j \in stoppable'
    BY <1>0, <1>1, <1>2, <1>3, <1>5, <1>6 DEF Stops, Homes
  <2>5. inFlight'.stop => current' \in stoppable'
    BY <1>0, <1>1, <1>2, <1>5, <1>6 DEF Stops, Homes, Phases
  <2> QED
    BY <2>1, <2>2, <2>3, <2>4, <2>5 DEF Stops
<1>13. Behind'
  BY <1>0, <1>2, <1>3, <1>7 DEF Behind, Typed
<1>14. Floors'
  BY <1>0, <1>2, <1>3, <1>7 DEF Floors, Typed
<1>15. Ended'
  BY <1>0, <1>1, <1>2, <1>3 DEF Ended
<1>16. Heeding'
  BY <1>0, <1>1, <1>2, <1>3, <1>4, <1>5, <1>6 DEF Heeding
<1> QED
  BY <1>8, <1>9, <1>10, <1>11, <1>12, <1>13, <1>14, <1>15, <1>16 DEF WorkerInv

(* A control request is carried out. *)
LEMMA TakeControlKeeps ==
  ASSUME WorkerInv, TakeControl
  PROVE  WorkerInv'
<1>0. TypeInv /\ Phases /\ Written /\ Homes /\ Stops /\ Behind /\ Floors /\ Ended /\ Heeding
  BY DEF WorkerInv
<1>1. /\ main = "choose" /\ control # <<>> /\ control' = Tail(control)
      /\ \/ /\ Head(control).kind = "Open"
            /\ opening' = opening \ {Head(control).what}
            /\ asked' = asked
            /\ open' \in {open, open \cup {Head(control).what}}
         \/ /\ Head(control).kind = "Close"
            /\ opening' = opening
            /\ asked' = asked
            /\ open' = open \ {Head(control).what}
         \/ /\ Head(control).kind = "Question"
            /\ asked' = asked \ {Head(control).what}
            /\ opening' = opening
            /\ open' = open
  BY DEF TakeControl
<1>2. /\ pipe' = pipe /\ sent' = sent /\ gen' = gen /\ top' = top /\ said' = said
      /\ held' = held /\ stoppable' = stoppable /\ reply' = reply /\ jobs' = jobs
      /\ cancelled' = cancelled /\ floor' = floor /\ unacknowledged' = unacknowledged
      /\ shutdown' = shutdown /\ inFlight' = inFlight /\ reading' = reading /\ main' = main
      /\ current' = current /\ heeded' = heeded
  BY DEF TakeControl
<1>3. /\ Piped' = Piped /\ Ahead' = Ahead /\ PipedOnce' = PipedOnce
      /\ Queued' = Queued /\ QueuedOnce' = QueuedOnce
      /\ Dropped' = Dropped /\ DroppedOnce' = DroppedOnce
      /\ Remembered' = Remembered /\ RememberedOnce' = RememberedOnce
  BY <1>2, SamePipe, SameQueue, SameDropped, SameList
<1>4. Few' = Few
  BY <1>2, SameFew
<1>5. /\ Head(control) \in Ordered /\ Head(control) \in Controls
      /\ Ordered' \subseteq Ordered /\ Ordered \subseteq Ordered' \cup {Head(control)}
  BY <1>0, <1>1, ControlTaken DEF TypeInv
<1>6. control' \in Seq(Controls)
  BY <1>0, <1>1 DEF TypeInv
<1>7. control' \in Seq(Requests)
  BY <1>6, MessagesAre
<1>8. Typed
  BY <1>0, TypedFacts
<1>9. TypeInv'
  <2>1. opening' \subseteq Docs /\ asked' \subseteq Questions /\ open' \subseteq Docs
    <3>1. Head(control).kind \in {"Open", "Close"} => Head(control).what \in Docs
      BY <1>5 DEF Controls
    <3> QED
      BY <1>0, <1>1, <3>1 DEF TypeInv, TypeOK
  <2> QED
    BY <1>0, <1>1, <1>2, <1>3, <1>4, <1>5, <1>6, <1>7, <1>8, <2>1 DEF TypeInv, TypeOK, Typed
<1>10. Phases'
  BY <1>0, <1>1, <1>2, <1>5 DEF Phases
<1>11. Written'
  BY <1>0, <1>2, <1>3, <1>8 DEF Written, Typed
<1>12. Homes'
  BY <1>0, <1>1, <1>2, <1>3 DEF Homes
<1>13. Stops'
  BY <1>0, <1>2, <1>3, <1>8 DEF Stops, Typed
<1>14. Behind'
  BY <1>0, <1>2, <1>3, <1>8 DEF Behind, Typed
<1>15. Floors'
  BY <1>0, <1>2, <1>3, <1>8 DEF Floors, Typed
<1>16. Ended'
  BY <1>0, <1>1, <1>2, <1>3, <1>5, <1>6, <1>7 DEF Ended
<1>17. Heeding'
  BY <1>0, <1>1, <1>2, <1>3, <1>4 DEF Heeding
<1> QED
  BY <1>9, <1>10, <1>11, <1>12, <1>13, <1>14, <1>15, <1>16, <1>17 DEF WorkerInv

LEMMA HeadPiped == ASSUME pipe \in Seq(Messages), pipe # <<>> PROVE Head(pipe) \in Piped
<1>1. Len(pipe) \in Nat /\ Len(pipe) >= 1 /\ Head(pipe) = pipe[1]
  BY HeadTailProperties
<1> QED
  BY <1>1 DEF Piped


LEMMA HeadAhead ==
  ASSUME pipe \in Seq(Messages), pipe # <<>>
  PROVE  \A y \in Piped : y = Head(pipe) \/ <<Head(pipe), y>> \in Ahead
<1>1. Len(pipe) \in Nat /\ Len(pipe) >= 1 /\ Head(pipe) = pipe[1]
  BY HeadTailProperties
<1> SUFFICES ASSUME NEW k \in 1..Len(pipe), k # 1
             PROVE  <<Head(pipe), pipe[k]>> \in Ahead
  BY <1>1 DEF Piped
<1>2. 1 \in 1..Len(pipe) /\ 1 < k
  BY <1>1
<1>3. Head(pipe) \in Piped /\ pipe[k] \in Piped
  BY <1>1, <1>2 DEF Piped
<1> QED
  BY <1>1, <1>2, <1>3 DEF Ahead


(* A cancel raises the flag of the render it names. *)
LEMMA ReadCancelKeeps ==
  ASSUME WorkerInv, ReadCancel
  PROVE  WorkerInv'
<1>0. TypeInv /\ Phases /\ Written /\ Homes /\ Stops /\ Behind /\ Floors /\ Ended /\ Heeding
  BY DEF WorkerInv
<1>1. /\ reading = "none" /\ pipe # <<>> /\ Head(pipe).kind = "Cancel" /\ reading' = "Cancel"
      /\ inFlight' = [id |-> inFlight.id, stop |-> inFlight.stop \/ inFlight.id = What]
  BY <1>0 DEF ReadCancel, Reading, Flag, ends, inbox, Threads, TypeInv, TypeOK
<1>2. /\ pipe' = pipe /\ sent' = sent /\ gen' = gen /\ top' = top /\ said' = said
      /\ held' = held /\ stoppable' = stoppable /\ asked' = asked /\ opening' = opening
      /\ reply' = reply /\ jobs' = jobs /\ control' = control /\ cancelled' = cancelled
      /\ floor' = floor /\ unacknowledged' = unacknowledged /\ shutdown' = shutdown
      /\ main' = main /\ current' = current /\ open' = open /\ heeded' = heeded
  BY DEF ReadCancel, Reading, Flag, ends, inbox, Threads, TypeInv, TypeOK
<1>3. /\ Piped' = Piped /\ Ahead' = Ahead /\ PipedOnce' = PipedOnce
      /\ Queued' = Queued /\ QueuedOnce' = QueuedOnce
      /\ Dropped' = Dropped /\ DroppedOnce' = DroppedOnce
      /\ Ordered' = Ordered
      /\ Remembered' = Remembered /\ RememberedOnce' = RememberedOnce
  BY <1>2, SamePipe, SameQueue, SameDropped, SameControl, SameList
<1>4. Few' = Few
  BY <1>2, SameFew
<1>5. /\ Head(pipe) = [kind |-> "Cancel", what |-> What]
      /\ What \in Jobs \cup Elsewhere
  BY <1>0, <1>1, HeadIs DEF TypeInv
<1>6. Head(pipe) \in Piped
  BY <1>0, <1>1, HeadPiped DEF TypeInv
<1>7. What # None /\ <<"Cancel", What>> \in said
  BY <1>0, <1>5, <1>6, ConstantsApart DEF Written
<1>8. Typed
  BY <1>0, TypedFacts
<1>9. TypeInv'
  BY <1>0, <1>1, <1>2, <1>3, <1>4, <1>5, <1>6, <1>7 DEF TypeInv, TypeOK
<1>10. Phases'
  BY <1>0, <1>1, <1>2, <1>3, <1>4, <1>5, <1>6, <1>7 DEF Phases
<1>11. Written'
  BY <1>0, <1>2, <1>3, <1>6, <1>7, <1>8 DEF Written, Typed
<1>12. Homes'
  <2>1. \A j \in held' : \/ [kind |-> "Render", what |-> j] \in Piped'
                         \/ j \in Queued' \/ j \in Dropped' \/ j = current'
    BY <1>0, <1>1, <1>2, <1>3, <1>5, <1>6 DEF Homes, Phases
  <2>2. \A j \in Jobs : [kind |-> "Render", what |-> j] \in Piped' =>
                         j \in held' /\ j \notin Queued' /\ j \notin Dropped' /\ j # current'
    BY <1>0, <1>2, <1>3, <1>6, <1>8 DEF Homes, Typed
  <2>3. /\ \A j \in Queued' : j \in held' /\ j \notin Dropped' /\ j # current'
        /\ \A j \in Dropped' : j \in held' /\ j # current'
        /\ current' # None => current' \in held'
    BY <1>0, <1>2, <1>3, <1>6, <1>8 DEF Homes, Typed
  <2>4. QueuedOnce' /\ DroppedOnce'
    BY <1>0, <1>2, <1>3, <1>6, <1>8 DEF Homes
  <2>5. \A j \in held' : j <= sent'
    BY <1>0, <1>2, <1>3, <1>6, <1>8 DEF Homes, Typed
  <2>6. \A j \in Jobs : j > sent' => reply'[j] = "none"
    BY <1>0, <1>2, <1>3, <1>6, <1>8 DEF Homes, Typed
  <2> QED
    BY <2>1, <2>2, <2>3, <2>4, <2>5, <2>6 DEF Homes
<1>13. Stops'
  <2>1. \A j \in held' : gen'[j] < top' => j \in stoppable'
    BY <1>0, <1>2, <1>8 DEF Stops, Typed
  <2>2. \A j \in held' : <<"Cancel", j>> \in said' => j \in stoppable'
    BY <1>0, <1>2, <1>7, <1>8 DEF Stops, Typed
  <2>3. floor' <= top' /\ \A j \in Remembered' : <<"Cancel", j>> \in said'
    BY <1>0, <1>2, <1>3, <1>7, <1>8 DEF Stops, Typed
  <2>4. \A j \in Dropped' : j \in stoppable'
    BY <1>0, <1>2, <1>3, <1>8 DEF Stops, Homes, Typed
  <2>5. inFlight'.stop => current' \in stoppable'
    BY <1>0, <1>1, <1>2, <1>3, <1>4, <1>5, <1>6, <1>7 DEF Stops, Homes, Phases
  <2> QED
    BY <2>1, <2>2, <2>3, <2>4, <2>5 DEF Stops
<1>14. Behind'
  BY <1>0, <1>2, <1>3, <1>6, <1>8 DEF Behind, Typed
<1>15. Floors'
  BY <1>0, <1>2, <1>3, <1>6, <1>8 DEF Floors, Typed
<1>16. Ended'
  BY <1>0, <1>1, <1>2, <1>3, <1>5, <1>6, <1>7 DEF Ended
<1>17. Heeding'
  BY <1>0, <1>2, <1>3, <1>4, <1>6, <1>8 DEF Heeding, Typed
<1> QED
  BY <1>9, <1>10, <1>11, <1>12, <1>13, <1>14, <1>15, <1>16, <1>17 DEF WorkerInv

(* A cancel drops the queued job it names, and is remembered. *)
LEMMA FinishCancelKeeps ==
  ASSUME WorkerInv, FinishCancel
  PROVE  WorkerInv'
<1>0. TypeInv /\ Phases /\ Written /\ Homes /\ Stops /\ Behind /\ Floors /\ Ended /\ Heeding
  BY DEF WorkerInv
<1>1. /\ reading = "Cancel" /\ pipe # <<>> /\ Head(pipe).kind = "Cancel" /\ reading' = "none"
      /\ pipe' = Tail(pipe)
      /\ Drain({What}) /\ cancelled' = Remember(What)
      /\ heeded' = IF main = "check" /\ current = What THEN heeded \cup {What} ELSE heeded
  BY <1>0 DEF FinishCancel, Read, RestOfEnds, Threads, Phases
<1>2. /\ sent' = sent /\ gen' = gen /\ top' = top /\ said' = said /\ held' = held
      /\ stoppable' = stoppable /\ asked' = asked /\ opening' = opening /\ reply' = reply
      /\ control' = control /\ floor' = floor /\ shutdown' = shutdown /\ inFlight' = inFlight
      /\ main' = main /\ current' = current /\ open' = open
  BY DEF FinishCancel, Read, RestOfEnds, Threads, Phases
<1>3. /\ Ordered' = Ordered
  BY <1>2, SameControl
<1>4. Few' = Few
  BY <1>2, SameFew
<1>5. /\ pipe' \in Seq(Messages)
      /\ Head(pipe) = [kind |-> "Cancel", what |-> What] /\ What \in Jobs \cup Elsewhere
  BY <1>0, <1>1, HeadIs DEF TypeInv
<1>6. /\ Head(pipe) \in Piped /\ Piped \subseteq Messages /\ Piped' = Piped \ {Head(pipe)}
      /\ \A x, y : <<x, y>> \in Ahead' => <<x, y>> \in Ahead
      /\ \A x, y : <<x, y>> \in Ahead /\ x # Head(pipe) => <<x, y>> \in Ahead'
      /\ \A y \in Piped' : <<Head(pipe), y>> \in Ahead
      /\ \A x : <<x, Head(pipe)>> \notin Ahead
      /\ PipedOnce' /\ (Piped' = {} => pipe' = <<>>)
  BY <1>0, <1>1, PipeRead DEF TypeInv, Written
<1>7. What # None /\ <<"Cancel", What>> \in said /\ What \notin Remembered
  <2>1. What # None
    BY <1>5, ConstantsApart
  <2>2. Head(pipe).kind # "Render" /\ Head(pipe) \in Piped
    BY <1>1, <1>6
  <2>3. <<"Cancel", What>> \in said
    BY <1>0, <1>1, <2>2 DEF Written, What
  <2>4. [kind |-> "Cancel", what |-> What] \in Piped
    BY <1>5, <2>2
  <2> QED
    BY <1>0, <2>1, <2>3, <2>4 DEF Heeding
<1>8. /\ jobs' \in Seq(Jobs) /\ unacknowledged' \in Seq(Jobs)
      /\ Queued' = Queued \ {What} /\ Dropped' = Dropped \cup (Queued \cap {What})
      /\ QueuedOnce' /\ DroppedOnce'
  BY <1>0, <1>1, Drained DEF TypeInv, TypeOK, Homes
<1>9. /\ cancelled' \in Seq(Jobs \cup Elsewhere) /\ Len(cancelled') <= MaxCancels
      /\ RememberedOnce' /\ What \in Remembered' /\ Remembered' \subseteq Remembered \cup {What}
      /\ Len(cancelled) < MaxCancels => Remembered' = Remembered \cup {What}
  BY <1>0, <1>1, <1>5, <1>7, CancelRemembered DEF TypeInv, TypeOK, Heeding
<1>10. Few => Len(cancelled) < MaxCancels
  BY <1>0, <1>7, FewRoom DEF TypeInv, TypeOK, Heeding, Stops
<1>11. pipe' \in Seq(Requests) /\ control' \in Seq(Requests)
  BY <1>0, <1>2, <1>5, SeqRequests, MessagesAre DEF TypeInv
<1>12. \A j : [kind |-> "Render", what |-> j] \in Piped' <=>
                  [kind |-> "Render", what |-> j] \in Piped
  BY <1>5, <1>6
<1>13. Typed
  BY <1>0, TypedFacts
<1>14. TypeInv'
  BY <1>0, <1>1, <1>2, <1>3, <1>4, <1>5, <1>6, <1>7, <1>8, <1>9, <1>10, <1>11, <1>12
     DEF TypeInv, TypeOK
<1>15. Phases'
  BY <1>0, <1>1, <1>2, <1>5, <1>6, <1>11 DEF Phases
<1>16. Written'
  BY <1>0, <1>2, <1>6, <1>7, <1>12, <1>13 DEF Written, Typed
<1>17. Homes'
  <2>1. \A j \in held' : \/ [kind |-> "Render", what |-> j] \in Piped'
                         \/ j \in Queued' \/ j \in Dropped' \/ j = current'
    BY <1>0, <1>1, <1>2, <1>5, <1>6, <1>8, <1>11, <1>12 DEF Homes, Phases
  <2>2. \A j \in Jobs : [kind |-> "Render", what |-> j] \in Piped' =>
                         j \in held' /\ j \notin Queued' /\ j \notin Dropped' /\ j # current'
    BY <1>0, <1>1, <1>2, <1>6, <1>8, <1>12 DEF Homes
  <2>3. /\ \A j \in Queued' : j \in held' /\ j \notin Dropped' /\ j # current'
        /\ \A j \in Dropped' : j \in held' /\ j # current'
        /\ current' # None => current' \in held'
    BY <1>0, <1>1, <1>2, <1>6, <1>8, <1>12 DEF Homes
  <2>4. QueuedOnce' /\ DroppedOnce'
    BY <1>0, <1>1, <1>2, <1>6, <1>8, <1>12, <1>13 DEF Homes
  <2>5. \A j \in held' : j <= sent'
    BY <1>0, <1>1, <1>2, <1>6, <1>8, <1>12 DEF Homes
  <2>6. \A j \in Jobs : j > sent' => reply'[j] = "none"
    BY <1>0, <1>1, <1>2, <1>6, <1>8, <1>12 DEF Homes
  <2> QED
    BY <2>1, <2>2, <2>3, <2>4, <2>5, <2>6 DEF Homes
<1>18. Stops'
  <2>1. \A j \in held' : gen'[j] < top' => j \in stoppable'
    BY <1>0, <1>1, <1>2 DEF Stops
  <2>2. \A j \in held' : <<"Cancel", j>> \in said' => j \in stoppable'
    BY <1>0, <1>1, <1>2, <1>7 DEF Stops
  <2>3. floor' <= top' /\ \A j \in Remembered' : <<"Cancel", j>> \in said'
    BY <1>0, <1>1, <1>2, <1>7, <1>9 DEF Stops
  <2>4. \A j \in Dropped' : j \in stoppable'
    BY <1>0, <1>1, <1>2, <1>3, <1>4, <1>5, <1>6, <1>7, <1>8, <1>9, <1>10, <1>11, <1>12
       DEF Stops, Homes
  <2>5. inFlight'.stop => current' \in stoppable'
    BY <1>0, <1>1, <1>2 DEF Stops, Homes, Phases
  <2> QED
    BY <2>1, <2>2, <2>3, <2>4, <2>5 DEF Stops
<1>19. Behind'
  BY <1>0, <1>2, <1>6, <1>12, <1>13 DEF Behind, Typed
<1>20. Floors'
  BY <1>0, <1>2, <1>6, <1>12, <1>13 DEF Floors, Typed
<1>21. Ended'
  BY <1>0, <1>1, <1>2, <1>3, <1>5, <1>6, <1>7, <1>11, <1>12 DEF Ended
<1>22. Heeding'
  BY <1>0, <1>1, <1>2, <1>3, <1>4, <1>5, <1>6, <1>7, <1>8, <1>9, <1>10, <1>11, <1>12 DEF Heeding
<1> QED
  BY <1>14, <1>15, <1>16, <1>17, <1>18, <1>19, <1>20, <1>21, <1>22 DEF WorkerInv

(* A new floor drops the queued jobs below it, and clears the list. *)
LEMMA ReadCancelGenerationKeeps ==
  ASSUME WorkerInv, ReadCancelGeneration
  PROVE  WorkerInv'
<1>0. TypeInv /\ Phases /\ Written /\ Homes /\ Stops /\ Behind /\ Floors /\ Ended /\ Heeding
  BY DEF WorkerInv
<1>1. /\ reading = "none" /\ pipe # <<>> /\ Head(pipe).kind = "CancelGeneration"
      /\ reading' = "CancelGeneration"
      /\ floor' = What /\ cancelled' = <<>>
      /\ Drain({j \in Jobs : gen[j] < What})
  BY DEF ReadCancelGeneration, Reading, ends, Threads
<1>2. /\ pipe' = pipe /\ sent' = sent /\ gen' = gen /\ top' = top /\ said' = said
      /\ held' = held /\ stoppable' = stoppable /\ asked' = asked /\ opening' = opening
      /\ reply' = reply /\ control' = control /\ shutdown' = shutdown /\ inFlight' = inFlight
      /\ main' = main /\ current' = current /\ open' = open /\ heeded' = heeded
  BY DEF ReadCancelGeneration, Reading, ends, Threads
<1>3. /\ Piped' = Piped /\ Ahead' = Ahead /\ PipedOnce' = PipedOnce
      /\ Ordered' = Ordered
  BY <1>2, SamePipe, SameControl
<1>4. Few' = Few
  BY <1>2, SameFew
<1>5. Head(pipe) = [kind |-> "CancelGeneration", what |-> What] /\ What \in Nat /\ What # 0
  BY <1>0, <1>1, HeadIs DEF TypeInv
<1>6. Head(pipe) \in Piped
  BY <1>0, <1>1, HeadPiped DEF TypeInv
<1>7. What <= top
  BY <1>0, <1>5, <1>6 DEF Behind
<1>8. /\ jobs' \in Seq(Jobs) /\ unacknowledged' \in Seq(Jobs)
      /\ Queued' = Queued \ {j \in Jobs : gen[j] < What}
      /\ Dropped' = Dropped \cup (Queued \cap {j \in Jobs : gen[j] < What})
      /\ QueuedOnce' /\ DroppedOnce'
  BY <1>0, <1>1, Drained DEF TypeInv, TypeOK, Homes
<1>9. Remembered' = {} /\ RememberedOnce' /\ cancelled' \in Seq(Jobs \cup Elsewhere) /\ Len(cancelled') = 0
  BY <1>1 DEF Remembered, RememberedOnce
<1>10. \A y \in Piped : y = Head(pipe) \/ <<Head(pipe), y>> \in Ahead
  BY <1>0, <1>1, HeadAhead DEF TypeInv
<1>11. \A j \in Jobs : [kind |-> "Render", what |-> j] \in Piped => gen[j] >= What
  <2> SUFFICES ASSUME NEW j \in Jobs, [kind |-> "Render", what |-> j] \in Piped
               PROVE  gen[j] >= What
    OBVIOUS
  <2>1. [kind |-> "Render", what |-> j] # [kind |-> "CancelGeneration", what |-> What]
    OBVIOUS
  <2>2. <<[kind |-> "CancelGeneration", what |-> What], [kind |-> "Render", what |-> j]>> \in Ahead
    BY <1>5, <1>10, <2>1
  <2> QED
    BY <1>0, <1>5, <2>2 DEF Floors
<1>12. 0 <= MaxCancels
  BY WorkerAssumption
<1>13. ~Few
  BY <1>0, <1>5, <1>7 DEF Few, TypeInv, TypeOK
<1>14. Typed
  BY <1>0, TypedFacts
<1>15. TypeInv'
  BY <1>0, <1>1, <1>2, <1>3, <1>4, <1>5, <1>6, <1>7, <1>8, <1>9, <1>10, <1>11, <1>12, <1>13
     DEF TypeInv, TypeOK
<1>16. Phases'
  BY <1>0, <1>1, <1>2, <1>5, <1>6, <1>10 DEF Phases
<1>17. Written'
  BY <1>0, <1>2, <1>3, <1>6, <1>10, <1>11, <1>14 DEF Written, Typed
<1>18. Homes'
  <2>1. \A j \in held' : \/ [kind |-> "Render", what |-> j] \in Piped'
                         \/ j \in Queued' \/ j \in Dropped' \/ j = current'
    BY <1>0, <1>1, <1>2, <1>3, <1>5, <1>6, <1>8, <1>10, <1>11 DEF Homes, Phases
  <2>2. \A j \in Jobs : [kind |-> "Render", what |-> j] \in Piped' =>
                         j \in held' /\ j \notin Queued' /\ j \notin Dropped' /\ j # current'
    BY <1>0, <1>2, <1>3, <1>6, <1>8, <1>10, <1>11, <1>14 DEF Homes, Typed
  <2>3. /\ \A j \in Queued' : j \in held' /\ j \notin Dropped' /\ j # current'
        /\ \A j \in Dropped' : j \in held' /\ j # current'
        /\ current' # None => current' \in held'
    BY <1>0, <1>2, <1>3, <1>6, <1>8, <1>10, <1>11, <1>14 DEF Homes, Typed
  <2>4. QueuedOnce' /\ DroppedOnce'
    BY <1>0, <1>2, <1>3, <1>6, <1>8, <1>10, <1>11, <1>14 DEF Homes
  <2>5. \A j \in held' : j <= sent'
    BY <1>0, <1>2, <1>3, <1>6, <1>8, <1>10, <1>11, <1>14 DEF Homes, Typed
  <2>6. \A j \in Jobs : j > sent' => reply'[j] = "none"
    BY <1>0, <1>2, <1>3, <1>6, <1>8, <1>10, <1>11, <1>14 DEF Homes, Typed
  <2> QED
    BY <2>1, <2>2, <2>3, <2>4, <2>5, <2>6 DEF Homes
<1>19. Stops'
  <2>1. \A j \in held' : gen'[j] < top' => j \in stoppable'
    BY <1>0, <1>1, <1>2, <1>7, <1>8, <1>11 DEF Stops
  <2>2. \A j \in held' : <<"Cancel", j>> \in said' => j \in stoppable'
    BY <1>0, <1>2, <1>14 DEF Stops, Typed
  <2>3. floor' <= top' /\ \A j \in Remembered' : <<"Cancel", j>> \in said'
    BY <1>0, <1>1, <1>2, <1>7, <1>9 DEF Stops
  <2>4. \A j \in Dropped' : j \in stoppable'
    BY <1>0, <1>1, <1>2, <1>3, <1>4, <1>5, <1>6, <1>7, <1>8, <1>9, <1>10, <1>11, <1>12, <1>13, <1>14
       DEF Stops, Homes, Typed
  <2>5. inFlight'.stop => current' \in stoppable'
    BY <1>0, <1>2, <1>14 DEF Stops, Homes, Phases, Typed
  <2> QED
    BY <2>1, <2>2, <2>3, <2>4, <2>5 DEF Stops
<1>20. Behind'
  BY <1>0, <1>2, <1>3, <1>6, <1>7, <1>10, <1>11, <1>14 DEF Behind, Typed
<1>21. Floors'
  BY <1>0, <1>1, <1>2, <1>3, <1>6, <1>8, <1>10, <1>11 DEF Floors
<1>22. Ended'
  BY <1>0, <1>1, <1>2, <1>3, <1>5, <1>6, <1>10, <1>11 DEF Ended
<1>23. Heeding'
  BY <1>0, <1>2, <1>3, <1>4, <1>6, <1>9, <1>10, <1>11, <1>13, <1>14 DEF Heeding, Typed
<1> QED
  BY <1>15, <1>16, <1>17, <1>18, <1>19, <1>20, <1>21, <1>22, <1>23 DEF WorkerInv

(* A new floor raises the flag of the render in flight. *)
LEMMA FinishCancelGenerationKeeps ==
  ASSUME WorkerInv, FinishCancelGeneration
  PROVE  WorkerInv'
<1>0. TypeInv /\ Phases /\ Written /\ Homes /\ Stops /\ Behind /\ Floors /\ Ended /\ Heeding
  BY DEF WorkerInv
<1>1. /\ reading = "CancelGeneration" /\ pipe # <<>> /\ Head(pipe).kind = "CancelGeneration"
      /\ reading' = "none"
      /\ pipe' = Tail(pipe)
      /\ inFlight' = [id |-> inFlight.id, stop |-> inFlight.stop \/ inFlight.id \in Jobs]
  BY <1>0
     DEF FinishCancelGeneration, Read, Flag, RestOfEnds, inbox, Threads, Phases, TypeInv, TypeOK
<1>2. /\ sent' = sent /\ gen' = gen /\ top' = top /\ said' = said /\ held' = held
      /\ stoppable' = stoppable /\ asked' = asked /\ opening' = opening /\ reply' = reply
      /\ jobs' = jobs /\ control' = control /\ cancelled' = cancelled /\ floor' = floor
      /\ unacknowledged' = unacknowledged /\ shutdown' = shutdown /\ main' = main
      /\ current' = current /\ open' = open /\ heeded' = heeded
  BY DEF FinishCancelGeneration, Read, Flag, RestOfEnds, inbox, Threads, Phases, TypeInv, TypeOK
<1>3. /\ Queued' = Queued /\ QueuedOnce' = QueuedOnce
      /\ Dropped' = Dropped /\ DroppedOnce' = DroppedOnce
      /\ Ordered' = Ordered
      /\ Remembered' = Remembered /\ RememberedOnce' = RememberedOnce
  BY <1>2, SameQueue, SameDropped, SameControl, SameList
<1>4. Few' = Few
  BY <1>2, SameFew
<1>5. /\ pipe' \in Seq(Messages)
      /\ Head(pipe) = [kind |-> "CancelGeneration", what |-> What] /\ What \in Nat
  BY <1>0, <1>1, HeadIs DEF TypeInv
<1>6. /\ Head(pipe) \in Piped /\ Piped \subseteq Messages /\ Piped' = Piped \ {Head(pipe)}
      /\ \A x, y : <<x, y>> \in Ahead' => <<x, y>> \in Ahead
      /\ \A x, y : <<x, y>> \in Ahead /\ x # Head(pipe) => <<x, y>> \in Ahead'
      /\ \A y \in Piped' : <<Head(pipe), y>> \in Ahead
      /\ \A x : <<x, Head(pipe)>> \notin Ahead
      /\ PipedOnce' /\ (Piped' = {} => pipe' = <<>>)
  BY <1>0, <1>1, PipeRead DEF TypeInv, Written
<1>7. pipe' \in Seq(Requests) /\ control' \in Seq(Requests)
  BY <1>0, <1>2, <1>5, SeqRequests, MessagesAre DEF TypeInv
<1>8. \A j : [kind |-> "Render", what |-> j] \in Piped' <=>
                 [kind |-> "Render", what |-> j] \in Piped
  BY <1>5, <1>6
<1>9. main = "draw" => current \in stoppable
  <2>1. current \in held => \/ current \in stoppable
                            \/ <<Head(pipe), [kind |-> "Render", what |-> current]>> \in Ahead
    BY <1>0, <1>5, <1>6 DEF Behind
  <2>2. main = "draw" => current \in held /\ current \in Jobs
    BY <1>0 DEF Phases, Homes, TypeInv, TypeOK
  <2>3. \A x, y : <<x, y>> \in Ahead => y \in Piped
    BY DEF Ahead
  <2> QED
    BY <1>0, <2>1, <2>2, <2>3 DEF Homes
<1>10. Typed
  BY <1>0, TypedFacts
<1>11. TypeInv'
  BY <1>0, <1>1, <1>2, <1>3, <1>4, <1>5, <1>6, <1>7, <1>8, <1>9 DEF TypeInv, TypeOK
<1>12. Phases'
  BY <1>0, <1>1, <1>2, <1>5, <1>6, <1>7, <1>9, <1>10 DEF Phases, Typed
<1>13. Written'
  BY <1>0, <1>2, <1>6, <1>8, <1>10 DEF Written, Typed
<1>14. Homes'
  <2>1. \A j \in held' : \/ [kind |-> "Render", what |-> j] \in Piped'
                         \/ j \in Queued' \/ j \in Dropped' \/ j = current'
    BY <1>0, <1>1, <1>2, <1>3, <1>5, <1>6, <1>7, <1>8, <1>9 DEF Homes, Phases
  <2>2. \A j \in Jobs : [kind |-> "Render", what |-> j] \in Piped' =>
                         j \in held' /\ j \notin Queued' /\ j \notin Dropped' /\ j # current'
    BY <1>0, <1>2, <1>3, <1>6, <1>8, <1>9, <1>10 DEF Homes, Typed
  <2>3. /\ \A j \in Queued' : j \in held' /\ j \notin Dropped' /\ j # current'
        /\ \A j \in Dropped' : j \in held' /\ j # current'
        /\ current' # None => current' \in held'
    BY <1>0, <1>2, <1>3, <1>6, <1>8, <1>9, <1>10 DEF Homes, Typed
  <2>4. QueuedOnce' /\ DroppedOnce'
    BY <1>0, <1>2, <1>3, <1>6, <1>8, <1>9, <1>10 DEF Homes
  <2>5. \A j \in held' : j <= sent'
    BY <1>0, <1>2, <1>3, <1>6, <1>8, <1>9, <1>10 DEF Homes, Typed
  <2>6. \A j \in Jobs : j > sent' => reply'[j] = "none"
    BY <1>0, <1>2, <1>3, <1>6, <1>8, <1>9, <1>10 DEF Homes, Typed
  <2> QED
    BY <2>1, <2>2, <2>3, <2>4, <2>5, <2>6 DEF Homes
<1>15. Stops'
  <2>1. \A j \in held' : gen'[j] < top' => j \in stoppable'
    BY <1>0, <1>2, <1>9, <1>10 DEF Stops, Typed
  <2>2. \A j \in held' : <<"Cancel", j>> \in said' => j \in stoppable'
    BY <1>0, <1>2, <1>9, <1>10 DEF Stops, Typed
  <2>3. floor' <= top' /\ \A j \in Remembered' : <<"Cancel", j>> \in said'
    BY <1>0, <1>2, <1>3, <1>9, <1>10 DEF Stops, Typed
  <2>4. \A j \in Dropped' : j \in stoppable'
    BY <1>0, <1>2, <1>3, <1>9, <1>10 DEF Stops, Homes, Typed
  <2>5. inFlight'.stop => current' \in stoppable'
    BY <1>0, <1>1, <1>2, <1>9, <1>10 DEF Stops, Homes, Phases, Typed
  <2> QED
    BY <2>1, <2>2, <2>3, <2>4, <2>5 DEF Stops
<1>16. Behind'
  BY <1>0, <1>2, <1>6, <1>8, <1>9, <1>10 DEF Behind, Typed
<1>17. Floors'
  BY <1>0, <1>2, <1>6, <1>8, <1>10 DEF Floors, Typed
<1>18. Ended'
  BY <1>0, <1>1, <1>2, <1>3, <1>5, <1>6, <1>7, <1>8, <1>9 DEF Ended
<1>19. Heeding'
  BY <1>0, <1>2, <1>3, <1>4, <1>6, <1>8, <1>9, <1>10 DEF Heeding, Typed
<1> QED
  BY <1>11, <1>12, <1>13, <1>14, <1>15, <1>16, <1>17, <1>18, <1>19 DEF WorkerInv

(* A job enters the queue: none is below the floor. *)
LEMMA ReadRenderKeeps ==
  ASSUME WorkerInv, ReadRender
  PROVE  WorkerInv'
<1>0. TypeInv /\ Phases /\ Written /\ Homes /\ Stops /\ Behind /\ Floors /\ Ended /\ Heeding
  BY DEF WorkerInv
<1>1. /\ reading = "none" /\ pipe # <<>> /\ Head(pipe).kind = "Render" /\ pipe' = Tail(pipe)
      /\ jobs' = IF gen[What] >= floor THEN Append(jobs, What) ELSE jobs
  BY DEF ReadRender, Reading, Read, RestOfEnds, Threads
<1>2. /\ sent' = sent /\ gen' = gen /\ top' = top /\ said' = said /\ held' = held
      /\ stoppable' = stoppable /\ asked' = asked /\ opening' = opening /\ reply' = reply
      /\ control' = control /\ cancelled' = cancelled /\ floor' = floor
      /\ unacknowledged' = unacknowledged /\ shutdown' = shutdown /\ inFlight' = inFlight
      /\ reading' = reading /\ main' = main /\ current' = current /\ open' = open
      /\ heeded' = heeded
  BY DEF ReadRender, Reading, Read, RestOfEnds, Threads
<1>3. /\ Dropped' = Dropped /\ DroppedOnce' = DroppedOnce
      /\ Ordered' = Ordered
      /\ Remembered' = Remembered /\ RememberedOnce' = RememberedOnce
  BY <1>2, SameDropped, SameControl, SameList
<1>4. Few' = Few
  BY <1>2, SameFew
<1>5. /\ pipe' \in Seq(Messages)
      /\ Head(pipe) = [kind |-> "Render", what |-> What] /\ What \in Jobs
  BY <1>0, <1>1, HeadIs DEF TypeInv
<1>6. /\ Head(pipe) \in Piped /\ Piped \subseteq Messages /\ Piped' = Piped \ {Head(pipe)}
      /\ \A x, y : <<x, y>> \in Ahead' => <<x, y>> \in Ahead
      /\ \A x, y : <<x, y>> \in Ahead /\ x # Head(pipe) => <<x, y>> \in Ahead'
      /\ \A y \in Piped' : <<Head(pipe), y>> \in Ahead
      /\ \A x : <<x, Head(pipe)>> \notin Ahead
      /\ PipedOnce' /\ (Piped' = {} => pipe' = <<>>)
  BY <1>0, <1>1, PipeRead DEF TypeInv, Written
<1>7. pipe' \in Seq(Requests) /\ control' \in Seq(Requests)
  BY <1>0, <1>2, <1>5, SeqRequests, MessagesAre DEF TypeInv
<1>8. What \in held /\ What \notin Queued /\ What \notin Dropped /\ What # current /\ gen[What] >= floor
  BY <1>0, <1>5, <1>6 DEF Homes, Floors
<1>9. jobs' = Append(jobs, What) /\ jobs' \in Seq(Jobs)
  BY <1>0, <1>1, <1>5, <1>8 DEF TypeInv, TypeOK
<1>10. Queued' = Queued \cup {What} /\ QueuedOnce'
  BY <1>0, <1>5, <1>8, <1>9, QueueAdded DEF TypeInv, TypeOK, Homes
<1>11. \A j : [kind |-> "Render", what |-> j] \in Piped' <=>
              [kind |-> "Render", what |-> j] \in Piped /\ j # What
  BY <1>5, <1>6
<1>12. Typed
  BY <1>0, TypedFacts
<1>13. TypeInv'
  BY <1>0, <1>1, <1>2, <1>3, <1>4, <1>5, <1>6, <1>7, <1>8, <1>9, <1>10, <1>11 DEF TypeInv, TypeOK
<1>14. Phases'
  BY <1>0, <1>1, <1>2, <1>5, <1>6, <1>7, <1>8 DEF Phases
<1>15. Written'
  BY <1>0, <1>2, <1>6, <1>11, <1>12 DEF Written, Typed
<1>16. Homes'
  <2>1. \A j \in held' : \/ [kind |-> "Render", what |-> j] \in Piped'
                         \/ j \in Queued' \/ j \in Dropped' \/ j = current'
    BY <1>0, <1>1, <1>2, <1>3, <1>5, <1>6, <1>7, <1>8, <1>10, <1>11 DEF Homes, Phases
  <2>2. \A j \in Jobs : [kind |-> "Render", what |-> j] \in Piped' =>
                         j \in held' /\ j \notin Queued' /\ j \notin Dropped' /\ j # current'
    BY <1>0, <1>2, <1>3, <1>6, <1>8, <1>10, <1>11, <1>12 DEF Homes, Typed
  <2>3. /\ \A j \in Queued' : j \in held' /\ j \notin Dropped' /\ j # current'
        /\ \A j \in Dropped' : j \in held' /\ j # current'
        /\ current' # None => current' \in held'
    BY <1>0, <1>2, <1>3, <1>6, <1>8, <1>10, <1>11, <1>12 DEF Homes, Typed
  <2>4. QueuedOnce' /\ DroppedOnce'
    BY <1>0, <1>2, <1>3, <1>6, <1>8, <1>10, <1>11, <1>12 DEF Homes
  <2>5. \A j \in held' : j <= sent'
    BY <1>0, <1>2, <1>3, <1>6, <1>8, <1>10, <1>11, <1>12 DEF Homes, Typed
  <2>6. \A j \in Jobs : j > sent' => reply'[j] = "none"
    BY <1>0, <1>2, <1>3, <1>6, <1>8, <1>10, <1>11, <1>12 DEF Homes, Typed
  <2> QED
    BY <2>1, <2>2, <2>3, <2>4, <2>5, <2>6 DEF Homes
<1>17. Stops'
  <2>1. \A j \in held' : gen'[j] < top' => j \in stoppable'
    BY <1>0, <1>1, <1>2, <1>8 DEF Stops
  <2>2. \A j \in held' : <<"Cancel", j>> \in said' => j \in stoppable'
    BY <1>0, <1>2, <1>8, <1>12 DEF Stops, Typed
  <2>3. floor' <= top' /\ \A j \in Remembered' : <<"Cancel", j>> \in said'
    BY <1>0, <1>1, <1>2, <1>3, <1>8 DEF Stops
  <2>4. \A j \in Dropped' : j \in stoppable'
    BY <1>0, <1>2, <1>3, <1>8, <1>12 DEF Stops, Homes, Typed
  <2>5. inFlight'.stop => current' \in stoppable'
    BY <1>0, <1>2, <1>8, <1>12 DEF Stops, Homes, Phases, Typed
  <2> QED
    BY <2>1, <2>2, <2>3, <2>4, <2>5 DEF Stops
<1>18. Behind'
  BY <1>0, <1>2, <1>6, <1>8, <1>11, <1>12 DEF Behind, Typed
<1>19. Floors'
  BY <1>0, <1>1, <1>2, <1>6, <1>8, <1>11 DEF Floors
<1>20. Ended'
  BY <1>0, <1>1, <1>2, <1>3, <1>5, <1>6, <1>7, <1>8, <1>11 DEF Ended
<1>21. Heeding'
  BY <1>0, <1>2, <1>3, <1>4, <1>6, <1>8, <1>11, <1>12 DEF Heeding, Typed
<1> QED
  BY <1>13, <1>14, <1>15, <1>16, <1>17, <1>18, <1>19, <1>20, <1>21 DEF WorkerInv

(* Shutdown ends the reader. *)
LEMMA ReadShutdownKeeps ==
  ASSUME WorkerInv, ReadShutdown
  PROVE  WorkerInv'
<1>0. TypeInv /\ Phases /\ Written /\ Homes /\ Stops /\ Behind /\ Floors /\ Ended /\ Heeding
  BY DEF WorkerInv
<1>1. /\ reading = "none" /\ pipe # <<>> /\ Head(pipe).kind = "Shutdown" /\ pipe' = Tail(pipe)
      /\ reading' = "ended" /\ shutdown' = TRUE
      /\ inFlight' = [id |-> inFlight.id, stop |-> inFlight.stop \/ inFlight.id \in Jobs]
  BY <1>0 DEF ReadShutdown, Reading, Read, Flag, RestOfEnds, Threads, TypeInv, TypeOK
<1>2. /\ sent' = sent /\ gen' = gen /\ top' = top /\ said' = said /\ held' = held
      /\ stoppable' = stoppable /\ asked' = asked /\ opening' = opening /\ reply' = reply
      /\ jobs' = jobs /\ control' = control /\ cancelled' = cancelled /\ floor' = floor
      /\ unacknowledged' = unacknowledged /\ main' = main /\ current' = current /\ open' = open
      /\ heeded' = heeded
  BY DEF ReadShutdown, Reading, Read, Flag, RestOfEnds, Threads, TypeInv, TypeOK
<1>3. /\ Queued' = Queued /\ QueuedOnce' = QueuedOnce
      /\ Dropped' = Dropped /\ DroppedOnce' = DroppedOnce
      /\ Ordered' = Ordered
      /\ Remembered' = Remembered /\ RememberedOnce' = RememberedOnce
  BY <1>2, SameQueue, SameDropped, SameControl, SameList
<1>4. Few' = Few
  BY <1>2, SameFew
<1>5. /\ pipe' \in Seq(Messages)
      /\ Head(pipe) = [kind |-> "Shutdown", what |-> None]
  BY <1>0, <1>1, HeadIs DEF TypeInv
<1>6. /\ Head(pipe) \in Piped /\ Piped \subseteq Messages /\ Piped' = Piped \ {Head(pipe)}
      /\ \A x, y : <<x, y>> \in Ahead' => <<x, y>> \in Ahead
      /\ \A x, y : <<x, y>> \in Ahead /\ x # Head(pipe) => <<x, y>> \in Ahead'
      /\ \A y \in Piped' : <<Head(pipe), y>> \in Ahead
      /\ \A x : <<x, Head(pipe)>> \notin Ahead
      /\ PipedOnce' /\ (Piped' = {} => pipe' = <<>>)
  BY <1>0, <1>1, PipeRead DEF TypeInv, Written
<1>7. pipe' \in Seq(Requests) /\ control' \in Seq(Requests)
  BY <1>0, <1>2, <1>5, SeqRequests, MessagesAre DEF TypeInv
<1>8. <<"Shutdown", None>> \in said /\ held = {} /\ current = None
  BY <1>0, <1>1, <1>5, <1>6 DEF Written, Ended, Homes
<1>9. pipe' = <<>> /\ Piped' = {}
  <2>1. Piped' \subseteq Messages
    BY <1>6
  <2>2. \A y \in Piped' : <<[kind |-> "Shutdown", what |-> None], y>> \in Ahead
    BY <1>5, <1>6
  <2>3. Piped' = {}
    BY <1>0, <2>1, <2>2 DEF Ended
  <2> QED
    BY <1>6, <2>3
<1>10. Piped \subseteq {[kind |-> "Shutdown", what |-> None]}
  BY <1>5, <1>6, <1>9
<1>11. Typed
  BY <1>0, TypedFacts
<1>12. TypeInv'
  BY <1>0, <1>1, <1>2, <1>3, <1>4, <1>5, <1>6, <1>7, <1>8, <1>9, <1>10 DEF TypeInv, TypeOK
<1>13. Phases'
  BY <1>0, <1>1, <1>2, <1>5, <1>6, <1>7, <1>8, <1>9, <1>11 DEF Phases, Typed
<1>14. Written'
  BY <1>0, <1>2, <1>6, <1>8, <1>9, <1>10, <1>11 DEF Written, Typed
<1>15. Homes'
  <2>1. \A j \in held' : \/ [kind |-> "Render", what |-> j] \in Piped'
                         \/ j \in Queued' \/ j \in Dropped' \/ j = current'
    BY <1>0, <1>1, <1>2, <1>3, <1>5, <1>6, <1>7, <1>8, <1>9, <1>10 DEF Homes, Phases
  <2>2. \A j \in Jobs : [kind |-> "Render", what |-> j] \in Piped' =>
                         j \in held' /\ j \notin Queued' /\ j \notin Dropped' /\ j # current'
    BY <1>0, <1>2, <1>3, <1>6, <1>8, <1>9, <1>10, <1>11 DEF Homes, Typed
  <2>3. /\ \A j \in Queued' : j \in held' /\ j \notin Dropped' /\ j # current'
        /\ \A j \in Dropped' : j \in held' /\ j # current'
        /\ current' # None => current' \in held'
    BY <1>0, <1>2, <1>3, <1>6, <1>8, <1>9, <1>10, <1>11 DEF Homes, Typed
  <2>4. QueuedOnce' /\ DroppedOnce'
    BY <1>0, <1>2, <1>3, <1>6, <1>8, <1>9, <1>10, <1>11 DEF Homes
  <2>5. \A j \in held' : j <= sent'
    BY <1>0, <1>2, <1>3, <1>6, <1>8, <1>9, <1>10, <1>11 DEF Homes, Typed
  <2>6. \A j \in Jobs : j > sent' => reply'[j] = "none"
    BY <1>0, <1>2, <1>3, <1>6, <1>8, <1>9, <1>10, <1>11 DEF Homes, Typed
  <2> QED
    BY <2>1, <2>2, <2>3, <2>4, <2>5, <2>6 DEF Homes
<1>16. Stops'
  <2>1. \A j \in held' : gen'[j] < top' => j \in stoppable'
    BY <1>0, <1>2, <1>8, <1>11 DEF Stops, Typed
  <2>2. \A j \in held' : <<"Cancel", j>> \in said' => j \in stoppable'
    BY <1>0, <1>2, <1>8, <1>11 DEF Stops, Typed
  <2>3. floor' <= top' /\ \A j \in Remembered' : <<"Cancel", j>> \in said'
    BY <1>0, <1>2, <1>3, <1>8, <1>11 DEF Stops, Typed
  <2>4. \A j \in Dropped' : j \in stoppable'
    BY <1>0, <1>2, <1>3, <1>8, <1>11 DEF Stops, Homes, Typed
  <2>5. inFlight'.stop => current' \in stoppable'
    BY <1>0, <1>1, <1>2, <1>8, <1>11 DEF Stops, Homes, Phases, Typed
  <2> QED
    BY <2>1, <2>2, <2>3, <2>4, <2>5 DEF Stops
<1>17. Behind'
  BY <1>0, <1>2, <1>6, <1>8, <1>9, <1>10, <1>11 DEF Behind, Typed
<1>18. Floors'
  BY <1>0, <1>2, <1>6, <1>9, <1>10, <1>11 DEF Floors, Typed
<1>19. Ended'
  BY <1>0, <1>1, <1>2, <1>3, <1>5, <1>6, <1>7, <1>8, <1>9, <1>10 DEF Ended
<1>20. Heeding'
  BY <1>0, <1>2, <1>3, <1>4, <1>6, <1>8, <1>9, <1>10, <1>11 DEF Heeding, Typed
<1> QED
  BY <1>12, <1>13, <1>14, <1>15, <1>16, <1>17, <1>18, <1>19, <1>20 DEF WorkerInv

(* An open, a close or a question enters the inbox. *)
LEMMA ReadControlKeeps ==
  ASSUME WorkerInv, ReadControl
  PROVE  WorkerInv'
<1>0. TypeInv /\ Phases /\ Written /\ Homes /\ Stops /\ Behind /\ Floors /\ Ended /\ Heeding
  BY DEF WorkerInv
<1>1. /\ pipe # <<>> /\ Head(pipe).kind \in {"Open", "Close", "Question"} /\ pipe' = Tail(pipe)
      /\ reading = "none" /\ control' = Append(control, Head(pipe))
  BY DEF ReadControl, Reading, Read, RestOfEnds, Threads
<1>2. /\ sent' = sent /\ gen' = gen /\ top' = top /\ said' = said /\ held' = held
      /\ stoppable' = stoppable /\ asked' = asked /\ opening' = opening /\ reply' = reply
      /\ jobs' = jobs /\ cancelled' = cancelled /\ floor' = floor
      /\ unacknowledged' = unacknowledged /\ shutdown' = shutdown /\ inFlight' = inFlight
      /\ reading' = reading /\ main' = main /\ current' = current /\ open' = open
      /\ heeded' = heeded
  BY DEF ReadControl, Reading, Read, RestOfEnds, Threads
<1>3. /\ Queued' = Queued /\ QueuedOnce' = QueuedOnce
      /\ Dropped' = Dropped /\ DroppedOnce' = DroppedOnce
      /\ Remembered' = Remembered /\ RememberedOnce' = RememberedOnce
  BY <1>2, SameQueue, SameDropped, SameList
<1>4. Few' = Few
  BY <1>2, SameFew
<1>5. /\ pipe' \in Seq(Messages)
      /\ Head(pipe) \in Controls /\ Head(pipe) \in Messages
  BY <1>0, <1>1, HeadIs DEF TypeInv
<1>6. /\ Head(pipe) \in Piped /\ Piped \subseteq Messages /\ Piped' = Piped \ {Head(pipe)}
      /\ \A x, y : <<x, y>> \in Ahead' => <<x, y>> \in Ahead
      /\ \A x, y : <<x, y>> \in Ahead /\ x # Head(pipe) => <<x, y>> \in Ahead'
      /\ \A y \in Piped' : <<Head(pipe), y>> \in Ahead
      /\ \A x : <<x, Head(pipe)>> \notin Ahead
      /\ PipedOnce' /\ (Piped' = {} => pipe' = <<>>)
  BY <1>0, <1>1, PipeRead DEF TypeInv, Written
<1>7. control' \in Seq(Controls) /\ Ordered' = Ordered \cup {Head(pipe)}
  BY <1>0, <1>1, <1>5, ControlAdded DEF TypeInv
<1>8. pipe' \in Seq(Requests) /\ control' \in Seq(Requests)
  BY <1>5, <1>7, MessagesAre
<1>9. \A j : [kind |-> "Render", what |-> j] \in Piped' <=>
                 [kind |-> "Render", what |-> j] \in Piped
  BY <1>1, <1>6
<1>10. /\ \A g : [kind |-> "CancelGeneration", what |-> g] # Head(pipe)
      /\ Head(pipe) # [kind |-> "Shutdown", what |-> None]
  BY <1>1
<1>11. Typed
  BY <1>0, TypedFacts
<1>12. TypeInv'
  BY <1>0, <1>1, <1>2, <1>3, <1>4, <1>5, <1>6, <1>7, <1>8, <1>9, <1>10 DEF TypeInv, TypeOK
<1>13. Phases'
  BY <1>0, <1>1, <1>2, <1>5, <1>6, <1>7, <1>8, <1>10 DEF Phases
<1>14. Written'
  BY <1>0, <1>2, <1>6, <1>9, <1>11 DEF Written, Typed
<1>15. Homes'
  <2>1. \A j \in held' : \/ [kind |-> "Render", what |-> j] \in Piped'
                         \/ j \in Queued' \/ j \in Dropped' \/ j = current'
    BY <1>0, <1>1, <1>2, <1>3, <1>5, <1>6, <1>7, <1>8, <1>9, <1>10 DEF Homes, Phases
  <2>2. \A j \in Jobs : [kind |-> "Render", what |-> j] \in Piped' =>
                         j \in held' /\ j \notin Queued' /\ j \notin Dropped' /\ j # current'
    BY <1>0, <1>2, <1>3, <1>6, <1>9, <1>11 DEF Homes, Typed
  <2>3. /\ \A j \in Queued' : j \in held' /\ j \notin Dropped' /\ j # current'
        /\ \A j \in Dropped' : j \in held' /\ j # current'
        /\ current' # None => current' \in held'
    BY <1>0, <1>2, <1>3, <1>6, <1>9, <1>11 DEF Homes, Typed
  <2>4. QueuedOnce' /\ DroppedOnce'
    BY <1>0, <1>2, <1>3, <1>6, <1>9, <1>11 DEF Homes
  <2>5. \A j \in held' : j <= sent'
    BY <1>0, <1>2, <1>3, <1>6, <1>9, <1>11 DEF Homes, Typed
  <2>6. \A j \in Jobs : j > sent' => reply'[j] = "none"
    BY <1>0, <1>2, <1>3, <1>6, <1>9, <1>11 DEF Homes, Typed
  <2> QED
    BY <2>1, <2>2, <2>3, <2>4, <2>5, <2>6 DEF Homes
<1>16. Stops'
  <2>1. \A j \in held' : gen'[j] < top' => j \in stoppable'
    BY <1>0, <1>2, <1>11 DEF Stops, Typed
  <2>2. \A j \in held' : <<"Cancel", j>> \in said' => j \in stoppable'
    BY <1>0, <1>2, <1>11 DEF Stops, Typed
  <2>3. floor' <= top' /\ \A j \in Remembered' : <<"Cancel", j>> \in said'
    BY <1>0, <1>2, <1>3, <1>11 DEF Stops, Typed
  <2>4. \A j \in Dropped' : j \in stoppable'
    BY <1>0, <1>2, <1>3, <1>11 DEF Stops, Homes, Typed
  <2>5. inFlight'.stop => current' \in stoppable'
    BY <1>0, <1>2, <1>11 DEF Stops, Homes, Phases, Typed
  <2> QED
    BY <2>1, <2>2, <2>3, <2>4, <2>5 DEF Stops
<1>17. Behind'
  BY <1>0, <1>2, <1>6, <1>9, <1>11 DEF Behind, Typed
<1>18. Floors'
  BY <1>0, <1>2, <1>6, <1>9, <1>11 DEF Floors, Typed
<1>19. Ended'
  BY <1>0, <1>1, <1>2, <1>5, <1>6, <1>7, <1>8, <1>9, <1>10 DEF Ended
<1>20. Heeding'
  BY <1>0, <1>2, <1>3, <1>4, <1>6, <1>9, <1>11 DEF Heeding, Typed
<1> QED
  BY <1>12, <1>13, <1>14, <1>15, <1>16, <1>17, <1>18, <1>19, <1>20 DEF WorkerInv

(* A cancel is told. *)
LEMMA SendCancelKeeps ==
  ASSUME WorkerInv, NEW j \in Jobs \cup Elsewhere,
         UNCHANGED <<inbox, inFlight, reading, main, current, open, heeded>>, SendCancel(j)
  PROVE  WorkerInv'
<1>0. TypeInv /\ Phases /\ Written /\ Homes /\ Stops /\ Behind /\ Floors /\ Ended /\ Heeding
  BY DEF WorkerInv
<1>1. /\ pipe' = Append(pipe, [kind |-> "Cancel", what |-> j])
      /\ <<"Cancel", j>> \notin said /\ said' = said \cup {<<"Cancel", j>>}
      /\ <<"Shutdown", None>> \notin said
      /\ stoppable' = stoppable \cup ({j} \cap held)
      /\ j \in 1..sent \cup Elsewhere
      /\ j \in Jobs => j <= sent
  BY ConstantsApart DEF SendCancel, Once, Write, inbox
<1>2. /\ sent' = sent /\ gen' = gen /\ top' = top /\ held' = held /\ asked' = asked
      /\ opening' = opening /\ reply' = reply /\ jobs' = jobs /\ control' = control
      /\ cancelled' = cancelled /\ floor' = floor /\ unacknowledged' = unacknowledged
      /\ shutdown' = shutdown /\ inFlight' = inFlight /\ reading' = reading /\ main' = main
      /\ current' = current /\ open' = open /\ heeded' = heeded
  BY DEF SendCancel, Once, Write, inbox
<1>3. /\ Queued' = Queued /\ QueuedOnce' = QueuedOnce
      /\ Dropped' = Dropped /\ DroppedOnce' = DroppedOnce
      /\ Ordered' = Ordered
      /\ Remembered' = Remembered /\ RememberedOnce' = RememberedOnce
  BY <1>2, SameQueue, SameDropped, SameControl, SameList
<1>4. IsFiniteSet(said') /\ (Few' => Few)
  <2>1. IsFiniteSet(said) /\ top \in Nat /\ top' \in Nat /\ top <= top'
    BY <1>0, <1>1, <1>2, WorkerAssumption DEF TypeInv, TypeOK
  <2> QED
    BY <1>1, <2>1, FewBefore
<1>5. [kind |-> "Cancel", what |-> j] \in Messages
  BY DEF Messages
<1>6. [kind |-> "Cancel", what |-> j] \notin Piped
  BY <1>0, <1>1 DEF Written
<1>7. /\ Piped' = Piped \cup {[kind |-> "Cancel", what |-> j]} /\ PipedOnce'
      /\ \A x, y : <<x, y>> \in Ahead' <=>
                   <<x, y>> \in Ahead \/ (x \in Piped /\ y = [kind |-> "Cancel", what |-> j])
      /\ pipe # <<>> => pipe' # <<>> /\ Head(pipe') = Head(pipe)
  BY <1>0, <1>1, <1>5, <1>6, PipeAdded DEF TypeInv, Written
<1>8. pipe' \in Seq(Messages) /\ pipe' \in Seq(Requests)
  BY <1>0, <1>1, <1>5, MessagesAre DEF TypeInv
<1>9. \A k : [kind |-> "Render", what |-> k] \in Piped' <=>
                 [kind |-> "Render", what |-> k] \in Piped
  BY <1>7
<1>10. Typed
  BY <1>0, TypedFacts
<1>11. TypeInv'
  BY <1>0, <1>1, <1>2, <1>3, <1>4, <1>5, <1>6, <1>7, <1>8, <1>9 DEF TypeInv, TypeOK
<1>12. Phases'
  BY <1>0, <1>1, <1>2, <1>7, <1>8 DEF Phases
<1>13. Written'
  <2>1. PipedOnce'
    BY <1>7
  <2>2. \A m \in Piped' : m.kind # "Render" => <<m.kind, m.what>> \in said'
    BY <1>0, <1>1, <1>2, <1>4, <1>6, <1>7, <1>9, <1>10 DEF Written
  <2>3. \A k \in Jobs : <<"Cancel", k>> \in said' => k <= sent'
    BY <1>0, <1>1, <1>2 DEF Written, TypeInv, TypeOK
  <2> QED
    BY <2>1, <2>2, <2>3 DEF Written
<1>14. Homes'
  <2>1. \A k \in held' : \/ [kind |-> "Render", what |-> k] \in Piped'
                         \/ k \in Queued' \/ k \in Dropped' \/ k = current'
    BY <1>0, <1>1, <1>2, <1>3, <1>6, <1>7, <1>8, <1>9 DEF Homes, Phases
  <2>2. \A k \in Jobs : [kind |-> "Render", what |-> k] \in Piped' =>
                         k \in held' /\ k \notin Queued' /\ k \notin Dropped' /\ k # current'
    BY <1>0, <1>1, <1>2, <1>3, <1>6, <1>7, <1>9 DEF Homes
  <2>3. /\ \A k \in Queued' : k \in held' /\ k \notin Dropped' /\ k # current'
        /\ \A k \in Dropped' : k \in held' /\ k # current'
        /\ current' # None => current' \in held'
    BY <1>0, <1>1, <1>2, <1>3, <1>6, <1>7, <1>9 DEF Homes
  <2>4. QueuedOnce' /\ DroppedOnce'
    BY <1>0, <1>1, <1>2, <1>3, <1>6, <1>7, <1>9, <1>10 DEF Homes
  <2>5. \A k \in held' : k <= sent'
    BY <1>0, <1>1, <1>2, <1>3, <1>6, <1>7, <1>9 DEF Homes
  <2>6. \A k \in Jobs : k > sent' => reply'[k] = "none"
    BY <1>0, <1>1, <1>2, <1>3, <1>6, <1>7, <1>9 DEF Homes
  <2> QED
    BY <2>1, <2>2, <2>3, <2>4, <2>5, <2>6 DEF Homes
<1>15. Stops'
  <2>1. \A k \in held' : gen'[k] < top' => k \in stoppable'
    BY <1>0, <1>1, <1>2 DEF Stops
  <2>2. \A k \in held' : <<"Cancel", k>> \in said' => k \in stoppable'
    BY <1>0, <1>1, <1>2, <1>4 DEF Stops
  <2>3. floor' <= top' /\ \A k \in Remembered' : <<"Cancel", k>> \in said'
    BY <1>0, <1>1, <1>2, <1>3, <1>4 DEF Stops
  <2>4. \A k \in Dropped' : k \in stoppable'
    BY <1>0, <1>1, <1>2, <1>3 DEF Stops, Homes
  <2>5. inFlight'.stop => current' \in stoppable'
    BY <1>0, <1>1, <1>2 DEF Stops, Homes, Phases
  <2> QED
    BY <2>1, <2>2, <2>3, <2>4, <2>5 DEF Stops
<1>16. Behind'
  BY <1>0, <1>1, <1>2, <1>6, <1>7, <1>9 DEF Behind
<1>17. Floors'
  BY <1>0, <1>2, <1>6, <1>7, <1>9, <1>10 DEF Floors, Typed
<1>18. Ended'
  <2>1. /\ ~shutdown /\ [kind |-> "Shutdown", what |-> None] \notin Piped
        /\ <<"Shutdown", None>> \notin said
    BY <1>0, <1>1 DEF Ended, Written
  <2>2. \A x \in Messages : <<[kind |-> "Shutdown", what |-> None], x>> \notin Ahead'
    BY <1>0, <1>7, <2>1 DEF Ended
  <2>3. <<"Shutdown", None>> \in said' => held' = {}
    BY <1>1, <1>2, <2>1
  <2>4. \A q \in asked' : [kind |-> "Question", what |-> q] \in Piped' \cup Ordered'
    BY <1>0, <1>1, <1>2, <1>3, <1>7 DEF Ended
  <2>5. \A d \in opening' : [kind |-> "Open", what |-> d] \in Piped' \cup Ordered'
    BY <1>0, <1>1, <1>2, <1>3, <1>7 DEF Ended
  <2>6. ~shutdown' /\ main' # "exit"
    BY <1>0, <1>2, <2>1 DEF Ended
  <2> QED
    BY <2>2, <2>3, <2>4, <2>5, <2>6 DEF Ended
<1>19. Heeding'
  <2>1. RememberedOnce' /\ \A k \in Remembered' : [kind |-> "Cancel", what |-> k] \notin Piped'
    BY <1>0, <1>1, <1>2, <1>3, <1>6, <1>7, <1>9, <1>10 DEF Heeding, Stops
  <2>2. Few' => heeded' \subseteq Remembered'
    BY <1>0, <1>2, <1>3, <1>4, <1>6, <1>7, <1>9, <1>10 DEF Heeding
  <2>3. Few' /\ current' \in heeded' => main' \notin {"prepare", "draw"}
    BY <1>0, <1>2, <1>3, <1>4, <1>6, <1>7, <1>9, <1>10 DEF Heeding
  <2> QED
    BY <2>1, <2>2, <2>3 DEF Heeding
<1> QED
  BY <1>11, <1>12, <1>13, <1>14, <1>15, <1>16, <1>17, <1>18, <1>19 DEF WorkerInv

(* A new floor is told. *)
LEMMA SendCancelGenerationKeeps ==
  ASSUME WorkerInv, NEW g \in 1..MaxFloor,
         UNCHANGED <<inbox, inFlight, reading, main, current, open, heeded>>,
         SendCancelGeneration(g)
  PROVE  WorkerInv'
<1>0. TypeInv /\ Phases /\ Written /\ Homes /\ Stops /\ Behind /\ Floors /\ Ended /\ Heeding
  BY DEF WorkerInv
<1>1. /\ pipe' = Append(pipe, [kind |-> "CancelGeneration", what |-> g])
      /\ <<"CancelGeneration", g>> \notin said /\ said' = said \cup {<<"CancelGeneration", g>>}
      /\ <<"Shutdown", None>> \notin said
      /\ g > top /\ top' = g /\ stoppable' = held
  BY DEF SendCancelGeneration, Once, Write, inbox
<1>2. /\ sent' = sent /\ gen' = gen /\ held' = held /\ asked' = asked /\ opening' = opening
      /\ reply' = reply /\ jobs' = jobs /\ control' = control /\ cancelled' = cancelled
      /\ floor' = floor /\ unacknowledged' = unacknowledged /\ shutdown' = shutdown
      /\ inFlight' = inFlight /\ reading' = reading /\ main' = main /\ current' = current
      /\ open' = open /\ heeded' = heeded
  BY DEF SendCancelGeneration, Once, Write, inbox
<1>3. /\ Queued' = Queued /\ QueuedOnce' = QueuedOnce
      /\ Dropped' = Dropped /\ DroppedOnce' = DroppedOnce
      /\ Ordered' = Ordered
      /\ Remembered' = Remembered /\ RememberedOnce' = RememberedOnce
  BY <1>2, SameQueue, SameDropped, SameControl, SameList
<1>4. IsFiniteSet(said') /\ (Few' => Few)
  <2>1. IsFiniteSet(said) /\ top \in Nat /\ top' \in Nat /\ top <= top'
    BY <1>0, <1>1, <1>2, WorkerAssumption DEF TypeInv, TypeOK
  <2> QED
    BY <1>1, <2>1, FewBefore
<1>5. [kind |-> "CancelGeneration", what |-> g] \in Messages
  BY WorkerAssumption DEF Messages
<1>6. [kind |-> "CancelGeneration", what |-> g] \notin Piped
  BY <1>0, <1>1 DEF Written
<1>7. /\ Piped' = Piped \cup {[kind |-> "CancelGeneration", what |-> g]} /\ PipedOnce'
      /\ \A x, y : <<x, y>> \in Ahead' <=>
                   <<x, y>> \in Ahead \/ (x \in Piped /\ y = [kind |-> "CancelGeneration", what |-> g])
      /\ pipe # <<>> => pipe' # <<>> /\ Head(pipe') = Head(pipe)
  BY <1>0, <1>1, <1>5, <1>6, PipeAdded DEF TypeInv, Written
<1>8. pipe' \in Seq(Messages) /\ pipe' \in Seq(Requests)
  BY <1>0, <1>1, <1>5, MessagesAre DEF TypeInv
<1>9. \A j : [kind |-> "Render", what |-> j] \in Piped' <=>
                 [kind |-> "Render", what |-> j] \in Piped
  BY <1>7
<1>10. g \in Nat /\ g # 0
  BY WorkerAssumption
<1>11. Typed
  BY <1>0, TypedFacts
<1>12. TypeInv'
  BY <1>0, <1>1, <1>2, <1>3, <1>4, <1>5, <1>6, <1>7, <1>8, <1>9, <1>10 DEF TypeInv, TypeOK
<1>13. Phases'
  BY <1>0, <1>1, <1>2, <1>7, <1>8 DEF Phases
<1>14. Written'
  <2>1. PipedOnce'
    BY <1>7
  <2>2. \A m \in Piped' : m.kind # "Render" => <<m.kind, m.what>> \in said'
    BY <1>0, <1>1, <1>2, <1>4, <1>6, <1>7, <1>9, <1>11 DEF Written
  <2>3. \A k \in Jobs : <<"Cancel", k>> \in said' => k <= sent'
    BY <1>0, <1>1, <1>2 DEF Written, TypeInv, TypeOK
  <2> QED
    BY <2>1, <2>2, <2>3 DEF Written
<1>15. Homes'
  <2>1. \A j \in held' : \/ [kind |-> "Render", what |-> j] \in Piped'
                         \/ j \in Queued' \/ j \in Dropped' \/ j = current'
    BY <1>0, <1>1, <1>2, <1>3, <1>6, <1>7, <1>8, <1>9 DEF Homes, Phases
  <2>2. \A j \in Jobs : [kind |-> "Render", what |-> j] \in Piped' =>
                         j \in held' /\ j \notin Queued' /\ j \notin Dropped' /\ j # current'
    BY <1>0, <1>1, <1>2, <1>3, <1>6, <1>7, <1>9 DEF Homes
  <2>3. /\ \A j \in Queued' : j \in held' /\ j \notin Dropped' /\ j # current'
        /\ \A j \in Dropped' : j \in held' /\ j # current'
        /\ current' # None => current' \in held'
    BY <1>0, <1>1, <1>2, <1>3, <1>6, <1>7, <1>9 DEF Homes
  <2>4. QueuedOnce' /\ DroppedOnce'
    BY <1>0, <1>1, <1>2, <1>3, <1>6, <1>7, <1>9, <1>11 DEF Homes
  <2>5. \A j \in held' : j <= sent'
    BY <1>0, <1>1, <1>2, <1>3, <1>6, <1>7, <1>9 DEF Homes
  <2>6. \A j \in Jobs : j > sent' => reply'[j] = "none"
    BY <1>0, <1>1, <1>2, <1>3, <1>6, <1>7, <1>9 DEF Homes
  <2> QED
    BY <2>1, <2>2, <2>3, <2>4, <2>5, <2>6 DEF Homes
<1>16. Stops'
  <2>1. \A j \in held' : gen'[j] < top' => j \in stoppable'
    BY <1>0, <1>1, <1>2 DEF Stops
  <2>2. \A j \in held' : <<"Cancel", j>> \in said' => j \in stoppable'
    BY <1>0, <1>1, <1>2, <1>4 DEF Stops
  <2>3. floor' <= top' /\ \A j \in Remembered' : <<"Cancel", j>> \in said'
    BY <1>0, <1>1, <1>2, <1>3, <1>4, <1>11 DEF Stops, Typed
  <2>4. \A j \in Dropped' : j \in stoppable'
    BY <1>0, <1>1, <1>2, <1>3 DEF Stops, Homes
  <2>5. inFlight'.stop => current' \in stoppable'
    BY <1>0, <1>1, <1>2 DEF Stops, Homes, Phases
  <2> QED
    BY <2>1, <2>2, <2>3, <2>4, <2>5 DEF Stops
<1>17. Behind'
  BY <1>0, <1>1, <1>2, <1>6, <1>7, <1>9, <1>11 DEF Behind, Typed
<1>18. Floors'
  BY <1>0, <1>2, <1>6, <1>7, <1>9, <1>11 DEF Floors, Typed
<1>19. Ended'
  <2>1. /\ ~shutdown /\ [kind |-> "Shutdown", what |-> None] \notin Piped
        /\ <<"Shutdown", None>> \notin said
    BY <1>0, <1>1 DEF Ended, Written
  <2>2. \A x \in Messages : <<[kind |-> "Shutdown", what |-> None], x>> \notin Ahead'
    BY <1>0, <1>7, <2>1 DEF Ended
  <2>3. <<"Shutdown", None>> \in said' => held' = {}
    BY <1>1, <1>2, <2>1
  <2>4. \A q \in asked' : [kind |-> "Question", what |-> q] \in Piped' \cup Ordered'
    BY <1>0, <1>1, <1>2, <1>3, <1>7 DEF Ended
  <2>5. \A d \in opening' : [kind |-> "Open", what |-> d] \in Piped' \cup Ordered'
    BY <1>0, <1>1, <1>2, <1>3, <1>7 DEF Ended
  <2>6. ~shutdown' /\ main' # "exit"
    BY <1>0, <1>2, <2>1 DEF Ended
  <2> QED
    BY <2>2, <2>3, <2>4, <2>5, <2>6 DEF Ended
<1>20. Heeding'
  <2>1. RememberedOnce' /\ \A j \in Remembered' : [kind |-> "Cancel", what |-> j] \notin Piped'
    BY <1>0, <1>1, <1>2, <1>3, <1>6, <1>7, <1>9, <1>11 DEF Heeding, Stops
  <2>2. Few' => heeded' \subseteq Remembered'
    BY <1>0, <1>2, <1>3, <1>4, <1>6, <1>7, <1>9, <1>11 DEF Heeding
  <2>3. Few' /\ current' \in heeded' => main' \notin {"prepare", "draw"}
    BY <1>0, <1>2, <1>3, <1>4, <1>6, <1>7, <1>9, <1>11 DEF Heeding
  <2> QED
    BY <2>1, <2>2, <2>3 DEF Heeding
<1> QED
  BY <1>12, <1>13, <1>14, <1>15, <1>16, <1>17, <1>18, <1>19, <1>20 DEF WorkerInv

(* An open is told. *)
LEMMA SendOpenKeeps ==
  ASSUME WorkerInv, NEW d \in Docs,
         UNCHANGED <<inbox, inFlight, reading, main, current, open, heeded>>, SendOpen(d)
  PROVE  WorkerInv'
<1>0. TypeInv /\ Phases /\ Written /\ Homes /\ Stops /\ Behind /\ Floors /\ Ended /\ Heeding
  BY DEF WorkerInv
<1>1. /\ pipe' = Append(pipe, [kind |-> "Open", what |-> d])
      /\ <<"Open", d>> \notin said /\ said' = said \cup {<<"Open", d>>}
      /\ <<"Shutdown", None>> \notin said
      /\ opening' = opening \cup {d}
  BY DEF SendOpen, Once, Write, inbox
<1>2. /\ sent' = sent /\ gen' = gen /\ top' = top /\ held' = held /\ stoppable' = stoppable
      /\ asked' = asked /\ reply' = reply /\ jobs' = jobs /\ control' = control
      /\ cancelled' = cancelled /\ floor' = floor /\ unacknowledged' = unacknowledged
      /\ shutdown' = shutdown /\ inFlight' = inFlight /\ reading' = reading /\ main' = main
      /\ current' = current /\ open' = open /\ heeded' = heeded
  BY DEF SendOpen, Once, Write, inbox
<1>3. /\ Queued' = Queued /\ QueuedOnce' = QueuedOnce
      /\ Dropped' = Dropped /\ DroppedOnce' = DroppedOnce
      /\ Ordered' = Ordered
      /\ Remembered' = Remembered /\ RememberedOnce' = RememberedOnce
  BY <1>2, SameQueue, SameDropped, SameControl, SameList
<1>4. IsFiniteSet(said') /\ (Few' => Few)
  <2>1. IsFiniteSet(said) /\ top \in Nat /\ top' \in Nat /\ top <= top'
    BY <1>0, <1>1, <1>2, WorkerAssumption DEF TypeInv, TypeOK
  <2> QED
    BY <1>1, <2>1, FewBefore
<1>5. [kind |-> "Open", what |-> d] \in Messages
  BY DEF Messages, Controls
<1>6. [kind |-> "Open", what |-> d] \notin Piped
  BY <1>0, <1>1 DEF Written
<1>7. /\ Piped' = Piped \cup {[kind |-> "Open", what |-> d]} /\ PipedOnce'
      /\ \A x, y : <<x, y>> \in Ahead' <=>
                   <<x, y>> \in Ahead \/ (x \in Piped /\ y = [kind |-> "Open", what |-> d])
      /\ pipe # <<>> => pipe' # <<>> /\ Head(pipe') = Head(pipe)
  BY <1>0, <1>1, <1>5, <1>6, PipeAdded DEF TypeInv, Written
<1>8. pipe' \in Seq(Messages) /\ pipe' \in Seq(Requests)
  BY <1>0, <1>1, <1>5, MessagesAre DEF TypeInv
<1>9. \A j : [kind |-> "Render", what |-> j] \in Piped' <=>
                 [kind |-> "Render", what |-> j] \in Piped
  BY <1>7
<1>10. Typed
  BY <1>0, TypedFacts
<1>11. TypeInv'
  BY <1>0, <1>1, <1>2, <1>3, <1>4, <1>5, <1>6, <1>7, <1>8, <1>9 DEF TypeInv, TypeOK
<1>12. Phases'
  BY <1>0, <1>1, <1>2, <1>7, <1>8 DEF Phases
<1>13. Written'
  <2>1. PipedOnce'
    BY <1>7
  <2>2. \A m \in Piped' : m.kind # "Render" => <<m.kind, m.what>> \in said'
    BY <1>0, <1>1, <1>2, <1>4, <1>6, <1>7, <1>9, <1>10 DEF Written
  <2>3. \A k \in Jobs : <<"Cancel", k>> \in said' => k <= sent'
    BY <1>0, <1>1, <1>2 DEF Written, TypeInv, TypeOK
  <2> QED
    BY <2>1, <2>2, <2>3 DEF Written
<1>14. Homes'
  <2>1. \A j \in held' : \/ [kind |-> "Render", what |-> j] \in Piped'
                         \/ j \in Queued' \/ j \in Dropped' \/ j = current'
    BY <1>0, <1>1, <1>2, <1>3, <1>6, <1>7, <1>8, <1>9 DEF Homes, Phases
  <2>2. \A j \in Jobs : [kind |-> "Render", what |-> j] \in Piped' =>
                         j \in held' /\ j \notin Queued' /\ j \notin Dropped' /\ j # current'
    BY <1>0, <1>2, <1>3, <1>6, <1>7, <1>9, <1>10 DEF Homes, Typed
  <2>3. /\ \A j \in Queued' : j \in held' /\ j \notin Dropped' /\ j # current'
        /\ \A j \in Dropped' : j \in held' /\ j # current'
        /\ current' # None => current' \in held'
    BY <1>0, <1>2, <1>3, <1>6, <1>7, <1>9, <1>10 DEF Homes, Typed
  <2>4. QueuedOnce' /\ DroppedOnce'
    BY <1>0, <1>2, <1>3, <1>6, <1>7, <1>9, <1>10 DEF Homes
  <2>5. \A j \in held' : j <= sent'
    BY <1>0, <1>2, <1>3, <1>6, <1>7, <1>9, <1>10 DEF Homes, Typed
  <2>6. \A j \in Jobs : j > sent' => reply'[j] = "none"
    BY <1>0, <1>2, <1>3, <1>6, <1>7, <1>9, <1>10 DEF Homes, Typed
  <2> QED
    BY <2>1, <2>2, <2>3, <2>4, <2>5, <2>6 DEF Homes
<1>15. Stops'
  <2>1. \A j \in held' : gen'[j] < top' => j \in stoppable'
    BY <1>0, <1>2, <1>10 DEF Stops, Typed
  <2>2. \A j \in held' : <<"Cancel", j>> \in said' => j \in stoppable'
    BY <1>0, <1>1, <1>2, <1>4 DEF Stops
  <2>3. floor' <= top' /\ \A j \in Remembered' : <<"Cancel", j>> \in said'
    BY <1>0, <1>1, <1>2, <1>3, <1>4 DEF Stops
  <2>4. \A j \in Dropped' : j \in stoppable'
    BY <1>0, <1>2, <1>3, <1>10 DEF Stops, Homes, Typed
  <2>5. inFlight'.stop => current' \in stoppable'
    BY <1>0, <1>2, <1>10 DEF Stops, Homes, Phases, Typed
  <2> QED
    BY <2>1, <2>2, <2>3, <2>4, <2>5 DEF Stops
<1>16. Behind'
  BY <1>0, <1>2, <1>6, <1>7, <1>9, <1>10 DEF Behind, Typed
<1>17. Floors'
  BY <1>0, <1>2, <1>6, <1>7, <1>9, <1>10 DEF Floors, Typed
<1>18. Ended'
  <2>1. /\ ~shutdown /\ [kind |-> "Shutdown", what |-> None] \notin Piped
        /\ <<"Shutdown", None>> \notin said
    BY <1>0, <1>1 DEF Ended, Written
  <2>2. \A x \in Messages : <<[kind |-> "Shutdown", what |-> None], x>> \notin Ahead'
    BY <1>0, <1>7, <2>1 DEF Ended
  <2>3. <<"Shutdown", None>> \in said' => held' = {}
    BY <1>1, <1>2, <2>1
  <2>4. \A q \in asked' : [kind |-> "Question", what |-> q] \in Piped' \cup Ordered'
    BY <1>0, <1>1, <1>2, <1>3, <1>7 DEF Ended
  <2>5. \A c \in opening' : [kind |-> "Open", what |-> c] \in Piped' \cup Ordered'
    BY <1>0, <1>1, <1>2, <1>3, <1>7 DEF Ended
  <2>6. ~shutdown' /\ main' # "exit"
    BY <1>0, <1>2, <2>1 DEF Ended
  <2> QED
    BY <2>2, <2>3, <2>4, <2>5, <2>6 DEF Ended
<1>19. Heeding'
  <2>1. RememberedOnce' /\ \A j \in Remembered' : [kind |-> "Cancel", what |-> j] \notin Piped'
    BY <1>0, <1>2, <1>3, <1>6, <1>7, <1>9, <1>10 DEF Heeding, Stops
  <2>2. Few' => heeded' \subseteq Remembered'
    BY <1>0, <1>2, <1>3, <1>4, <1>6, <1>7, <1>9, <1>10 DEF Heeding
  <2>3. Few' /\ current' \in heeded' => main' \notin {"prepare", "draw"}
    BY <1>0, <1>2, <1>3, <1>4, <1>6, <1>7, <1>9, <1>10 DEF Heeding
  <2> QED
    BY <2>1, <2>2, <2>3 DEF Heeding
<1> QED
  BY <1>11, <1>12, <1>13, <1>14, <1>15, <1>16, <1>17, <1>18, <1>19 DEF WorkerInv

(* A close is told. *)
LEMMA SendCloseKeeps ==
  ASSUME WorkerInv, NEW d \in Docs,
         UNCHANGED <<inbox, inFlight, reading, main, current, open, heeded>>, SendClose(d)
  PROVE  WorkerInv'
<1>0. TypeInv /\ Phases /\ Written /\ Homes /\ Stops /\ Behind /\ Floors /\ Ended /\ Heeding
  BY DEF WorkerInv
<1>1. /\ pipe' = Append(pipe, [kind |-> "Close", what |-> d])
      /\ <<"Close", d>> \notin said /\ said' = said \cup {<<"Close", d>>}
      /\ <<"Shutdown", None>> \notin said
  BY DEF SendClose, Once, Write, inbox
<1>2. /\ sent' = sent /\ gen' = gen /\ top' = top /\ held' = held /\ stoppable' = stoppable
      /\ asked' = asked /\ opening' = opening /\ reply' = reply /\ jobs' = jobs
      /\ control' = control /\ cancelled' = cancelled /\ floor' = floor
      /\ unacknowledged' = unacknowledged /\ shutdown' = shutdown /\ inFlight' = inFlight
      /\ reading' = reading /\ main' = main /\ current' = current /\ open' = open
      /\ heeded' = heeded
  BY DEF SendClose, Once, Write, inbox
<1>3. /\ Queued' = Queued /\ QueuedOnce' = QueuedOnce
      /\ Dropped' = Dropped /\ DroppedOnce' = DroppedOnce
      /\ Ordered' = Ordered
      /\ Remembered' = Remembered /\ RememberedOnce' = RememberedOnce
  BY <1>2, SameQueue, SameDropped, SameControl, SameList
<1>4. IsFiniteSet(said') /\ (Few' => Few)
  <2>1. IsFiniteSet(said) /\ top \in Nat /\ top' \in Nat /\ top <= top'
    BY <1>0, <1>1, <1>2, WorkerAssumption DEF TypeInv, TypeOK
  <2> QED
    BY <1>1, <2>1, FewBefore
<1>5. [kind |-> "Close", what |-> d] \in Messages
  BY DEF Messages, Controls
<1>6. [kind |-> "Close", what |-> d] \notin Piped
  BY <1>0, <1>1 DEF Written
<1>7. /\ Piped' = Piped \cup {[kind |-> "Close", what |-> d]} /\ PipedOnce'
      /\ \A x, y : <<x, y>> \in Ahead' <=>
                   <<x, y>> \in Ahead \/ (x \in Piped /\ y = [kind |-> "Close", what |-> d])
      /\ pipe # <<>> => pipe' # <<>> /\ Head(pipe') = Head(pipe)
  BY <1>0, <1>1, <1>5, <1>6, PipeAdded DEF TypeInv, Written
<1>8. pipe' \in Seq(Messages) /\ pipe' \in Seq(Requests)
  BY <1>0, <1>1, <1>5, MessagesAre DEF TypeInv
<1>9. \A j : [kind |-> "Render", what |-> j] \in Piped' <=>
                 [kind |-> "Render", what |-> j] \in Piped
  BY <1>7
<1>10. Typed
  BY <1>0, TypedFacts
<1>11. TypeInv'
  BY <1>0, <1>1, <1>2, <1>3, <1>4, <1>5, <1>6, <1>7, <1>8, <1>9 DEF TypeInv, TypeOK
<1>12. Phases'
  BY <1>0, <1>1, <1>2, <1>7, <1>8 DEF Phases
<1>13. Written'
  <2>1. PipedOnce'
    BY <1>7
  <2>2. \A m \in Piped' : m.kind # "Render" => <<m.kind, m.what>> \in said'
    BY <1>0, <1>1, <1>2, <1>4, <1>6, <1>7, <1>9, <1>10 DEF Written
  <2>3. \A k \in Jobs : <<"Cancel", k>> \in said' => k <= sent'
    BY <1>0, <1>1, <1>2 DEF Written, TypeInv, TypeOK
  <2> QED
    BY <2>1, <2>2, <2>3 DEF Written
<1>14. Homes'
  <2>1. \A j \in held' : \/ [kind |-> "Render", what |-> j] \in Piped'
                         \/ j \in Queued' \/ j \in Dropped' \/ j = current'
    BY <1>0, <1>1, <1>2, <1>3, <1>6, <1>7, <1>8, <1>9 DEF Homes, Phases
  <2>2. \A j \in Jobs : [kind |-> "Render", what |-> j] \in Piped' =>
                         j \in held' /\ j \notin Queued' /\ j \notin Dropped' /\ j # current'
    BY <1>0, <1>2, <1>3, <1>6, <1>7, <1>9, <1>10 DEF Homes, Typed
  <2>3. /\ \A j \in Queued' : j \in held' /\ j \notin Dropped' /\ j # current'
        /\ \A j \in Dropped' : j \in held' /\ j # current'
        /\ current' # None => current' \in held'
    BY <1>0, <1>2, <1>3, <1>6, <1>7, <1>9, <1>10 DEF Homes, Typed
  <2>4. QueuedOnce' /\ DroppedOnce'
    BY <1>0, <1>2, <1>3, <1>6, <1>7, <1>9, <1>10 DEF Homes
  <2>5. \A j \in held' : j <= sent'
    BY <1>0, <1>2, <1>3, <1>6, <1>7, <1>9, <1>10 DEF Homes, Typed
  <2>6. \A j \in Jobs : j > sent' => reply'[j] = "none"
    BY <1>0, <1>2, <1>3, <1>6, <1>7, <1>9, <1>10 DEF Homes, Typed
  <2> QED
    BY <2>1, <2>2, <2>3, <2>4, <2>5, <2>6 DEF Homes
<1>15. Stops'
  <2>1. \A j \in held' : gen'[j] < top' => j \in stoppable'
    BY <1>0, <1>2, <1>10 DEF Stops, Typed
  <2>2. \A j \in held' : <<"Cancel", j>> \in said' => j \in stoppable'
    BY <1>0, <1>1, <1>2, <1>4 DEF Stops
  <2>3. floor' <= top' /\ \A j \in Remembered' : <<"Cancel", j>> \in said'
    BY <1>0, <1>1, <1>2, <1>3, <1>4 DEF Stops
  <2>4. \A j \in Dropped' : j \in stoppable'
    BY <1>0, <1>2, <1>3, <1>10 DEF Stops, Homes, Typed
  <2>5. inFlight'.stop => current' \in stoppable'
    BY <1>0, <1>2, <1>10 DEF Stops, Homes, Phases, Typed
  <2> QED
    BY <2>1, <2>2, <2>3, <2>4, <2>5 DEF Stops
<1>16. Behind'
  BY <1>0, <1>2, <1>6, <1>7, <1>9, <1>10 DEF Behind, Typed
<1>17. Floors'
  BY <1>0, <1>2, <1>6, <1>7, <1>9, <1>10 DEF Floors, Typed
<1>18. Ended'
  <2>1. /\ ~shutdown /\ [kind |-> "Shutdown", what |-> None] \notin Piped
        /\ <<"Shutdown", None>> \notin said
    BY <1>0, <1>1 DEF Ended, Written
  <2>2. \A x \in Messages : <<[kind |-> "Shutdown", what |-> None], x>> \notin Ahead'
    BY <1>0, <1>7, <2>1 DEF Ended
  <2>3. <<"Shutdown", None>> \in said' => held' = {}
    BY <1>1, <1>2, <2>1
  <2>4. \A q \in asked' : [kind |-> "Question", what |-> q] \in Piped' \cup Ordered'
    BY <1>0, <1>1, <1>2, <1>3, <1>7 DEF Ended
  <2>5. \A c \in opening' : [kind |-> "Open", what |-> c] \in Piped' \cup Ordered'
    BY <1>0, <1>1, <1>2, <1>3, <1>7 DEF Ended
  <2>6. ~shutdown' /\ main' # "exit"
    BY <1>0, <1>2, <2>1 DEF Ended
  <2> QED
    BY <2>2, <2>3, <2>4, <2>5, <2>6 DEF Ended
<1>19. Heeding'
  <2>1. RememberedOnce' /\ \A j \in Remembered' : [kind |-> "Cancel", what |-> j] \notin Piped'
    BY <1>0, <1>2, <1>3, <1>6, <1>7, <1>9, <1>10 DEF Heeding, Stops
  <2>2. Few' => heeded' \subseteq Remembered'
    BY <1>0, <1>2, <1>3, <1>4, <1>6, <1>7, <1>9, <1>10 DEF Heeding
  <2>3. Few' /\ current' \in heeded' => main' \notin {"prepare", "draw"}
    BY <1>0, <1>2, <1>3, <1>4, <1>6, <1>7, <1>9, <1>10 DEF Heeding
  <2> QED
    BY <2>1, <2>2, <2>3 DEF Heeding
<1> QED
  BY <1>11, <1>12, <1>13, <1>14, <1>15, <1>16, <1>17, <1>18, <1>19 DEF WorkerInv

(* A question is put. *)
LEMMA SendQuestionKeeps ==
  ASSUME WorkerInv, NEW q \in Questions,
         UNCHANGED <<inbox, inFlight, reading, main, current, open, heeded>>, SendQuestion(q)
  PROVE  WorkerInv'
<1>0. TypeInv /\ Phases /\ Written /\ Homes /\ Stops /\ Behind /\ Floors /\ Ended /\ Heeding
  BY DEF WorkerInv
<1>1. /\ pipe' = Append(pipe, [kind |-> "Question", what |-> q])
      /\ <<"Question", q>> \notin said /\ said' = said \cup {<<"Question", q>>}
      /\ <<"Shutdown", None>> \notin said
      /\ asked' = asked \cup {q}
  BY DEF SendQuestion, Once, Write, inbox
<1>2. /\ sent' = sent /\ gen' = gen /\ top' = top /\ held' = held /\ stoppable' = stoppable
      /\ opening' = opening /\ reply' = reply /\ jobs' = jobs /\ control' = control
      /\ cancelled' = cancelled /\ floor' = floor /\ unacknowledged' = unacknowledged
      /\ shutdown' = shutdown /\ inFlight' = inFlight /\ reading' = reading /\ main' = main
      /\ current' = current /\ open' = open /\ heeded' = heeded
  BY DEF SendQuestion, Once, Write, inbox
<1>3. /\ Queued' = Queued /\ QueuedOnce' = QueuedOnce
      /\ Dropped' = Dropped /\ DroppedOnce' = DroppedOnce
      /\ Ordered' = Ordered
      /\ Remembered' = Remembered /\ RememberedOnce' = RememberedOnce
  BY <1>2, SameQueue, SameDropped, SameControl, SameList
<1>4. IsFiniteSet(said') /\ (Few' => Few)
  <2>1. IsFiniteSet(said) /\ top \in Nat /\ top' \in Nat /\ top <= top'
    BY <1>0, <1>1, <1>2, WorkerAssumption DEF TypeInv, TypeOK
  <2> QED
    BY <1>1, <2>1, FewBefore
<1>5. [kind |-> "Question", what |-> q] \in Messages
  BY DEF Messages, Controls
<1>6. [kind |-> "Question", what |-> q] \notin Piped
  BY <1>0, <1>1 DEF Written
<1>7. /\ Piped' = Piped \cup {[kind |-> "Question", what |-> q]} /\ PipedOnce'
      /\ \A x, y : <<x, y>> \in Ahead' <=>
                   <<x, y>> \in Ahead \/ (x \in Piped /\ y = [kind |-> "Question", what |-> q])
      /\ pipe # <<>> => pipe' # <<>> /\ Head(pipe') = Head(pipe)
  BY <1>0, <1>1, <1>5, <1>6, PipeAdded DEF TypeInv, Written
<1>8. pipe' \in Seq(Messages) /\ pipe' \in Seq(Requests)
  BY <1>0, <1>1, <1>5, MessagesAre DEF TypeInv
<1>9. \A j : [kind |-> "Render", what |-> j] \in Piped' <=>
                 [kind |-> "Render", what |-> j] \in Piped
  BY <1>7
<1>10. Typed
  BY <1>0, TypedFacts
<1>11. TypeInv'
  BY <1>0, <1>1, <1>2, <1>3, <1>4, <1>5, <1>6, <1>7, <1>8, <1>9 DEF TypeInv, TypeOK
<1>12. Phases'
  BY <1>0, <1>1, <1>2, <1>7, <1>8 DEF Phases
<1>13. Written'
  <2>1. PipedOnce'
    BY <1>7
  <2>2. \A m \in Piped' : m.kind # "Render" => <<m.kind, m.what>> \in said'
    BY <1>0, <1>1, <1>2, <1>4, <1>6, <1>7, <1>9, <1>10 DEF Written
  <2>3. \A k \in Jobs : <<"Cancel", k>> \in said' => k <= sent'
    BY <1>0, <1>1, <1>2 DEF Written, TypeInv, TypeOK
  <2> QED
    BY <2>1, <2>2, <2>3 DEF Written
<1>14. Homes'
  <2>1. \A j \in held' : \/ [kind |-> "Render", what |-> j] \in Piped'
                         \/ j \in Queued' \/ j \in Dropped' \/ j = current'
    BY <1>0, <1>1, <1>2, <1>3, <1>6, <1>7, <1>8, <1>9 DEF Homes, Phases
  <2>2. \A j \in Jobs : [kind |-> "Render", what |-> j] \in Piped' =>
                         j \in held' /\ j \notin Queued' /\ j \notin Dropped' /\ j # current'
    BY <1>0, <1>2, <1>3, <1>6, <1>7, <1>9, <1>10 DEF Homes, Typed
  <2>3. /\ \A j \in Queued' : j \in held' /\ j \notin Dropped' /\ j # current'
        /\ \A j \in Dropped' : j \in held' /\ j # current'
        /\ current' # None => current' \in held'
    BY <1>0, <1>2, <1>3, <1>6, <1>7, <1>9, <1>10 DEF Homes, Typed
  <2>4. QueuedOnce' /\ DroppedOnce'
    BY <1>0, <1>2, <1>3, <1>6, <1>7, <1>9, <1>10 DEF Homes
  <2>5. \A j \in held' : j <= sent'
    BY <1>0, <1>2, <1>3, <1>6, <1>7, <1>9, <1>10 DEF Homes, Typed
  <2>6. \A j \in Jobs : j > sent' => reply'[j] = "none"
    BY <1>0, <1>2, <1>3, <1>6, <1>7, <1>9, <1>10 DEF Homes, Typed
  <2> QED
    BY <2>1, <2>2, <2>3, <2>4, <2>5, <2>6 DEF Homes
<1>15. Stops'
  <2>1. \A j \in held' : gen'[j] < top' => j \in stoppable'
    BY <1>0, <1>2, <1>10 DEF Stops, Typed
  <2>2. \A j \in held' : <<"Cancel", j>> \in said' => j \in stoppable'
    BY <1>0, <1>1, <1>2, <1>4 DEF Stops
  <2>3. floor' <= top' /\ \A j \in Remembered' : <<"Cancel", j>> \in said'
    BY <1>0, <1>1, <1>2, <1>3, <1>4 DEF Stops
  <2>4. \A j \in Dropped' : j \in stoppable'
    BY <1>0, <1>2, <1>3, <1>10 DEF Stops, Homes, Typed
  <2>5. inFlight'.stop => current' \in stoppable'
    BY <1>0, <1>2, <1>10 DEF Stops, Homes, Phases, Typed
  <2> QED
    BY <2>1, <2>2, <2>3, <2>4, <2>5 DEF Stops
<1>16. Behind'
  BY <1>0, <1>2, <1>6, <1>7, <1>9, <1>10 DEF Behind, Typed
<1>17. Floors'
  BY <1>0, <1>2, <1>6, <1>7, <1>9, <1>10 DEF Floors, Typed
<1>18. Ended'
  <2>1. /\ ~shutdown /\ [kind |-> "Shutdown", what |-> None] \notin Piped
        /\ <<"Shutdown", None>> \notin said
    BY <1>0, <1>1 DEF Ended, Written
  <2>2. \A x \in Messages : <<[kind |-> "Shutdown", what |-> None], x>> \notin Ahead'
    BY <1>0, <1>7, <2>1 DEF Ended
  <2>3. <<"Shutdown", None>> \in said' => held' = {}
    BY <1>1, <1>2, <2>1
  <2>4. \A r \in asked' : [kind |-> "Question", what |-> r] \in Piped' \cup Ordered'
    BY <1>0, <1>1, <1>2, <1>3, <1>7 DEF Ended
  <2>5. \A d \in opening' : [kind |-> "Open", what |-> d] \in Piped' \cup Ordered'
    BY <1>0, <1>1, <1>2, <1>3, <1>7 DEF Ended
  <2>6. ~shutdown' /\ main' # "exit"
    BY <1>0, <1>2, <2>1 DEF Ended
  <2> QED
    BY <2>2, <2>3, <2>4, <2>5, <2>6 DEF Ended
<1>19. Heeding'
  <2>1. RememberedOnce' /\ \A j \in Remembered' : [kind |-> "Cancel", what |-> j] \notin Piped'
    BY <1>0, <1>2, <1>3, <1>6, <1>7, <1>9, <1>10 DEF Heeding, Stops
  <2>2. Few' => heeded' \subseteq Remembered'
    BY <1>0, <1>2, <1>3, <1>4, <1>6, <1>7, <1>9, <1>10 DEF Heeding
  <2>3. Few' /\ current' \in heeded' => main' \notin {"prepare", "draw"}
    BY <1>0, <1>2, <1>3, <1>4, <1>6, <1>7, <1>9, <1>10 DEF Heeding
  <2> QED
    BY <2>1, <2>2, <2>3 DEF Heeding
<1> QED
  BY <1>11, <1>12, <1>13, <1>14, <1>15, <1>16, <1>17, <1>18, <1>19 DEF WorkerInv

(* The process is told to end. *)
LEMMA SendShutdownKeeps ==
  ASSUME WorkerInv, UNCHANGED <<inbox, inFlight, reading, main, current, open, heeded>>,
         SendShutdown
  PROVE  WorkerInv'
<1>0. TypeInv /\ Phases /\ Written /\ Homes /\ Stops /\ Behind /\ Floors /\ Ended /\ Heeding
  BY DEF WorkerInv
<1>1. /\ pipe' = Append(pipe, [kind |-> "Shutdown", what |-> None])
      /\ <<"Shutdown", None>> \notin said /\ said' = said \cup {<<"Shutdown", None>>}
      /\ <<"Shutdown", None>> \notin said
      /\ held = {}
  BY DEF SendShutdown, Once, Write, inbox
<1>2. /\ sent' = sent /\ gen' = gen /\ top' = top /\ held' = held /\ stoppable' = stoppable
      /\ asked' = asked /\ opening' = opening /\ reply' = reply /\ jobs' = jobs
      /\ control' = control /\ cancelled' = cancelled /\ floor' = floor
      /\ unacknowledged' = unacknowledged /\ shutdown' = shutdown /\ inFlight' = inFlight
      /\ reading' = reading /\ main' = main /\ current' = current /\ open' = open
      /\ heeded' = heeded
  BY DEF SendShutdown, Once, Write, inbox
<1>3. /\ Queued' = Queued /\ QueuedOnce' = QueuedOnce
      /\ Dropped' = Dropped /\ DroppedOnce' = DroppedOnce
      /\ Ordered' = Ordered
      /\ Remembered' = Remembered /\ RememberedOnce' = RememberedOnce
  BY <1>2, SameQueue, SameDropped, SameControl, SameList
<1>4. IsFiniteSet(said') /\ (Few' => Few)
  <2>1. IsFiniteSet(said) /\ top \in Nat /\ top' \in Nat /\ top <= top'
    BY <1>0, <1>1, <1>2, WorkerAssumption DEF TypeInv, TypeOK
  <2> QED
    BY <1>1, <2>1, FewBefore
<1>5. [kind |-> "Shutdown", what |-> None] \in Messages
  BY DEF Messages
<1>6. [kind |-> "Shutdown", what |-> None] \notin Piped
  BY <1>0, <1>1 DEF Written
<1>7. /\ Piped' = Piped \cup {[kind |-> "Shutdown", what |-> None]} /\ PipedOnce'
      /\ \A x, y : <<x, y>> \in Ahead' <=>
                   <<x, y>> \in Ahead \/ (x \in Piped /\ y = [kind |-> "Shutdown", what |-> None])
      /\ pipe # <<>> => pipe' # <<>> /\ Head(pipe') = Head(pipe)
  BY <1>0, <1>1, <1>5, <1>6, PipeAdded DEF TypeInv, Written
<1>8. pipe' \in Seq(Messages) /\ pipe' \in Seq(Requests)
  BY <1>0, <1>1, <1>5, MessagesAre DEF TypeInv
<1>9. \A j : [kind |-> "Render", what |-> j] \in Piped' <=>
                 [kind |-> "Render", what |-> j] \in Piped
  BY <1>7
<1>10. Typed
  BY <1>0, TypedFacts
<1>11. TypeInv'
  BY <1>0, <1>1, <1>2, <1>3, <1>4, <1>5, <1>6, <1>7, <1>8, <1>9 DEF TypeInv, TypeOK
<1>12. Phases'
  BY <1>0, <1>1, <1>2, <1>7, <1>8 DEF Phases
<1>13. Written'
  <2>1. PipedOnce'
    BY <1>7
  <2>2. \A m \in Piped' : m.kind # "Render" => <<m.kind, m.what>> \in said'
    BY <1>0, <1>1, <1>2, <1>4, <1>6, <1>7, <1>9, <1>10 DEF Written
  <2>3. \A k \in Jobs : <<"Cancel", k>> \in said' => k <= sent'
    BY <1>0, <1>1, <1>2 DEF Written, TypeInv, TypeOK
  <2> QED
    BY <2>1, <2>2, <2>3 DEF Written
<1>14. Homes'
  <2>1. \A j \in held' : \/ [kind |-> "Render", what |-> j] \in Piped'
                         \/ j \in Queued' \/ j \in Dropped' \/ j = current'
    BY <1>0, <1>1, <1>2, <1>3, <1>6, <1>7, <1>8, <1>9 DEF Homes, Phases
  <2>2. \A j \in Jobs : [kind |-> "Render", what |-> j] \in Piped' =>
                         j \in held' /\ j \notin Queued' /\ j \notin Dropped' /\ j # current'
    BY <1>0, <1>1, <1>2, <1>3, <1>6, <1>7, <1>9 DEF Homes
  <2>3. /\ \A j \in Queued' : j \in held' /\ j \notin Dropped' /\ j # current'
        /\ \A j \in Dropped' : j \in held' /\ j # current'
        /\ current' # None => current' \in held'
    BY <1>0, <1>1, <1>2, <1>3, <1>6, <1>7, <1>9 DEF Homes
  <2>4. QueuedOnce' /\ DroppedOnce'
    BY <1>0, <1>1, <1>2, <1>3, <1>6, <1>7, <1>9, <1>10 DEF Homes
  <2>5. \A j \in held' : j <= sent'
    BY <1>0, <1>1, <1>2, <1>3, <1>6, <1>7, <1>9 DEF Homes
  <2>6. \A j \in Jobs : j > sent' => reply'[j] = "none"
    BY <1>0, <1>1, <1>2, <1>3, <1>6, <1>7, <1>9 DEF Homes
  <2> QED
    BY <2>1, <2>2, <2>3, <2>4, <2>5, <2>6 DEF Homes
<1>15. Stops'
  <2>1. \A j \in held' : gen'[j] < top' => j \in stoppable'
    BY <1>0, <1>1, <1>2 DEF Stops
  <2>2. \A j \in held' : <<"Cancel", j>> \in said' => j \in stoppable'
    BY <1>0, <1>1, <1>2, <1>4 DEF Stops
  <2>3. floor' <= top' /\ \A j \in Remembered' : <<"Cancel", j>> \in said'
    BY <1>0, <1>1, <1>2, <1>3, <1>4 DEF Stops
  <2>4. \A j \in Dropped' : j \in stoppable'
    BY <1>0, <1>1, <1>2, <1>3 DEF Stops, Homes
  <2>5. inFlight'.stop => current' \in stoppable'
    BY <1>0, <1>1, <1>2 DEF Stops, Homes, Phases
  <2> QED
    BY <2>1, <2>2, <2>3, <2>4, <2>5 DEF Stops
<1>16. Behind'
  BY <1>0, <1>1, <1>2, <1>6, <1>7, <1>9 DEF Behind
<1>17. Floors'
  BY <1>0, <1>2, <1>6, <1>7, <1>9, <1>10 DEF Floors, Typed
<1>18. Ended'
  <2>1. /\ ~shutdown /\ [kind |-> "Shutdown", what |-> None] \notin Piped
        /\ <<"Shutdown", None>> \notin said
    BY <1>0, <1>1 DEF Ended, Written
  <2>2. \A x \in Messages : <<[kind |-> "Shutdown", what |-> None], x>> \notin Ahead'
    BY <1>0, <1>7, <2>1 DEF Ended
  <2>3. <<"Shutdown", None>> \in said' => held' = {}
    BY <1>1, <1>2, <2>1
  <2>4. \A q \in asked' : [kind |-> "Question", what |-> q] \in Piped' \cup Ordered'
    BY <1>0, <1>1, <1>2, <1>3, <1>7 DEF Ended
  <2>5. \A d \in opening' : [kind |-> "Open", what |-> d] \in Piped' \cup Ordered'
    BY <1>0, <1>1, <1>2, <1>3, <1>7 DEF Ended
  <2>6. ~shutdown' /\ main' # "exit"
    BY <1>0, <1>2, <2>1 DEF Ended
  <2> QED
    BY <2>2, <2>3, <2>4, <2>5, <2>6 DEF Ended
<1>19. Heeding'
  <2>1. RememberedOnce' /\ \A j \in Remembered' : [kind |-> "Cancel", what |-> j] \notin Piped'
    BY <1>0, <1>1, <1>2, <1>3, <1>6, <1>7, <1>9, <1>10 DEF Heeding, Stops
  <2>2. Few' => heeded' \subseteq Remembered'
    BY <1>0, <1>2, <1>3, <1>4, <1>6, <1>7, <1>9, <1>10 DEF Heeding
  <2>3. Few' /\ current' \in heeded' => main' \notin {"prepare", "draw"}
    BY <1>0, <1>2, <1>3, <1>4, <1>6, <1>7, <1>9, <1>10 DEF Heeding
  <2> QED
    BY <2>1, <2>2, <2>3 DEF Heeding
<1> QED
  BY <1>11, <1>12, <1>13, <1>14, <1>15, <1>16, <1>17, <1>18, <1>19 DEF WorkerInv

(* A job is handed over. *)
LEMMA SendRenderKeeps ==
  ASSUME WorkerInv, NEW j \in Jobs, NEW g \in 0..(MaxFloor + 1),
         UNCHANGED <<inbox, inFlight, reading, main, current, open, heeded>>, SendRender(j, g)
  PROVE  WorkerInv'
<1>0. TypeInv /\ Phases /\ Written /\ Homes /\ Stops /\ Behind /\ Floors /\ Ended /\ Heeding
  BY DEF WorkerInv
<1>1. /\ pipe' = Append(pipe, [kind |-> "Render", what |-> j])
      /\ <<"Shutdown", None>> \notin said
      /\ j = sent + 1 /\ g >= top /\ sent' = j /\ gen' = [gen EXCEPT ![j] = g]
      /\ held' = held \cup {j}
  BY DEF SendRender, Once, Write, inbox
<1>2. /\ top' = top /\ said' = said /\ stoppable' = stoppable /\ asked' = asked
      /\ opening' = opening /\ reply' = reply /\ jobs' = jobs /\ control' = control
      /\ cancelled' = cancelled /\ floor' = floor /\ unacknowledged' = unacknowledged
      /\ shutdown' = shutdown /\ inFlight' = inFlight /\ reading' = reading /\ main' = main
      /\ current' = current /\ open' = open /\ heeded' = heeded
  BY DEF SendRender, Once, Write, inbox
<1>3. /\ Queued' = Queued /\ QueuedOnce' = QueuedOnce
      /\ Dropped' = Dropped /\ DroppedOnce' = DroppedOnce
      /\ Ordered' = Ordered
      /\ Remembered' = Remembered /\ RememberedOnce' = RememberedOnce
  BY <1>2, SameQueue, SameDropped, SameControl, SameList
<1>4. Few' = Few
  BY <1>2, SameFew
<1>5. [kind |-> "Render", what |-> j] \in Messages
  BY DEF Messages
<1>6. [kind |-> "Render", what |-> j] \notin Piped
  BY <1>0, <1>1, ConstantsApart DEF Homes, TypeInv, TypeOK
<1>7. /\ Piped' = Piped \cup {[kind |-> "Render", what |-> j]} /\ PipedOnce'
      /\ \A x, y : <<x, y>> \in Ahead' <=>
                   <<x, y>> \in Ahead \/ (x \in Piped /\ y = [kind |-> "Render", what |-> j])
      /\ pipe # <<>> => pipe' # <<>> /\ Head(pipe') = Head(pipe)
  BY <1>0, <1>1, <1>5, <1>6, PipeAdded DEF TypeInv, Written
<1>8. pipe' \in Seq(Messages) /\ pipe' \in Seq(Requests)
  BY <1>0, <1>1, <1>5, MessagesAre DEF TypeInv
<1>9. g \in Nat /\ j \notin held /\ j \in 1..JobCount
  BY <1>0, <1>1, WorkerAssumption DEF Homes, TypeInv, TypeOK, Jobs
<1>10. /\ gen' \in [Jobs -> Nat] /\ gen'[j] = g /\ \A k \in Jobs : k # j => gen'[k] = gen[k]
  BY <1>0, <1>1, <1>9 DEF TypeInv, TypeOK
<1>11. sent' \in 0..JobCount
  BY <1>1, <1>9
<1>12. <<"Cancel", j>> \notin said
  BY <1>0, <1>1, <1>9 DEF Written, TypeInv, TypeOK
<1>13. \A k : [kind |-> "Render", what |-> k] \in Piped' <=>
                  [kind |-> "Render", what |-> k] \in Piped \/ k = j
  BY <1>7
<1>14. Typed
  BY <1>0, TypedFacts
<1>15. TypeInv'
  BY <1>0, <1>1, <1>2, <1>3, <1>4, <1>5, <1>6, <1>7, <1>8, <1>9, <1>10, <1>11, <1>12, <1>13
     DEF TypeInv, TypeOK
<1>16. Phases'
  BY <1>0, <1>1, <1>2, <1>7, <1>8 DEF Phases
<1>17. Written'
  <2>1. PipedOnce'
    BY <1>7
  <2>2. \A m \in Piped' : m.kind # "Render" => <<m.kind, m.what>> \in said'
    BY <1>0, <1>1, <1>2, <1>6, <1>7, <1>11, <1>12, <1>13, <1>14 DEF Written
  <2>3. \A k \in Jobs : <<"Cancel", k>> \in said' => k <= sent'
    BY <1>0, <1>1, <1>2 DEF Written, TypeInv, TypeOK
  <2> QED
    BY <2>1, <2>2, <2>3 DEF Written
<1>18. Homes'
  <2>1. \A k \in held' : \/ [kind |-> "Render", what |-> k] \in Piped'
                         \/ k \in Queued' \/ k \in Dropped' \/ k = current'
    BY <1>0, <1>1, <1>2, <1>3, <1>6, <1>7, <1>8, <1>9, <1>11, <1>13 DEF Homes, Phases
  <2>2. \A k \in Jobs : [kind |-> "Render", what |-> k] \in Piped' =>
                         k \in held' /\ k \notin Queued' /\ k \notin Dropped' /\ k # current'
    BY <1>0, <1>1, <1>2, <1>3, <1>6, <1>7, <1>9, <1>11, <1>13, <1>14 DEF Homes, Typed
  <2>3. /\ \A k \in Queued' : k \in held' /\ k \notin Dropped' /\ k # current'
        /\ \A k \in Dropped' : k \in held' /\ k # current'
        /\ current' # None => current' \in held'
    BY <1>0, <1>1, <1>2, <1>3, <1>6, <1>7, <1>9, <1>11, <1>13 DEF Homes
  <2>4. QueuedOnce' /\ DroppedOnce'
    BY <1>0, <1>1, <1>2, <1>3, <1>6, <1>7, <1>9, <1>11, <1>13, <1>14 DEF Homes
  <2>5. \A k \in held' : k <= sent'
    BY <1>0, <1>1, <1>2, <1>3, <1>6, <1>7, <1>9, <1>11, <1>13, <1>14 DEF Homes, Typed
  <2>6. \A k \in Jobs : k > sent' => reply'[k] = "none"
    BY <1>0, <1>1, <1>2, <1>3, <1>6, <1>7, <1>9, <1>11, <1>13, <1>14 DEF Homes, Typed
  <2> QED
    BY <2>1, <2>2, <2>3, <2>4, <2>5, <2>6 DEF Homes
<1>19. Stops'
  <2>1. \A k \in held' : gen'[k] < top' => k \in stoppable'
    BY <1>0, <1>1, <1>2, <1>9, <1>10, <1>14 DEF Stops, Typed
  <2>2. \A k \in held' : <<"Cancel", k>> \in said' => k \in stoppable'
    BY <1>0, <1>1, <1>2, <1>9, <1>12 DEF Stops
  <2>3. floor' <= top' /\ \A k \in Remembered' : <<"Cancel", k>> \in said'
    BY <1>0, <1>1, <1>2, <1>3, <1>9, <1>12 DEF Stops
  <2>4. \A k \in Dropped' : k \in stoppable'
    BY <1>0, <1>1, <1>2, <1>3, <1>9 DEF Stops, Homes
  <2>5. inFlight'.stop => current' \in stoppable'
    BY <1>0, <1>1, <1>2, <1>9 DEF Stops, Homes, Phases
  <2> QED
    BY <2>1, <2>2, <2>3, <2>4, <2>5 DEF Stops
<1>20. Behind'
  BY <1>0, <1>1, <1>2, <1>6, <1>7, <1>9, <1>13 DEF Behind
<1>21. Floors'
  <2> SUFFICES ASSUME NEW k \in Jobs, [kind |-> "Render", what |-> k] \in Piped'
               PROVE  /\ gen'[k] >= floor'
                      /\ \A h \in Nat : <<[kind |-> "CancelGeneration", what |-> h],
                                         [kind |-> "Render", what |-> k]>> \in Ahead' => gen'[k] >= h
    BY DEF Floors
  <2>1. CASE k = j
    <3>1. \A x, y : <<x, y>> \in Ahead' => x \in Piped
      BY <1>7 DEF Ahead
    <3>2. gen'[k] = g /\ g >= top /\ floor <= top /\ floor' = floor
      BY <1>0, <1>1, <1>2, <1>10, <2>1 DEF Stops
    <3>3. \A h \in Nat : [kind |-> "CancelGeneration", what |-> h] \in Piped => h <= top
      BY <1>0 DEF Behind
    <3> QED
      BY <1>9, <3>1, <3>2, <3>3, <1>14 DEF Typed
  <2>2. CASE k # j
    <3>1. \A x : <<x, [kind |-> "Render", what |-> k]>> \in Ahead' =>
                 <<x, [kind |-> "Render", what |-> k]>> \in Ahead
      BY <1>7, <2>2
    <3>2. [kind |-> "Render", what |-> k] \in Piped /\ gen'[k] = gen[k] /\ floor' = floor
      BY <1>2, <1>10, <1>13, <2>2
    <3> QED
      BY <1>0, <3>1, <3>2 DEF Floors
  <2> QED
    BY <2>1, <2>2
<1>22. Ended'
  <2>1. /\ ~shutdown /\ [kind |-> "Shutdown", what |-> None] \notin Piped
        /\ <<"Shutdown", None>> \notin said
    BY <1>0, <1>1 DEF Ended, Written
  <2>2. \A x \in Messages : <<[kind |-> "Shutdown", what |-> None], x>> \notin Ahead'
    BY <1>0, <1>7, <2>1 DEF Ended
  <2>3. <<"Shutdown", None>> \in said' => held' = {}
    BY <1>1, <1>2, <2>1
  <2>4. \A q \in asked' : [kind |-> "Question", what |-> q] \in Piped' \cup Ordered'
    BY <1>0, <1>1, <1>2, <1>3, <1>7 DEF Ended
  <2>5. \A d \in opening' : [kind |-> "Open", what |-> d] \in Piped' \cup Ordered'
    BY <1>0, <1>1, <1>2, <1>3, <1>7 DEF Ended
  <2>6. ~shutdown' /\ main' # "exit"
    BY <1>0, <1>2, <2>1 DEF Ended
  <2> QED
    BY <2>2, <2>3, <2>4, <2>5, <2>6 DEF Ended
<1>23. Heeding'
  <2>1. RememberedOnce' /\ \A k \in Remembered' : [kind |-> "Cancel", what |-> k] \notin Piped'
    BY <1>0, <1>1, <1>2, <1>3, <1>6, <1>7, <1>9, <1>13, <1>14 DEF Heeding, Stops
  <2>2. Few' => heeded' \subseteq Remembered'
    BY <1>0, <1>2, <1>3, <1>4, <1>6, <1>7, <1>13, <1>14 DEF Heeding
  <2>3. Few' /\ current' \in heeded' => main' \notin {"prepare", "draw"}
    BY <1>0, <1>2, <1>3, <1>4, <1>6, <1>7, <1>13, <1>14 DEF Heeding
  <2> QED
    BY <2>1, <2>2, <2>3 DEF Heeding
<1> QED
  BY <1>15, <1>16, <1>17, <1>18, <1>19, <1>20, <1>21, <1>22, <1>23 DEF WorkerInv

-----------------------------------------------------------------------------
LEMMA WorkerInit == Init => WorkerInv
<1> SUFFICES ASSUME Init PROVE WorkerInv
  OBVIOUS
<1>1. /\ pipe = <<>> /\ jobs = <<>> /\ control = <<>> /\ cancelled = <<>> /\ unacknowledged = <<>>
      /\ sent = 0 /\ gen = [j \in Jobs |-> 0] /\ top = 0 /\ said = {} /\ held = {} /\ stoppable = {}
      /\ asked = {} /\ opening = {} /\ reply = [j \in Jobs |-> "none"] /\ floor = 0
      /\ ~shutdown /\ shutdown \in BOOLEAN /\ inFlight = [id |-> None, stop |-> FALSE]
      /\ reading = "none" /\ main = "choose" /\ current = None /\ open = {} /\ heeded = {}
  BY DEF Init, Idle
<1>2. Piped = {} /\ Queued = {} /\ Dropped = {} /\ Ordered = {} /\ Remembered = {} /\ Ahead = {}
  BY <1>1 DEF Piped, Queued, Dropped, Ordered, Remembered, Ahead
<1>3. PipedOnce /\ QueuedOnce /\ DroppedOnce /\ RememberedOnce
  BY <1>1 DEF PipedOnce, QueuedOnce, DroppedOnce, RememberedOnce
<1>4. JobCount \in Nat /\ MaxCancels \in Nat /\ 0 <= MaxCancels
  BY WorkerAssumption
<1>5. TypeInv
  <2>1. IsFiniteSet(said)
    BY <1>1, FS_EmptySet
  <2>2. /\ pipe \in Seq(Messages) /\ pipe \in Seq(Requests) /\ control \in Seq(Controls)
        /\ control \in Seq(Requests) /\ jobs \in Seq(Jobs) /\ unacknowledged \in Seq(Jobs)
        /\ cancelled \in Seq(Jobs \cup Elsewhere) /\ Len(cancelled) <= MaxCancels
    BY <1>1, <1>4
  <2>3. gen \in [Jobs -> Nat] /\ inFlight \in [id : Jobs \cup {None}, stop : BOOLEAN]
    BY <1>1
  <2> QED
    BY <1>1, <1>4, <2>1, <2>2, <2>3 DEF TypeInv, TypeOK
<1>6. Phases
  BY <1>1 DEF Phases
<1>7. Written /\ Homes /\ Behind /\ Floors
  BY <1>1, <1>2, <1>3, ConstantsApart DEF Written, Homes, Behind, Floors
<1>8. Stops /\ Ended /\ Heeding
  BY <1>1, <1>2, <1>3 DEF Stops, Ended, Heeding
<1> QED
  BY <1>5, <1>6, <1>7, <1>8 DEF WorkerInv

LEMMA WorkerStutter == ASSUME WorkerInv, UNCHANGED vars PROVE WorkerInv'
<1>1. /\ pipe' = pipe /\ jobs' = jobs /\ control' = control /\ cancelled' = cancelled
      /\ unacknowledged' = unacknowledged /\ said' = said /\ top' = top
  BY DEF vars, ends, inbox
<1>2. /\ Piped' = Piped /\ Ahead' = Ahead /\ PipedOnce' = PipedOnce
      /\ Queued' = Queued /\ QueuedOnce' = QueuedOnce /\ Dropped' = Dropped
      /\ DroppedOnce' = DroppedOnce /\ Ordered' = Ordered /\ Remembered' = Remembered
      /\ RememberedOnce' = RememberedOnce /\ Few' = Few
  BY <1>1, SamePipe, SameQueue, SameDropped, SameControl, SameList, SameFew
<1>3. TypeInv'
  BY DEF WorkerInv, TypeInv, TypeOK, vars, ends, inbox
<1>4. Phases' /\ Written' /\ Homes'
  BY <1>2 DEF WorkerInv, Phases, Written, Homes, vars, ends, inbox
<1>5. Stops' /\ Behind' /\ Floors'
  BY <1>2 DEF WorkerInv, Stops, Behind, Floors, vars, ends, inbox
<1>6. Ended' /\ Heeding'
  BY <1>2 DEF WorkerInv, Ended, Heeding, vars, ends, inbox
<1> QED
  BY <1>3, <1>4, <1>5, <1>6 DEF WorkerInv

LEMMA WorkerNext == ASSUME WorkerInv, [Next]_vars PROVE WorkerInv'
<1>1. ASSUME Supervisor PROVE WorkerInv'
  BY <1>1, SendCancelKeeps, SendRenderKeeps, SendCancelGenerationKeeps, SendOpenKeeps,
     SendCloseKeeps, SendQuestionKeeps, SendShutdownKeeps DEF Supervisor
<1>2. ASSUME Reader PROVE WorkerInv'
  BY <1>2, ReadCancelKeeps, FinishCancelKeeps, ReadCancelGenerationKeeps,
     FinishCancelGenerationKeeps, ReadRenderKeeps, ReadShutdownKeeps, ReadControlKeeps DEF Reader
<1>3. ASSUME Main PROVE WorkerInv'
  BY <1>3, AcknowledgeKeeps, TakeJobKeeps, TakeControlKeeps, ExitKeeps, CheckObsoleteKeeps,
     CheckPassedKeeps, PrepareFailsKeeps, BeginKeeps, DrawKeeps DEF Main
<1> QED
  BY <1>1, <1>2, <1>3, WorkerStutter DEF Next

LEMMA WorkerInvariant == Spec => []WorkerInv
  BY WorkerInit, WorkerNext, PTL DEF Spec

-----------------------------------------------------------------------------
(* The types, for every run of a renderer process (worker.rs Inbox, run).   *)
THEOREM WorkerTypeCorrect == Spec => []TypeOK
<1>1. WorkerInv => TypeOK
  BY DEF WorkerInv, TypeInv
<1> QED
  BY <1>1, WorkerInvariant, PTL

(* A process that leaves its loop owes nothing, and a cancel read before    *)
(* the job was looked at is heeded (worker.rs run, render_one).             *)
THEOREM WorkerHeedsOrders == Spec => []OrdersHeeded
<1>1. ASSUME WorkerInv PROVE ShutdownFinishes
  <2> SUFFICES ASSUME main = "exit" PROVE held = {} /\ asked = {} /\ opening = {}
    BY DEF ShutdownFinishes
  <2>1. shutdown /\ control = <<>> /\ pipe = <<>> /\ held = {}
    BY <1>1 DEF WorkerInv, Ended
  <2>2. Piped = {} /\ Ordered = {}
    BY <2>1 DEF Piped, Ordered
  <2> QED
    BY <1>1, <2>1, <2>2 DEF WorkerInv, Ended
<1>2. ASSUME WorkerInv PROVE CancelHeeded
  BY <1>2 DEF WorkerInv, Heeding, Few, Cancels, CancelHeeded
<1>3. WorkerInv => OrdersHeeded
  BY <1>1, <1>2 DEF OrdersHeeded
<1> QED
  BY <1>3, WorkerInvariant, PTL

(* No job handed to the process is lost inside it: until it is replied to   *)
(* it is in the pipe, in the queue, among the dropped that are still to be  *)
(* acknowledged, or in hand (worker.rs read_requests drops a job below the  *)
(* floor without a word, and none ever is).                                 *)
JobKept ==
  \A j \in held : \/ [kind |-> "Render", what |-> j] \in Piped
                  \/ j \in Queued \/ j \in Dropped \/ j = current

THEOREM NoJobLost == Spec => []JobKept
<1>1. WorkerInv => JobKept
  BY DEF WorkerInv, Homes, JobKept
<1> QED
  BY <1>1, WorkerInvariant, PTL

-----------------------------------------------------------------------------
(* The contract. *)

LEMMA ContractSame ==
  ASSUME UNCHANGED <<held, stoppable, asked, opening, reply>>
  PROVE  [Contract!Next]_(Contract!vars)
  BY DEF Contract!vars

LEMMA ContractReply ==
  ASSUME NEW j \in Jobs, NEW kind \in {"Rendered", "RenderFailed", "Cancelled"}, j \in held,
         kind = "Cancelled" => j \in stoppable, ReplyTo(j, kind), UNCHANGED <<asked, opening>>
  PROVE  Contract!Next
<1>1. Contract!Reply(j, kind)
  BY DEF ReplyTo, Contract!Reply
<1> QED
  BY <1>1 DEF Contract!Next

LEMMA ContractSupervisor ==
  ASSUME WorkerInv, Supervisor
  PROVE  [Contract!Next]_(Contract!vars)
<1>0. Typed /\ Homes /\ TypeInv
  BY TypedFacts DEF WorkerInv
<1>1. ASSUME NEW j \in Jobs \cup Elsewhere, SendCancel(j) PROVE Contract!Next
  <2>1. stoppable' = stoppable \cup (({j} \cap Jobs) \cap held)
    BY <1>0, <1>1 DEF SendCancel, Typed
  <2>2. UNCHANGED <<held, asked, opening, reply>>
    BY <1>1 DEF SendCancel
  <2>3. Contract!Stop({j} \cap Jobs)
    BY <2>1, <2>2 DEF Contract!Stop
  <2>4. {j} \cap Jobs \in SUBSET Jobs
    OBVIOUS
  <2> QED
    BY <2>3, <2>4 DEF Contract!Next
<1>2. ASSUME NEW j \in Jobs, NEW g \in 0..(MaxFloor + 1), SendRender(j, g) PROVE Contract!Next
  <2>1. j > sent /\ held' = held \cup {j} /\ UNCHANGED <<stoppable, asked, opening, reply>>
    BY <1>0, <1>2 DEF SendRender, Typed
  <2>2. reply[j] = "none" /\ j \notin held
    BY <1>0, <2>1 DEF Homes, Typed
  <2>3. Contract!Hand(j)
    BY <2>1, <2>2 DEF Contract!Hand
  <2> QED
    BY <2>3 DEF Contract!Next
<1>3. ASSUME NEW g \in 1..MaxFloor, SendCancelGeneration(g) PROVE Contract!Next
  <2>1. stoppable' = stoppable \cup (held \cap held) /\ UNCHANGED <<held, asked, opening, reply>>
    BY <1>0, <1>3 DEF SendCancelGeneration, Typed
  <2>2. Contract!Stop(held) /\ held \in SUBSET Jobs
    BY <1>0, <2>1 DEF Contract!Stop, Typed
  <2> QED
    BY <2>2 DEF Contract!Next
<1>4. ASSUME NEW d \in Docs, SendOpen(d) PROVE Contract!Next
  <2>1. Contract!Open(d)
    BY <1>4 DEF SendOpen, Contract!Open
  <2> QED
    BY <2>1 DEF Contract!Next
<1>5. ASSUME NEW d \in Docs, SendClose(d) PROVE [Contract!Next]_(Contract!vars)
  BY <1>5 DEF SendClose, Contract!vars
<1>6. ASSUME NEW q \in Questions, SendQuestion(q) PROVE Contract!Next
  <2>1. Contract!Put(q)
    BY <1>6 DEF SendQuestion, Contract!Put
  <2> QED
    BY <2>1 DEF Contract!Next
<1>7. ASSUME SendShutdown PROVE [Contract!Next]_(Contract!vars)
  BY <1>7 DEF SendShutdown, Contract!vars
<1> QED
  BY <1>1, <1>2, <1>3, <1>4, <1>5, <1>6, <1>7 DEF Supervisor

LEMMA ContractReader ==
  ASSUME Reader
  PROVE  [Contract!Next]_(Contract!vars)
<1>1. UNCHANGED <<held, stoppable, asked, opening, reply>>
  BY DEF Reader, ReadCancel, FinishCancel, ReadCancelGeneration, FinishCancelGeneration,
         ReadRender, ReadShutdown, ReadControl, ends, RestOfEnds
<1> QED
  BY <1>1, ContractSame

LEMMA ContractMain ==
  ASSUME WorkerInv, Main
  PROVE  [Contract!Next]_(Contract!vars)
<1>0. Typed /\ TypeInv /\ Phases /\ Homes /\ Stops
  BY TypedFacts DEF WorkerInv
<1>1. main \in {"check", "prepare", "draw"} => current \in Jobs /\ current \in held
  BY <1>0 DEF Typed, Phases, Homes
<1>2. ASSUME Acknowledge PROVE Contract!Next
  <2>1. /\ unacknowledged # <<>> /\ unacknowledged' = Front(unacknowledged)
        /\ ReplyTo(Last(unacknowledged), "Cancelled") /\ UNCHANGED <<asked, opening>>
    BY <1>2 DEF Acknowledge, RestOfReply
  <2>2. Last(unacknowledged) \in Dropped
    BY <1>0, <2>1, DropTaken DEF TypeInv, TypeOK, Homes
  <2>3. Last(unacknowledged) \in Jobs /\ Last(unacknowledged) \in held
        /\ Last(unacknowledged) \in stoppable
    BY <1>0, <2>2 DEF Typed, Homes, Stops
  <2> QED
    BY <2>1, <2>3, ContractReply
<1>3. ASSUME CheckObsolete PROVE Contract!Next
  <2>1. /\ main = "check" /\ Obsolete(current) /\ ReplyTo(current, "Cancelled")
        /\ UNCHANGED <<asked, opening>>
    BY <1>3 DEF CheckObsolete, RestOfReply
  <2>2. Obsolete(current) => gen[current] < floor \/ current \in Remembered
    BY <1>0 DEF Obsolete, Range, Remembered, TypeInv, TypeOK
  <2>3. current \in Jobs /\ current \in held
    BY <1>1, <2>1
  <2>4. current \in Remembered => current \in stoppable
    BY <1>0, <2>3 DEF Stops
  <2>5. gen[current] < floor => current \in stoppable
    BY <1>0, <2>3 DEF Stops, Typed
  <2> QED
    BY <2>1, <2>2, <2>3, <2>4, <2>5, ContractReply
<1>4. ASSUME PrepareFails PROVE Contract!Next
  <2>1. main = "prepare" /\ ReplyTo(current, "RenderFailed") /\ UNCHANGED <<asked, opening>>
    BY <1>4 DEF PrepareFails, RestOfReply
  <2> QED
    BY <1>1, <2>1, ContractReply
<1>5. ASSUME NEW kind \in {"Rendered", "RenderFailed", "Cancelled"}, Draw(kind)
      PROVE  Contract!Next
  <2>1. /\ main = "draw" /\ ReplyTo(current, kind) /\ UNCHANGED <<asked, opening>>
        /\ kind = "Cancelled" => inFlight.stop
    BY <1>5 DEF Draw, RestOfReply
  <2>2. kind = "Cancelled" => current \in stoppable
    BY <1>0, <2>1 DEF Stops
  <2> QED
    BY <1>1, <2>1, <2>2, ContractReply
<1>6. ASSUME TakeControl PROVE [Contract!Next]_(Contract!vars)
  <2> DEFINE m == Head(control)
  <2>1. control # <<>> /\ UNCHANGED <<held, stoppable, reply>>
    BY <1>6 DEF TakeControl
  <2>2. m \in Controls
    <3>1. control \in Seq(Controls)
      BY <1>0 DEF TypeInv
    <3> QED
      BY <2>1, <3>1, HeadTailProperties
  <2>3. CASE m.kind = "Open" /\ opening' = opening \ {m.what} /\ UNCHANGED asked
    <3>1. m.what \in Docs
      BY <2>2, <2>3 DEF Controls
    <3>2. CASE m.what \in opening
      <4>1. Contract!Opened(m.what)
        BY <2>1, <2>3, <3>2 DEF Contract!Opened
      <4> QED
        BY <3>1, <4>1 DEF Contract!Next
    <3>3. CASE m.what \notin opening
      <4>1. opening' = opening
        BY <2>3, <3>3
      <4> QED
        BY <2>1, <2>3, <4>1, ContractSame
    <3> QED
      BY <3>2, <3>3
  <2>4. CASE m.kind = "Close" /\ UNCHANGED <<asked, opening>>
    BY <2>1, <2>4, ContractSame
  <2>5. CASE m.kind = "Question" /\ asked' = asked \ {m.what} /\ UNCHANGED opening
    <3>1. m.what \in Questions
      BY <2>2, <2>5 DEF Controls
    <3>2. CASE m.what \in asked
      <4>1. Contract!Answer(m.what)
        BY <2>1, <2>5, <3>2 DEF Contract!Answer
      <4> QED
        BY <3>1, <4>1 DEF Contract!Next
    <3>3. CASE m.what \notin asked
      <4>1. asked' = asked
        BY <2>5, <3>3
      <4> QED
        BY <2>1, <2>5, <4>1, ContractSame
    <3> QED
      BY <3>2, <3>3
  <2> QED
    BY <1>6, <2>3, <2>4, <2>5 DEF TakeControl
<1>7. ASSUME TakeJob \/ Exit \/ CheckPassed \/ Begin PROVE [Contract!Next]_(Contract!vars)
  <2>1. UNCHANGED <<held, stoppable, asked, opening, reply>>
    BY <1>7 DEF TakeJob, Exit, CheckPassed, Begin, ends
  <2> QED
    BY <2>1, ContractSame
<1> QED
  BY <1>2, <1>3, <1>4, <1>5, <1>6, <1>7 DEF Main

(* The process keeps what the supervisor counts on: one reply per job,      *)
(* Cancelled only for a stop written after the job, and each question and   *)
(* each open answered once (worker.rs run, render_one, read_requests).      *)
THEOREM WorkerKeepsContract == Spec => KeepsContract
<1>1. Init => Contract!Init
  BY DEF Init, Contract!Init
<1>2. ASSUME WorkerInv, [Next]_vars PROVE [Contract!Next]_(Contract!vars)
  <2>1. CASE UNCHANGED vars
    BY <2>1, ContractSame DEF vars, ends
  <2>2. CASE Next
    BY <1>2, <2>2, ContractSupervisor, ContractReader, ContractMain DEF Next
  <2> QED
    BY <1>2, <2>1, <2>2
<1> QED
  BY <1>1, <1>2, WorkerInvariant, PTL DEF Spec, KeepsContract, Contract!Spec
=============================================================================
