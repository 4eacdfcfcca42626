------------------------- MODULE MediaSessionsProofs -------------------------
(***************************************************************************)
(* Theorems about MediaSessions, for every value of its constants.         *)
(***************************************************************************)
EXTENDS MediaSessions, FiniteSetTheorems, FunctionTheorems, SequenceTheorems, WellFoundedInduction,
        NaturalsInduction, TLAPS

-----------------------------------------------------------------------------
(* Numbers, and folds. *)

(* Induction over a number, with a set for the predicate. *)
LEMMA NumberInduction ==
  ASSUME NEW n \in Nat, NEW S, 0 \in S, \A k \in 0..n : k \in S /\ k < n => k + 1 \in S
  PROVE  0..n \subseteq S
<1>1. SUFFICES ASSUME ~(0..n \subseteq S) PROVE FALSE
  OBVIOUS
<1>2. 0..n \ S \subseteq Nat /\ 0..n \ S # {}
  BY <1>1
<1>3. PICK m \in 0..n \ S : \A y \in 0..n \ S : <<y, m>> \notin OpToRel(<, Nat)
  BY <1>2, NatLessThanWellFounded, WFMin
<1>4. \A y \in 0..n \ S : ~(y < m)
  BY <1>2, <1>3 DEF OpToRel
<1>5. m - 1 \in 0..n /\ m - 1 < m /\ m - 1 < n /\ (m - 1) + 1 = m
  OBVIOUS
<1>6. m - 1 \in S
  BY <1>4, <1>5
<1> QED
  BY <1>5, <1>6

(* A set of numbers has a least one; of the first n, a greatest. *)
LEMMA LeastOf ==
  ASSUME NEW S \in SUBSET Nat, S # {}
  PROVE  \E m \in S : \A y \in S : m <= y
<1>1. PICK m \in S : \A y \in S : <<y, m>> \notin OpToRel(<, Nat)
  BY NatLessThanWellFounded, WFMin
<1>2. \A y \in S : ~(y < m)
  BY <1>1 DEF OpToRel
<1> QED
  BY <1>2

LEMMA GreatestOf ==
  ASSUME NEW n \in Nat, NEW S \in SUBSET (1..n), S # {}
  PROVE  Max(S) \in S /\ \A y \in S : y <= Max(S)
<1> DEFINE T == {n - y : y \in S}
<1>1. T \in SUBSET Nat /\ T # {}
  <2>1. \A y \in S : n - y \in Nat
    OBVIOUS
  <2> QED
    BY <2>1
<1>2. PICK t \in T : \A y \in T : t <= y
  <2> HIDE DEF T
  <2> QED
    BY <1>1, LeastOf
<1>3. PICK m \in S : t = n - m
  BY <1>2
<1>4. \A y \in S : m >= y
  BY <1>2, <1>3
<1>5. Max(S) \in S /\ \A y \in S : Max(S) >= y
  BY <1>3, <1>4 DEF Max
<1> QED
  BY <1>5

(* A fold over a sequence, as the community modules define it: over the set *)
(* of its places, taking the last one off.                                  *)
Unfolds(g, b, q, F) ==
  \A s \in SUBSET DOMAIN q :
    g[s] = IF s = {} THEN b ELSE F[<<g[s \ {Max(s)}], q[Max(s)]>>]

LEMMA Folding ==
  ASSUME NEW M, NEW E, NEW F \in [M \X E -> M], NEW b \in M, NEW q \in Seq(E)
  PROVE  \E g \in [SUBSET DOMAIN q -> M] : Unfolds(g, b, q, F)
<1> DEFINE n == Len(q)
           Good(g, k) == \A s \in SUBSET (1..k) :
                           g[s] = IF s = {} THEN b ELSE F[<<g[s \ {Max(s)}], q[Max(s)]>>]
           Some(k) == \E g \in [SUBSET (1..k) -> M] : Good(g, k)
           S == {k \in Nat : k <= n => Some(k)}
<1>1. n \in Nat /\ DOMAIN q = 1..n /\ \A i \in 1..n : q[i] \in E
  BY ElementOfSeq
<1>2. 0 \in S
  <2> DEFINE g == [s \in SUBSET (1..0) |-> b]
  <2>1. g \in [SUBSET (1..0) -> M] /\ Good(g, 0)
    OBVIOUS
  <2>2. Some(0)
    BY <2>1
  <2> HIDE DEF Some
  <2> QED
    BY <2>2
<1>3. ASSUME NEW k \in 0..n, k \in S, k < n PROVE k + 1 \in S
  <2>1. PICK g \in [SUBSET (1..k) -> M] : Good(g, k)
    <3>1. Some(k)
      <4> HIDE DEF Some
      <4> QED
        BY <1>1, <1>3
    <3> HIDE DEF Good
    <3> QED
      BY <3>1
  <2> DEFINE last == k + 1
             h == [s \in SUBSET (1..last) |->
                     IF last \in s THEN F[<<g[s \ {last}], q[last]>>] ELSE g[s]]
  <2>2. last \in 1..n /\ q[last] \in E /\ last \notin 1..k /\ last \in Nat
    BY <1>1, <1>3
  <2>3. \A s \in SUBSET (1..last) : s \ {last} \in SUBSET (1..k) /\ (last \notin s => s \in SUBSET (1..k))
    BY <1>1, <1>3
  <2>4. h \in [SUBSET (1..last) -> M]
    <3> SUFFICES ASSUME NEW s \in SUBSET (1..last)
                 PROVE  (IF last \in s THEN F[<<g[s \ {last}], q[last]>>] ELSE g[s]) \in M
      OBVIOUS
    <3>1. g[s \ {last}] \in M /\ (last \notin s => g[s] \in M)
      BY <2>3
    <3> QED
      BY <2>2, <3>1
  <2>5. ASSUME NEW s \in SUBSET (1..last)
        PROVE  h[s] = IF s = {} THEN b ELSE F[<<h[s \ {Max(s)}], q[Max(s)]>>]
    <3>1. CASE last \in s
      <4>1. Max(s) \in s /\ \A y \in s : y <= Max(s)
        BY <2>2, <3>1, GreatestOf
      <4>2. Max(s) = last
        <5>1. Max(s) \in 1..last /\ last <= Max(s)
          BY <3>1, <4>1
        <5> QED
          BY <2>2, <5>1
      <4>3. h[s \ {last}] = g[s \ {last}]
        BY <2>3
      <4> QED
        BY <3>1, <4>2, <4>3
    <3>2. CASE last \notin s
      <4>1. s \in SUBSET (1..k) /\ h[s] = g[s]
        BY <2>3, <3>2
      <4>2. CASE s = {}
        BY <2>1, <4>1, <4>2
      <4>3. CASE s # {}
        <5>1. Max(s) \in s
          BY <1>3, <4>1, <4>3, GreatestOf
        <5>2. s \ {Max(s)} \in SUBSET (1..last) /\ last \notin s \ {Max(s)}
          BY <3>2
        <5>3. h[s \ {Max(s)}] = g[s \ {Max(s)}]
          BY <5>2
        <5> QED
          BY <2>1, <4>1, <4>3, <5>3
      <4> QED
        BY <4>2, <4>3
    <3> QED
      BY <3>1, <3>2
  <2>6. Good(h, last)
    BY <2>5
  <2>7. Some(last)
    <3> HIDE DEF h, Good
    <3> QED
      BY <2>4, <2>6
  <2> HIDE DEF Some
  <2> QED
    BY <2>2, <2>7
<1>4. 0..n \subseteq S
  <2> HIDE DEF S, n
  <2> QED
    BY <1>1, <1>2, <1>3, NumberInduction
<1>5. PICK g \in [SUBSET (1..n) -> M] : Good(g, n)
  <2>1. n \in S
    <3> HIDE DEF S, n
    <3> QED
      BY <1>1, <1>4
  <2>2. Some(n)
    <3> HIDE DEF Some
    <3> QED
      BY <1>1, <2>1
  <2> HIDE DEF Good, n
  <2> QED
    BY <2>2
<1> QED
  BY <1>1, <1>5 DEF Unfolds

(* One value after another. *)
LEMMA Stays ==
  ASSUME NEW n \in Nat, NEW f, NEW M, f[0] \in M, \A i \in 1..n : f[i - 1] \in M => f[i] \in M
  PROVE  \A i \in 0..n : f[i] \in M
<1> DEFINE S == {i \in Nat : i <= n => f[i] \in M}
<1>1. 0 \in S
  OBVIOUS
<1>2. ASSUME NEW k \in 0..n, k \in S, k < n PROVE k + 1 \in S
  <2>1. f[k] \in M /\ k + 1 \in 1..n /\ (k + 1) - 1 = k
    BY <1>2
  <2>2. f[k + 1] \in M
    BY <2>1
  <2> QED
    BY <2>2
<1>3. 0..n \subseteq S
  <2> HIDE DEF S
  <2> QED
    BY <1>1, <1>2, NumberInduction
<1> QED
  BY <1>3

Rests(g, M, b, q, F) ==
  /\ g[{}] = b
  /\ \A s \in SUBSET DOMAIN q : s # {} /\ g[s \ {Max(s)}] \in M =>
       g[s] = F[<<g[s \ {Max(s)}], q[Max(s)]>>]
Runs(f, b, q, F, end) ==
  /\ f[0] = b /\ f[Len(q)] = end
  /\ \A i \in 1..Len(q) : f[i] = F[<<f[i - 1], q[i]>>]

LEMMA FoldSteps ==
  ASSUME NEW M, NEW E, NEW F \in [M \X E -> M], NEW b \in M, NEW q \in Seq(E), NEW g,
         Rests(g, M, b, q, F)
  PROVE  \E f \in [0..Len(q) -> M] : Runs(f, b, q, F, g[DOMAIN q])
<1> DEFINE n == Len(q)
           f == [i \in 0..n |-> g[1..i]]
<1> USE DEF Rests
<1>1. n \in Nat /\ DOMAIN q = 1..n /\ \A i \in 1..n : q[i] \in E
  BY ElementOfSeq
<1>2. f[0] = b
  <2>1. 1..0 = {} /\ 0 \in 0..n
    BY <1>1
  <2> QED
    BY <2>1
<1>3. ASSUME NEW i \in 1..n, f[i - 1] \in M PROVE f[i] = F[<<f[i - 1], q[i]>>]
  <2>1. i \in Nat /\ i \in 1..i /\ i - 1 \in 0..n /\ i \in 0..n
    BY <1>1
  <2>2. Max(1..i) \in 1..i /\ i <= Max(1..i)
    BY <2>1, GreatestOf
  <2>3. Max(1..i) = i
    BY <2>1, <2>2
  <2>4. (1..i) \ {i} = 1..(i - 1)
    BY <2>1
  <2>5. 1..i \in SUBSET DOMAIN q /\ 1..i # {}
    <3>1. 1..i \subseteq 1..n
      BY <1>1, <2>1
    <3> QED
      BY <1>1, <2>1, <3>1
  <2>6. f[i - 1] = g[(1..i) \ {Max(1..i)}] /\ f[i] = g[1..i]
    BY <2>1, <2>3, <2>4
  <2> QED
    BY <1>3, <2>3, <2>5, <2>6
<1>4. \A i \in 1..n : f[i - 1] \in M => f[i] \in M
  BY <1>1, <1>3
<1>5. \A i \in 0..n : f[i] \in M
  <2> HIDE DEF f, n
  <2> QED
    BY <1>1, <1>2, <1>4, Stays
<1>6. \A i \in 1..n : f[i] = F[<<f[i - 1], q[i]>>]
  <2> SUFFICES ASSUME NEW i \in 1..n PROVE f[i] = F[<<f[i - 1], q[i]>>]
    OBVIOUS
  <2>1. i - 1 \in 0..n
    BY <1>1
  <2> QED
    BY <1>3, <1>5, <2>1
<1>7. f[n] = g[DOMAIN q]
  BY <1>1
<1>8. f \in [0..n -> M]
  BY <1>5
<1>9. Runs(f, b, q, F, g[DOMAIN q])
  BY <1>2, <1>6, <1>7 DEF Runs
<1> HIDE DEF f
<1> QED
  BY <1>8, <1>9

LEMMA PlaceMax ==
  ASSUME NEW E, NEW q \in Seq(E), NEW s \in SUBSET DOMAIN q, s # {}
  PROVE  Max(s) \in DOMAIN q /\ q[Max(s)] \in E /\ s \ {Max(s)} \in SUBSET DOMAIN q
<1>1. DOMAIN q = 1..Len(q) /\ Len(q) \in Nat
  OBVIOUS
<1>2. Max(s) \in s
  BY <1>1, GreatestOf
<1>3. q[Max(s)] \in E
  BY <1>1, <1>2, ElementOfSeq
<1> QED
  BY <1>2, <1>3

Closes(M, E) == \A m \in M, e \in E : Closed(m, e) \in M

LEMMA ClosedFold ==
  ASSUME NEW M, NEW E, NEW b \in M, NEW q \in Seq(E),
         Closes(M, E)
  PROVE  \E f \in [0..Len(q) -> M] :
           /\ f[0] = b /\ f[Len(q)] = AllClosed(b, q)
           /\ \A i \in 1..Len(q) : f[i] = Closed(f[i - 1], q[i])
<1> DEFINE Op(m, e) == Closed(m, e)
           F == [x \in M \X E |-> Op(x[1], x[2])]
           Is(g) == g = [s \in SUBSET DOMAIN q |->
                           IF s = {} THEN b ELSE Op(g[s \ {Max(s)}], q[Max(s)])]
           it == CHOOSE g : Is(g)
<1>1. F \in [M \X E -> M] /\ \A m \in M, e \in E : F[<<m, e>>] = Op(m, e)
  <2> HIDE DEF Op
  <2>1. \A m \in M, e \in E : Op(m, e) \in M
    BY DEF Op, Closes
  <2> QED
    BY <2>1
<1>2. \A s \in SUBSET DOMAIN q :
        s # {} => Max(s) \in DOMAIN q /\ q[Max(s)] \in E /\ s \ {Max(s)} \in SUBSET DOMAIN q
  BY PlaceMax
<1>3. PICK g \in [SUBSET DOMAIN q -> M] : Unfolds(g, b, q, F)
  <2> HIDE DEF F
  <2> QED
    BY <1>1, Folding
<1>4. Is(g)
  <2> HIDE DEF F, Op
  <2>1. \A s \in SUBSET DOMAIN q : g[s] = IF s = {} THEN b ELSE Op(g[s \ {Max(s)}], q[Max(s)])
    BY <1>1, <1>2, <1>3 DEF Unfolds
  <2> QED
    BY <2>1
<1>5. Is(it)
  <2> HIDE DEF Is
  <2> QED
    BY <1>4
<1>6. AllClosed(b, q) = it[DOMAIN q]
  BY DEF AllClosed, FoldLeft, MapThenFoldSet
<1>7. Rests(it, M, b, q, F)
  <2> HIDE DEF F, it, Op
  <2> QED
    BY <1>1, <1>2, <1>5 DEF Rests
<1> HIDE DEF F, it, Op
<1>8. PICK f \in [0..Len(q) -> M] : Runs(f, b, q, F, it[DOMAIN q])
  BY <1>1, <1>7, FoldSteps
<1>9. \A i \in 1..Len(q) : f[i - 1] \in M /\ q[i] \in E
  BY ElementOfSeq
<1>10. f[0] = b /\ f[Len(q)] = AllClosed(b, q)
  BY <1>6, <1>8 DEF Runs
<1>11. \A i \in 1..Len(q) : f[i] = Op(f[i - 1], q[i])
  BY <1>1, <1>8, <1>9 DEF Runs
<1>12. \A i \in 1..Len(q) : f[i] = Closed(f[i - 1], q[i])
  BY <1>11 DEF Op
<1> QED
  BY <1>10, <1>12

OpensIn(M, E, broken) == \A m \in M, e \in E : Opened(m, e, broken) \in M

LEMMA OpenedFold ==
  ASSUME NEW M, NEW E, NEW b \in M, NEW q \in Seq(E), NEW broken,
         OpensIn(M, E, broken)
  PROVE  \E f \in [0..Len(q) -> M] :
           /\ f[0] = b /\ f[Len(q)] = AllOpened(b, q, broken)
           /\ \A i \in 1..Len(q) : f[i] = Opened(f[i - 1], q[i], broken)
<1> DEFINE Op(m, e) == Opened(m, e, broken)
           F == [x \in M \X E |-> Op(x[1], x[2])]
           Is(g) == g = [s \in SUBSET DOMAIN q |->
                           IF s = {} THEN b ELSE Op(g[s \ {Max(s)}], q[Max(s)])]
           it == CHOOSE g : Is(g)
<1>1. F \in [M \X E -> M] /\ \A m \in M, e \in E : F[<<m, e>>] = Op(m, e)
  <2> HIDE DEF Op
  <2>1. \A m \in M, e \in E : Op(m, e) \in M
    BY DEF Op, OpensIn
  <2> QED
    BY <2>1
<1>2. \A s \in SUBSET DOMAIN q :
        s # {} => Max(s) \in DOMAIN q /\ q[Max(s)] \in E /\ s \ {Max(s)} \in SUBSET DOMAIN q
  BY PlaceMax
<1>3. PICK g \in [SUBSET DOMAIN q -> M] : Unfolds(g, b, q, F)
  <2> HIDE DEF F
  <2> QED
    BY <1>1, Folding
<1>4. Is(g)
  <2> HIDE DEF F, Op
  <2>1. \A s \in SUBSET DOMAIN q : g[s] = IF s = {} THEN b ELSE Op(g[s \ {Max(s)}], q[Max(s)])
    BY <1>1, <1>2, <1>3 DEF Unfolds
  <2> QED
    BY <2>1
<1>5. Is(it)
  <2> HIDE DEF Is
  <2> QED
    BY <1>4
<1>6. AllOpened(b, q, broken) = it[DOMAIN q]
  BY DEF AllOpened, FoldLeft, MapThenFoldSet
<1>7. Rests(it, M, b, q, F)
  <2> HIDE DEF F, it, Op
  <2> QED
    BY <1>1, <1>2, <1>5 DEF Rests
<1> HIDE DEF F, it, Op
<1>8. PICK f \in [0..Len(q) -> M] : Runs(f, b, q, F, it[DOMAIN q])
  BY <1>1, <1>7, FoldSteps
<1>9. \A i \in 1..Len(q) : f[i - 1] \in M /\ q[i] \in E
  BY ElementOfSeq
<1>10. f[0] = b /\ f[Len(q)] = AllOpened(b, q, broken)
  BY <1>6, <1>8 DEF Runs
<1>11. \A i \in 1..Len(q) : f[i] = Op(f[i - 1], q[i])
  BY <1>1, <1>8, <1>9 DEF Runs
<1>12. \A i \in 1..Len(q) : f[i] = Opened(f[i - 1], q[i], broken)
  BY <1>11 DEF Op
<1> QED
  BY <1>10, <1>12

Tells(M, E, on) == \A m \in M, e \in E : SetActive(m, m.sessions[e], e \in on) \in M

LEMMA ToldFold ==
  ASSUME NEW M, NEW E, NEW b \in M, NEW q \in Seq(E), NEW on,
         Tells(M, E, on)
  PROVE  \E f \in [0..Len(q) -> M] :
           /\ f[0] = b /\ f[Len(q)] = AllTold(b, q, on)
           /\ \A i \in 1..Len(q) : f[i] = SetActive(f[i - 1], f[i - 1].sessions[q[i]], q[i] \in on)
<1> DEFINE Op(m, e) == SetActive(m, m.sessions[e], e \in on)
           F == [x \in M \X E |-> Op(x[1], x[2])]
           Is(g) == g = [s \in SUBSET DOMAIN q |->
                           IF s = {} THEN b ELSE Op(g[s \ {Max(s)}], q[Max(s)])]
           it == CHOOSE g : Is(g)
<1>1. F \in [M \X E -> M] /\ \A m \in M, e \in E : F[<<m, e>>] = Op(m, e)
  <2> HIDE DEF Op
  <2>1. \A m \in M, e \in E : Op(m, e) \in M
    BY DEF Op, Tells
  <2> QED
    BY <2>1
<1>2. \A s \in SUBSET DOMAIN q :
        s # {} => Max(s) \in DOMAIN q /\ q[Max(s)] \in E /\ s \ {Max(s)} \in SUBSET DOMAIN q
  BY PlaceMax
<1>3. PICK g \in [SUBSET DOMAIN q -> M] : Unfolds(g, b, q, F)
  <2> HIDE DEF F
  <2> QED
    BY <1>1, Folding
<1>4. Is(g)
  <2> HIDE DEF F, Op
  <2>1. \A s \in SUBSET DOMAIN q : g[s] = IF s = {} THEN b ELSE Op(g[s \ {Max(s)}], q[Max(s)])
    BY <1>1, <1>2, <1>3 DEF Unfolds
  <2> QED
    BY <2>1
<1>5. Is(it)
  <2> HIDE DEF Is
  <2> QED
    BY <1>4
<1>6. AllTold(b, q, on) = it[DOMAIN q]
  BY DEF AllTold, FoldLeft, MapThenFoldSet
<1>7. Rests(it, M, b, q, F)
  <2> HIDE DEF F, it, Op
  <2> QED
    BY <1>1, <1>2, <1>5 DEF Rests
<1> HIDE DEF F, it, Op
<1>8. PICK f \in [0..Len(q) -> M] : Runs(f, b, q, F, it[DOMAIN q])
  BY <1>1, <1>7, FoldSteps
<1>9. \A i \in 1..Len(q) : f[i - 1] \in M /\ q[i] \in E
  BY ElementOfSeq
<1>10. f[0] = b /\ f[Len(q)] = AllTold(b, q, on)
  BY <1>6, <1>8 DEF Runs
<1>11. \A i \in 1..Len(q) : f[i] = Op(f[i - 1], q[i])
  BY <1>1, <1>8, <1>9 DEF Runs
<1>12. \A i \in 1..Len(q) : f[i] = SetActive(f[i - 1], f[i - 1].sessions[q[i]], q[i] \in on)
  BY <1>11 DEF Op
<1> QED
  BY <1>10, <1>12

EndsIn(M, E) == \A m \in M, e \in E : Closed(m, m.sessions[e]) \in M

LEMMA EndedFold ==
  ASSUME NEW M, NEW E, NEW b \in M, NEW q \in Seq(E),
         EndsIn(M, E)
  PROVE  \E f \in [0..Len(q) -> M] :
           /\ f[0] = b /\ f[Len(q)] = Ended(b, q)
           /\ \A i \in 1..Len(q) : f[i] = Closed(f[i - 1], f[i - 1].sessions[q[i]])
<1> DEFINE Op(m, e) == Closed(m, m.sessions[e])
           F == [x \in M \X E |-> Op(x[1], x[2])]
           Is(g) == g = [s \in SUBSET DOMAIN q |->
                           IF s = {} THEN b ELSE Op(g[s \ {Max(s)}], q[Max(s)])]
           it == CHOOSE g : Is(g)
<1>1. F \in [M \X E -> M] /\ \A m \in M, e \in E : F[<<m, e>>] = Op(m, e)
  <2> HIDE DEF Op
  <2>1. \A m \in M, e \in E : Op(m, e) \in M
    BY DEF Op, EndsIn
  <2> QED
    BY <2>1
<1>2. \A s \in SUBSET DOMAIN q :
        s # {} => Max(s) \in DOMAIN q /\ q[Max(s)] \in E /\ s \ {Max(s)} \in SUBSET DOMAIN q
  BY PlaceMax
<1>3. PICK g \in [SUBSET DOMAIN q -> M] : Unfolds(g, b, q, F)
  <2> HIDE DEF F
  <2> QED
    BY <1>1, Folding
<1>4. Is(g)
  <2> HIDE DEF F, Op
  <2>1. \A s \in SUBSET DOMAIN q : g[s] = IF s = {} THEN b ELSE Op(g[s \ {Max(s)}], q[Max(s)])
    BY <1>1, <1>2, <1>3 DEF Unfolds
  <2> QED
    BY <2>1
<1>5. Is(it)
  <2> HIDE DEF Is
  <2> QED
    BY <1>4
<1>6. Ended(b, q) = it[DOMAIN q]
  BY DEF Ended, FoldLeft, MapThenFoldSet
<1>7. Rests(it, M, b, q, F)
  <2> HIDE DEF F, it, Op
  <2> QED
    BY <1>1, <1>2, <1>5 DEF Rests
<1> HIDE DEF F, it, Op
<1>8. PICK f \in [0..Len(q) -> M] : Runs(f, b, q, F, it[DOMAIN q])
  BY <1>1, <1>7, FoldSteps
<1>9. \A i \in 1..Len(q) : f[i - 1] \in M /\ q[i] \in E
  BY ElementOfSeq
<1>10. f[0] = b /\ f[Len(q)] = Ended(b, q)
  BY <1>6, <1>8 DEF Runs
<1>11. \A i \in 1..Len(q) : f[i] = Op(f[i - 1], q[i])
  BY <1>1, <1>8, <1>9 DEF Runs
<1>12. \A i \in 1..Len(q) : f[i] = Closed(f[i - 1], f[i - 1].sessions[q[i]])
  BY <1>11 DEF Op
<1> QED
  BY <1>10, <1>12

Hears(M, E, r, q) == \A m \in M, e \in E : (IF e.kind = "FrameReady" THEN FrameReady(m, r, e, q) ELSE m) \in M

LEMMA HeardFold ==
  ASSUME NEW M, NEW E, NEW b \in M, NEW q \in Seq(E), NEW r,
         Hears(M, E, r, q)
  PROVE  \E f \in [0..Len(q) -> M] :
           /\ f[0] = b /\ f[Len(q)] = AllHeard(b, r, q)
           /\ \A i \in 1..Len(q) : f[i] = (IF q[i].kind = "FrameReady" THEN FrameReady(f[i - 1], r, q[i], q) ELSE f[i - 1])
<1> DEFINE Op(m, e) == (IF e.kind = "FrameReady" THEN FrameReady(m, r, e, q) ELSE m)
           F == [x \in M \X E |-> Op(x[1], x[2])]
           Is(g) == g = [s \in SUBSET DOMAIN q |->
                           IF s = {} THEN b ELSE Op(g[s \ {Max(s)}], q[Max(s)])]
           it == CHOOSE g : Is(g)
<1>1. F \in [M \X E -> M] /\ \A m \in M, e \in E : F[<<m, e>>] = Op(m, e)
  <2> HIDE DEF Op
  <2>1. \A m \in M, e \in E : Op(m, e) \in M
    BY DEF Op, Hears
  <2> QED
    BY <2>1
<1>2. \A s \in SUBSET DOMAIN q :
        s # {} => Max(s) \in DOMAIN q /\ q[Max(s)] \in E /\ s \ {Max(s)} \in SUBSET DOMAIN q
  BY PlaceMax
<1>3. PICK g \in [SUBSET DOMAIN q -> M] : Unfolds(g, b, q, F)
  <2> HIDE DEF F
  <2> QED
    BY <1>1, Folding
<1>4. Is(g)
  <2> HIDE DEF F, Op
  <2>1. \A s \in SUBSET DOMAIN q : g[s] = IF s = {} THEN b ELSE Op(g[s \ {Max(s)}], q[Max(s)])
    BY <1>1, <1>2, <1>3 DEF Unfolds
  <2> QED
    BY <2>1
<1>5. Is(it)
  <2> HIDE DEF Is
  <2> QED
    BY <1>4
<1>6. AllHeard(b, r, q) = it[DOMAIN q]
  BY DEF AllHeard, FoldLeft, MapThenFoldSet
<1>7. Rests(it, M, b, q, F)
  <2> HIDE DEF F, it, Op
  <2> QED
    BY <1>1, <1>2, <1>5 DEF Rests
<1> HIDE DEF F, it, Op
<1>8. PICK f \in [0..Len(q) -> M] : Runs(f, b, q, F, it[DOMAIN q])
  BY <1>1, <1>7, FoldSteps
<1>9. \A i \in 1..Len(q) : f[i - 1] \in M /\ q[i] \in E
  BY ElementOfSeq
<1>10. f[0] = b /\ f[Len(q)] = AllHeard(b, r, q)
  BY <1>6, <1>8 DEF Runs
<1>11. \A i \in 1..Len(q) : f[i] = Op(f[i - 1], q[i])
  BY <1>1, <1>8, <1>9 DEF Runs
<1>12. \A i \in 1..Len(q) : f[i] = (IF q[i].kind = "FrameReady" THEN FrameReady(f[i - 1], r, q[i], q) ELSE f[i - 1])
  BY <1>11 DEF Op
<1> QED
  BY <1>10, <1>12

Recovers(M, E, broken) == \A m \in M, e \in E : Recovered(m, e.session, e.error, broken) \in M

LEMMA RecoveredFold ==
  ASSUME NEW M, NEW E, NEW b \in M, NEW q \in Seq(E), NEW broken,
         Recovers(M, E, broken)
  PROVE  \E f \in [0..Len(q) -> M] :
           /\ f[0] = b /\ f[Len(q)] = AllRecovered(b, q, broken)
           /\ \A i \in 1..Len(q) : f[i] = Recovered(f[i - 1], q[i].session, q[i].error, broken)
<1> DEFINE Op(m, e) == Recovered(m, e.session, e.error, broken)
           F == [x \in M \X E |-> Op(x[1], x[2])]
           Is(g) == g = [s \in SUBSET DOMAIN q |->
                           IF s = {} THEN b ELSE Op(g[s \ {Max(s)}], q[Max(s)])]
           it == CHOOSE g : Is(g)
<1>1. F \in [M \X E -> M] /\ \A m \in M, e \in E : F[<<m, e>>] = Op(m, e)
  <2> HIDE DEF Op
  <2>1. \A m \in M, e \in E : Op(m, e) \in M
    BY DEF Op, Recovers
  <2> QED
    BY <2>1
<1>2. \A s \in SUBSET DOMAIN q :
        s # {} => Max(s) \in DOMAIN q /\ q[Max(s)] \in E /\ s \ {Max(s)} \in SUBSET DOMAIN q
  BY PlaceMax
<1>3. PICK g \in [SUBSET DOMAIN q -> M] : Unfolds(g, b, q, F)
  <2> HIDE DEF F
  <2> QED
    BY <1>1, Folding
<1>4. Is(g)
  <2> HIDE DEF F, Op
  <2>1. \A s \in SUBSET DOMAIN q : g[s] = IF s = {} THEN b ELSE Op(g[s \ {Max(s)}], q[Max(s)])
    BY <1>1, <1>2, <1>3 DEF Unfolds
  <2> QED
    BY <2>1
<1>5. Is(it)
  <2> HIDE DEF Is
  <2> QED
    BY <1>4
<1>6. AllRecovered(b, q, broken) = it[DOMAIN q]
  BY DEF AllRecovered, FoldLeft, MapThenFoldSet
<1>7. Rests(it, M, b, q, F)
  <2> HIDE DEF F, it, Op
  <2> QED
    BY <1>1, <1>2, <1>5 DEF Rests
<1> HIDE DEF F, it, Op
<1>8. PICK f \in [0..Len(q) -> M] : Runs(f, b, q, F, it[DOMAIN q])
  BY <1>1, <1>7, FoldSteps
<1>9. \A i \in 1..Len(q) : f[i - 1] \in M /\ q[i] \in E
  BY ElementOfSeq
<1>10. f[0] = b /\ f[Len(q)] = AllRecovered(b, q, broken)
  BY <1>6, <1>8 DEF Runs
<1>11. \A i \in 1..Len(q) : f[i] = Op(f[i - 1], q[i])
  BY <1>1, <1>8, <1>9 DEF Runs
<1>12. \A i \in 1..Len(q) : f[i] = Recovered(f[i - 1], q[i].session, q[i].error, broken)
  BY <1>11 DEF Op
<1> QED
  BY <1>10, <1>12

LEMMA OnlyFold ==
  ASSUME NEW M, NEW E, NEW q \in Seq(E), NEW S, <<>> \in M,
         \A m \in M, e \in E : (IF e \in S THEN Append(m, e) ELSE m) \in M
  PROVE  \E f \in [0..Len(q) -> M] :
           /\ f[0] = <<>> /\ f[Len(q)] = Only(q, S)
           /\ \A i \in 1..Len(q) : f[i] = (IF q[i] \in S THEN Append(f[i - 1], q[i]) ELSE f[i - 1])
<1> DEFINE Op(m, e) == (IF e \in S THEN Append(m, e) ELSE m)
           F == [x \in M \X E |-> Op(x[1], x[2])]
           Is(g) == g = [s \in SUBSET DOMAIN q |->
                           IF s = {} THEN <<>> ELSE Op(g[s \ {Max(s)}], q[Max(s)])]
           it == CHOOSE g : Is(g)
<1>1. F \in [M \X E -> M] /\ \A m \in M, e \in E : F[<<m, e>>] = Op(m, e)
  <2> HIDE DEF Op
  <2>1. \A m \in M, e \in E : Op(m, e) \in M
    BY DEF Op
  <2> QED
    BY <2>1
<1>2. \A s \in SUBSET DOMAIN q :
        s # {} => Max(s) \in DOMAIN q /\ q[Max(s)] \in E /\ s \ {Max(s)} \in SUBSET DOMAIN q
  BY PlaceMax
<1>3. PICK g \in [SUBSET DOMAIN q -> M] : Unfolds(g, <<>>, q, F)
  <2> HIDE DEF F
  <2> QED
    BY <1>1, Folding
<1>4. Is(g)
  <2> HIDE DEF F, Op
  <2>1. \A s \in SUBSET DOMAIN q : g[s] = IF s = {} THEN <<>> ELSE Op(g[s \ {Max(s)}], q[Max(s)])
    BY <1>1, <1>2, <1>3 DEF Unfolds
  <2> QED
    BY <2>1
<1>5. Is(it)
  <2> HIDE DEF Is
  <2> QED
    BY <1>4
<1>6. Only(q, S) = it[DOMAIN q]
  BY DEF Only, FoldLeft, MapThenFoldSet
<1>7. Rests(it, M, <<>>, q, F)
  <2> HIDE DEF F, it, Op
  <2> QED
    BY <1>1, <1>2, <1>5 DEF Rests
<1> HIDE DEF F, it, Op
<1>8. PICK f \in [0..Len(q) -> M] : Runs(f, <<>>, q, F, it[DOMAIN q])
  BY <1>1, <1>7, FoldSteps
<1>9. \A i \in 1..Len(q) : f[i - 1] \in M /\ q[i] \in E
  BY ElementOfSeq
<1>10. f[0] = <<>> /\ f[Len(q)] = Only(q, S)
  BY <1>6, <1>8 DEF Runs
<1>11. \A i \in 1..Len(q) : f[i] = Op(f[i - 1], q[i])
  BY <1>1, <1>8, <1>9 DEF Runs
<1>12. \A i \in 1..Len(q) : f[i] = (IF q[i] \in S THEN Append(f[i - 1], q[i]) ELSE f[i - 1])
  BY <1>11 DEF Op
<1> QED
  BY <1>10, <1>12

-----------------------------------------------------------------------------
(* The members of a set in a row, and what a row has of a set. *)

Lists(q, S) ==
  /\ q \in Seq(S)
  /\ \A i, j \in 1..Len(q) : q[i] = q[j] => i = j
  /\ \A x \in S : \E i \in 1..Len(q) : q[i] = x

LEMMA InjectionLists ==
  ASSUME NEW S, IsFiniteSet(S), NEW q \in [1..Cardinality(S) -> S], IsInjective(q)
  PROVE  Lists(q, S)
<1> DEFINE n == Cardinality(S)
<1>1. n \in Nat
  BY FS_CardinalityType
<1>2. IsFiniteSet(1..n) /\ Cardinality(1..n) = n
  <2> HIDE DEF n
  <2> QED
    BY <1>1, FS_Interval
<1>3. q \in Injection(1..n, S)
  BY DEF Injection
<1>4. q \in Surjection(1..n, S)
  BY <1>2, <1>3, FS_Injection
<1>5. q \in Seq(S) /\ Len(q) = n
  <2> HIDE DEF n
  <2>1. q \in [1..n -> S]
    BY DEF n
  <2> QED
    BY <1>1, <2>1
<1>6. \A i, j \in 1..n : q[i] = q[j] => i = j
  BY DEF IsInjective
<1>7. \A x \in S : \E i \in 1..n : q[i] = x
  BY <1>4 DEF Surjection
<1> QED
  BY <1>5, <1>6, <1>7 DEF Lists

LEMMA SetToSeqLists ==
  ASSUME NEW S, IsFiniteSet(S)
  PROVE  Lists(SetToSeq(S), S)
<1>1. PICK f : f \in Bijection(1..Cardinality(S), S)
  BY FS_CardinalityType DEF ExistsBijection
<1>2. f \in [1..Cardinality(S) -> S] /\ IsInjective(f)
  BY <1>1 DEF Bijection, Injection
<1>3. SetToSeq(S) \in [1..Cardinality(S) -> S] /\ IsInjective(SetToSeq(S))
  BY <1>2 DEF SetToSeq
<1> QED
  BY <1>3, InjectionLists

Rising(q, n) == \A i, j \in 1..n : i < j => q[i] < q[j]

LEMMA RisingExists ==
  ASSUME NEW n \in Nat
  PROVE  \A S \in SUBSET Nat : IsFiniteSet(S) /\ Cardinality(S) = n => \E q \in [1..n -> S] : Rising(q, n)
<1> DEFINE Has(k) == \A S \in SUBSET Nat :
                       IsFiniteSet(S) /\ Cardinality(S) = k => \E q \in [1..k -> S] : Rising(q, k)
           T == {k \in Nat : Has(k)}
<1>1. 0 \in T
  <2> SUFFICES ASSUME NEW S \in SUBSET Nat PROVE \E q \in [1..0 -> S] : Rising(q, 0)
    OBVIOUS
  <2>1. [i \in 1..0 |-> 0] \in [1..0 -> S] /\ Rising([i \in 1..0 |-> 0], 0)
    BY DEF Rising
  <2> QED
    BY <2>1
<1>2. ASSUME NEW k \in 0..n, k \in T, k < n PROVE k + 1 \in T
  <2> SUFFICES ASSUME NEW S \in SUBSET Nat, IsFiniteSet(S), Cardinality(S) = k + 1
               PROVE  \E q \in [1..(k + 1) -> S] : Rising(q, k + 1)
    OBVIOUS
  <2>1. S # {}
    BY FS_EmptySet
  <2>2. PICK least \in S : \A y \in S : least <= y
    BY <2>1, LeastOf
  <2>3. IsFiniteSet(S \ {least}) /\ Cardinality(S \ {least}) = k
    <3>1. Cardinality(S \ {least}) = Cardinality(S) - 1 /\ IsFiniteSet(S \ {least})
      BY FS_RemoveElement
    <3> QED
      BY <3>1
  <2>4. PICK q \in [1..k -> S \ {least}] : Rising(q, k)
    <3>1. Has(k)
      BY <1>2
    <3>2. S \ {least} \in SUBSET Nat
      OBVIOUS
    <3> HIDE DEF T
    <3> QED
      BY <2>3, <3>1, <3>2
  <2> DEFINE p == [i \in 1..(k + 1) |-> IF i = 1 THEN least ELSE q[i - 1]]
  <2>5. \A i \in 1..(k + 1) : i # 1 => i - 1 \in 1..k /\ q[i - 1] \in S /\ q[i - 1] # least
    OBVIOUS
  <2>6. p \in [1..(k + 1) -> S]
    BY <2>5
  <2>7. ASSUME NEW i \in 1..(k + 1), NEW j \in 1..(k + 1), i < j PROVE p[i] < p[j]
    <3>1. j # 1 /\ p[j] = q[j - 1] /\ p[j] \in S /\ p[j] # least
      BY <2>5, <2>7
    <3>2. CASE i = 1
      <4>1. p[i] = least /\ least \in Nat /\ p[j] \in Nat
        BY <3>1, <3>2
      <4>2. least <= p[j]
        BY <2>2, <3>1
      <4> QED
        BY <3>1, <4>1, <4>2
    <3>3. CASE i # 1
      <4>1. i - 1 \in 1..k /\ j - 1 \in 1..k /\ i - 1 < j - 1 /\ p[i] = q[i - 1]
        BY <2>7, <3>3
      <4> QED
        BY <2>4, <3>1, <4>1 DEF Rising
    <3> QED
      BY <3>2, <3>3
  <2>8. Rising(p, k + 1)
    BY <2>7 DEF Rising
  <2> QED
    BY <2>6, <2>8
<1>3. 0..n \subseteq T
  <2> HIDE DEF T
  <2> QED
    BY <1>1, <1>2, NumberInduction
<1> QED
  BY <1>3

LEMMA AscendingIs ==
  ASSUME NEW S \in SUBSET Nat, IsFiniteSet(S)
  PROVE  LET n == Cardinality(S) IN
         /\ n \in Nat /\ Ascending(S) \in [1..n -> S]
         /\ \A i, j \in 1..n : i < j => Ascending(S)[i] < Ascending(S)[j]
<1> DEFINE n == Cardinality(S)
           q == Ascending(S)
<1>1. n \in Nat
  BY FS_CardinalityType
<1>2. \E p \in [1..n -> S] : \A i, j \in 1..n : i < j => p[i] < p[j]
  <2> HIDE DEF n
  <2>1. \E p \in [1..n -> S] : Rising(p, n)
    BY <1>1, RisingExists DEF n
  <2> QED
    BY <2>1 DEF Rising
<1>3. q \in [1..n -> S] /\ \A i, j \in 1..n : i < j => q[i] < q[j]
  BY <1>2 DEF Ascending
<1> QED
  BY <1>1, <1>3

LEMMA AscendingLists ==
  ASSUME NEW S \in SUBSET Nat, IsFiniteSet(S)
  PROVE  Lists(Ascending(S), S)
<1> DEFINE n == Cardinality(S)
           q == Ascending(S)
<1>1. n \in Nat
  BY AscendingIs
<1>3. q \in [1..n -> S] /\ \A i, j \in 1..n : i < j => q[i] < q[j]
  BY AscendingIs
<1> HIDE DEF q, n
<1>4. \A i \in 1..n : q[i] \in Nat
  BY <1>3
<1>5. ASSUME NEW i \in 1..n, NEW j \in 1..n, q[i] = q[j] PROVE i = j
  <2>1. ~(i < j) /\ ~(j < i)
    BY <1>3, <1>4, <1>5
  <2> QED
    BY <1>1, <2>1
<1>6. IsInjective(q)
  BY <1>3, <1>5 DEF IsInjective
<1> QED
  BY <1>3, <1>6, InjectionLists DEF n, q

(* q is a part of p, in its order. *)
Sifted(q, p, S) ==
  /\ q \in Seq(S)
  /\ Len(q) <= Len(p)
  /\ \A j \in 1..Len(q) : \E i \in 1..Len(p) : q[j] = p[i]
  /\ (\A i, j \in 1..Len(p) : p[i] = p[j] => i = j) => \A i, j \in 1..Len(q) : q[i] = q[j] => i = j

LEMMA OnlySifts ==
  ASSUME NEW E, NEW p \in Seq(E), NEW S
  PROVE  Sifted(Only(p, S), p, E \cap S)
<1> DEFINE M == Seq(E \cap S)
           n == Len(p)
<1>1. <<>> \in M /\ \A m \in M, e \in E : (IF e \in S THEN Append(m, e) ELSE m) \in M
  OBVIOUS
<1>2. PICK f \in [0..Len(p) -> M] :
        /\ f[0] = <<>> /\ f[Len(p)] = Only(p, S)
        /\ \A i \in 1..Len(p) : f[i] = IF p[i] \in S THEN Append(f[i - 1], p[i]) ELSE f[i - 1]
  <2> HIDE DEF M
  <2> QED
    BY <1>1, OnlyFold
<1>3. n \in Nat /\ \A i \in 1..n : p[i] \in E
  BY ElementOfSeq
<1> DEFINE From(k) == /\ Len(f[k]) <= k
                      /\ \A j \in 1..Len(f[k]) : \E i \in 1..k : f[k][j] = p[i]
                      /\ (\A i, j \in 1..n : p[i] = p[j] => i = j) =>
                           \A i, j \in 1..Len(f[k]) : f[k][i] = f[k][j] => i = j
           T == {k \in Nat : k <= n => From(k)}
<1>4. 0 \in T
  BY <1>2
<1>5. ASSUME NEW k \in 0..n, k \in T, k < n PROVE k + 1 \in T
  <2>0. k + 1 \in Nat /\ (From(k + 1) => k + 1 \in T)
    <3> HIDE DEF From
    <3> QED
      BY <1>3, <1>5
  <2>1. From(k) /\ k + 1 \in 1..n /\ (k + 1) - 1 = k /\ p[k + 1] \in E /\ k \in Nat
    <3> HIDE DEF From
    <3> QED
      BY <1>3, <1>5
  <2>2. f[k] \in M /\ Len(f[k]) \in Nat
    BY <1>3
  <2>3. f[k + 1] = IF p[k + 1] \in S THEN Append(f[k], p[k + 1]) ELSE f[k]
    BY <1>2, <2>1
  <2>4. CASE p[k + 1] \notin S
    <3>1. f[k + 1] = f[k]
      BY <2>3, <2>4
    <3>2. From(k + 1)
      BY <2>1, <2>2, <3>1
    <3> QED
      BY <2>0, <3>2
  <2>5. CASE p[k + 1] \in S
    <3> DEFINE g == f[k]
               e == p[k + 1]
    <3>1. /\ Len(Append(g, e)) = Len(g) + 1 /\ Append(g, e)[Len(g) + 1] = e
          /\ \A i \in 1..Len(g) : Append(g, e)[i] = g[i]
      BY <2>2
    <3>2. f[k + 1] = Append(g, e)
      BY <2>3, <2>5
    <3>3. \A j \in 1..(Len(g) + 1) : j \in 1..Len(g) \/ j = Len(g) + 1
      BY <2>2
    <3>4. \A j \in 1..Len(g) : \E i \in 1..k : g[j] = p[i]
      BY <2>1
    <3>5. (\A i, j \in 1..n : p[i] = p[j] => i = j) => \A j \in 1..Len(g) : g[j] # e
      <4> SUFFICES ASSUME \A i, j \in 1..n : p[i] = p[j] => i = j, NEW j \in 1..Len(g), g[j] = e
                   PROVE  FALSE
        OBVIOUS
      <4>1. PICK i \in 1..k : g[j] = p[i]
        BY <3>4
      <4>2. i \in 1..n /\ i # k + 1
        BY <1>3, <2>1
      <4> QED
        BY <2>1, <4>1, <4>2
    <3> HIDE DEF g, e
    <3>6. \A i \in 1..k : i \in 1..(k + 1)
      BY <2>1
    <3>7. Len(Append(g, e)) <= k + 1
      BY <2>1, <2>2, <3>1 DEF g
    <3>8. \A j \in 1..Len(Append(g, e)) : \E i \in 1..(k + 1) : Append(g, e)[j] = p[i]
      <4> SUFFICES ASSUME NEW j \in 1..(Len(g) + 1)
                   PROVE  \E i \in 1..(k + 1) : Append(g, e)[j] = p[i]
        BY <3>1
      <4>1. CASE j \in 1..Len(g)
        BY <3>1, <3>4, <3>6, <4>1
      <4>2. CASE j = Len(g) + 1
        <5>1. Append(g, e)[j] = p[k + 1] /\ k + 1 \in 1..(k + 1)
          BY <2>1, <3>1, <4>2 DEF e
        <5> QED
          BY <5>1
      <4> QED
        BY <3>3, <4>1, <4>2
    <3>9. (\A i, j \in 1..n : p[i] = p[j] => i = j) =>
            \A i, j \in 1..Len(Append(g, e)) : Append(g, e)[i] = Append(g, e)[j] => i = j
      <4> SUFFICES ASSUME \A i, j \in 1..n : p[i] = p[j] => i = j,
                          NEW i \in 1..(Len(g) + 1), NEW j \in 1..(Len(g) + 1),
                          Append(g, e)[i] = Append(g, e)[j]
                   PROVE  i = j
        BY <3>1
      <4>1. \A a, b \in 1..Len(g) : g[a] = g[b] => a = b
        BY <2>1 DEF g
      <4> QED
        BY <3>1, <3>3, <3>5, <4>1
    <3>10. From(k + 1)
      BY <3>2, <3>7, <3>8, <3>9
    <3> QED
      BY <2>0, <3>10
  <2> QED
    BY <2>4, <2>5
<1>6. 0..n \subseteq T
  <2> HIDE DEF T, n
  <2> QED
    BY <1>3, <1>4, <1>5, NumberInduction
<1>7. From(n)
  BY <1>3, <1>6
<1>8. Only(p, S) = f[n] /\ f[n] \in M
  BY <1>2, <1>3
<1> QED
  BY <1>7, <1>8 DEF Sifted

-----------------------------------------------------------------------------
(* The ranges of the variables. *)

Partial(V) == UNION {[D -> V] : D \in SUBSET Nat}

Held == [slot : SlotIds, sequence : Nat]
Ring == [restarts : Nat, count : Nat, sequence : Nat, held : SUBSET Held, next : Nat, active : BOOLEAN]
OpenKind == [kind : {"Open"}, session : Nat, restarts : Nat, count : Nat]
CloseKind == [kind : {"Close"}, session : Nat]
ActiveKind == [kind : {"SetActive"}, session : Nat, active : BOOLEAN]
ReleaseKind == [kind : {"ReleaseFrame"}, session : Nat, slot : SlotIds, sequence : Nat]
Requests == OpenKind \cup CloseKind \cup ActiveKind \cup ReleaseKind
FrameKind == [kind : {"FrameReady"}, session : Nat, sequence : Nat, slot : SlotIds]
FailedKind == [kind : {"Failed"}, session : Nat, error : {"Crashed"} \cup OpenErrors]
Events == FrameKind \cup FailedKind
Worker == [known : BOOLEAN, alive : BOOLEAN, inbox : Seq(Requests), outbox : Seq(Events), hosted : Partial(Ring)]
Playing ==
  [overlay : Overlays, generation : Nat, runtime : Kinds, rest : Seq(Kinds), restarts : 0..MaxRestarts,
   relaunched : BOOLEAN, first : BOOLEAN, last : Nat, memory : [SlotIds -> Nat]]
Frame == [of : Nat, sequence : Nat, drawn : Nat, relaunched : BOOLEAN]
MediaType ==
  [indexed : Nat, staging : BOOLEAN, sessions : [Overlays -> Nat], parked : Seq(Overlays),
   frames : [Overlays -> Frame], live : Partial(Playing), workers : [Kinds -> Worker],
   pending : SUBSET Overlays, opened : Nat, astray : SUBSET Overlays]

LEMMA PartialIs ==
  ASSUME NEW V, NEW f
  PROVE  f \in Partial(V) <=>
           /\ f = [x \in DOMAIN f |-> f[x]]
           /\ DOMAIN f \subseteq Nat /\ \A x \in DOMAIN f : f[x] \in V
<1>1. ASSUME f \in Partial(V)
      PROVE  f = [x \in DOMAIN f |-> f[x]] /\ DOMAIN f \subseteq Nat /\ \A x \in DOMAIN f : f[x] \in V
  <2>1. PICK D \in SUBSET Nat : f \in [D -> V]
    BY <1>1 DEF Partial
  <2> QED
    BY <2>1
<1>2. ASSUME f = [x \in DOMAIN f |-> f[x]], DOMAIN f \subseteq Nat, \A x \in DOMAIN f : f[x] \in V
      PROVE  f \in Partial(V)
  <2>1. f \in [DOMAIN f -> V]
    BY <1>2
  <2> QED
    BY <1>2, <2>1 DEF Partial
<1> QED
  BY <1>1, <1>2

LEMMA NobodyIs == \A V : Nobody \in Partial(V) /\ DOMAIN Nobody = {}
<1> SUFFICES ASSUME NEW V PROVE Nobody \in Partial(V) /\ DOMAIN Nobody = {}
  OBVIOUS
<1>1. Nobody \in [{} -> V] /\ DOMAIN Nobody = {}
  BY DEF Nobody
<1> QED
  BY <1>1 DEF Partial

LEMMA WithIs ==
  ASSUME NEW V, NEW f \in Partial(V), NEW x \in Nat, NEW v \in V
  PROVE  /\ With(f, x, v) \in Partial(V)
         /\ DOMAIN With(f, x, v) = DOMAIN f \cup {x}
         /\ With(f, x, v)[x] = v
         /\ \A y \in DOMAIN f : y # x => With(f, x, v)[y] = f[y]
<1>1. DOMAIN f \subseteq Nat /\ \A y \in DOMAIN f : f[y] \in V
  BY PartialIs
<1> DEFINE g == With(f, x, v)
<1>2. g \in [DOMAIN f \cup {x} -> V] /\ DOMAIN f \cup {x} \in SUBSET Nat
  BY <1>1 DEF With
<1>3. g \in Partial(V)
  BY <1>2 DEF Partial
<1> QED
  BY <1>2, <1>3 DEF With

LEMMA WithoutIs ==
  ASSUME NEW V, NEW f \in Partial(V), NEW S
  PROVE  /\ Without(f, S) \in Partial(V)
         /\ DOMAIN Without(f, S) = DOMAIN f \ S
         /\ \A y \in DOMAIN f \ S : Without(f, S)[y] = f[y]
<1>1. DOMAIN f \subseteq Nat /\ \A y \in DOMAIN f : f[y] \in V
  BY PartialIs
<1> DEFINE g == Without(f, S)
<1>2. g \in [DOMAIN f \ S -> V] /\ DOMAIN f \ S \in SUBSET Nat
  BY <1>1 DEF Without
<1>3. g \in Partial(V)
  BY <1>2 DEF Partial
<1> QED
  BY <1>2, <1>3 DEF Without

LEMMA ChangedIs ==
  ASSUME NEW V, NEW f \in Partial(V), NEW x \in DOMAIN f, NEW v \in V
  PROVE  /\ [f EXCEPT ![x] = v] \in Partial(V)
         /\ DOMAIN [f EXCEPT ![x] = v] = DOMAIN f
         /\ [f EXCEPT ![x] = v][x] = v
         /\ \A y \in DOMAIN f : y # x => [f EXCEPT ![x] = v][y] = f[y]
<1>1. DOMAIN f \subseteq Nat /\ (\A y \in DOMAIN f : f[y] \in V) /\ f = [y \in DOMAIN f |-> f[y]]
  BY PartialIs
<1>2. [f EXCEPT ![x] = v] \in [DOMAIN f -> V] /\ DOMAIN f \in SUBSET Nat
  BY <1>1
<1>3. [f EXCEPT ![x] = v] \in Partial(V)
  BY <1>2 DEF Partial
<1> QED
  BY <1>2, <1>3

(* A worker, and what may be changed of it. *)
LEMMA WorkerIs ==
  ASSUME NEW w \in Worker
  PROVE  /\ w.known \in BOOLEAN /\ w.alive \in BOOLEAN /\ w.inbox \in Seq(Requests) /\ w.outbox \in Seq(Events)
         /\ w.hosted \in Partial(Ring)
BY DEF Worker

LEMMA NoWorkerIs ==
  /\ NoWorker \in Worker /\ NoWorker.known = FALSE /\ NoWorker.alive = FALSE
  /\ NoWorker.inbox = <<>> /\ NoWorker.outbox = <<>> /\ NoWorker.hosted = Nobody
  /\ Spawned \in Worker /\ Spawned.known = TRUE /\ Spawned.alive = TRUE
  /\ Spawned.inbox = <<>> /\ Spawned.outbox = <<>> /\ Spawned.hosted = Nobody
<1>1. <<>> \in Seq(Requests) /\ <<>> \in Seq(Events) /\ Nobody \in Partial(Ring)
  BY NobodyIs, EmptySeq
<1>2. NoWorker \in Worker
  BY <1>1 DEF NoWorker, Worker
<1>3. /\ NoWorker.known = FALSE /\ NoWorker.alive = FALSE
      /\ NoWorker.inbox = <<>> /\ NoWorker.outbox = <<>> /\ NoWorker.hosted = Nobody
  BY DEF NoWorker
<1>4. Spawned \in Worker
  BY <1>2 DEF Spawned, Worker
<1>5. /\ Spawned.known = TRUE /\ Spawned.alive = TRUE /\ Spawned.inbox = NoWorker.inbox
      /\ Spawned.outbox = NoWorker.outbox /\ Spawned.hosted = NoWorker.hosted
  BY <1>2 DEF Spawned, Worker
<1> QED
  BY <1>2, <1>3, <1>4, <1>5

LEMMA InboxIs ==
  ASSUME NEW w \in Worker, NEW q \in Seq(Requests)
  PROVE  LET n == [w EXCEPT !.inbox = q] IN
         /\ n \in Worker /\ n.inbox = q
         /\ n.known = w.known /\ n.alive = w.alive /\ n.outbox = w.outbox /\ n.hosted = w.hosted
BY DEF Worker

LEMMA OutboxIs ==
  ASSUME NEW w \in Worker, NEW q \in Seq(Events)
  PROVE  LET n == [w EXCEPT !.outbox = q] IN
         /\ n \in Worker /\ n.outbox = q
         /\ n.known = w.known /\ n.alive = w.alive /\ n.inbox = w.inbox /\ n.hosted = w.hosted
BY DEF Worker

LEMMA HostedIs ==
  ASSUME NEW w \in Worker, NEW h \in Partial(Ring)
  PROVE  LET n == [w EXCEPT !.hosted = h] IN
         /\ n \in Worker /\ n.hosted = h
         /\ n.known = w.known /\ n.alive = w.alive /\ n.inbox = w.inbox /\ n.outbox = w.outbox
BY DEF Worker

(* A worker's end of a ring. *)
LEMMA RingIs ==
  ASSUME NEW at \in Ring
  PROVE  /\ at.restarts \in Nat /\ at.count \in Nat /\ at.sequence \in Nat /\ at.held \in SUBSET Held
         /\ at.next \in Nat /\ at.active \in BOOLEAN
BY DEF Ring

LEMMA HeldIs ==
  /\ \A h \in Held : h.slot \in SlotIds /\ h.sequence \in Nat
  /\ \A h, k \in Held : h.slot = k.slot /\ h.sequence = k.sequence => h = k
  /\ \A a \in SlotIds, n \in Nat :
       /\ [slot |-> a, sequence |-> n] \in Held
       /\ [slot |-> a, sequence |-> n].slot = a /\ [slot |-> a, sequence |-> n].sequence = n
BY DEF Held

LEMMA AttachedIs ==
  ASSUME NEW restarts \in Nat, NEW count \in Nat
  PROVE  LET at == Attached(restarts, count) IN
         /\ at \in Ring /\ at.restarts = restarts /\ at.count = count /\ at.sequence = 0 /\ at.held = {}
         /\ at.active = TRUE
BY DEF Attached, Ring

LEMMA ReleasedIs ==
  ASSUME NEW at \in Ring, NEW slot, NEW sequence
  PROVE  LET n == Released(at, slot, sequence) IN
         /\ n \in Ring /\ n.held = at.held \ {[slot |-> slot, sequence |-> sequence]}
         /\ n.restarts = at.restarts /\ n.count = at.count /\ n.sequence = at.sequence /\ n.active = at.active
<1> DEFINE held == at.held \ {[slot |-> slot, sequence |-> sequence]}
<1>1. held \in SUBSET Held
  BY RingIs
<1>2. Released(at, slot, sequence) = [at EXCEPT !.held = held]
  BY DEF Released
<1> HIDE DEF held
<1>3. [at EXCEPT !.held = held] \in Ring /\ [at EXCEPT !.held = held].held = held
  BY <1>1 DEF Ring
<1>4. LET n == [at EXCEPT !.held = held] IN
        n.restarts = at.restarts /\ n.count = at.count /\ n.sequence = at.sequence /\ n.active = at.active
  BY DEF Ring
<1> QED
  BY <1>2, <1>3, <1>4 DEF held

LEMMA ActiveIs ==
  ASSUME NEW at \in Ring, NEW b \in BOOLEAN
  PROVE  LET n == [at EXCEPT !.active = b] IN
         /\ n \in Ring /\ n.active = b
         /\ n.restarts = at.restarts /\ n.count = at.count /\ n.sequence = at.sequence /\ n.held = at.held
BY DEF Ring

(* A session. *)
LEMMA PlayingIs ==
  ASSUME NEW x \in Playing
  PROVE  /\ x.overlay \in Overlays /\ x.generation \in Nat /\ x.runtime \in Kinds /\ x.rest \in Seq(Kinds)
         /\ x.restarts \in 0..MaxRestarts /\ x.restarts \in Nat
         /\ x.relaunched \in BOOLEAN /\ x.first \in BOOLEAN /\ x.last \in Nat
         /\ x.memory \in [SlotIds -> Nat]
<1>1. \A n \in 0..MaxRestarts : n \in Nat
  BY MediaAssumption
<1> QED
  BY <1>1 DEF Playing

LEMMA SessionIs ==
  ASSUME NEW o \in Overlays, NEW g \in Nat, NEW r \in Kinds, NEW rest \in Seq(Kinds), NEW restarts \in 0..MaxRestarts,
         NEW relaunched \in BOOLEAN
  PROVE  LET x == Session(o, g, r, rest, restarts, relaunched) IN
         /\ x \in Playing
         /\ x.overlay = o /\ x.generation = g /\ x.runtime = r /\ x.rest = rest /\ x.restarts = restarts
         /\ x.relaunched = relaunched /\ x.last = 0
<1>1. [k \in SlotIds |-> Zeroes] \in [SlotIds -> Nat]
  BY DEF Zeroes
<1> QED
  BY <1>1 DEF Session, Playing

LEMMA HeardIs ==
  ASSUME NEW x \in Playing, NEW n \in Nat
  PROVE  LET y == [x EXCEPT !.first = TRUE, !.last = n] IN
         /\ y \in Playing /\ y.last = n
         /\ y.overlay = x.overlay /\ y.generation = x.generation /\ y.runtime = x.runtime /\ y.rest = x.rest
         /\ y.restarts = x.restarts /\ y.relaunched = x.relaunched /\ y.memory = x.memory
BY DEF Playing

LEMMA MemoryIs ==
  ASSUME NEW x \in Playing, NEW memory \in [SlotIds -> Nat]
  PROVE  LET y == [x EXCEPT !.memory = memory] IN
         /\ y \in Playing /\ y.memory = memory /\ y.last = x.last
         /\ y.overlay = x.overlay /\ y.generation = x.generation /\ y.runtime = x.runtime /\ y.rest = x.rest
         /\ y.restarts = x.restarts /\ y.relaunched = x.relaunched
BY DEF Playing

(* What a handler may change. *)
LEMMA MediaIs ==
  ASSUME NEW m \in MediaType
  PROVE  /\ m.indexed \in Nat /\ m.staging \in BOOLEAN
         /\ m.sessions \in [Overlays -> Nat] /\ m.parked \in Seq(Overlays)
         /\ m.frames \in [Overlays -> Frame] /\ m.live \in Partial(Playing) /\ m.workers \in [Kinds -> Worker]
         /\ m.pending \in SUBSET Overlays /\ m.opened \in Nat /\ m.astray \in SUBSET Overlays
BY DEF MediaType

(* The coordinator, what was reported and the numbers given. *)
Alike(m, n) ==
  /\ n.indexed = m.indexed /\ n.sessions = m.sessions /\ n.parked = m.parked /\ n.frames = m.frames
  /\ n.pending = m.pending /\ n.opened = m.opened /\ n.astray = m.astray

LEMMA LiveWorkersIs ==
  ASSUME NEW m \in MediaType, NEW l \in Partial(Playing), NEW w \in [Kinds -> Worker]
  PROVE  LET n == [m EXCEPT !.live = l, !.workers = w] IN
         n \in MediaType /\ n.live = l /\ n.workers = w /\ Alike(m, n)
BY DEF MediaType, Alike

LEMMA LiveIs ==
  ASSUME NEW m \in MediaType, NEW l \in Partial(Playing)
  PROVE  LET n == [m EXCEPT !.live = l] IN
         n \in MediaType /\ n.live = l /\ n.workers = m.workers /\ Alike(m, n)
BY DEF MediaType, Alike

LEMMA WorkersAre ==
  ASSUME NEW m \in MediaType, NEW w \in [Kinds -> Worker]
  PROVE  LET n == [m EXCEPT !.workers = w] IN
         n \in MediaType /\ n.live = m.live /\ n.workers = w /\ Alike(m, n)
BY DEF MediaType, Alike

-----------------------------------------------------------------------------
(* What each operator of the supervisor does. *)

Posted(w, request) == [w EXCEPT !.inbox = Append(w.inbox, request)]

LEMMA PostedIs ==
  ASSUME NEW w \in Worker, NEW request \in Requests
  PROVE  LET n == Posted(w, request) IN
         /\ n \in Worker /\ n.inbox = Append(w.inbox, request)
         /\ n.known = w.known /\ n.alive = w.alive /\ n.outbox = w.outbox /\ n.hosted = w.hosted
<1> DEFINE q == Append(w.inbox, request)
<1>1. q \in Seq(Requests)
  BY WorkerIs
<1>2. Posted(w, request) = [w EXCEPT !.inbox = q]
  BY DEF Posted
<1> HIDE DEF q
<1>3. LET n == [w EXCEPT !.inbox = q] IN
      /\ n \in Worker /\ n.inbox = q
      /\ n.known = w.known /\ n.alive = w.alive /\ n.outbox = w.outbox /\ n.hosted = w.hosted
  BY <1>1, InboxIs
<1> QED
  BY <1>2, <1>3 DEF q

LEMMA KindsAre == Kinds # {} /\ Head(Runtimes) \in Kinds /\ Runtimes \in Seq(Kinds)
<1>1. Runtimes \in Seq(Kinds) /\ Runtimes # <<>>
  BY MediaAssumption
<1>2. Head(Runtimes) \in Kinds
  BY <1>1, HeadTailProperties
<1> QED
  BY <1>1, <1>2

LEMMA RequestsAre ==
  ASSUME NEW s \in Nat
  PROVE  /\ CloseRequest(s) \in Requests /\ CloseRequest(s).kind = "Close" /\ CloseRequest(s).session = s
         /\ \A b \in BOOLEAN :
              /\ ActiveRequest(s, b) \in Requests /\ ActiveRequest(s, b).kind = "SetActive"
              /\ ActiveRequest(s, b).session = s /\ ActiveRequest(s, b).active = b
         /\ \A x \in Playing :
              /\ OpenRequest(s, x) \in Requests /\ OpenRequest(s, x).kind = "Open"
              /\ OpenRequest(s, x).session = s /\ OpenRequest(s, x).restarts = x.restarts
              /\ OpenRequest(s, x).count \in 0..FrameCount[x.overlay]
<1>1. CloseRequest(s) \in CloseKind /\ CloseRequest(s).kind = "Close" /\ CloseRequest(s).session = s
  BY DEF CloseRequest, CloseKind
<1>2. ASSUME NEW b \in BOOLEAN
      PROVE  /\ ActiveRequest(s, b) \in ActiveKind /\ ActiveRequest(s, b).kind = "SetActive"
             /\ ActiveRequest(s, b).session = s /\ ActiveRequest(s, b).active = b
  BY DEF ActiveRequest, ActiveKind
<1>3. ASSUME NEW x \in Playing
      PROVE  /\ OpenRequest(s, x) \in OpenKind /\ OpenRequest(s, x).kind = "Open"
             /\ OpenRequest(s, x).session = s /\ OpenRequest(s, x).restarts = x.restarts
             /\ OpenRequest(s, x).count \in 0..FrameCount[x.overlay]
  <2> DEFINE count == IF x.overlay \in silent THEN 0
                      ELSE IF x.relaunched \/ x.runtime # Head(Runtimes) THEN 1 ELSE FrameCount[x.overlay]
  <2>1. FrameCount[x.overlay] \in Nat \ {0} /\ x.restarts \in Nat
    BY PlayingIs, MediaAssumption
  <2>2. count \in 0..FrameCount[x.overlay] /\ count \in Nat
    BY <2>1
  <2>3. OpenRequest(s, x) = [kind |-> "Open", session |-> s, restarts |-> x.restarts, count |-> count]
    BY DEF OpenRequest
  <2> HIDE DEF count
  <2> QED
    BY <2>1, <2>2, <2>3 DEF OpenKind
<1> QED
  BY <1>1, <1>2, <1>3 DEF Requests

LEMMA ReleaseIs ==
  ASSUME NEW f \in FrameKind
  PROVE  LET a == ReleaseRequest(f) IN
         /\ a \in Requests /\ a.kind = "ReleaseFrame" /\ a.session = f.session /\ a.slot = f.slot
         /\ a.sequence = f.sequence
         /\ a = [kind |-> "ReleaseFrame", session |-> f.session, slot |-> f.slot, sequence |-> f.sequence]
<1>1. f.session \in Nat /\ f.slot \in SlotIds /\ f.sequence \in Nat
  BY DEF FrameKind
<1> QED
  BY <1>1 DEF ReleaseRequest, ReleaseKind, Requests

LEMMA SendIs ==
  ASSUME NEW m \in MediaType, NEW r \in Kinds, NEW request \in Requests
  PROVE  LET n == Send(m, r, request) IN
         /\ n \in MediaType /\ n.live = m.live /\ Alike(m, n)
         /\ \A x \in Kinds : n.workers[x] =
              IF x = r /\ m.workers[r].alive THEN Posted(m.workers[r], request) ELSE m.workers[x]
<1>1. m.workers \in [Kinds -> Worker] /\ m.workers[r] \in Worker
  BY MediaIs
<1>2. CASE ~m.workers[r].alive
  BY <1>2 DEF Send, Alike
<1>3. CASE m.workers[r].alive
  <2> DEFINE p == Posted(m.workers[r], request)
             w == [m.workers EXCEPT ![r] = p]
  <2>1. p \in Worker
    BY <1>1, PostedIs
  <2>2. Send(m, r, request) = [m EXCEPT !.workers = w]
    BY <1>3 DEF Send, Posted
  <2> HIDE DEF p
  <2>3. w \in [Kinds -> Worker] /\ \A x \in Kinds : w[x] = IF x = r THEN p ELSE m.workers[x]
    BY <1>1, <2>1
  <2> HIDE DEF w
  <2>4. LET n == [m EXCEPT !.workers = w] IN
        n \in MediaType /\ n.live = m.live /\ n.workers = w /\ Alike(m, n)
    BY <2>3, WorkersAre
  <2> QED
    BY <1>3, <2>2, <2>3, <2>4 DEF p
<1> QED
  BY <1>2, <1>3

(* Workers that do not listen are gone. *)
Dropped(m, n) ==
  /\ n \in MediaType /\ n.live = m.live /\ Alike(m, n)
  /\ \A x \in Kinds : n.workers[x] = m.workers[x] \/ (n.workers[x] = NoWorker /\ ~m.workers[x].alive)

LEMMA RefusedIs ==
  ASSUME NEW m \in MediaType, NEW S, NEW broken
  PROVE  Dropped(m, Refused(m, S, broken))
<1> DEFINE w == [x \in Kinds |-> IF x \in S \ broken /\ ~m.workers[x].alive THEN NoWorker ELSE m.workers[x]]
<1>1. w \in [Kinds -> Worker]
  BY MediaIs, NoWorkerIs
<1>2. Refused(m, S, broken) = [m EXCEPT !.workers = w]
  BY DEF Refused
<1>3. \A x \in Kinds : w[x] = m.workers[x] \/ (w[x] = NoWorker /\ ~m.workers[x].alive)
  OBVIOUS
<1> HIDE DEF w
<1>4. LET n == [m EXCEPT !.workers = w] IN
      n \in MediaType /\ n.live = m.live /\ n.workers = w /\ Alike(m, n)
  BY <1>1, WorkersAre
<1> QED
  BY <1>2, <1>3, <1>4 DEF Dropped

Hired(w) == IF w.known THEN w ELSE Spawned

LEMMA LaunchedIs ==
  ASSUME NEW m \in MediaType, NEW s \in Nat, NEW x \in Playing
  PROVE  LET n == Launched(m, s, x) IN
         /\ n \in MediaType /\ n.live = With(m.live, s, x) /\ Alike(m, n)
         /\ \A r \in Kinds : n.workers[r] =
              IF r = x.runtime THEN Posted(Hired(m.workers[r]), OpenRequest(s, x)) ELSE m.workers[r]
<1> DEFINE r == x.runtime
           p == Posted(Hired(m.workers[r]), OpenRequest(s, x))
           w == [m.workers EXCEPT ![r] = p]
           l == With(m.live, s, x)
<1>1. m.workers \in [Kinds -> Worker] /\ r \in Kinds /\ m.live \in Partial(Playing)
  BY MediaIs, PlayingIs
<1>2. Hired(m.workers[r]) \in Worker /\ OpenRequest(s, x) \in Requests
  BY <1>1, NoWorkerIs, RequestsAre DEF Hired
<1>3. p \in Worker
  BY <1>2, PostedIs
<1>4. l \in Partial(Playing)
  BY <1>1, WithIs
<1>5. Launched(m, s, x) = [m EXCEPT !.live = l, !.workers = w]
  BY DEF Launched, Posted, Hired
<1> HIDE DEF p
<1>6. w \in [Kinds -> Worker] /\ \A y \in Kinds : w[y] = IF y = r THEN p ELSE m.workers[y]
  BY <1>1, <1>3
<1> HIDE DEF w, l
<1>7. LET n == [m EXCEPT !.live = l, !.workers = w] IN
      n \in MediaType /\ n.live = l /\ n.workers = w /\ Alike(m, n)
  BY <1>4, <1>6, LiveWorkersIs
<1> QED
  BY <1>5, <1>6, <1>7 DEF l, p

LEMMA ClosedIs ==
  ASSUME NEW m \in MediaType, NEW s \in Nat
  PROVE  LET n == Closed(m, s) IN
         /\ n \in MediaType /\ Alike(m, n)
         /\ s \notin DOMAIN m.live => n = m
         /\ s \in DOMAIN m.live =>
              /\ n.live = Without(m.live, {s})
              /\ n.workers = Send(m, m.live[s].runtime, CloseRequest(s)).workers
<1>1. CASE s \notin DOMAIN m.live
  BY <1>1 DEF Closed, Alike
<1>2. CASE s \in DOMAIN m.live
  <2> DEFINE k == Send(m, m.live[s].runtime, CloseRequest(s))
             l == Without(m.live, {s})
  <2>1. m.live \in Partial(Playing) /\ m.live[s] \in Playing
    BY <1>2, MediaIs, PartialIs
  <2>2. k \in MediaType /\ k.live = m.live /\ Alike(m, k)
    BY <2>1, PlayingIs, RequestsAre, SendIs, SMTT(30)
  <2>3. l \in Partial(Playing)
    BY <2>1, WithoutIs
  <2>4. Closed(m, s) = [k EXCEPT !.live = l]
    BY <1>2, <2>2 DEF Closed
  <2> HIDE DEF k, l
  <2>5. LET n == [k EXCEPT !.live = l] IN
        n \in MediaType /\ n.live = l /\ n.workers = k.workers /\ Alike(k, n)
    BY <2>2, <2>3, LiveIs
  <2>6. Alike(m, [k EXCEPT !.live = l])
    BY <2>2, <2>5 DEF Alike
  <2> QED
    BY <1>2, <2>4, <2>5, <2>6 DEF k, l
<1> QED
  BY <1>1, <1>2

LEMMA DroppedSelf == \A m \in MediaType : Dropped(m, m)
BY DEF Dropped, Alike

LEMMA PendingIs ==
  ASSUME NEW m \in MediaType, NEW P \in SUBSET Overlays
  PROVE  LET n == [m EXCEPT !.pending = P] IN
         /\ n \in MediaType /\ n.live = m.live /\ n.workers = m.workers /\ n.pending = P
         /\ n.indexed = m.indexed /\ n.sessions = m.sessions /\ n.parked = m.parked /\ n.frames = m.frames
         /\ n.opened = m.opened /\ n.astray = m.astray
BY DEF MediaType

LEMMA UnopenedIs ==
  ASSUME NEW m \in MediaType, NEW P \in SUBSET Overlays
  PROVE  LET n == [m EXCEPT !.astray = P] IN
         /\ n \in MediaType /\ n.live = m.live /\ n.workers = m.workers /\ n.astray = P
         /\ n.indexed = m.indexed /\ n.sessions = m.sessions /\ n.parked = m.parked /\ n.frames = m.frames
         /\ n.opened = m.opened /\ n.pending = m.pending
BY DEF MediaType

GaveUp(t, o) == [t EXCEPT !.pending = t.pending \cup {o}]

(* The two ends of a launch. *)
Ends(t, n, s, o, g, relaunched) ==
  \/ n = GaveUp(t, o)
  \/ \E r \in Kinds, rest \in Seq(Kinds), restarts \in 0..MaxRestarts :
       /\ t.workers[r].known => t.workers[r].alive
       /\ ~relaunched => restarts = 0
       /\ n = Launched(t, s, Session(o, g, r, rest, restarts, relaunched))
Outcome(m, n, s, o, g, relaunched) ==
  \E t \in MediaType : Dropped(m, t) /\ Ends(t, n, s, o, g, relaunched)

LEMMA FellBackIs ==
  ASSUME NEW m \in MediaType, NEW s \in Nat, NEW o \in Overlays, NEW g \in Nat, NEW rest \in Seq(Kinds),
         NEW relaunched \in BOOLEAN, NEW broken
  PROVE  Outcome(m, FellBack(m, s, o, g, rest, relaunched, broken), s, o, g, relaunched)
<1> DEFINE fits == {i \in DOMAIN rest : Launches(m, rest[i], broken)}
           i == IF fits = {} THEN Len(rest) + 1 ELSE CHOOSE k \in fits : \A j \in fits : k <= j
           t == Refused(m, {rest[k] : k \in 1..(i - 1)}, broken)
           n == FellBack(m, s, o, g, rest, relaunched, broken)
<1>1. Dropped(m, t)
  BY RefusedIs
<1>2. t \in MediaType
  BY <1>1 DEF Dropped
<1>3. CASE fits = {}
  <2>1. n = GaveUp(t, o)
    BY <1>3 DEF FellBack, GaveUp
  <2> HIDE DEF t, n
  <2>2. Ends(t, n, s, o, g, relaunched)
    BY <2>1 DEF Ends
  <2>3. Outcome(m, n, s, o, g, relaunched)
    BY <1>1, <1>2, <2>2 DEF Outcome
  <2> QED
    BY <2>3 DEF n
<1>4. CASE fits # {}
  <2>1. fits \in SUBSET Nat /\ DOMAIN rest = 1..Len(rest)
    OBVIOUS
  <2>2. \E k \in fits : \A j \in fits : k <= j
    <3> HIDE DEF fits
    <3> QED
      BY <1>4, <2>1, LeastOf
  <2>3. i \in fits
    <3>1. (CHOOSE k \in fits : \A j \in fits : k <= j) \in fits
      <4> HIDE DEF fits
      <4> QED
        BY <2>2
    <3> QED
      BY <1>4, <3>1
  <2>4. n = Launched(t, s, Session(o, g, rest[i], SubSeq(rest, i + 1, Len(rest)), 0, relaunched))
    BY <1>4, ZenonT(60) DEF FellBack
  <2>5. i \in 1..Len(rest) /\ rest[i] \in Kinds /\ (m.workers[rest[i]].known => m.workers[rest[i]].alive)
    BY <2>1, <2>3, ElementOfSeq, ZenonT(60) DEF Launches
  <2> HIDE DEF i, fits
  <2> DEFINE left == SubSeq(rest, i + 1, Len(rest))
  <2>6. left \in Seq(Kinds)
    BY <2>5
  <2>7. t.workers[rest[i]].known => t.workers[rest[i]].alive
    <3> HIDE DEF t
    <3> QED
      BY <1>1, <2>5, NoWorkerIs DEF Dropped
  <2>8. 0 \in 0..MaxRestarts
    BY MediaAssumption
  <2> HIDE DEF t, n, left
  <2>9. n = Launched(t, s, Session(o, g, rest[i], left, 0, relaunched))
    BY <2>4 DEF left
  <2>10. \E r \in Kinds, rem \in Seq(Kinds), restarts \in 0..MaxRestarts :
            /\ t.workers[r].known => t.workers[r].alive
            /\ ~relaunched => restarts = 0
            /\ n = Launched(t, s, Session(o, g, r, rem, restarts, relaunched))
    BY <2>5, <2>6, <2>7, <2>8, <2>9
  <2>11. Ends(t, n, s, o, g, relaunched)
    BY <2>10 DEF Ends
  <2>12. Outcome(m, n, s, o, g, relaunched)
    BY <1>1, <1>2, <2>11 DEF Outcome
  <2> QED
    BY <2>12 DEF n
<1> QED
  BY <1>3, <1>4

LEMMA RecoveredIs ==
  ASSUME NEW m \in MediaType, NEW s \in DOMAIN m.live, NEW error, NEW broken
  PROVE  Outcome(Closed(m, s), Recovered(m, s, error, broken), s, m.live[s].overlay, m.live[s].generation, TRUE)
<1> DEFINE was == m.live[s]
           closed == Closed(m, s)
           retry == error \in Transient /\ was.restarts < MaxRestarts
           left == IF retry THEN Refused(closed, {was.runtime}, broken) ELSE closed
           rest == IF error = "PolicyDenied" THEN <<>> ELSE was.rest
           n == Recovered(m, s, error, broken)
<1>1. m.live \in Partial(Playing) /\ was \in Playing /\ s \in Nat
  BY MediaIs, PartialIs
<1>2. was.overlay \in Overlays /\ was.generation \in Nat /\ was.runtime \in Kinds /\ was.rest \in Seq(Kinds)
      /\ was.restarts \in Nat
  BY <1>1, PlayingIs
<1>3. closed \in MediaType
  BY <1>1, ClosedIs
<1>4. CASE retry /\ Launches(closed, was.runtime, broken)
  <2>1. n = Launched(closed, s, Session(was.overlay, was.generation, was.runtime, was.rest,
                                        was.restarts + 1, TRUE))
    <3>1. Restarted(was).restarts = was.restarts + 1 /\ Restarted(was).relaunched = TRUE
      BY <1>1 DEF Restarted, Playing
    <3> QED
      BY <1>4, <3>1 DEF Recovered, Closed
  <2>2. was.restarts + 1 \in 0..MaxRestarts
    BY <1>2, <1>4, MediaAssumption
  <2>3. closed.workers[was.runtime].known => closed.workers[was.runtime].alive
    BY <1>4 DEF Launches
  <2>4. Dropped(closed, closed)
    BY <1>3, DroppedSelf
  <2> DEFINE again == was.restarts + 1
  <2>5. again \in 0..MaxRestarts /\ n = Launched(closed, s, Session(was.overlay, was.generation, was.runtime, was.rest, again, TRUE))
    BY <2>1, <2>2
  <2> HIDE DEF closed, n, again, was
  <2>6. \E r \in Kinds, rem \in Seq(Kinds), restarts \in 0..MaxRestarts :
            /\ closed.workers[r].known => closed.workers[r].alive
            /\ ~TRUE => restarts = 0
            /\ n = Launched(closed, s, Session(was.overlay, was.generation, r, rem, restarts, TRUE))
    BY <1>2, <2>3, <2>5
  <2>7. Outcome(closed, n, s, was.overlay, was.generation, TRUE)
    BY <1>3, <2>4, <2>6 DEF Outcome, Ends
  <2> QED
    BY <2>7 DEF closed, n, was
<1>5. CASE ~(retry /\ Launches(closed, was.runtime, broken))
  <2>1. n = FellBack(left, s, was.overlay, was.generation, rest, TRUE, broken)
    BY <1>5 DEF Recovered, Closed
  <2>2. Dropped(closed, left)
    <3> HIDE DEF closed
    <3> QED
      BY <1>3, DroppedSelf, RefusedIs
  <2>3. rest \in Seq(Kinds)
    BY <1>2, EmptySeq
  <2> HIDE DEF closed, n, was, rest, left
  <2>4. left \in MediaType
    BY <2>2 DEF Dropped
  <2>5. Outcome(left, n, s, was.overlay, was.generation, TRUE)
    BY <1>1, <1>2, <2>1, <2>3, <2>4, FellBackIs
  <2>6. \A t : Dropped(left, t) => Dropped(closed, t)
    BY <2>2 DEF Dropped, Alike
  <2>7. Outcome(closed, n, s, was.overlay, was.generation, TRUE)
    BY <2>5, <2>6 DEF Outcome
  <2> QED
    BY <2>7 DEF closed, n, was
<1> QED
  BY <1>4, <1>5

Numbers(m, o) == [m EXCEPT !.opened = m.opened + 1, !.sessions[o] = m.opened + 1]

LEMMA NumbersIs ==
  ASSUME NEW m \in MediaType, NEW o \in Overlays
  PROVE  LET n == Numbers(m, o) IN
         /\ n \in MediaType /\ n.live = m.live /\ n.workers = m.workers
         /\ n.opened = m.opened + 1
         /\ \A p \in Overlays : n.sessions[p] = IF p = o THEN m.opened + 1 ELSE m.sessions[p]
         /\ n.indexed = m.indexed /\ n.parked = m.parked /\ n.frames = m.frames
         /\ n.pending = m.pending /\ n.astray = m.astray
<1> DEFINE s == m.opened + 1
           q == [m.sessions EXCEPT ![o] = s]
<1>1. s \in Nat /\ m.sessions \in [Overlays -> Nat]
  BY MediaIs
<1>2. Numbers(m, o) = [m EXCEPT !.opened = s, !.sessions = q]
  BY DEF Numbers
<1> HIDE DEF s
<1>3. q \in [Overlays -> Nat] /\ \A p \in Overlays : q[p] = IF p = o THEN s ELSE m.sessions[p]
  BY <1>1
<1> HIDE DEF q
<1>4. LET n == [m EXCEPT !.opened = s, !.sessions = q] IN
         /\ n \in MediaType /\ n.live = m.live /\ n.workers = m.workers
         /\ n.opened = s /\ n.sessions = q
         /\ n.indexed = m.indexed /\ n.parked = m.parked /\ n.frames = m.frames
         /\ n.pending = m.pending /\ n.astray = m.astray
  BY <1>1, <1>3 DEF MediaType
<1> QED
  BY <1>2, <1>3, <1>4 DEF s

LEMMA OpenedIs ==
  ASSUME NEW m \in MediaType, NEW o \in Overlays, NEW broken
  PROVE  LET s == m.opened + 1
             n == FellBack(Numbers(m, o), s, o, m.indexed, Runtimes, FALSE, broken) IN
         /\ Outcome(Numbers(m, o), n, s, o, m.indexed, FALSE)
         /\ Opened(m, o, broken) = IF s \in DOMAIN n.live THEN n
                                   ELSE [n EXCEPT !.astray = n.astray \cup {o}]
<1>1. m.opened + 1 \in Nat /\ m.indexed \in Nat
  BY MediaIs
<1>2. Numbers(m, o) \in MediaType
  BY NumbersIs
<1>3. Outcome(Numbers(m, o), FellBack(Numbers(m, o), m.opened + 1, o, m.indexed, Runtimes, FALSE, broken),
              m.opened + 1, o, m.indexed, FALSE)
  BY <1>1, <1>2, FellBackIs, KindsAre
<1>4. LET s == m.opened + 1
          n == FellBack(Numbers(m, o), s, o, m.indexed, Runtimes, FALSE, broken) IN
      Opened(m, o, broken) = IF s \in DOMAIN n.live THEN n ELSE [n EXCEPT !.astray = n.astray \cup {o}]
  BY DEF Opened, Numbers
<1> QED
  BY <1>3, <1>4

Heard(x, n) == [x EXCEPT !.first = TRUE, !.last = n]
Noted(m, f) == [m EXCEPT !.live = [m.live EXCEPT ![f.session] = Heard(m.live[f.session], f.sequence)]]
Shown(m, f) ==
  [of |-> f.session, sequence |-> f.sequence, drawn |-> m.live[f.session].memory[f.slot],
   relaunched |-> m.live[f.session].relaunched]

LEMMA FrameIs ==
  ASSUME NEW f \in FrameKind
  PROVE  f.session \in Nat /\ f.slot \in SlotIds /\ f.sequence \in Nat /\ f.kind = "FrameReady"
BY DEF FrameKind

LEMMA ShownIs ==
  ASSUME NEW m \in MediaType, NEW f \in FrameKind, f.session \in DOMAIN m.live
  PROVE  LET k == Shown(m, f) IN
         /\ k \in Frame /\ k.of = f.session /\ k.sequence = f.sequence
         /\ k.drawn = m.live[f.session].memory[f.slot] /\ k.relaunched = m.live[f.session].relaunched
<1>1. m.live[f.session] \in Playing
  BY MediaIs, PartialIs
<1>2. m.live[f.session].memory[f.slot] \in Nat /\ m.live[f.session].relaunched \in BOOLEAN
  BY <1>1, PlayingIs, FrameIs
<1> QED
  BY <1>2, FrameIs DEF Shown, Frame

LEMMA FramesAre ==
  ASSUME NEW m \in MediaType, NEW F \in [Overlays -> Frame]
  PROVE  LET n == [m EXCEPT !.frames = F] IN
         /\ n \in MediaType /\ n.live = m.live /\ n.workers = m.workers /\ n.frames = F
         /\ n.indexed = m.indexed /\ n.sessions = m.sessions /\ n.parked = m.parked
         /\ n.pending = m.pending /\ n.opened = m.opened /\ n.astray = m.astray
BY DEF MediaType

LEMMA RetainedIs ==
  ASSUME NEW m \in MediaType, NEW f \in FrameKind, f.session \in DOMAIN m.live
  PROVE  LET n == Retained(m, f.session, f) IN
         /\ n \in MediaType /\ n.live = m.live /\ n.workers = m.workers
         /\ \A p \in Overlays : n.frames[p] = m.frames[p] \/ n.frames[p] = Shown(m, f)
         /\ n.indexed = m.indexed /\ n.sessions = m.sessions /\ n.parked = m.parked
         /\ n.pending = m.pending /\ n.opened = m.opened /\ n.astray = m.astray
<1> DEFINE o == m.live[f.session].overlay
           k == Shown(m, f)
           F == [m.frames EXCEPT ![o] = k]
<1>1. Retained(m, f.session, f) = m \/ Retained(m, f.session, f) = [m EXCEPT !.frames = F]
  BY DEF Retained, Shown
<1>2. k \in Frame /\ m.frames \in [Overlays -> Frame]
  BY ShownIs, MediaIs
<1> HIDE DEF k, o
<1>3. F \in [Overlays -> Frame] /\ \A p \in Overlays : F[p] = m.frames[p] \/ F[p] = k
  BY <1>2
<1> HIDE DEF F
<1>4. LET n == [m EXCEPT !.frames = F] IN
         /\ n \in MediaType /\ n.live = m.live /\ n.workers = m.workers /\ n.frames = F
         /\ n.indexed = m.indexed /\ n.sessions = m.sessions /\ n.parked = m.parked
         /\ n.pending = m.pending /\ n.opened = m.opened /\ n.astray = m.astray
  BY <1>3, FramesAre
<1> QED
  BY <1>1, <1>3, <1>4 DEF k

(* A frame that is taken. *)
Took(m, n, r, f) ==
  /\ n \in MediaType
  /\ n.live = [m.live EXCEPT ![f.session] = Heard(m.live[f.session], f.sequence)]
  /\ n.workers = Send(m, r, ReleaseRequest(f)).workers
  /\ \A p \in Overlays : n.frames[p] = m.frames[p] \/ n.frames[p] = Shown(m, f)
  /\ n.indexed = m.indexed /\ n.sessions = m.sessions /\ n.parked = m.parked
  /\ n.pending = m.pending /\ n.opened = m.opened /\ n.astray = m.astray

LEMMA TookIs ==
  ASSUME NEW m \in MediaType, NEW r \in Kinds, NEW f \in FrameKind, f.session \in DOMAIN m.live
  PROVE  Took(m, Retained(Send(Noted(m, f), r, ReleaseRequest(f)), f.session, f), r, f)
<1> DEFINE s == f.session
           x == Heard(m.live[s], f.sequence)
           l == [m.live EXCEPT ![s] = x]
           k == Noted(m, f)
           j == Send(k, r, ReleaseRequest(f))
           n == Retained(j, s, f)
<1>1. m.live \in Partial(Playing) /\ m.live[s] \in Playing /\ m.workers \in [Kinds -> Worker]
  BY MediaIs, PartialIs
<1>2. x \in Playing /\ x.memory = m.live[s].memory /\ x.relaunched = m.live[s].relaunched
  BY <1>1, HeardIs, FrameIs DEF Heard
<1>3. l \in Partial(Playing) /\ DOMAIN l = DOMAIN m.live /\ l[s] = x
  <2> HIDE DEF x
  <2> QED
    BY <1>1, <1>2, ChangedIs
<1>4. k \in MediaType /\ k.live = l /\ k.workers = m.workers /\ Alike(m, k)
  <2>1. k = [m EXCEPT !.live = l]
    BY DEF Noted
  <2> HIDE DEF l, k
  <2> QED
    BY <1>3, <2>1, LiveIs
<1> HIDE DEF k, l
<1>5. /\ j \in MediaType /\ j.live = k.live /\ Alike(k, j)
      /\ \A y \in Kinds : j.workers[y] =
           IF y = r /\ k.workers[r].alive THEN Posted(k.workers[r], ReleaseRequest(f)) ELSE k.workers[y]
  BY <1>4, ReleaseIs, SendIs
<1>6. \A y \in Kinds : Send(m, r, ReleaseRequest(f)).workers[y] =
           IF y = r /\ m.workers[r].alive THEN Posted(m.workers[r], ReleaseRequest(f)) ELSE m.workers[y]
  BY ReleaseIs, SendIs
<1>7. j.workers = Send(m, r, ReleaseRequest(f)).workers
  <2>1. Send(m, r, ReleaseRequest(f)).workers \in [Kinds -> Worker]
    BY ReleaseIs, SendIs, MediaIs
  <2>2. j.workers \in [Kinds -> Worker]
    <3> HIDE DEF j
    <3> QED
      BY <1>5, MediaIs
  <2> HIDE DEF j
  <2>3. \A y \in Kinds : j.workers[y] = Send(m, r, ReleaseRequest(f)).workers[y]
    BY <1>4, <1>5, <1>6
  <2> QED
    BY <2>1, <2>2, <2>3
<1> HIDE DEF j
<1>8. Shown(j, f) = Shown(m, f)
  BY <1>2, <1>3, <1>4, <1>5 DEF Shown
<1>9. s \in DOMAIN j.live
  BY <1>3, <1>4, <1>5
<1>10. /\ n \in MediaType /\ n.live = j.live /\ n.workers = j.workers
       /\ \A p \in Overlays : n.frames[p] = j.frames[p] \/ n.frames[p] = Shown(j, f)
       /\ n.indexed = j.indexed /\ n.sessions = j.sessions /\ n.parked = j.parked
       /\ n.pending = j.pending /\ n.opened = j.opened /\ n.astray = j.astray
  BY <1>5, <1>9, RetainedIs
<1> HIDE DEF n
<1>11. Alike(m, j)
  BY <1>4, <1>5 DEF Alike
<1>12. n.live = [m.live EXCEPT ![f.session] = Heard(m.live[f.session], f.sequence)]
  BY <1>4, <1>5, <1>10 DEF l
<1>13. Took(m, n, r, f)
  BY <1>7, <1>8, <1>10, <1>11, <1>12 DEF Took, Alike
<1> QED
  BY <1>13 DEF n, j, k

LEMMA FrameReadyIs ==
  ASSUME NEW m \in MediaType, NEW r \in Kinds, NEW f \in FrameKind, NEW batch
  PROVE  LET n == FrameReady(m, r, f, batch) IN
         \/ Superseded(f, batch) /\ n = Send(m, r, ReleaseRequest(f))
         \/ ~Superseded(f, batch) /\ n = m
              /\ (f.session \notin DOMAIN m.live
                    \/ (f.session \in DOMAIN m.live /\ m.live[f.session].first
                          /\ f.sequence <= m.live[f.session].last))
         \/ f.session \in DOMAIN m.live /\ Took(m, n, r, f)
              /\ (m.live[f.session].first => ~(f.sequence <= m.live[f.session].last))
<1> DEFINE n == FrameReady(m, r, f, batch)
<1>1. CASE Superseded(f, batch)
  BY <1>1 DEF FrameReady
<1>2. CASE ~Superseded(f, batch)
  <2>1. CASE f.session \notin DOMAIN m.live
    BY <1>2, <2>1 DEF FrameReady
  <2>2. CASE f.session \in DOMAIN m.live /\ m.live[f.session].first /\ f.sequence <= m.live[f.session].last
    BY <1>2, <2>2 DEF FrameReady
  <2>3. CASE f.session \in DOMAIN m.live /\ ~(m.live[f.session].first /\ f.sequence <= m.live[f.session].last)
    <3>1. m.live = [y \in DOMAIN m.live |-> m.live[y]] /\ m.live[f.session] \in Playing
      BY <2>3, MediaIs, PartialIs
    <3>2. Noted(m, f) = [m EXCEPT !.live[f.session].first = TRUE, !.live[f.session].last = f.sequence]
      <4>1. m \in [indexed : Nat, staging : BOOLEAN, sessions : [Overlays -> Nat], parked : Seq(Overlays),
                   frames : [Overlays -> Frame], live : Partial(Playing), workers : [Kinds -> Worker],
                   pending : SUBSET Overlays, opened : Nat, astray : SUBSET Overlays]
        BY DEF MediaType
      <4> QED
        BY <2>3, <3>1, <4>1 DEF Noted, Heard
    <3>3. n = Retained(Send(Noted(m, f), r, ReleaseRequest(f)), f.session, f)
      BY <1>2, <2>3, <3>2 DEF FrameReady
    <3>4. Took(m, n, r, f)
      BY <2>3, <3>3, TookIs
    <3> QED
      BY <2>3, <3>4
  <2> QED
    BY <2>1, <2>2, <2>3
<1> QED
  BY <1>1, <1>2

-----------------------------------------------------------------------------
(* The ring of a session on its first run.  w is a worker, q what it has    *)
(* said that was not yet heard, x the session as the supervisor has it.     *)

About(q, s) == \E i \in 1..Len(q) : q[i].session = s
OpenAt(p, s, i) == p[i].kind = "Open" /\ p[i].session = s
ReleaseAt(p, s, i) == p[i].kind = "ReleaseFrame" /\ p[i].session = s
FrameAt(q, s, i) == q[i].kind = "FrameReady" /\ q[i].session = s
Returns(p, s, h, i) == ReleaseAt(p, s, i) /\ p[i].slot = h.slot /\ p[i].sequence = h.sequence
Announces(q, s, h, i) == FrameAt(q, s, i) /\ q[i].slot = h.slot /\ q[i].sequence = h.sequence

(* No number beyond the frames of the overlay. *)
Within(x, s, w, q) ==
  /\ x.last <= FrameCount[x.overlay]
  /\ \A i \in 1..Len(w.inbox) : OpenAt(w.inbox, s, i) => w.inbox[i].count <= FrameCount[x.overlay]
  /\ s \in DOMAIN w.hosted => w.hosted[s].count <= FrameCount[x.overlay]
  /\ \A i \in 1..Len(q) : FrameAt(q, s, i) => q[i].sequence <= FrameCount[x.overlay]

(* Another runtime knows nothing of it. *)
Unknown(s, w, q) == ~About(w.inbox, s) /\ ~About(q, s) /\ s \notin DOMAIN w.hosted

(* Until its Open is read. *)
Awaited(x, s, w, q) ==
  \A i \in 1..Len(w.inbox) : OpenAt(w.inbox, s, i) =>
    /\ s \notin DOMAIN w.hosted /\ ~About(q, s) /\ x.last = 0
    /\ w.inbox[i].restarts = 0
    /\ \A j \in 1..Len(w.inbox) : OpenAt(w.inbox, s, j) => j = i
    /\ \A j \in 1..Len(w.inbox) : ~ReleaseAt(w.inbox, s, j)

(* What it announced is drawn, and in order. *)
InOrder(x, s, q) ==
  /\ \A i \in 1..Len(q) : FrameAt(q, s, i) =>
       x.last < q[i].sequence /\ x.memory[q[i].slot] = q[i].sequence
  /\ \A i, j \in 1..Len(q) : FrameAt(q, s, i) /\ FrameAt(q, s, j) /\ i < j => q[i].sequence < q[j].sequence

(* A slot is held if and only if it is announced or on its way back, once. *)
Ringed(x, s, w, q) ==
  s \in DOMAIN w.hosted =>
    /\ w.hosted[s].restarts = 0 /\ x.last <= w.hosted[s].sequence
    /\ \A h \in w.hosted[s].held : h.sequence <= w.hosted[s].sequence
    /\ \A i \in 1..Len(q) : FrameAt(q, s, i) => \E h \in w.hosted[s].held : Announces(q, s, h, i)
    /\ \A i \in 1..Len(w.inbox) : ReleaseAt(w.inbox, s, i) =>
         \E h \in w.hosted[s].held : Returns(w.inbox, s, h, i)
    /\ \A h \in w.hosted[s].held :
         /\ \/ \E i \in 1..Len(q) : Announces(q, s, h, i)
            \/ \E i \in 1..Len(w.inbox) : Returns(w.inbox, s, h, i)
         /\ \A i, j \in 1..Len(w.inbox) : Returns(w.inbox, s, h, i) /\ Returns(w.inbox, s, h, j) => i = j
         /\ \A i \in 1..Len(q), j \in 1..Len(w.inbox) : ~(Announces(q, s, h, i) /\ Returns(w.inbox, s, h, j))

FirstRun(x, s, r, w, q) ==
  ~x.relaunched =>
    /\ x.restarts = 0
    /\ x.runtime = r => Awaited(x, s, w, q) /\ InOrder(x, s, q) /\ Ringed(x, s, w, q)
    /\ x.runtime # r => Unknown(s, w, q)

Track(x, s, r, w, q) == Within(x, s, w, q) /\ FirstRun(x, s, r, w, q)

(* One more at the end, and one less at the front. *)
Grows(p, q, e) == Len(p) \in Nat /\ Len(q) = Len(p) + 1 /\ q[Len(p) + 1] = e /\ \A i \in 1..Len(p) : q[i] = p[i]
Pops(p, q) == Len(q) \in Nat /\ Len(p) = Len(q) + 1 /\ \A i \in 1..Len(q) : q[i] = p[i + 1]

LEMMA GrowsIs == \A S : \A p \in Seq(S), e \in S : Grows(p, Append(p, e), e)
BY DEF Grows

LEMMA PopsIs == \A S : \A p \in Seq(S) : p # <<>> => Pops(p, Tail(p))
BY DEF Pops

LEMMA GrowsAt ==
  ASSUME NEW p, NEW q, NEW e, Grows(p, q, e)
  PROVE  \A i \in 1..Len(q) : (i \in 1..Len(p) /\ q[i] = p[i]) \/ (i = Len(p) + 1 /\ q[i] = e)
BY DEF Grows

LEMMA GrowsFrom ==
  ASSUME NEW p, NEW q, NEW e, Grows(p, q, e)
  PROVE  \A i \in 1..Len(p) : i \in 1..Len(q) /\ q[i] = p[i]
BY DEF Grows

LEMMA PopsAt ==
  ASSUME NEW p, NEW q, Pops(p, q)
  PROVE  \A i \in 1..Len(q) : i + 1 \in 1..Len(p) /\ q[i] = p[i + 1] /\ i \in Nat
BY DEF Pops

LEMMA PopsFrom ==
  ASSUME NEW p, NEW q, Pops(p, q)
  PROVE  /\ 1 \in 1..Len(p)
         /\ \A i \in 1..Len(p) : i # 1 => i - 1 \in 1..Len(q) /\ q[i - 1] = p[i] /\ i \in Nat
<1>1. \A i \in 1..Len(p) : i # 1 => i - 1 \in 1..Len(q) /\ (i - 1) + 1 = i
  BY DEF Pops
<1> QED
  BY <1>1 DEF Pops

(* A request that says nothing of the session, or has it play or pause. *)
LEMMA AddKeeps ==
  ASSUME NEW x, NEW s, NEW r, NEW w, NEW v, NEW q, NEW request,
         Track(x, s, r, w, q), Grows(w.inbox, v.inbox, request), v.hosted = w.hosted,
         request.session = s => request.kind = "SetActive" /\ x.runtime = r
  PROVE  Track(x, s, r, v, q)
<1>1. \A i \in 1..Len(v.inbox) : \/ i \in 1..Len(w.inbox) /\ v.inbox[i] = w.inbox[i]
                                 \/ i = Len(w.inbox) + 1 /\ v.inbox[i] = request
  BY GrowsAt
<1>2. \A i \in 1..Len(w.inbox) : i \in 1..Len(v.inbox) /\ v.inbox[i] = w.inbox[i]
  BY GrowsFrom
<1>3. \A i \in 1..Len(v.inbox) :
        OpenAt(v.inbox, s, i) \/ ReleaseAt(v.inbox, s, i) => i \in 1..Len(w.inbox) /\ v.inbox[i] = w.inbox[i]
  BY <1>1 DEF OpenAt, ReleaseAt
<1>4. Within(x, s, v, q)
  BY <1>3 DEF Track, Within, OpenAt
<1>5. ASSUME ~x.relaunched, x.runtime = r, Awaited(x, s, w, q) PROVE Awaited(x, s, v, q)
  BY <1>3, <1>5 DEF Awaited, OpenAt, ReleaseAt
<1>6. ASSUME ~x.relaunched, x.runtime = r, Ringed(x, s, w, q) PROVE Ringed(x, s, v, q)
  <2> SUFFICES ASSUME s \in DOMAIN w.hosted
               PROVE  Ringed(x, s, v, q)
    BY DEF Ringed
  <2>1. \A h : \A i \in 1..Len(w.inbox) : Returns(w.inbox, s, h, i) => i \in 1..Len(v.inbox) /\ Returns(v.inbox, s, h, i)
    BY <1>2 DEF Returns, ReleaseAt
  <2>2. \A h : \A i \in 1..Len(v.inbox) : Returns(v.inbox, s, h, i) => i \in 1..Len(w.inbox) /\ Returns(w.inbox, s, h, i)
    BY <1>3 DEF Returns, ReleaseAt
  <2>3. \A i \in 1..Len(v.inbox) : ReleaseAt(v.inbox, s, i) => i \in 1..Len(w.inbox) /\ ReleaseAt(w.inbox, s, i)
    BY <1>3 DEF ReleaseAt
  <2> QED
    BY <1>6, <2>1, <2>2, <2>3 DEF Ringed
<1>7. ASSUME x.runtime # r, Unknown(s, w, q) PROVE Unknown(s, v, q)
  BY <1>1, <1>7 DEF Unknown, About
<1> QED
  BY <1>4, <1>5, <1>6, <1>7 DEF Track, FirstRun

(* Something was heard that is not a frame of its ring. *)
LEMMA PopKeeps ==
  ASSUME NEW x, NEW s, NEW r, NEW w, NEW q, NEW p, Track(x, s, r, w, q), Pops(q, p),
         FrameAt(q, s, 1) => s \notin DOMAIN w.hosted \/ x.relaunched
  PROVE  Track(x, s, r, w, p)
<1>1. \A i \in 1..Len(p) : i + 1 \in 1..Len(q) /\ p[i] = q[i + 1] /\ i \in Nat
  BY PopsAt
<1>2. \A i \in 1..Len(q) : i # 1 => i - 1 \in 1..Len(p) /\ p[i - 1] = q[i] /\ i \in Nat
  BY PopsFrom
<1>3. \A i \in 1..Len(p) : FrameAt(p, s, i) => FrameAt(q, s, i + 1)
  BY <1>1 DEF FrameAt
<1>4. \A h : \A i \in 1..Len(p) : Announces(p, s, h, i) <=> Announces(q, s, h, i + 1)
  BY <1>1 DEF Announces, FrameAt
<1>5. About(p, s) => About(q, s)
  BY <1>1 DEF About
<1>6. Within(x, s, w, p)
  BY <1>1, <1>3 DEF Track, Within
<1>7. ASSUME ~x.relaunched, Awaited(x, s, w, q) PROVE Awaited(x, s, w, p)
  BY <1>5, <1>7 DEF Awaited
<1>8. ASSUME ~x.relaunched, InOrder(x, s, q) PROVE InOrder(x, s, p)
  <2>1. \A i \in 1..Len(p) : FrameAt(p, s, i) => x.last < p[i].sequence /\ x.memory[p[i].slot] = p[i].sequence
    BY <1>1, <1>3, <1>8 DEF InOrder
  <2>2. \A i, j \in 1..Len(p) : FrameAt(p, s, i) /\ FrameAt(p, s, j) /\ i < j => p[i].sequence < p[j].sequence
    <3> SUFFICES ASSUME NEW i \in 1..Len(p), NEW j \in 1..Len(p), FrameAt(p, s, i), FrameAt(p, s, j), i < j
                 PROVE  p[i].sequence < p[j].sequence
      OBVIOUS
    <3>1. i + 1 < j + 1
      BY <1>1
    <3> QED
      BY <1>1, <1>3, <1>8, <3>1 DEF InOrder
  <2> QED
    BY <2>1, <2>2 DEF InOrder
<1>9. ASSUME ~x.relaunched, Ringed(x, s, w, q) PROVE Ringed(x, s, w, p)
  <2> SUFFICES ASSUME s \in DOMAIN w.hosted PROVE Ringed(x, s, w, p)
    BY DEF Ringed
  <2>1. ~FrameAt(q, s, 1)
    BY <1>9
  <2>2. \A h : \A i \in 1..Len(q) : Announces(q, s, h, i) => i - 1 \in 1..Len(p) /\ Announces(p, s, h, i - 1)
    BY <1>2, <2>1 DEF Announces, FrameAt
  <2>3. \A i \in 1..Len(p) : FrameAt(p, s, i) => \E h \in w.hosted[s].held : Announces(p, s, h, i)
    BY <1>1, <1>3, <1>4, <1>9 DEF Ringed
  <2>4. \A h \in w.hosted[s].held : \/ \E i \in 1..Len(p) : Announces(p, s, h, i)
                                    \/ \E i \in 1..Len(w.inbox) : Returns(w.inbox, s, h, i)
    BY <1>9, <2>2 DEF Ringed
  <2>5. \A h \in w.hosted[s].held : \A i \in 1..Len(p), j \in 1..Len(w.inbox) :
          ~(Announces(p, s, h, i) /\ Returns(w.inbox, s, h, j))
    BY <1>1, <1>4, <1>9 DEF Ringed
  <2> QED
    BY <1>9, <2>3, <2>4, <2>5 DEF Ringed
<1>10. ASSUME Unknown(s, w, q) PROVE Unknown(s, w, p)
  BY <1>5, <1>10 DEF Unknown
<1> QED
  BY <1>6, <1>7, <1>8, <1>9, <1>10 DEF Track, FirstRun

(* The supervisor heard of a frame: it is the last, or it has a newer one. *)
Later(x, y, n) ==
  /\ y.overlay = x.overlay /\ y.runtime = x.runtime /\ y.relaunched = x.relaunched
  /\ y.restarts = x.restarts /\ y.memory = x.memory /\ (y.last = x.last \/ y.last = n)

HeardSo(x, y, s, r, w, p) ==
  /\ Within(y, s, w, p)
  /\ ~x.relaunched => /\ x.runtime = r /\ ~y.relaunched /\ y.restarts = 0 /\ y.runtime = r
                      /\ InOrder(y, s, p) /\ \A i \in 1..Len(w.inbox) : ~OpenAt(w.inbox, s, i)
                      /\ s \in DOMAIN w.hosted => y.last <= w.hosted[s].sequence

LEMMA HeardKeeps ==
  ASSUME NEW x, NEW y, NEW s, NEW r, NEW w, NEW q, NEW p, Track(x, s, r, w, q), Pops(q, p),
         q[1] \in FrameKind, q[1].session = s,
         Later(x, y, q[1].sequence)
  PROVE  HeardSo(x, y, s, r, w, p)
<1>1. \A i \in 1..Len(p) : i + 1 \in 1..Len(q) /\ p[i] = q[i + 1] /\ i \in Nat
  BY PopsAt
<1>2. 1 \in 1..Len(q) /\ FrameAt(q, s, 1)
  BY PopsFrom, FrameIs DEF FrameAt
<1>3. \A i \in 1..Len(p) : FrameAt(p, s, i) => FrameAt(q, s, i + 1)
  BY <1>1 DEF FrameAt
<1>4. Within(y, s, w, p)
  BY <1>1, <1>2, <1>3 DEF Track, Within, Later
<1>5. ASSUME ~x.relaunched PROVE x.runtime = r
  BY <1>2, <1>5 DEF Track, FirstRun, Unknown, About
<1>6. ASSUME ~x.relaunched PROVE InOrder(y, s, p)
  <2>1. InOrder(x, s, q)
    BY <1>5, <1>6 DEF Track, FirstRun
  <2>2. \A i \in 1..Len(p) : FrameAt(p, s, i) => y.last < p[i].sequence /\ y.memory[p[i].slot] = p[i].sequence
    <3> SUFFICES ASSUME NEW i \in 1..Len(p), FrameAt(p, s, i)
                 PROVE  y.last < p[i].sequence /\ y.memory[p[i].slot] = p[i].sequence
      OBVIOUS
    <3>1. i + 1 \in 1..Len(q) /\ FrameAt(q, s, i + 1) /\ 1 < i + 1
      BY <1>1, <1>3
    <3>2. x.last < q[i + 1].sequence /\ x.memory[q[i + 1].slot] = q[i + 1].sequence
      BY <2>1, <3>1 DEF InOrder
    <3>3. q[1].sequence < q[i + 1].sequence
      BY <1>2, <2>1, <3>1 DEF InOrder
    <3> QED
      BY <1>1, <3>2, <3>3 DEF Later
  <2>3. \A i, j \in 1..Len(p) : FrameAt(p, s, i) /\ FrameAt(p, s, j) /\ i < j => p[i].sequence < p[j].sequence
    <3> SUFFICES ASSUME NEW i \in 1..Len(p), NEW j \in 1..Len(p), FrameAt(p, s, i), FrameAt(p, s, j), i < j
                 PROVE  p[i].sequence < p[j].sequence
      OBVIOUS
    <3>1. i + 1 < j + 1
      BY <1>1
    <3> QED
      BY <1>1, <1>3, <2>1, <3>1 DEF InOrder
  <2> QED
    BY <2>2, <2>3 DEF InOrder
<1>7. ASSUME ~x.relaunched, NEW i \in 1..Len(w.inbox) PROVE ~OpenAt(w.inbox, s, i)
  BY <1>2, <1>5, <1>7 DEF Track, FirstRun, Awaited, About
<1>8. ASSUME ~x.relaunched, s \in DOMAIN w.hosted PROVE y.last <= w.hosted[s].sequence
  <2>1. Ringed(x, s, w, q)
    BY <1>5, <1>8 DEF Track, FirstRun
  <2>2. PICK h \in w.hosted[s].held : Announces(q, s, h, 1)
    BY <1>2, <1>8, <2>1 DEF Ringed
  <2>3. q[1].sequence <= w.hosted[s].sequence
    BY <1>8, <2>1, <2>2 DEF Ringed, Announces
  <2> QED
    BY <1>8, <2>1, <2>3 DEF Ringed, Later
<1> QED
  BY <1>4, <1>5, <1>6, <1>7, <1>8 DEF Track, FirstRun, Later, HeardSo

(* Its slot goes back. *)
LEMMA ReturnKeeps ==
  ASSUME NEW x, NEW y, NEW s, NEW r, NEW w, NEW v, NEW q, NEW p, Track(x, s, r, w, q), Pops(q, p),
         q[1] \in FrameKind, q[1].session = s,
         Later(x, y, q[1].sequence),
         Grows(w.inbox, v.inbox, ReleaseRequest(q[1])), v.hosted = w.hosted,
         s \in DOMAIN w.hosted => w.hosted[s].held \subseteq Held
  PROVE  Track(y, s, r, v, p)
<1> DEFINE f == q[1]
           a == ReleaseRequest(f)
<1>1. \A i \in 1..Len(p) : i + 1 \in 1..Len(q) /\ p[i] = q[i + 1] /\ i \in Nat
  BY PopsAt
<1>2. \A i \in 1..Len(q) : i # 1 => i - 1 \in 1..Len(p) /\ p[i - 1] = q[i] /\ i \in Nat
  BY PopsFrom
<1>3. \A i \in 1..Len(v.inbox) : \/ i \in 1..Len(w.inbox) /\ v.inbox[i] = w.inbox[i]
                                 \/ i = Len(w.inbox) + 1 /\ v.inbox[i] = a
  BY GrowsAt
<1>4. \A i \in 1..Len(w.inbox) : i \in 1..Len(v.inbox) /\ v.inbox[i] = w.inbox[i]
  BY GrowsFrom
<1>5. a.kind = "ReleaseFrame" /\ a.session = s /\ a.slot = f.slot /\ a.sequence = f.sequence
  BY ReleaseIs
<1>6. 1 \in 1..Len(q) /\ FrameAt(q, s, 1)
  BY PopsFrom, FrameIs DEF FrameAt
<1>7. /\ Within(y, s, w, p)
      /\ ~x.relaunched => /\ x.runtime = r /\ ~y.relaunched /\ y.restarts = 0 /\ y.runtime = r
                          /\ InOrder(y, s, p) /\ \A i \in 1..Len(w.inbox) : ~OpenAt(w.inbox, s, i)
                          /\ s \in DOMAIN w.hosted => y.last <= w.hosted[s].sequence
  <2>1. HeardSo(x, y, s, r, w, p)
    BY HeardKeeps
  <2> QED
    BY <2>1 DEF HeardSo
<1>8. Within(y, s, v, p)
  BY <1>3, <1>5, <1>7 DEF Within, OpenAt
<1>9. ASSUME ~x.relaunched PROVE Awaited(y, s, v, p)
  BY <1>3, <1>5, <1>7, <1>9 DEF Awaited, OpenAt
<1>10. ASSUME ~x.relaunched PROVE Ringed(y, s, v, p)
  <2> SUFFICES ASSUME s \in DOMAIN w.hosted PROVE Ringed(y, s, v, p)
    BY DEF Ringed
  <2> DEFINE held == w.hosted[s].held
             n == Len(w.inbox) + 1
  <2>1. Ringed(x, s, w, q) /\ InOrder(x, s, q)
    BY <1>7, <1>10 DEF Track, FirstRun
  <2>2. n \in 1..Len(v.inbox) /\ v.inbox[n] = a
    BY DEF Grows
  <2>3. PICK b \in held : Announces(q, s, b, 1)
    BY <1>6, <2>1 DEF Ringed
  <2>4. b.slot = f.slot /\ b.sequence = f.sequence /\ Returns(v.inbox, s, b, n)
    BY <1>5, <2>2, <2>3 DEF Announces, Returns, ReleaseAt
  <2>5. \A h \in held : h # b => ~Announces(q, s, h, 1) /\ ~Returns(v.inbox, s, h, n)
    <3> SUFFICES ASSUME NEW h \in held, h.slot = f.slot, h.sequence = f.sequence PROVE h = b
      BY <1>5, <2>2 DEF Announces, Returns
    <3> QED
      BY <2>4, HeldIs
  <2>6. \A i \in 1..Len(p) : ~Announces(p, s, b, i)
    <3> SUFFICES ASSUME NEW i \in 1..Len(p), Announces(p, s, b, i) PROVE FALSE
      OBVIOUS
    <3>1. FrameAt(q, s, i + 1) /\ 1 < i + 1 /\ i + 1 \in 1..Len(q) /\ q[i + 1].sequence = b.sequence
      BY <1>1 DEF Announces, FrameAt
    <3>2. q[1].sequence < q[i + 1].sequence
      BY <1>6, <2>1, <3>1 DEF InOrder
    <3>3. q[1].sequence \in Nat
      BY FrameIs
    <3> QED
      BY <2>4, <3>1, <3>2, <3>3
  <2>7. \A j \in 1..Len(w.inbox) : ~Returns(w.inbox, s, b, j)
    BY <1>6, <2>1, <2>3 DEF Ringed
  <2>8. \A h : \A i \in 1..Len(w.inbox) : Returns(w.inbox, s, h, i) => i \in 1..Len(v.inbox) /\ Returns(v.inbox, s, h, i)
    BY <1>4 DEF Returns, ReleaseAt
  <2>9. \A h : \A i \in 1..Len(v.inbox) :
          Returns(v.inbox, s, h, i) => i = n \/ (i \in 1..Len(w.inbox) /\ Returns(w.inbox, s, h, i))
    BY <1>3 DEF Returns, ReleaseAt
  <2>10. \A h : \A i \in 1..Len(p) : Announces(p, s, h, i) => i + 1 \in 1..Len(q) /\ Announces(q, s, h, i + 1)
    BY <1>1 DEF Announces, FrameAt
  <2>11. \A h : \A i \in 1..Len(q) : i # 1 /\ Announces(q, s, h, i) => i - 1 \in 1..Len(p) /\ Announces(p, s, h, i - 1)
    BY <1>2 DEF Announces, FrameAt
  <2>12. \A i \in 1..Len(p) : FrameAt(p, s, i) => \E h \in held : Announces(p, s, h, i)
    <3> SUFFICES ASSUME NEW i \in 1..Len(p), FrameAt(p, s, i) PROVE \E h \in held : Announces(p, s, h, i)
      OBVIOUS
    <3>1. i + 1 \in 1..Len(q) /\ FrameAt(q, s, i + 1)
      BY <1>1 DEF FrameAt
    <3>2. PICK h \in held : Announces(q, s, h, i + 1)
      BY <2>1, <3>1 DEF Ringed
    <3>3. Announces(p, s, h, i)
      BY <1>1, <3>2 DEF Announces, FrameAt
    <3> QED
      BY <3>3
  <2>13. \A i \in 1..Len(v.inbox) : ReleaseAt(v.inbox, s, i) => \E h \in held : Returns(v.inbox, s, h, i)
    <3> SUFFICES ASSUME NEW i \in 1..Len(v.inbox), ReleaseAt(v.inbox, s, i)
                 PROVE  \E h \in held : Returns(v.inbox, s, h, i)
      OBVIOUS
    <3>1. CASE i \in 1..Len(w.inbox) /\ v.inbox[i] = w.inbox[i]
      <4>1. ReleaseAt(w.inbox, s, i)
        BY <3>1 DEF ReleaseAt
      <4>2. PICK h \in held : Returns(w.inbox, s, h, i)
        BY <2>1, <3>1, <4>1 DEF Ringed
      <4> QED
        BY <2>8, <3>1, <4>2
    <3>2. CASE i = n
      BY <2>4, <3>2
    <3> QED
      BY <1>3, <3>1, <3>2
  <2>14. \A h \in held : \/ \E i \in 1..Len(p) : Announces(p, s, h, i)
                         \/ \E i \in 1..Len(v.inbox) : Returns(v.inbox, s, h, i)
    <3> SUFFICES ASSUME NEW h \in held PROVE \/ \E i \in 1..Len(p) : Announces(p, s, h, i)
                                             \/ \E i \in 1..Len(v.inbox) : Returns(v.inbox, s, h, i)
      OBVIOUS
    <3>1. CASE h = b
      BY <2>2, <2>4, <3>1
    <3>2. CASE h # b
      BY <2>1, <2>5, <2>8, <2>11, <3>2 DEF Ringed
    <3> QED
      BY <3>1, <3>2
  <2>15. \A h \in held : \A i, j \in 1..Len(v.inbox) : Returns(v.inbox, s, h, i) /\ Returns(v.inbox, s, h, j) => i = j
    <3> SUFFICES ASSUME NEW h \in held, NEW i \in 1..Len(v.inbox), NEW j \in 1..Len(v.inbox),
                        Returns(v.inbox, s, h, i), Returns(v.inbox, s, h, j)
                 PROVE  i = j
      OBVIOUS
    <3>1. CASE h = b
      BY <2>7, <2>9, <3>1
    <3>2. CASE h # b
      BY <2>1, <2>5, <2>9, <3>2 DEF Ringed
    <3> QED
      BY <3>1, <3>2
  <2>16. \A h \in held : \A i \in 1..Len(p), j \in 1..Len(v.inbox) : ~(Announces(p, s, h, i) /\ Returns(v.inbox, s, h, j))
    <3> SUFFICES ASSUME NEW h \in held, NEW i \in 1..Len(p), NEW j \in 1..Len(v.inbox),
                        Announces(p, s, h, i), Returns(v.inbox, s, h, j)
                 PROVE  FALSE
      OBVIOUS
    <3>1. h # b
      BY <2>6
    <3>2. j \in 1..Len(w.inbox) /\ Returns(w.inbox, s, h, j)
      BY <2>5, <2>9, <3>1
    <3> QED
      BY <2>1, <2>10, <3>2 DEF Ringed
  <2>17. v.hosted[s].restarts = 0 /\ y.last <= v.hosted[s].sequence
         /\ \A h \in v.hosted[s].held : h.sequence <= v.hosted[s].sequence
    BY <1>7, <1>10, <2>1 DEF Ringed
  <2> QED
    BY <2>12, <2>13, <2>14, <2>15, <2>16, <2>17 DEF Ringed
<1> QED
  BY <1>7, <1>8, <1>9, <1>10 DEF Track, FirstRun, Later

LEMMA DeadKeeps ==
  ASSUME NEW x, NEW y, NEW s, NEW r, NEW w, NEW q, NEW p, Track(x, s, r, w, q), Pops(q, p),
         q[1] \in FrameKind, q[1].session = s, Later(x, y, q[1].sequence),
         w.inbox = <<>>, s \notin DOMAIN w.hosted
  PROVE  Track(y, s, r, w, p)
<1>1. HeardSo(x, y, s, r, w, p)
  BY HeardKeeps
<1>2. Awaited(y, s, w, p) /\ Ringed(y, s, w, p)
  BY DEF Awaited, Ringed
<1> QED
  BY <1>1, <1>2 DEF HeardSo, Track, FirstRun, Later

(* The process is gone, with or without what it said. *)
LEMMA ResetKeeps ==
  ASSUME NEW x, NEW s, NEW r, NEW w, NEW v, NEW q, NEW p, Track(x, s, r, w, q),
         v.inbox = <<>>, DOMAIN v.hosted = {}, p = q \/ p = <<>>
  PROVE  Track(x, s, r, v, p)
<1>1. ~About(v.inbox, s) /\ s \notin DOMAIN v.hosted /\ (About(p, s) => About(q, s))
  BY DEF About
<1>2. Within(x, s, v, p)
  BY DEF Track, Within
<1>3. Awaited(x, s, v, p) /\ Ringed(x, s, v, p)
  BY <1>1 DEF Awaited, Ringed
<1>4. InOrder(x, s, q) => InOrder(x, s, p)
  BY DEF InOrder
<1>5. Unknown(s, w, q) => Unknown(s, v, p)
  BY <1>1 DEF Unknown
<1> QED
  BY <1>2, <1>3, <1>4, <1>5 DEF Track, FirstRun

(* A session is launched: its first run, or a later one under its number. *)
LEMMA NewTracks ==
  ASSUME NEW x \in Playing, NEW s \in Nat, NEW r \in Kinds, NEW w, NEW v, NEW q, x.last = 0, Within(x, s, w, q),
         ~x.relaunched => x.restarts = 0 /\ Unknown(s, w, q),
         Grows(w.inbox, v.inbox, OpenRequest(s, x)), v.hosted = w.hosted,
         x.runtime = r
  PROVE  Track(x, s, r, v, q)
<1> DEFINE a == OpenRequest(s, x)
<1>1. a.kind = "Open" /\ a.session = s /\ a.restarts = x.restarts /\ a.count \in 0..FrameCount[x.overlay]
  BY RequestsAre
<1>2. \A i \in 1..Len(v.inbox) : \/ i \in 1..Len(w.inbox) /\ v.inbox[i] = w.inbox[i]
                                 \/ i = Len(w.inbox) + 1 /\ v.inbox[i] = a
  BY GrowsAt
<1>3. Within(x, s, v, q)
  <2>1. a.count <= FrameCount[x.overlay]
    BY <1>1, MediaAssumption, PlayingIs
  <2> QED
    BY <1>1, <1>2, <2>1 DEF Within, OpenAt
<1>4. ASSUME ~x.relaunched PROVE Awaited(x, s, v, q) /\ InOrder(x, s, q) /\ Ringed(x, s, v, q)
  <2>1. Unknown(s, w, q) /\ x.restarts = 0
    BY <1>4
  <2>2. InOrder(x, s, q)
    BY <2>1 DEF Unknown, About, InOrder, FrameAt
  <2>3. Ringed(x, s, v, q)
    BY <2>1 DEF Unknown, Ringed
  <2>4. \A i \in 1..Len(v.inbox) : v.inbox[i].session = s => i = Len(w.inbox) + 1 /\ v.inbox[i] = a
    BY <1>2, <2>1 DEF Unknown, About
  <2>5. Awaited(x, s, v, q)
    BY <1>1, <2>1, <2>4 DEF Awaited, Unknown, OpenAt, ReleaseAt
  <2> QED
    BY <2>2, <2>3, <2>5
<1> QED
  BY <1>3, <1>4 DEF Track, FirstRun

LEMMA NewElsewhere ==
  ASSUME NEW x, NEW s, NEW r, NEW w, NEW q, Within(x, s, w, q),
         ~x.relaunched => x.restarts = 0 /\ Unknown(s, w, q), x.runtime # r
  PROVE  Track(x, s, r, w, q)
BY DEF Track, FirstRun

(* What may be left of a ring: all of it, or nothing. *)
Shrinks(s, w, v) ==
  s \in DOMAIN v.hosted =>
    /\ s \in DOMAIN w.hosted
    /\ v.hosted[s].restarts = w.hosted[s].restarts /\ v.hosted[s].count = w.hosted[s].count
    /\ v.hosted[s].sequence = w.hosted[s].sequence /\ v.hosted[s].held = w.hosted[s].held

(* The worker says something that is not a frame of this ring. *)
Unframed(q, p, s) ==
  p = q \/ \E e : Grows(q, p, e) /\ (e.session = s => e.kind = "Failed")

SameFrames(x, q, p, s) ==
  /\ InOrder(x, s, q) => InOrder(x, s, p)
  /\ \A i \in 1..Len(p) : FrameAt(p, s, i) => i \in 1..Len(q) /\ p[i] = q[i]
  /\ \A i \in 1..Len(q) : i \in 1..Len(p) /\ p[i] = q[i]

LEMMA SaysKeeps ==
  ASSUME NEW x, NEW s, NEW q, NEW p, Unframed(q, p, s)
  PROVE  SameFrames(x, q, p, s)
<1>1. \A i \in 1..Len(p) : FrameAt(p, s, i) => i \in 1..Len(q) /\ p[i] = q[i]
  BY GrowsAt DEF Unframed, FrameAt
<1>2. \A i \in 1..Len(q) : i \in 1..Len(p) /\ p[i] = q[i]
  BY GrowsFrom DEF Unframed
<1>3. InOrder(x, s, q) => InOrder(x, s, p)
  BY <1>1 DEF InOrder, FrameAt
<1> QED
  BY <1>1, <1>2, <1>3 DEF SameFrames

(* It reads a request that leaves the ring as it is, or has it closed. *)
LEMMA ReadKeeps ==
  ASSUME NEW x, NEW s, NEW r, NEW w, NEW v, NEW q, NEW p, Track(x, s, r, w, q),
         Pops(w.inbox, v.inbox), Shrinks(s, w, v), Unframed(q, p, s),
         ReleaseAt(w.inbox, s, 1) => s \notin DOMAIN v.hosted,
         About(p, s) => About(q, s) \/ OpenAt(w.inbox, s, 1)
  PROVE  Track(x, s, r, v, p)
<1>1. \A i \in 1..Len(v.inbox) : i + 1 \in 1..Len(w.inbox) /\ v.inbox[i] = w.inbox[i + 1] /\ i \in Nat
  BY PopsAt
<1>2. 1 \in 1..Len(w.inbox)
      /\ \A i \in 1..Len(w.inbox) : i # 1 => i - 1 \in 1..Len(v.inbox) /\ v.inbox[i - 1] = w.inbox[i] /\ i \in Nat
  BY PopsFrom
<1>3. /\ InOrder(x, s, q) => InOrder(x, s, p)
      /\ \A i \in 1..Len(p) : FrameAt(p, s, i) => i \in 1..Len(q) /\ p[i] = q[i]
      /\ \A i \in 1..Len(q) : i \in 1..Len(p) /\ p[i] = q[i]
  <2>1. SameFrames(x, q, p, s)
    BY SaysKeeps
  <2> QED
    BY <2>1 DEF SameFrames
<1>4. \A i \in 1..Len(v.inbox) : /\ OpenAt(v.inbox, s, i) => OpenAt(w.inbox, s, i + 1)
                                 /\ ReleaseAt(v.inbox, s, i) => ReleaseAt(w.inbox, s, i + 1)
  BY <1>1 DEF OpenAt, ReleaseAt
<1>5. Within(x, s, v, p)
  BY <1>1, <1>3, <1>4 DEF Track, Within, Shrinks, FrameAt
<1>6. ASSUME Awaited(x, s, w, q) PROVE Awaited(x, s, v, p)
  <2> SUFFICES ASSUME NEW i \in 1..Len(v.inbox), OpenAt(v.inbox, s, i)
               PROVE  /\ s \notin DOMAIN v.hosted /\ ~About(p, s) /\ x.last = 0
                      /\ v.inbox[i].restarts = 0
                      /\ \A j \in 1..Len(v.inbox) : OpenAt(v.inbox, s, j) => j = i
                      /\ \A j \in 1..Len(v.inbox) : ~ReleaseAt(v.inbox, s, j)
    BY DEF Awaited
  <2>1. OpenAt(w.inbox, s, i + 1) /\ i + 1 \in 1..Len(w.inbox) /\ i + 1 # 1
    BY <1>1, <1>4
  <2>2. ~OpenAt(w.inbox, s, 1)
    BY <1>2, <1>6, <2>1 DEF Awaited
  <2>3. s \notin DOMAIN w.hosted /\ ~About(q, s) /\ x.last = 0 /\ w.inbox[i + 1].restarts = 0
    BY <1>6, <2>1 DEF Awaited
  <2>4. \A j \in 1..Len(v.inbox) : OpenAt(v.inbox, s, j) => j = i
    <3> SUFFICES ASSUME NEW j \in 1..Len(v.inbox), OpenAt(v.inbox, s, j) PROVE j = i
      OBVIOUS
    <3>1. j + 1 = i + 1
      BY <1>1, <1>4, <1>6, <2>1 DEF Awaited
    <3> QED
      BY <1>1, <3>1
  <2>5. \A j \in 1..Len(v.inbox) : ~ReleaseAt(v.inbox, s, j)
    BY <1>1, <1>4, <1>6, <2>1 DEF Awaited
  <2> QED
    BY <1>1, <2>2, <2>3, <2>4, <2>5 DEF Shrinks
<1>7. ASSUME Ringed(x, s, w, q) PROVE Ringed(x, s, v, p)
  <2> SUFFICES ASSUME s \in DOMAIN v.hosted PROVE Ringed(x, s, v, p)
    BY DEF Ringed
  <2>0. s \in DOMAIN w.hosted /\ ~ReleaseAt(w.inbox, s, 1)
    BY DEF Shrinks
  <2>1. \A h : \A i \in 1..Len(v.inbox) : Returns(v.inbox, s, h, i) => Returns(w.inbox, s, h, i + 1)
    BY <1>1 DEF Returns, ReleaseAt
  <2>2. \A h : \A i \in 1..Len(w.inbox) : Returns(w.inbox, s, h, i) => i - 1 \in 1..Len(v.inbox) /\ Returns(v.inbox, s, h, i - 1)
    BY <1>2, <2>0 DEF Returns, ReleaseAt
  <2>3. \A h : \A i \in 1..Len(p) : Announces(p, s, h, i) => i \in 1..Len(q) /\ Announces(q, s, h, i)
    BY <1>3 DEF Announces, FrameAt
  <2>4. \A h : \A i \in 1..Len(q) : Announces(q, s, h, i) => i \in 1..Len(p) /\ Announces(p, s, h, i)
    BY <1>3 DEF Announces, FrameAt
  <2> DEFINE held == w.hosted[s].held
  <2>5. v.hosted[s].held = held
    BY DEF Shrinks
  <2>6. \A i \in 1..Len(p) : FrameAt(p, s, i) => \E h \in held : Announces(p, s, h, i)
    BY <1>3, <1>7, <2>0, <2>4 DEF Ringed, FrameAt
  <2>7. \A i \in 1..Len(v.inbox) : ReleaseAt(v.inbox, s, i) => \E h \in held : Returns(v.inbox, s, h, i)
    <3> SUFFICES ASSUME NEW i \in 1..Len(v.inbox), ReleaseAt(v.inbox, s, i)
                 PROVE  \E h \in held : Returns(v.inbox, s, h, i)
      OBVIOUS
    <3>1. PICK h \in held : Returns(w.inbox, s, h, i + 1)
      BY <1>1, <1>4, <1>7, <2>0 DEF Ringed
    <3>2. Returns(v.inbox, s, h, i)
      BY <1>1, <3>1 DEF Returns, ReleaseAt
    <3> QED
      BY <3>2
  <2>8. \A h \in held : \/ \E i \in 1..Len(p) : Announces(p, s, h, i)
                        \/ \E i \in 1..Len(v.inbox) : Returns(v.inbox, s, h, i)
    BY <1>7, <2>0, <2>2, <2>4 DEF Ringed
  <2>9. \A h \in held : \A i, j \in 1..Len(v.inbox) : Returns(v.inbox, s, h, i) /\ Returns(v.inbox, s, h, j) => i = j
    <3> SUFFICES ASSUME NEW h \in held, NEW i \in 1..Len(v.inbox), NEW j \in 1..Len(v.inbox),
                        Returns(v.inbox, s, h, i), Returns(v.inbox, s, h, j)
                 PROVE  i = j
      OBVIOUS
    <3>1. i + 1 = j + 1
      BY <1>1, <1>7, <2>0, <2>1 DEF Ringed
    <3> QED
      BY <1>1, <3>1
  <2>10. \A h \in held : \A i \in 1..Len(p), j \in 1..Len(v.inbox) : ~(Announces(p, s, h, i) /\ Returns(v.inbox, s, h, j))
    BY <1>1, <1>7, <2>0, <2>1, <2>3 DEF Ringed
  <2>11. v.hosted[s].restarts = 0 /\ x.last <= v.hosted[s].sequence
         /\ \A h \in held : h.sequence <= v.hosted[s].sequence
    BY <1>7, <2>0 DEF Ringed, Shrinks
  <2> HIDE DEF held
  <2> QED
    BY <2>5, <2>6, <2>7, <2>8, <2>9, <2>10, <2>11 DEF Ringed
<1>8. ASSUME Unknown(s, w, q) PROVE Unknown(s, v, p)
  <2>1. ~About(v.inbox, s)
    BY <1>1, <1>8 DEF Unknown, About
  <2>2. ~OpenAt(w.inbox, s, 1)
    BY <1>2, <1>8 DEF Unknown, About, OpenAt
  <2> QED
    BY <1>8, <2>1, <2>2 DEF Unknown, Shrinks
<1> QED
  BY <1>3, <1>5, <1>6, <1>7, <1>8 DEF Track, FirstRun

(* The worker attaches its ring. *)
LEMMA AttachKeeps ==
  ASSUME NEW x, NEW s, NEW r, NEW w, NEW v, NEW q, Track(x, s, r, w, q), x.last \in Nat,
         Pops(w.inbox, v.inbox), OpenAt(w.inbox, s, 1),
         s \in DOMAIN v.hosted, v.hosted[s].count = w.inbox[1].count, v.hosted[s].restarts = w.inbox[1].restarts,
         v.hosted[s].sequence = 0, v.hosted[s].held = {}
  PROVE  Track(x, s, r, v, q)
<1>1. \A i \in 1..Len(v.inbox) : i + 1 \in 1..Len(w.inbox) /\ v.inbox[i] = w.inbox[i + 1] /\ i \in Nat
  BY PopsAt
<1>2. 1 \in 1..Len(w.inbox)
  BY PopsFrom
<1>3. \A i \in 1..Len(v.inbox) : /\ OpenAt(v.inbox, s, i) => OpenAt(w.inbox, s, i + 1)
                                 /\ ReleaseAt(v.inbox, s, i) => ReleaseAt(w.inbox, s, i + 1)
  BY <1>1 DEF OpenAt, ReleaseAt
<1>4. Within(x, s, v, q)
  BY <1>1, <1>2, <1>3 DEF Track, Within
<1>5. ASSUME ~x.relaunched PROVE x.runtime = r
  BY <1>2, <1>5 DEF Track, FirstRun, Unknown, About, OpenAt
<1>6. ASSUME ~x.relaunched PROVE Awaited(x, s, v, q) /\ InOrder(x, s, q) /\ Ringed(x, s, v, q)
  <2>1. Awaited(x, s, w, q) /\ InOrder(x, s, q)
    BY <1>5, <1>6 DEF Track, FirstRun
  <2>2. /\ ~About(q, s) /\ x.last = 0 /\ w.inbox[1].restarts = 0
        /\ \A j \in 1..Len(w.inbox) : OpenAt(w.inbox, s, j) => j = 1
        /\ \A j \in 1..Len(w.inbox) : ~ReleaseAt(w.inbox, s, j)
    BY <1>2, <2>1 DEF Awaited
  <2>3. \A i \in 1..Len(v.inbox) : ~OpenAt(v.inbox, s, i) /\ ~ReleaseAt(v.inbox, s, i)
    <3> SUFFICES ASSUME NEW i \in 1..Len(v.inbox) PROVE ~OpenAt(v.inbox, s, i) /\ ~ReleaseAt(v.inbox, s, i)
      OBVIOUS
    <3>1. i + 1 # 1 /\ i + 1 \in 1..Len(w.inbox)
      BY <1>1
    <3> QED
      BY <1>3, <2>2, <3>1
  <2>4. Awaited(x, s, v, q)
    BY <2>3 DEF Awaited
  <2>5. \A i \in 1..Len(q) : ~FrameAt(q, s, i)
    BY <2>2 DEF About, FrameAt
  <2>6. Ringed(x, s, v, q)
    BY <2>2, <2>3, <2>5 DEF Ringed
  <2> QED
    BY <2>1, <2>4, <2>6
<1> QED
  BY <1>4, <1>5, <1>6 DEF Track, FirstRun

(* A slot comes back to it. *)
LEMMA FreeKeeps ==
  ASSUME NEW x, NEW s, NEW r, NEW w, NEW v, NEW q, NEW b \in Held, Track(x, s, r, w, q),
         Pops(w.inbox, v.inbox), Returns(w.inbox, s, b, 1),
         s \in DOMAIN w.hosted, s \in DOMAIN v.hosted, w.hosted[s].held \subseteq Held,
         v.hosted[s].count = w.hosted[s].count, v.hosted[s].restarts = w.hosted[s].restarts,
         v.hosted[s].sequence = w.hosted[s].sequence, v.hosted[s].held = w.hosted[s].held \ {b}
  PROVE  Track(x, s, r, v, q)
<1>1. \A i \in 1..Len(v.inbox) : i + 1 \in 1..Len(w.inbox) /\ v.inbox[i] = w.inbox[i + 1] /\ i \in Nat
  BY PopsAt
<1>2. 1 \in 1..Len(w.inbox)
      /\ \A i \in 1..Len(w.inbox) : i # 1 => i - 1 \in 1..Len(v.inbox) /\ v.inbox[i - 1] = w.inbox[i] /\ i \in Nat
  BY PopsFrom
<1>3. \A i \in 1..Len(v.inbox) : /\ OpenAt(v.inbox, s, i) => OpenAt(w.inbox, s, i + 1)
                                 /\ ReleaseAt(v.inbox, s, i) => ReleaseAt(w.inbox, s, i + 1)
  BY <1>1 DEF OpenAt, ReleaseAt
<1>4. Within(x, s, v, q)
  BY <1>1, <1>3 DEF Track, Within
<1>5. ASSUME ~x.relaunched PROVE x.runtime = r
  BY <1>5 DEF Track, FirstRun, Unknown
<1>6. ASSUME ~x.relaunched PROVE Awaited(x, s, v, q) /\ InOrder(x, s, q)
  <2>1. Awaited(x, s, w, q) /\ InOrder(x, s, q)
    BY <1>5, <1>6 DEF Track, FirstRun
  <2>2. \A i \in 1..Len(v.inbox) : ~OpenAt(v.inbox, s, i)
    BY <1>1, <1>3, <2>1 DEF Awaited
  <2> QED
    BY <2>1, <2>2 DEF Awaited
<1>7. ASSUME ~x.relaunched PROVE Ringed(x, s, v, q)
  <2> DEFINE held == w.hosted[s].held
             left == held \ {b}
  <2>0. Ringed(x, s, w, q)
    BY <1>5, <1>7 DEF Track, FirstRun
  <2>1. \A h : \A i \in 1..Len(v.inbox) : Returns(v.inbox, s, h, i) <=> Returns(w.inbox, s, h, i + 1)
    BY <1>1 DEF Returns, ReleaseAt
  <2>2. \A h : \A i \in 1..Len(w.inbox) :
          i # 1 /\ Returns(w.inbox, s, h, i) => i - 1 \in 1..Len(v.inbox) /\ Returns(v.inbox, s, h, i - 1)
    BY <1>2 DEF Returns, ReleaseAt
  <2>3. \A h \in held : Returns(w.inbox, s, h, 1) => h = b
    <3> SUFFICES ASSUME NEW h \in held, Returns(w.inbox, s, h, 1) PROVE h = b
      OBVIOUS
    <3>1. h.slot = b.slot /\ h.sequence = b.sequence /\ h \in Held
      BY DEF Returns
    <3> QED
      BY <3>1, HeldIs
  <2>4. b \in held
    <3>1. ReleaseAt(w.inbox, s, 1)
      BY DEF Returns
    <3>2. PICK h \in held : Returns(w.inbox, s, h, 1)
      BY <1>2, <2>0, <3>1 DEF Ringed
    <3> QED
      BY <2>3, <3>2
  <2>5. \A i \in 1..Len(q) : ~Announces(q, s, b, i)
    BY <1>2, <2>0, <2>4 DEF Ringed
  <2>6. \A i \in 1..Len(v.inbox) : ~Returns(v.inbox, s, b, i)
    <3> SUFFICES ASSUME NEW i \in 1..Len(v.inbox), Returns(v.inbox, s, b, i) PROVE FALSE
      OBVIOUS
    <3>1. Returns(w.inbox, s, b, i + 1) /\ i + 1 \in 1..Len(w.inbox) /\ i + 1 # 1
      BY <1>1, <2>1
    <3> QED
      BY <1>2, <2>0, <2>4, <3>1 DEF Ringed
  <2>7. \A i \in 1..Len(q) : FrameAt(q, s, i) => \E h \in left : Announces(q, s, h, i)
    BY <2>0, <2>5 DEF Ringed
  <2>8. \A i \in 1..Len(v.inbox) : ReleaseAt(v.inbox, s, i) => \E h \in left : Returns(v.inbox, s, h, i)
    <3> SUFFICES ASSUME NEW i \in 1..Len(v.inbox), ReleaseAt(v.inbox, s, i)
                 PROVE  \E h \in left : Returns(v.inbox, s, h, i)
      OBVIOUS
    <3>1. PICK h \in held : Returns(w.inbox, s, h, i + 1)
      BY <1>1, <1>3, <2>0 DEF Ringed
    <3>2. Returns(v.inbox, s, h, i)
      BY <2>1, <3>1
    <3> QED
      BY <2>6, <3>2
  <2>9. \A h \in left : \/ \E i \in 1..Len(q) : Announces(q, s, h, i)
                        \/ \E i \in 1..Len(v.inbox) : Returns(v.inbox, s, h, i)
    <3> SUFFICES ASSUME NEW h \in held, h # b, NEW i \in 1..Len(w.inbox), Returns(w.inbox, s, h, i)
                 PROVE  \E j \in 1..Len(v.inbox) : Returns(v.inbox, s, h, j)
      BY <2>0 DEF Ringed
    <3> QED
      BY <2>2, <2>3
  <2>10. \A h \in left : \A i, j \in 1..Len(v.inbox) : Returns(v.inbox, s, h, i) /\ Returns(v.inbox, s, h, j) => i = j
    <3> SUFFICES ASSUME NEW h \in held, NEW i \in 1..Len(v.inbox), NEW j \in 1..Len(v.inbox),
                        Returns(v.inbox, s, h, i), Returns(v.inbox, s, h, j)
                 PROVE  i = j
      OBVIOUS
    <3>1. i + 1 = j + 1
      BY <1>1, <2>0, <2>1 DEF Ringed
    <3> QED
      BY <1>1, <3>1
  <2>11. \A h \in left : \A i \in 1..Len(q), j \in 1..Len(v.inbox) : ~(Announces(q, s, h, i) /\ Returns(v.inbox, s, h, j))
    BY <1>1, <2>0, <2>1 DEF Ringed
  <2>12. v.hosted[s].restarts = 0 /\ x.last <= v.hosted[s].sequence
         /\ \A h \in left : h.sequence <= v.hosted[s].sequence
    BY <2>0 DEF Ringed
  <2>13. v.hosted[s].held = left
    OBVIOUS
  <2> HIDE DEF held, left
  <2> QED
    BY <2>7, <2>8, <2>9, <2>10, <2>11, <2>12, <2>13 DEF Ringed
<1> QED
  BY <1>4, <1>5, <1>6, <1>7 DEF Track, FirstRun

(* It says something, and may host no longer what it failed. *)
LEMMA SpeakKeeps ==
  ASSUME NEW x, NEW s, NEW r, NEW w, NEW v, NEW q, NEW p, NEW e, Track(x, s, r, w, q),
         v.inbox = w.inbox, Shrinks(s, w, v), Grows(q, p, e),
         e.session = s => e.kind = "Failed" /\ s \in DOMAIN w.hosted
  PROVE  Track(x, s, r, v, p)
<1>0. Unframed(q, p, s)
  BY DEF Unframed
<1>1. /\ InOrder(x, s, q) => InOrder(x, s, p)
      /\ \A i \in 1..Len(p) : FrameAt(p, s, i) => i \in 1..Len(q) /\ p[i] = q[i]
      /\ \A i \in 1..Len(q) : i \in 1..Len(p) /\ p[i] = q[i]
  <2>1. SameFrames(x, q, p, s)
    BY <1>0, SaysKeeps
  <2> QED
    BY <2>1 DEF SameFrames
<1>2. About(p, s) => About(q, s) \/ s \in DOMAIN w.hosted
  BY GrowsAt DEF About
<1>3. Within(x, s, v, p)
  BY <1>1 DEF Track, Within, Shrinks, FrameAt
<1>4. Awaited(x, s, w, q) => Awaited(x, s, v, p)
  BY <1>2 DEF Awaited, Shrinks
<1>5. Unknown(s, w, q) => Unknown(s, v, p)
  BY <1>2 DEF Unknown, Shrinks
<1>6. ASSUME Ringed(x, s, w, q) PROVE Ringed(x, s, v, p)
  <2> SUFFICES ASSUME s \in DOMAIN v.hosted PROVE Ringed(x, s, v, p)
    BY DEF Ringed
  <2>1. s \in DOMAIN w.hosted
    BY DEF Shrinks
  <2>2. \A h : \A i \in 1..Len(p) : Announces(p, s, h, i) => i \in 1..Len(q) /\ Announces(q, s, h, i)
    BY <1>1 DEF Announces, FrameAt
  <2>3. \A h : \A i \in 1..Len(q) : Announces(q, s, h, i) => i \in 1..Len(p) /\ Announces(p, s, h, i)
    BY <1>1 DEF Announces, FrameAt
  <2>4. \A i \in 1..Len(p) : FrameAt(p, s, i) => i \in 1..Len(q) /\ FrameAt(q, s, i)
    BY <1>1 DEF FrameAt
  <2> QED
    BY <1>6, <2>1, <2>2, <2>3, <2>4 DEF Ringed, Shrinks
<1> QED
  BY <1>1, <1>3, <1>4, <1>5, <1>6 DEF Track, FirstRun

(* A frame is drawn in a free slot and announced. *)
DrawsIn(s, w, v, slot, n) ==
  /\ s \in DOMAIN w.hosted /\ s \in DOMAIN v.hosted /\ v.inbox = w.inbox /\ w.hosted[s].held \subseteq Held
  /\ w.hosted[s].sequence \in Nat /\ n = w.hosted[s].sequence + 1 /\ n <= w.hosted[s].count
  /\ w.hosted[s].count \in Nat
  /\ \A h \in w.hosted[s].held : h.slot # slot
  /\ v.hosted[s].count = w.hosted[s].count /\ v.hosted[s].restarts = w.hosted[s].restarts
  /\ v.hosted[s].sequence = n /\ v.hosted[s].held = w.hosted[s].held \cup {[slot |-> slot, sequence |-> n]}
DrawsFor(x, y, r, w, s, slot, n) ==
  /\ x.last \in Nat /\ x.memory \in [SlotIds -> Nat] /\ FrameCount[x.overlay] \in Nat
  /\ y.overlay = x.overlay /\ y.runtime = x.runtime /\ y.relaunched = x.relaunched /\ y.restarts = x.restarts
  /\ y.last = x.last
  /\ x.runtime = r /\ x.restarts = w.hosted[s].restarts => y.memory = [x.memory EXCEPT ![slot] = n]

LEMMA DrawKeeps ==
  ASSUME NEW x, NEW y, NEW s, NEW r, NEW w, NEW v, NEW q, NEW p, NEW slot \in SlotIds, NEW n \in Nat, NEW e,
         Track(x, s, r, w, q), DrawsIn(s, w, v, slot, n), DrawsFor(x, y, r, w, s, slot, n),
         Grows(q, p, e), e.kind = "FrameReady", e.session = s, e.sequence = n, e.slot = slot
  PROVE  Track(y, s, r, v, p)
<1> USE DEF DrawsIn, DrawsFor
<1> DEFINE held == w.hosted[s].held
           b == [slot |-> slot, sequence |-> n]
<1>0. b \in Held /\ b.slot = slot /\ b.sequence = n
  BY HeldIs
<1>1. \A i \in 1..Len(p) : \/ i \in 1..Len(q) /\ p[i] = q[i]
                           \/ i = Len(q) + 1 /\ p[i] = e
  BY GrowsAt
<1>2. \A i \in 1..Len(q) : i \in 1..Len(p) /\ p[i] = q[i]
  BY GrowsFrom
<1>3. Within(y, s, v, p)
  <2>1. Within(x, s, w, q)
    BY DEF Track
  <2>2. n <= FrameCount[x.overlay]
    BY <2>1 DEF Within
  <2>3. \A i \in 1..Len(p) : FrameAt(p, s, i) => p[i].sequence <= FrameCount[x.overlay]
    BY <1>1, <2>1, <2>2 DEF Within, FrameAt
  <2> QED
    BY <2>1, <2>3 DEF Within
<1>4. ASSUME ~x.relaunched PROVE Awaited(y, s, v, p) /\ InOrder(y, s, p) /\ Ringed(y, s, v, p) /\ x.runtime = r /\ x.restarts = 0
  <2>1. x.runtime = r
    BY <1>4 DEF Track, FirstRun, Unknown
  <2>2. Awaited(x, s, w, q) /\ InOrder(x, s, q) /\ Ringed(x, s, w, q) /\ x.restarts = 0
    BY <1>4, <2>1 DEF Track, FirstRun
  <2>3. /\ w.hosted[s].restarts = 0 /\ x.last <= w.hosted[s].sequence
        /\ \A h \in held : h.sequence <= w.hosted[s].sequence
    BY <2>2 DEF Ringed
  <2>4. y.memory = [x.memory EXCEPT ![slot] = n]
    BY <2>1, <2>2, <2>3
  <2>5. Awaited(y, s, v, p)
    BY <2>2 DEF Awaited
  <2>6. \A i \in 1..Len(q) : FrameAt(q, s, i) => \E h \in held : Announces(q, s, h, i)
    BY <2>2 DEF Ringed
  <2>7. \A i \in 1..Len(q) : FrameAt(q, s, i) =>
          /\ q[i].slot \in SlotIds /\ q[i].slot # slot /\ q[i].sequence \in Nat /\ q[i].sequence < n
    <3> SUFFICES ASSUME NEW i \in 1..Len(q), FrameAt(q, s, i)
                 PROVE  /\ q[i].slot \in SlotIds /\ q[i].slot # slot /\ q[i].sequence \in Nat /\ q[i].sequence < n
      OBVIOUS
    <3>1. PICK h \in held : Announces(q, s, h, i)
      BY <2>6
    <3>2. h \in Held /\ q[i].slot = h.slot /\ q[i].sequence = h.sequence /\ h.slot # slot
      BY <3>1 DEF Announces
    <3>3. h.slot \in SlotIds /\ h.sequence \in Nat /\ h.sequence <= w.hosted[s].sequence
      BY <2>3, <3>2, HeldIs
    <3> QED
      BY <3>2, <3>3
  <2>8. InOrder(y, s, p)
    <3>1. \A i \in 1..Len(p) : FrameAt(p, s, i) => y.last < p[i].sequence /\ y.memory[p[i].slot] = p[i].sequence
      <4> SUFFICES ASSUME NEW i \in 1..Len(p), FrameAt(p, s, i)
                   PROVE  y.last < p[i].sequence /\ y.memory[p[i].slot] = p[i].sequence
        OBVIOUS
      <4>1. CASE i \in 1..Len(q) /\ p[i] = q[i]
        <5>1. FrameAt(q, s, i)
          BY <4>1 DEF FrameAt
        <5>2. x.last < q[i].sequence /\ x.memory[q[i].slot] = q[i].sequence
          BY <2>2, <4>1, <5>1 DEF InOrder
        <5> QED
          BY <2>4, <2>7, <4>1, <5>1, <5>2
      <4>2. CASE p[i] = e
        BY <2>3, <2>4, <4>2
      <4> QED
        BY <1>1, <4>1, <4>2
    <3>2. \A i, j \in 1..Len(p) : FrameAt(p, s, i) /\ FrameAt(p, s, j) /\ i < j => p[i].sequence < p[j].sequence
      <4> SUFFICES ASSUME NEW i \in 1..Len(p), NEW j \in 1..Len(p), FrameAt(p, s, i), FrameAt(p, s, j), i < j
                   PROVE  p[i].sequence < p[j].sequence
        OBVIOUS
      <4>1. i \in 1..Len(q) /\ p[i] = q[i] /\ FrameAt(q, s, i)
        BY <1>1 DEF FrameAt, Grows
      <4>2. CASE j \in 1..Len(q) /\ p[j] = q[j]
        <5>1. FrameAt(q, s, j)
          BY <4>2 DEF FrameAt
        <5> QED
          BY <2>2, <4>1, <4>2, <5>1 DEF InOrder
      <4>3. CASE p[j] = e
        BY <2>7, <4>1, <4>3
      <4> QED
        BY <1>1, <4>2, <4>3
    <3> QED
      BY <3>1, <3>2 DEF InOrder
  <2>9. Ringed(y, s, v, p)
    <3> DEFINE more == held \cup {b}
               last == Len(q) + 1
    <3>0. v.hosted[s].held = more /\ held \subseteq Held
      OBVIOUS
    <3>1. last \in 1..Len(p) /\ p[last] = e
      BY DEF Grows
    <3>2. Announces(p, s, b, last)
      BY <1>0, <3>1 DEF Announces, FrameAt
    <3>3. \A h : \A i \in 1..Len(q) : Announces(q, s, h, i) => i \in 1..Len(p) /\ Announces(p, s, h, i)
      BY <1>2 DEF Announces, FrameAt
    <3>4. \A h : \A i \in 1..Len(p) : Announces(p, s, h, i) =>
            (i \in 1..Len(q) /\ Announces(q, s, h, i)) \/ (h.slot = slot /\ h.sequence = n)
      BY <1>1 DEF Announces, FrameAt
    <3>5. \A i \in 1..Len(w.inbox) : ~Returns(w.inbox, s, b, i)
      <4> SUFFICES ASSUME NEW i \in 1..Len(w.inbox), Returns(w.inbox, s, b, i) PROVE FALSE
        OBVIOUS
      <4>1. ReleaseAt(w.inbox, s, i)
        BY DEF Returns
      <4>2. PICK h \in held : Returns(w.inbox, s, h, i)
        BY <2>2, <4>1 DEF Ringed
      <4> QED
        BY <1>0, <4>2 DEF Returns
    <3>6. \A i \in 1..Len(q) : ~Announces(q, s, b, i)
      BY <1>0, <2>7 DEF Announces
    <3> HIDE DEF b
    <3>7. \A i \in 1..Len(p) : FrameAt(p, s, i) => \E h \in more : Announces(p, s, h, i)
      <4> SUFFICES ASSUME NEW i \in 1..Len(p), FrameAt(p, s, i) PROVE \E h \in more : Announces(p, s, h, i)
        OBVIOUS
      <4>1. CASE i \in 1..Len(q) /\ p[i] = q[i]
        <5>1. FrameAt(q, s, i)
          BY <4>1 DEF FrameAt
        <5> QED
          BY <2>6, <3>3, <4>1, <5>1
      <4>2. CASE i = last
        BY <3>2, <4>2
      <4> QED
        BY <1>1, <4>1, <4>2
    <3>8. \A i \in 1..Len(w.inbox) : ReleaseAt(w.inbox, s, i) => \E h \in more : Returns(w.inbox, s, h, i)
      BY <2>2 DEF Ringed
    <3>9. \A h \in more : \/ \E i \in 1..Len(p) : Announces(p, s, h, i)
                          \/ \E i \in 1..Len(w.inbox) : Returns(w.inbox, s, h, i)
      <4> SUFFICES ASSUME NEW h \in more PROVE \/ \E i \in 1..Len(p) : Announces(p, s, h, i)
                                               \/ \E i \in 1..Len(w.inbox) : Returns(w.inbox, s, h, i)
        OBVIOUS
      <4>1. CASE h = b
        BY <3>1, <3>2, <4>1
      <4>2. CASE h \in held
        BY <2>2, <3>3, <4>2 DEF Ringed
      <4> QED
        BY <4>1, <4>2
    <3>10. \A h \in more : \A i, j \in 1..Len(w.inbox) : Returns(w.inbox, s, h, i) /\ Returns(w.inbox, s, h, j) => i = j
      BY <2>2, <3>5 DEF Ringed
    <3>11. \A h \in more : \A i \in 1..Len(p), j \in 1..Len(w.inbox) : ~(Announces(p, s, h, i) /\ Returns(w.inbox, s, h, j))
      <4> SUFFICES ASSUME NEW h \in held, NEW i \in 1..Len(p), NEW j \in 1..Len(w.inbox),
                          Announces(p, s, h, i), Returns(w.inbox, s, h, j)
                   PROVE  FALSE
        BY <3>5
      <4>1. i \in 1..Len(q) /\ Announces(q, s, h, i)
        BY <3>4
      <4> QED
        BY <2>2, <4>1 DEF Ringed
    <3>12. \A h \in more : h.sequence <= n
      <4>1. \A h \in held : h.sequence \in Nat /\ h.sequence <= w.hosted[s].sequence
        BY <2>3, HeldIs
      <4>2. n <= n
        OBVIOUS
      <4> QED
        BY <1>0, <4>1, <4>2
    <3>13. v.hosted[s].restarts = 0 /\ y.last <= n
      BY <2>3
    <3> HIDE DEF more
    <3> QED
      BY <3>0, <3>7, <3>8, <3>9, <3>10, <3>11, <3>12, <3>13 DEF Ringed
  <2> QED
    BY <2>1, <2>2, <2>5, <2>8, <2>9
<1>5. ASSUME ~x.relaunched PROVE ~y.relaunched
  BY <1>5
<1> QED
  BY <1>3, <1>4, <1>5 DEF Track, FirstRun

-----------------------------------------------------------------------------
(* The rings of all sessions.  out is what each worker has said that was    *)
(* not yet heard.                                                           *)

Out(m) == [r \in Kinds |-> m.workers[r].outbox]

Sane(w, q, k) ==
  /\ w.alive => w.known
  /\ ~w.alive => w.inbox = <<>> /\ w.hosted = Nobody
  /\ \A s \in DOMAIN w.hosted : s <= k
  /\ \A i \in 1..Len(w.inbox) : w.inbox[i].session <= k
  /\ \A i \in 1..Len(q) : q[i].session <= k
  /\ \A s \in DOMAIN w.hosted : \A h, j \in w.hosted[s].held : h.slot = j.slot => h = j

Counted(m) ==
  /\ DOMAIN m.live \subseteq 1..m.opened
  /\ \A o \in Overlays : m.sessions[o] <= m.opened
  /\ m.indexed = 0 => m.opened = 0

Sanes(m, out) == \A r \in Kinds : Sane(m.workers[r], out[r], m.opened)

Tracks(m, out) ==
  \A s \in DOMAIN m.live : \A r \in Kinds : Track(m.live[s], s, r, m.workers[r], out[r])

Whole(m) ==
  \A o \in Overlays :
    m.frames[o].of # 0 /\ ~m.frames[o].relaunched => m.frames[o].drawn = m.frames[o].sequence

Sound(m, out) == Counted(m) /\ Sanes(m, out) /\ Tracks(m, out) /\ Whole(m)

LEMMA OutIs ==
  ASSUME NEW m \in MediaType
  PROVE  /\ Out(m) \in [Kinds -> Seq(Events)]
         /\ \A r \in Kinds : Out(m)[r] = m.workers[r].outbox
<1>1. \A r \in Kinds : m.workers[r].outbox \in Seq(Events)
  BY MediaIs, WorkerIs
<1> QED
  BY <1>1 DEF Out

LEMMA SoundSame ==
  ASSUME NEW m, NEW n, NEW out, Sound(m, out), n.live = m.live, n.workers = m.workers,
         n.opened = m.opened, m.indexed = 0 => n.indexed = 0, n.indexed = 0 => m.indexed = 0,
         \A o \in Overlays : n.sessions[o] <= n.opened, Whole(n)
  PROVE  Sound(n, out)
<1>1. Counted(n)
  BY DEF Sound, Counted
<1>2. Sanes(n, out) /\ Tracks(n, out)
  BY DEF Sound, Sanes, Tracks
<1> QED
  BY <1>1, <1>2 DEF Sound

LEMMA PostedGrows ==
  ASSUME NEW w \in Worker, NEW request \in Requests
  PROVE  /\ Grows(w.inbox, Posted(w, request).inbox, request) /\ Posted(w, request).hosted = w.hosted
         /\ Posted(w, request).known = w.known /\ Posted(w, request).alive = w.alive
         /\ Posted(w, request).outbox = w.outbox
<1>1. w.inbox \in Seq(Requests)
  BY WorkerIs
<1>2. Grows(w.inbox, Append(w.inbox, request), request)
  BY <1>1, GrowsIs
<1>3. LET n == Posted(w, request) IN
         /\ n.inbox = Append(w.inbox, request)
         /\ n.known = w.known /\ n.alive = w.alive /\ n.outbox = w.outbox /\ n.hosted = w.hosted
  BY PostedIs
<1> QED
  BY <1>2, <1>3

LEMMA PostedSane ==
  ASSUME NEW w \in Worker, NEW request \in Requests, NEW q, NEW k, Sane(w, q, k), w.alive,
         request.session <= k
  PROVE  Sane(Posted(w, request), q, k)
<1> DEFINE v == Posted(w, request)
<1>1. /\ Grows(w.inbox, v.inbox, request) /\ v.hosted = w.hosted
      /\ v.known = w.known /\ v.alive = w.alive
  BY PostedGrows
<1> HIDE DEF v
<1>2. \A i \in 1..Len(v.inbox) : \/ i \in 1..Len(w.inbox) /\ v.inbox[i] = w.inbox[i]
                                 \/ i = Len(w.inbox) + 1 /\ v.inbox[i] = request
  BY <1>1, GrowsAt
<1>3. \A i \in 1..Len(v.inbox) : v.inbox[i].session <= k
  BY <1>2 DEF Sane
<1>4. Sane(v, q, k)
  BY <1>1, <1>3 DEF Sane
<1> QED
  BY <1>4 DEF v

(* A request sent, and sessions closed. *)
Fewer(m, n) ==
  /\ DOMAIN n.live \subseteq DOMAIN m.live
  /\ \A s \in DOMAIN n.live : n.live[s] = m.live[s]
Sent(m, n, r, request) ==
  \A x \in Kinds : n.workers[x] =
    IF x = r /\ m.workers[r].alive THEN Posted(m.workers[r], request) ELSE m.workers[x]

LEMMA PostSound ==
  ASSUME NEW m \in MediaType, NEW n, NEW out, NEW r \in Kinds, NEW request \in Requests,
         Sound(m, out), Alike(m, n), Fewer(m, n), Sent(m, n, r, request), request.session <= m.opened,
         \A s \in DOMAIN n.live : request.session = s => request.kind = "SetActive" /\ n.live[s].runtime = r
  PROVE  Sound(n, out)
<1>1. m.workers \in [Kinds -> Worker]
  BY MediaIs
<1>2. Counted(n) /\ Whole(n)
  BY DEF Sound, Counted, Whole, Alike, Fewer
<1>3. ASSUME NEW x \in Kinds PROVE Sane(n.workers[x], out[x], n.opened)
  <2>1. Sane(m.workers[x], out[x], n.opened)
    BY DEF Sound, Sanes, Alike
  <2>2. CASE x = r /\ m.workers[r].alive
    <3>1. Sane(Posted(m.workers[r], request), out[r], n.opened)
      BY <1>1, <2>1, <2>2, PostedSane DEF Alike
    <3> QED
      BY <2>2, <3>1 DEF Sent
  <2>3. CASE ~(x = r /\ m.workers[r].alive)
    BY <2>1, <2>3 DEF Sent
  <2> QED
    BY <2>2, <2>3
<1>4. ASSUME NEW s \in DOMAIN n.live, NEW x \in Kinds PROVE Track(n.live[s], s, x, n.workers[x], out[x])
  <2>1. Track(n.live[s], s, x, m.workers[x], out[x])
    BY DEF Sound, Tracks, Fewer
  <2>2. CASE x = r /\ m.workers[r].alive
    <3> DEFINE v == Posted(m.workers[r], request)
    <3>1. Grows(m.workers[r].inbox, v.inbox, request) /\ v.hosted = m.workers[r].hosted
      BY <1>1, PostedGrows
    <3>2. n.workers[x] = v
      BY <2>2 DEF Sent
    <3> HIDE DEF v
    <3>3. request.session = s => request.kind = "SetActive" /\ n.live[s].runtime = r
      OBVIOUS
    <3>4. Track(n.live[s], s, r, v, out[r])
      BY <2>1, <2>2, <3>1, <3>3, AddKeeps
    <3> QED
      BY <2>2, <3>2, <3>4
  <2>3. CASE ~(x = r /\ m.workers[r].alive)
    BY <2>1, <2>3 DEF Sent
  <2> QED
    BY <2>2, <2>3
<1> QED
  BY <1>2, <1>3, <1>4 DEF Sound, Sanes, Tracks

(* Workers found dead. *)
LEMMA NoWorkerSane == \A k : Sane(NoWorker, <<>>, k)
<1>1. DOMAIN NoWorker.hosted = {} /\ NoWorker.inbox = <<>> /\ NoWorker.alive = FALSE /\ NoWorker.hosted = Nobody
  BY NoWorkerIs, NobodyIs
<1> QED
  BY <1>1 DEF Sane

LEMMA DroppedSound ==
  ASSUME NEW m \in MediaType, NEW t \in MediaType, Sound(m, Out(m)), Dropped(m, t)
  PROVE  Sound(t, Out(t))
<1>1. Counted(t) /\ Whole(t)
  BY DEF Sound, Counted, Whole, Dropped, Alike
<1>2. ASSUME NEW r \in Kinds
      PROVE  \/ t.workers[r] = m.workers[r] /\ Out(t)[r] = Out(m)[r]
             \/ t.workers[r] = NoWorker /\ Out(t)[r] = <<>>
  BY OutIs, NoWorkerIs DEF Dropped
<1>3. ASSUME NEW r \in Kinds PROVE Sane(t.workers[r], Out(t)[r], t.opened)
  <2>1. Sane(m.workers[r], Out(m)[r], t.opened)
    BY DEF Sound, Sanes, Dropped, Alike
  <2> QED
    BY <1>2, <2>1, NoWorkerSane
<1>4. ASSUME NEW s \in DOMAIN t.live, NEW r \in Kinds PROVE Track(t.live[s], s, r, t.workers[r], Out(t)[r])
  <2>1. Track(t.live[s], s, r, m.workers[r], Out(m)[r])
    BY DEF Sound, Tracks, Dropped
  <2>2. NoWorker.inbox = <<>> /\ DOMAIN NoWorker.hosted = {}
    BY NoWorkerIs, NobodyIs
  <2>3. Track(t.live[s], s, r, NoWorker, <<>>)
    BY <2>1, <2>2, ResetKeeps
  <2> QED
    BY <1>2, <2>1, <2>3
<1> QED
  BY <1>1, <1>3, <1>4 DEF Sound, Sanes, Tracks

(* The worker a session is launched in. *)
LEMMA HiredIs ==
  ASSUME NEW w \in Worker
  PROVE  /\ Hired(w) \in Worker
         /\ \/ Hired(w) = w /\ w.known
            \/ Hired(w) = Spawned /\ Spawned.inbox = <<>> /\ DOMAIN Spawned.hosted = {} /\ Spawned.outbox = <<>>
                 /\ Spawned.alive = TRUE /\ Spawned.known = TRUE
BY NoWorkerIs, NobodyIs DEF Hired

LEMMA HiredSane ==
  ASSUME NEW w \in Worker, NEW k, Sane(w, w.outbox, k)
  PROVE  Sane(Hired(w), Hired(w).outbox, k)
<1>1. CASE Hired(w) = w
  BY <1>1
<1>2. CASE Hired(w) # w
  <2>1. /\ Hired(w) = Spawned /\ Spawned.inbox = <<>> /\ DOMAIN Spawned.hosted = {} /\ Spawned.outbox = <<>>
        /\ Spawned.alive = TRUE /\ Spawned.known = TRUE
    BY <1>2, HiredIs
  <2>2. Sane(Spawned, <<>>, k)
    BY <2>1 DEF Sane
  <2> QED
    BY <2>1, <2>2
<1> QED
  BY <1>1, <1>2

LEMMA HiredKeeps ==
  ASSUME NEW x, NEW s, NEW r, NEW w \in Worker, Track(x, s, r, w, w.outbox)
  PROVE  Track(x, s, r, Hired(w), Hired(w).outbox)
<1>1. CASE Hired(w) = w
  BY <1>1
<1>2. CASE Hired(w) # w
  <2>1. Hired(w) = Spawned /\ Spawned.inbox = <<>> /\ DOMAIN Spawned.hosted = {} /\ Spawned.outbox = <<>>
    BY <1>2, HiredIs
  <2>2. Track(x, s, r, Spawned, <<>>)
    BY <2>1, ResetKeeps
  <2> QED
    BY <2>1, <2>2
<1> QED
  BY <1>1, <1>2

(* What a worker has of s does not exceed the frames of overlay o. *)
Fits(s, o, w, q) ==
  /\ \A i \in 1..Len(w.inbox) : OpenAt(w.inbox, s, i) => w.inbox[i].count <= FrameCount[o]
  /\ s \in DOMAIN w.hosted => w.hosted[s].count <= FrameCount[o]
  /\ \A i \in 1..Len(q) : FrameAt(q, s, i) => q[i].sequence <= FrameCount[o]

LEMMA FitsIs ==
  ASSUME NEW s, NEW w, NEW q
  PROVE  /\ \A x : Within(x, s, w, q) => Fits(s, x.overlay, w, q)
         /\ \A x \in Playing : x.last = 0 /\ Fits(s, x.overlay, w, q) => Within(x, s, w, q)
         /\ \A o : Unknown(s, w, q) => Fits(s, o, w, q)
<1>1. \A x : Within(x, s, w, q) => Fits(s, x.overlay, w, q)
  BY DEF Within, Fits
<1>2. ASSUME NEW x \in Playing, x.last = 0, Fits(s, x.overlay, w, q) PROVE Within(x, s, w, q)
  <2>0. x.overlay \in Overlays
    BY PlayingIs
  <2>1. FrameCount[x.overlay] \in Nat /\ 0 <= FrameCount[x.overlay]
    BY <2>0, MediaAssumption, SMTT(40)
  <2> QED
    BY <1>2, <2>1 DEF Within, Fits
<1>3. \A o : Unknown(s, w, q) => Fits(s, o, w, q)
  BY DEF Unknown, Fits, About, OpenAt, FrameAt
<1> QED
  BY <1>1, <1>2, <1>3

LEMMA EmptyFits ==
  ASSUME NEW s, NEW w, w.inbox = <<>>, DOMAIN w.hosted = {}
  PROVE  /\ \A o : Fits(s, o, w, <<>>)
         /\ Unknown(s, w, <<>>)
BY DEF Fits, Unknown, About

LEMMA HiredFits ==
  ASSUME NEW s, NEW o, NEW w \in Worker, Fits(s, o, w, w.outbox)
  PROVE  Fits(s, o, Hired(w), Hired(w).outbox)
BY HiredIs, EmptyFits

LEMMA HiredUnknown ==
  ASSUME NEW s, NEW w \in Worker, Unknown(s, w, w.outbox)
  PROVE  Unknown(s, Hired(w), Hired(w).outbox)
BY HiredIs, EmptyFits

AllFit(m, s, o) == \A r \in Kinds : Fits(s, o, m.workers[r], m.workers[r].outbox)
NoneKnows(m, s) == \A r \in Kinds : Unknown(s, m.workers[r], m.workers[r].outbox)

LEMMA LaunchSound ==
  ASSUME NEW m \in MediaType, NEW s \in 1..m.opened, NEW x \in Playing, Sound(m, Out(m)), s \notin DOMAIN m.live,
         x.last = 0, m.workers[x.runtime].known => m.workers[x.runtime].alive,
         AllFit(m, s, x.overlay), ~x.relaunched => x.restarts = 0 /\ NoneKnows(m, s)
  PROVE  Sound(Launched(m, s, x), Out(Launched(m, s, x)))
<1> DEFINE n == Launched(m, s, x)
           a == OpenRequest(s, x)
           r == x.runtime
           h == Hired(m.workers[r])
<1>1. m.workers \in [Kinds -> Worker] /\ m.live \in Partial(Playing) /\ r \in Kinds /\ s \in Nat /\ m.opened \in Nat
  BY MediaIs, PlayingIs
<1>2. /\ n \in MediaType /\ n.live = With(m.live, s, x) /\ Alike(m, n)
      /\ \A y \in Kinds : n.workers[y] = IF y = r THEN Posted(h, a) ELSE m.workers[y]
  BY <1>1, LaunchedIs, SMTT(40)
<1>3. a \in Requests /\ a.session = s /\ s <= m.opened
  BY <1>1, RequestsAre
<1>4. h \in Worker /\ h.alive
  BY <1>1, HiredIs
<1>5. /\ Grows(h.inbox, Posted(h, a).inbox, a) /\ Posted(h, a).hosted = h.hosted
      /\ Posted(h, a).outbox = h.outbox
  <2> HIDE DEF h, a
  <2> QED
    BY <1>3, <1>4, PostedGrows
<1>6. /\ DOMAIN n.live = DOMAIN m.live \cup {s} /\ n.live[s] = x
      /\ \A t \in DOMAIN m.live : n.live[t] = m.live[t]
  <2> HIDE DEF n
  <2>1. /\ DOMAIN With(m.live, s, x) = DOMAIN m.live \cup {s} /\ With(m.live, s, x)[s] = x
        /\ \A y \in DOMAIN m.live : y # s => With(m.live, s, x)[y] = m.live[y]
    BY DEF With
  <2> QED
    BY <1>2, <2>1
<1>7. \A y \in Kinds : Sane(m.workers[y], m.workers[y].outbox, m.opened)
  BY OutIs DEF Sound, Sanes
<1>8. \A t \in DOMAIN m.live : \A y \in Kinds : Track(m.live[t], t, y, m.workers[y], m.workers[y].outbox)
  BY OutIs DEF Sound, Tracks
<1> HIDE DEF n
<1>9. \A y \in Kinds : Out(n)[y] = n.workers[y].outbox
  BY <1>2, OutIs
<1>10. Counted(n) /\ Whole(n)
  BY <1>1, <1>2, <1>6 DEF Sound, Counted, Whole, Alike
<1>11. Sane(Posted(h, a), h.outbox, m.opened)
  <2>1. Sane(h, h.outbox, m.opened)
    BY <1>1, <1>7, HiredSane
  <2> HIDE DEF h, a
  <2> QED
    BY <1>3, <1>4, <2>1, PostedSane
<1>12. ASSUME NEW y \in Kinds PROVE Sane(n.workers[y], Out(n)[y], n.opened)
  BY <1>2, <1>5, <1>7, <1>9, <1>11 DEF Alike
<1>13. ASSUME NEW t \in DOMAIN m.live PROVE Track(m.live[t], t, r, Posted(h, a), h.outbox)
  <2>1. Track(m.live[t], t, r, h, h.outbox)
    BY <1>1, <1>8, HiredKeeps
  <2>2. a.session # t
    BY <1>3
  <2> HIDE DEF h, a, r
  <2> QED
    BY <1>5, <2>1, <2>2, AddKeeps
<1>14. Track(x, s, r, Posted(h, a), h.outbox)
  <2>1. Fits(s, x.overlay, h, h.outbox)
    BY <1>1, HiredFits DEF AllFit
  <2>2. ~x.relaunched => x.restarts = 0 /\ Unknown(s, h, h.outbox)
    BY <1>1, HiredUnknown DEF NoneKnows
  <2> HIDE DEF h
  <2>3. Within(x, s, h, h.outbox)
    BY <2>1, FitsIs
  <2> DEFINE v == Posted(h, a)
  <2>4. Grows(h.inbox, v.inbox, OpenRequest(s, x)) /\ v.hosted = h.hosted
    BY <1>5
  <2> HIDE DEF v
  <2>5. Track(x, s, r, v, h.outbox)
    BY <1>1, <2>2, <2>3, <2>4, NewTracks
  <2> QED
    BY <2>5 DEF v
<1>15. ASSUME NEW y \in Kinds, y # r PROVE Track(x, s, y, m.workers[y], m.workers[y].outbox)
  <2>1. Within(x, s, m.workers[y], m.workers[y].outbox)
    BY FitsIs DEF AllFit
  <2>2. ~x.relaunched => x.restarts = 0 /\ Unknown(s, m.workers[y], m.workers[y].outbox)
    BY DEF NoneKnows
  <2> QED
    BY <1>15, <2>1, <2>2, NewElsewhere
<1> HIDE DEF h, a
<1>16. ASSUME NEW t \in DOMAIN n.live, NEW y \in Kinds PROVE Track(n.live[t], t, y, n.workers[y], Out(n)[y])
  <2>1. CASE t = s
    BY <1>2, <1>5, <1>6, <1>9, <1>14, <1>15, <2>1
  <2>2. CASE t # s
    BY <1>2, <1>5, <1>6, <1>8, <1>9, <1>13, <2>2
  <2> QED
    BY <2>1, <2>2
<1>17. Sound(n, Out(n))
  BY <1>10, <1>12, <1>16 DEF Sound, Sanes, Tracks
<1> QED
  BY <1>17 DEF n

LEMMA DroppedFits ==
  ASSUME NEW m \in MediaType, NEW t, Dropped(m, t), NEW s, NEW o
  PROVE  (AllFit(m, s, o) => AllFit(t, s, o)) /\ (NoneKnows(m, s) => NoneKnows(t, s))
<1>1. NoWorker.inbox = <<>> /\ DOMAIN NoWorker.hosted = {} /\ NoWorker.outbox = <<>>
  BY NoWorkerIs, NobodyIs
<1>2. Fits(s, o, NoWorker, NoWorker.outbox) /\ Unknown(s, NoWorker, NoWorker.outbox)
  BY <1>1, EmptyFits
<1> QED
  BY <1>2 DEF Dropped, AllFit, NoneKnows

LEMMA OutcomeSound ==
  ASSUME NEW m \in MediaType, NEW n, NEW s \in 1..m.opened, NEW o \in Overlays, NEW g \in Nat,
         NEW relaunched \in BOOLEAN, Outcome(m, n, s, o, g, relaunched), Sound(m, Out(m)),
         s \notin DOMAIN m.live, AllFit(m, s, o), ~relaunched => NoneKnows(m, s)
  PROVE  n \in MediaType /\ Sound(n, Out(n)) /\ n.opened = m.opened
<1>1. PICK t \in MediaType : Dropped(m, t) /\ Ends(t, n, s, o, g, relaunched)
  BY DEF Outcome
<1>2. Sound(t, Out(t)) /\ AllFit(t, s, o) /\ (~relaunched => NoneKnows(t, s))
  BY <1>1, DroppedSound, DroppedFits
<1>3. t.live = m.live /\ t.opened = m.opened
  BY <1>1 DEF Dropped, Alike
<1>4. CASE n = GaveUp(t, o)
  <2> DEFINE P == t.pending \cup {o}
  <2>1. P \in SUBSET Overlays
    BY MediaIs
  <2>2. n = [t EXCEPT !.pending = P]
    BY <1>4 DEF GaveUp
  <2> HIDE DEF P
  <2>3. /\ n \in MediaType /\ n.live = t.live /\ n.workers = t.workers
        /\ n.indexed = t.indexed /\ n.sessions = t.sessions /\ n.frames = t.frames /\ n.opened = t.opened
    BY <2>1, <2>2, PendingIs
  <2>4. \A p \in Overlays : n.sessions[p] <= n.opened
    BY <1>2, <2>3 DEF Sound, Counted
  <2>5. Whole(n)
    BY <1>2, <2>3 DEF Sound, Whole
  <2>6. Out(n) = Out(t)
    BY <2>3 DEF Out
  <2>7. Sound(n, Out(t))
    BY <1>2, <2>3, <2>4, <2>5, SoundSame
  <2> QED
    BY <1>3, <2>3, <2>6, <2>7
<1>5. ASSUME NEW r \in Kinds, NEW rest \in Seq(Kinds), NEW restarts \in 0..MaxRestarts,
             t.workers[r].known => t.workers[r].alive, ~relaunched => restarts = 0,
             n = Launched(t, s, Session(o, g, r, rest, restarts, relaunched))
      PROVE  n \in MediaType /\ Sound(n, Out(n)) /\ n.opened = m.opened
  <2> DEFINE x == Session(o, g, r, rest, restarts, relaunched)
  <2>1. /\ x \in Playing /\ x.overlay = o /\ x.runtime = r /\ x.restarts = restarts
        /\ x.relaunched = relaunched /\ x.last = 0
    BY SessionIs
  <2>2. n = Launched(t, s, x)
    BY <1>5
  <2> HIDE DEF x
  <2>3. s \in 1..t.opened /\ s \in Nat
    BY <1>3, MediaIs
  <2>4. Sound(n, Out(n))
    BY <1>2, <1>3, <1>5, <2>1, <2>2, <2>3, LaunchSound
  <2>5. n \in MediaType /\ Alike(t, n)
    BY <2>1, <2>2, <2>3, LaunchedIs
  <2> QED
    BY <1>3, <2>4, <2>5 DEF Alike
<1> QED
  BY <1>1, <1>4, <1>5 DEF Ends

(* What a launch or the lack of one leaves. *)
Resolves(m, n, s, o, g, relaunched) ==
  /\ n \in MediaType
  /\ n.indexed = m.indexed /\ n.sessions = m.sessions /\ n.parked = m.parked /\ n.frames = m.frames
  /\ n.opened = m.opened /\ n.astray = m.astray
  /\ \/ n.live = m.live /\ n.pending = m.pending \cup {o}
     \/ /\ n.pending = m.pending
        /\ \E x \in Playing : /\ x.overlay = o /\ x.generation = g /\ x.relaunched = relaunched
                              /\ n.live = With(m.live, s, x)

LEMMA OutcomeIs ==
  ASSUME NEW m, NEW n, NEW s \in Nat, NEW o \in Overlays, NEW g \in Nat,
         NEW relaunched \in BOOLEAN, Outcome(m, n, s, o, g, relaunched)
  PROVE  Resolves(m, n, s, o, g, relaunched)
<1>1. PICK t \in MediaType : Dropped(m, t) /\ Ends(t, n, s, o, g, relaunched)
  BY DEF Outcome
<1>2. t.live = m.live /\ Alike(m, t)
  BY <1>1 DEF Dropped
<1>3. CASE n = GaveUp(t, o)
  <2> DEFINE P == t.pending \cup {o}
  <2>1. P \in SUBSET Overlays
    BY MediaIs
  <2>2. n = [t EXCEPT !.pending = P]
    BY <1>3 DEF GaveUp
  <2> HIDE DEF P
  <2>3. /\ n \in MediaType /\ n.live = t.live /\ n.workers = t.workers /\ n.pending = P
        /\ n.indexed = t.indexed /\ n.sessions = t.sessions /\ n.parked = t.parked /\ n.frames = t.frames
        /\ n.opened = t.opened /\ n.astray = t.astray
    BY <2>1, <2>2, PendingIs
  <2> QED
    BY <1>2, <2>3 DEF P, Resolves, Alike
<1>4. ASSUME NEW r \in Kinds, NEW rest \in Seq(Kinds), NEW restarts \in 0..MaxRestarts,
             n = Launched(t, s, Session(o, g, r, rest, restarts, relaunched))
      PROVE  Resolves(m, n, s, o, g, relaunched)
  <2> DEFINE x == Session(o, g, r, rest, restarts, relaunched)
  <2>1. x \in Playing /\ x.overlay = o /\ x.generation = g /\ x.relaunched = relaunched
    BY SessionIs
  <2>2. n = Launched(t, s, x)
    BY <1>4
  <2> HIDE DEF x
  <2>3. n \in MediaType /\ Alike(t, n) /\ n.live = With(t.live, s, x)
    BY <2>1, <2>2, LaunchedIs
  <2> QED
    BY <1>2, <2>1, <2>3 DEF Alike, Resolves
<1> QED
  BY <1>1, <1>3, <1>4 DEF Ends

(* Opened, as the steps of it. *)
LEMMA OpenedSteps ==
  ASSUME NEW m \in MediaType, NEW o \in Overlays, NEW broken
  PROVE  \E n : /\ Outcome(Numbers(m, o), n, m.opened + 1, o, m.indexed, FALSE)
                /\ Resolves(Numbers(m, o), n, m.opened + 1, o, m.indexed, FALSE)
                /\ Opened(m, o, broken) = IF m.opened + 1 \in DOMAIN n.live THEN n
                                          ELSE [n EXCEPT !.astray = n.astray \cup {o}]
<1> DEFINE n == FellBack(Numbers(m, o), m.opened + 1, o, m.indexed, Runtimes, FALSE, broken)
<1>1. /\ Outcome(Numbers(m, o), n, m.opened + 1, o, m.indexed, FALSE)
      /\ Opened(m, o, broken) = IF m.opened + 1 \in DOMAIN n.live THEN n
                                ELSE [n EXCEPT !.astray = n.astray \cup {o}]
  BY OpenedIs
<1>2. m.opened + 1 \in Nat /\ m.indexed \in Nat
  BY MediaIs
<1> HIDE DEF n
<1>3. Resolves(Numbers(m, o), n, m.opened + 1, o, m.indexed, FALSE)
  BY <1>1, <1>2, OutcomeIs
<1> QED
  BY <1>1, <1>3

LEMMA OpenedSound ==
  ASSUME NEW m \in MediaType, NEW o \in Overlays, NEW broken, Sound(m, Out(m)), m.indexed # 0
  PROVE  LET k == Opened(m, o, broken) IN
         k \in MediaType /\ Sound(k, Out(k)) /\ k.indexed = m.indexed /\ k.frames = m.frames /\ k.parked = m.parked
<1> DEFINE b == Numbers(m, o)
           s == m.opened + 1
           k == Opened(m, o, broken)
<1>1. PICK n : /\ Outcome(b, n, s, o, m.indexed, FALSE) /\ Resolves(b, n, s, o, m.indexed, FALSE)
               /\ k = IF s \in DOMAIN n.live THEN n ELSE [n EXCEPT !.astray = n.astray \cup {o}]
  BY OpenedSteps, ZenonT(60)
<1>2. /\ b \in MediaType /\ b.live = m.live /\ b.workers = m.workers /\ b.opened = s
      /\ \A p \in Overlays : b.sessions[p] = IF p = o THEN s ELSE m.sessions[p]
      /\ b.indexed = m.indexed /\ b.parked = m.parked /\ b.frames = m.frames
  BY NumbersIs
<1>3. m.opened \in Nat /\ s \in Nat /\ m.indexed \in Nat /\ m.sessions \in [Overlays -> Nat]
      /\ m.workers \in [Kinds -> Worker]
  BY MediaIs
<1> HIDE DEF b, k
<1>4. Out(b) = Out(m)
  BY <1>2 DEF Out
<1>5. Counted(b) /\ Whole(b)
  BY <1>2, <1>3 DEF Sound, Counted, Whole
<1>6. \A r \in Kinds : Sane(m.workers[r], Out(m)[r], m.opened) /\ \A t \in DOMAIN m.workers[r].hosted : t \in Nat
  BY <1>3, WorkerIs, PartialIs DEF Sound, Sanes
<1>7. ASSUME NEW r \in Kinds
      PROVE  Sane(m.workers[r], Out(m)[r], s) /\ Unknown(s, m.workers[r], Out(m)[r])
  <2> DEFINE w == m.workers[r]
             q == Out(m)[r]
  <2>0. w.inbox \in Seq(Requests) /\ q \in Seq(Events)
    BY <1>3, WorkerIs, OutIs
  <2>1. \A i \in 1..Len(w.inbox) : w.inbox[i].session \in Nat
    <3>1. \A a \in Requests : a.session \in Nat
      BY DEF Requests, OpenKind, CloseKind, ActiveKind, ReleaseKind
    <3> HIDE DEF w
    <3> QED
      BY <2>0, <3>1, ElementOfSeq
  <2>2. \A i \in 1..Len(q) : q[i].session \in Nat
    <3>1. \A a \in Events : a.session \in Nat
      BY DEF Events, FrameKind, FailedKind
    <3> HIDE DEF q
    <3> QED
      BY <2>0, <3>1, ElementOfSeq
  <2>3. Sane(w, q, m.opened) /\ \A t \in DOMAIN w.hosted : t \in Nat
    BY <1>6
  <2> HIDE DEF w, q
  <2>4. Sane(w, q, s)
    BY <1>3, <2>1, <2>2, <2>3 DEF Sane
  <2>5. Unknown(s, w, q)
    BY <1>3, <2>1, <2>2, <2>3 DEF Sane, Unknown, About
  <2> QED
    BY <2>4, <2>5 DEF w, q
<1>8. Sound(b, Out(b))
  BY <1>2, <1>4, <1>5, <1>7 DEF Sound, Sanes, Tracks
<1>9. NoneKnows(b, s)
  BY <1>2, <1>7, OutIs DEF NoneKnows
<1>10. AllFit(b, s, o)
  BY <1>9, FitsIs DEF AllFit, NoneKnows
<1>11. s \notin DOMAIN b.live /\ s \in 1..b.opened
  BY <1>2, <1>3 DEF Sound, Counted
<1>12. n \in MediaType /\ Sound(n, Out(n)) /\ n.opened = b.opened
  <2> HIDE DEF s
  <2> QED
    BY <1>1, <1>2, <1>3, <1>8, <1>9, <1>10, <1>11, OutcomeSound
<1>13. n.indexed = m.indexed /\ n.frames = m.frames /\ n.parked = m.parked
  BY <1>1, <1>2 DEF Resolves
<1>14. CASE k = n
  BY <1>12, <1>13, <1>14 DEF k
<1>15. CASE k = [n EXCEPT !.astray = n.astray \cup {o}]
  <2> DEFINE P == n.astray \cup {o}
  <2>1. P \in SUBSET Overlays
    BY <1>12, MediaIs
  <2>2. k = [n EXCEPT !.astray = P]
    BY <1>15
  <2> HIDE DEF P
  <2>3. /\ k \in MediaType /\ k.live = n.live /\ k.workers = n.workers
        /\ k.indexed = n.indexed /\ k.sessions = n.sessions /\ k.frames = n.frames /\ k.opened = n.opened
        /\ k.parked = n.parked
    BY <1>12, <2>1, <2>2, UnopenedIs
  <2>4. (\A p \in Overlays : k.sessions[p] <= k.opened) /\ Whole(k)
    BY <1>12, <2>3 DEF Sound, Counted, Whole
  <2>5. Out(k) = Out(n)
    BY <2>3 DEF Out
  <2>6. Sound(k, Out(n))
    BY <1>12, <2>3, <2>4, SoundSame
  <2> QED
    BY <1>13, <2>3, <2>5, <2>6 DEF k
<1> QED
  BY <1>1, <1>14, <1>15

LEMMA ClosedSteps ==
  ASSUME NEW m \in MediaType, NEW s \in DOMAIN m.live
  PROVE  LET n == Closed(m, s) IN
         /\ n \in MediaType /\ Alike(m, n) /\ Fewer(m, n) /\ n.live = Without(m.live, {s})
         /\ Sent(m, n, m.live[s].runtime, CloseRequest(s)) /\ s \notin DOMAIN n.live
<1> DEFINE n == Closed(m, s)
           r == m.live[s].runtime
<1>1. m.live \in Partial(Playing) /\ m.live[s] \in Playing /\ s \in Nat
  BY MediaIs, PartialIs
<1>2. r \in Kinds /\ CloseRequest(s) \in Requests
  BY <1>1, PlayingIs, RequestsAre
<1>3. /\ n \in MediaType /\ Alike(m, n) /\ n.live = Without(m.live, {s})
      /\ n.workers = Send(m, r, CloseRequest(s)).workers
  BY <1>1, ClosedIs
<1> HIDE DEF n
<1>4. Sent(m, n, r, CloseRequest(s))
  BY <1>2, <1>3, SendIs DEF Sent
<1>5. Fewer(m, n) /\ s \notin DOMAIN n.live
  BY <1>3 DEF Fewer, Without
<1> QED
  BY <1>3, <1>4, <1>5 DEF n

LEMMA ClosedSound ==
  ASSUME NEW m \in MediaType, NEW s \in Nat, NEW out, Sound(m, out)
  PROVE  LET n == Closed(m, s) IN n \in MediaType /\ Sound(n, out) /\ Alike(m, n) /\ Out(n) = Out(m)
<1> DEFINE n == Closed(m, s)
<1>1. CASE s \notin DOMAIN m.live
  <2>1. n = m
    BY <1>1, ClosedIs
  <2> QED
    BY <2>1 DEF Alike
<1>2. CASE s \in DOMAIN m.live
  <2> DEFINE r == m.live[s].runtime
             a == CloseRequest(s)
  <2>1. /\ n \in MediaType /\ Alike(m, n) /\ Fewer(m, n) /\ Sent(m, n, r, a) /\ s \notin DOMAIN n.live
    BY <1>2, ClosedSteps
  <2>2. r \in Kinds
    BY <1>2, MediaIs, PartialIs, PlayingIs
  <2>3. a \in Requests /\ a.session = s
    BY RequestsAre
  <2>4. a.session <= m.opened
    BY <1>2, <2>3, MediaIs DEF Sound, Counted
  <2> HIDE DEF n, r, a
  <2>5. Sound(n, out)
    BY <2>1, <2>2, <2>3, <2>4, PostSound
  <2>6. m.workers \in [Kinds -> Worker]
    BY MediaIs
  <2>7. \A x \in Kinds : n.workers[x].outbox = m.workers[x].outbox
    BY <2>1, <2>2, <2>3, <2>6, PostedGrows DEF Sent
  <2> QED
    BY <2>1, <2>5, <2>7 DEF Out, n
<1> QED
  BY <1>1, <1>2

LEMMA RecoveredSound ==
  ASSUME NEW m \in MediaType, NEW s \in Nat, NEW error, NEW broken, Sound(m, Out(m))
  PROVE  LET n == Recovered(m, s, error, broken) IN n \in MediaType /\ Sound(n, Out(n))
<1> DEFINE n == Recovered(m, s, error, broken)
           k == Closed(m, s)
<1>1. CASE s \notin DOMAIN m.live
  <2>1. n = m
    BY <1>1 DEF Recovered
  <2> QED
    BY <2>1
<1>2. CASE s \in DOMAIN m.live
  <2> DEFINE o == m.live[s].overlay
             g == m.live[s].generation
             c == CloseRequest(s)
  <2>1. /\ k \in MediaType /\ Alike(m, k) /\ s \notin DOMAIN k.live /\ Sent(m, k, m.live[s].runtime, c)
    BY <1>2, ClosedSteps
  <2>2. Sound(k, Out(k))
    BY ClosedSound
  <2>3. Outcome(k, n, s, o, g, TRUE)
    BY <1>2, RecoveredIs
  <2>4. m.live[s] \in Playing /\ m.workers \in [Kinds -> Worker]
    BY <1>2, MediaIs, PartialIs
  <2>5. o \in Overlays /\ g \in Nat /\ m.live[s].runtime \in Kinds
    BY <2>4, PlayingIs
  <2>6. c \in Requests /\ c.kind = "Close"
    BY RequestsAre
  <2> HIDE DEF n, k, c
  <2>7. ASSUME NEW r \in Kinds PROVE Fits(s, o, k.workers[r], k.workers[r].outbox)
    <3> DEFINE w == m.workers[r]
               v == Posted(w, c)
    <3>1. Within(m.live[s], s, w, w.outbox)
      BY <1>2, OutIs DEF Sound, Tracks, Track
    <3>2. Fits(s, o, w, w.outbox)
      BY <3>1, FitsIs
    <3>3. Grows(w.inbox, v.inbox, c) /\ v.hosted = w.hosted /\ v.outbox = w.outbox
      BY <2>4, <2>6, PostedGrows
    <3>4. k.workers[r] = w \/ k.workers[r] = v
      BY <2>1 DEF Sent
    <3> HIDE DEF w, v, o
    <3>5. \A i \in 1..Len(v.inbox) : OpenAt(v.inbox, s, i) => i \in 1..Len(w.inbox) /\ v.inbox[i] = w.inbox[i]
      BY <2>6, <3>3, GrowsAt DEF OpenAt
    <3>6. Fits(s, o, v, v.outbox)
      BY <3>2, <3>3, <3>5 DEF Fits, OpenAt
    <3> QED
      BY <3>2, <3>4, <3>6
  <2>8. AllFit(k, s, o)
    BY <2>7 DEF AllFit
  <2>9. s \in 1..k.opened
    BY <1>2, <2>1 DEF Sound, Counted, Alike
  <2> HIDE DEF o, g
  <2> DEFINE yes == TRUE
  <2>10. yes \in BOOLEAN /\ (~yes => NoneKnows(k, s)) /\ Outcome(k, n, s, o, g, yes)
    BY <2>3
  <2> HIDE DEF yes
  <2>11. n \in MediaType /\ Sound(n, Out(n))
    BY <2>1, <2>2, <2>5, <2>8, <2>9, <2>10, OutcomeSound
  <2> QED
    BY <2>11 DEF n
<1> QED
  BY <1>1, <1>2

(* A session is told to play or to pause. *)
LEMMA ToldSteps ==
  ASSUME NEW m \in MediaType, NEW s \in Nat, NEW b \in BOOLEAN
  PROVE  LET n == SetActive(m, s, b) IN
         /\ n \in MediaType /\ Alike(m, n) /\ n.live = m.live
         /\ s \notin DOMAIN m.live => n = m
         /\ s \in DOMAIN m.live => Sent(m, n, m.live[s].runtime, ActiveRequest(s, b))
<1>1. CASE s \notin DOMAIN m.live
  BY <1>1 DEF SetActive, Alike
<1>2. CASE s \in DOMAIN m.live
  <2>1. m.live[s].runtime \in Kinds /\ ActiveRequest(s, b) \in Requests
    BY <1>2, MediaIs, PartialIs, PlayingIs, RequestsAre
  <2> QED
    BY <1>2, <2>1, SendIs DEF SetActive, Sent
<1> QED
  BY <1>1, <1>2

LEMMA ToldSound ==
  ASSUME NEW m \in MediaType, NEW s \in Nat, NEW b \in BOOLEAN, NEW out, Sound(m, out)
  PROVE  LET n == SetActive(m, s, b) IN Sound(n, out) /\ Out(n) = Out(m)
<1> DEFINE n == SetActive(m, s, b)
           a == ActiveRequest(s, b)
           r == m.live[s].runtime
<1>1. /\ n \in MediaType /\ Alike(m, n) /\ n.live = m.live
      /\ s \notin DOMAIN m.live => n = m
      /\ s \in DOMAIN m.live => Sent(m, n, r, a)
  BY ToldSteps
<1>2. CASE s \notin DOMAIN m.live
  BY <1>1, <1>2
<1>3. CASE s \in DOMAIN m.live
  <2>1. r \in Kinds
    BY <1>3, MediaIs, PartialIs, PlayingIs
  <2>2. a \in Requests /\ a.session = s /\ a.kind = "SetActive"
    BY RequestsAre
  <2>3. a.session <= m.opened
    BY <1>3, <2>2, MediaIs DEF Sound, Counted
  <2> HIDE DEF n, a
  <2>4. Fewer(m, n) /\ \A t \in DOMAIN n.live : a.session = t => a.kind = "SetActive" /\ n.live[t].runtime = r
    BY <1>1, <2>2 DEF Fewer
  <2> HIDE DEF r
  <2>5. Sound(n, out)
    BY <1>1, <1>3, <2>1, <2>2, <2>3, <2>4, PostSound
  <2>6. m.workers \in [Kinds -> Worker]
    BY MediaIs
  <2>7. \A x \in Kinds : n.workers[x].outbox = m.workers[x].outbox
    BY <1>1, <1>3, <2>1, <2>2, <2>6, PostedGrows DEF Sent
  <2> QED
    BY <2>5, <2>7 DEF Out, n
<1> QED
  BY <1>2, <1>3

(* A message is heard: what a worker said, without it. *)
Heard1(out, p, r) ==
  /\ Pops(out[r], p[r])
  /\ \A y \in Kinds : y # r => p[y] = out[y]

LEMMA PoppedSane ==
  ASSUME NEW w, NEW q, NEW p, NEW k, Sane(w, q, k), Pops(q, p)
  PROVE  Sane(w, p, k)
<1>1. \A i \in 1..Len(p) : i + 1 \in 1..Len(q) /\ p[i] = q[i + 1]
  BY PopsAt
<1> QED
  BY <1>1 DEF Sane

(* Its slot goes back, whether the frame is taken or not. *)
Back(w, v, f) ==
  \/ w.alive /\ Grows(w.inbox, v.inbox, ReleaseRequest(f)) /\ v.hosted = w.hosted
  \/ ~w.alive /\ v = w

LEMMA BackKeeps ==
  ASSUME NEW x, NEW y, NEW s, NEW r, NEW w, NEW v, NEW q, NEW p, NEW k, Track(x, s, r, w, q), Pops(q, p),
         q[1] \in FrameKind, Sane(w, q, k), s \in DOMAIN w.hosted => w.hosted[s].held \subseteq Held,
         Back(w, v, q[1]),
         q[1].session = s => Later(x, y, q[1].sequence), q[1].session # s => y = x
  PROVE  Track(y, s, r, v, p)
<1>1. CASE q[1].session = s /\ w.alive
  BY <1>1, ReturnKeeps DEF Back
<1>2. CASE q[1].session = s /\ ~w.alive
  <2>1. v = w /\ w.inbox = <<>> /\ s \notin DOMAIN w.hosted
    BY <1>2, NobodyIs DEF Back, Sane
  <2> QED
    BY <1>2, <2>1, DeadKeeps
<1>3. CASE q[1].session # s
  <2>1. ~FrameAt(q, s, 1)
    BY <1>3 DEF FrameAt
  <2>2. Track(x, s, r, w, p)
    BY <2>1, PopKeeps
  <2>3. ReleaseRequest(q[1]).session # s
    BY <1>3, ReleaseIs
  <2> DEFINE a == ReleaseRequest(q[1])
  <2> HIDE DEF a
  <2>4. CASE w.alive
    <3>1. Grows(w.inbox, v.inbox, a) /\ v.hosted = w.hosted
      BY <2>4 DEF Back, a
    <3>2. a.session # s
      BY <2>3 DEF a
    <3>3. Track(x, s, r, v, p)
      BY <2>2, <3>1, <3>2, AddKeeps
    <3> QED
      BY <1>3, <3>3
  <2>5. CASE ~w.alive
    BY <1>3, <2>2, <2>5 DEF Back
  <2> QED
    BY <2>4, <2>5
<1> QED
  BY <1>1, <1>2, <1>3

(* Another worker has nothing to do with it. *)
LEMMA ElsewhereKeeps ==
  ASSUME NEW x, NEW y, NEW s, NEW r, NEW z, NEW w, NEW u, NEW q, NEW p, Track(x, s, r, w, q), Track(x, s, z, u, p),
         r # z, 1 \in 1..Len(q), FrameAt(q, s, 1), Later(x, y, q[1].sequence)
  PROVE  Track(y, s, z, u, p)
<1>1. q[1].sequence <= FrameCount[x.overlay]
  BY DEF Track, Within
<1>2. Within(y, s, u, p)
  BY <1>1 DEF Track, Within, Later
<1>3. ~x.relaunched => x.runtime = r
  BY DEF Track, FirstRun, Unknown, About, FrameAt
<1> QED
  BY <1>2, <1>3 DEF Track, FirstRun, Later

(* The session, as the supervisor has it after the frame. *)
LEMMA FrameTracks ==
  ASSUME NEW m \in MediaType, NEW n \in MediaType, NEW r \in Kinds, NEW out, NEW p, Sound(m, out), Heard1(out, p, r),
         out[r][1] \in FrameKind, Sent(m, n, r, ReleaseRequest(out[r][1])),
         DOMAIN n.live = DOMAIN m.live,
         \A s \in DOMAIN m.live : \/ n.live[s] = m.live[s]
                                  \/ out[r][1].session = s /\ Later(m.live[s], n.live[s], out[r][1].sequence)
  PROVE  Tracks(n, p)
<1> DEFINE f == out[r][1]
<1>1. m.workers \in [Kinds -> Worker]
  BY MediaIs
<1>2. ReleaseRequest(f) \in Requests
  BY ReleaseIs
<1> SUFFICES ASSUME NEW s \in DOMAIN m.live, NEW z \in Kinds
             PROVE  Track(n.live[s], s, z, n.workers[z], p[z])
  BY DEF Tracks
<1> DEFINE x == m.live[s]
           y == n.live[s]
<1>3. f.session = s => Later(x, y, f.sequence)
  BY DEF Later
<1>4. f.session # s => y = x
  OBVIOUS
<1>5. Track(x, s, z, m.workers[z], out[z])
  BY DEF Sound, Tracks
<1>6. CASE z = r
  <2>1. Sane(m.workers[r], out[r], m.opened)
    BY DEF Sound, Sanes
  <2>2. s \in DOMAIN m.workers[r].hosted => m.workers[r].hosted[s].held \subseteq Held
    <3>1. m.workers[r].hosted \in Partial(Ring)
      BY <1>1, WorkerIs
    <3> QED
      BY <3>1, PartialIs, RingIs
  <2>3. Back(m.workers[r], n.workers[r], f)
    <3>1. CASE m.workers[r].alive
      <4>1. n.workers[r] = Posted(m.workers[r], ReleaseRequest(f))
        BY <3>1 DEF Sent
      <4>2. /\ Grows(m.workers[r].inbox, Posted(m.workers[r], ReleaseRequest(f)).inbox, ReleaseRequest(f))
            /\ Posted(m.workers[r], ReleaseRequest(f)).hosted = m.workers[r].hosted
        BY <1>1, <1>2, PostedGrows
      <4> QED
        BY <3>1, <4>1, <4>2 DEF Back
    <3>2. CASE ~m.workers[r].alive
      BY <3>2 DEF Back, Sent
    <3> QED
      BY <3>1, <3>2
  <2>4. Pops(out[r], p[r])
    BY DEF Heard1
  <2> HIDE DEF x, y
  <2>5. Track(y, s, r, n.workers[r], p[r])
    BY <1>3, <1>4, <1>5, <1>6, <2>1, <2>2, <2>3, <2>4, BackKeeps
  <2> QED
    BY <1>6, <2>5 DEF y
<1>7. CASE z # r
  <2>1. n.workers[z] = m.workers[z] /\ p[z] = out[z]
    BY <1>7 DEF Sent, Heard1
  <2>2. CASE f.session = s
    <3>1. Track(x, s, r, m.workers[r], out[r])
      BY DEF Sound, Tracks
    <3>2. 1 \in 1..Len(out[r]) /\ FrameAt(out[r], s, 1)
      BY <2>2, PopsFrom, FrameIs DEF Heard1, FrameAt
    <3> HIDE DEF x, y
    <3>3. Track(y, s, z, m.workers[z], out[z])
      BY <1>3, <1>5, <1>7, <2>2, <3>1, <3>2, ElsewhereKeeps
    <3> QED
      BY <2>1, <3>3 DEF y
  <2>3. CASE f.session # s
    BY <1>4, <1>5, <2>1, <2>3
  <2> QED
    BY <2>2, <2>3
<1> QED
  BY <1>6, <1>7

LEMMA SentSane ==
  ASSUME NEW m \in MediaType, NEW n, NEW r \in Kinds, NEW request \in Requests, NEW out, NEW p,
         Sanes(m, out), Heard1(out, p, r), Sent(m, n, r, request), n.opened = m.opened, request.session <= m.opened
  PROVE  Sanes(n, p)
<1> SUFFICES ASSUME NEW z \in Kinds PROVE Sane(n.workers[z], p[z], n.opened)
  BY DEF Sanes
<1>1. Sane(m.workers[z], out[z], m.opened) /\ m.workers[z] \in Worker
  BY MediaIs DEF Sanes
<1>2. Sane(m.workers[z], p[z], n.opened)
  BY <1>1, PoppedSane DEF Heard1
<1>3. CASE z = r /\ m.workers[r].alive
  <2>1. n.workers[z] = Posted(m.workers[z], request)
    BY <1>3 DEF Sent
  <2>2. Sane(Posted(m.workers[z], request), p[z], n.opened)
    BY <1>1, <1>2, <1>3, PostedSane
  <2> QED
    BY <2>1, <2>2
<1>4. CASE ~(z = r /\ m.workers[r].alive)
  BY <1>2, <1>4 DEF Sent
<1> QED
  BY <1>3, <1>4

(* What it says is no frame of a session on its first run. *)
LEMMA SkippedSound ==
  ASSUME NEW m \in MediaType, NEW r \in Kinds, NEW out, NEW p, Sound(m, out), Heard1(out, p, r),
         \A s \in DOMAIN m.live : FrameAt(out[r], s, 1) => m.live[s].relaunched
  PROVE  Sound(m, p)
<1>1. ASSUME NEW z \in Kinds PROVE Sane(m.workers[z], p[z], m.opened)
  BY PoppedSane DEF Sound, Sanes, Heard1
<1>2. ASSUME NEW s \in DOMAIN m.live, NEW z \in Kinds PROVE Track(m.live[s], s, z, m.workers[z], p[z])
  <2>1. Track(m.live[s], s, z, m.workers[z], out[z])
    BY DEF Sound, Tracks
  <2>2. CASE z = r
    <3>1. Pops(out[z], p[z]) /\ (FrameAt(out[z], s, 1) => s \notin DOMAIN m.workers[z].hosted \/ m.live[s].relaunched)
      BY <2>2 DEF Heard1
    <3> QED
      BY <2>1, <3>1, PopKeeps
  <2> QED
    BY <2>1, <2>2 DEF Heard1
<1> QED
  BY <1>1, <1>2 DEF Sound, Sanes, Tracks

LEMMA FrameSound ==
  ASSUME NEW m \in MediaType, NEW r \in Kinds, NEW out, NEW p, NEW batch, Sound(m, out), Heard1(out, p, r),
         out[r][1] \in FrameKind
  PROVE  LET n == FrameReady(m, r, out[r][1], batch) IN n \in MediaType /\ Sound(n, p) /\ Out(n) = Out(m)
<1> DEFINE f == out[r][1]
           n == FrameReady(m, r, f, batch)
           a == ReleaseRequest(f)
<1>1. /\ a \in Requests /\ a.session = f.session /\ m.workers \in [Kinds -> Worker] /\ f \in FrameKind
      /\ m.live \in Partial(Playing)
  BY ReleaseIs, MediaIs
<1>2. 1 \in 1..Len(out[r])
  BY PopsFrom DEF Heard1
<1>3. a.session <= m.opened
  BY <1>1, <1>2 DEF Sound, Sanes, Sane
<1>4. \/ Superseded(f, batch) /\ n = Send(m, r, ReleaseRequest(f))
      \/ ~Superseded(f, batch) /\ n = m
           /\ (f.session \notin DOMAIN m.live
                 \/ (f.session \in DOMAIN m.live /\ m.live[f.session].first
                       /\ f.sequence <= m.live[f.session].last))
      \/ f.session \in DOMAIN m.live /\ Took(m, n, r, f)
           /\ (m.live[f.session].first => ~(f.sequence <= m.live[f.session].last))
  BY <1>1, FrameReadyIs
<1> HIDE DEF n, a
<1>5. ASSUME n \in MediaType, Sent(m, n, r, a) PROVE Out(n) = Out(m)
  <2>1. \A x \in Kinds : n.workers[x].outbox = m.workers[x].outbox
    BY <1>1, <1>5, PostedGrows DEF Sent
  <2> QED
    BY <2>1 DEF Out
<1>6. CASE Superseded(f, batch) /\ n = Send(m, r, a)
  <2>1. n \in MediaType /\ n.live = m.live /\ Alike(m, n) /\ Sent(m, n, r, a)
    BY <1>1, <1>6, SendIs DEF Sent
  <2>2. Counted(n) /\ Whole(n)
    BY <2>1 DEF Sound, Counted, Whole, Alike
  <2>3. Sanes(n, p)
    <3>1. Sanes(m, out) /\ n.opened = m.opened
      BY <2>1 DEF Sound, Alike
    <3> QED
      BY <1>1, <1>3, <2>1, <3>1, SentSane
  <2>4. Tracks(n, p)
    BY <2>1, FrameTracks DEF a
  <2> QED
    BY <1>5, <2>1, <2>2, <2>3, <2>4 DEF Sound, n
<1>7. CASE n = m /\ (f.session \notin DOMAIN m.live
                 \/ (f.session \in DOMAIN m.live /\ m.live[f.session].first
                       /\ f.sequence <= m.live[f.session].last))
  <2>1. ASSUME NEW s \in DOMAIN m.live, FrameAt(out[r], s, 1), ~m.live[s].relaunched PROVE FALSE
    <3>1. f.session = s /\ f.sequence <= m.live[s].last
      BY <1>7, <2>1 DEF FrameAt
    <3>2. FirstRun(m.live[s], s, r, m.workers[r], out[r])
      BY DEF Sound, Tracks, Track
    <3>3. m.live[s].runtime = r
      BY <1>2, <2>1, <3>1, <3>2 DEF FirstRun, Unknown, About
    <3>4. m.live[s].last < f.sequence
      BY <1>2, <2>1, <3>2, <3>3 DEF FirstRun, InOrder
    <3>5. m.live[s].last \in Nat /\ f.sequence \in Nat
      BY <1>1, PartialIs, PlayingIs, FrameIs
    <3> QED
      BY <3>1, <3>4, <3>5
  <2>2. \A s \in DOMAIN m.live : FrameAt(out[r], s, 1) => m.live[s].relaunched
    BY <2>1
  <2>3. Sound(m, p)
    BY <2>2, SkippedSound
  <2> QED
    BY <1>7, <2>3 DEF n
<1>8. CASE f.session \in DOMAIN m.live /\ Took(m, n, r, f)
  <2> DEFINE s == f.session
             x == m.live[s]
             y == Heard(x, f.sequence)
  <2>1. n \in MediaType /\ Sent(m, n, r, a)
    BY <1>1, <1>8, SendIs DEF Took, Sent, a
  <2>2. x \in Playing
    BY <1>1, <1>8, PartialIs
  <2>3. y \in Playing /\ Later(x, y, f.sequence)
    BY <1>1, <2>2, HeardIs, FrameIs DEF Heard, Later
  <2>4. DOMAIN n.live = DOMAIN m.live /\ \A t \in DOMAIN m.live : n.live[t] = IF t = s THEN y ELSE m.live[t]
    <3>1. n.live = [m.live EXCEPT ![s] = y]
      BY <1>8 DEF Took
    <3> HIDE DEF y
    <3>2. m.live = [t \in DOMAIN m.live |-> m.live[t]]
      BY <1>1, PartialIs
    <3> QED
      BY <1>8, <3>1, <3>2
  <2>5. /\ n.indexed = m.indexed /\ n.sessions = m.sessions /\ n.opened = m.opened
        /\ \A o \in Overlays : n.frames[o] = m.frames[o] \/ n.frames[o] = Shown(m, f)
    BY <1>8 DEF Took
  <2> HIDE DEF y
  <2>6. Counted(n)
    BY <2>4, <2>5 DEF Sound, Counted
  <2>7. Sanes(n, p)
    <3>1. Sanes(m, out)
      BY DEF Sound
    <3> QED
      BY <1>1, <1>3, <2>1, <2>5, <3>1, SentSane
  <2>8. Tracks(n, p)
    <3>1. \A t \in DOMAIN m.live : \/ n.live[t] = m.live[t]
                                   \/ f.session = t /\ Later(m.live[t], n.live[t], f.sequence)
      BY <2>3, <2>4
    <3> QED
      BY <2>1, <2>4, <3>1, FrameTracks DEF a
  <2>9. Whole(n)
    <3>1. LET k == Shown(m, f) IN
          k.of = s /\ k.sequence = f.sequence /\ k.drawn = x.memory[f.slot] /\ k.relaunched = x.relaunched
      BY <1>1, <1>8, ShownIs
    <3>2. ASSUME ~x.relaunched PROVE x.memory[f.slot] = f.sequence
      <4>1. FirstRun(x, s, r, m.workers[r], out[r])
        BY <1>8 DEF Sound, Tracks, Track
      <4>2. FrameAt(out[r], s, 1)
        BY <1>1, FrameIs DEF FrameAt
      <4>3. x.runtime = r
        BY <1>2, <3>2, <4>1 DEF FirstRun, Unknown, About
      <4> QED
        BY <1>2, <3>2, <4>1, <4>2, <4>3 DEF FirstRun, InOrder
    <3> QED
      BY <2>5, <3>1, <3>2 DEF Sound, Whole
  <2> QED
    BY <1>5, <2>1, <2>6, <2>7, <2>8, <2>9 DEF Sound, n
<1> QED
  BY <1>4, <1>6, <1>7, <1>8 DEF a

-----------------------------------------------------------------------------
(* Who plays.  The last request that opens, plays or pauses a session       *)
(* decides; without one, what its worker has it do.                         *)

Decides(p, s, i) == p[i].session = s /\ (p[i].kind = "Open" \/ p[i].kind = "SetActive")
Lasts(p, s, i) == Decides(p, s, i) /\ \A j \in 1..Len(p) : Decides(p, s, j) => j <= i
PlaysSo(s, w, on) ==
  /\ \A i \in 1..Len(w.inbox) :
       Lasts(w.inbox, s, i) => (on <=> (w.inbox[i].kind = "Open" \/ w.inbox[i].active))
  /\ (\A i \in 1..Len(w.inbox) : ~Decides(w.inbox, s, i)) /\ s \in DOMAIN w.hosted => (w.hosted[s].active <=> on)

LEMMA AddPlays ==
  ASSUME NEW s, NEW w, NEW v, NEW on, NEW request, PlaysSo(s, w, on), Grows(w.inbox, v.inbox, request),
         v.hosted = w.hosted, request.session = s => request.kind # "Open" /\ request.kind # "SetActive"
  PROVE  PlaysSo(s, v, on)
<1>1. \A i \in 1..Len(v.inbox) : \/ i \in 1..Len(w.inbox) /\ v.inbox[i] = w.inbox[i]
                                 \/ i = Len(w.inbox) + 1 /\ v.inbox[i] = request
  BY GrowsAt
<1>2. \A i \in 1..Len(w.inbox) : i \in 1..Len(v.inbox) /\ v.inbox[i] = w.inbox[i]
  BY GrowsFrom
<1>3. \A i \in 1..Len(v.inbox) :
        Decides(v.inbox, s, i) => i \in 1..Len(w.inbox) /\ v.inbox[i] = w.inbox[i] /\ Decides(w.inbox, s, i)
  BY <1>1 DEF Decides
<1>4. \A i \in 1..Len(w.inbox) : Decides(w.inbox, s, i) => i \in 1..Len(v.inbox) /\ Decides(v.inbox, s, i)
  BY <1>2 DEF Decides
<1>5. \A i \in 1..Len(v.inbox) : Lasts(v.inbox, s, i) => i \in 1..Len(w.inbox) /\ v.inbox[i] = w.inbox[i] /\ Lasts(w.inbox, s, i)
  BY <1>3, <1>4 DEF Lasts
<1> QED
  BY <1>4, <1>5 DEF PlaysSo

LEMMA TellPlays ==
  ASSUME NEW s, NEW w, NEW v, NEW on, NEW request, Grows(w.inbox, v.inbox, request),
         request.session = s, request.kind = "SetActive", request.active <=> on
  PROVE  PlaysSo(s, v, on)
<1>1. Len(w.inbox) + 1 \in 1..Len(v.inbox) /\ v.inbox[Len(w.inbox) + 1] = request /\ Len(v.inbox) = Len(w.inbox) + 1
      /\ Len(w.inbox) \in Nat
  BY DEF Grows
<1>2. Decides(v.inbox, s, Len(w.inbox) + 1)
  BY <1>1 DEF Decides
<1>3. \A i \in 1..Len(v.inbox) : Lasts(v.inbox, s, i) => i = Len(w.inbox) + 1
  BY <1>1, <1>2 DEF Lasts
<1> QED
  BY <1>1, <1>2, <1>3 DEF PlaysSo

LEMMA EmptyPlays ==
  ASSUME NEW s, NEW v, NEW on, v.inbox = <<>>, s \notin DOMAIN v.hosted
  PROVE  PlaysSo(s, v, on)
BY DEF PlaysSo

(* It stays as it is, or it is gone. *)
Goes(s, w, v) == s \in DOMAIN v.hosted => s \in DOMAIN w.hosted /\ v.hosted[s].active = w.hosted[s].active

LEMMA GoesPlays ==
  ASSUME NEW s, NEW w, NEW v, NEW on, PlaysSo(s, w, on), v.inbox = w.inbox, Goes(s, w, v)
  PROVE  PlaysSo(s, v, on)
BY DEF PlaysSo, Goes

(* The next request is read. *)
LEMMA ReadPlays ==
  ASSUME NEW s, NEW w, NEW v, NEW on, PlaysSo(s, w, on), Pops(w.inbox, v.inbox),
         ~Decides(w.inbox, s, 1) => Goes(s, w, v),
         Decides(w.inbox, s, 1) /\ s \in DOMAIN v.hosted =>
           (v.hosted[s].active <=> (w.inbox[1].kind = "Open" \/ w.inbox[1].active))
  PROVE  PlaysSo(s, v, on)
<1>1. \A i \in 1..Len(v.inbox) : i + 1 \in 1..Len(w.inbox) /\ v.inbox[i] = w.inbox[i + 1] /\ i \in Nat
  BY PopsAt
<1>2. 1 \in 1..Len(w.inbox)
      /\ \A i \in 1..Len(w.inbox) : i # 1 => i - 1 \in 1..Len(v.inbox) /\ v.inbox[i - 1] = w.inbox[i] /\ i \in Nat
  BY PopsFrom
<1>3. \A i \in 1..Len(v.inbox) : Decides(v.inbox, s, i) <=> Decides(w.inbox, s, i + 1)
  BY <1>1 DEF Decides
<1>4. \A i \in 1..Len(w.inbox) : i # 1 /\ Decides(w.inbox, s, i) => i - 1 \in 1..Len(v.inbox) /\ Decides(v.inbox, s, i - 1)
  BY <1>2 DEF Decides
<1>5. ASSUME NEW i \in 1..Len(v.inbox), Lasts(v.inbox, s, i)
      PROVE  on <=> (v.inbox[i].kind = "Open" \/ v.inbox[i].active)
  <2>1. Decides(w.inbox, s, i + 1) /\ i \in Nat /\ i + 1 \in 1..Len(w.inbox) /\ v.inbox[i] = w.inbox[i + 1]
    BY <1>1, <1>3, <1>5 DEF Lasts
  <2>2. ASSUME NEW j \in 1..Len(w.inbox), Decides(w.inbox, s, j) PROVE j <= i + 1
    <3>1. CASE j = 1
      BY <2>1, <3>1
    <3>2. CASE j # 1
      <4>1. j - 1 \in 1..Len(v.inbox) /\ Decides(v.inbox, s, j - 1) /\ j \in Nat
        BY <1>2, <1>4, <2>2, <3>2
      <4>2. j - 1 <= i
        BY <1>5, <4>1 DEF Lasts
      <4> QED
        BY <2>1, <4>1, <4>2
    <3> QED
      BY <3>1, <3>2
  <2>3. Lasts(w.inbox, s, i + 1)
    BY <2>1, <2>2 DEF Lasts
  <2> QED
    BY <2>1, <2>3 DEF PlaysSo
<1>6. ASSUME \A i \in 1..Len(v.inbox) : ~Decides(v.inbox, s, i), s \in DOMAIN v.hosted
      PROVE  v.hosted[s].active <=> on
  <2>1. \A i \in 1..Len(w.inbox) : Decides(w.inbox, s, i) => i = 1
    BY <1>4, <1>6
  <2>2. CASE Decides(w.inbox, s, 1)
    <3>1. Lasts(w.inbox, s, 1)
      BY <2>1, <2>2 DEF Lasts
    <3> QED
      BY <1>2, <1>6, <2>2, <3>1 DEF PlaysSo
  <2>3. CASE ~Decides(w.inbox, s, 1)
    BY <1>6, <2>1, <2>3 DEF PlaysSo, Goes
  <2> QED
    BY <2>2, <2>3
<1> QED
  BY <1>5, <1>6 DEF PlaysSo

(* On their first run, what the audience is on decides. *)
Follows(m, p) ==
  \A s \in DOMAIN m.live :
    ~m.live[s].relaunched /\ m.sessions[m.live[s].overlay] = s =>
      PlaysSo(s, m.workers[m.live[s].runtime], PageOf[m.live[s].overlay] = p)

(* A session on its first run was on it before, and plays as it did. *)
Stands(x, y) ==
  ~y.relaunched => ~x.relaunched /\ y.overlay = x.overlay /\ y.runtime = x.runtime
PlaysAs(s, w, v) == \A on \in BOOLEAN : PlaysSo(s, w, on) => PlaysSo(s, v, on)
Firsts(m, n) ==
  \A s \in DOMAIN n.live : ~n.live[s].relaunched =>
    /\ s \in DOMAIN m.live /\ Stands(m.live[s], n.live[s])
    /\ PlaysAs(s, m.workers[n.live[s].runtime], n.workers[n.live[s].runtime])

LEMMA FirstsOn ==
  ASSUME NEW m, NEW k, NEW n, Firsts(m, k), Firsts(k, n)
  PROVE  Firsts(m, n)
BY DEF Firsts, Stands, PlaysAs

LEMMA FollowsOn ==
  ASSUME NEW m, NEW n \in MediaType, NEW p, Follows(m, p), Firsts(m, n), 0 \notin DOMAIN n.live,
         \A o \in Overlays : n.sessions[o] = m.sessions[o] \/ n.sessions[o] = 0
  PROVE  Follows(n, p)
<1> SUFFICES ASSUME NEW s \in DOMAIN n.live, ~n.live[s].relaunched, n.sessions[n.live[s].overlay] = s
             PROVE  PlaysSo(s, n.workers[n.live[s].runtime], PageOf[n.live[s].overlay] = p)
  BY DEF Follows
<1>1. n.live[s].overlay \in Overlays /\ s # 0
  BY MediaIs, PartialIs, PlayingIs
<1>2. s \in DOMAIN m.live /\ Stands(m.live[s], n.live[s])
      /\ PlaysAs(s, m.workers[n.live[s].runtime], n.workers[n.live[s].runtime])
  BY DEF Firsts
<1>3. m.sessions[m.live[s].overlay] = s /\ ~m.live[s].relaunched /\ m.live[s].overlay = n.live[s].overlay
      /\ m.live[s].runtime = n.live[s].runtime
  BY <1>1, <1>2 DEF Stands
<1> DEFINE on == PageOf[n.live[s].overlay] = p
<1>4. PlaysSo(s, m.workers[n.live[s].runtime], on) /\ on \in BOOLEAN
  BY <1>2, <1>3 DEF Follows
<1> HIDE DEF on
<1>5. PlaysSo(s, n.workers[n.live[s].runtime], on)
  BY <1>2, <1>4 DEF PlaysAs
<1> QED
  BY <1>5 DEF on

(* The sessions are what they were, or fewer. *)
Mild(m, n) ==
  \A s \in DOMAIN n.live :
    /\ s \in DOMAIN m.live
    /\ n.live[s].overlay = m.live[s].overlay /\ n.live[s].generation = m.live[s].generation
    /\ n.live[s].runtime = m.live[s].runtime /\ n.live[s].relaunched = m.live[s].relaunched

LEMMA PostPlays ==
  ASSUME NEW s, NEW w \in Worker, NEW request \in Requests,
         request.session = s => request.kind # "Open" /\ request.kind # "SetActive"
  PROVE  PlaysAs(s, w, Posted(w, request))
<1> DEFINE v == Posted(w, request)
<1>1. Grows(w.inbox, v.inbox, request) /\ v.hosted = w.hosted
  BY PostedGrows
<1> HIDE DEF v
<1>2. ASSUME NEW on \in BOOLEAN, PlaysSo(s, w, on) PROVE PlaysSo(s, v, on)
  BY <1>1, <1>2, AddPlays
<1> QED
  BY <1>2 DEF PlaysAs, v

LEMMA SentFirsts ==
  ASSUME NEW m \in MediaType, NEW n, NEW r \in Kinds, NEW request \in Requests, Mild(m, n), Sent(m, n, r, request),
         \A s \in DOMAIN n.live : request.session = s => request.kind # "Open" /\ request.kind # "SetActive"
  PROVE  Firsts(m, n)
<1> SUFFICES ASSUME NEW s \in DOMAIN n.live, ~n.live[s].relaunched
             PROVE  /\ s \in DOMAIN m.live /\ Stands(m.live[s], n.live[s])
                    /\ PlaysAs(s, m.workers[n.live[s].runtime], n.workers[n.live[s].runtime])
  BY DEF Firsts
<1>1. s \in DOMAIN m.live /\ Stands(m.live[s], n.live[s]) /\ n.live[s].runtime = m.live[s].runtime
  BY DEF Mild, Stands
<1> DEFINE x == n.live[s].runtime
<1>2. x \in Kinds /\ m.workers[x] \in Worker
  BY <1>1, MediaIs, PartialIs, PlayingIs
<1> HIDE DEF x
<1>3. PlaysAs(s, m.workers[x], m.workers[x])
  BY DEF PlaysAs
<1>4. PlaysAs(s, m.workers[x], Posted(m.workers[x], request))
  BY <1>2, PostPlays
<1>5. PlaysAs(s, m.workers[x], n.workers[x])
  BY <1>2, <1>3, <1>4 DEF Sent
<1> QED
  BY <1>1, <1>5 DEF x

LEMMA DroppedFirsts ==
  ASSUME NEW m \in MediaType, NEW t, Dropped(m, t)
  PROVE  Firsts(m, t)
<1> SUFFICES ASSUME NEW s \in DOMAIN t.live, ~t.live[s].relaunched
             PROVE  /\ s \in DOMAIN m.live /\ Stands(m.live[s], t.live[s])
                    /\ PlaysAs(s, m.workers[t.live[s].runtime], t.workers[t.live[s].runtime])
  BY DEF Firsts
<1>1. s \in DOMAIN m.live /\ Stands(m.live[s], t.live[s])
  BY DEF Dropped, Stands
<1>2. t.live[s].runtime \in Kinds
  BY MediaIs, PartialIs, PlayingIs DEF Dropped
<1>3. NoWorker.inbox = <<>> /\ s \notin DOMAIN NoWorker.hosted
  BY NoWorkerIs, NobodyIs
<1>4. \A on \in BOOLEAN : PlaysSo(s, NoWorker, on)
  BY <1>3, EmptyPlays
<1>5. PlaysAs(s, m.workers[t.live[s].runtime], t.workers[t.live[s].runtime])
  BY <1>2, <1>4 DEF PlaysAs, Dropped
<1> QED
  BY <1>1, <1>5

LEMMA LaunchedFirsts ==
  ASSUME NEW m \in MediaType, NEW s \in Nat, NEW x \in Playing, x.relaunched
  PROVE  Firsts(m, Launched(m, s, x))
<1> DEFINE n == Launched(m, s, x)
           a == OpenRequest(s, x)
<1>1. /\ n.live = With(m.live, s, x)
      /\ \A r \in Kinds : n.workers[r] =
              IF r = x.runtime THEN Posted(Hired(m.workers[r]), a) ELSE m.workers[r]
  BY LaunchedIs
<1>2. a \in Requests /\ a.session = s
  BY RequestsAre
<1>3. n.live[s] = x /\ DOMAIN n.live = DOMAIN m.live \cup {s} /\ \A t \in DOMAIN m.live : t # s => n.live[t] = m.live[t]
  <2> HIDE DEF n
  <2> QED
    BY <1>1 DEF With
<1> HIDE DEF n, a
<1>4. ASSUME NEW t \in DOMAIN n.live, ~n.live[t].relaunched
      PROVE  /\ t \in DOMAIN m.live /\ Stands(m.live[t], n.live[t])
             /\ PlaysAs(t, m.workers[n.live[t].runtime], n.workers[n.live[t].runtime])
  <2>1. t # s /\ t \in DOMAIN m.live /\ n.live[t] = m.live[t]
    BY <1>3, <1>4
  <2> DEFINE r == n.live[t].runtime
             w == m.workers[r]
             h == Hired(w)
  <2>2. r \in Kinds /\ w \in Worker
    BY <2>1, MediaIs, PartialIs, PlayingIs
  <2> HIDE DEF r, w
  <2>3. PlaysAs(t, w, h) /\ h \in Worker
    <3>1. \/ h = w
          \/ h = Spawned /\ Spawned.inbox = <<>> /\ DOMAIN Spawned.hosted = {}
      BY <2>2, HiredIs
    <3>2. h \in Worker
      BY <2>2, HiredIs
    <3> HIDE DEF h
    <3>3. ASSUME NEW on \in BOOLEAN, PlaysSo(t, w, on) PROVE PlaysSo(t, h, on)
      BY <3>1, <3>3, EmptyPlays
    <3> QED
      BY <3>2, <3>3 DEF PlaysAs
  <2> HIDE DEF h
  <2>4. PlaysAs(t, h, Posted(h, a))
    BY <1>2, <2>1, <2>3, PostPlays
  <2>5. PlaysAs(t, w, Posted(h, a)) /\ PlaysAs(t, w, w)
    BY <2>3, <2>4 DEF PlaysAs
  <2>6. PlaysAs(t, w, n.workers[r])
    BY <1>1, <2>2, <2>5 DEF w, h
  <2> QED
    BY <2>1, <2>6 DEF r, w, Stands
<1>5. Firsts(m, n)
  BY <1>4 DEF Firsts
<1> QED
  BY <1>5 DEF n

LEMMA OutcomeFirsts ==
  ASSUME NEW m \in MediaType, NEW n, NEW s \in Nat, NEW o \in Overlays, NEW g \in Nat, Outcome(m, n, s, o, g, TRUE)
  PROVE  Firsts(m, n)
<1>1. PICK t \in MediaType : Dropped(m, t) /\ Ends(t, n, s, o, g, TRUE)
  BY DEF Outcome
<1>2. Firsts(m, t)
  BY <1>1, DroppedFirsts
<1>3. CASE n = GaveUp(t, o)
  <2> DEFINE P == t.pending \cup {o}
  <2>1. P \in SUBSET Overlays
    BY MediaIs
  <2>2. n = [t EXCEPT !.pending = P]
    BY <1>3 DEF GaveUp
  <2> HIDE DEF P
  <2>3. n.live = t.live /\ n.workers = t.workers
    BY <2>1, <2>2, PendingIs
  <2>4. Firsts(m, n)
    BY <1>2, <2>3 DEF Firsts
  <2> QED
    BY <2>4
<1>4. ASSUME NEW r \in Kinds, NEW rest \in Seq(Kinds), NEW restarts \in 0..MaxRestarts,
             n = Launched(t, s, Session(o, g, r, rest, restarts, TRUE))
      PROVE  Firsts(m, n)
  <2> DEFINE x == Session(o, g, r, rest, restarts, TRUE)
  <2>1. x \in Playing /\ x.relaunched
    BY SessionIs
  <2>2. n = Launched(t, s, x)
    BY <1>4
  <2> HIDE DEF x
  <2>3. Firsts(t, n)
    BY <2>1, <2>2, LaunchedFirsts
  <2> QED
    BY <1>2, <2>3, FirstsOn
<1> QED
  BY <1>1, <1>3, <1>4 DEF Ends

LEMMA ClosedFirsts ==
  ASSUME NEW m \in MediaType, NEW s \in Nat
  PROVE  Mild(m, Closed(m, s)) /\ Firsts(m, Closed(m, s))
<1> DEFINE n == Closed(m, s)
<1>1. CASE s \notin DOMAIN m.live
  <2>1. n = m
    BY <1>1, ClosedIs
  <2>2. Mild(m, m) /\ Firsts(m, m)
    BY DEF Mild, Firsts, Stands, PlaysAs
  <2> QED
    BY <2>1, <2>2
<1>2. CASE s \in DOMAIN m.live
  <2> DEFINE r == m.live[s].runtime
             a == CloseRequest(s)
  <2>1. Fewer(m, n) /\ Sent(m, n, r, a)
    BY <1>2, ClosedSteps
  <2>2. r \in Kinds
    BY <1>2, MediaIs, PartialIs, PlayingIs
  <2>3. a \in Requests /\ a.kind = "Close"
    BY RequestsAre
  <2> HIDE DEF n, r, a
  <2>4. Mild(m, n)
    BY <2>1 DEF Mild, Fewer
  <2>5. Firsts(m, n)
    BY <2>1, <2>2, <2>3, <2>4, SentFirsts
  <2> QED
    BY <2>4, <2>5 DEF n
<1> QED
  BY <1>1, <1>2

LEMMA RecoveredFirsts ==
  ASSUME NEW m \in MediaType, NEW s \in Nat, NEW error, NEW broken
  PROVE  Firsts(m, Recovered(m, s, error, broken))
<1> DEFINE n == Recovered(m, s, error, broken)
           k == Closed(m, s)
<1>1. CASE s \notin DOMAIN m.live
  <2>1. n = m
    BY <1>1 DEF Recovered
  <2>2. Firsts(m, m)
    BY DEF Firsts, Stands, PlaysAs
  <2> QED
    BY <2>1, <2>2
<1>2. CASE s \in DOMAIN m.live
  <2>1. Outcome(k, n, s, m.live[s].overlay, m.live[s].generation, TRUE)
    BY <1>2, RecoveredIs
  <2>2. m.live[s].overlay \in Overlays /\ m.live[s].generation \in Nat
    BY <1>2, MediaIs, PartialIs, PlayingIs
  <2>3. k \in MediaType /\ Firsts(m, k)
    BY ClosedIs, ClosedFirsts
  <2> HIDE DEF n, k
  <2>4. Firsts(k, n)
    BY <2>1, <2>2, <2>3, OutcomeFirsts
  <2>5. Firsts(m, n)
    BY <2>3, <2>4, FirstsOn
  <2> QED
    BY <2>5 DEF n
<1> QED
  BY <1>1, <1>2

(* All but the sessions themselves, the frames and the workers. *)
Books(m, n) ==
  /\ n.indexed = m.indexed /\ n.sessions = m.sessions /\ n.parked = m.parked
  /\ n.pending = m.pending /\ n.opened = m.opened /\ n.astray = m.astray

LEMMA FrameMild ==
  ASSUME NEW m \in MediaType, NEW r \in Kinds, NEW f \in FrameKind, NEW batch
  PROVE  LET n == FrameReady(m, r, f, batch) IN
         Books(m, n) /\ Mild(m, n) /\ Firsts(m, n) /\ DOMAIN n.live = DOMAIN m.live
           /\ \A z \in Kinds : n.workers[z].alive = m.workers[z].alive
<1> DEFINE n == FrameReady(m, r, f, batch)
           a == ReleaseRequest(f)
<1>1. /\ a \in Requests /\ a.kind = "ReleaseFrame" /\ m.live \in Partial(Playing) /\ m.workers \in [Kinds -> Worker]
  BY ReleaseIs, MediaIs
<1>2. \/ Superseded(f, batch) /\ n = Send(m, r, ReleaseRequest(f))
      \/ ~Superseded(f, batch) /\ n = m
           /\ (f.session \notin DOMAIN m.live
                 \/ (f.session \in DOMAIN m.live /\ m.live[f.session].first
                       /\ f.sequence <= m.live[f.session].last))
      \/ f.session \in DOMAIN m.live /\ Took(m, n, r, f)
           /\ (m.live[f.session].first => ~(f.sequence <= m.live[f.session].last))
  BY FrameReadyIs
<1> HIDE DEF n, a
<1>3. ASSUME Mild(m, n), Sent(m, n, r, a)
      PROVE  Firsts(m, n) /\ \A z \in Kinds : n.workers[z].alive = m.workers[z].alive
  <2>1. Firsts(m, n)
    BY <1>1, <1>3, SentFirsts
  <2>2. \A z \in Kinds : Posted(m.workers[z], a).alive = m.workers[z].alive
    BY <1>1, PostedIs
  <2> QED
    BY <1>3, <2>1, <2>2 DEF Sent
<1>4. CASE n = Send(m, r, a)
  <2>1. n.live = m.live /\ Alike(m, n) /\ Sent(m, n, r, a)
    BY <1>1, <1>4, SendIs DEF Sent
  <2>2. Mild(m, n) /\ Books(m, n)
    BY <2>1 DEF Mild, Alike, Books
  <2> QED
    BY <1>3, <2>1, <2>2 DEF n
<1>5. CASE n = m
  <2>1. Mild(m, m) /\ Firsts(m, m) /\ Books(m, m)
    BY DEF Mild, Firsts, Stands, PlaysAs, Books
  <2> QED
    BY <1>5, <2>1 DEF n
<1>6. CASE f.session \in DOMAIN m.live /\ Took(m, n, r, f)
  <2> DEFINE s == f.session
             y == Heard(m.live[s], f.sequence)
  <2>1. Sent(m, n, r, a) /\ Books(m, n)
    BY <1>1, <1>6, SendIs DEF Took, Sent, a, Books
  <2>2. /\ y.overlay = m.live[s].overlay /\ y.generation = m.live[s].generation
        /\ y.runtime = m.live[s].runtime /\ y.relaunched = m.live[s].relaunched
    BY <1>1, <1>6, PartialIs, HeardIs, FrameIs, ZenonT(60) DEF Heard
  <2>3. DOMAIN n.live = DOMAIN m.live /\ \A t \in DOMAIN m.live : n.live[t] = IF t = s THEN y ELSE m.live[t]
    <3>1. n.live = [m.live EXCEPT ![s] = y]
      BY <1>6 DEF Took
    <3> HIDE DEF y
    <3>2. m.live = [t \in DOMAIN m.live |-> m.live[t]]
      BY <1>1, PartialIs
    <3> QED
      BY <1>6, <3>1, <3>2
  <2> HIDE DEF y
  <2>4. Mild(m, n)
    BY <2>2, <2>3 DEF Mild
  <2> QED
    BY <1>3, <2>1, <2>3, <2>4 DEF n
<1> QED
  BY <1>2, <1>4, <1>5, <1>6 DEF a

-----------------------------------------------------------------------------
(* Whose session it is.  g is the generation of the document.               *)

Owned(m) == \A o \in Overlays : m.sessions[o] \in DOMAIN m.live => m.live[m.sessions[o]].overlay = o
Adopted(m, g) ==
  \A s \in DOMAIN m.live : m.live[s].generation = g =>
    m.live[s].overlay \in m.astray \/ m.sessions[m.live[s].overlay] = s
OneAge(m, g) ==
  /\ m.indexed <= g
  /\ \A s \in DOMAIN m.live : m.live[s].generation <= m.indexed
  /\ \A s, t \in DOMAIN m.live : m.live[s].generation = g => m.live[t].generation = g
Kept(m, g) == Owned(m) /\ Adopted(m, g) /\ OneAge(m, g)

(* An overlay whose session is reported has none, or had an open nobody took. *)
Gone1(m, g, o) == o \in m.astray \/ \A s \in DOMAIN m.live : m.live[s].overlay = o => m.live[s].generation # g
Reported(m, g) == \A o \in m.pending : Gone1(m, g, o)
Level(m) == \A s \in DOMAIN m.live : m.live[s].generation = m.indexed

LiveLike(m, n) ==
  \A s \in DOMAIN n.live :
    /\ s \in DOMAIN m.live
    /\ n.live[s].overlay = m.live[s].overlay /\ n.live[s].generation = m.live[s].generation

LEMMA KeptLike ==
  ASSUME NEW m \in MediaType, NEW n, NEW g, Kept(m, g), LiveLike(m, n),
         n.indexed = m.indexed, n.sessions = m.sessions, n.astray = m.astray
  PROVE  Kept(n, g) /\ (Level(m) => Level(n)) /\ \A o : Gone1(m, g, o) => Gone1(n, g, o)
<1>1. Owned(n)
  BY DEF Kept, Owned, LiveLike
<1>2. Adopted(n, g)
  BY DEF Kept, Adopted, LiveLike
<1>3. OneAge(n, g)
  BY DEF Kept, OneAge, LiveLike
<1>4. Level(m) => Level(n)
  BY DEF Level, LiveLike
<1>5. ASSUME NEW o, Gone1(m, g, o) PROVE Gone1(n, g, o)
  BY <1>5 DEF Gone1, LiveLike
<1> QED
  BY <1>1, <1>2, <1>3, <1>4, <1>5 DEF Kept

(* Entries are put down. *)
LEMMA KeptZero ==
  ASSUME NEW m \in MediaType, NEW n, NEW g, Kept(m, g), n.live = m.live, 0 \notin DOMAIN m.live,
         n.indexed = m.indexed, n.astray = m.astray,
         \A o \in Overlays : \/ n.sessions[o] = m.sessions[o]
                             \/ n.sessions[o] = 0 /\ (m.sessions[o] \notin DOMAIN m.live \/ Gone1(m, g, o))
  PROVE  Kept(n, g)
<1>1. Owned(n)
  BY DEF Kept, Owned
<1>2. OneAge(n, g)
  BY DEF Kept, OneAge
<1>3. ASSUME NEW s \in DOMAIN m.live, m.live[s].generation = g, m.live[s].overlay \notin m.astray
      PROVE  n.sessions[m.live[s].overlay] = s
  <2>1. m.sessions[m.live[s].overlay] = s
    BY <1>3 DEF Kept, Adopted
  <2>2. m.live[s].overlay \in Overlays
    BY MediaIs, PartialIs, PlayingIs
  <2> QED
    BY <1>3, <2>1, <2>2 DEF Gone1
<1>4. Adopted(n, g)
  BY <1>3 DEF Adopted
<1> QED
  BY <1>1, <1>2, <1>4 DEF Kept

LEMMA RecoveredKept ==
  ASSUME NEW m \in MediaType, NEW s \in Nat, NEW error, NEW broken, NEW g \in Nat
  PROVE  LET n == Recovered(m, s, error, broken) IN
         /\ LiveLike(m, n) /\ n.indexed = m.indexed /\ n.sessions = m.sessions /\ n.parked = m.parked
         /\ n.opened = m.opened /\ n.astray = m.astray
         /\ Kept(m, g) /\ Reported(m, g) => Kept(n, g) /\ Reported(n, g)
<1> DEFINE n == Recovered(m, s, error, broken)
           k == Closed(m, s)
<1>1. CASE s \notin DOMAIN m.live
  <2>1. n = m
    BY <1>1 DEF Recovered
  <2>2. LiveLike(m, m)
    BY DEF LiveLike
  <2> QED
    BY <2>1, <2>2
<1>2. CASE s \in DOMAIN m.live
  <2> DEFINE o == m.live[s].overlay
             h == m.live[s].generation
             yes == TRUE
  <2>1. m.live \in Partial(Playing) /\ o \in Overlays /\ h \in Nat /\ yes \in BOOLEAN
    BY <1>2, MediaIs, PartialIs, PlayingIs
  <2>2. Outcome(k, n, s, o, h, yes)
    BY <1>2, RecoveredIs
  <2>3. k \in MediaType /\ Alike(m, k) /\ Fewer(m, k) /\ s \notin DOMAIN k.live
    BY <1>2, ClosedSteps
  <2> HIDE DEF n, k, o, h, yes
  <2>4. Resolves(k, n, s, o, h, yes)
    BY <2>1, <2>2, OutcomeIs
  <2>5. /\ n.indexed = m.indexed /\ n.sessions = m.sessions /\ n.parked = m.parked
        /\ n.opened = m.opened /\ n.astray = m.astray
    BY <2>3, <2>4 DEF Resolves, Alike
  <2>6. CASE n.live = k.live /\ n.pending = k.pending \cup {o}
    <3>1. LiveLike(m, n)
      BY <2>3, <2>6 DEF LiveLike, Fewer
    <3>2. ASSUME Kept(m, g), Reported(m, g) PROVE Kept(n, g) /\ Reported(n, g)
      <4>1. Kept(n, g) /\ \A p : Gone1(m, g, p) => Gone1(n, g, p)
        BY <2>5, <3>1, <3>2, KeptLike
      <4>2. ASSUME o \notin m.astray, NEW t \in DOMAIN n.live, n.live[t].overlay = o, n.live[t].generation = g
            PROVE  FALSE
        <5>1. t \in DOMAIN m.live /\ m.live[t].overlay = o /\ m.live[t].generation = g /\ t # s
          BY <2>3, <2>6, <3>1, <4>2 DEF LiveLike
        <5>2. m.live[s].generation = g
          BY <1>2, <3>2, <5>1 DEF Kept, OneAge
        <5>3. m.sessions[o] = t /\ m.sessions[o] = s
          BY <1>2, <3>2, <4>2, <5>1, <5>2 DEF Kept, Adopted, o
        <5> QED
          BY <5>1, <5>3
      <4>3. Gone1(n, g, o)
        BY <2>5, <4>2 DEF Gone1
      <4>4. Reported(n, g)
        BY <2>3, <2>6, <3>2, <4>1, <4>3 DEF Reported, Alike
      <4> QED
        BY <4>1, <4>4
    <3> QED
      BY <2>5, <3>1, <3>2 DEF n
  <2>7. ASSUME n.pending = k.pending, NEW x \in Playing, x.overlay = o, x.generation = h, n.live = With(k.live, s, x)
        PROVE  /\ LiveLike(m, n)
               /\ Kept(m, g) /\ Reported(m, g) => Kept(n, g) /\ Reported(n, g)
    <3>1. /\ DOMAIN n.live = DOMAIN k.live \cup {s} /\ n.live[s] = x
          /\ \A y \in DOMAIN k.live : y # s => n.live[y] = k.live[y]
      BY <2>7 DEF With
    <3>2. LiveLike(m, n)
      BY <1>2, <2>3, <2>7, <3>1 DEF LiveLike, Fewer, o, h
    <3>3. ASSUME Kept(m, g), Reported(m, g) PROVE Kept(n, g) /\ Reported(n, g)
      <4>1. Kept(n, g) /\ \A p : Gone1(m, g, p) => Gone1(n, g, p)
        BY <2>5, <3>2, <3>3, KeptLike
      <4>2. Reported(n, g)
        BY <2>3, <2>7, <3>3, <4>1 DEF Reported, Alike
      <4> QED
        BY <4>1, <4>2
    <3> QED
      BY <3>2, <3>3
  <2>8. /\ LiveLike(m, n)
        /\ Kept(m, g) /\ Reported(m, g) => Kept(n, g) /\ Reported(n, g)
    BY <2>4, <2>6, <2>7 DEF Resolves, n
  <2> QED
    BY <2>5, <2>8 DEF n
<1> QED
  BY <1>1, <1>2

Pend(m) == m.pending \subseteq m.astray

LEMMA OpenedKept ==
  ASSUME NEW m \in MediaType, NEW o \in Overlays, NEW broken, NEW g \in Nat, Counted(m), m.sessions[o] = 0,
         Kept(m, g), Level(m), Pend(m)
  PROVE  LET k == Opened(m, o, broken) IN
         /\ Kept(k, g) /\ Level(k) /\ Pend(k)
         /\ \A p \in Overlays : p # o => k.sessions[p] = m.sessions[p]
<1> DEFINE b == Numbers(m, o)
           s == m.opened + 1
           k == Opened(m, o, broken)
<1>1. PICK n : /\ Outcome(b, n, s, o, m.indexed, FALSE) /\ Resolves(b, n, s, o, m.indexed, FALSE)
               /\ k = IF s \in DOMAIN n.live THEN n ELSE [n EXCEPT !.astray = n.astray \cup {o}]
  BY OpenedSteps, ZenonT(60)
<1>2. /\ b.live = m.live /\ b.opened = s
      /\ \A p \in Overlays : b.sessions[p] = IF p = o THEN s ELSE m.sessions[p]
      /\ b.indexed = m.indexed /\ b.pending = m.pending /\ b.astray = m.astray
  BY NumbersIs
<1>3. m.opened \in Nat /\ s \in Nat /\ m.indexed \in Nat /\ s # 0
  BY MediaIs
<1>4. s \notin DOMAIN m.live /\ 0 \notin DOMAIN m.live
  BY <1>3 DEF Counted
<1> HIDE DEF b, k, s
<1>5. n \in MediaType /\ n.indexed = m.indexed /\ n.sessions = b.sessions /\ n.astray = m.astray
  BY <1>1, <1>2 DEF Resolves
<1>6. /\ \A t \in DOMAIN m.live : t \in DOMAIN n.live /\ n.live[t] = m.live[t]
      /\ \A t \in DOMAIN n.live : t \in DOMAIN m.live \/ (t = s /\ n.live[t].overlay = o /\ n.live[t].generation = m.indexed)
      /\ s \in DOMAIN n.live => n.pending = m.pending
      /\ s \notin DOMAIN n.live => n.pending = m.pending \cup {o}
  <2>1. CASE n.live = b.live /\ n.pending = b.pending \cup {o}
    BY <1>2, <1>4, <2>1
  <2>2. ASSUME n.pending = b.pending, NEW x \in Playing, x.overlay = o, x.generation = m.indexed, n.live = With(b.live, s, x)
        PROVE  /\ \A t \in DOMAIN m.live : t \in DOMAIN n.live /\ n.live[t] = m.live[t]
               /\ \A t \in DOMAIN n.live : t \in DOMAIN m.live \/ (t = s /\ n.live[t].overlay = o /\ n.live[t].generation = m.indexed)
               /\ s \in DOMAIN n.live /\ n.pending = m.pending
    <3>1. /\ DOMAIN n.live = DOMAIN m.live \cup {s} /\ n.live[s] = x
          /\ \A y \in DOMAIN m.live : y # s => n.live[y] = m.live[y]
      BY <1>2, <2>2 DEF With
    <3> QED
      BY <1>2, <1>4, <2>2, <3>1
  <2> QED
    BY <1>1, <2>1, <2>2 DEF Resolves
<1>7. /\ k.live = n.live /\ k.sessions = n.sessions /\ k.indexed = n.indexed /\ k.pending = n.pending
      /\ m.astray \subseteq k.astray /\ (s \notin DOMAIN n.live => o \in k.astray)
  <2>1. CASE s \in DOMAIN n.live
    BY <1>1, <1>5, <2>1
  <2>2. CASE s \notin DOMAIN n.live
    <3> DEFINE P == n.astray \cup {o}
    <3>1. P \in SUBSET Overlays
      BY <1>5, MediaIs
    <3>2. k = [n EXCEPT !.astray = P]
      BY <1>1, <2>2
    <3> HIDE DEF P
    <3>3. /\ k.live = n.live /\ k.sessions = n.sessions /\ k.indexed = n.indexed /\ k.pending = n.pending
          /\ k.astray = P
      BY <1>5, <3>1, <3>2, UnopenedIs
    <3> QED
      BY <1>5, <3>3 DEF P
  <2> QED
    BY <2>1, <2>2
<1>8. k.indexed = m.indexed /\ k.sessions = b.sessions /\ k.live = n.live
  BY <1>5, <1>7
<1>9. Level(k)
  BY <1>6, <1>8 DEF Level
<1>10. OneAge(k, g)
  BY <1>3, <1>8, <1>9 DEF OneAge, Level, Kept
<1>11. \A t \in DOMAIN m.live : m.live[t].overlay \in Overlays /\ m.live[t].generation = m.indexed
  BY MediaIs, PartialIs, PlayingIs DEF Level
<1>12. Owned(k)
  <2> SUFFICES ASSUME NEW p \in Overlays, k.sessions[p] \in DOMAIN k.live PROVE k.live[k.sessions[p]].overlay = p
    BY DEF Owned
  <2>1. CASE p = o
    BY <1>2, <1>4, <1>6, <1>8, <2>1
  <2>2. CASE p # o
    <3>1. k.sessions[p] = m.sessions[p]
      BY <1>2, <1>8, <2>2
    <3>2. m.sessions[p] # s
      BY <1>3 DEF Counted, s
    <3>3. m.sessions[p] \in DOMAIN m.live /\ k.live[m.sessions[p]] = m.live[m.sessions[p]]
      BY <1>6, <1>8, <3>1, <3>2
    <3> QED
      BY <3>1, <3>3 DEF Kept, Owned
  <2> QED
    BY <2>1, <2>2
<1>13. Adopted(k, g)
  <2> SUFFICES ASSUME NEW t \in DOMAIN k.live, k.live[t].generation = g, k.live[t].overlay \notin k.astray
               PROVE  k.sessions[k.live[t].overlay] = t
    BY DEF Adopted
  <2>1. CASE t \in DOMAIN m.live
    <3>1. k.live[t] = m.live[t] /\ m.live[t].overlay \notin m.astray
      BY <1>6, <1>7, <1>8, <2>1
    <3>2. m.sessions[m.live[t].overlay] = t
      BY <2>1, <3>1 DEF Kept, Adopted
    <3>3. m.live[t].overlay # o
      BY <1>4, <2>1, <3>2
    <3> QED
      BY <1>2, <1>8, <1>11, <2>1, <3>1, <3>2, <3>3
  <2>2. CASE t \notin DOMAIN m.live
    BY <1>2, <1>6, <1>8, <2>2
  <2> QED
    BY <2>1, <2>2
<1>14. Pend(k)
  BY <1>6, <1>7 DEF Pend
<1>15. \A p \in Overlays : p # o => k.sessions[p] = m.sessions[p]
  BY <1>2, <1>8
<1> QED
  BY <1>9, <1>10, <1>12, <1>13, <1>14, <1>15 DEF Kept, k

-----------------------------------------------------------------------------
(* One after another. *)

Shut(m, n) ==
  /\ n \in MediaType /\ Alike(m, n) /\ Mild(m, n) /\ Firsts(m, n) /\ Out(n) = Out(m)
  /\ Sound(m, Out(m)) => Sound(n, Out(n))

LEMMA ShutSelf == \A m \in MediaType : Shut(m, m)
BY DEF Shut, Alike, Mild, Firsts, Stands, PlaysAs

LEMMA ShutOn ==
  ASSUME NEW m, NEW k, NEW n, Shut(m, k), Shut(k, n)
  PROVE  Shut(m, n)
<1>1. Firsts(m, n)
  BY FirstsOn DEF Shut
<1>2. Alike(m, n) /\ Mild(m, n)
  BY DEF Shut, Alike, Mild
<1> QED
  BY <1>1, <1>2 DEF Shut

LEMMA ClosedShut ==
  ASSUME NEW m \in MediaType, NEW s \in Nat
  PROVE  Shut(m, Closed(m, s)) /\ s \notin DOMAIN Closed(m, s).live
<1>1. Closed(m, s) \in MediaType /\ Alike(m, Closed(m, s)) /\ s \notin DOMAIN Closed(m, s).live
      /\ Out(Closed(m, s)) = Out(m)
  <2>1. Closed(m, s) \in MediaType /\ Alike(m, Closed(m, s))
    BY ClosedIs
  <2>2. s \notin DOMAIN Closed(m, s).live
    <3>1. CASE s \in DOMAIN m.live
      BY <3>1, ClosedSteps
    <3>2. CASE s \notin DOMAIN m.live
      BY <3>2, ClosedIs
    <3> QED
      BY <3>1, <3>2
  <2>3. Out(Closed(m, s)) = Out(m)
    <3>1. CASE s \in DOMAIN m.live
      <4> DEFINE n == Closed(m, s)
                 r == m.live[s].runtime
                 a == CloseRequest(s)
      <4>1. Sent(m, n, r, a)
        BY <3>1, ClosedSteps
      <4>2. a \in Requests /\ m.workers \in [Kinds -> Worker]
        BY RequestsAre, MediaIs
      <4> HIDE DEF n, r, a
      <4>3. \A x \in Kinds : n.workers[x].outbox = m.workers[x].outbox
        BY <4>1, <4>2, PostedGrows DEF Sent
      <4> QED
        BY <4>3 DEF Out, n
    <3>2. CASE s \notin DOMAIN m.live
      BY <3>2, ClosedIs
    <3> QED
      BY <3>1, <3>2
  <2> QED
    BY <2>1, <2>2, <2>3
<1>2. Mild(m, Closed(m, s)) /\ Firsts(m, Closed(m, s))
  BY ClosedFirsts
<1>3. ASSUME Sound(m, Out(m)) PROVE Sound(Closed(m, s), Out(Closed(m, s)))
  BY <1>3, ClosedSound
<1> QED
  BY <1>1, <1>2, <1>3 DEF Shut

LEMMA CloseSteps ==
  ASSUME NEW n \in Nat, NEW f \in [0..n -> MediaType], NEW c \in [1..n -> Nat],
         \A i \in 1..n : f[i] = Closed(f[i - 1], c[i])
  PROVE  Shut(f[0], f[n]) /\ \A i \in 1..n : c[i] \notin DOMAIN f[n].live
<1> DEFINE From(k) == Shut(f[0], f[k]) /\ \A i \in 1..k : c[i] \notin DOMAIN f[k].live
           T == {k \in Nat : k <= n => From(k)}
<1>1. 0 \in T
  <2>1. f[0] \in MediaType
    OBVIOUS
  <2>2. Shut(f[0], f[0])
    BY <2>1, ShutSelf
  <2> QED
    BY <2>2
<1>2. ASSUME NEW k \in 0..n, k \in T, k < n PROVE k + 1 \in T
  <2>0. k + 1 \in Nat /\ (From(k + 1) => k + 1 \in T)
    <3> HIDE DEF From
    <3> QED
      BY <1>2
  <2>1. From(k) /\ k + 1 \in 1..n /\ (k + 1) - 1 = k /\ k \in Nat
    <3> HIDE DEF From
    <3> QED
      BY <1>2
  <2>2. f[k] \in MediaType /\ c[k + 1] \in Nat /\ f[k + 1] = Closed(f[k], c[k + 1])
    BY <2>1
  <2>3. Shut(f[k], f[k + 1]) /\ c[k + 1] \notin DOMAIN f[k + 1].live
    BY <2>2, ClosedShut
  <2>4. Shut(f[0], f[k + 1])
    BY <2>1, <2>3, ShutOn
  <2>5. DOMAIN f[k + 1].live \subseteq DOMAIN f[k].live
    BY <2>3 DEF Shut, Mild
  <2>6. \A i \in 1..(k + 1) : i \in 1..k \/ i = k + 1
    BY <2>1
  <2>7. From(k + 1)
    BY <2>1, <2>3, <2>4, <2>5, <2>6
  <2> QED
    BY <2>0, <2>7
<1>3. 0..n \subseteq T
  <2> HIDE DEF T
  <2> QED
    BY <1>1, <1>2, NumberInduction
<1>4. From(n)
  <2> HIDE DEF From
  <2> QED
    BY <1>3
<1> QED
  BY <1>4

LEMMA AllClosedIs ==
  ASSUME NEW m \in MediaType, NEW q \in Seq(Nat)
  PROVE  Shut(m, AllClosed(m, q)) /\ \A i \in 1..Len(q) : q[i] \notin DOMAIN AllClosed(m, q).live
<1> DEFINE E == Nat
<1>1. Closes(MediaType, E) /\ q \in Seq(E)
  BY ClosedIs DEF Closes
<1>2. PICK f \in [0..Len(q) -> MediaType] :
           /\ f[0] = m /\ f[Len(q)] = AllClosed(m, q)
           /\ \A i \in 1..Len(q) : f[i] = Closed(f[i - 1], q[i])
  <2> HIDE DEF E
  <2> QED
    BY <1>1, ClosedFold
<1>3. q \in [1..Len(q) -> Nat] /\ Len(q) \in Nat
  OBVIOUS
<1>4. Shut(f[0], f[Len(q)]) /\ \A i \in 1..Len(q) : q[i] \notin DOMAIN f[Len(q)].live
  BY <1>2, <1>3, CloseSteps
<1> QED
  BY <1>2, <1>4

LEMMA EndedIs ==
  ASSUME NEW m \in MediaType, NEW q \in Seq(Overlays)
  PROVE  Shut(m, Ended(m, q)) /\ \A i \in 1..Len(q) : m.sessions[q[i]] \notin DOMAIN Ended(m, q).live
<1> DEFINE M == {k \in MediaType : k.sessions = m.sessions}
           n == Len(q)
<1>1. \A k \in M, e \in Overlays : Closed(k, k.sessions[e]) \in M
  <2> SUFFICES ASSUME NEW k \in M, NEW e \in Overlays PROVE Closed(k, k.sessions[e]) \in M
    OBVIOUS
  <2>1. k \in MediaType /\ k.sessions[e] \in Nat
    BY MediaIs
  <2>2. Closed(k, k.sessions[e]) \in MediaType /\ Alike(k, Closed(k, k.sessions[e]))
    BY <2>1, ClosedIs
  <2> QED
    BY <2>2 DEF Alike
<1>2. m \in M
  OBVIOUS
<1>3. PICK f \in [0..n -> M] :
           /\ f[0] = m /\ f[n] = Ended(m, q)
           /\ \A i \in 1..n : f[i] = Closed(f[i - 1], f[i - 1].sessions[q[i]])
  <2> DEFINE E == Overlays
  <2>1. EndsIn(M, E) /\ q \in Seq(E)
    BY <1>1 DEF EndsIn
  <2> HIDE DEF M, E
  <2> QED
    BY <1>2, <2>1, EndedFold
<1>4. n \in Nat /\ \A i \in 1..n : q[i] \in Overlays /\ i - 1 \in 0..n
  BY ElementOfSeq
<1> DEFINE c == [i \in 1..n |-> m.sessions[q[i]]]
<1>5. c \in [1..n -> Nat]
  BY <1>4, MediaIs
<1>6. f \in [0..n -> MediaType]
  OBVIOUS
<1>7. \A i \in 1..n : f[i] = Closed(f[i - 1], c[i])
  BY <1>3, <1>4
<1> HIDE DEF c, M
<1>8. Shut(f[0], f[n]) /\ \A i \in 1..n : c[i] \notin DOMAIN f[n].live
  BY <1>4, <1>5, <1>6, <1>7, CloseSteps
<1> QED
  BY <1>3, <1>8 DEF c

LEMMA LiveFinite ==
  ASSUME NEW m \in MediaType, Counted(m), NEW S \in SUBSET DOMAIN m.live
  PROVE  IsFiniteSet(S) /\ S \in SUBSET Nat
<1> DEFINE n == m.opened
<1>1. n \in Nat /\ S \subseteq 1..n
  BY MediaIs DEF Counted
<1> HIDE DEF n
<1>2. IsFiniteSet(1..n)
  BY <1>1, FS_Interval
<1> QED
  BY <1>1, <1>2, FS_Subset

LEMMA RetireIs ==
  ASSUME NEW m \in MediaType, Counted(m), NEW current
  PROVE  LET n == RetireGeneration(m, current) IN
         Shut(m, n) /\ \A s \in DOMAIN n.live : n.live[s].generation = current
<1> DEFINE S == {s \in DOMAIN m.live : m.live[s].generation # current}
           q == SetToSeq(S)
           n == AllClosed(m, q)
<1>1. IsFiniteSet(S) /\ S \in SUBSET Nat
  BY LiveFinite
<1>2. Lists(q, S)
  <2> HIDE DEF S
  <2> QED
    BY <1>1, SetToSeqLists
<1>3. q \in Seq(Nat) /\ \A s \in S : \E i \in 1..Len(q) : q[i] = s
  <2> HIDE DEF S, q
  <2>1. q \in Seq(S) /\ \A s \in S : \E i \in 1..Len(q) : q[i] = s
    BY <1>2 DEF Lists
  <2>2. \A i \in 1..Len(q) : q[i] \in Nat
    BY <1>1, <2>1, ElementOfSeq
  <2>3. Len(q) \in Nat /\ q \in [1..Len(q) -> S]
    BY <2>1
  <2>4. q \in [1..Len(q) -> Nat]
    BY <2>2, <2>3
  <2> QED
    BY <2>1, <2>3, <2>4
<1> HIDE DEF q, n
<1>4. Shut(m, n) /\ \A i \in 1..Len(q) : q[i] \notin DOMAIN n.live
  BY <1>3, AllClosedIs DEF n
<1>5. ASSUME NEW s \in DOMAIN n.live PROVE n.live[s].generation = current
  <2>1. s \in DOMAIN m.live /\ n.live[s].generation = m.live[s].generation
    BY <1>4 DEF Shut, Mild
  <2>2. s \notin S
    BY <1>3, <1>4, <1>5
  <2> QED
    BY <2>1, <2>2
<1> QED
  BY <1>4, <1>5 DEF n, q, RetireGeneration

LEMMA AllRecoveredIs ==
  ASSUME NEW m \in MediaType, NEW E, NEW q \in Seq(E), \A e \in E : e.session \in Nat, NEW broken, NEW g \in Nat,
         Sound(m, Out(m)), Kept(m, g), Reported(m, g)
  PROVE  LET n == AllRecovered(m, q, broken) IN
         /\ n \in MediaType /\ Sound(n, Out(n)) /\ Kept(n, g) /\ Reported(n, g)
         /\ n.indexed = m.indexed /\ n.sessions = m.sessions /\ n.parked = m.parked
         /\ n.opened = m.opened /\ n.astray = m.astray /\ Firsts(m, n)
<1> DEFINE Fit(k) == /\ Sound(k, Out(k)) /\ Kept(k, g) /\ Reported(k, g)
                     /\ k.indexed = m.indexed /\ k.sessions = m.sessions /\ k.parked = m.parked
                     /\ k.opened = m.opened /\ k.astray = m.astray /\ Firsts(m, k)
           M == {k \in MediaType : Fit(k)}
           n == AllRecovered(m, q, broken)
<1>1. m \in M
  <2>1. Firsts(m, m)
    BY DEF Firsts, Stands, PlaysAs
  <2> QED
    BY <2>1
<1>2. ASSUME NEW k \in M, NEW e \in E PROVE Recovered(k, e.session, e.error, broken) \in M
  <2> DEFINE j == Recovered(k, e.session, e.error, broken)
  <2>1. k \in MediaType /\ Fit(k) /\ e.session \in Nat
    OBVIOUS
  <2>2. j \in MediaType /\ Sound(j, Out(j))
    BY <2>1, RecoveredSound
  <2>3. /\ j.indexed = k.indexed /\ j.sessions = k.sessions /\ j.parked = k.parked
        /\ j.opened = k.opened /\ j.astray = k.astray
        /\ Kept(j, g) /\ Reported(j, g)
    BY <2>1, RecoveredKept
  <2>4. Firsts(k, j)
    BY <2>1, RecoveredFirsts
  <2> HIDE DEF j
  <2>5. Firsts(m, j)
    BY <2>1, <2>4, FirstsOn
  <2>6. Fit(j)
    BY <2>1, <2>2, <2>3, <2>5
  <2> QED
    BY <2>2, <2>6 DEF j
<1>3. Recovers(M, E, broken)
  BY <1>2 DEF Recovers
<1>4. PICK f \in [0..Len(q) -> M] :
           /\ f[0] = m /\ f[Len(q)] = AllRecovered(m, q, broken)
           /\ \A i \in 1..Len(q) : f[i] = Recovered(f[i - 1], q[i].session, q[i].error, broken)
  <2> HIDE DEF M
  <2> QED
    BY <1>1, <1>3, RecoveredFold
<1>5. n \in M
  <2>1. Len(q) \in Nat /\ Len(q) \in 0..Len(q)
    OBVIOUS
  <2> HIDE DEF M
  <2> QED
    BY <1>4, <2>1
<1> QED
  BY <1>5

(* A batch of messages. *)
LEMMA AllHeardIs ==
  ASSUME NEW m \in MediaType, NEW r \in Kinds, NEW q \in Seq(Events), NEW k \in 0..Len(q),
         NEW out, out[r] = q, Sound(m, out),
         m.workers[r].outbox = SubSeq(q, k + 1, Len(q)), \A z \in Kinds : z # r => m.workers[z].outbox = out[z]
  PROVE  LET n == AllHeard(m, r, SubSeq(q, 1, k)) IN
         /\ n \in MediaType /\ Sound(n, Out(n)) /\ Books(m, n) /\ Mild(m, n) /\ Firsts(m, n)
         /\ DOMAIN n.live = DOMAIN m.live
         /\ \A z \in Kinds : n.workers[z].alive = m.workers[z].alive
<1> DEFINE batch == SubSeq(q, 1, k)
           Fit(n) == /\ Books(m, n) /\ Mild(m, n) /\ Firsts(m, n)
                     /\ DOMAIN n.live = DOMAIN m.live
                     /\ \A z \in Kinds : n.workers[z].alive = m.workers[z].alive
                     /\ Out(n) = Out(m)
           M == {n \in MediaType : Fit(n)}
           Step(n, e) == IF e.kind = "FrameReady" THEN FrameReady(n, r, e, batch) ELSE n
           left(i) == [z \in Kinds |-> IF z = r THEN SubSeq(q, i + 1, Len(q)) ELSE out[z]]
<1>1. batch \in Seq(Events) /\ Len(batch) = k /\ k \in Nat /\ Len(q) \in Nat /\ \A i \in 1..k : batch[i] = q[i]
  OBVIOUS
<1>2. m \in M
  <2>1. Books(m, m) /\ Mild(m, m) /\ Firsts(m, m)
    BY DEF Books, Mild, Firsts, Stands, PlaysAs
  <2> QED
    BY <2>1
<1>3. \A e \in Events : e.kind = "FrameReady" => e \in FrameKind
  BY DEF Events, FailedKind
<1>4. ASSUME NEW n \in M, NEW e \in Events PROVE Step(n, e) \in M
  <2>1. n \in MediaType /\ Fit(n)
    OBVIOUS
  <2>2. CASE e.kind = "FrameReady"
    <3> DEFINE j == FrameReady(n, r, e, batch)
    <3>1. e \in FrameKind
      BY <1>3, <2>2
    <3>2. j \in MediaType /\ Out(j) = Out(n)
      <4>1. \/ Superseded(e, batch) /\ j = Send(n, r, ReleaseRequest(e))
            \/ ~Superseded(e, batch) /\ j = n
                 /\ (e.session \notin DOMAIN n.live
                       \/ (e.session \in DOMAIN n.live /\ n.live[e.session].first
                             /\ e.sequence <= n.live[e.session].last))
            \/ e.session \in DOMAIN n.live /\ Took(n, j, r, e)
                 /\ (n.live[e.session].first => ~(e.sequence <= n.live[e.session].last))
        BY <2>1, <3>1, FrameReadyIs
      <4> DEFINE a == ReleaseRequest(e)
      <4>2. a \in Requests
        BY <3>1, ReleaseIs
      <4>3. Send(n, r, a) \in MediaType /\ Sent(n, Send(n, r, a), r, a)
        <5> HIDE DEF a
        <5> QED
          BY <2>1, <4>2, SendIs DEF Sent
      <4> HIDE DEF a, j, batch, Fit, M
      <4>4. j = n \/ (j \in MediaType /\ Sent(n, j, r, a))
        BY <4>1, <4>3 DEF Took, Sent, a
      <4>5. ASSUME Sent(n, j, r, a) PROVE Out(j) = Out(n)
        <5>1. n.workers \in [Kinds -> Worker]
          BY <2>1, MediaIs
        <5>2. \A x \in Kinds : j.workers[x].outbox = n.workers[x].outbox
          BY <4>2, <4>5, <5>1, PostedGrows DEF Sent
        <5> QED
          BY <5>2 DEF Out
      <4> QED
        BY <2>1, <4>4, <4>5
    <3>3. /\ Books(n, j) /\ Mild(n, j) /\ Firsts(n, j) /\ DOMAIN j.live = DOMAIN n.live
          /\ \A z \in Kinds : j.workers[z].alive = n.workers[z].alive
      BY <2>1, <3>1, FrameMild
    <3> HIDE DEF j
    <3>4. Firsts(m, j)
      BY <2>1, <3>3, FirstsOn
    <3>5. Fit(j)
      BY <2>1, <3>2, <3>3, <3>4 DEF Books, Mild
    <3> QED
      BY <2>2, <3>2, <3>5 DEF j
  <2>3. CASE e.kind # "FrameReady"
    BY <2>3
  <2> QED
    BY <2>2, <2>3
<1>5. Hears(M, Events, r, batch)
  BY <1>4 DEF Hears
<1>6. PICK f \in [0..Len(batch) -> M] :
           /\ f[0] = m /\ f[Len(batch)] = AllHeard(m, r, batch)
           /\ \A i \in 1..Len(batch) :
                f[i] = (IF batch[i].kind = "FrameReady" THEN FrameReady(f[i - 1], r, batch[i], batch) ELSE f[i - 1])
  <2> DEFINE E == Events
  <2>1. Hears(M, E, r, batch) /\ batch \in Seq(E)
    BY <1>1, <1>5
  <2> HIDE DEF M, E, batch
  <2> QED
    BY <1>2, <2>1, HeardFold
<1>7. f[k] \in M /\ f[k] = AllHeard(m, r, batch) /\ f[0] = m
  <2> HIDE DEF M, batch
  <2> QED
    BY <1>1, <1>6
<1> DEFINE From(i) == Sound(f[i], left(i))
           T == {i \in Nat : i <= k => From(i)}
<1>8. 0 \in T
  <2>1. SubSeq(q, 0 + 1, Len(q)) = q
    OBVIOUS
  <2>2. \A z \in Kinds : left(0)[z] = out[z]
    BY <2>1
  <2>3. Sound(m, left(0))
    <3>1. Sanes(m, left(0))
      BY <2>2 DEF Sound, Sanes
    <3>2. Tracks(m, left(0))
      BY <2>2 DEF Sound, Tracks
    <3> QED
      BY <3>1, <3>2 DEF Sound
  <2> QED
    BY <1>7, <2>3
<1>9. ASSUME NEW i \in 0..k, i \in T, i < k PROVE i + 1 \in T
  <2>0. i + 1 \in Nat /\ (From(i + 1) => i + 1 \in T)
    <3> HIDE DEF From
    <3> QED
      BY <1>1, <1>9
  <2>1. From(i) /\ i + 1 \in 1..k /\ (i + 1) - 1 = i /\ i \in Nat
    <3> HIDE DEF From
    <3> QED
      BY <1>1, <1>9
  <2>2. f[i] \in MediaType /\ f[i + 1] = Step(f[i], q[i + 1]) /\ i + 1 \in 1..Len(q) /\ q[i + 1] \in Events
    <3>1. f[i] \in M
      <4> HIDE DEF M, batch
      <4> QED
        BY <1>1, <1>6, <2>1
    <3>2. i + 1 \in 1..Len(batch) /\ batch[i + 1] = q[i + 1]
      BY <1>1, <2>1
    <3>3. q[i + 1] \in Events
      BY <1>1, <2>1, ElementOfSeq
    <3> HIDE DEF batch
    <3> QED
      BY <1>1, <1>6, <2>1, <3>1, <3>2, <3>3
  <2> DEFINE a == left(i)
             b == left(i + 1)
  <2>3. a[r] = SubSeq(q, i + 1, Len(q)) /\ b[r] = SubSeq(q, i + 2, Len(q)) /\ \A z \in Kinds : z # r => b[z] = a[z]
    <3>1. (i + 1) + 1 = i + 2
      BY <2>1
    <3> QED
      BY <3>1
  <2>4. Pops(a[r], b[r]) /\ a[r][1] = q[i + 1]
    <3> HIDE DEF a, b
    <3> QED
      BY <1>1, <2>1, <2>2, <2>3 DEF Pops
  <2>5. Heard1(a, b, r)
    BY <2>3, <2>4 DEF Heard1
  <2> HIDE DEF a, b, left
  <2>6. Sound(f[i], a)
    BY <2>1 DEF a
  <2>7. CASE q[i + 1].kind = "FrameReady"
    <3>1. a[r][1] \in FrameKind
      BY <1>3, <2>2, <2>4, <2>7
    <3>2. Sound(FrameReady(f[i], r, a[r][1], batch), b)
      BY <2>2, <2>5, <2>6, <3>1, FrameSound
    <3>3. Sound(f[i + 1], b)
      BY <2>2, <2>4, <2>7, <3>2
    <3> QED
      BY <2>0, <3>3 DEF b
  <2>8. CASE q[i + 1].kind # "FrameReady"
    <3>1. \A s \in DOMAIN f[i].live : FrameAt(a[r], s, 1) => f[i].live[s].relaunched
      BY <2>4, <2>8 DEF FrameAt
    <3>2. Sound(f[i], b)
      BY <2>2, <2>5, <2>6, <3>1, SkippedSound
    <3>3. Sound(f[i + 1], b)
      BY <2>2, <2>8, <3>2
    <3> QED
      BY <2>0, <3>3 DEF b
  <2> QED
    BY <2>7, <2>8
<1>10. 0..k \subseteq T
  <2> HIDE DEF T
  <2> QED
    BY <1>1, <1>8, <1>9, NumberInduction
<1>11. Sound(f[k], left(k))
  <2>1. k \in T
    <3> HIDE DEF T
    <3> QED
      BY <1>1, <1>10
  <2> HIDE DEF left
  <2> QED
    BY <2>1
<1>12. Out(f[k]) = left(k)
  <2>1. Out(f[k]) = Out(m)
    BY <1>7
  <2>2. Out(m) = left(k)
    BY DEF Out
  <2> QED
    BY <2>1, <2>2
<1> QED
  BY <1>7, <1>11, <1>12

LEMMA OpenReadyIs ==
  ASSUME NEW m \in MediaType, NEW p, NEW broken, NEW g \in Nat,
         Sound(m, Out(m)), Kept(m, g), Level(m), Pend(m)
  PROVE  LET n == OpenReady(m, p, broken) IN
         /\ n \in MediaType /\ Sound(n, Out(n)) /\ Kept(n, g) /\ Level(n) /\ Pend(n)
         /\ n.indexed = m.indexed /\ n.parked = m.parked
<1> DEFINE S == Ready(m, p)
           q == Ascending(S)
           n == Len(q)
           Fit(k) == Sound(k, Out(k)) /\ k.indexed = m.indexed /\ k.parked = m.parked
           M == {k \in MediaType : Fit(k)}
<1>1. S \subseteq Overlays /\ \A o \in S : m.sessions[o] = 0 /\ m.indexed # 0
  BY DEF OnPage, Ready
<1>2. IsFiniteSet(S) /\ S \in SUBSET Nat
  <2> HIDE DEF S
  <2> QED
    BY <1>1, MediaAssumption, FS_Subset
<1> HIDE DEF S
<1>3. Lists(q, S)
  BY <1>2, AscendingLists
<1> HIDE DEF q
<1>4. /\ q \in Seq(S) /\ n \in Nat /\ \A i \in 1..n : q[i] \in S
      /\ \A i, j \in 1..n : q[i] = q[j] => i = j
  <2>1. q \in Seq(S) /\ \A i, j \in 1..Len(q) : q[i] = q[j] => i = j
    BY <1>3 DEF Lists
  <2> QED
    BY <2>1, ElementOfSeq
<1>5. m \in M
  OBVIOUS
<1>6. ASSUME NEW k \in M, NEW e \in S PROVE Opened(k, e, broken) \in M
  <2>1. k \in MediaType /\ Fit(k) /\ e \in Overlays /\ k.indexed # 0
    BY <1>1
  <2>2. LET j == Opened(k, e, broken) IN
        j \in MediaType /\ Sound(j, Out(j)) /\ j.indexed = k.indexed /\ j.parked = k.parked
    BY <2>1, OpenedSound
  <2> QED
    BY <2>1, <2>2
<1>7. OpensIn(M, S, broken)
  BY <1>6 DEF OpensIn
<1>8. PICK f \in [0..Len(q) -> M] :
           /\ f[0] = m /\ f[Len(q)] = AllOpened(m, q, broken)
           /\ \A i \in 1..Len(q) : f[i] = Opened(f[i - 1], q[i], broken)
  <2> HIDE DEF M
  <2> QED
    BY <1>4, <1>5, <1>7, OpenedFold
<1> DEFINE From(k) == /\ Kept(f[k], g) /\ Level(f[k]) /\ Pend(f[k])
                      /\ \A i \in 1..n : k < i => f[k].sessions[q[i]] = 0
           T == {k \in Nat : k <= n => From(k)}
<1>9. 0 \in T
  BY <1>1, <1>4, <1>8
<1>10. ASSUME NEW k \in 0..n, k \in T, k < n PROVE k + 1 \in T
  <2>0. k + 1 \in Nat /\ (From(k + 1) => k + 1 \in T)
    <3> HIDE DEF From
    <3> QED
      BY <1>4, <1>10
  <2>1. From(k) /\ k + 1 \in 1..n /\ (k + 1) - 1 = k /\ k \in Nat /\ k < k + 1
    <3> HIDE DEF From
    <3> QED
      BY <1>4, <1>10
  <2>2. f[k] \in MediaType /\ Sound(f[k], Out(f[k]))
    <3>1. f[k] \in M
      <4> HIDE DEF M, From
      <4> QED
        BY <1>4, <1>8, <1>10
    <3> HIDE DEF From
    <3> QED
      BY <3>1
  <2>3. q[k + 1] \in Overlays /\ f[k].sessions[q[k + 1]] = 0
    BY <1>1, <1>4, <2>1
  <2>4. f[k + 1] = Opened(f[k], q[k + 1], broken)
    <3> HIDE DEF From
    <3> QED
      BY <1>8, <2>1
  <2>5. Counted(f[k]) /\ Kept(f[k], g) /\ Level(f[k]) /\ Pend(f[k])
    BY <2>1, <2>2 DEF Sound
  <2>6. /\ Kept(f[k + 1], g) /\ Level(f[k + 1]) /\ Pend(f[k + 1])
        /\ \A o \in Overlays : o # q[k + 1] => f[k + 1].sessions[o] = f[k].sessions[o]
    <3> HIDE DEF From
    <3> QED
      BY <2>2, <2>3, <2>4, <2>5, OpenedKept
  <2>7. ASSUME NEW i \in 1..n, k + 1 < i PROVE f[k + 1].sessions[q[i]] = 0
    <3>1. k < i /\ i # k + 1
      BY <2>1, <2>7
    <3>2. q[i] \in Overlays /\ q[i] # q[k + 1]
      BY <1>1, <1>4, <2>1, <3>1
    <3>3. f[k].sessions[q[i]] = 0
      BY <2>1, <3>1
    <3> QED
      BY <2>6, <3>2, <3>3
  <2>8. From(k + 1)
    BY <2>6, <2>7
  <2> QED
    BY <2>0, <2>8
<1>11. 0..n \subseteq T
  <2> HIDE DEF T
  <2> QED
    BY <1>4, <1>9, <1>10, NumberInduction
<1>12. From(n)
  <2> HIDE DEF From
  <2> QED
    BY <1>4, <1>11
<1>13. f[n] \in M /\ f[n] = OpenReady(m, p, broken)
  <2>1. f[n] \in M
    <3> HIDE DEF M
    <3> QED
      BY <1>4, <1>8
  <2> QED
    BY <1>8, <2>1 DEF OpenReady, q, S
<1> HIDE DEF n
<1> QED
  BY <1>12, <1>13

LEMMA AllToldIs ==
  ASSUME NEW m \in MediaType, NEW p, NEW g, Sound(m, Out(m)), Kept(m, g)
  PROVE  LET n == Told(m, p) IN
         /\ n \in MediaType /\ Alike(m, n) /\ n.live = m.live /\ Sound(n, Out(n))
         /\ Follows(n, p)
<1> DEFINE S == {o \in Overlays : m.sessions[o] # 0}
           on == OnPage(m, p)
           q == Ascending(S)
           n == Len(q)
           Fit(k) == Alike(m, k) /\ k.live = m.live /\ Sound(k, Out(k))
           M == {k \in MediaType : Fit(k)}
<1>1. IsFiniteSet(S) /\ S \in SUBSET Nat /\ S \subseteq Overlays
  BY MediaAssumption, FS_Subset
<1>2. \A o \in Overlays : m.sessions[o] # 0 => o \in S
  OBVIOUS
<1> HIDE DEF S
<1>3. Lists(q, S)
  BY <1>1, AscendingLists
<1> HIDE DEF q
<1>4. /\ q \in Seq(S) /\ n \in Nat /\ \A i \in 1..n : q[i] \in Overlays
      /\ \A i, j \in 1..n : q[i] = q[j] => i = j
      /\ \A o \in S : \E i \in 1..n : q[i] = o
  <2>1. /\ q \in Seq(S) /\ \A i, j \in 1..Len(q) : q[i] = q[j] => i = j
        /\ \A o \in S : \E i \in 1..Len(q) : q[i] = o
    BY <1>3 DEF Lists
  <2>2. n \in Nat /\ \A i \in 1..n : q[i] \in S
    BY <2>1, ElementOfSeq
  <2> QED
    BY <1>1, <2>1, <2>2
<1>5. m \in M
  BY DEF Alike
<1>6. ASSUME NEW k \in M, NEW e \in S PROVE SetActive(k, k.sessions[e], e \in on) \in M
  <2> DEFINE b == e \in on
             s == k.sessions[e]
             j == SetActive(k, s, b)
  <2>1. k \in MediaType /\ Fit(k) /\ s \in Nat /\ b \in BOOLEAN
    BY <1>1, MediaIs
  <2> HIDE DEF b, s
  <2>2. j \in MediaType /\ Alike(k, j) /\ j.live = k.live
    BY <2>1, ToldSteps
  <2>3. Sound(j, Out(k)) /\ Out(j) = Out(k)
    BY <2>1, ToldSound
  <2> HIDE DEF j
  <2>4. Fit(j)
    BY <2>1, <2>2, <2>3 DEF Alike
  <2> QED
    BY <2>2, <2>4 DEF j, s, b
<1>7. Tells(M, S, on)
  BY <1>6 DEF Tells
<1>8. PICK f \in [0..Len(q) -> M] :
           /\ f[0] = m /\ f[Len(q)] = AllTold(m, q, on)
           /\ \A i \in 1..Len(q) : f[i] = SetActive(f[i - 1], f[i - 1].sessions[q[i]], q[i] \in on)
  <2> HIDE DEF M, on
  <2> QED
    BY <1>4, <1>5, <1>7, ToldFold
<1> HIDE DEF on
<1> DEFINE Plays1(k, i) ==
             m.sessions[q[i]] \in DOMAIN m.live =>
               PlaysSo(m.sessions[q[i]], f[k].workers[m.live[m.sessions[q[i]]].runtime], q[i] \in on)
           From(k) == \A i \in 1..k : Plays1(k, i)
           T == {k \in Nat : k <= n => From(k)}
<1>9. 0 \in T
  OBVIOUS
<1>10. ASSUME NEW k \in 0..n, k \in T, k < n PROVE k + 1 \in T
  <2>0. k + 1 \in Nat /\ (From(k + 1) => k + 1 \in T)
    <3> HIDE DEF From
    <3> QED
      BY <1>4, <1>10
  <2>1. From(k) /\ k + 1 \in 1..n /\ (k + 1) - 1 = k /\ k \in Nat /\ k < k + 1
    <3> HIDE DEF From
    <3> QED
      BY <1>4, <1>10
  <2> DEFINE w == f[k]
             v == f[k + 1]
             e == q[k + 1]
             s == m.sessions[e]
             b == e \in on
             r == m.live[s].runtime
             a == ActiveRequest(s, b)
  <2>2. w \in MediaType /\ Alike(m, w) /\ w.live = m.live /\ Sound(w, Out(w)) /\ e \in Overlays
    <3>1. f[k] \in M
      <4> HIDE DEF M, From
      <4> QED
        BY <1>4, <1>8, <1>10
    <3> HIDE DEF From
    <3> QED
      BY <1>4, <2>1, <3>1
  <2>3. v = SetActive(w, s, b) /\ s \in Nat /\ b \in BOOLEAN
    <3>1. v = SetActive(w, w.sessions[e], b)
      <4> HIDE DEF From
      <4> QED
        BY <1>8, <2>1
    <3> HIDE DEF From, w, v
    <3> QED
      BY <2>2, <3>1, MediaIs DEF Alike
  <2>4. ASSUME s \notin DOMAIN m.live PROVE From(k + 1)
    <3>1. v = w
      <4> HIDE DEF From, w, v, s, b
      <4> QED
        BY <2>2, <2>3, <2>4, ToldSteps, SMTT(30)
    <3>2. ASSUME NEW i \in 1..(k + 1) PROVE Plays1(k + 1, i)
      <4>1. CASE i = k + 1
        BY <2>4, <4>1
      <4>2. CASE i # k + 1
        <5>1. i \in 1..k
          BY <2>1, <4>2
        <5> QED
          BY <2>1, <3>1, <5>1
      <4> QED
        BY <4>1, <4>2
    <3> QED
      BY <3>2
  <2>5. ASSUME s \in DOMAIN m.live PROVE From(k + 1)
    <3>1. Sent(w, v, r, a) /\ r \in Kinds /\ w.workers \in [Kinds -> Worker]
      <4>1. r \in Kinds
        BY <2>5, MediaIs, PartialIs, PlayingIs
      <4>2. Sent(w, v, w.live[s].runtime, a)
        <5> HIDE DEF From, w, v, s, b
        <5> QED
          BY <2>2, <2>3, <2>5, ToldSteps
      <4> QED
        BY <2>2, <4>1, <4>2, MediaIs
    <3>2. a \in Requests /\ a.session = s /\ a.kind = "SetActive" /\ a.active = b
      BY <2>3, RequestsAre
    <3>3. PlaysSo(s, v.workers[r], b)
      <4> HIDE DEF From, w, v, s, b, a, r
      <4>1. CASE w.workers[r].alive
        <5> DEFINE z == Posted(w.workers[r], a)
        <5>1. Grows(w.workers[r].inbox, z.inbox, a) /\ v.workers[r] = z
          BY <3>1, <3>2, <4>1, PostedGrows DEF Sent
        <5> HIDE DEF z
        <5>2. PlaysSo(s, z, b)
          BY <3>2, <5>1, TellPlays
        <5> QED
          BY <5>1, <5>2
      <4>2. CASE ~w.workers[r].alive
        <5>1. v.workers[r] = w.workers[r] /\ w.workers[r].inbox = <<>> /\ w.workers[r].hosted = Nobody
          BY <2>2, <3>1, <4>2 DEF Sent, Sound, Sanes, Sane
        <5>2. s \notin DOMAIN w.workers[r].hosted
          BY <5>1, NobodyIs
        <5>3. PlaysSo(s, w.workers[r], b)
          BY <5>1, <5>2, EmptyPlays
        <5> QED
          BY <5>1, <5>3
      <4> QED
        BY <4>1, <4>2
    <3>4. ASSUME NEW i \in 1..k PROVE Plays1(k + 1, i)
      <4> DEFINE t == m.sessions[q[i]]
                 x == m.live[t].runtime
                 c == q[i] \in on
      <4>1. i \in 1..n /\ q[i] \in Overlays /\ q[i] # e
        <5>1. i \in 1..n /\ i # k + 1
          <6> HIDE DEF From, Plays1
          <6> QED
            BY <1>4, <1>10, <2>1, SMTT(30)
        <5> HIDE DEF From, Plays1
        <5> QED
          BY <1>4, <2>1, <5>1
      <4> SUFFICES ASSUME t \in DOMAIN m.live PROVE PlaysSo(t, v.workers[x], c)
        BY ZenonT(60)
      <4>2. PlaysSo(t, w.workers[x], c)
        BY <2>1
      <4>3. t # s
        BY <2>2, <2>5, <4>1 DEF Kept, Owned
      <4>4. x \in Kinds
        BY MediaIs, PartialIs, PlayingIs
      <4> HIDE DEF From, w, v, s, b, a, r, t, x, c
      <4>5. ASSUME w.workers[r].alive, x = r PROVE PlaysSo(t, v.workers[x], c)
        <5> DEFINE z == Posted(w.workers[r], a)
        <5>1. Grows(w.workers[r].inbox, z.inbox, a) /\ v.workers[r] = z /\ z.hosted = w.workers[r].hosted
          BY <3>1, <3>2, <4>5, PostedGrows DEF Sent
        <5> HIDE DEF z
        <5>2. PlaysSo(t, z, c)
          BY <3>2, <4>2, <4>3, <4>5, <5>1, AddPlays
        <5> QED
          BY <4>5, <5>1, <5>2
      <4>6. ASSUME ~(x = r /\ w.workers[r].alive) PROVE PlaysSo(t, v.workers[x], c)
        BY <3>1, <4>2, <4>4, <4>6, SMTT(30) DEF Sent
      <4> QED
        BY <4>5, <4>6
    <3>5. Plays1(k + 1, k + 1)
      BY <3>3, ZenonT(60)
    <3>6. \A i \in 1..(k + 1) : i \in 1..k \/ i = k + 1
      BY <2>1
    <3> HIDE DEF Plays1
    <3> QED
      BY <3>4, <3>5, <3>6
  <2> QED
    BY <2>0, <2>4, <2>5, ZenonT(60)
<1>11. 0..n \subseteq T
  <2> HIDE DEF T
  <2> QED
    BY <1>4, <1>9, <1>10, NumberInduction
<1>12. From(n)
  <2> HIDE DEF From
  <2> QED
    BY <1>4, <1>11
<1>13. f[n] \in M /\ f[n] = Told(m, p)
  <2>1. f[n] \in M
    <3> HIDE DEF M
    <3> QED
      BY <1>4, <1>8
  <2> QED
    BY <1>8, <2>1 DEF Told, q, S, on
<1>14. Follows(f[n], p)
  <2> SUFFICES ASSUME NEW s \in DOMAIN f[n].live, f[n].sessions[f[n].live[s].overlay] = s
               PROVE  PlaysSo(s, f[n].workers[f[n].live[s].runtime], PageOf[f[n].live[s].overlay] = p)
    BY DEF Follows
  <2> DEFINE o == m.live[s].overlay
  <2>1. f[n].live = m.live /\ f[n].sessions = m.sessions
    BY <1>13 DEF Alike
  <2>2. s \in DOMAIN m.live /\ o \in Overlays /\ m.sessions[o] = s
    BY <2>1, MediaIs, PartialIs, PlayingIs
  <2>3. s # 0 /\ m.indexed # 0
    BY <2>2, MediaIs DEF Sound, Counted
  <2>4. PICK i \in 1..n : q[i] = o
    BY <1>2, <1>4, <2>2, <2>3
  <2>5. PlaysSo(s, f[n].workers[m.live[s].runtime], o \in on)
    BY <1>12, <2>2, <2>4
  <2>6. (o \in on) = (PageOf[o] = p)
    BY <2>2, <2>3, SMTT(30) DEF on, OnPage
  <2> HIDE DEF o, From
  <2>7. PlaysSo(s, f[n].workers[m.live[s].runtime], PageOf[o] = p)
    BY <2>5, <2>6, ZenonT(60) DEF PlaysSo
  <2> QED
    BY <2>1, <2>7 DEF o
<1> HIDE DEF n
<1> QED
  BY <1>13, <1>14

-----------------------------------------------------------------------------
(* The parked sessions. *)
Distinct(q) == \A i, j \in 1..Len(q) : q[i] = q[j] => i = j

LEMMA SeqInto ==
  ASSUME NEW E, NEW S \in SUBSET E, NEW q \in Seq(S)
  PROVE  q \in Seq(E) /\ Len(q) \in Nat /\ \A i \in 1..Len(q) : q[i] \in S
<1>1. Len(q) \in Nat /\ q \in [1..Len(q) -> S]
  OBVIOUS
<1>2. \A i \in 1..Len(q) : q[i] \in S
  BY <1>1
<1>3. q \in [1..Len(q) -> E]
  BY <1>1
<1> QED
  BY <1>1, <1>2, <1>3

LEMMA JoinedIs ==
  ASSUME NEW E, NEW p \in Seq(E), NEW q \in Seq(E), Distinct(p), Distinct(q),
         \A i \in 1..Len(p), j \in 1..Len(q) : p[i] # q[j]
  PROVE  /\ p \o q \in Seq(E) /\ Distinct(p \o q)
         /\ \A i \in 1..Len(p \o q) : \/ \E j \in 1..Len(p) : (p \o q)[i] = p[j]
                                      \/ \E j \in 1..Len(q) : (p \o q)[i] = q[j]
<1> DEFINE a == p \o q
<1>1. /\ a \in Seq(E) /\ Len(a) = Len(p) + Len(q) /\ Len(p) \in Nat /\ Len(q) \in Nat
      /\ \A i \in 1..(Len(p) + Len(q)) : a[i] = IF i <= Len(p) THEN p[i] ELSE q[i - Len(p)]
  BY ConcatProperties
<1> HIDE DEF a
<1>2. \A i \in 1..Len(a) : \/ i \in 1..Len(p) /\ a[i] = p[i]
                           \/ i - Len(p) \in 1..Len(q) /\ a[i] = q[i - Len(p)]
  BY <1>1
<1>3. ASSUME NEW i \in 1..Len(a), NEW j \in 1..Len(a), a[i] = a[j] PROVE i = j
  <2>1. i \in Nat /\ j \in Nat
    BY <1>1
  <2>2. CASE i \in 1..Len(p) /\ a[i] = p[i] /\ j \in 1..Len(p) /\ a[j] = p[j]
    BY <1>3, <2>2 DEF Distinct
  <2>3. ASSUME i - Len(p) \in 1..Len(q), a[i] = q[i - Len(p)], j - Len(p) \in 1..Len(q), a[j] = q[j - Len(p)]
        PROVE i = j
    <3>1. i - Len(p) = j - Len(p)
      BY <1>3, <2>3 DEF Distinct
    <3> QED
      BY <1>1, <2>1, <3>1
  <2> QED
    BY <1>2, <1>3, <2>2, <2>3
<1>4. Distinct(a)
  BY <1>3 DEF Distinct
<1>5. \A i \in 1..Len(a) : (\E j \in 1..Len(p) : a[i] = p[j]) \/ \E j \in 1..Len(q) : a[i] = q[j]
  BY <1>2
<1> QED
  BY <1>1, <1>4, <1>5 DEF a

LEMMA CutIs ==
  ASSUME NEW E, NEW q \in Seq(E), NEW k \in 0..Len(q)
  PROVE  /\ SubSeq(q, 1, k) \in Seq(E) /\ Len(SubSeq(q, 1, k)) = k /\ k \in Nat
         /\ \A i \in 1..k : SubSeq(q, 1, k)[i] = q[i] /\ i \in 1..Len(q)
         /\ SubSeq(q, k + 1, Len(q)) \in Seq(E) /\ Len(SubSeq(q, k + 1, Len(q))) = Len(q) - k
         /\ \A i \in 1..(Len(q) - k) : SubSeq(q, k + 1, Len(q))[i] = q[i + k] /\ i + k \in 1..Len(q)
OBVIOUS

LEMMA ParkedOnIs ==
  ASSUME NEW m \in MediaType, NEW p, Counted(m), Distinct(m.parked)
  PROVE  LET q == ParkedOn(m, p) IN
         /\ q \in Seq(Overlays) /\ Distinct(q)
         /\ \A i \in 1..Len(q) : m.sessions[q[i]] # 0 /\ PageOf[q[i]] # p
<1> DEFINE S == {o \in Overlays : m.sessions[o] # 0} \ OnPage(m, p)
           stay == Only(m.parked, S)
           N == {o \in Overlays : m.sessions[o] # 0 /\ o \notin OnPage(m, p)} \ Range(stay)
           newly == Ascending(N)
<1>1. \A o \in S : o \in Overlays /\ m.sessions[o] # 0 /\ PageOf[o] # p
  <2>1. \A o \in Overlays : m.sessions[o] # 0 => m.indexed # 0
    BY MediaIs DEF Counted
  <2> QED
    BY <2>1 DEF OnPage
<1>2. N \subseteq S
  OBVIOUS
<1>3. IsFiniteSet(N) /\ N \in SUBSET Nat
  BY MediaAssumption, FS_Subset
<1>4. Overlays \cap S = S /\ S \subseteq Overlays
  BY <1>1
<1> HIDE DEF S
<1>5. Sifted(stay, m.parked, S)
  BY <1>4, MediaIs, OnlySifts
<1> HIDE DEF stay
<1>6. stay \in Seq(S) /\ Distinct(stay)
  BY <1>5 DEF Sifted, Distinct
<1>7. \A i \in 1..Len(stay) : stay[i] \in Range(stay)
  BY <1>6 DEF Range
<1>8. \A o \in N : o \notin Range(stay)
  OBVIOUS
<1> HIDE DEF N
<1>9. Lists(newly, N)
  BY <1>3, AscendingLists
<1> HIDE DEF newly
<1>10. newly \in Seq(N) /\ Distinct(newly)
  BY <1>9 DEF Lists, Distinct
<1>11. newly \in Seq(S) /\ \A i \in 1..Len(newly) : newly[i] \in N
  BY <1>2, <1>10, SeqInto
<1>12. \A i \in 1..Len(stay), j \in 1..Len(newly) : stay[i] # newly[j]
  BY <1>7, <1>8, <1>11
<1> DEFINE q == stay \o newly
<1>13. q \in Seq(S) /\ Distinct(q)
  BY <1>6, <1>10, <1>11, <1>12, JoinedIs
<1>14. q = ParkedOn(m, p)
  BY DEF ParkedOn, stay, newly, S, N
<1> HIDE DEF q
<1>15. q \in Seq(Overlays) /\ \A i \in 1..Len(q) : q[i] \in S
  BY <1>4, <1>13, SeqInto
<1> QED
  BY <1>1, <1>13, <1>14, <1>15

(* Which overlays are parked while the audience is on page p. *)
Parks(m, p, late) ==
  /\ Distinct(m.parked) /\ Len(m.parked) <= MaxParked
  /\ \A i \in 1..Len(m.parked) : m.sessions[m.parked[i]] # 0 /\ (PageOf[m.parked[i]] = p => late)

Settled(m, q, S) == [m EXCEPT !.parked = q, !.sessions = S]

LEMMA SettledIs ==
  ASSUME NEW m \in MediaType, NEW q \in Seq(Overlays), NEW S \in [Overlays -> Nat]
  PROVE  LET n == Settled(m, q, S) IN
         /\ n \in MediaType /\ n.live = m.live /\ n.workers = m.workers /\ n.parked = q /\ n.sessions = S
         /\ n.indexed = m.indexed /\ n.frames = m.frames /\ n.pending = m.pending /\ n.opened = m.opened
         /\ n.astray = m.astray
BY DEF MediaType, Settled

(* Sessions that ended are taken out of the coordinator's list. *)
Struck(m, n) ==
  /\ n \in MediaType /\ n.live = m.live /\ n.workers = m.workers
  /\ n.indexed = m.indexed /\ n.pending = m.pending /\ n.opened = m.opened /\ n.astray = m.astray
  /\ \A o \in Overlays : n.sessions[o] = m.sessions[o] \/ (n.sessions[o] = 0 /\ m.sessions[o] \notin DOMAIN m.live)

LEMMA StruckKeeps ==
  ASSUME NEW m \in MediaType, NEW n, NEW g, Struck(m, n), Sound(m, Out(m)), Whole(n), Kept(m, g)
  PROVE  /\ Sound(n, Out(n)) /\ Kept(n, g) /\ (Level(m) => Level(n)) /\ (Pend(m) => Pend(n))
         /\ \A p : Follows(m, p) => Follows(n, p)
<1>1. 0 \notin DOMAIN m.live /\ m.opened \in Nat
  BY MediaIs DEF Sound, Counted
<1>2. Kept(n, g)
  BY <1>1, KeptZero DEF Struck
<1>3. Sound(n, Out(n))
  <2>1. Out(n) = Out(m)
    BY DEF Struck, Out
  <2>2. \A o \in Overlays : n.sessions[o] <= n.opened
    BY <1>1 DEF Struck, Sound, Counted
  <2> DEFINE out == Out(m)
  <2> HIDE DEF out
  <2>3. Sound(m, out) => Sound(n, out)
    <3> SUFFICES ASSUME Sound(m, out) PROVE Sound(n, out)
      OBVIOUS
    <3> QED
      BY <2>2, SoundSame DEF Struck
  <2> QED
    BY <2>1, <2>3 DEF out
<1>4. ASSUME NEW p, Follows(m, p) PROVE Follows(n, p)
  <2>1. Firsts(m, n)
    BY DEF Struck, Firsts, Stands, PlaysAs
  <2> QED
    BY <1>1, <1>4, <2>1, FollowsOn DEF Struck
<1> QED
  BY <1>2, <1>3, <1>4 DEF Struck, Level, Pend

LEMMA FollowPageIs ==
  ASSUME NEW m \in MediaType, NEW p, NEW g, Sound(m, Out(m)), Kept(m, g), Distinct(m.parked), Pend(m)
  PROVE  LET n == FollowPage(m, p) IN
         /\ n \in MediaType /\ Sound(n, Out(n)) /\ Kept(n, g) /\ Pend(n)
         /\ Follows(n, p) /\ Parks(n, p, FALSE) /\ n.indexed = m.indexed
<1> DEFINE t == Told(m, p)
           all == ParkedOn(t, p)
           excess == IF Len(all) > MaxParked THEN Len(all) - MaxParked ELSE 0
           evicted == SubSeq(all, 1, excess)
           rest == SubSeq(all, excess + 1, Len(all))
           c == Ended(t, evicted)
           S == [o \in Overlays |-> IF o \in Range(evicted) THEN 0 ELSE c.sessions[o]]
           n == Settled(c, rest, S)
<1>1. t \in MediaType /\ Alike(m, t) /\ t.live = m.live /\ Sound(t, Out(t)) /\ Follows(t, p)
  BY AllToldIs
<1>2. Kept(t, g)
  <2>1. LiveLike(m, t)
    BY <1>1 DEF LiveLike
  <2> HIDE DEF t
  <2> QED
    BY <1>1, <2>1, KeptLike DEF Alike
<1>3. n = FollowPage(m, p)
  BY DEF FollowPage, Settled
<1> HIDE DEF t
<1>4. /\ all \in Seq(Overlays) /\ Distinct(all) /\ Len(all) \in Nat
      /\ \A i \in 1..Len(all) : t.sessions[all[i]] # 0 /\ PageOf[all[i]] # p
  <2>1. Counted(t) /\ Distinct(t.parked)
    BY <1>1 DEF Sound, Alike
  <2>2. all \in Seq(Overlays) /\ Distinct(all)
        /\ \A i \in 1..Len(all) : t.sessions[all[i]] # 0 /\ PageOf[all[i]] # p
    BY <1>1, <2>1, ParkedOnIs
  <2> HIDE DEF all
  <2> QED
    BY <2>2
<1> HIDE DEF all
<1>5. excess \in 0..Len(all) /\ Len(all) - excess <= MaxParked
  BY <1>4, MediaAssumption
<1> HIDE DEF excess
<1>6. /\ evicted \in Seq(Overlays) /\ Len(evicted) = excess /\ excess \in Nat
      /\ \A i \in 1..excess : evicted[i] = all[i]
      /\ rest \in Seq(Overlays) /\ Len(rest) = Len(all) - excess
      /\ \A i \in 1..(Len(all) - excess) : rest[i] = all[i + excess] /\ i + excess \in 1..Len(all)
  BY <1>4, <1>5, CutIs
<1> HIDE DEF evicted, rest
<1>7. Shut(t, c) /\ \A i \in 1..Len(evicted) : t.sessions[evicted[i]] \notin DOMAIN c.live
  BY <1>1, <1>6, EndedIs
<1> HIDE DEF c
<1>8. c \in MediaType /\ Sound(c, Out(c)) /\ c.sessions = t.sessions /\ c.indexed = m.indexed /\ c.frames = t.frames
      /\ c.pending = m.pending /\ c.astray = m.astray /\ c.opened = t.opened
  BY <1>1, <1>7 DEF Shut, Alike
<1>9. Kept(c, g)
  <2>1. LiveLike(t, c)
    BY <1>7 DEF Shut, LiveLike, Mild
  <2> QED
    BY <1>1, <1>2, <1>7, <2>1, KeptLike DEF Shut, Alike
<1>10. 0 \notin DOMAIN c.live
  BY <1>8 DEF Sound, Counted
<1>11. Follows(c, p)
  BY <1>1, <1>7, <1>8, <1>10, FollowsOn DEF Shut
<1>12. S \in [Overlays -> Nat]
  BY <1>8, MediaIs
<1>13. \A o \in Overlays : S[o] = c.sessions[o] \/ (S[o] = 0 /\ o \in Range(evicted))
  OBVIOUS
<1>14. \A o \in Overlays : S[o] = 0 => c.sessions[o] = 0 \/ o \in Range(evicted)
  OBVIOUS
<1> HIDE DEF S
<1>15. /\ n \in MediaType /\ n.live = c.live /\ n.workers = c.workers /\ n.parked = rest /\ n.sessions = S
       /\ n.indexed = c.indexed /\ n.frames = c.frames /\ n.pending = c.pending /\ n.opened = c.opened
       /\ n.astray = c.astray
  <2>1. c \in MediaType /\ rest \in Seq(Overlays) /\ S \in [Overlays -> Nat]
    BY <1>6, <1>8, <1>12
  <2> QED
    BY <2>1, SettledIs
<1> HIDE DEF n
<1>16. \A o \in Range(evicted) : \E i \in 1..excess : o = all[i]
  BY <1>6 DEF Range
<1>17. Struck(c, n)
  <2>1. \A o \in Range(evicted) : c.sessions[o] \notin DOMAIN c.live
    <3> SUFFICES ASSUME NEW o \in Range(evicted) PROVE c.sessions[o] \notin DOMAIN c.live
      OBVIOUS
    <3>1. PICK i \in 1..excess : o = all[i]
      BY <1>16
    <3> QED
      BY <1>6, <1>7, <1>8, <3>1
  <2> QED
    BY <1>13, <1>15, <2>1 DEF Struck
<1>18. Whole(n)
  BY <1>8, <1>15 DEF Sound, Whole
<1>19. Pend(c)
  BY <1>8 DEF Pend
<1>20. Sound(n, Out(n)) /\ Kept(n, g) /\ Pend(n) /\ Follows(n, p)
  BY <1>8, <1>9, <1>11, <1>17, <1>18, <1>19, StruckKeeps
<1>21. Parks(n, p, FALSE)
  <2>1. ASSUME NEW i \in 1..Len(rest), NEW j \in 1..Len(rest), rest[i] = rest[j] PROVE i = j
    <3>1. i \in Nat /\ j \in Nat /\ i + excess \in 1..Len(all) /\ j + excess \in 1..Len(all)
          /\ all[i + excess] = all[j + excess]
      BY <1>4, <1>5, <1>6, <2>1
    <3>2. i + excess = j + excess
      BY <1>4, <3>1 DEF Distinct
    <3> QED
      BY <1>6, <3>1, <3>2
  <2>2. ASSUME NEW i \in 1..Len(rest) PROVE n.sessions[rest[i]] # 0 /\ PageOf[rest[i]] # p
    <3>1. i \in Nat /\ i + excess \in 1..Len(all) /\ rest[i] = all[i + excess]
      BY <1>4, <1>5, <1>6
    <3>2. rest[i] \notin Range(evicted)
      <4> SUFFICES ASSUME NEW j \in 1..excess, rest[i] = all[j] PROVE FALSE
        BY <1>16
      <4>1. j \in 1..Len(all) /\ j # i + excess
        BY <1>4, <1>5, <1>6, <3>1
      <4> QED
        BY <1>4, <3>1, <4>1 DEF Distinct
    <3>3. rest[i] \in Overlays
      BY <1>6, ElementOfSeq
    <3> QED
      BY <1>4, <1>8, <1>14, <1>15, <3>1, <3>2, <3>3
  <2>3. Len(rest) <= MaxParked
    BY <1>5, <1>6
  <2> QED
    BY <1>15, <2>1, <2>2, <2>3 DEF Parks, Distinct
<1> QED
  BY <1>3, <1>8, <1>15, <1>20, <1>21

(* service_media *)
LEMMA ServicedIs ==
  ASSUME NEW m \in MediaType, NEW p, NEW broken, generation \in Nat, ~blank,
         Sound(m, Out(m)), Kept(m, generation), Distinct(m.parked), Pend(m)
  PROVE  LET n == Serviced(m, p, broken) IN
         /\ n \in MediaType /\ Sound(n, Out(n)) /\ Kept(n, generation) /\ Pend(n)
         /\ Follows(n, p) /\ Parks(n, p, FALSE) /\ n.indexed = m.indexed
<1> DEFINE g == generation
           a == RetireGeneration(m, g)
           b == OpenReady(a, p, broken)
           n == FollowPage(b, p)
<1>1. n = Serviced(m, p, broken)
  BY DEF Serviced
<1> HIDE DEF n
<1>2. Shut(m, a) /\ \A s \in DOMAIN a.live : a.live[s].generation = g
  BY RetireIs DEF Sound
<1> HIDE DEF a
<1>3. a \in MediaType /\ Sound(a, Out(a)) /\ Pend(a) /\ Distinct(a.parked) /\ a.indexed = m.indexed
  BY <1>2 DEF Shut, Alike, Pend
<1>4. Kept(a, g)
  <2>1. LiveLike(m, a)
    BY <1>2 DEF Shut, LiveLike, Mild
  <2> QED
    BY <1>2, <2>1, KeptLike DEF Shut, Alike
<1>5. Level(a)
  <2> SUFFICES ASSUME NEW s \in DOMAIN a.live PROVE a.live[s].generation = a.indexed
    BY DEF Level
  <2>1. a.live[s].generation = g /\ g <= a.indexed /\ a.indexed <= g
    BY <1>2, <1>4 DEF Kept, OneAge
  <2> QED
    BY <1>3, <2>1, MediaIs
<1> HIDE DEF b
<1>6. /\ b \in MediaType /\ Sound(b, Out(b)) /\ Kept(b, g) /\ Pend(b)
      /\ b.indexed = a.indexed /\ b.parked = a.parked
  BY <1>3, <1>4, <1>5, OpenReadyIs DEF b
<1>7. /\ n \in MediaType /\ Sound(n, Out(n)) /\ Kept(n, g) /\ Pend(n)
      /\ Follows(n, p) /\ Parks(n, p, FALSE) /\ n.indexed = b.indexed
  BY <1>3, <1>6, FollowPageIs DEF n
<1> QED
  BY <1>1, <1>3, <1>6, <1>7

-----------------------------------------------------------------------------
(* The coordinator's bookkeeping. *)
LEMMA ShutKeeps ==
  ASSUME NEW m \in MediaType, NEW n, NEW g, NEW p, Shut(m, n), Sound(m, Out(m)), Kept(m, g), Pend(m)
  PROVE  /\ n \in MediaType /\ Sound(n, Out(n)) /\ Kept(n, g) /\ Pend(n) /\ Alike(m, n)
         /\ (Follows(m, p) => Follows(n, p))
<1>1. n \in MediaType /\ Sound(n, Out(n)) /\ Pend(n) /\ Alike(m, n)
  BY DEF Shut, Alike, Pend
<1>2. Kept(n, g)
  <2>1. LiveLike(m, n)
    BY DEF Shut, LiveLike, Mild
  <2> QED
    BY <1>1, <2>1, KeptLike DEF Alike
<1>3. ASSUME Follows(m, p) PROVE Follows(n, p)
  <2>1. 0 \notin DOMAIN n.live
    BY <1>1 DEF Sound, Counted
  <2> QED
    BY <1>1, <1>3, <2>1, FollowsOn DEF Shut, Alike
<1> QED
  BY <1>1, <1>2, <1>3

(* The first declarations of a rebuilt document, and later ones when there *)
(* is no staging directory: what plays of this document is put down.        *)
Strays(m, g) == {o \in Overlays : \E s \in DOMAIN m.live : m.live[s].overlay = o /\ m.live[s].generation = g}
Rebuilt(m, g, staged) ==
  [m EXCEPT !.sessions = [o \in Overlays |-> 0], !.parked = <<>>, !.indexed = g, !.staging = staged,
            !.astray = m.astray \cup Strays(m, g)]

LEMMA RebuiltIs ==
  ASSUME NEW m \in MediaType, NEW g \in Nat \ {0}, NEW staged \in BOOLEAN, NEW p, NEW late,
         Sound(m, Out(m)), Kept(m, g), Pend(m)
  PROVE  LET n == Rebuilt(m, g, staged) IN
         /\ n \in MediaType /\ Sound(n, Out(n)) /\ Kept(n, g) /\ Pend(n)
         /\ Follows(n, p) /\ Parks(n, p, late)
<1> DEFINE n == Rebuilt(m, g, staged)
           S == [o \in Overlays |-> 0]
           A == m.astray \cup Strays(m, g)
<1>0. A \in SUBSET Overlays /\ m.astray \subseteq A /\ Strays(m, g) \subseteq A
  BY MediaIs DEF Strays
<1>1. /\ n \in MediaType /\ n.live = m.live /\ n.workers = m.workers /\ n.parked = <<>> /\ n.sessions = S
      /\ n.indexed = g /\ n.frames = m.frames /\ n.pending = m.pending /\ n.opened = m.opened
      /\ n.astray = A
  <2>1. S \in [Overlays -> Nat]
    OBVIOUS
  <2> DEFINE e == <<>>
  <2>2. n = [m EXCEPT !.sessions = S, !.parked = e, !.indexed = g, !.staging = staged, !.astray = A]
    BY DEF Rebuilt
  <2>3. e \in Seq(Overlays) /\ g \in Nat
    OBVIOUS
  <2> HIDE DEF S, A, e, n
  <2>4. /\ n \in MediaType /\ n.live = m.live /\ n.workers = m.workers /\ n.parked = e /\ n.sessions = S
        /\ n.indexed = g /\ n.frames = m.frames /\ n.pending = m.pending /\ n.opened = m.opened
        /\ n.astray = A
    BY <1>0, <2>1, <2>2, <2>3 DEF MediaType
  <2> QED
    BY <2>4 DEF e
<1> HIDE DEF A
<1> HIDE DEF n
<1>2. m.opened \in Nat /\ m.indexed \in Nat /\ 0 \notin DOMAIN m.live
  BY MediaIs DEF Sound, Counted
<1>3. Out(n) = Out(m)
  BY <1>1 DEF Out
<1> DEFINE out == Out(m)
<1> HIDE DEF out
<1>4. Sound(n, out)
  <2>1. Sound(m, out)
    BY DEF out
  <2>2. Counted(n)
    BY <1>1, <1>2, <2>1 DEF Sound, Counted
  <2>3. Sanes(n, out) /\ Tracks(n, out) /\ Whole(n)
    BY <1>1, <2>1 DEF Sound, Sanes, Tracks, Whole
  <2> QED
    BY <2>2, <2>3 DEF Sound
<1>5. OneAge(n, g)
  <2> SUFFICES ASSUME NEW s \in DOMAIN m.live PROVE m.live[s].generation <= g
    BY <1>1, <1>2 DEF Kept, OneAge
  <2>1. m.live[s].generation <= m.indexed /\ m.indexed <= g /\ m.live[s].generation \in Nat
    BY MediaIs, PartialIs, PlayingIs DEF Kept, OneAge
  <2> QED
    BY <1>2, <2>1
<1>6. Kept(n, g)
  <2>1. Owned(n)
    BY <1>1, <1>2 DEF Owned
  <2>2. ASSUME NEW s \in DOMAIN m.live, m.live[s].generation = g PROVE m.live[s].overlay \in A
    <3>1. m.live[s].overlay \in Overlays
      BY MediaIs, PartialIs, PlayingIs
    <3> QED
      BY <1>0, <2>2, <3>1 DEF Strays
  <2>3. Adopted(n, g)
    BY <1>1, <2>2 DEF Adopted
  <2> QED
    BY <1>5, <2>1, <2>3 DEF Kept
<1>7. Follows(n, p)
  <2>1. \A s \in DOMAIN n.live : n.sessions[n.live[s].overlay] # s
    BY <1>1, <1>2, MediaIs, PartialIs, PlayingIs
  <2> QED
    BY <2>1 DEF Follows
<1>8. Parks(n, p, late)
  BY <1>1, MediaAssumption DEF Parks, Distinct
<1> QED
  <2>1. Sound(n, Out(n))
    BY <1>3, <1>4 DEF out
  <2>2. Pend(n)
    BY <1>0, <1>1 DEF Pend
  <2> QED
    BY <1>1, <1>6, <1>7, <1>8, <2>1, <2>2 DEF n

Culled(m, S, F, q) == [m EXCEPT !.sessions = S, !.frames = F, !.parked = q]

LEMMA CulledIs ==
  ASSUME NEW m \in MediaType, NEW q \in Seq(Overlays), NEW S \in [Overlays -> Nat], NEW F \in [Overlays -> Frame]
  PROVE  LET n == Culled(m, S, F, q) IN
         /\ n \in MediaType /\ n.live = m.live /\ n.workers = m.workers /\ n.parked = q /\ n.sessions = S
         /\ n.indexed = m.indexed /\ n.frames = F /\ n.pending = m.pending /\ n.opened = m.opened
         /\ n.astray = m.astray
BY DEF MediaType, Culled

(* What stays parked when the overlays outside S lose their sessions. *)
LEMMA SiftedParks ==
  ASSUME NEW m \in MediaType, NEW n, NEW p, NEW late, NEW S, Distinct(m.parked), n.parked = Only(m.parked, S),
         \A o \in Overlays : o \in S => n.sessions[o] = m.sessions[o]
  PROVE  n.parked \in Seq(Overlays) /\ Distinct(n.parked) /\ (Parks(m, p, late) => Parks(n, p, late))
<1> DEFINE T == Overlays \cap S
<1>1. Sifted(n.parked, m.parked, T)
  BY MediaIs, OnlySifts
<1>2. T \in SUBSET Overlays /\ \A o \in T : n.sessions[o] = m.sessions[o]
  OBVIOUS
<1> HIDE DEF T
<1>3. /\ n.parked \in Seq(T) /\ Distinct(n.parked) /\ Len(n.parked) <= Len(m.parked)
      /\ \A j \in 1..Len(n.parked) : \E i \in 1..Len(m.parked) : n.parked[j] = m.parked[i]
  BY <1>1 DEF Sifted, Distinct
<1>4. n.parked \in Seq(Overlays) /\ Len(n.parked) \in Nat /\ \A i \in 1..Len(n.parked) : n.parked[i] \in T
  BY <1>2, <1>3, SeqInto
<1>5. ASSUME Parks(m, p, late) PROVE Parks(n, p, late)
  <2>1. \A i \in 1..Len(n.parked) : n.sessions[n.parked[i]] # 0 /\ (PageOf[n.parked[i]] = p => late)
    BY <1>2, <1>3, <1>4, <1>5 DEF Parks
  <2>2. Len(m.parked) \in Nat
    BY MediaIs
  <2>3. Len(n.parked) <= MaxParked
    BY <1>3, <1>4, <1>5, <2>2, MediaAssumption DEF Parks
  <2> QED
    BY <1>3, <2>1, <2>3 DEF Parks
<1> QED
  BY <1>3, <1>4, <1>5

(* Declarations that changed. *)
LEMMA OrphanedIs ==
  ASSUME NEW m \in MediaType, NEW changed \in SUBSET Overlays, NEW g, NEW p, NEW late,
         Sound(m, Out(m)), Kept(m, g), Pend(m), Distinct(m.parked)
  PROVE  LET n == Orphaned(m, changed) IN
         /\ n \in MediaType /\ Sound(n, Out(n)) /\ Kept(n, g) /\ Pend(n) /\ Distinct(n.parked)
         /\ n.indexed = m.indexed
         /\ (Follows(m, p) => Follows(n, p)) /\ (Parks(m, p, late) => Parks(n, p, late))
<1> DEFINE q == SetToSeq(changed)
           c == Ended(m, q)
           S == [o \in Overlays |-> IF o \in changed THEN 0 ELSE c.sessions[o]]
           F == [o \in Overlays |-> IF o \in changed THEN NoFrame ELSE c.frames[o]]
           k == Only(c.parked, Overlays \ changed)
           n == Culled(c, S, F, k)
<1>1. n = Orphaned(m, changed)
  BY DEF Orphaned, Culled
<1>2. IsFiniteSet(changed)
  BY MediaAssumption, FS_Subset
<1>3. Lists(q, changed)
  BY <1>2, SetToSeqLists
<1> HIDE DEF q
<1>4. q \in Seq(Overlays) /\ \A o \in changed : \E i \in 1..Len(q) : q[i] = o
  BY <1>3, SeqInto DEF Lists
<1>5. Shut(m, c) /\ \A i \in 1..Len(q) : m.sessions[q[i]] \notin DOMAIN c.live
  BY <1>4, EndedIs
<1> HIDE DEF c
<1>6. /\ c \in MediaType /\ Sound(c, Out(c)) /\ Kept(c, g) /\ Pend(c) /\ Alike(m, c)
      /\ (Follows(m, p) => Follows(c, p))
  BY <1>5, ShutKeeps
<1>7. S \in [Overlays -> Nat] /\ F \in [Overlays -> Frame]
  <2>1. NoFrame \in Frame
    BY DEF NoFrame, Frame, Zeroes
  <2> QED
    BY <1>6, <2>1, MediaIs
<1>8. /\ \A o \in Overlays : o \in Overlays \ changed => S[o] = c.sessions[o]
      /\ \A o \in Overlays : S[o] = c.sessions[o] \/ (S[o] = 0 /\ o \in changed)
      /\ \A o \in Overlays : F[o] = c.frames[o] \/ F[o].of = 0
  BY DEF NoFrame
<1>9. Distinct(c.parked) /\ k \in Seq(Overlays)
  <2>1. Distinct(c.parked)
    BY <1>6 DEF Alike
  <2> DEFINE j == [parked |-> k, sessions |-> S]
  <2>2. j.parked = k /\ j.sessions = S
    OBVIOUS
  <2> HIDE DEF j, S, F
  <2>3. j.parked \in Seq(Overlays)
    BY <1>6, <1>8, <2>1, <2>2, SiftedParks
  <2> QED
    BY <2>1, <2>2, <2>3
<1> HIDE DEF S, F, k
<1>10. /\ n \in MediaType /\ n.live = c.live /\ n.workers = c.workers /\ n.parked = k /\ n.sessions = S
       /\ n.indexed = c.indexed /\ n.frames = F /\ n.pending = c.pending /\ n.opened = c.opened
       /\ n.astray = c.astray
  BY <1>6, <1>7, <1>9, CulledIs
<1> HIDE DEF n
<1>11. Struck(c, n)
  <2>1. \A o \in changed : c.sessions[o] \notin DOMAIN c.live
    BY <1>4, <1>5, <1>6 DEF Alike
  <2> QED
    BY <1>8, <1>10, <2>1 DEF Struck
<1>12. Whole(n)
  BY <1>6, <1>8, <1>10 DEF Sound, Whole
<1>13. Sound(n, Out(n)) /\ Kept(n, g) /\ Pend(n) /\ (Follows(c, p) => Follows(n, p))
  BY <1>6, <1>11, <1>12, StruckKeeps
<1>14. Distinct(n.parked) /\ (Parks(c, p, late) => Parks(n, p, late))
  <2> DEFINE T == Overlays \ changed
  <2>1. n.parked = Only(c.parked, T) /\ \A o \in Overlays : o \in T => n.sessions[o] = c.sessions[o]
    BY <1>8, <1>10 DEF k
  <2> HIDE DEF T
  <2> QED
    BY <1>6, <1>9, <2>1, SiftedParks
<1>15. Parks(m, p, late) => Parks(c, p, late)
  BY <1>6 DEF Parks, Alike
<1> QED
  BY <1>1, <1>6, <1>10, <1>13, <1>14, <1>15 DEF Alike

(* session_failed, for what is pending. *)
LEMMA FailedIs ==
  ASSUME NEW m \in MediaType, NEW g, NEW p, NEW late,
         Sound(m, Out(m)), Kept(m, g), Reported(m, g), Distinct(m.parked)
  PROVE  LET n == SessionsFailed(m) IN
         /\ n \in MediaType /\ Sound(n, Out(n)) /\ Kept(n, g) /\ Pend(n) /\ Distinct(n.parked)
         /\ n.indexed = m.indexed
         /\ (Follows(m, p) => Follows(n, p)) /\ (Parks(m, p, late) => Parks(n, p, late))
<1> DEFINE T == Overlays \ m.pending
           S == [o \in Overlays |-> IF o \in m.pending THEN 0 ELSE m.sessions[o]]
           k == Only(m.parked, T)
           c == [m EXCEPT !.pending = {}]
           n == Settled(c, k, S)
<1>1. n = SessionsFailed(m)
  <2>1. n = [m EXCEPT !.pending = {}, !.parked = k, !.sessions = S]
    BY DEF Settled
  <2> HIDE DEF k, S
  <2>2. [m EXCEPT !.pending = {}, !.parked = k, !.sessions = S] =
        [m EXCEPT !.sessions = S, !.parked = k, !.pending = {}]
    BY DEF MediaType
  <2> QED
    BY <2>1, <2>2 DEF SessionsFailed, k, S, T
<1>2. S \in [Overlays -> Nat]
  BY MediaIs
<1>3. /\ \A o \in Overlays : o \in T => S[o] = m.sessions[o]
      /\ \A o \in Overlays : S[o] = m.sessions[o] \/ (S[o] = 0 /\ o \in m.pending)
  OBVIOUS
<1>4. /\ c \in MediaType /\ c.live = m.live /\ c.workers = m.workers /\ c.pending = {}
      /\ c.indexed = m.indexed /\ c.sessions = m.sessions /\ c.parked = m.parked /\ c.frames = m.frames
      /\ c.opened = m.opened /\ c.astray = m.astray
  <2> DEFINE P == {}
  <2>1. P \in SUBSET Overlays
    OBVIOUS
  <2> HIDE DEF P
  <2>2. LET j == [m EXCEPT !.pending = P] IN
        /\ j \in MediaType /\ j.live = m.live /\ j.workers = m.workers /\ j.pending = P
        /\ j.indexed = m.indexed /\ j.sessions = m.sessions /\ j.parked = m.parked /\ j.frames = m.frames
        /\ j.opened = m.opened /\ j.astray = m.astray
    BY <2>1, PendingIs
  <2> QED
    BY <2>2 DEF P
<1>5. k \in Seq(Overlays)
  <2> DEFINE j == [parked |-> k, sessions |-> S]
  <2>1. j.parked = k /\ j.sessions = S
    OBVIOUS
  <2> HIDE DEF j, S, T
  <2>2. j.parked \in Seq(Overlays)
    BY <1>3, <2>1, SiftedParks
  <2> QED
    BY <2>1, <2>2
<1> HIDE DEF S, k, c, T
<1>6. /\ n \in MediaType /\ n.live = c.live /\ n.workers = c.workers /\ n.parked = k /\ n.sessions = S
      /\ n.indexed = c.indexed /\ n.frames = c.frames /\ n.pending = c.pending /\ n.opened = c.opened
      /\ n.astray = c.astray
  BY <1>2, <1>4, <1>5, SettledIs
<1> HIDE DEF n
<1>7. 0 \notin DOMAIN m.live /\ m.opened \in Nat
  BY MediaIs DEF Sound, Counted
<1>8. Kept(n, g)
  <2>1. \A o \in Overlays : \/ n.sessions[o] = m.sessions[o]
                            \/ n.sessions[o] = 0 /\ (m.sessions[o] \notin DOMAIN m.live \/ Gone1(m, g, o))
    BY <1>3, <1>6 DEF Reported
  <2> QED
    BY <1>4, <1>6, <1>7, <2>1, KeptZero
<1>9. Sound(n, Out(n))
  <2>1. Out(n) = Out(m)
    BY <1>4, <1>6 DEF Out
  <2>2. \A o \in Overlays : n.sessions[o] <= n.opened
    BY <1>3, <1>4, <1>6, <1>7 DEF Sound, Counted
  <2>3. Whole(n)
    BY <1>4, <1>6 DEF Sound, Whole
  <2> DEFINE out == Out(m)
  <2> HIDE DEF out
  <2>4. ASSUME Sound(m, out) PROVE Sound(n, out)
    BY <1>4, <1>6, <2>2, <2>3, <2>4, SoundSame
  <2> QED
    BY <2>1, <2>4 DEF out
<1>10. ASSUME Follows(m, p) PROVE Follows(n, p)
  <2>1. Firsts(m, n)
    BY <1>4, <1>6 DEF Firsts, Stands, PlaysAs
  <2>2. \A o \in Overlays : n.sessions[o] = m.sessions[o] \/ n.sessions[o] = 0
    BY <1>3, <1>6
  <2> QED
    BY <1>4, <1>6, <1>7, <1>10, <2>1, <2>2, FollowsOn
<1>11. Distinct(n.parked) /\ (Parks(m, p, late) => Parks(n, p, late))
  <2>1. n.parked = Only(m.parked, T) /\ \A o \in Overlays : o \in T => n.sessions[o] = m.sessions[o]
    BY <1>3, <1>6 DEF k
  <2> QED
    BY <2>1, SiftedParks
<1>12. Pend(n)
  BY <1>4, <1>6 DEF Pend
<1> QED
  BY <1>1, <1>4, <1>6, <1>8, <1>9, <1>10, <1>11, <1>12

-----------------------------------------------------------------------------
(* What poll_media hears. *)
AsWas(w, v) == v.inbox = w.inbox /\ v.hosted = w.hosted /\ v.alive = w.alive /\ v.known = w.known

LEMMA AsWasKeeps ==
  ASSUME NEW w, NEW v, NEW q, NEW s, AsWas(w, v)
  PROVE  /\ \A k : Sane(w, q, k) => Sane(v, q, k)
         /\ \A x, r : Track(x, s, r, w, q) => Track(x, s, r, v, q)
         /\ PlaysAs(s, w, v)
<1>1. \A k : Sane(w, q, k) => Sane(v, q, k)
  BY DEF AsWas, Sane
<1>2. ASSUME NEW x, NEW r, Track(x, s, r, w, q) PROVE Track(x, s, r, v, q)
  <2>1. Within(x, s, v, q)
    BY <1>2 DEF AsWas, Track, Within
  <2>2. FirstRun(x, s, r, v, q)
    BY <1>2 DEF AsWas, Track, FirstRun, Awaited, Ringed, Unknown
  <2> QED
    BY <2>1, <2>2 DEF Track
<1>3. PlaysAs(s, w, v)
  BY DEF AsWas, PlaysAs, PlaysSo
<1> QED
  BY <1>1, <1>2, <1>3

Cut(m, r, k) ==
  LET w == m.workers[r] IN
  [m EXCEPT !.workers = [m.workers EXCEPT ![r] = [w EXCEPT !.outbox = SubSeq(w.outbox, k + 1, Len(w.outbox))]]]

LEMMA CutWorkers ==
  ASSUME NEW m \in MediaType, NEW r \in Kinds, NEW k \in 0..Len(m.workers[r].outbox)
  PROVE  LET n == Cut(m, r, k)
             q == m.workers[r].outbox IN
         /\ n \in MediaType /\ n.live = m.live /\ Alike(m, n)
         /\ n.workers[r].outbox = SubSeq(q, k + 1, Len(q)) /\ AsWas(m.workers[r], n.workers[r])
         /\ \A z \in Kinds : z # r => n.workers[z] = m.workers[z]
<1> DEFINE w == m.workers[r]
           e == SubSeq(w.outbox, k + 1, Len(w.outbox))
           v == [w EXCEPT !.outbox = e]
           W == [m.workers EXCEPT ![r] = v]
           n == [m EXCEPT !.workers = W]
<1>1. w \in Worker /\ m.workers \in [Kinds -> Worker] /\ w.outbox \in Seq(Events)
  BY MediaIs, WorkerIs
<1>2. e \in Seq(Events)
  <2> HIDE DEF w
  <2> QED
    BY <1>1, CutIs DEF w
<1> HIDE DEF w, e
<1>3. v \in Worker /\ v.outbox = e /\ AsWas(w, v)
  BY <1>1, <1>2, OutboxIs DEF AsWas
<1> HIDE DEF v
<1>4. W \in [Kinds -> Worker] /\ W[r] = v /\ \A z \in Kinds : z # r => W[z] = m.workers[z]
  BY <1>1, <1>3
<1> HIDE DEF W
<1>5. n \in MediaType /\ n.live = m.live /\ n.workers = W /\ Alike(m, n)
  BY <1>4, WorkersAre
<1>6. n = Cut(m, r, k)
  BY DEF Cut, W, v, e, w
<1> HIDE DEF n
<1> QED
  BY <1>3, <1>4, <1>5, <1>6 DEF w, e

LEMMA DrainedIs ==
  ASSUME NEW m \in MediaType, NEW r \in Kinds, NEW k \in 0..Len(m.workers[r].outbox), Sound(m, Out(m))
  PROVE  LET n == AllHeard(Cut(m, r, k), r, SubSeq(m.workers[r].outbox, 1, k)) IN
         /\ n \in MediaType /\ Sound(n, Out(n)) /\ Books(m, n) /\ Mild(m, n) /\ Firsts(m, n)
         /\ \A z \in Kinds : n.workers[z].alive = m.workers[z].alive
<1> DEFINE c == Cut(m, r, k)
           q == m.workers[r].outbox
           out == Out(m)
           n == AllHeard(c, r, SubSeq(q, 1, k))
<1>1. /\ c \in MediaType /\ c.live = m.live /\ Alike(m, c)
      /\ c.workers[r].outbox = SubSeq(q, k + 1, Len(q)) /\ AsWas(m.workers[r], c.workers[r])
      /\ \A z \in Kinds : z # r => c.workers[z] = m.workers[z]
  BY CutWorkers
<1>2. q \in Seq(Events) /\ out[r] = q /\ \A z \in Kinds : out[z] = m.workers[z].outbox
  BY MediaIs, WorkerIs DEF Out
<1>3. k \in 0..Len(q) /\ Sound(m, out)
  OBVIOUS
<1>4. \A z \in Kinds : AsWas(m.workers[z], c.workers[z])
  BY <1>1 DEF AsWas
<1> HIDE DEF c, q, out
<1>5. Sound(c, out)
  <2>1. Counted(c) /\ Whole(c)
    BY <1>1, <1>3 DEF Sound, Counted, Whole, Alike
  <2>2. ASSUME NEW z \in Kinds PROVE Sane(c.workers[z], out[z], c.opened)
    <3>1. Sane(m.workers[z], out[z], m.opened) /\ c.opened = m.opened
      BY <1>1, <1>3 DEF Sound, Sanes, Alike
    <3>2. \A j : Sane(m.workers[z], out[z], j) => Sane(c.workers[z], out[z], j)
      BY <1>4, AsWasKeeps
    <3> QED
      BY <3>1, <3>2
  <2>3. ASSUME NEW s \in DOMAIN c.live, NEW z \in Kinds PROVE Track(c.live[s], s, z, c.workers[z], out[z])
    <3> DEFINE x == m.live[s]
    <3>1. Track(x, s, z, m.workers[z], out[z]) /\ c.live[s] = x
      BY <1>1, <1>3, <2>3 DEF Sound, Tracks
    <3> HIDE DEF x
    <3>2. \A y, j : Track(y, s, j, m.workers[z], out[z]) => Track(y, s, j, c.workers[z], out[z])
      BY <1>4, AsWasKeeps
    <3> QED
      BY <3>1, <3>2
  <2> QED
    BY <2>1, <2>2, <2>3 DEF Sound, Sanes, Tracks
<1>6. Firsts(m, c) /\ Mild(m, c) /\ Books(m, c) /\ \A z \in Kinds : c.workers[z].alive = m.workers[z].alive
  <2>1. \A s : \A z \in Kinds : PlaysAs(s, m.workers[z], c.workers[z])
    BY <1>4, AsWasKeeps
  <2>2. \A s \in DOMAIN c.live : c.live[s].runtime \in Kinds
    BY <1>1, MediaIs, PartialIs, PlayingIs
  <2> QED
    BY <1>1, <1>4, <2>1, <2>2 DEF Firsts, Stands, Mild, Books, Alike, AsWas
<1>7. /\ n \in MediaType /\ Sound(n, Out(n)) /\ Books(c, n) /\ Mild(c, n) /\ Firsts(c, n)
      /\ DOMAIN n.live = DOMAIN c.live
      /\ \A z \in Kinds : n.workers[z].alive = c.workers[z].alive
  <2>1. \A z \in Kinds : z # r => c.workers[z].outbox = out[z]
    BY <1>1, <1>2
  <2> DEFINE w == c.workers[r].outbox
             b == SubSeq(q, 1, k)
             j == AllHeard(c, r, b)
  <2>2. /\ c \in MediaType /\ q \in Seq(Events) /\ k \in 0..Len(q) /\ out[r] = q /\ Sound(c, out)
        /\ w = SubSeq(q, k + 1, Len(q))
    BY <1>1, <1>2, <1>3, <1>5
  <2>3. /\ j \in MediaType /\ Sound(j, Out(j)) /\ Books(c, j) /\ Mild(c, j) /\ Firsts(c, j)
        /\ DOMAIN j.live = DOMAIN c.live
        /\ \A z \in Kinds : j.workers[z].alive = c.workers[z].alive
    <3> HIDE DEF j
    <3> QED
      BY <2>1, <2>2, AllHeardIs DEF j
  <2>4. n = j
    BY DEF n, q
  <2> HIDE DEF n, j
  <2> QED
    BY <2>3, <2>4
<1> HIDE DEF n
<1>8. Firsts(m, n)
  BY <1>6, <1>7, FirstsOn
<1>9. Books(m, n) /\ Mild(m, n)
  BY <1>6, <1>7 DEF Books, Mild
<1> QED
  BY <1>6, <1>7, <1>8, <1>9 DEF n, c, q

Reset(m, r) == [m EXCEPT !.workers = [m.workers EXCEPT ![r] = NoWorker]]

LEMMA ResetIs ==
  ASSUME NEW m \in MediaType, NEW r \in Kinds, ~m.workers[r].alive
  PROVE  Dropped(m, Reset(m, r))
<1> DEFINE v == NoWorker
           W == [m.workers EXCEPT ![r] = v]
           n == [m EXCEPT !.workers = W]
<1>1. v \in Worker /\ m.workers \in [Kinds -> Worker]
  BY MediaIs, NoWorkerIs
<1> HIDE DEF v
<1>2. W \in [Kinds -> Worker] /\ W[r] = v /\ \A z \in Kinds : z # r => W[z] = m.workers[z]
  BY <1>1
<1> HIDE DEF W
<1>3. n \in MediaType /\ n.live = m.live /\ n.workers = W /\ Alike(m, n)
  BY <1>2, WorkersAre
<1>4. n = Reset(m, r)
  BY DEF Reset, W, v
<1> HIDE DEF n
<1> QED
  BY <1>2, <1>3, <1>4 DEF Dropped, v

LEMMA CasualtiesAre ==
  ASSUME Media \in MediaType, Counted(Media), NEW r \in Kinds, NEW k \in 0..Len(workers[r].outbox)
  PROVE  Casualties(r, k) \in Seq(Events)
<1> DEFINE batch == SubSeq(workers[r].outbox, 1, k)
           F == {e \in Range(batch) : e.kind = "Failed" /\ e.session \in DOMAIN live}
           failed == Only(batch, F)
           lost == {s \in DOMAIN live : Gone(r, k) /\ live[s].runtime = r}
           n == Cardinality(lost)
           a == Ascending(lost)
           tail == [i \in 1..n |-> FailedEvent(a[i], "Crashed")]
<1>1. Media.live = live /\ Media.workers = workers
  BY DEF Media
<1>2. workers[r].outbox \in Seq(Events)
  BY <1>1, MediaIs, WorkerIs
<1>3. batch \in Seq(Events)
  BY <1>2, CutIs
<1> HIDE DEF batch, F
<1>4. failed \in Seq(Events)
  <2> DEFINE T == Events \cap F
  <2>1. Sifted(failed, batch, T)
    BY <1>3, OnlySifts
  <2>2. T \in SUBSET Events
    OBVIOUS
  <2> HIDE DEF T, failed
  <2> QED
    BY <2>1, <2>2, SeqInto DEF Sifted
<1> HIDE DEF failed
<1>5. lost \in SUBSET DOMAIN Media.live
  BY <1>1
<1>6. IsFiniteSet(lost) /\ lost \in SUBSET Nat
  <2> HIDE DEF lost
  <2> QED
    BY <1>5, LiveFinite
<1> HIDE DEF lost
<1>7. n \in Nat /\ a \in [1..n -> lost]
  BY <1>6, AscendingIs
<1> HIDE DEF n, a
<1>8. \A i \in 1..n : FailedEvent(a[i], "Crashed") \in Events
  <2>1. \A s \in Nat : FailedEvent(s, "Crashed") \in Events
    <3> SUFFICES ASSUME NEW s \in Nat PROVE FailedEvent(s, "Crashed") \in FailedKind
      BY DEF Events
    <3>1. FailedEvent(s, "Crashed") = [kind |-> "Failed", session |-> s, error |-> "Crashed"]
      BY DEF FailedEvent
    <3>2. "Crashed" \in {"Crashed"} \cup OpenErrors
      OBVIOUS
    <3> QED
      BY <3>1, <3>2 DEF FailedKind
  <2> QED
    BY <1>6, <1>7, <2>1
<1>9. tail \in Seq(Events)
  BY <1>7, <1>8
<1> HIDE DEF tail
<1>10. failed \o tail \in Seq(Events)
  BY <1>4, <1>9, ConcatProperties
<1>11. Casualties(r, k) = failed \o tail
  BY DEF Casualties, failed, tail, F, batch, lost, n, a
<1> QED
  BY <1>10, <1>11

(* What holds of the record between the application's handlers. *)
Good(m, g) == m \in MediaType /\ Sound(m, Out(m)) /\ Kept(m, g) /\ Pend(m) /\ Distinct(m.parked)
Onward(m, n, p, late) == (Follows(m, p) => Follows(n, p)) /\ (Parks(m, p, late) => Parks(n, p, late))

LEMMA PolledIs ==
  ASSUME NEW m, NEW d, NEW q \in Seq(Events), NEW broken, NEW g \in Nat, NEW p, NEW late, Good(m, g),
         d \in MediaType, Sound(d, Out(d)), Books(m, d), Mild(m, d), Firsts(m, d)
  PROVE  LET n == SessionsFailed(AllRecovered(d, q, broken)) IN
         Good(n, g) /\ Onward(m, n, p, late)
<1> DEFINE a == AllRecovered(d, q, broken)
           n == SessionsFailed(a)
<1>1. Kept(d, g) /\ Reported(d, g)
  <2>1. LiveLike(m, d)
    BY DEF LiveLike, Mild
  <2>2. Kept(d, g)
    BY <2>1, KeptLike DEF Good, Books
  <2>3. Reported(d, g)
    BY DEF Good, Books, Pend, Reported, Gone1
  <2> QED
    BY <2>2, <2>3
<1>2. \A e \in Events : e.session \in Nat
  BY DEF Events, FrameKind, FailedKind
<1>3. /\ a \in MediaType /\ Sound(a, Out(a)) /\ Kept(a, g) /\ Reported(a, g)
      /\ a.indexed = d.indexed /\ a.sessions = d.sessions /\ a.parked = d.parked
      /\ a.opened = d.opened /\ a.astray = d.astray /\ Firsts(d, a)
  <2> DEFINE E == Events
  <2>1. q \in Seq(E) /\ \A e \in E : e.session \in Nat
    BY <1>2
  <2> HIDE DEF E
  <2> QED
    BY <1>1, <2>1, AllRecoveredIs
<1> HIDE DEF a
<1>4. Firsts(m, a) /\ a.sessions = m.sessions /\ a.parked = m.parked
  BY <1>3, FirstsOn DEF Books
<1>5. Distinct(a.parked)
  BY <1>4 DEF Good
<1>6. /\ n \in MediaType /\ Sound(n, Out(n)) /\ Kept(n, g) /\ Pend(n) /\ Distinct(n.parked)
      /\ (Follows(a, p) => Follows(n, p)) /\ (Parks(a, p, late) => Parks(n, p, late))
  BY <1>3, <1>5, FailedIs
<1> HIDE DEF n
<1>7. Follows(m, p) => Follows(a, p)
  <2> SUFFICES ASSUME Follows(m, p) PROVE Follows(a, p)
    OBVIOUS
  <2>1. 0 \notin DOMAIN a.live
    BY <1>3 DEF Sound, Counted
  <2> QED
    BY <1>3, <1>4, <2>1, FollowsOn
<1>8. Parks(m, p, late) => Parks(a, p, late)
  BY <1>4 DEF Parks
<1> QED
  BY <1>6, <1>7, <1>8 DEF Good, Onward, n, a

LEMMA PollIs ==
  ASSUME NEW r \in Kinds, NEW k \in 0..Len(workers[r].outbox), NEW broken, NEW p, NEW late,
         generation \in Nat, Good(Media, generation),
         NEW d, d = IF Gone(r, k) THEN [Drained(r, k) EXCEPT !.workers[r] = NoWorker] ELSE Drained(r, k)
  PROVE  LET n == SessionsFailed(AllRecovered(d, Casualties(r, k), broken)) IN
         Good(n, generation) /\ Onward(Media, n, p, late)
<1> DEFINE m == Media
           b == AllHeard(Cut(m, r, k), r, SubSeq(m.workers[r].outbox, 1, k))
           q == Casualties(r, k)
<1>1. m.workers = workers /\ m \in MediaType /\ Sound(m, Out(m))
  BY DEF Media, Good
<1>2. q \in Seq(Events)
  BY <1>1, CasualtiesAre DEF Sound
<1>3. Drained(r, k) = b
  BY DEF Drained, Cut, Media
<1> HIDE DEF q
<1>4. /\ b \in MediaType /\ Sound(b, Out(b)) /\ Books(m, b) /\ Mild(m, b) /\ Firsts(m, b)
      /\ \A z \in Kinds : b.workers[z].alive = m.workers[z].alive
  <2>1. k \in 0..Len(m.workers[r].outbox)
    BY <1>1
  <2> HIDE DEF m, b
  <2> QED
    BY <1>1, <2>1, DrainedIs DEF b
<1> HIDE DEF b
<1>5. d \in MediaType /\ Sound(d, Out(d)) /\ Books(m, d) /\ Mild(m, d) /\ Firsts(m, d)
  <2>1. CASE Gone(r, k)
    <3>1. d = Reset(b, r)
      BY <1>3, <2>1 DEF Reset
    <3>2. ~b.workers[r].alive
      BY <1>1, <1>4, <2>1 DEF Gone
    <3> HIDE DEF m
    <3>3. Dropped(b, d)
      BY <1>4, <3>1, <3>2, ResetIs
    <3>4. d \in MediaType
      BY <3>3 DEF Dropped
    <3>5. Sound(d, Out(d)) /\ Firsts(b, d)
      BY <1>4, <3>3, <3>4, DroppedSound, DroppedFirsts
    <3>6. Firsts(m, d)
      BY <1>4, <3>5, FirstsOn
    <3>7. Books(m, d) /\ Mild(m, d)
      BY <1>4, <3>3 DEF Dropped, Alike, Books, Mild
    <3> QED
      BY <3>4, <3>5, <3>6, <3>7
  <2>2. CASE ~Gone(r, k)
    BY <1>3, <1>4, <2>2
  <2> QED
    BY <2>1, <2>2
<1>6. Good(m, generation)
  OBVIOUS
<1> DEFINE g == generation
<1> HIDE DEF m
<1>7. LET n == SessionsFailed(AllRecovered(d, q, broken)) IN Good(n, g) /\ Onward(m, n, p, late)
  <2>1. Good(m, g) /\ g \in Nat
    BY <1>6
  <2> HIDE DEF g
  <2> QED
    BY <1>2, <1>5, <2>1, PolledIs
<1> QED
  BY <1>7 DEF q, m

-----------------------------------------------------------------------------
(* A worker's steps. *)
SameRun(x, y) ==
  /\ y.overlay = x.overlay /\ y.generation = x.generation /\ y.runtime = x.runtime
  /\ y.relaunched = x.relaunched /\ y.restarts = x.restarts /\ y.last = x.last

(* Only worker r moves, and what its sessions drew. *)
Moves(m, n, r) ==
  /\ n \in MediaType /\ Alike(m, n) /\ DOMAIN n.live = DOMAIN m.live
  /\ \A s \in DOMAIN m.live : n.live[s] = m.live[s] \/ (m.live[s].runtime = r /\ SameRun(m.live[s], n.live[s]))
  /\ \A z \in Kinds : z # r => n.workers[z] = m.workers[z]

MovesWell(m, n, r) ==
  \A s \in DOMAIN m.live :
    /\ Track(n.live[s], s, r, n.workers[r], n.workers[r].outbox)
    /\ ~m.live[s].relaunched /\ m.live[s].runtime = r => PlaysAs(s, m.workers[r], n.workers[r])

LEMMA ElsewhereRun ==
  ASSUME NEW x, NEW y, NEW s, NEW z, NEW w, NEW q, Track(x, s, z, w, q), SameRun(x, y), x.runtime # z
  PROVE  Track(y, s, z, w, q)
BY DEF Track, Within, FirstRun, SameRun

LEMMA MovesIs ==
  ASSUME NEW m, NEW n, NEW r \in Kinds, NEW g, NEW p, NEW late, Good(m, g), Moves(m, n, r), MovesWell(m, n, r),
         Sane(n.workers[r], n.workers[r].outbox, m.opened)
  PROVE  Good(n, g) /\ Onward(m, n, p, late)
<1>1. m \in MediaType /\ n \in MediaType /\ Alike(m, n) /\ Sound(m, Out(m))
  BY DEF Good, Moves
<1>2. \A z \in Kinds : Out(m)[z] = m.workers[z].outbox /\ Out(n)[z] = n.workers[z].outbox
  BY DEF Out
<1>3. Counted(n) /\ Whole(n)
  BY <1>1 DEF Moves, Sound, Counted, Whole, Alike
<1>4. Sanes(n, Out(n))
  <2>1. \A z \in Kinds : Sane(n.workers[z], n.workers[z].outbox, n.opened)
    BY <1>1, <1>2 DEF Moves, Sound, Sanes, Alike
  <2> QED
    BY <1>2, <2>1 DEF Sanes
<1>5. Tracks(n, Out(n))
  <2> SUFFICES ASSUME NEW s \in DOMAIN n.live, NEW z \in Kinds
               PROVE  Track(n.live[s], s, z, n.workers[z], n.workers[z].outbox)
    BY <1>2 DEF Tracks
  <2>1. s \in DOMAIN m.live
    BY DEF Moves
  <2>2. CASE z = r
    BY <2>1, <2>2 DEF MovesWell
  <2>3. CASE z # r
    <3> DEFINE x == m.live[s]
               y == n.live[s]
               w == m.workers[z]
               q == w.outbox
    <3>1. Track(x, s, z, w, q) /\ n.workers[z] = w
      BY <1>1, <1>2, <2>1, <2>3 DEF Sound, Tracks, Moves
    <3>2. y = x \/ (x.runtime = r /\ SameRun(x, y))
      BY <2>1 DEF Moves
    <3> HIDE DEF x, y, w, q
    <3>3. Track(y, s, z, w, q)
      BY <2>3, <3>1, <3>2, ElsewhereRun
    <3> QED
      BY <3>1, <3>3 DEF y, q
  <2> QED
    BY <2>2, <2>3
<1>6. Mild(m, n) /\ LiveLike(m, n)
  BY DEF Moves, SameRun, Mild, LiveLike
<1>7. Firsts(m, n)
  <2> SUFFICES ASSUME NEW s \in DOMAIN n.live, ~n.live[s].relaunched
               PROVE  /\ s \in DOMAIN m.live /\ Stands(m.live[s], n.live[s])
                      /\ PlaysAs(s, m.workers[n.live[s].runtime], n.workers[n.live[s].runtime])
    BY DEF Firsts
  <2>1. /\ s \in DOMAIN m.live /\ n.live[s].overlay = m.live[s].overlay /\ n.live[s].runtime = m.live[s].runtime
        /\ n.live[s].relaunched = m.live[s].relaunched
    BY <1>6 DEF Mild
  <2>2. n.live[s].runtime \in Kinds
    BY <1>1, MediaIs, PartialIs, PlayingIs
  <2>3. CASE n.live[s].runtime = r
    BY <2>1, <2>3 DEF MovesWell, Stands
  <2>4. CASE n.live[s].runtime # r
    BY <2>1, <2>2, <2>4 DEF Moves, Stands, PlaysAs
  <2> QED
    BY <2>3, <2>4
<1>8. Kept(n, g)
  BY <1>1, <1>6, KeptLike DEF Good, Alike
<1>9. Good(n, g)
  BY <1>1, <1>3, <1>4, <1>5, <1>8 DEF Good, Sound, Alike, Pend
<1>10. Follows(m, p) => Follows(n, p)
  <2>1. 0 \notin DOMAIN n.live
    BY <1>3 DEF Counted
  <2> SUFFICES ASSUME Follows(m, p) PROVE Follows(n, p)
    OBVIOUS
  <2> QED
    BY <1>1, <1>7, <2>1, FollowsOn DEF Alike
<1>11. Parks(m, p, late) => Parks(n, p, late)
  BY <1>1 DEF Parks, Alike
<1> QED
  BY <1>9, <1>10, <1>11 DEF Onward

(* Worker r becomes v. *)
Swapped(m, r, v) == [m EXCEPT !.workers = [m.workers EXCEPT ![r] = v]]
SwapsWell(m, r, v) ==
  \A s \in DOMAIN m.live :
    /\ Track(m.live[s], s, r, v, v.outbox)
    /\ ~m.live[s].relaunched /\ m.live[s].runtime = r => PlaysAs(s, m.workers[r], v)

LEMMA SwappedIs ==
  ASSUME NEW m, NEW r \in Kinds, NEW v \in Worker, NEW g, NEW p, NEW late, Good(m, g), SwapsWell(m, r, v),
         Sane(v, v.outbox, m.opened)
  PROVE  Good(Swapped(m, r, v), g) /\ Onward(m, Swapped(m, r, v), p, late)
<1> DEFINE W == [m.workers EXCEPT ![r] = v]
           n == [m EXCEPT !.workers = W]
<1>1. m \in MediaType /\ m.workers \in [Kinds -> Worker]
  BY MediaIs DEF Good
<1>2. W \in [Kinds -> Worker] /\ W[r] = v /\ \A z \in Kinds : z # r => W[z] = m.workers[z]
  BY <1>1
<1> HIDE DEF W
<1>3. n \in MediaType /\ n.live = m.live /\ n.workers = W /\ Alike(m, n)
  BY <1>1, <1>2, WorkersAre
<1>4. n = Swapped(m, r, v)
  BY DEF Swapped, W
<1> HIDE DEF n
<1>5. Moves(m, n, r)
  BY <1>2, <1>3 DEF Moves
<1>6. MovesWell(m, n, r) /\ Sane(n.workers[r], n.workers[r].outbox, m.opened)
  BY <1>2, <1>3 DEF MovesWell, SwapsWell
<1> QED
  BY <1>4, <1>5, <1>6, MovesIs

LEMMA DiesIs ==
  ASSUME NEW m, NEW r \in Kinds, NEW g, NEW p, NEW late, Good(m, g)
  PROVE  LET n == Swapped(m, r, [m.workers[r] EXCEPT !.alive = FALSE, !.inbox = <<>>, !.hosted = Nobody]) IN
         Good(n, g) /\ Onward(m, n, p, late)
<1> DEFINE w == m.workers[r]
           e == <<>>
           v == [w EXCEPT !.alive = FALSE, !.inbox = e, !.hosted = Nobody]
<1>1. m \in MediaType /\ w \in Worker /\ Sound(m, Out(m)) /\ Out(m)[r] = w.outbox
  BY MediaIs DEF Good, Out
<1>2. e \in Seq(Requests) /\ Len(e) = 0 /\ Nobody \in Partial(Ring) /\ DOMAIN Nobody = {}
  BY NobodyIs
<1> HIDE DEF w, e
<1>3. /\ v \in Worker /\ v.alive = FALSE /\ v.inbox = e /\ v.hosted = Nobody /\ v.outbox = w.outbox
      /\ v.known = w.known
  BY <1>1, <1>2 DEF Worker
<1> HIDE DEF v
<1>4. Sane(w, w.outbox, m.opened)
  BY <1>1 DEF Sound, Sanes, w
<1>5. Sane(v, v.outbox, m.opened)
  BY <1>2, <1>3, <1>4 DEF Sane, e
<1>6. SwapsWell(m, r, v)
  <2> SUFFICES ASSUME NEW s \in DOMAIN m.live
               PROVE  Track(m.live[s], s, r, v, v.outbox) /\ PlaysAs(s, w, v)
    BY DEF SwapsWell, w
  <2> DEFINE x == m.live[s]
             q == w.outbox
  <2>1. Track(x, s, r, w, q)
    BY <1>1 DEF Sound, Tracks, w
  <2> HIDE DEF x
  <2>2. Track(x, s, r, v, q)
    BY <1>2, <1>3, <2>1, ResetKeeps DEF e
  <2>3. PlaysAs(s, w, v)
    BY <1>2, <1>3, EmptyPlays DEF PlaysAs, e
  <2> QED
    BY <1>3, <2>2, <2>3 DEF x
<1>7. Good(Swapped(m, r, v), g) /\ Onward(m, Swapped(m, r, v), p, late)
  BY <1>3, <1>5, <1>6, SwappedIs
<1> QED
  BY <1>7 DEF v, w, e

LEMMA PumpIs ==
  ASSUME NEW m, NEW r \in Kinds, NEW t \in DOMAIN m.workers[r].hosted, NEW g, NEW p, NEW late,
         NEW error \in PumpErrors, Good(m, g)
  PROVE  LET w == m.workers[r]
             n == Swapped(m, r, Says([w EXCEPT !.hosted = Without(w.hosted, {t})], FailedEvent(t, error))) IN
         Good(n, g) /\ Onward(m, n, p, late)
<1> DEFINE w == m.workers[r]
           h == Without(w.hosted, {t})
           u == [w EXCEPT !.hosted = h]
           e == FailedEvent(t, error)
           q == Append(u.outbox, e)
           v == [u EXCEPT !.outbox = q]
<1>1. m \in MediaType /\ w \in Worker /\ Sound(m, Out(m)) /\ Out(m)[r] = w.outbox
  BY MediaIs DEF Good, Out
<1>2. t \in DOMAIN w.hosted /\ w.hosted \in Partial(Ring) /\ w.outbox \in Seq(Events)
  BY <1>1, WorkerIs
<1> HIDE DEF w
<1>3. h \in Partial(Ring) /\ DOMAIN h = DOMAIN w.hosted \ {t} /\ \A s \in DOMAIN w.hosted \ {t} : h[s] = w.hosted[s]
  BY <1>2, WithoutIs, ZenonT(60)
<1> HIDE DEF h
<1>4. /\ u \in Worker /\ u.hosted = h /\ u.known = w.known /\ u.alive = w.alive /\ u.inbox = w.inbox
      /\ u.outbox = w.outbox
  BY <1>1, <1>3, HostedIs
<1> HIDE DEF u
<1>5. e \in Events /\ e.session = t /\ e.kind = "Failed"
  <2>1. t \in Nat
    BY <1>2, PartialIs
  <2>2. e = [kind |-> "Failed", session |-> t, error |-> error]
    BY DEF FailedEvent
  <2>3. error \in {"Crashed"} \cup OpenErrors
    BY DEF PumpErrors, OpenErrors
  <2>4. e \in FailedKind
    BY <2>1, <2>2, <2>3 DEF FailedKind
  <2> HIDE DEF e
  <2> QED
    BY <2>2, <2>4 DEF Events
<1> HIDE DEF e
<1>6. q \in Seq(Events) /\ Grows(w.outbox, q, e)
  BY <1>2, <1>4, <1>5, GrowsIs
<1> HIDE DEF q
<1>7. /\ v \in Worker /\ v.outbox = q /\ v.known = w.known /\ v.alive = w.alive /\ v.inbox = w.inbox
      /\ v.hosted = h
  BY <1>4, <1>6, OutboxIs
<1>8. v = Says([w EXCEPT !.hosted = Without(w.hosted, {t})], FailedEvent(t, error))
  BY DEF Says, v, q, u, e, h
<1> HIDE DEF v
<1>9. Sane(w, w.outbox, m.opened)
  BY <1>1 DEF Sound, Sanes, w
<1>10. Sane(v, v.outbox, m.opened)
  <2>1. w.alive
    BY <1>2, <1>9, NobodyIs DEF Sane
  <2>2. t <= m.opened
    BY <1>2, <1>9 DEF Sane
  <2>3. \A i \in 1..Len(q) : q[i].session <= m.opened
    BY <1>5, <1>6, <1>9, <2>2, GrowsAt DEF Sane
  <2> QED
    BY <1>3, <1>7, <1>9, <2>1, <2>3 DEF Sane
<1>11. SwapsWell(m, r, v)
  <2> SUFFICES ASSUME NEW s \in DOMAIN m.live
               PROVE  Track(m.live[s], s, r, v, v.outbox) /\ PlaysAs(s, w, v)
    BY DEF SwapsWell, w
  <2> DEFINE x == m.live[s]
             j == w.outbox
  <2>1. Track(x, s, r, w, j) /\ Grows(j, q, e)
    BY <1>1, <1>6 DEF Sound, Tracks, w
  <2>2. Shrinks(s, w, v) /\ Goes(s, w, v)
    BY <1>3, <1>7 DEF Shrinks, Goes
  <2> HIDE DEF x, j
  <2>3. Track(x, s, r, v, q)
    BY <1>2, <1>5, <1>7, <2>1, <2>2, SpeakKeeps
  <2>4. PlaysAs(s, w, v)
    BY <1>7, <2>2, GoesPlays DEF PlaysAs
  <2> QED
    BY <1>7, <2>3, <2>4 DEF x
<1>12. Good(Swapped(m, r, v), g) /\ Onward(m, Swapped(m, r, v), p, late)
  BY <1>7, <1>10, <1>11, SwappedIs
<1> QED
  BY <1>8, <1>12 DEF w

LEMMA RequestIs ==
  ASSUME NEW a \in Requests
  PROVE  /\ a.session \in Nat
         /\ \/ a.kind = "Open" /\ a.restarts \in Nat /\ a.count \in Nat
            \/ a.kind = "Close"
            \/ a.kind = "SetActive" /\ a.active \in BOOLEAN
            \/ a.kind = "ReleaseFrame" /\ a.slot \in SlotIds /\ a.sequence \in Nat
BY DEF Requests, OpenKind, CloseKind, ActiveKind, ReleaseKind

(* What a worker makes of a request. *)
Attaches(w, v, a) ==
  a.kind = "Open" /\ v.outbox = w.outbox /\ v.hosted = With(w.hosted, a.session, Attached(a.restarts, a.count))
Declines(w, v, a, error) ==
  /\ a.kind = "Open" /\ error \in OpenErrors
  /\ v.hosted = w.hosted /\ v.outbox = Append(w.outbox, FailedEvent(a.session, error))
Forgets(w, v, a) == a.kind = "Close" /\ v.outbox = w.outbox /\ v.hosted = Without(w.hosted, {a.session})
Passes(w, v, a) ==
  /\ a.kind = "SetActive" \/ a.kind = "ReleaseFrame"
  /\ a.session \notin DOMAIN w.hosted /\ v.hosted = w.hosted /\ v.outbox = w.outbox
Turns(w, v, a) ==
  /\ a.kind = "SetActive" /\ a.session \in DOMAIN w.hosted /\ v.outbox = w.outbox
  /\ v.hosted = [w.hosted EXCEPT ![a.session] = [w.hosted[a.session] EXCEPT !.active = a.active]]
Frees(w, v, a) ==
  /\ a.kind = "ReleaseFrame" /\ a.session \in DOMAIN w.hosted /\ v.outbox = w.outbox
  /\ v.hosted = [w.hosted EXCEPT ![a.session] = Released(w.hosted[a.session], a.slot, a.sequence)]
Serves(w, v, a, error) ==
  /\ v \in Worker /\ v.inbox = Tail(w.inbox) /\ v.known = w.known /\ v.alive = w.alive
  /\ \/ Attaches(w, v, a) \/ Declines(w, v, a, error) \/ Forgets(w, v, a)
     \/ Passes(w, v, a) \/ Turns(w, v, a) \/ Frees(w, v, a)

LEMMA ServesIs ==
  ASSUME NEW w \in Worker, w.inbox # <<>>, NEW error \in OpenErrors \cup {"none"},
         error # "none" => Head(w.inbox).kind = "Open"
  PROVE  Serves(w, Answered([w EXCEPT !.inbox = Tail(w.inbox)], Head(w.inbox), error), Head(w.inbox), error)
<1> DEFINE a == Head(w.inbox)
           rest == Tail(w.inbox)
           u == [w EXCEPT !.inbox = rest]
           s == a.session
           v == Answered(u, a, error)
<1>1. a \in Requests /\ rest \in Seq(Requests) /\ w.hosted \in Partial(Ring) /\ w.outbox \in Seq(Events)
  BY WorkerIs, HeadTailProperties
<1> HIDE DEF rest
<1>2. /\ u \in Worker /\ u.inbox = rest /\ u.known = w.known /\ u.alive = w.alive /\ u.outbox = w.outbox
      /\ u.hosted = w.hosted
  BY <1>1, InboxIs
<1> HIDE DEF u, a
<1>3. s \in Nat
  BY <1>1, RequestIs
<1>4. error # "none" => a.kind = "Open"
  BY DEF a
<1> DEFINE Ok(x) == x \in Worker /\ x.inbox = rest /\ x.known = w.known /\ x.alive = w.alive
           Put(h) == [u EXCEPT !.hosted = h]
<1>5. \A h \in Partial(Ring) : Ok(Put(h)) /\ Put(h).hosted = h /\ Put(h).outbox = w.outbox
  BY <1>2, HostedIs
<1>6. CASE a.kind = "Open" /\ error = "none"
  <2> DEFINE at == Attached(a.restarts, a.count)
             h == With(w.hosted, s, at)
  <2>1. at \in Ring
    BY <1>1, <1>6, RequestIs, AttachedIs
  <2> HIDE DEF at
  <2>2. h \in Partial(Ring)
    BY <1>1, <1>3, <2>1, WithIs
  <2> HIDE DEF h
  <2>3. v = Put(h)
    BY <1>2, <1>6 DEF Answered, h, at
  <2> HIDE DEF Put
  <2>4. Ok(v) /\ v.hosted = h /\ v.outbox = w.outbox
    BY <1>5, <2>2, <2>3
  <2>5. Attaches(w, v, a)
    BY <1>6, <2>4 DEF Attaches, h, at
  <2> HIDE DEF v
  <2> QED
    BY <2>4, <2>5 DEF Serves, v, u, a, rest
<1>7. CASE a.kind = "Open" /\ error # "none"
  <2> DEFINE e == FailedEvent(s, error)
             q == Append(w.outbox, e)
             j == [u EXCEPT !.outbox = q]
  <2>1. e \in Events
    <3>1. e = [kind |-> "Failed", session |-> s, error |-> error]
      BY DEF FailedEvent
    <3>2. error \in {"Crashed"} \cup OpenErrors
      BY <1>7
    <3>3. e \in FailedKind
      BY <1>3, <3>1, <3>2 DEF FailedKind
    <3> QED
      BY <3>3 DEF Events
  <2> HIDE DEF e
  <2>2. q \in Seq(Events)
    BY <1>1, <2>1
  <2> HIDE DEF q
  <2>3. /\ j \in Worker /\ j.outbox = q /\ j.known = u.known /\ j.alive = u.alive /\ j.inbox = u.inbox
        /\ j.hosted = u.hosted
    BY <1>2, <2>2, OutboxIs
  <2>4. v = j
    BY <1>2, <1>7 DEF Answered, Says, q, e
  <2> HIDE DEF j, v
  <2>5. Declines(w, v, a, error)
    BY <1>2, <1>7, <2>3, <2>4 DEF Declines, q, e
  <2> QED
    BY <1>2, <2>3, <2>4, <2>5 DEF Serves, v, u, a, rest
<1>8. CASE a.kind = "Close"
  <2> DEFINE h == Without(w.hosted, {s})
  <2>1. h \in Partial(Ring)
    BY <1>1, WithoutIs
  <2> HIDE DEF h
  <2>2. v = Put(h)
    <3>1. CASE s \in DOMAIN w.hosted
      BY <1>2, <1>8, <3>1 DEF Answered, h
    <3>2. CASE s \notin DOMAIN w.hosted
      <4>1. h = w.hosted
        <5>1. w.hosted = [x \in DOMAIN w.hosted |-> w.hosted[x]]
          BY <1>1, PartialIs
        <5>2. DOMAIN w.hosted \ {s} = DOMAIN w.hosted
          BY <3>2
        <5>3. h = [x \in DOMAIN w.hosted |-> w.hosted[x]]
          BY <5>2 DEF h, Without
        <5> QED
          BY <5>1, <5>3
      <4>2. Put(h) = u
        BY <1>2, <4>1 DEF Worker
      <4>3. v = u \/ v = Put(h)
        BY <1>2, <1>8, <3>2, <4>2 DEF Answered, h
      <4> QED
        BY <4>2, <4>3
    <3> QED
      BY <3>1, <3>2
  <2> HIDE DEF Put
  <2>3. Ok(v) /\ v.hosted = h /\ v.outbox = w.outbox
    BY <1>5, <2>1, <2>2
  <2>4. Forgets(w, v, a)
    BY <1>8, <2>3 DEF Forgets, h
  <2> HIDE DEF v
  <2> QED
    BY <2>3, <2>4 DEF Serves, v, u, a, rest
<1>9. ASSUME a.kind = "SetActive" \/ a.kind = "ReleaseFrame", s \notin DOMAIN w.hosted
      PROVE  Serves(w, v, a, error)
  <2>1. v = u
    BY <1>2, <1>4, <1>9 DEF Answered
  <2>2. Passes(w, v, a)
    BY <1>2, <1>9, <2>1 DEF Passes
  <2> HIDE DEF v
  <2> QED
    BY <1>2, <2>1, <2>2 DEF Serves, rest
<1>10. ASSUME a.kind = "SetActive", s \in DOMAIN w.hosted PROVE Serves(w, v, a, error)
  <2> DEFINE at == [w.hosted[s] EXCEPT !.active = a.active]
             h == [w.hosted EXCEPT ![s] = at]
  <2>1. at \in Ring
    <3>1. a.active \in BOOLEAN /\ w.hosted[s] \in Ring
      BY <1>1, <1>10, RequestIs, PartialIs
    <3> QED
      BY <3>1, ActiveIs
  <2> HIDE DEF at
  <2>2. h \in Partial(Ring)
    BY <1>1, <1>10, <2>1, ChangedIs
  <2>3. v = Put(h)
    BY <1>2, <1>4, <1>10 DEF Answered, at
  <2> HIDE DEF Put, h
  <2>4. Ok(v) /\ v.hosted = h /\ v.outbox = w.outbox
    BY <1>5, <2>2, <2>3
  <2>5. Turns(w, v, a)
    BY <1>10, <2>4 DEF Turns, h, at
  <2> HIDE DEF v
  <2> QED
    BY <2>4, <2>5 DEF Serves, rest
<1>11. ASSUME a.kind = "ReleaseFrame", s \in DOMAIN w.hosted PROVE Serves(w, v, a, error)
  <2> DEFINE at == Released(w.hosted[s], a.slot, a.sequence)
             h == [w.hosted EXCEPT ![s] = at]
  <2>1. at \in Ring
    <3>1. w.hosted[s] \in Ring
      BY <1>1, <1>11, PartialIs
    <3> QED
      BY <3>1, ReleasedIs
  <2> HIDE DEF at
  <2>2. h \in Partial(Ring)
    BY <1>1, <1>11, <2>1, ChangedIs
  <2>3. v = Put(h)
    BY <1>2, <1>4, <1>11 DEF Answered, at
  <2> HIDE DEF Put, h
  <2>4. Ok(v) /\ v.hosted = h /\ v.outbox = w.outbox
    BY <1>5, <2>2, <2>3
  <2>5. Frees(w, v, a)
    BY <1>11, <2>4 DEF Frees, h, at
  <2> HIDE DEF v
  <2> QED
    BY <2>4, <2>5 DEF Serves, rest
<1>12. Serves(w, v, a, error)
  <2>1. a.kind = "Open" \/ a.kind = "Close" \/ a.kind = "SetActive" \/ a.kind = "ReleaseFrame"
    BY <1>1, RequestIs
  <2> HIDE DEF v
  <2> QED
    BY <1>6, <1>7, <1>8, <1>9, <1>10, <1>11, <2>1 DEF v, u, a, rest
<1> QED
  BY <1>12 DEF v, u, a, rest

(* The ring of session s afterwards. *)
Hosts(w, v, s, at) == s \in DOMAIN v.hosted /\ v.hosted[s] = at
Leaves(w, v, s) == s \in DOMAIN v.hosted => s \in DOMAIN w.hosted /\ v.hosted[s] = w.hosted[s]

LEMMA ServedRings ==
  ASSUME NEW w \in Worker, NEW v \in Worker, NEW a \in Requests, NEW error, Serves(w, v, a, error)
  PROVE  /\ \A t : t # a.session \/ a.kind = "Close" \/ Passes(w, v, a) \/ Declines(w, v, a, error) => Leaves(w, v, t)
         /\ Forgets(w, v, a) => a.session \notin DOMAIN v.hosted
         /\ Attaches(w, v, a) => Hosts(w, v, a.session, Attached(a.restarts, a.count))
         /\ Turns(w, v, a) => Hosts(w, v, a.session, [w.hosted[a.session] EXCEPT !.active = a.active])
         /\ Frees(w, v, a) => Hosts(w, v, a.session, Released(w.hosted[a.session], a.slot, a.sequence))
<1> DEFINE s == a.session
           h == w.hosted
           k == v.hosted
<1>1. h \in Partial(Ring) /\ s \in Nat
  BY WorkerIs, RequestIs
<1> HIDE DEF s, h, k
<1>2. ASSUME Attaches(w, v, a)
      PROVE  Hosts(w, v, s, Attached(a.restarts, a.count)) /\ \A t : t # s => Leaves(w, v, t)
  <2> DEFINE at == Attached(a.restarts, a.count)
  <2>1. k = With(h, s, at)
    BY <1>2 DEF Attaches, s, h, k
  <2> HIDE DEF at
  <2>2. s \in DOMAIN k /\ k[s] = at /\ \A t : t \in DOMAIN k /\ t # s => t \in DOMAIN h /\ k[t] = h[t]
    BY <2>1 DEF With
  <2> QED
    BY <2>2 DEF Hosts, Leaves, at, h, k
<1>3. ASSUME Forgets(w, v, a) PROVE s \notin DOMAIN k /\ \A t : Leaves(w, v, t)
  <2>1. k = Without(h, {s})
    BY <1>3 DEF Forgets, s, h, k
  <2> QED
    BY <2>1 DEF Leaves, Without, h, k
<1>4. ASSUME Passes(w, v, a) \/ Declines(w, v, a, error) PROVE \A t : Leaves(w, v, t)
  BY <1>4 DEF Passes, Declines, Leaves
<1>5. ASSUME Turns(w, v, a)
      PROVE  Hosts(w, v, s, [w.hosted[s] EXCEPT !.active = a.active]) /\ \A t : t # s => Leaves(w, v, t)
  <2> DEFINE at == [w.hosted[s] EXCEPT !.active = a.active]
  <2>1. k = [h EXCEPT ![s] = at] /\ s \in DOMAIN h
    BY <1>5 DEF Turns, s, h, k
  <2> HIDE DEF at
  <2> QED
    BY <2>1 DEF Hosts, Leaves, at, h, k
<1>6. ASSUME Frees(w, v, a)
      PROVE  Hosts(w, v, s, Released(w.hosted[s], a.slot, a.sequence)) /\ \A t : t # s => Leaves(w, v, t)
  <2> DEFINE at == Released(w.hosted[s], a.slot, a.sequence)
  <2>1. k = [h EXCEPT ![s] = at] /\ s \in DOMAIN h
    BY <1>6 DEF Frees, s, h, k
  <2> HIDE DEF at
  <2> QED
    BY <2>1 DEF Hosts, Leaves, at, h, k
<1>7. Attaches(w, v, a) \/ Declines(w, v, a, error) \/ Forgets(w, v, a) \/ Passes(w, v, a) \/ Turns(w, v, a) \/ Frees(w, v, a)
  BY DEF Serves
<1>8. a.kind = "Close" => Forgets(w, v, a)
  BY <1>7 DEF Attaches, Declines, Passes, Turns, Frees
<1>9. \A t : t # s \/ a.kind = "Close" \/ Passes(w, v, a) \/ Declines(w, v, a, error) => Leaves(w, v, t)
  BY <1>2, <1>3, <1>4, <1>5, <1>6, <1>7, <1>8
<1> QED
  BY <1>2, <1>3, <1>5, <1>6, <1>9 DEF s, k

LEMMA ServedTracks ==
  ASSUME NEW w \in Worker, NEW v \in Worker, NEW a \in Requests, NEW error, Serves(w, v, a, error),
         Pops(w.inbox, v.inbox), a = w.inbox[1],
         NEW x \in Playing, NEW t \in Nat, NEW r, Track(x, t, r, w, w.outbox)
  PROVE  Track(x, t, r, v, v.outbox)
<1> DEFINE q == w.outbox
           p == v.outbox
           i == w.inbox
<1>1. w.hosted \in Partial(Ring) /\ q \in Seq(Events) /\ x.last \in Nat
  BY WorkerIs, PlayingIs
<1>2. Leaves(w, v, t) => Shrinks(t, w, v)
  BY DEF Leaves, Shrinks
<1>3. CASE Attaches(w, v, a) /\ t = a.session
  <2> DEFINE at == Attached(a.restarts, a.count)
  <2>1. a.restarts \in Nat /\ a.count \in Nat /\ a.kind = "Open" /\ p = q
    BY <1>3, RequestIs DEF Attaches
  <2>2. Hosts(w, v, t, at)
    BY <1>3, ServedRings
  <2>3. at.count = a.count /\ at.restarts = a.restarts /\ at.sequence = 0 /\ at.held = {}
    BY DEF Attached
  <2> HIDE DEF at
  <2>4. /\ t \in DOMAIN v.hosted /\ v.hosted[t].count = w.inbox[1].count /\ v.hosted[t].restarts = w.inbox[1].restarts
        /\ v.hosted[t].sequence = 0 /\ v.hosted[t].held = {}
    BY <2>2, <2>3 DEF Hosts
  <2>5. OpenAt(w.inbox, t, 1)
    BY <1>3, <2>1 DEF OpenAt
  <2>6. Track(x, t, r, v, q)
    BY <1>1, <2>4, <2>5, AttachKeeps
  <2> QED
    BY <2>1, <2>6
<1>4. CASE Frees(w, v, a) /\ t = a.session
  <2> DEFINE old == w.hosted[t]
             at == Released(old, a.slot, a.sequence)
             b == [slot |-> a.slot, sequence |-> a.sequence]
  <2>1. a.slot \in SlotIds /\ a.sequence \in Nat /\ a.kind = "ReleaseFrame" /\ p = q /\ t \in DOMAIN w.hosted
    BY <1>4, RequestIs DEF Frees
  <2>2. Hosts(w, v, t, at)
    BY <1>4, ServedRings
  <2>3. old \in Ring /\ old.held \subseteq Held
    BY <1>1, <2>1, PartialIs, RingIs
  <2>4. b \in Held /\ b.slot = a.slot /\ b.sequence = a.sequence
    BY <2>1, HeldIs
  <2>5. at.held = old.held \ {b} /\ at.restarts = old.restarts /\ at.count = old.count /\ at.sequence = old.sequence
    BY <2>3, ReleasedIs
  <2> HIDE DEF at, b, old
  <2>6. /\ t \in DOMAIN v.hosted /\ v.hosted[t].count = old.count /\ v.hosted[t].restarts = old.restarts
        /\ v.hosted[t].sequence = old.sequence /\ v.hosted[t].held = old.held \ {b}
    BY <2>2, <2>5 DEF Hosts
  <2>7. Returns(w.inbox, t, b, 1)
    BY <1>4, <2>1, <2>4 DEF Returns, ReleaseAt
  <2>8. Track(x, t, r, v, q)
    BY <2>1, <2>3, <2>4, <2>6, <2>7, FreeKeeps DEF old
  <2> QED
    BY <2>1, <2>8
<1>5. ASSUME ~(t = a.session /\ Attaches(w, v, a)), ~(t = a.session /\ Frees(w, v, a))
      PROVE  Track(x, t, r, v, p)
  <2>1. Attaches(w, v, a) \/ Declines(w, v, a, error) \/ Forgets(w, v, a) \/ Passes(w, v, a) \/ Turns(w, v, a) \/ Frees(w, v, a)
    BY DEF Serves
  <2>2. Shrinks(t, w, v)
    <3>1. CASE t # a.session \/ a.kind = "Close" \/ Passes(w, v, a) \/ Declines(w, v, a, error)
      BY <1>2, <3>1, ServedRings
    <3>2. CASE Turns(w, v, a) /\ t = a.session
      <4> DEFINE old == w.hosted[t]
                 at == [old EXCEPT !.active = a.active]
      <4>1. Hosts(w, v, t, at)
        BY <3>2, ServedRings
      <4>2. t \in DOMAIN w.hosted /\ old \in Ring /\ a.active \in BOOLEAN
        BY <1>1, <3>2, PartialIs, RequestIs DEF Turns
      <4>3. at.held = old.held /\ at.restarts = old.restarts /\ at.count = old.count /\ at.sequence = old.sequence
        BY <4>2, ActiveIs
      <4> HIDE DEF at
      <4> QED
        BY <4>1, <4>2, <4>3 DEF Hosts, Shrinks
    <3> QED
      BY <1>5, <2>1, <3>1, <3>2 DEF Forgets
  <2>3. Unframed(q, p, t) /\ (About(p, t) => About(q, t) \/ OpenAt(w.inbox, t, 1))
    <3>1. CASE p = q
      BY <3>1 DEF Unframed
    <3>2. CASE Declines(w, v, a, error)
      <4> DEFINE e == FailedEvent(a.session, error)
      <4>1. e.session = a.session /\ e.kind = "Failed" /\ a.kind = "Open" /\ e \in Events
        <5>1. e = [kind |-> "Failed", session |-> a.session, error |-> error] /\ a.kind = "Open" /\ error \in OpenErrors
          BY <3>2 DEF FailedEvent, Declines
        <5>2. a.session \in Nat
          BY RequestIs
        <5>3. e \in FailedKind
          BY <5>1, <5>2 DEF FailedKind
        <5> HIDE DEF e
        <5> QED
          BY <5>1, <5>3 DEF Events
      <4>2. p = Append(q, e)
        BY <3>2 DEF Declines
      <4> HIDE DEF e, q, p
      <4>3. Grows(q, p, e)
        BY <1>1, <4>1, <4>2, GrowsIs
      <4>4. Unframed(q, p, t)
        BY <4>1, <4>3 DEF Unframed
      <4>5. ASSUME About(p, t), ~About(q, t) PROVE OpenAt(w.inbox, t, 1)
        <5>1. PICK j \in 1..Len(p) : p[j].session = t
          BY <4>5 DEF About
        <5>2. p[j] = e
          BY <4>3, <4>5, <5>1, GrowsAt DEF About
        <5> QED
          BY <4>1, <5>1, <5>2 DEF OpenAt
      <4> QED
        BY <4>4, <4>5
    <3> QED
      BY <2>1, <3>1, <3>2 DEF Attaches, Forgets, Passes, Turns, Frees
  <2>4. ASSUME ReleaseAt(w.inbox, t, 1) PROVE t \notin DOMAIN v.hosted
    <3>1. a.kind = "ReleaseFrame" /\ t = a.session
      BY <2>4 DEF ReleaseAt
    <3>2. Passes(w, v, a)
      BY <1>5, <2>1, <3>1 DEF Attaches, Declines, Forgets, Turns
    <3> QED
      BY <3>1, <3>2 DEF Passes
  <2> HIDE DEF q, p
  <2>5. Track(x, t, r, w, q)
    BY DEF q
  <2> QED
    BY <2>2, <2>3, <2>4, <2>5, ReadKeeps
<1> QED
  BY <1>3, <1>4, <1>5

LEMMA ServedPlays ==
  ASSUME NEW w \in Worker, NEW v \in Worker, NEW a \in Requests, NEW error, Serves(w, v, a, error),
         Pops(w.inbox, v.inbox), a = w.inbox[1],
         NEW x, NEW t \in Nat, NEW r, Track(x, t, r, w, w.outbox), ~x.relaunched, x.runtime = r
  PROVE  PlaysAs(t, w, v)
<1>1. Attaches(w, v, a) \/ Declines(w, v, a, error) \/ Forgets(w, v, a) \/ Passes(w, v, a) \/ Turns(w, v, a) \/ Frees(w, v, a)
  BY DEF Serves
<1>2. w.hosted \in Partial(Ring)
  BY WorkerIs
<1>3. Leaves(w, v, t) => Goes(t, w, v)
  BY DEF Leaves, Goes
<1>4. t # a.session \/ Forgets(w, v, a) \/ Passes(w, v, a) \/ Declines(w, v, a, error) => Goes(t, w, v)
  <2>1. Forgets(w, v, a) => a.kind = "Close"
    BY DEF Forgets
  <2>2. t # a.session \/ a.kind = "Close" \/ Passes(w, v, a) \/ Declines(w, v, a, error) => Leaves(w, v, t)
    BY ServedRings
  <2> QED
    BY <1>3, <2>1, <2>2
<1>5. ASSUME Frees(w, v, a), t = a.session PROVE Goes(t, w, v)
  <2> DEFINE at == Released(w.hosted[t], a.slot, a.sequence)
  <2>1. t \in DOMAIN w.hosted /\ w.hosted[t] \in Ring
    BY <1>2, <1>5, PartialIs DEF Frees
  <2>2. at.active = w.hosted[t].active
    BY <2>1, ReleasedIs
  <2>3. Hosts(w, v, t, at)
    BY <1>5, ServedRings
  <2> HIDE DEF at
  <2> QED
    BY <2>1, <2>2, <2>3 DEF Hosts, Goes
<1>6. ASSUME ~Decides(w.inbox, t, 1) PROVE Goes(t, w, v)
  <2>1. t = a.session => a.kind # "Open" /\ a.kind # "SetActive"
    BY <1>6 DEF Decides
  <2>2. t = a.session => ~Attaches(w, v, a) /\ ~Turns(w, v, a)
    BY <2>1 DEF Attaches, Turns
  <2> QED
    BY <1>1, <1>4, <1>5, <2>2
<1>7. ASSUME Decides(w.inbox, t, 1), t \in DOMAIN v.hosted
      PROVE  v.hosted[t].active <=> (w.inbox[1].kind = "Open" \/ w.inbox[1].active)
  <2>1. t = a.session /\ (a.kind = "Open" \/ a.kind = "SetActive") /\ a = w.inbox[1]
    BY <1>7 DEF Decides
  <2>2. CASE Attaches(w, v, a)
    <3> DEFINE at == Attached(a.restarts, a.count)
    <3>1. Hosts(w, v, t, at) /\ a.kind = "Open"
      BY <2>1, <2>2, ServedRings DEF Attaches
    <3>2. at.active = TRUE
      BY DEF Attached
    <3> HIDE DEF at
    <3> QED
      BY <2>1, <3>1, <3>2 DEF Hosts
  <2>3. CASE Turns(w, v, a)
    <3> DEFINE at == [w.hosted[t] EXCEPT !.active = a.active]
    <3>1. Hosts(w, v, t, at) /\ a.kind = "SetActive"
      BY <2>1, <2>3, ServedRings DEF Turns
    <3>2. t \in DOMAIN w.hosted /\ w.hosted[t] \in Ring /\ a.active \in BOOLEAN
      BY <1>2, <2>1, <2>3, PartialIs, RequestIs DEF Turns
    <3>3. at.active = a.active
      BY <3>2, ActiveIs
    <3> HIDE DEF at
    <3> QED
      BY <2>1, <3>1, <3>3 DEF Hosts
  <2>4. CASE Declines(w, v, a, error)
    <3>1. t \in DOMAIN w.hosted /\ OpenAt(w.inbox, t, 1)
      BY <1>7, <2>1, <2>4 DEF Declines, OpenAt
    <3>2. 1 \in 1..Len(w.inbox)
      BY PopsFrom
    <3> QED
      BY <3>1, <3>2 DEF Track, FirstRun, Awaited
  <2>5. CASE Passes(w, v, a)
    BY <1>7, <2>1, <2>5 DEF Passes
  <2> QED
    BY <1>1, <2>1, <2>2, <2>3, <2>4, <2>5 DEF Forgets, Frees
<1> SUFFICES ASSUME NEW on \in BOOLEAN, PlaysSo(t, w, on) PROVE PlaysSo(t, v, on)
  BY DEF PlaysAs
<1> QED
  BY <1>6, <1>7, ReadPlays

LEMMA ServedSane ==
  ASSUME NEW w \in Worker, NEW v \in Worker, NEW a \in Requests, NEW error, Serves(w, v, a, error),
         Pops(w.inbox, v.inbox), a = w.inbox[1], NEW k, Sane(w, w.outbox, k)
  PROVE  Sane(v, v.outbox, k)
<1> DEFINE s == a.session
<1>1. w.hosted \in Partial(Ring) /\ w.outbox \in Seq(Events) /\ w.inbox # <<>> /\ 1 \in 1..Len(w.inbox)
  BY WorkerIs, PopsFrom
<1>2. w.alive /\ w.known /\ s <= k
  BY <1>1 DEF Sane
<1>3. v.alive = w.alive /\ v.known = w.known
  BY DEF Serves
<1>4. \A i \in 1..Len(v.inbox) : v.inbox[i].session <= k
  BY PopsAt DEF Sane
<1>5. Attaches(w, v, a) \/ Declines(w, v, a, error) \/ Forgets(w, v, a) \/ Passes(w, v, a) \/ Turns(w, v, a) \/ Frees(w, v, a)
  BY DEF Serves
<1>6. \A i \in 1..Len(v.outbox) : v.outbox[i].session <= k
  <2>1. CASE Declines(w, v, a, error)
    <3> DEFINE e == FailedEvent(s, error)
               q == w.outbox
               p == v.outbox
    <3>1. e.session = s /\ e \in Events /\ p = Append(q, e)
      <4>1. e = [kind |-> "Failed", session |-> s, error |-> error] /\ error \in OpenErrors
        BY <2>1 DEF FailedEvent, Declines
      <4>2. s \in Nat
        BY RequestIs
      <4>3. e \in FailedKind
        BY <4>1, <4>2 DEF FailedKind
      <4>4. p = Append(q, e)
        BY <2>1 DEF Declines
      <4> HIDE DEF e
      <4> QED
        BY <4>1, <4>3, <4>4 DEF Events
    <3> HIDE DEF e, q, p
    <3>2. Grows(q, p, e)
      BY <1>1, <3>1, GrowsIs DEF q
    <3>3. \A i \in 1..Len(q) : q[i].session <= k
      BY DEF Sane, q
    <3>4. \A i \in 1..Len(p) : p[i].session <= k
      BY <1>2, <3>1, <3>2, <3>3, GrowsAt
    <3> QED
      BY <3>4 DEF p
  <2>2. CASE ~Declines(w, v, a, error)
    <3>1. v.outbox = w.outbox
      BY <1>5, <2>2 DEF Attaches, Forgets, Passes, Turns, Frees
    <3> QED
      BY <3>1 DEF Sane
  <2> QED
    BY <2>1, <2>2
<1>7. ASSUME NEW t \in DOMAIN v.hosted
      PROVE  t <= k /\ \A h, j \in v.hosted[t].held : h.slot = j.slot => h = j
  <2>1. CASE Leaves(w, v, t)
    BY <1>7, <2>1 DEF Leaves, Sane
  <2>2. CASE Attaches(w, v, a) /\ t = s
    <3> DEFINE at == Attached(a.restarts, a.count)
    <3>1. Hosts(w, v, t, at) /\ at.held = {}
      BY <2>2, ServedRings DEF Attached
    <3> HIDE DEF at
    <3> QED
      BY <1>2, <2>2, <3>1 DEF Hosts
  <2>3. CASE Turns(w, v, a) /\ t = s
    <3> DEFINE at == [w.hosted[t] EXCEPT !.active = a.active]
    <3>1. Hosts(w, v, t, at)
      BY <2>3, ServedRings
    <3>2. t \in DOMAIN w.hosted /\ w.hosted[t] \in Ring /\ a.active \in BOOLEAN
      BY <1>1, <2>3, PartialIs, RequestIs DEF Turns
    <3>3. at.held = w.hosted[t].held
      BY <3>2, ActiveIs
    <3> HIDE DEF at
    <3> QED
      BY <1>2, <2>3, <3>1, <3>2, <3>3 DEF Hosts, Sane
  <2>4. CASE Frees(w, v, a) /\ t = s
    <3> DEFINE at == Released(w.hosted[t], a.slot, a.sequence)
    <3>1. Hosts(w, v, t, at)
      BY <2>4, ServedRings
    <3>2. t \in DOMAIN w.hosted /\ w.hosted[t] \in Ring
      BY <1>1, <2>4, PartialIs DEF Frees
    <3>3. at.held \subseteq w.hosted[t].held
      BY <3>2, ReleasedIs
    <3> HIDE DEF at
    <3> QED
      BY <1>2, <2>4, <3>1, <3>2, <3>3 DEF Hosts, Sane
  <2>5. Leaves(w, v, t) \/ (Attaches(w, v, a) /\ t = s) \/ (Turns(w, v, a) /\ t = s) \/ (Frees(w, v, a) /\ t = s)
    <3>1. t # s \/ a.kind = "Close" \/ Passes(w, v, a) \/ Declines(w, v, a, error) => Leaves(w, v, t)
      BY ServedRings
    <3>2. Forgets(w, v, a) => a.kind = "Close"
      BY DEF Forgets
    <3> QED
      BY <1>5, <3>1, <3>2
  <2> QED
    BY <2>1, <2>2, <2>3, <2>4, <2>5
<1> QED
  BY <1>2, <1>3, <1>4, <1>6, <1>7 DEF Sane

LEMMA ServeIs ==
  ASSUME NEW m, NEW r \in Kinds, NEW g, NEW p, NEW late, Good(m, g), NEW error \in OpenErrors \cup {"none"},
         m.workers[r].inbox # <<>>, error # "none" => Head(m.workers[r].inbox).kind = "Open"
  PROVE  LET w == m.workers[r]
             n == Swapped(m, r, Answered([w EXCEPT !.inbox = Tail(w.inbox)], Head(w.inbox), error)) IN
         Good(n, g) /\ Onward(m, n, p, late)
<1> DEFINE w == m.workers[r]
           a == Head(w.inbox)
           v == Answered([w EXCEPT !.inbox = Tail(w.inbox)], a, error)
<1>1. m \in MediaType /\ w \in Worker /\ Sound(m, Out(m)) /\ Out(m)[r] = w.outbox
  BY MediaIs DEF Good, Out
<1>2. w.inbox \in Seq(Requests) /\ w.inbox # <<>> /\ (error # "none" => a.kind = "Open")
  BY <1>1, WorkerIs
<1> HIDE DEF w
<1>3. Serves(w, v, a, error) /\ v \in Worker
  <2>1. Serves(w, v, a, error)
    BY <1>1, <1>2, ServesIs
  <2> HIDE DEF v
  <2> QED
    BY <2>1 DEF Serves
<1> HIDE DEF v
<1>4. a = w.inbox[1] /\ a \in Requests
  BY <1>2, HeadTailProperties
<1>5. Pops(w.inbox, v.inbox)
  <2>1. v.inbox = Tail(w.inbox)
    BY <1>3 DEF Serves
  <2> QED
    BY <1>2, <2>1, PopsIs
<1> HIDE DEF a
<1>6. Sane(v, v.outbox, m.opened)
  <2>1. Sane(w, w.outbox, m.opened)
    BY <1>1 DEF Sound, Sanes, w
  <2> QED
    BY <1>1, <1>3, <1>4, <1>5, <2>1, ServedSane
<1>7. SwapsWell(m, r, v)
  <2> SUFFICES ASSUME NEW s \in DOMAIN m.live
               PROVE  /\ Track(m.live[s], s, r, v, v.outbox)
                      /\ ~m.live[s].relaunched /\ m.live[s].runtime = r => PlaysAs(s, w, v)
    BY DEF SwapsWell, w
  <2> DEFINE x == m.live[s]
  <2>1. Track(x, s, r, w, w.outbox) /\ x \in Playing /\ s \in Nat
    BY <1>1, MediaIs, PartialIs DEF Sound, Tracks, w
  <2> HIDE DEF x
  <2>2. Track(x, s, r, v, v.outbox)
    BY <1>1, <1>3, <1>4, <1>5, <2>1, ServedTracks
  <2>3. ASSUME ~x.relaunched, x.runtime = r PROVE PlaysAs(s, w, v)
    BY <1>1, <1>3, <1>4, <1>5, <2>1, <2>3, ServedPlays
  <2> QED
    BY <2>2, <2>3 DEF x
<1>8. Good(Swapped(m, r, v), g) /\ Onward(m, Swapped(m, r, v), p, late)
  BY <1>3, <1>6, <1>7, SwappedIs
<1> QED
  BY <1>8 DEF v, w, a

LEMMA ModuloIs ==
  ASSUME NEW a \in Nat, NEW b \in Nat \ {0}
  PROVE  a % b \in 0..(b - 1)
OBVIOUS

LEMMA ClaimedIs ==
  ASSUME NEW at \in Ring, Free(at) # {}
  PROVE  Claimed(at) \in Free(at) /\ Claimed(at) \in SlotIds
<1> DEFINE F == Free(at)
           ahead(slot) == (slot + Slots - at.next) % Slots
           A == {ahead(slot) : slot \in F}
<1>1. F \subseteq SlotIds /\ F # {}
  BY DEF Free
<1> HIDE DEF F
<1>2. \A slot \in SlotIds : ahead(slot) \in Nat
  <2> SUFFICES ASSUME NEW slot \in SlotIds PROVE ahead(slot) \in Nat
    OBVIOUS
  <2> DEFINE a == slot + Slots - at.next
             b == Slots
  <2>1. a \in Int /\ b \in Nat \ {0}
    BY MediaAssumption, RingIs DEF SlotIds
  <2> HIDE DEF a, b
  <2>2. a % b \in Nat
    BY <2>1
  <2> QED
    BY <2>2 DEF a, b
<1> HIDE DEF ahead
<1>3. A \in SUBSET Nat /\ A # {}
  BY <1>1, <1>2
<1>4. PICK k \in A : \A y \in A : k <= y
  <2> HIDE DEF A
  <2> QED
    BY <1>3, LeastOf
<1>5. PICK slot \in F : ahead(slot) = k
  BY <1>4
<1>6. \A other \in F : ahead(slot) <= ahead(other)
  BY <1>4, <1>5
<1>7. Claimed(at) = CHOOSE x \in F : \A other \in F : ahead(x) <= ahead(other)
  BY DEF Claimed, F, ahead
<1>8. Claimed(at) \in F
  BY <1>6, <1>7
<1> QED
  BY <1>1, <1>8 DEF F

(* The frame that session s of worker r draws. *)
Drawn(at, slot) ==
  [at EXCEPT !.sequence = at.sequence + 1, !.next = (slot + 1) % Slots,
             !.held = at.held \cup {[slot |-> slot, sequence |-> at.sequence + 1]}]
Announcement(s, n, slot) == [kind |-> "FrameReady", session |-> s, sequence |-> n, slot |-> slot]
Drawer(w, s, slot) ==
  LET at == w.hosted[s] IN
  [w EXCEPT !.hosted = [w.hosted EXCEPT ![s] = Drawn(at, slot)],
            !.outbox = Append(w.outbox, Announcement(s, at.sequence + 1, slot))]
Drew(m, r, v, l) == [m EXCEPT !.live = l, !.workers = [m.workers EXCEPT ![r] = v]]

LEMMA DrawerIs ==
  ASSUME NEW w \in Worker, NEW s \in DOMAIN w.hosted, NEW slot \in SlotIds
  PROVE  LET v == Drawer(w, s, slot)
             at == w.hosted[s]
             n == at.sequence + 1
             e == Announcement(s, n, slot) IN
         /\ at \in Ring /\ n \in Nat /\ s \in Nat /\ at.held \subseteq Held
         /\ v \in Worker /\ v.known = w.known /\ v.alive = w.alive /\ v.inbox = w.inbox
         /\ Grows(w.outbox, v.outbox, e)
         /\ e.kind = "FrameReady" /\ e.session = s /\ e.sequence = n /\ e.slot = slot
         /\ DOMAIN v.hosted = DOMAIN w.hosted /\ \A t \in DOMAIN w.hosted : t # s => v.hosted[t] = w.hosted[t]
         /\ v.hosted[s].restarts = at.restarts /\ v.hosted[s].count = at.count /\ v.hosted[s].active = at.active
         /\ v.hosted[s].sequence = n /\ v.hosted[s].held = at.held \cup {[slot |-> slot, sequence |-> n]}
<1> DEFINE at == w.hosted[s]
           n == at.sequence + 1
           next == (slot + 1) % Slots
           held == at.held \cup {[slot |-> slot, sequence |-> n]}
           k == [at EXCEPT !.sequence = n, !.next = next, !.held = held]
           h == [w.hosted EXCEPT ![s] = k]
           e == Announcement(s, n, slot)
           q == Append(w.outbox, e)
           u == [w EXCEPT !.hosted = h]
           v == [u EXCEPT !.outbox = q]
<1>1. w.hosted \in Partial(Ring) /\ w.outbox \in Seq(Events) /\ at \in Ring /\ s \in Nat
  BY WorkerIs, PartialIs
<1>2. n \in Nat /\ at.held \subseteq Held
  BY <1>1, RingIs
<1>3. next \in Nat
  <2> DEFINE a == slot + 1
             b == Slots
  <2>1. a \in Nat /\ b \in Nat \ {0}
    BY MediaAssumption DEF SlotIds
  <2> HIDE DEF a, b
  <2>2. a % b \in Nat
    BY <2>1, ModuloIs
  <2> QED
    BY <2>2 DEF a, b
<1> HIDE DEF at, n, next
<1>4. held \in SUBSET Held
  BY <1>2, HeldIs
<1> HIDE DEF held
<1>5. /\ k \in Ring /\ k.sequence = n /\ k.held = held
      /\ k.restarts = at.restarts /\ k.count = at.count /\ k.active = at.active
  BY <1>1, <1>2, <1>3, <1>4 DEF Ring
<1>6. k = Drawn(at, slot)
  BY DEF Drawn, k, n, next, held
<1> HIDE DEF k
<1>7. /\ h \in Partial(Ring) /\ DOMAIN h = DOMAIN w.hosted /\ h[s] = k
      /\ \A t \in DOMAIN w.hosted : t # s => h[t] = w.hosted[t]
  BY <1>1, <1>5, ChangedIs
<1> HIDE DEF h
<1>8. e \in Events /\ e.kind = "FrameReady" /\ e.session = s /\ e.sequence = n /\ e.slot = slot
  <2>1. e = [kind |-> "FrameReady", session |-> s, sequence |-> n, slot |-> slot]
    BY DEF Announcement
  <2>2. e \in FrameKind
    BY <1>1, <1>2, <2>1 DEF FrameKind
  <2> HIDE DEF e
  <2> QED
    BY <2>1, <2>2 DEF Events
<1> HIDE DEF e
<1>9. q \in Seq(Events) /\ Grows(w.outbox, q, e)
  BY <1>1, <1>8, GrowsIs
<1> HIDE DEF q
<1>10. u \in Worker /\ u.hosted = h /\ u.known = w.known /\ u.alive = w.alive /\ u.inbox = w.inbox
  BY <1>7, HostedIs
<1> HIDE DEF u
<1>11. v \in Worker /\ v.outbox = q /\ v.known = u.known /\ v.alive = u.alive /\ v.inbox = u.inbox /\ v.hosted = u.hosted
  BY <1>9, <1>10, OutboxIs
<1>12. v = Drawer(w, s, slot)
  BY <1>6 DEF Drawer, v, u, q, h, e, n, at
<1> HIDE DEF v
<1> QED
  BY <1>1, <1>2, <1>5, <1>7, <1>8, <1>9, <1>10, <1>11, <1>12 DEF at, n, held, e

LEMMA DrawerSane ==
  ASSUME NEW w \in Worker, NEW s \in DOMAIN w.hosted, NEW slot \in Free(w.hosted[s]), slot \in SlotIds,
         NEW k, Sane(w, w.outbox, k)
  PROVE  Sane(Drawer(w, s, slot), Drawer(w, s, slot).outbox, k)
<1> DEFINE v == Drawer(w, s, slot)
           at == w.hosted[s]
           n == at.sequence + 1
           e == Announcement(s, n, slot)
           q == w.outbox
           p == v.outbox
           b == [slot |-> slot, sequence |-> n]
<1>1. /\ at \in Ring /\ n \in Nat /\ s \in Nat /\ at.held \subseteq Held
      /\ v \in Worker /\ v.known = w.known /\ v.alive = w.alive /\ v.inbox = w.inbox
      /\ Grows(q, p, e)
      /\ e.kind = "FrameReady" /\ e.session = s /\ e.sequence = n /\ e.slot = slot
      /\ DOMAIN v.hosted = DOMAIN w.hosted /\ \A t \in DOMAIN w.hosted : t # s => v.hosted[t] = w.hosted[t]
      /\ v.hosted[s].restarts = at.restarts /\ v.hosted[s].count = at.count /\ v.hosted[s].active = at.active
      /\ v.hosted[s].sequence = n /\ v.hosted[s].held = at.held \cup {b}
  BY DrawerIs
<1>2. \A h \in at.held : h.slot # slot
  BY DEF Free
<1>3. b.slot = slot
  OBVIOUS
<1>4. s <= k /\ w.alive /\ w.known
  BY NobodyIs DEF Sane
<1> HIDE DEF v, at, n, e, q, p, b
<1>5. \A i \in 1..Len(q) : q[i].session <= k
  BY DEF Sane, q
<1>6. \A i \in 1..Len(p) : p[i].session <= k
  BY <1>1, <1>4, <1>5, GrowsAt
<1>7. \A h, j \in v.hosted[s].held : h.slot = j.slot => h = j
  <2>1. \A h, j \in at.held : h.slot = j.slot => h = j
    BY DEF Sane, at
  <2> QED
    BY <1>1, <1>2, <1>3, <2>1
<1>8. \A t \in DOMAIN v.hosted : t <= k /\ \A h, j \in v.hosted[t].held : h.slot = j.slot => h = j
  BY <1>1, <1>7 DEF Sane
<1>9. \A i \in 1..Len(v.inbox) : v.inbox[i].session <= k
  BY <1>1 DEF Sane
<1>10. Sane(v, p, k)
  BY <1>1, <1>4, <1>6, <1>8, <1>9 DEF Sane
<1> QED
  BY <1>10 DEF v, p

(* The session whose ring worker r draws in sees the frame in its own. *)
Sees(m, r, s, at) == s \in DOMAIN m.live /\ m.live[s].runtime = r /\ m.live[s].restarts = at.restarts
Shows(m, r, s, slot) ==
  LET at == m.workers[r].hosted[s]
      x == m.live[s] IN
  IF Sees(m, r, s, at)
  THEN [m.live EXCEPT ![s] = [x EXCEPT !.memory = [x.memory EXCEPT ![slot] = at.sequence + 1]]]
  ELSE m.live

LEMMA ShowsIs ==
  ASSUME NEW m \in MediaType, NEW r \in Kinds, NEW s, NEW slot \in SlotIds,
         m.workers[r].hosted[s].sequence + 1 \in Nat
  PROVE  LET l == Shows(m, r, s, slot)
             at == m.workers[r].hosted[s] IN
         /\ l \in Partial(Playing) /\ DOMAIN l = DOMAIN m.live
         /\ \A t \in DOMAIN m.live : t # s => l[t] = m.live[t]
         /\ ~Sees(m, r, s, at) => l = m.live
         /\ Sees(m, r, s, at) =>
              SameRun(m.live[s], l[s]) /\ l[s].memory = [m.live[s].memory EXCEPT ![slot] = at.sequence + 1]
<1> DEFINE at == m.workers[r].hosted[s]
           n == at.sequence + 1
           x == m.live[s]
           mem == [x.memory EXCEPT ![slot] = n]
           y == [x EXCEPT !.memory = mem]
           l == Shows(m, r, s, slot)
<1>1. m.live \in Partial(Playing) /\ n \in Nat
  BY MediaIs
<1>2. CASE ~Sees(m, r, s, at)
  <2>1. l = m.live
    BY <1>2 DEF Shows
  <2> QED
    BY <1>1, <1>2, <2>1
<1>3. CASE Sees(m, r, s, at)
  <2>1. s \in DOMAIN m.live /\ x \in Playing
    BY <1>1, <1>3, PartialIs DEF Sees
  <2>2. x.memory \in [SlotIds -> Nat]
    BY <2>1, PlayingIs
  <2>3. l = [m.live EXCEPT ![s] = y]
    BY <1>3 DEF Shows
  <2> HIDE DEF x, n, at
  <2>4. mem \in [SlotIds -> Nat]
    BY <1>1, <2>2
  <2> HIDE DEF mem
  <2>5. /\ y \in Playing /\ y.memory = mem /\ y.last = x.last
        /\ y.overlay = x.overlay /\ y.generation = x.generation /\ y.runtime = x.runtime /\ y.rest = x.rest
        /\ y.restarts = x.restarts /\ y.relaunched = x.relaunched
    BY <2>1, <2>4, MemoryIs
  <2> HIDE DEF y, l
  <2>6. /\ l \in Partial(Playing) /\ DOMAIN l = DOMAIN m.live /\ l[s] = y
        /\ \A t \in DOMAIN m.live : t # s => l[t] = m.live[t]
    BY <1>1, <2>1, <2>3, <2>5, ChangedIs
  <2> QED
    BY <1>3, <2>5, <2>6 DEF SameRun, l, x, n, at, mem
<1> QED
  BY <1>2, <1>3

LEMMA DrawTracks ==
  ASSUME NEW m \in MediaType, NEW r \in Kinds, NEW s \in DOMAIN m.workers[r].hosted, NEW slot \in SlotIds,
         slot \in Free(m.workers[r].hosted[s]), m.workers[r].hosted[s].sequence < m.workers[r].hosted[s].count,
         NEW t \in DOMAIN m.live, Track(m.live[t], t, r, m.workers[r], m.workers[r].outbox)
  PROVE  LET v == Drawer(m.workers[r], s, slot) IN
         Track(Shows(m, r, s, slot)[t], t, r, v, v.outbox) /\ PlaysAs(t, m.workers[r], v)
<1> DEFINE w == m.workers[r]
           v == Drawer(w, s, slot)
           at == w.hosted[s]
           n == at.sequence + 1
           e == Announcement(s, n, slot)
           q == w.outbox
           p == v.outbox
           b == [slot |-> slot, sequence |-> n]
           l == Shows(m, r, s, slot)
           x == m.live[t]
           y == l[t]
<1>1. w \in Worker /\ s \in DOMAIN w.hosted /\ x \in Playing
  BY MediaIs, PartialIs
<1>2. /\ at \in Ring /\ n \in Nat /\ s \in Nat /\ at.held \subseteq Held
      /\ v \in Worker /\ v.known = w.known /\ v.alive = w.alive /\ v.inbox = w.inbox
      /\ Grows(q, p, e)
      /\ e.kind = "FrameReady" /\ e.session = s /\ e.sequence = n /\ e.slot = slot
      /\ DOMAIN v.hosted = DOMAIN w.hosted /\ \A z \in DOMAIN w.hosted : z # s => v.hosted[z] = w.hosted[z]
      /\ v.hosted[s].restarts = at.restarts /\ v.hosted[s].count = at.count /\ v.hosted[s].active = at.active
      /\ v.hosted[s].sequence = n /\ v.hosted[s].held = at.held \cup {b}
  <2> HIDE DEF w
  <2> QED
    BY <1>1, DrawerIs
<1>3. /\ DOMAIN l = DOMAIN m.live /\ \A z \in DOMAIN m.live : z # s => l[z] = m.live[z]
      /\ ~Sees(m, r, s, at) => l = m.live
      /\ Sees(m, r, s, at) =>
           SameRun(m.live[s], l[s]) /\ l[s].memory = [m.live[s].memory EXCEPT ![slot] = n]
  <2>1. m.workers[r].hosted[s].sequence + 1 \in Nat
    BY <1>2
  <2> QED
    BY <2>1, ShowsIs, SMTT(30)
<1>4. \A h \in at.held : h.slot # slot
  BY SMTT(30) DEF Free
<1>5. Track(x, t, r, w, q) /\ at.sequence < at.count /\ at.sequence \in Nat /\ at.count \in Nat
  BY <1>2, RingIs, ZenonT(20)
<1>6. n = at.sequence + 1 /\ n <= at.count
  BY <1>5, SMTT(30)
<1>7. Shrinks(t, w, v) \/ t = s
  <2>1. DOMAIN v.hosted = DOMAIN w.hosted /\ (t # s /\ t \in DOMAIN w.hosted => v.hosted[t] = w.hosted[t])
    BY <1>2, ZenonT(40)
  <2> HIDE DEF w, v
  <2> QED
    BY <2>1, SMTT(40) DEF Shrinks
<1>8. Goes(t, w, v)
  BY <1>2, ZenonT(20) DEF Goes
<1>9. x.last \in Nat /\ x.memory \in [SlotIds -> Nat] /\ FrameCount[x.overlay] \in Nat
  BY <1>1, PlayingIs, MediaAssumption
<1>10. PlaysAs(t, w, v)
  <2> HIDE DEF w, v
  <2> QED
    BY <1>2, <1>8, GoesPlays DEF PlaysAs
<1>11. CASE t # s
  <2>1. y = x
    BY <1>3, <1>11
  <2> HIDE DEF w, v, at, n, e, q, p, x, y
  <2>2. Track(x, t, r, v, p)
    BY <1>2, <1>5, <1>7, <1>11, SpeakKeeps
  <2> QED
    BY <1>10, <2>1, <2>2 DEF y, x, l, v, w, p
<1>12. CASE t = s
  <2>1. /\ y.overlay = x.overlay /\ y.runtime = x.runtime /\ y.relaunched = x.relaunched /\ y.restarts = x.restarts
        /\ y.last = x.last
        /\ x.runtime = r /\ x.restarts = at.restarts => y.memory = [x.memory EXCEPT ![slot] = n]
    <3>1. CASE Sees(m, r, s, at)
      BY <1>3, <1>12, <3>1 DEF SameRun
    <3>2. CASE ~Sees(m, r, s, at)
      BY <1>3, <1>12, <3>2 DEF Sees
    <3> QED
      BY <3>1, <3>2
  <2> HIDE DEF w, v, n, e, q, p, x, y, l
  <2>2. Track(y, s, r, v, p)
    <3>1. /\ s \in DOMAIN w.hosted /\ s \in DOMAIN v.hosted /\ w.hosted[s].held \subseteq Held
          /\ w.hosted[s].sequence \in Nat /\ n = w.hosted[s].sequence + 1 /\ n <= w.hosted[s].count
          /\ w.hosted[s].count \in Nat /\ \A h \in w.hosted[s].held : h.slot # slot
      BY <1>1, <1>2, <1>4, <1>5, <1>6
    <3>2. /\ v.hosted[s].count = w.hosted[s].count /\ v.hosted[s].restarts = w.hosted[s].restarts
          /\ v.hosted[s].sequence = n
          /\ v.hosted[s].held = w.hosted[s].held \cup {[slot |-> slot, sequence |-> n]}
          /\ x.runtime = r /\ x.restarts = w.hosted[s].restarts => y.memory = [x.memory EXCEPT ![slot] = n]
      BY <1>2, <2>1
    <3>3. Track(x, s, r, w, q)
      BY <1>5, <1>12
    <3>4. /\ x.last \in Nat /\ x.memory \in [SlotIds -> Nat] /\ FrameCount[x.overlay] \in Nat
          /\ v.inbox = w.inbox /\ Grows(q, p, e) /\ n \in Nat
          /\ e.kind = "FrameReady" /\ e.session = s /\ e.sequence = n /\ e.slot = slot
          /\ y.overlay = x.overlay /\ y.runtime = x.runtime /\ y.relaunched = x.relaunched /\ y.restarts = x.restarts
          /\ y.last = x.last
      BY <1>2, <1>9, <2>1
    <3> HIDE DEF at, b
    <3>5. DrawsIn(s, w, v, slot, n)
      BY <3>1, <3>2, <3>4 DEF DrawsIn
    <3>6. DrawsFor(x, y, r, w, s, slot, n)
      BY <3>2, <3>4 DEF DrawsFor
    <3> QED
      BY <3>3, <3>4, <3>5, <3>6, DrawKeeps
  <2> QED
    BY <1>10, <1>12, <2>2 DEF y, l, v, w, p
<1> QED
  BY <1>11, <1>12

LEMMA DrawIs ==
  ASSUME NEW m, NEW r \in Kinds, NEW s \in DOMAIN m.workers[r].hosted, NEW g, NEW p, NEW late, Good(m, g),
         Free(m.workers[r].hosted[s]) # {}, m.workers[r].hosted[s].sequence < m.workers[r].hosted[s].count
  PROVE  LET slot == Claimed(m.workers[r].hosted[s])
             n == Drew(m, r, Drawer(m.workers[r], s, slot), Shows(m, r, s, slot)) IN
         Good(n, g) /\ Onward(m, n, p, late)
<1> DEFINE w == m.workers[r]
           at == w.hosted[s]
           slot == Claimed(at)
           v == Drawer(w, s, slot)
           l == Shows(m, r, s, slot)
           W == [m.workers EXCEPT ![r] = v]
           n == [m EXCEPT !.live = l, !.workers = W]
<1>1. m \in MediaType /\ w \in Worker /\ m.workers \in [Kinds -> Worker] /\ Sound(m, Out(m)) /\ Out(m)[r] = w.outbox
  BY MediaIs DEF Good, Out
<1>2. at \in Ring /\ at.sequence \in Nat
  BY <1>1, WorkerIs, PartialIs, RingIs
<1>3. slot \in Free(at) /\ slot \in SlotIds
  <2> HIDE DEF at
  <2> QED
    BY <1>2, ClaimedIs DEF at
<1> HIDE DEF slot
<1>4. v \in Worker
  <2> HIDE DEF w, at
  <2> QED
    BY <1>1, <1>3, DrawerIs DEF w
<1>5. /\ l \in Partial(Playing) /\ DOMAIN l = DOMAIN m.live
      /\ \A t \in DOMAIN m.live : t # s => l[t] = m.live[t]
      /\ ~Sees(m, r, s, at) => l = m.live
      /\ Sees(m, r, s, at) =>
           SameRun(m.live[s], l[s]) /\ l[s].memory = [m.live[s].memory EXCEPT ![slot] = at.sequence + 1]
  <2>1. m.workers[r].hosted[s].sequence + 1 \in Nat
    BY <1>2
  <2> QED
    BY <1>1, <1>3, <2>1, ShowsIs
<1>6. Sane(v, v.outbox, m.opened)
  <2>1. Sane(w, w.outbox, m.opened)
    BY <1>1 DEF Sound, Sanes
  <2> HIDE DEF w
  <2> QED
    BY <1>1, <1>3, <2>1, DrawerSane DEF w
<1>7. \A t \in DOMAIN m.live : Track(l[t], t, r, v, v.outbox) /\ PlaysAs(t, w, v)
  <2> SUFFICES ASSUME NEW t \in DOMAIN m.live PROVE Track(l[t], t, r, v, v.outbox) /\ PlaysAs(t, w, v)
    OBVIOUS
  <2>1. Track(m.live[t], t, r, w, w.outbox)
    BY <1>1 DEF Sound, Tracks
  <2>2. slot \in Free(m.workers[r].hosted[s])
    BY <1>3
  <2> QED
    BY <1>1, <1>3, <2>1, <2>2, DrawTracks
<1>8. W \in [Kinds -> Worker] /\ W[r] = v /\ \A z \in Kinds : z # r => W[z] = m.workers[z]
  <2> HIDE DEF v
  <2> QED
    BY <1>1, <1>4
<1>9. n = Drew(m, r, v, l)
  BY DEF Drew
<1> HIDE DEF v, l, W
<1>10. n \in MediaType /\ n.live = l /\ n.workers = W /\ Alike(m, n)
  BY <1>1, <1>5, <1>8, LiveWorkersIs
<1> HIDE DEF n
<1>11. Moves(m, n, r)
  BY <1>5, <1>8, <1>10 DEF Moves, Sees
<1>12. MovesWell(m, n, r) /\ Sane(n.workers[r], n.workers[r].outbox, m.opened)
  BY <1>6, <1>7, <1>8, <1>10 DEF MovesWell
<1>13. Good(n, g) /\ Onward(m, n, p, late)
  BY <1>11, <1>12, MovesIs
<1> QED
  BY <1>9, <1>13 DEF v, l, slot

-----------------------------------------------------------------------------
(* The inductive invariant. *)
Inv ==
  /\ silent \subseteq Overlays /\ page \in Pages /\ blank \in BOOLEAN /\ missed \in BOOLEAN
  /\ moves \in 0..MaxMoves /\ generation \in 1..(moves + 1) /\ opened <= MaxOpens
  /\ Good(Media, generation) /\ Parks(Media, page, missed)
  /\ ~missed => Follows(Media, page)

LEMMA BecomesIs ==
  ASSUME NEW m \in MediaType, Becomes(m)
  PROVE  Media' = m /\ opened' <= MaxOpens
<1>1. m = [indexed |-> m.indexed, staging |-> m.staging, sessions |-> m.sessions, parked |-> m.parked, frames |-> m.frames,
           live |-> m.live, workers |-> m.workers, pending |-> m.pending, opened |-> m.opened,
           astray |-> m.astray]
  BY DEF MediaType
<1>2. Media' = [indexed |-> indexed', staging |-> staging', sessions |-> sessions', parked |-> parked', frames |-> frames',
           live |-> live', workers |-> workers', pending |-> pending', opened |-> opened',
           astray |-> astray']
  BY DEF Media
<1> QED
  BY <1>1, <1>2 DEF Becomes

(* What a handler leaves is the state's next record. *)
LEMMA InvNext ==
  ASSUME NEW n, Media' = n, Good(n, generation'), Parks(n, page', missed'), ~missed' => Follows(n, page'),
         opened' <= MaxOpens, silent' \subseteq Overlays, page' \in Pages, blank' \in BOOLEAN, missed' \in BOOLEAN,
         moves' \in 0..MaxMoves, generation' \in 1..(moves' + 1)
  PROVE  Inv'
BY DEF Inv

LEMMA ServicedGood ==
  ASSUME NEW m, NEW p, NEW broken, Good(m, generation), generation \in Nat
  PROVE  LET n == Serviced(m, p, broken) IN
         /\ n \in MediaType /\ Good(n, generation)
         /\ blank => n = m
         /\ ~blank => Follows(n, p) /\ Parks(n, p, FALSE)
<1> DEFINE n == Serviced(m, p, broken)
<1>1. ASSUME blank PROVE n = m
  BY <1>1 DEF Serviced
<1> HIDE DEF n
<1>2. ASSUME ~blank
      PROVE  /\ n \in MediaType /\ Sound(n, Out(n)) /\ Kept(n, generation) /\ Pend(n)
             /\ Follows(n, p) /\ Parks(n, p, FALSE)
  BY <1>2, ServicedIs DEF Good, n
<1>3. Good(n, generation) /\ n \in MediaType
  <2>1. CASE blank
    BY <1>1, <2>1 DEF Good
  <2>2. CASE ~blank
    BY <1>2, <2>2 DEF Good, Parks
  <2> QED
    BY <2>1, <2>2
<1> QED
  BY <1>1, <1>2, <1>3 DEF n

LEMMA ParksAny ==
  ASSUME NEW m, NEW p, NEW late, Parks(m, p, FALSE)
  PROVE  Parks(m, p, late)
BY DEF Parks

LEMMA MovesOn ==
  ASSUME Inv, Move
  PROVE  moves' \in 0..MaxMoves /\ moves' = moves + 1 /\ generation \in 1..(moves' + 1) /\ generation + 1 \in 1..(moves' + 1)
         /\ generation \in Nat \ {0}
<1> USE MediaAssumption
<1> QED
  BY DEF Inv, Move

LEMMA TurnPageInv ==
  ASSUME Inv, NEW p \in Pages, NEW broken, TurnPage(p, broken)
  PROVE  Inv'
<1> DEFINE n == Serviced(Media, p, broken)
<1>1. /\ Move /\ Becomes(n) /\ page' = p /\ missed' = blank /\ generation' = generation /\ blank' = blank
      /\ silent' = silent
  BY DEF TurnPage
<1>2. /\ moves' \in 0..MaxMoves /\ generation' \in 1..(moves' + 1) /\ generation \in Nat
  BY <1>1, MovesOn
<1>3. /\ n \in MediaType /\ Good(n, generation) /\ (blank => n = Media)
      /\ (~blank => Follows(n, p) /\ Parks(n, p, FALSE))
  BY <1>2, ServicedGood DEF Inv
<1> HIDE DEF n
<1>4. Media' = n /\ opened' <= MaxOpens
  BY <1>1, <1>3, BecomesIs
<1>5. Parks(n, p, blank) /\ blank \in BOOLEAN
  <2>1. CASE blank
    BY <1>3, <2>1 DEF Inv, Parks
  <2>2. CASE ~blank
    BY <1>3, <2>2 DEF Parks, Inv
  <2> QED
    BY <2>1, <2>2 DEF Inv
<1> QED
  BY <1>1, <1>2, <1>3, <1>4, <1>5, InvNext DEF Inv

LEMMA RebuildInv ==
  ASSUME Inv, NEW staged \in BOOLEAN, NEW broken, Rebuild(staged, broken)
  PROVE  Inv'
<1> DEFINE k == Rebuilt(Media, generation, staged)
           n == Serviced(k, page, broken)
           late == missed /\ blank
<1>1. /\ Becomes(n) /\ page' = page /\ missed' = late /\ generation' = generation /\ blank' = blank
      /\ silent' = silent /\ (moves' = moves \/ Move)
  <2>1. k = Forgotten(Media, staged)
    BY DEF Rebuilt, Strays, Forgotten
  <2> HIDE DEF k
  <2> QED
    BY <2>1 DEF Rebuild
<1>2. generation \in Nat \ {0} /\ moves' \in 0..MaxMoves /\ generation \in 1..(moves' + 1)
  <2>1. CASE moves' = moves
    BY <2>1, MediaAssumption DEF Inv
  <2>2. CASE Move
    BY <2>2, MovesOn
  <2> QED
    BY <1>1, <2>1, <2>2
<1> HIDE DEF late, k
<1>3. Good(k, generation) /\ Follows(k, page) /\ Parks(k, page, late)
  <2> DEFINE m == Media
             g == generation
  <2>1. /\ m \in MediaType /\ Sound(m, Out(m)) /\ Kept(m, g) /\ Pend(m) /\ g \in Nat \ {0}
    BY <1>2 DEF Inv, Good
  <2>2. k = Rebuilt(m, g, staged)
    BY DEF k
  <2> HIDE DEF m, g
  <2>3. /\ k \in MediaType /\ Sound(k, Out(k)) /\ Kept(k, g) /\ Pend(k)
        /\ Follows(k, page) /\ Parks(k, page, late)
    BY <2>1, <2>2, RebuiltIs
  <2> QED
    BY <2>3 DEF Good, Parks, g
<1>4. /\ n \in MediaType /\ Good(n, generation) /\ (blank => n = k)
      /\ (~blank => Follows(n, page) /\ Parks(n, page, FALSE))
  BY <1>2, <1>3, ServicedGood
<1> HIDE DEF n
<1>5. Media' = n /\ opened' <= MaxOpens
  BY <1>1, <1>4, BecomesIs
<1>6. Follows(n, page) /\ Parks(n, page, late)
  BY <1>3, <1>4, ParksAny
<1>7. late \in BOOLEAN
  BY DEF Inv, late
<1> QED
  BY <1>1, <1>2, <1>4, <1>5, <1>6, <1>7, InvNext DEF Inv

LEMMA RegroupInv ==
  ASSUME Inv, NEW changed \in SUBSET Overlays, NEW broken, Regroup(changed, broken)
  PROVE  Inv'
<1> DEFINE k == Orphaned(Media, changed)
           n == Serviced(k, page, broken)
           late == missed /\ blank
<1>1. /\ Becomes(n) /\ page' = page /\ missed' = late /\ generation' = generation /\ blank' = blank
      /\ silent' = silent /\ Move
  BY DEF Regroup
<1>2. /\ moves' \in 0..MaxMoves /\ generation' \in 1..(moves' + 1) /\ generation \in Nat
  BY <1>1, MovesOn
<1> HIDE DEF late
<1>3. Good(k, generation) /\ (~missed => Follows(k, page)) /\ Parks(k, page, missed)
  <2> DEFINE m == Media
             g == generation
  <2>1. /\ m \in MediaType /\ Sound(m, Out(m)) /\ Kept(m, g) /\ Pend(m) /\ Distinct(m.parked)
        /\ Parks(m, page, missed) /\ (~missed => Follows(m, page))
    BY DEF Inv, Good
  <2>2. k = Orphaned(m, changed)
    OBVIOUS
  <2> HIDE DEF m, g, k
  <2>3. /\ k \in MediaType /\ Sound(k, Out(k)) /\ Kept(k, g) /\ Pend(k) /\ Distinct(k.parked)
        /\ (Follows(m, page) => Follows(k, page)) /\ (Parks(m, page, missed) => Parks(k, page, missed))
    BY <2>1, <2>2, OrphanedIs
  <2> QED
    BY <2>1, <2>3 DEF Good, g
<1> HIDE DEF k
<1>4. /\ n \in MediaType /\ Good(n, generation) /\ (blank => n = k)
      /\ (~blank => Follows(n, page) /\ Parks(n, page, FALSE))
  BY <1>2, <1>3, ServicedGood
<1> HIDE DEF n
<1>5. Media' = n /\ opened' <= MaxOpens
  BY <1>1, <1>4, BecomesIs
<1>6. late \in BOOLEAN /\ (~late => Follows(n, page)) /\ Parks(n, page, late)
  <2>1. CASE blank
    BY <1>3, <1>4, <2>1 DEF Inv, late
  <2>2. CASE ~blank
    BY <1>4, <2>2, ParksAny DEF Inv, late
  <2> QED
    BY <2>1, <2>2 DEF Inv
<1> QED
  BY <1>1, <1>2, <1>4, <1>5, <1>6, InvNext DEF Inv

LEMMA StillInv ==
  ASSUME Inv, Media' = Media
  PROVE  opened' <= MaxOpens
BY DEF Inv, Media

LEMMA BlankInv ==
  ASSUME Inv, Blank
  PROVE  Inv'
<1>1. Media' = Media /\ Move /\ blank' = ~blank /\ page' = page /\ missed' = missed /\ generation' = generation /\ silent' = silent
  BY DEF Blank, Media
<1>2. /\ moves' \in 0..MaxMoves /\ generation' \in 1..(moves' + 1)
  BY <1>1, MovesOn
<1> DEFINE n == Media
<1>3. Good(n, generation) /\ Parks(n, page, missed) /\ (~missed => Follows(n, page)) /\ Media' = n
  BY <1>1 DEF Inv
<1>4. opened' <= MaxOpens
  BY <1>1, StillInv
<1> HIDE DEF n
<1> QED
  BY <1>1, <1>2, <1>3, <1>4, InvNext DEF Inv

LEMMA ReloadInv ==
  ASSUME Inv, Reload
  PROVE  Inv'
<1>1. Media' = Media /\ Move /\ blank' = blank /\ page' = page /\ missed' = missed /\ silent' = silent
      /\ generation' = generation + 1
  BY DEF Reload, Media
<1>2. /\ moves' \in 0..MaxMoves /\ generation' \in 1..(moves' + 1) /\ generation \in Nat
  BY <1>1, MovesOn
<1> DEFINE n == Media
           g == generation
<1>3. Good(n, g) /\ Parks(n, page, missed) /\ (~missed => Follows(n, page)) /\ Media' = n
  BY <1>1 DEF Inv
<1>4. opened' <= MaxOpens
  BY <1>1, StillInv
<1>5. g \in Nat /\ generation' = g + 1
  BY <1>1, <1>2
<1> HIDE DEF n, g
<1>6. Kept(n, g + 1)
  <2>1. n.indexed \in Nat /\ \A s \in DOMAIN n.live : n.live[s].generation \in Nat
    BY <1>3, MediaIs, PartialIs, PlayingIs DEF Good
  <2>2. n.indexed <= g + 1 /\ \A s \in DOMAIN n.live : n.live[s].generation # g + 1 /\ n.live[s].generation <= n.indexed
    BY <1>3, <1>5, <2>1 DEF Good, Kept, OneAge
  <2> QED
    BY <1>3, <2>2 DEF Good, Kept, Owned, Adopted, OneAge
<1>7. Good(n, generation')
  BY <1>3, <1>5, <1>6 DEF Good
<1> QED
  BY <1>1, <1>2, <1>3, <1>4, <1>7, InvNext DEF Inv
(* Poll and PollLate leave the page, the blanking and the generation. *)
Unmoved ==
  /\ silent' = silent /\ page' = page /\ blank' = blank /\ generation' = generation /\ missed' = missed
  /\ moves' = moves

LEMMA UnmovedInv ==
  ASSUME Inv, Unmoved, NEW n, Media' = n, Good(n, generation), Onward(Media, n, page, missed), opened' <= MaxOpens
  PROVE  Inv'
<1>1. /\ silent' \subseteq Overlays /\ page' \in Pages /\ blank' \in BOOLEAN /\ missed' \in BOOLEAN
      /\ moves' \in 0..MaxMoves /\ generation' \in 1..(moves' + 1)
  BY DEF Inv, Unmoved
<1>2. Good(n, generation') /\ Parks(n, page', missed') /\ (~missed' => Follows(n, page'))
  BY DEF Inv, Unmoved, Onward
<1> QED
  BY <1>1, <1>2, InvNext

LEMMA GenerationIs ==
  ASSUME Inv
  PROVE  generation \in Nat /\ generation \in Nat \ {0}
<1> USE MediaAssumption
<1> QED
  BY DEF Inv

LEMMA PollInv ==
  ASSUME Inv, NEW r \in Kinds, NEW k \in 0..Len(workers[r].outbox), NEW broken, Poll(r, k, broken)
  PROVE  Inv'
<1>1. PICK d \in {IF Gone(r, k) THEN [Drained(r, k) EXCEPT !.workers[r] = NoWorker] ELSE Drained(r, k)} :
        \E m \in {AllRecovered(d, Casualties(r, k), broken)} : Becomes(SessionsFailed(m))
  BY Zenon DEF Poll
<1>2. Unmoved
  BY DEF Poll, Unmoved
<1> DEFINE n == SessionsFailed(AllRecovered(d, Casualties(r, k), broken))
<1>3. Becomes(n)
  BY <1>1
<1>4. Good(Media, generation) /\ generation \in Nat
  BY GenerationIs DEF Inv
<1>5. d = IF Gone(r, k) THEN [Drained(r, k) EXCEPT !.workers[r] = NoWorker] ELSE Drained(r, k)
  BY <1>1
<1>6. Good(n, generation) /\ Onward(Media, n, page, missed)
  BY <1>4, <1>5, PollIs
<1> HIDE DEF n
<1>7. n \in MediaType
  BY <1>6 DEF Good
<1>8. Media' = n /\ opened' <= MaxOpens
  BY <1>3, <1>7, BecomesIs
<1> QED
  BY <1>2, <1>6, <1>8, UnmovedInv

(* One session is recovered. *)
LEMMA LateIs ==
  ASSUME NEW m, NEW s \in Nat, NEW error, NEW broken, NEW g \in Nat, NEW p, NEW late, Good(m, g)
  PROVE  LET n == SessionsFailed(Recovered(m, s, error, broken)) IN
         Good(n, g) /\ Onward(m, n, p, late)
<1> DEFINE a == Recovered(m, s, error, broken)
           n == SessionsFailed(a)
<1>1. m \in MediaType /\ Sound(m, Out(m)) /\ Kept(m, g) /\ Reported(m, g) /\ Distinct(m.parked)
  BY DEF Good, Pend, Reported, Gone1
<1>2. a \in MediaType /\ Sound(a, Out(a))
  BY <1>1, RecoveredSound
<1>3. /\ a.sessions = m.sessions /\ a.parked = m.parked /\ Kept(a, g) /\ Reported(a, g)
  BY <1>1, RecoveredKept
<1>4. Firsts(m, a)
  BY <1>1, RecoveredFirsts
<1> HIDE DEF a
<1>5. Distinct(a.parked)
  BY <1>1, <1>3
<1>6. /\ n \in MediaType /\ Sound(n, Out(n)) /\ Kept(n, g) /\ Pend(n) /\ Distinct(n.parked)
      /\ (Follows(a, p) => Follows(n, p)) /\ (Parks(a, p, late) => Parks(n, p, late))
  BY <1>2, <1>3, <1>5, FailedIs
<1> HIDE DEF n
<1>7. Follows(m, p) => Follows(a, p)
  <2> SUFFICES ASSUME Follows(m, p) PROVE Follows(a, p)
    OBVIOUS
  <2>1. 0 \notin DOMAIN a.live
    BY <1>2 DEF Sound, Counted
  <2> QED
    BY <1>1, <1>2, <1>3, <1>4, <2>1, FollowsOn
<1>8. Parks(m, p, late) => Parks(a, p, late)
  BY <1>3 DEF Parks
<1> QED
  BY <1>6, <1>7, <1>8 DEF Good, Onward, n, a

LEMMA PollLateInv ==
  ASSUME Inv, NEW s \in DOMAIN live, NEW broken, PollLate(s, broken)
  PROVE  Inv'
<1> DEFINE n == SessionsFailed(Recovered(Media, s, "TimedOut", broken))
<1>1. Becomes(n)
  BY DEF PollLate
<1>2. Unmoved
  BY DEF PollLate, Unmoved
<1>3. Good(Media, generation) /\ generation \in Nat
  BY GenerationIs DEF Inv
<1>4. s \in Nat
  <2>1. Media.live = live /\ Media \in MediaType
    BY <1>3 DEF Media, Good
  <2> QED
    BY <2>1, MediaIs, PartialIs
<1>5. Good(n, generation) /\ Onward(Media, n, page, missed)
  BY <1>3, <1>4, LateIs
<1> HIDE DEF n
<1>6. n \in MediaType
  BY <1>5 DEF Good
<1>7. Media' = n /\ opened' <= MaxOpens
  BY <1>1, <1>6, BecomesIs
<1> QED
  BY <1>2, <1>5, <1>7, UnmovedInv

(* A worker's step: its own state, and the memory of a ring. *)
LEMMA PlayedInv ==
  ASSUME Inv, UNCHANGED Rest, NEW n, Good(n, generation), Onward(Media, n, page, missed),
         n = [Media EXCEPT !.live = live', !.workers = workers']
  PROVE  Inv'
<1>1. Unmoved /\ opened' = opened
  BY DEF Rest, Unmoved
<1>2. Media' = n
  BY DEF Rest, Media
<1>3. opened' <= MaxOpens
  BY <1>1 DEF Inv
<1> QED
  BY <1>1, <1>2, <1>3, UnmovedInv

LEMMA WorkersTyped ==
  ASSUME Inv
  PROVE  workers \in [Kinds -> Worker] /\ live \in Partial(Playing) /\ Media.workers = workers /\ Media.live = live
<1>1. Media \in MediaType /\ Media.workers = workers /\ Media.live = live
  BY DEF Inv, Good, Media
<1> QED
  BY <1>1, MediaIs

LEMMA SwappedInv ==
  ASSUME Inv, UNCHANGED Rest, live' = live, NEW r \in Kinds, NEW v, workers' = [workers EXCEPT ![r] = v],
         Good(Swapped(Media, r, v), generation), Onward(Media, Swapped(Media, r, v), page, missed)
  PROVE  Inv'
<1> DEFINE W == [workers EXCEPT ![r] = v]
<1>1. Media.workers = workers /\ Media.live = live /\ Media \in MediaType
  BY WorkersTyped DEF Inv, Good
<1>2. Swapped(Media, r, v) = [Media EXCEPT !.workers = W]
  BY <1>1 DEF Swapped
<1> HIDE DEF W
<1>3. [Media EXCEPT !.workers = W] = [Media EXCEPT !.live = live, !.workers = W]
  <2> DEFINE m == Media
  <2>1. m \in MediaType /\ m.live = live
    BY <1>1
  <2> HIDE DEF m
  <2>2. [m EXCEPT !.workers = W] = [m EXCEPT !.live = m.live, !.workers = W]
    BY <2>1 DEF MediaType
  <2> QED
    BY <2>1, <2>2 DEF m
<1>4. Swapped(Media, r, v) = [Media EXCEPT !.live = live', !.workers = workers']
  BY <1>2, <1>3 DEF W
<1> QED
  BY <1>4, PlayedInv

LEMMA DiesInv ==
  ASSUME Inv, NEW r \in Kinds, Dies(r)
  PROVE  Inv'
<1> DEFINE v == [workers[r] EXCEPT !.alive = FALSE, !.inbox = <<>>, !.hosted = Nobody]
<1>1. UNCHANGED Rest /\ live' = live /\ workers' = [workers EXCEPT ![r] = v]
  BY DEF Dies
<1>2. Good(Swapped(Media, r, v), generation) /\ Onward(Media, Swapped(Media, r, v), page, missed)
  <2>1. Good(Media, generation) /\ v = [Media.workers[r] EXCEPT !.alive = FALSE, !.inbox = <<>>, !.hosted = Nobody]
    BY WorkersTyped DEF Inv
  <2> HIDE DEF v
  <2> QED
    BY <2>1, DiesIs
<1> HIDE DEF v
<1> QED
  BY <1>1, <1>2, SwappedInv

LEMMA PumpInv ==
  ASSUME Inv, NEW r \in Kinds, NEW s \in DOMAIN workers[r].hosted, NEW error \in PumpErrors,
         PumpFails(r, s, error)
  PROVE  Inv'
<1> DEFINE w == workers[r]
           v == Says([w EXCEPT !.hosted = Without(w.hosted, {s})], FailedEvent(s, error))
<1>1. UNCHANGED Rest /\ live' = live /\ workers' = [workers EXCEPT ![r] = v]
  BY DEF PumpFails
<1>2. Good(Swapped(Media, r, v), generation) /\ Onward(Media, Swapped(Media, r, v), page, missed)
  <2>1. /\ Good(Media, generation) /\ Media.workers[r] = w /\ s \in DOMAIN Media.workers[r].hosted
    BY WorkersTyped DEF Inv
  <2>2. v = Says([Media.workers[r] EXCEPT !.hosted = Without(Media.workers[r].hosted, {s})], FailedEvent(s, error))
    BY <2>1
  <2> HIDE DEF v, w
  <2> QED
    BY <2>1, <2>2, PumpIs
<1> HIDE DEF v
<1> QED
  BY <1>1, <1>2, SwappedInv

LEMMA ServeInv ==
  ASSUME Inv, NEW r \in Kinds, NEW error \in OpenErrors \cup {"none"}, Serve(r, error)
  PROVE  Inv'
<1> DEFINE w == workers[r]
           v == Answered([w EXCEPT !.inbox = Tail(w.inbox)], Head(w.inbox), error)
<1>1. /\ UNCHANGED Rest /\ live' = live /\ workers' = [workers EXCEPT ![r] = v]
      /\ w.inbox # <<>> /\ (error # "none" => Head(w.inbox).kind = "Open")
  BY DEF Serve
<1>2. Good(Swapped(Media, r, v), generation) /\ Onward(Media, Swapped(Media, r, v), page, missed)
  <2>1. /\ Good(Media, generation) /\ Media.workers[r] = w
        /\ Media.workers[r].inbox # <<>> /\ (error # "none" => Head(Media.workers[r].inbox).kind = "Open")
    BY <1>1, WorkersTyped DEF Inv
  <2>2. v = Answered([Media.workers[r] EXCEPT !.inbox = Tail(Media.workers[r].inbox)],
                     Head(Media.workers[r].inbox), error)
    BY <2>1
  <2> HIDE DEF v, w
  <2> QED
    BY <2>1, <2>2, ServeIs
<1> HIDE DEF v, w
<1> QED
  BY <1>1, <1>2, SwappedInv

LEMMA DrawInv ==
  ASSUME Inv, NEW r \in Kinds, NEW s \in DOMAIN workers[r].hosted, Draw(r, s)
  PROVE  Inv'
<1> DEFINE w == workers[r]
           at == w.hosted[s]
           slot == Claimed(at)
           v == Drawer(w, s, slot)
           l == Shows(Media, r, s, slot)
           n == Drew(Media, r, v, l)
<1>1. Good(Media, generation) /\ Media.workers = workers /\ Media.live = live /\ workers \in [Kinds -> Worker]
  BY WorkersTyped DEF Inv
<1>2. UNCHANGED Rest /\ Free(at) # {} /\ at.sequence < at.count
  BY DEF Draw
<1>3. Good(n, generation) /\ Onward(Media, n, page, missed)
  <2>1. /\ s \in DOMAIN Media.workers[r].hosted /\ Free(Media.workers[r].hosted[s]) # {}
        /\ Media.workers[r].hosted[s].sequence < Media.workers[r].hosted[s].count
    BY <1>1, <1>2
  <2>2. n = Drew(Media, r, Drawer(Media.workers[r], s, Claimed(Media.workers[r].hosted[s])),
                 Shows(Media, r, s, Claimed(Media.workers[r].hosted[s])))
    BY <1>1
  <2> HIDE DEF n
  <2> QED
    BY <1>1, <2>1, <2>2, DrawIs
<1>4. workers' = [workers EXCEPT ![r] = v]
  <2>1. workers' = [workers EXCEPT
          ![r].hosted[s] = [at EXCEPT !.sequence = at.sequence + 1, !.next = (slot + 1) % Slots,
                              !.held = at.held \cup {[slot |-> slot, sequence |-> at.sequence + 1]}],
          ![r].outbox = Append(w.outbox, [kind |-> "FrameReady", session |-> s, sequence |-> at.sequence + 1, slot |-> slot])]
    BY DEF Draw
  <2> HIDE DEF slot
  <2> QED
    BY <1>1, <2>1 DEF Drawer, Drawn, Announcement
<1>5. live' = l
  <2>1. live' = IF s \in DOMAIN live /\ live[s].runtime = r /\ live[s].restarts = at.restarts
                THEN [live EXCEPT ![s].memory[slot] = at.sequence + 1] ELSE live
    BY DEF Draw
  <2> HIDE DEF slot
  <2> QED
    BY <1>1, <2>1 DEF Shows, Sees
<1>6. n = [Media EXCEPT !.live = live', !.workers = workers']
  BY <1>1, <1>4, <1>5 DEF Drew
<1> HIDE DEF n
<1> QED
  BY <1>2, <1>3, <1>6, PlayedInv
-----------------------------------------------------------------------------
(* Nothing is open when the program starts. *)
LEMMA InitMedia ==
  ASSUME Init
  PROVE  Media \in MediaType
<1> USE MediaAssumption
<1> DEFINE S == [o \in Overlays |-> 0]
           F == [o \in Overlays |-> NoFrame]
           W == [r \in Kinds |-> NoWorker]
           P == <<>>
           l == Nobody
<1>1. S \in [Overlays -> Nat]
  OBVIOUS
<1>2. F \in [Overlays -> Frame]
  <2>1. NoFrame \in Frame
    BY DEF NoFrame, Frame, Zeroes
  <2> QED
    BY <2>1
<1>3. W \in [Kinds -> Worker]
  <2>1. NoWorker \in Worker
    BY NobodyIs DEF NoWorker, Worker
  <2> QED
    BY <2>1
<1>4. P \in Seq(Overlays) /\ l \in Partial(Playing)
  BY NobodyIs
<1>5. Media = [indexed |-> 0, staging |-> FALSE, sessions |-> S, parked |-> P, frames |-> F, live |-> l, workers |-> W,
               pending |-> {}, opened |-> 0, astray |-> {}]
  BY DEF Init, Media
<1> HIDE DEF S, F, W, P, l
<1> QED
  BY <1>1, <1>2, <1>3, <1>4, <1>5 DEF MediaType

LEMMA InitInv == Init => Inv
<1> SUFFICES ASSUME Init PROVE Inv
  OBVIOUS
<1> DEFINE m == Media
<1>1. m \in MediaType
  BY InitMedia
<1>2. /\ m.indexed = 0 /\ m.parked = <<>> /\ m.live = Nobody /\ m.pending = {} /\ m.opened = 0
      /\ m.sessions = [o \in Overlays |-> 0] /\ m.frames = [o \in Overlays |-> NoFrame]
      /\ m.workers = [r \in Kinds |-> NoWorker]
  BY DEF Init, Media
<1>3. /\ silent \subseteq Overlays /\ page = 1 /\ blank = FALSE /\ generation = 1 /\ missed = FALSE /\ moves = 0
      /\ opened = 0
  BY DEF Init
<1> HIDE DEF m
<1>4. DOMAIN m.live = {}
  BY <1>2, NobodyIs
<1>5. \A r \in Kinds : m.workers[r].hosted = Nobody /\ m.workers[r].inbox = <<>> /\ m.workers[r].outbox = <<>>
        /\ m.workers[r].alive = FALSE
  BY <1>2 DEF NoWorker
<1>6. Counted(m)
  BY <1>2, <1>4 DEF Counted
<1>7. Sanes(m, Out(m))
  <2> SUFFICES ASSUME NEW r \in Kinds PROVE Sane(m.workers[r], m.workers[r].outbox, m.opened)
    BY DEF Sanes, Out
  <2>1. DOMAIN Nobody = {}
    BY NobodyIs
  <2> QED
    BY <1>5, <2>1 DEF Sane
<1>8. Tracks(m, Out(m))
  BY <1>4 DEF Tracks
<1>9. Whole(m)
  BY <1>2 DEF Whole, NoFrame
<1>10. Kept(m, 1)
  BY <1>2, <1>4 DEF Kept, Owned, Adopted, OneAge
<1>11. Pend(m) /\ Distinct(m.parked)
  BY <1>2 DEF Pend, Distinct
<1>12. Parks(m, page, missed) /\ Follows(m, page)
  BY <1>2, <1>4, <1>11, MediaAssumption DEF Parks, Follows
<1>13. Good(m, generation)
  BY <1>1, <1>3, <1>6, <1>7, <1>8, <1>9, <1>10, <1>11 DEF Good, Sound
<1>14. /\ silent \subseteq Overlays /\ page \in Pages /\ moves \in 0..MaxMoves /\ generation \in 1..(moves + 1)
       /\ opened <= MaxOpens
  <2> USE MediaAssumption
  <2> QED
    BY <1>3
<1>15. blank \in BOOLEAN /\ missed \in BOOLEAN
  BY <1>3
<1> QED
  BY <1>12, <1>13, <1>14, <1>15 DEF Inv, m

LEMMA PlaysInv ==
  ASSUME Inv, NEW r \in Kinds, Plays(r)
  PROVE  Inv'
<1>1. ASSUME NEW error \in OpenErrors \cup {"none"}, Serve(r, error) PROVE Inv'
  BY <1>1, ServeInv
<1>2. ASSUME NEW s \in DOMAIN workers[r].hosted, Draw(r, s) PROVE Inv'
  BY <1>2, DrawInv
<1>3. ASSUME NEW s \in DOMAIN workers[r].hosted, NEW error \in PumpErrors, PumpFails(r, s, error) PROVE Inv'
  BY <1>3, PumpInv
<1>4. ASSUME Dies(r) PROVE Inv'
  BY <1>4, DiesInv
<1> QED
  BY <1>1, <1>2, <1>3, <1>4, Zenon DEF Plays

LEMMA HandlesInv ==
  ASSUME Inv, Handles
  PROVE  Inv'
<1>1. PICK broken \in Broken :
        \/ \E p \in Pages : TurnPage(p, broken)
        \/ \E staged \in BOOLEAN : Rebuild(staged, broken)
        \/ \E changed \in SUBSET Overlays : Regroup(changed, broken)
        \/ \E r \in Kinds : \E k \in 0..Len(workers[r].outbox) : Poll(r, k, broken)
        \/ \E s \in DOMAIN live : PollLate(s, broken)
  BY Zenon DEF Handles
<1>2. ASSUME NEW p \in Pages, TurnPage(p, broken) PROVE Inv'
  BY <1>2, TurnPageInv
<1>3. ASSUME NEW staged \in BOOLEAN, Rebuild(staged, broken) PROVE Inv'
  BY <1>3, RebuildInv
<1>4. ASSUME NEW changed \in SUBSET Overlays, Regroup(changed, broken) PROVE Inv'
  BY <1>4, RegroupInv
<1>5. ASSUME NEW r \in Kinds, NEW k \in 0..Len(workers[r].outbox), Poll(r, k, broken) PROVE Inv'
  BY <1>5, PollInv
<1>6. ASSUME NEW s \in DOMAIN live, PollLate(s, broken) PROVE Inv'
  BY <1>6, PollLateInv
<1> QED
  BY <1>1, <1>2, <1>3, <1>4, <1>5, <1>6, Zenon

LEMMA NextInv == Inv /\ [Next]_vars => Inv'
<1> SUFFICES ASSUME Inv, [Next]_vars PROVE Inv'
  OBVIOUS
<1>1. CASE Handles
  BY <1>1, HandlesInv
<1>2. CASE Blank
  BY <1>2, BlankInv
<1>3. CASE Reload
  BY <1>3, ReloadInv
<1>4. ASSUME NEW r \in Kinds, Plays(r) PROVE Inv'
  BY <1>4, PlaysInv
<1>5. CASE UNCHANGED vars
  <2>1. Media' = Media /\ Unmoved
    BY <1>5 DEF vars, Media, Unmoved
  <2>2. opened' <= MaxOpens
    BY <2>1, StillInv
  <2> DEFINE n == Media
  <2>3. Good(n, generation) /\ Onward(Media, n, page, missed) /\ Media' = n
    BY <2>1 DEF Inv, Onward
  <2> HIDE DEF n
  <2> QED
    BY <2>1, <2>2, <2>3, UnmovedInv
<1> QED
  BY <1>1, <1>2, <1>3, <1>4, <1>5, Zenon DEF Next

(* Every session has the ring its worker draws in, with each slot that is   *)
(* held announced or on its way back; every overlay's entry is a session of *)
(* its own, and a session of the shown document is its overlay's entry but  *)
(* for the overlays that NoOrphan names; and what a worker was last told of *)
(* a session is what the page asks for.                                     *)
THEOREM SessionsSound == Spec => []Inv
  BY InitInv, NextInv, PTL DEF Spec
-----------------------------------------------------------------------------
(* What the invariant says, in the words of the properties. *)

LEMMA SlotsAreFinite == IsFiniteSet(SlotIds) /\ Cardinality(SlotIds) = Slots
<1> DEFINE a == 0
           b == Slots - 1
<1>1. a \in Int /\ b \in Int /\ b - a + 1 = Slots /\ ~(a > b)
  BY MediaAssumption
<1>2. SlotIds = a..b
  BY DEF SlotIds
<1> HIDE DEF a, b
<1> QED
  BY <1>1, <1>2, FS_Interval

(* A worker holds back no more than there are slots. *)
LEMMA HeldFits ==
  ASSUME NEW w \in Worker, NEW q, NEW k, Sane(w, q, k), NEW s \in DOMAIN w.hosted
  PROVE  Cardinality(w.hosted[s].held) <= Slots
<1> DEFINE H == w.hosted[s].held
           f == [h \in H |-> h.slot]
<1>1. w.hosted[s] \in Ring
  BY WorkerIs, PartialIs
<1>2. \A h \in H : h.slot \in SlotIds
  <2>1. H \subseteq Held
    BY <1>1 DEF Ring
  <2> QED
    BY <2>1 DEF Held
<1>3. \A h, j \in H : h.slot = j.slot => h = j
  BY DEF Sane
<1> HIDE DEF H
<1>4. f \in [H -> SlotIds] /\ \A h, j \in H : f[h] = f[j] => h = j
  BY <1>2, <1>3
<1> HIDE DEF f
<1>5. f \in Injection(H, SlotIds)
  BY <1>4 DEF Injection, IsInjective
<1>6. Cardinality(H) <= Cardinality(SlotIds)
  BY <1>5, FS_Injection, SlotsAreFinite
<1> QED
  BY <1>6, SlotsAreFinite DEF H

(* The supervisor's and the coordinator's books. *)
LEMMA BooksTyped ==
  ASSUME NEW m, NEW g \in Nat, NEW p, NEW late, Good(m, g), Parks(m, p, late)
  PROVE  /\ m.indexed \in 0..g /\ m.opened \in Nat /\ m.sessions \in [Overlays -> 0..m.opened]
         /\ IsInjective(m.parked) /\ Len(m.parked) <= MaxParked
         /\ \A o \in Range(m.parked) : m.sessions[o] # 0 /\ (o \in OnPage(m, p) => late)
         /\ DOMAIN m.live \subseteq 1..m.opened /\ m.pending \subseteq Overlays /\ m.astray \subseteq Overlays
<1>1. m \in MediaType /\ Counted(m) /\ OneAge(m, g)
  BY DEF Good, Sound, Kept
<1>2. /\ m.indexed \in Nat /\ m.sessions \in [Overlays -> Nat] /\ m.parked \in Seq(Overlays) /\ m.opened \in Nat
      /\ m.pending \subseteq Overlays /\ m.astray \subseteq Overlays
  BY <1>1, MediaIs
<1>3. m.indexed \in 0..g /\ DOMAIN m.live \subseteq 1..m.opened
  BY <1>1, <1>2 DEF OneAge, Counted
<1>4. m.sessions \in [Overlays -> 0..m.opened]
  <2>1. \A o \in Overlays : m.sessions[o] \in 0..m.opened
    BY <1>1, <1>2 DEF Counted
  <2> QED
    BY <1>2, <2>1
<1>5. IsInjective(m.parked)
  BY <1>2 DEF Parks, Distinct, IsInjective
<1>6. ASSUME NEW o \in Range(m.parked) PROVE m.sessions[o] # 0 /\ (o \in OnPage(m, p) => late)
  <2>1. PICK i \in 1..Len(m.parked) : o = m.parked[i]
    BY <1>2, <1>6 DEF Range
  <2>2. o \in OnPage(m, p) => PageOf[o] = p
    BY DEF OnPage
  <2> QED
    BY <2>1, <2>2 DEF Parks
<1> QED
  BY <1>2, <1>3, <1>4, <1>5, <1>6 DEF Parks

(* The sessions and the workers. *)
LEMMA LiveTyped ==
  ASSUME NEW m, NEW g, Good(m, g), NEW s \in DOMAIN m.live
  PROVE  m.live[s].restarts \in 0..MaxRestarts /\ m.live[s].last \in 0..FrameCount[m.live[s].overlay]
<1>1. m \in MediaType /\ Tracks(m, Out(m))
  BY DEF Good, Sound
<1>2. m.live[s] \in Playing
  BY <1>1, MediaIs, PartialIs
<1>3. /\ m.live[s].overlay \in Overlays /\ m.live[s].runtime \in Kinds /\ m.live[s].restarts \in 0..MaxRestarts
      /\ m.live[s].last \in Nat
  BY <1>2, PlayingIs
<1>4. m.live[s].last <= FrameCount[m.live[s].overlay]
  BY <1>1, <1>3 DEF Tracks, Track, Within
<1>5. FrameCount[m.live[s].overlay] \in Nat
  BY <1>3, MediaAssumption
<1> QED
  BY <1>3, <1>4, <1>5

LEMMA WorkerTyped ==
  ASSUME NEW m, NEW g, Good(m, g), NEW r \in Kinds
  PROVE  /\ m.workers[r].alive => m.workers[r].known
         /\ ~m.workers[r].alive => m.workers[r].hosted = Nobody /\ m.workers[r].inbox = <<>>
         /\ \A s \in DOMAIN m.workers[r].hosted : Cardinality(m.workers[r].hosted[s].held) <= Slots
<1>1. m.workers[r] \in Worker /\ Sane(m.workers[r], Out(m)[r], m.opened)
  BY MediaIs DEF Good, Sound, Sanes
<1>2. \A s \in DOMAIN m.workers[r].hosted : Cardinality(m.workers[r].hosted[s].held) <= Slots
  BY <1>1, HeldFits
<1> QED
  BY <1>1, <1>2 DEF Sane

LEMMA InvTypeOK == Inv => TypeOK
<1> SUFFICES ASSUME Inv PROVE TypeOK
  OBVIOUS
<1> DEFINE m == Media
<1>1. /\ m.indexed = indexed /\ m.sessions = sessions /\ m.parked = parked /\ m.live = live /\ m.workers = workers
      /\ m.pending = pending /\ m.opened = opened /\ m.astray = astray /\ m.staging = staging
  BY DEF Media
<1>2. Good(m, generation) /\ Parks(m, page, missed) /\ generation \in Nat
  BY GenerationIs DEF Inv
<1>3. /\ silent \subseteq Overlays /\ page \in Pages /\ generation \in 1..(MaxMoves + 1) /\ opened <= MaxOpens
  <2> USE MediaAssumption
  <2> QED
    BY DEF Inv
<1>4. {blank, missed, staging} \subseteq BOOLEAN
  BY <1>1, MediaIs DEF Inv, Good
<1>5. \A o \in Range(parked) : sessions[o] # 0 /\ (o \in OnPage(Media, page) => missed)
  <2> HIDE DEF m
  <2>1. \A o \in Range(m.parked) : m.sessions[o] # 0 /\ (o \in OnPage(m, page) => missed)
    BY <1>2, BooksTyped
  <2> QED
    BY <1>1, <2>1 DEF m
<1> HIDE DEF m
<1>6. /\ indexed \in 0..generation /\ opened \in Nat /\ sessions \in [Overlays -> 0..opened] /\ IsInjective(parked)
      /\ Len(parked) <= MaxParked /\ DOMAIN live \subseteq 1..opened /\ pending \subseteq Overlays
      /\ astray \subseteq Overlays
  BY <1>1, <1>2, BooksTyped
<1>7. opened \in 0..MaxOpens
  BY <1>3, <1>6, MediaAssumption
<1>8. \A s \in DOMAIN live :
        live[s].restarts \in 0..MaxRestarts /\ live[s].last \in 0..FrameCount[live[s].overlay]
  BY <1>1, <1>2, LiveTyped
<1>9. \A r \in Kinds :
        /\ workers[r].alive => workers[r].known
        /\ ~workers[r].alive => workers[r].hosted = Nobody /\ workers[r].inbox = <<>>
        /\ \A s \in DOMAIN workers[r].hosted : Cardinality(workers[r].hosted[s].held) <= Slots
  BY <1>1, <1>2, WorkerTyped
<1> QED
  BY <1>3, <1>4, <1>5, <1>6, <1>7, <1>8, <1>9 DEF TypeOK

(* Places of a sequence of which there is at most one. *)
LEMMA AtMostOne ==
  ASSUME NEW S, \A i, j \in S : i = j
  PROVE  Cardinality(S) = IF S = {} THEN 0 ELSE 1
<1>1. CASE S = {}
  BY <1>1, FS_EmptySet
<1>2. CASE S # {}
  <2>1. PICK i \in S : TRUE
    BY <1>2
  <2>2. S = {i}
    BY <2>1
  <2> QED
    BY <1>2, <2>2, FS_Singleton
<1> QED
  BY <1>1, <1>2

LEMMA ReturnsIs ==
  ASSUME NEW p \in Seq(Requests), NEW s, NEW h, NEW i \in DOMAIN p
  PROVE  p[i] = ReleaseRequest([session |-> s, slot |-> h.slot, sequence |-> h.sequence]) <=> Returns(p, s, h, i)
<1> DEFINE a == p[i]
<1>1. a \in Requests
  BY ElementOfSeq
<1> HIDE DEF a
<1>2. a.kind = "ReleaseFrame" =>
        a = [kind |-> "ReleaseFrame", session |-> a.session, slot |-> a.slot, sequence |-> a.sequence]
  BY <1>1 DEF Requests, OpenKind, CloseKind, ActiveKind, ReleaseKind
<1>3. ReleaseRequest([session |-> s, slot |-> h.slot, sequence |-> h.sequence]) =
        [kind |-> "ReleaseFrame", session |-> s, slot |-> h.slot, sequence |-> h.sequence]
  BY DEF ReleaseRequest
<1>4. Returns(p, s, h, i) <=>
        a.kind = "ReleaseFrame" /\ a.session = s /\ a.slot = h.slot /\ a.sequence = h.sequence
  BY DEF Returns, ReleaseAt, a
<1>5. a = p[i]
  BY DEF a
<1> QED
  BY <1>2, <1>3, <1>4, <1>5

(* A slot that is held is announced or on its way back, once. *)
LEMMA HeldOnce ==
  ASSUME Inv, NEW r \in Kinds, NEW s \in DOMAIN workers[r].hosted, Steady(r, s),
         NEW h \in workers[r].hosted[s].held
  PROVE  Announced(r, s, h) + Returning(r, s, h) = 1
<1> DEFINE m == Media
           w == workers[r]
           q == w.outbox
           p == w.inbox
           A == {i \in DOMAIN q : q[i].kind = "FrameReady" /\ q[i].session = s
                                    /\ q[i].slot = h.slot /\ q[i].sequence = h.sequence}
           B == {i \in DOMAIN p : p[i] = ReleaseRequest([session |-> s, slot |-> h.slot, sequence |-> h.sequence])}
<1>1. /\ m.live = live /\ m.workers = workers /\ w \in Worker /\ Tracks(m, Out(m)) /\ Out(m)[r] = q
  BY WorkersTyped DEF Inv, Good, Sound, Out
<1>2. s \in DOMAIN live /\ live[s].runtime = r /\ ~live[s].relaunched
  BY DEF Steady
<1>3. q \in Seq(Events) /\ p \in Seq(Requests)
  BY <1>1, WorkerIs
<1>4. InOrder(live[s], s, q) /\ Ringed(live[s], s, w, q)
  <2> HIDE DEF m, w, q
  <2>1. Track(live[s], s, r, w, q)
    BY <1>1, <1>2 DEF Tracks, w
  <2> QED
    BY <1>2, <2>1 DEF Track, FirstRun
<1>5. /\ \/ \E i \in 1..Len(q) : Announces(q, s, h, i)
         \/ \E i \in 1..Len(p) : Returns(p, s, h, i)
      /\ \A i, j \in 1..Len(p) : Returns(p, s, h, i) /\ Returns(p, s, h, j) => i = j
      /\ \A i \in 1..Len(q), j \in 1..Len(p) : ~(Announces(q, s, h, i) /\ Returns(p, s, h, j))
  BY <1>4 DEF Ringed
<1>6. \A i, j \in 1..Len(q) : Announces(q, s, h, i) /\ Announces(q, s, h, j) => i = j
  <2> SUFFICES ASSUME NEW i \in 1..Len(q), NEW j \in 1..Len(q), Announces(q, s, h, i), Announces(q, s, h, j)
               PROVE  i = j
    OBVIOUS
  <2>1. FrameAt(q, s, i) /\ FrameAt(q, s, j) /\ q[i].sequence = h.sequence /\ q[j].sequence = h.sequence
    BY DEF Announces
  <2>2. h.sequence \in Nat
    <3>1. w.hosted[s] \in Ring
      BY <1>1, WorkerIs, PartialIs
    <3> QED
      BY <3>1 DEF Ring, Held
  <2>3. ~(i < j) /\ ~(j < i)
    <3>1. i < j => q[i].sequence < q[j].sequence
      BY <1>4, <2>1 DEF InOrder
    <3>2. j < i => q[j].sequence < q[i].sequence
      BY <1>4, <2>1 DEF InOrder
    <3> QED
      BY <2>1, <2>2, <3>1, <3>2
  <2> QED
    BY <1>3, <2>3
<1>7. DOMAIN q = 1..Len(q) /\ DOMAIN p = 1..Len(p)
  BY <1>3
<1>8. A = {i \in DOMAIN q : Announces(q, s, h, i)}
  BY DEF Announces, FrameAt
<1>9. B = {i \in DOMAIN p : Returns(p, s, h, i)}
  BY <1>3, ReturnsIs
<1>10. Announced(r, s, h) = Cardinality(A) /\ Returning(r, s, h) = Cardinality(B)
  BY DEF Announced, Returning
<1> HIDE DEF A, B, p, q, w, m
<1>11. (\A i, j \in A : i = j) /\ (\A i, j \in B : i = j) /\ (A = {} \/ B = {}) /\ (A # {} \/ B # {})
  BY <1>5, <1>6, <1>7, <1>8, <1>9
<1>12. Cardinality(A) = (IF A = {} THEN 0 ELSE 1) /\ Cardinality(B) = (IF B = {} THEN 0 ELSE 1)
  BY <1>11, AtMostOne
<1> QED
  BY <1>10, <1>11, <1>12

LEMMA InvRingSound == Inv => RingSound
<1> SUFFICES ASSUME Inv PROVE RingSound
  OBVIOUS
<1>1. FrameIntact
  BY DEF Inv, Good, Sound, Whole, FrameIntact, Media
<1>2. SlotsComeBack
  BY HeldOnce DEF SlotsComeBack
<1> QED
  BY <1>1, <1>2 DEF RingSound

LEMMA InvFollowsAudience == Inv => FollowsAudience
<1> SUFFICES ASSUME Inv PROVE FollowsAudience
  OBVIOUS
<1>1. NoOrphan
  <2>1. Adopted(Media, generation)
    BY DEF Inv, Good, Kept
  <2> QED
    BY <2>1 DEF Adopted, NoOrphan, Media
<1>2. ASSUME ~missed PROVE PlaysOnPage
  <2> SUFFICES ASSUME NEW r \in Kinds, NEW s \in DOMAIN workers[r].hosted, Steady(r, s),
                      sessions[live[s].overlay] = s,
                      \A i \in DOMAIN workers[r].inbox : workers[r].inbox[i].session # s
               PROVE  workers[r].hosted[s].active = (PageOf[live[s].overlay] = page)
    BY DEF PlaysOnPage
  <2> DEFINE w == workers[r]
             on == PageOf[live[s].overlay] = page
  <2>1. Follows(Media, page)
    BY <1>2 DEF Inv
  <2>2. s \in DOMAIN live /\ live[s].runtime = r /\ ~live[s].relaunched
    BY DEF Steady
  <2>3. PlaysSo(s, w, on)
    BY <2>1, <2>2 DEF Follows, Media
  <2>4. w \in Worker /\ w.inbox \in Seq(Requests) /\ w.hosted[s] \in Ring
    BY WorkersTyped, WorkerIs, PartialIs
  <2> HIDE DEF on
  <2>5. \A i \in 1..Len(w.inbox) : ~Decides(w.inbox, s, i)
    BY <2>4 DEF Decides
  <2>6. w.hosted[s].active <=> on
    BY <2>3, <2>5 DEF PlaysSo
  <2>7. w.hosted[s].active \in BOOLEAN
    BY <2>4 DEF Ring
  <2>8. on \in BOOLEAN
    BY DEF on
  <2>9. w.hosted[s].active = on
    BY <2>6, <2>7, <2>8, Zenon
  <2> QED
    BY <2>9 DEF on
<1> QED
  BY <1>1, <1>2 DEF FollowsAudience

-----------------------------------------------------------------------------
(* Every variable keeps its range in every behaviour: sessions are numbered *)
(* once, parked overlays are distinct, have a session and are bounded, and  *)
(* no worker holds back more frames than its ring has slots.                *)
THEOREM SessionsTyped == Spec => []TypeOK
  BY SessionsSound, InvTypeOK, PTL

(* Whatever order the presenter's window, the workers and their deaths come *)
(* in, no frame on screen is torn by a worker that draws on, and no slot of *)
(* a ring is lost or handed back twice.                                     *)
THEOREM NoTornFrameNoLostSlot == Spec => []RingSound
  BY SessionsSound, InvRingSound, PTL

(* No session of the shown document is orphaned, but for the overlays that  *)
(* NoOrphan names, and what its workers play is what the audience looks at. *)
THEOREM PlaysForTheAudience == Spec => []FollowsAudience
  BY SessionsSound, InvFollowsAudience, PTL
=============================================================================
