------------------------- MODULE EditSessionProofs -------------------------
(***************************************************************************)
(* Editing, for every value of EditSession's constants: every answer is    *)
(* taken for its own edit, no edit is lost from the journal, a journal     *)
(* comes back whole, and the session implements DurableEdits.              *)
(*                                                                         *)
(* No answer names what it answers: the reader takes it for the first edit *)
(* that is pending.  That is right because the mutations on the link,      *)
(* answers before requests, are the pending ones one for one and in order  *)
(* (Linked): the n-th place of one is the n-th of the other, which is why  *)
(* the first part counts along queues (UpTo).  What was closed or crashed  *)
(* says nothing more (Closed).  The journal's entries go up in revision    *)
(* (Ordered), and while the journal covers the session it holds the whole  *)
(* log (Recorded).                                                         *)
(*                                                                         *)
(* A restore comes back whole because no edit of a journal can be refused. *)
(* Its erasures are of marks that were there: a mark is erased once, for   *)
(* its name is given once (Named), and it is not erased again before it is *)
(* restored, neither in what the worker has done nor in what a journal     *)
(* holds of it (Erasures).  Posted one behind the other before the first   *)
(* is answered, they name the revisions they meet, since nothing else is   *)
(* on the link but copies; so the worker goes through the documents the    *)
(* journal makes, one edit at a time, and has as many left to go through   *)
(* as there are requests (Replaying).                                      *)
(***************************************************************************)
EXTENDS EditSession, FiniteSetTheorems, SequenceTheorems, WellFoundedInduction, TLAPS

(***************************************************************************)
(* Counting along a queue.                                                 *)
(***************************************************************************)
LEMMA UpToType ==
  ASSUME NEW n \in Nat, NEW S \in SUBSET (1..n)
  PROVE  /\ IsFiniteSet(S) /\ Cardinality(S) \in Nat
         /\ \A i \in Nat : UpTo(S, i) \in Nat /\ UpTo(S, i) <= Cardinality(S)
         /\ \A i \in S : UpTo(S, i) \in 1..Cardinality(S)
<1>1. IsFiniteSet(1..n)
  BY FS_Interval
<1>2. IsFiniteSet(S) /\ Cardinality(S) \in Nat
  BY <1>1, FS_Subset, FS_CardinalityType
<1>3. \A i \in Nat : UpTo(S, i) \in Nat /\ UpTo(S, i) <= Cardinality(S)
  <2> TAKE i \in Nat
  <2>1. {j \in S : j <= i} \subseteq S
    OBVIOUS
  <2> QED
    BY <1>2, <2>1, FS_Subset, FS_CardinalityType DEF UpTo
<1>4. \A i \in S : UpTo(S, i) # 0
  <2> TAKE i \in S
  <2> DEFINE U == {j \in S : j <= i}
  <2>1. i \in U /\ U \subseteq S
    OBVIOUS
  <2>2. IsFiniteSet(U)
    BY <1>2, <2>1, FS_Subset
  <2> QED
    BY <2>1, <2>2, FS_EmptySet DEF UpTo
<1>5. \A i \in S : i \in Nat
  OBVIOUS
<1> QED
  BY <1>2, <1>3, <1>4, <1>5

LEMMA UpToPush ==
  ASSUME NEW n \in Nat, NEW S \in SUBSET (1..n)
  PROVE  /\ Cardinality(S \cup {n + 1}) = Cardinality(S) + 1
         /\ \A i \in 1..n : UpTo(S \cup {n + 1}, i) = UpTo(S, i)
         /\ UpTo(S \cup {n + 1}, n + 1) = Cardinality(S) + 1
<1>0. \A j \in S : j \in Nat /\ j <= n
  OBVIOUS
<1>1. IsFiniteSet(S) /\ n + 1 \notin S
  <2>1. n + 1 \notin S
    BY <1>0
  <2> QED
    BY <2>1, UpToType
<1>2. Cardinality(S \cup {n + 1}) = Cardinality(S) + 1
  BY <1>1, FS_AddElement
<1>3. {j \in S \cup {n + 1} : j <= n + 1} = S \cup {n + 1}
  <2>1. \A j \in S \cup {n + 1} : j <= n + 1
    BY <1>0
  <2> QED
    BY <2>1
<1>4. ASSUME NEW i \in 1..n PROVE {j \in S \cup {n + 1} : j <= i} = {j \in S : j <= i}
  <2>1. i <= n /\ i \in Nat /\ ~(n + 1 <= i)
    OBVIOUS
  <2> QED
    BY <1>0, <2>1
<1> QED
  BY <1>2, <1>3, <1>4 DEF UpTo

(* The places of a queue after its head is gone. *)
Shifted(S) == {j - 1 : j \in S \ {1}}

LEMMA ShiftCount ==
  ASSUME NEW n \in Nat, NEW S \in SUBSET (1..n)
  PROVE  Cardinality(Shifted(S)) = IF 1 \in S THEN Cardinality(S) - 1 ELSE Cardinality(S)
<1>1. IsFiniteSet(S)
  BY UpToType
<1>2. /\ IsFiniteSet(S \ {1})
      /\ Cardinality(S \ {1}) = IF 1 \in S THEN Cardinality(S) - 1 ELSE Cardinality(S)
  BY <1>1, FS_RemoveElement
<1> DEFINE f == [j \in S \ {1} |-> j - 1]
<1>3. f \in Bijection(S \ {1}, Shifted(S))
  <2>1. \A a, b \in S \ {1} : f[a] = f[b] => a = b
    OBVIOUS
  <2>2. \A a \in S \ {1} : f[a] \in Shifted(S)
    BY DEF Shifted
  <2>3. \A b \in Shifted(S) : \E a \in S \ {1} : f[a] = b
    BY DEF Shifted
  <2> QED
    BY <2>1, <2>2, <2>3 DEF Bijection, Injection, Surjection, IsInjective
<1> QED
  BY <1>2, <1>3, FS_Bijection DEF ExistsBijection

LEMMA UpToPop ==
  ASSUME NEW n \in Nat, NEW S \in SUBSET (1..n)
  PROVE  /\ Cardinality(Shifted(S)) = IF 1 \in S THEN Cardinality(S) - 1 ELSE Cardinality(S)
         /\ \A i \in Nat : UpTo(Shifted(S), i) = IF 1 \in S THEN UpTo(S, i + 1) - 1
                                                 ELSE UpTo(S, i + 1)
         /\ 1 \in S => UpTo(S, 1) = 1
<1>1. ASSUME NEW i \in Nat
      PROVE  UpTo(Shifted(S), i) = IF 1 \in S THEN UpTo(S, i + 1) - 1 ELSE UpTo(S, i + 1)
  <2> DEFINE U == {j \in S : j <= i + 1}
  <2>0. U \subseteq S /\ 1 <= i + 1
    OBVIOUS
  <2>1. U \in SUBSET (1..n) /\ (1 \in U <=> 1 \in S)
    BY <2>0
  <2>2. {j \in Shifted(S) : j <= i} = Shifted(U)
    BY DEF Shifted
  <2>3. Cardinality(Shifted(U)) = IF 1 \in U THEN Cardinality(U) - 1 ELSE Cardinality(U)
    BY <2>1, ShiftCount
  <2> QED
    BY <2>1, <2>2, <2>3 DEF UpTo
<1>2. 1 \in S => UpTo(S, 1) = 1
  <2>1. \A j \in S : j \in Nat /\ j >= 1
    OBVIOUS
  <2>2. 1 \in S => {j \in S : j <= 1} = {1}
    <3>1. \A j \in S : j <= 1 <=> j = 1
      BY <2>1
    <3>2. 1 \in S => \A j : (j \in S /\ j <= 1) <=> j = 1
      BY <3>1
    <3> QED
      BY <3>2
  <2> QED
    BY <2>2, FS_Singleton DEF UpTo
<1> QED
  BY <1>1, <1>2, ShiftCount

(***************************************************************************)
(* Induction over a number, and what is posted one edit after the other.   *)
(***************************************************************************)
LEMMA UpToNumber ==
  ASSUME NEW n \in Nat, NEW S, 0 \in S, \A k \in 0..n : k \in S /\ k < n => k + 1 \in S
  PROVE  0..n \subseteq S
<1>1. SUFFICES ASSUME ~(0..n \subseteq S) PROVE FALSE
  OBVIOUS
<1>0. 0..n \ S # {}
  BY <1>1
<1>2. 0..n \ S \subseteq Nat
  OBVIOUS
<1>3. PICK m \in 0..n \ S : \A y \in 0..n \ S : <<y, m>> \notin OpToRel(<, Nat)
  BY <1>0, <1>2, NatLessThanWellFounded, WFMin
<1>4. \A y \in 0..n \ S : ~(y < m)
  BY <1>2, <1>3 DEF OpToRel
<1>5. m # 0
  OBVIOUS
<1>6. m - 1 \in 0..n /\ m - 1 < m /\ m - 1 < n /\ (m - 1) + 1 = m
  BY <1>5
<1>7. m - 1 \in S
  BY <1>4, <1>6
<1> QED
  BY <1>6, <1>7

After(f, m, s, rev, ev, es) ==
  f = [i \in 0..m |-> IF i = 0 THEN s ELSE Post(f[i - 1], rev, ev, es[i])]

LEMMA PostAllSteps ==
  ASSUME NEW s, NEW rev, NEW ev, NEW E, NEW es \in Seq(E)
  PROVE  \E f : After(f, Len(es), s, rev, ev, es) /\ PostAll(s, rev, ev, es) = f[Len(es)]
<1> DEFINE n == Len(es)
           Good == {m \in 0..n : \E f : After(f, m, s, rev, ev, es)}
<1>0. n \in Nat
  OBVIOUS
<1>1. 0 \in Good
  <2> DEFINE g == [i \in 0..0 |-> s]
  <2>1. After(g, 0, s, rev, ev, es)
    BY DEF After
  <2>2. \E f : After(f, 0, s, rev, ev, es)
    BY <2>1
  <2> QED
    BY <1>0, <2>2
<1>2. ASSUME NEW k \in 0..n, k \in Good, k < n PROVE k + 1 \in Good
  <2>1. PICK f : After(f, k, s, rev, ev, es)
    BY <1>2
  <2> DEFINE g == [i \in 0..(k + 1) |-> IF i = 0 THEN s ELSE Post(f[i - 1], rev, ev, es[i])]
  <2>2. \A i \in 0..k : g[i] = f[i]
    BY <2>1 DEF After
  <2>3. \A i \in 0..(k + 1) : i # 0 => g[i - 1] = f[i - 1]
    <3>1. \A i \in 0..(k + 1) : i # 0 => i - 1 \in 0..k
      OBVIOUS
    <3> QED
      BY <2>2, <3>1
  <2>4. After(g, k + 1, s, rev, ev, es)
    BY <2>3 DEF After
  <2>5. \E h : After(h, k + 1, s, rev, ev, es)
    BY <2>4
  <2>6. k + 1 \in 0..n
    BY <1>0, <1>2
  <2> QED
    BY <2>5, <2>6
<1>3. 0..n \subseteq Good
  BY <1>0, <1>1, <1>2, UpToNumber
<1>4. \E f : After(f, n, s, rev, ev, es)
  BY <1>0, <1>3
<1> DEFINE F == CHOOSE f : f = [i \in 0..n |-> IF i = 0 THEN s ELSE Post(f[i - 1], rev, ev, es[i])]
<1>5. After(F, n, s, rev, ev, es)
  BY <1>4 DEF After
<1>6. PostAll(s, rev, ev, es) = F[n]
  BY DEF PostAll
<1> HIDE DEF F, n
<1> QED
  BY <1>5, <1>6 DEF n

(* Whatever every single post keeps, a replay keeps. *)
LEMMA PostAllKeeps ==
  ASSUME NEW D, NEW s \in D, NEW rev, NEW ev, NEW E, NEW es \in Seq(E),
         \A t \in D : \A e \in E : Post(t, rev, ev, e) \in D
  PROVE  PostAll(s, rev, ev, es) \in D
<1> DEFINE n == Len(es)
<1>0. n \in Nat /\ \A i \in 1..n : es[i] \in E
  OBVIOUS
<1>1. PICK F : After(F, n, s, rev, ev, es) /\ PostAll(s, rev, ev, es) = F[n]
  BY PostAllSteps
<1> HIDE DEF n
<1> DEFINE Kept2 == {m \in 0..n : F[m] \in D}
<1>2. 0 \in Kept2
  BY <1>0, <1>1 DEF After
<1>3. ASSUME NEW k \in 0..n, k \in Kept2, k < n PROVE k + 1 \in Kept2
  <2>1. k + 1 \in 0..n /\ k + 1 \in 1..n /\ k + 1 # 0 /\ (k + 1) - 1 = k
    BY <1>0, <1>3
  <2>2. F[k + 1] = Post(F[k], rev, ev, es[k + 1])
    BY <1>1, <2>1 DEF After
  <2>3. es[k + 1] \in E
    BY <1>0, <2>1
  <2> QED
    BY <1>3, <2>1, <2>2, <2>3
<1>4. 0..n \subseteq Kept2
  BY <1>0, <1>2, <1>3, UpToNumber
<1> QED
  BY <1>0, <1>1, <1>4

(***************************************************************************)
(* Types.                                                                  *)
(***************************************************************************)
Numbers == 0..MaxActs
Causes == {"refusal", "quiet commit"}
Pendings == [kind : {"edit", "undo", "redo"}, op : Ops, epoch : Nat]

EditRequests == [k : {"apply", "undo"}, exp : Nat, op : Ops]
FormRequests == [k : {"form"}, may : BOOLEAN, val : Numbers]
SaveRequests == [k : {"save"}, to : Files]
Requests == EditRequests \cup FormRequests \cup SaveRequests

Applieds == [k : {"applied"}, rev : Nat, did : Ops, undo : Ops]
Refusals == [k : {"refused"}, op : Ops, was : {"apply", "undo"},
             why : {"conflict", "missing", "invalid"}, behind : SUBSET Causes]
IdleForms == [k : {"form"}, commits : {FALSE}]
Commits == [k : {"form"}, commits : {TRUE}, named : BOOLEAN, rev : Nat,
            was : Numbers, val : Numbers]
Saveds == [k : {"saved"}, to : Files]
Others == [k : {"failed", "gone"}]
Replies == Applieds \cup Refusals \cup IdleForms \cup Commits \cup Saveds \cup Others

Entries == [rev : Nat, via : {"applied", "reversed"}, op : Ops]
Journals == [of : Files \cup {NoFile}, v : Nat, entries : Seq(Entries)]
Readers == [rev : Nat, undo : Seq(Ops), redo : Seq(Ops), epoch : Nat]
Desks == [p : Seq(Pendings), d : Seq(Ops), a : Seq(Requests)]
Papers == [v : Nat, marks : SUBSET Marks, field : Numbers]
Workers == [alive : BOOLEAN, named : Nat, rev : Nat, marks : SUBSET Marks, field : Numbers]
Covers == [on : BOOLEAN, file : BOOLEAN, written : 0..MaxEntries, full : BOOLEAN]

DocTypes == disk \in [Files -> Papers] /\ worker \in Workers /\ serving \in BOOLEAN
LinkTypes == asks \in Seq(Requests) /\ told \in Seq(Replies)
ReaderTypes == open \in Files \cup {NoFile} /\ reader \in Readers
QueueTypes == /\ pending \in Seq(Pendings) /\ deferred \in Seq(Ops)
              /\ events \in Seq(BOOLEAN) /\ pumping \in BOOLEAN
KeptTypes == journal \in Covers /\ own \in Journals /\ log \in Seq(Edits)
LeftTypes == left \in SUBSET Journals /\ offer \in Journals
CountTypes == acts \in Numbers /\ opens \in 0..MaxOpens /\ faults \in 0..MaxFaults

TypeInv == /\ DocTypes /\ LinkTypes /\ ReaderTypes /\ QueueTypes
           /\ KeptTypes /\ LeftTypes /\ CountTypes /\ skew \in SUBSET Causes

(* An entry is never recorded behind one of a later revision. *)
Ascending(j) == \A a, b \in DOMAIN j.entries : a < b => j.entries[a].rev <= j.entries[b].rev

LEMMA NumberFacts ==
  /\ MaxActs \in Nat /\ MaxOpens \in Nat /\ MaxEntries \in Nat /\ MaxFaults \in Nat
  /\ 0 \in Numbers /\ NoMark \in Marks
BY EditAssumption DEF Numbers, NoMark, Marks

LEMMA OpTypes ==
  /\ \A n \in Numbers : Create(n) \in Ops /\ SetField(n) \in Ops
  /\ \A i \in Marks : Delete(i) \in Ops /\ Restore(i) \in Ops
BY NumberFacts DEF Ops, Create, SetField, Delete, Restore, Numbers

LEMMA EngineTypes ==
  ASSUME NEW op \in Ops, NEW m \in Nat, NEW marks \in SUBSET Marks, NEW field \in Numbers
  PROVE  /\ MarksAfter(marks, m, op) \in SUBSET Marks
         /\ FieldAfter(field, op) \in Numbers
         /\ UndoOf(field, m, op) \in Ops
<1>1. op.val \in Numbers /\ op.id \in Marks
  BY DEF Ops, Numbers
<1>2. <<m, op.val>> \in Marks
  BY <1>1 DEF Marks, Numbers
<1>3. MarksAfter(marks, m, op) \in SUBSET Marks
  BY <1>1, <1>2 DEF MarksAfter
<1>4. FieldAfter(field, op) \in Numbers
  BY <1>1 DEF FieldAfter
<1>5. UndoOf(field, m, op) \in Ops
  BY <1>1, <1>2, OpTypes DEF UndoOf
<1> QED
  BY <1>3, <1>4, <1>5

LEMMA CommitType ==
  ASSUME NEW s \in Desks, NEW rev \in Nat, NEW ev, NEW op \in Ops
  PROVE  Commit(s, rev, ev, op) \in Desks
<1>1. s.p \in Seq(Pendings) /\ s.d \in Seq(Ops) /\ s.a \in Seq(Requests)
  BY DEF Desks
<1>2. Append(s.d, op) \in Seq(Ops)
  BY <1>1
<1>3. [kind |-> "edit", op |-> op, epoch |-> NoEpoch] \in Pendings
  BY NumberFacts DEF Pendings, NoEpoch
<1>4. Expected(rev, s.p) \in Nat
  BY <1>1 DEF Expected
<1>5. [k |-> "apply", exp |-> Expected(rev, s.p), op |-> op] \in Requests
  BY <1>4 DEF Requests, EditRequests
<1>6. /\ Append(s.p, [kind |-> "edit", op |-> op, epoch |-> NoEpoch]) \in Seq(Pendings)
      /\ Append(s.a, [k |-> "apply", exp |-> Expected(rev, s.p), op |-> op]) \in Seq(Requests)
  BY <1>1, <1>3, <1>5
<1> QED
  BY <1>2, <1>6 DEF Commit, Desks

LEMMA SendUndoType ==
  ASSUME NEW s \in Desks, NEW rev \in Nat, NEW kind \in {"undo", "redo"}, NEW epoch \in Nat,
         NEW op \in Ops
  PROVE  SendUndo(s, rev, kind, epoch, op) \in Desks
<1>1. s.p \in Seq(Pendings) /\ s.d \in Seq(Ops) /\ s.a \in Seq(Requests)
  BY DEF Desks
<1>2. [kind |-> kind, op |-> op, epoch |-> epoch] \in Pendings
  BY DEF Pendings
<1>3. Expected(rev, s.p) \in Nat
  BY <1>1 DEF Expected
<1>4. [k |-> "undo", exp |-> Expected(rev, s.p), op |-> op] \in Requests
  BY <1>3 DEF Requests, EditRequests
<1>5. /\ Append(s.p, [kind |-> kind, op |-> op, epoch |-> epoch]) \in Seq(Pendings)
      /\ Append(s.a, [k |-> "undo", exp |-> Expected(rev, s.p), op |-> op]) \in Seq(Requests)
  BY <1>1, <1>2, <1>4
<1> QED
  BY <1>5 DEF SendUndo, Desks

Posts == [via : {"applied", "reversed"}, op : Ops] \cup Entries

LEMMA PostType ==
  ASSUME NEW s \in Desks, NEW rev \in Nat, NEW ev, NEW e \in Posts
  PROVE  Post(s, rev, ev, e) \in Desks
<1>1. e.op \in Ops
  BY DEF Posts, Entries
<1>2. NoEpoch \in Nat
  BY NumberFacts DEF NoEpoch
<1> QED
  BY <1>1, <1>2, CommitType, SendUndoType DEF Post

LEMMA PostAllType ==
  ASSUME NEW s \in Desks, NEW rev \in Nat, NEW ev, NEW es \in Seq(Posts)
  PROVE  PostAll(s, rev, ev, es) \in Desks
BY PostType, PostAllKeeps

(* What waits behind a form event, as it is posted. *)
Waiting(d) == [i \in DOMAIN d |-> [via |-> "applied", op |-> d[i]]]

LEMMA WaitingType == ASSUME NEW d \in Seq(Ops) PROVE Waiting(d) \in Seq(Posts)
<1>1. DOMAIN d = 1..Len(d) /\ Len(d) \in Nat /\ \A i \in 1..Len(d) : d[i] \in Ops
  OBVIOUS
<1>2. \A i \in 1..Len(d) : [via |-> "applied", op |-> d[i]] \in Posts
  BY <1>1 DEF Posts
<1> QED
  BY <1>1, <1>2 DEF Waiting

LEMMA ReleasedType ==
  ASSUME NEW s \in Desks, NEW rev \in Nat, NEW ev
  PROVE  Released(s, rev, ev) \in Desks
<1>1. s.d \in Seq(Ops) /\ <<>> \in Seq(Ops)
  BY DEF Desks
<1>2. [s EXCEPT !.d = <<>>] \in Desks
  BY <1>1 DEF Desks
<1>3. PostAll([s EXCEPT !.d = <<>>], rev, ev, Waiting(s.d)) \in Desks
  BY <1>1, <1>2, WaitingType, PostAllType
<1> QED
  BY <1>3 DEF Released, Waiting

LEMMA InOrderType ==
  ASSUME NEW j \in Journals, Ascending(j)
  PROVE  InOrder(j.entries) \in Seq(Entries)
<1> DEFINE es == j.entries
           n == Len(es)
           p == CHOOSE q \in [DOMAIN es -> DOMAIN es] : Sorts(es, q)
           id == [i \in DOMAIN es |-> i]
<1>1. n \in Nat /\ DOMAIN es = 1..n /\ \A i \in 1..n : es[i] \in Entries
  BY DEF Journals
<1>2. \A i \in 1..n : es[i].rev \in Nat
  BY <1>1 DEF Entries
<1>3. Sorts(es, id)
  BY <1>1, <1>2 DEF Sorts, Ascending
<1>4. p \in [1..n -> 1..n]
  BY <1>1, <1>3
<1>5. \A i \in 1..n : es[p[i]] \in Entries
  BY <1>1, <1>4
<1>6. InOrder(es) = [i \in 1..n |-> es[p[i]]]
  BY <1>1 DEF InOrder
<1> HIDE DEF p
<1> DEFINE f == [i \in 1..n |-> es[p[i]]]
<1>7. f \in Seq(Entries)
  BY <1>1, <1>5
<1> QED
  BY <1>6, <1>7

LEMMA NothingQueued ==
  /\ <<>> \in Seq(Requests) /\ <<>> \in Seq(Replies) /\ <<>> \in Seq(Pendings)
  /\ <<>> \in Seq(Ops) /\ <<>> \in Seq(BOOLEAN) /\ <<>> \in Seq(Entries)
OBVIOUS

LEMMA PutDeskType ==
  ASSUME NEW s \in Desks, PutDesk(s)
  PROVE  pending' \in Seq(Pendings) /\ deferred' \in Seq(Ops) /\ asks' \in Seq(Requests)
BY DEF PutDesk, Desks

LEMMA DeskType == ASSUME TypeInv PROVE Desk \in Desks
BY DEF TypeInv, LinkTypes, QueueTypes, Desk, Desks

LEMMA TypeInit == Init => TypeInv
<1> SUFFICES ASSUME Init PROVE TypeInv
  OBVIOUS
<1>1. DocTypes
  <2>1. [v |-> 1, marks |-> {NoMark}, field |-> 0] \in Papers
    BY NumberFacts DEF Papers
  <2>2. [v |-> 0, marks |-> {}, field |-> 0] \in Papers
    BY NumberFacts DEF Papers
  <2>3. disk \in [Files -> Papers]
    BY <2>1, <2>2 DEF Init
  <2>4. worker \in Workers
    BY NumberFacts DEF Init, Workers
  <2> QED
    BY <2>3, <2>4 DEF Init, DocTypes
<1>2. LinkTypes /\ QueueTypes
  BY NothingQueued DEF Init, LinkTypes, QueueTypes
<1>3. ReaderTypes
  BY DEF Init, ReaderTypes, Readers, Fresh
<1>4. NoJournal \in Journals
  BY DEF NoJournal, Journals
<1>5. KeptTypes /\ LeftTypes
  BY <1>4, NumberFacts DEF Init, KeptTypes, LeftTypes, Covers, Off
<1>6. CountTypes /\ skew \in SUBSET Causes
  BY NumberFacts DEF Init, CountTypes
<1> QED
  BY <1>1, <1>2, <1>3, <1>5, <1>6 DEF TypeInv

LEMMA ActsType == ASSUME TypeInv, UserActs PROVE acts' \in Numbers /\ acts + 1 \in Numbers
BY NumberFacts DEF TypeInv, CountTypes, UserActs, Numbers

LEMMA TypePostsTransaction ==
  ASSUME TypeInv, UserActs, NEW op \in Ops, PostsTransaction(op)
  PROVE  TypeInv'
<1>1. Commit(Desk, reader.rev, events, op) \in Desks
  BY DeskType, CommitType DEF TypeInv, ReaderTypes, Readers
<1>2. LinkTypes' /\ QueueTypes'
  BY <1>1, PutDeskType DEF PostsTransaction, TypeInv, LinkTypes, QueueTypes
<1>3. DocTypes' /\ ReaderTypes' /\ KeptTypes' /\ LeftTypes' /\ skew' \in SUBSET Causes
  BY DEF PostsTransaction, TypeInv, DocTypes, ReaderTypes, KeptTypes, LeftTypes, docVars, journalVars
<1>4. CountTypes'
  BY ActsType DEF PostsTransaction, TypeInv, CountTypes
<1> QED
  BY <1>2, <1>3, <1>4 DEF TypeInv

LEMMA TypeDraw == ASSUME TypeInv, Draw PROVE TypeInv'
BY ActsType, OpTypes, TypePostsTransaction DEF Draw

LEMMA TypeErase == ASSUME TypeInv, Erase PROVE TypeInv'
<1>1. PICK i \in Known : PostsTransaction(Delete(i))
  BY DEF Erase
<1>2. i \in Marks
  BY DEF Known, TypeInv, DocTypes, Workers
<1>3. Delete(i) \in Ops
  BY <1>2, OpTypes
<1>4. UserActs
  BY DEF Erase
<1> QED
  BY <1>1, <1>3, <1>4, TypePostsTransaction

LEMMA FrontLast ==
  ASSUME NEW S, NEW q \in Seq(S), q # <<>>
  PROVE  Front(q) \in Seq(S) /\ Last(q) \in S
<1>1. Len(q) \in Nat /\ Len(q) # 0 /\ Len(q) \in 1..Len(q)
  OBVIOUS
<1>2. Last(q) \in S
  BY <1>1 DEF Last
<1>3. \A i \in 1..(Len(q) - 1) : q[i] \in S
  BY <1>1
<1>4. SubSeq(q, 1, Len(q) - 1) \in Seq(S)
  BY <1>1, <1>3, SubSeqProperties
<1> QED
  BY <1>2, <1>4 DEF Front

LEMMA TypeTakeBack ==
  ASSUME TypeInv, NEW kind \in {"undo", "redo"}, TakeBack(kind)
  PROVE  TypeInv'
<1>1. reader[kind] \in Seq(Ops) /\ reader[kind] # <<>> /\ reader.epoch \in Nat /\ reader.rev \in Nat
  BY DEF TakeBack, TypeInv, ReaderTypes, Readers
<1>2. Front(reader[kind]) \in Seq(Ops) /\ Last(reader[kind]) \in Ops
  BY <1>1, FrontLast
<1>3. SendUndo(Desk, reader.rev, kind, reader.epoch, Last(reader[kind])) \in Desks
  BY <1>1, <1>2, DeskType, SendUndoType
<1>4. LinkTypes' /\ QueueTypes'
  BY <1>3, PutDeskType DEF TakeBack, TypeInv, LinkTypes, QueueTypes
<1>5. ReaderTypes'
  BY <1>2 DEF TakeBack, TypeInv, ReaderTypes, Readers
<1>6. DocTypes' /\ KeptTypes' /\ LeftTypes' /\ skew' \in SUBSET Causes
  BY DEF TakeBack, TypeInv, DocTypes, KeptTypes, LeftTypes, docVars, journalVars
<1>7. CountTypes'
  BY ActsType DEF TakeBack, TypeInv, CountTypes
<1> QED
  BY <1>4, <1>5, <1>6, <1>7 DEF TypeInv

LEMMA TypeFormEvent == ASSUME TypeInv, NEW may \in BOOLEAN, FormEvent(may) PROVE TypeInv'
<1>1. UserActs /\ acts + 1 \in Numbers
  BY ActsType DEF FormEvent
<1>2. [k |-> "form", may |-> may, val |-> acts + 1] \in Requests
  BY <1>1 DEF Requests, FormRequests
<1>3. asks \in Seq(Requests) /\ events \in Seq(BOOLEAN)
  BY DEF TypeInv, LinkTypes, QueueTypes
<1>4. asks' \in Seq(Requests) /\ events' \in Seq(BOOLEAN)
  <2>1. /\ Append(asks, [k |-> "form", may |-> may, val |-> acts + 1]) \in Seq(Requests)
        /\ Append(events, may) \in Seq(BOOLEAN)
    BY <1>2, <1>3
  <2> QED
    BY <1>3, <2>1 DEF FormEvent
<1>5. LinkTypes' /\ QueueTypes'
  BY <1>4 DEF FormEvent, TypeInv, LinkTypes, QueueTypes
<1>6. DocTypes' /\ ReaderTypes' /\ KeptTypes' /\ LeftTypes' /\ skew' \in SUBSET Causes
  BY DEF FormEvent, TypeInv, DocTypes, ReaderTypes, KeptTypes, LeftTypes, docVars, journalVars
<1>7. CountTypes'
  BY <1>1, ActsType DEF FormEvent, TypeInv, CountTypes
<1> QED
  BY <1>5, <1>6, <1>7 DEF TypeInv

LEMMA TypeSaveAs == ASSUME TypeInv, NEW f \in Files, SaveAs(f) PROVE TypeInv'
<1>1. [k |-> "save", to |-> f] \in Requests
  BY DEF Requests, SaveRequests
<1>2. asks \in Seq(Requests)
  BY DEF TypeInv, LinkTypes
<1>3. asks' \in Seq(Requests)
  BY <1>1, <1>2 DEF SaveAs
<1>4. LinkTypes' /\ QueueTypes'
  BY <1>3 DEF SaveAs, TypeInv, LinkTypes, QueueTypes, queueVars
<1>5. DocTypes' /\ ReaderTypes' /\ KeptTypes' /\ LeftTypes' /\ skew' \in SUBSET Causes
  BY DEF SaveAs, TypeInv, DocTypes, ReaderTypes, KeptTypes, LeftTypes, docVars, journalVars
<1>6. CountTypes'
  BY ActsType DEF SaveAs, TypeInv, CountTypes
<1> QED
  BY <1>4, <1>5, <1>6 DEF TypeInv

LEMMA ForgetType ==
  ASSUME ForgetEdits
  PROVE  /\ LinkTypes' /\ QueueTypes' /\ serving' \in BOOLEAN
         /\ reader' \in Readers /\ skew' \in SUBSET Causes
<1>1. LinkTypes' /\ QueueTypes'
  BY NothingQueued DEF ForgetEdits, LinkTypes, QueueTypes
<1>2. reader' \in Readers
  BY NothingQueued DEF ForgetEdits, Readers, Fresh
<1> QED
  BY <1>1, <1>2 DEF ForgetEdits

LEMMA FaultType ==
  ASSUME TypeInv, faults < MaxFaults, faults' = faults + 1
  PROVE  faults' \in 0..MaxFaults
BY NumberFacts DEF TypeInv, CountTypes

LEMMA BlankTypes == NoJournal \in Journals /\ Off \in Covers /\ Fresh \in Readers
BY NumberFacts DEF NoJournal, Journals, Off, Covers, Fresh, Readers

LEMMA TypeOpen == ASSUME TypeInv, NEW f \in Files, Open(f) PROVE TypeInv'
<1>1. disk[f].v \in Nat /\ disk[f].marks \in SUBSET Marks /\ disk[f].field \in Numbers
  BY DEF TypeInv, DocTypes, Papers
<1>2. opens' \in 0..MaxOpens /\ opens + 1 \in 0..MaxOpens
  BY NumberFacts DEF Open, TypeInv, CountTypes
<1>3. DocTypes'
  BY <1>1, <1>2 DEF Open, TypeInv, DocTypes, Workers
<1>4. LinkTypes' /\ QueueTypes' /\ ReaderTypes'
  BY BlankTypes DEF Open, TypeInv, LinkTypes, QueueTypes, ReaderTypes
<1>5. journal' \in Covers /\ own' \in Journals
  <2>1. CASE /\ journal' = [on |-> TRUE, file |-> TRUE, written |-> 0, full |-> FALSE]
             /\ own' = [of |-> f, v |-> disk[f].v, entries |-> <<>>]
    BY <1>1, <2>1, NumberFacts DEF Covers, Journals
  <2>2. CASE journal' = Off /\ own' \in {own, NoJournal}
    BY <2>2, BlankTypes DEF TypeInv, KeptTypes
  <2> QED
    BY <2>1, <2>2 DEF Open
<1>6. KeptTypes'
  BY <1>5 DEF Open, KeptTypes
<1>7. LeftTypes'
  BY BlankTypes DEF Open, TypeInv, LeftTypes
<1>8. faults' \in 0..MaxFaults
  BY FaultType DEF Open, TypeInv, CountTypes
<1>9. CountTypes' /\ skew' \in SUBSET Causes
  BY <1>2, <1>8 DEF Open, TypeInv, CountTypes
<1> QED
  BY <1>3, <1>4, <1>6, <1>7, <1>9 DEF TypeInv

LEMMA TypePutAway == ASSUME TypeInv, PutAway PROVE TypeInv'
<1>1. LinkTypes' /\ QueueTypes' /\ serving' \in BOOLEAN /\ reader' \in Readers /\ skew' \in SUBSET Causes
  BY ForgetType DEF PutAway
<1>2. DocTypes' /\ ReaderTypes'
  BY <1>1 DEF PutAway, TypeInv, DocTypes, ReaderTypes
<1>3. KeptTypes' /\ LeftTypes'
  BY BlankTypes DEF PutAway, TypeInv, KeptTypes, LeftTypes
<1>4. CountTypes'
  BY DEF PutAway, TypeInv, CountTypes, countVars
<1> QED
  BY <1>1, <1>2, <1>3, <1>4 DEF TypeInv

LEMMA TypeCrash == ASSUME TypeInv, Crash PROVE TypeInv'
<1>1. LinkTypes' /\ QueueTypes' /\ serving' \in BOOLEAN /\ reader' \in Readers /\ skew' \in SUBSET Causes
  BY ForgetType DEF Crash
<1>2. DocTypes' /\ ReaderTypes'
  BY <1>1 DEF Crash, TypeInv, DocTypes, ReaderTypes
<1>3. KeptTypes' /\ LeftTypes'
  BY BlankTypes DEF Crash, TypeInv, KeptTypes, LeftTypes
<1>4. CountTypes'
  BY FaultType DEF Crash, TypeInv, CountTypes
<1> QED
  BY <1>1, <1>2, <1>3, <1>4 DEF TypeInv

LEMMA TypeRestoreEdits == ASSUME TypeInv, Ascending(offer), RestoreEdits PROVE TypeInv'
<1>1. InOrder(offer.entries) \in Seq(Entries) /\ Entries \subseteq Posts
  BY InOrderType DEF TypeInv, LeftTypes, Posts
<1>2. InOrder(offer.entries) \in Seq(Posts)
  BY <1>1, SeqMonotonic
<1>3. PostAll(Desk, reader.rev, events, InOrder(offer.entries)) \in Desks
  BY <1>2, DeskType, PostAllType DEF TypeInv, ReaderTypes, Readers
<1>4. LinkTypes' /\ QueueTypes'
  BY <1>3, PutDeskType DEF RestoreEdits, TypeInv, LinkTypes, QueueTypes
<1>5. DocTypes' /\ ReaderTypes' /\ KeptTypes' /\ CountTypes' /\ skew' \in SUBSET Causes
  BY DEF RestoreEdits, TypeInv, DocTypes, ReaderTypes, KeptTypes, CountTypes, docVars, countVars
<1>6. LeftTypes'
  BY BlankTypes DEF RestoreEdits, TypeInv, LeftTypes
<1> QED
  BY <1>4, <1>5, <1>6 DEF TypeInv

LEMMA TypeDiscardEdits == ASSUME TypeInv, DiscardEdits PROVE TypeInv'
<1>1. LinkTypes' /\ QueueTypes' /\ DocTypes' /\ ReaderTypes' /\ KeptTypes' /\ CountTypes'
  BY DEF DiscardEdits, TypeInv, LinkTypes, QueueTypes, DocTypes, ReaderTypes, KeptTypes, CountTypes,
         docVars, linkVars, queueVars, countVars
<1>2. LeftTypes' /\ skew' \in SUBSET Causes
  BY BlankTypes DEF DiscardEdits, TypeInv, LeftTypes, historyVars
<1> QED
  BY <1>1, <1>2 DEF TypeInv

LEMMA HeadAsked ==
  ASSUME TypeInv, asks # <<>>
  PROVE  /\ Head(asks) \in Requests /\ Tail(asks) \in Seq(Requests)
         /\ Head(asks).k \in {"apply", "undo"} => Head(asks).op \in Ops
         /\ Head(asks).k = "form" => Head(asks).val \in Numbers /\ Head(asks).may \in BOOLEAN
         /\ Head(asks).k = "save" => Head(asks).to \in Files
<1>1. Head(asks) \in Requests /\ Tail(asks) \in Seq(Requests)
  BY HeadTailProperties DEF TypeInv, LinkTypes
<1> DEFINE a == Head(asks)
<1> HIDE DEF a
<1>2. a \in Requests => /\ a.k \in {"apply", "undo"} => a.op \in Ops
                        /\ a.k = "form" => a.val \in Numbers /\ a.may \in BOOLEAN
                        /\ a.k = "save" => a.to \in Files
  BY DEF Requests, EditRequests, FormRequests, SaveRequests
<1> QED
  BY <1>1, <1>2 DEF a

LEMMA TypeAnswers ==
  ASSUME TypeInv, asks # <<>>, NEW t \in Replies, Answers(t)
  PROVE  /\ LinkTypes' /\ ReaderTypes' /\ QueueTypes' /\ KeptTypes' /\ LeftTypes'
         /\ serving' \in BOOLEAN /\ acts' \in Numbers /\ opens' \in 0..MaxOpens
<1>1. Append(told, t) \in Seq(Replies)
  BY DEF TypeInv, LinkTypes
<1>2. LinkTypes'
  BY <1>1, HeadAsked DEF Answers, LinkTypes
<1>3. ReaderTypes' /\ QueueTypes' /\ KeptTypes' /\ LeftTypes' /\ serving' \in BOOLEAN
  BY DEF Answers, TypeInv, ReaderTypes, QueueTypes, KeptTypes, LeftTypes, DocTypes, queueVars,
         journalVars
<1> QED
  BY <1>2, <1>3 DEF Answers, TypeInv, CountTypes

LEMMA TypeRefuseAs ==
  ASSUME TypeInv, Asked({"apply", "undo"}), NEW why \in {"conflict", "missing", "invalid"},
         RefuseAs(why), faults' \in 0..MaxFaults
  PROVE  TypeInv'
<1> DEFINE t == [k |-> "refused", op |-> Head(asks).op, was |-> Head(asks).k, why |-> why,
                 behind |-> skew]
<1>1. asks # <<>> /\ Head(asks).op \in Ops /\ Head(asks).k \in {"apply", "undo"}
  BY HeadAsked DEF Asked
<1>2. t \in Replies
  BY <1>1 DEF TypeInv, Replies, Refusals
<1>3. Answers(t)
  BY DEF RefuseAs
<1>4. /\ LinkTypes' /\ ReaderTypes' /\ QueueTypes' /\ KeptTypes' /\ LeftTypes'
      /\ serving' \in BOOLEAN /\ acts' \in Numbers /\ opens' \in 0..MaxOpens
  BY <1>1, <1>2, <1>3, TypeAnswers
<1>5. DocTypes' /\ skew' \in SUBSET Causes
  BY <1>4 DEF RefuseAs, TypeInv, DocTypes, Causes
<1> QED
  BY <1>4, <1>5 DEF TypeInv, CountTypes

LEMMA WorkerMoves ==
  ASSUME NEW w \in Workers, NEW field \in Numbers
  PROVE  [w EXCEPT !.rev = w.rev + 1, !.field = field] \in Workers
<1>1. w.rev + 1 \in Nat
  BY DEF Workers
<1> QED
  BY <1>1 DEF Workers

LEMMA DoneType ==
  ASSUME NEW w \in Workers, NEW op \in Ops
  PROVE  /\ Done(w, op) \in Workers
         /\ Done(w, op).rev = w.rev + 1 /\ Done(w, op).alive = w.alive
         /\ Done(w, op).marks = MarksAfter(w.marks, w.named + 1, op)
         /\ Done(w, op).field = FieldAfter(w.field, op)
         /\ Done(w, op).named = IF op.k = "create" THEN w.named + 1 ELSE w.named
<1>1. /\ w.rev + 1 \in Nat /\ w.named \in Nat /\ w.named + 1 \in Nat
      /\ w.marks \in SUBSET Marks /\ w.field \in Numbers
  BY DEF Workers
<1>2. /\ MarksAfter(w.marks, w.named + 1, op) \in SUBSET Marks
      /\ FieldAfter(w.field, op) \in Numbers
  BY <1>1, EngineTypes
<1>3. Done(w, op) \in Workers
  BY <1>1, <1>2 DEF Done, Workers
<1>4. /\ Done(w, op).rev = w.rev + 1 /\ Done(w, op).alive = w.alive
      /\ Done(w, op).marks = MarksAfter(w.marks, w.named + 1, op)
      /\ Done(w, op).field = FieldAfter(w.field, op)
      /\ Done(w, op).named = IF op.k = "create" THEN w.named + 1 ELSE w.named
  BY DEF Done, Workers
<1> QED
  BY <1>3, <1>4

LEMMA TypeServeEdit == ASSUME TypeInv, ServeEdit PROVE TypeInv'
<1> DEFINE a == Head(asks)
           t == [k |-> "applied", rev |-> worker.rev + 1, did |-> a.op,
                 undo |-> UndoOf(worker.field, worker.named + 1, a.op)]
<1>1. asks # <<>> /\ a.op \in Ops
  BY HeadAsked DEF ServeEdit, Asked
<1>2. /\ worker.field \in Numbers /\ worker.named + 1 \in Nat /\ worker.marks \in SUBSET Marks
      /\ worker.rev \in Nat /\ worker \in Workers
  BY DEF TypeInv, DocTypes, Workers
<1>3. /\ Done(worker, a.op) \in Workers
      /\ UndoOf(worker.field, worker.named + 1, a.op) \in Ops
  BY <1>1, <1>2, EngineTypes, DoneType
<1>4. t \in Replies
  BY <1>1, <1>2, <1>3 DEF Replies, Applieds
<1>5. Answers(t) /\ worker' = Done(worker, a.op)
  BY DEF ServeEdit
<1>6. worker' \in Workers
  BY <1>3, <1>5
<1> HIDE DEF t
<1>7. /\ LinkTypes' /\ ReaderTypes' /\ QueueTypes' /\ KeptTypes' /\ LeftTypes'
      /\ serving' \in BOOLEAN /\ acts' \in Numbers /\ opens' \in 0..MaxOpens
  BY <1>1, <1>4, <1>5, TypeAnswers
<1>8. DocTypes' /\ skew' \in SUBSET Causes /\ faults' \in 0..MaxFaults
  BY <1>6, <1>7 DEF ServeEdit, TypeInv, DocTypes, CountTypes, historyVars
<1> QED
  BY <1>7, <1>8 DEF TypeInv, CountTypes

LEMMA TypeRefusals ==
  ASSUME TypeInv, ServeConflict \/ ServeMissing \/ ServeInvalid
  PROVE  TypeInv'
<1>1. faults' \in 0..MaxFaults
  BY FaultType DEF ServeConflict, ServeMissing, ServeInvalid, TypeInv, CountTypes
<1>2. Asked({"apply", "undo"})
  BY DEF ServeConflict, ServeMissing, ServeInvalid, Asked
<1>3. \E why \in {"conflict", "missing", "invalid"} : RefuseAs(why)
  BY DEF ServeConflict, ServeMissing, ServeInvalid
<1> QED
  BY <1>1, <1>2, <1>3, TypeRefuseAs

LEMMA TypeServeForm == ASSUME TypeInv, ServeForm PROVE TypeInv'
<1>1. asks # <<>> /\ Head(asks).val \in Numbers /\ Head(asks).may \in BOOLEAN
  BY HeadAsked DEF ServeForm, Asked
<1>2. worker \in Workers /\ worker.rev \in Nat /\ worker.field \in Numbers
  BY DEF TypeInv, DocTypes, Workers
<1>3. PICK t \in Replies : Answers(t)
  <2>1. CASE Answers([k |-> "form", commits |-> FALSE])
    BY <2>1 DEF Replies, IdleForms
  <2>2. CASE \E named \in BOOLEAN :
               Answers([k |-> "form", commits |-> TRUE, named |-> named, rev |-> worker.rev + 1,
                        was |-> worker.field, val |-> Head(asks).val])
    <3>1. PICK named \in BOOLEAN :
               Answers([k |-> "form", commits |-> TRUE, named |-> named, rev |-> worker.rev + 1,
                        was |-> worker.field, val |-> Head(asks).val])
      BY <2>2
    <3>2. [k |-> "form", commits |-> TRUE, named |-> named, rev |-> worker.rev + 1,
           was |-> worker.field, val |-> Head(asks).val] \in Replies
      BY <1>1, <1>2 DEF Replies, Commits
    <3> QED
      BY <3>1, <3>2
  <2> QED
    BY <2>1, <2>2 DEF ServeForm
<1>4. /\ LinkTypes' /\ ReaderTypes' /\ QueueTypes' /\ KeptTypes' /\ LeftTypes'
      /\ serving' \in BOOLEAN /\ acts' \in Numbers /\ opens' \in 0..MaxOpens
  BY <1>1, <1>3, TypeAnswers
<1>5. worker' \in Workers
  <2>1. CASE worker' = [worker EXCEPT !.rev = @ + 1, !.field = Head(asks).val]
    BY <1>1, <1>2, <2>1, WorkerMoves
  <2> QED
    BY <1>2, <2>1 DEF ServeForm
<1>6. skew' \in SUBSET Causes
  BY DEF ServeForm, TypeInv, Causes
<1>7. DocTypes' /\ faults' \in 0..MaxFaults
  BY <1>4, <1>5 DEF ServeForm, TypeInv, DocTypes, CountTypes
<1> QED
  BY <1>4, <1>6, <1>7 DEF TypeInv, CountTypes

LEMMA TypeServeSave == ASSUME TypeInv, ServeSave PROVE TypeInv'
<1>1. asks # <<>> /\ Head(asks).to \in Files
  BY HeadAsked DEF ServeSave, Asked
<1>2. PICK t \in Replies : Answers(t)
  <2>1. [k |-> "saved", to |-> Head(asks).to] \in Replies /\ [k |-> "failed"] \in Replies
    BY <1>1 DEF Replies, Saveds, Others
  <2> QED
    BY <2>1 DEF ServeSave
<1>3. /\ LinkTypes' /\ ReaderTypes' /\ QueueTypes' /\ KeptTypes' /\ LeftTypes'
      /\ serving' \in BOOLEAN /\ acts' \in Numbers /\ opens' \in 0..MaxOpens
  BY <1>1, <1>2, TypeAnswers
<1>4. faults' \in 0..MaxFaults
  BY FaultType DEF ServeSave, TypeInv, CountTypes
<1>5. disk' \in [Files -> Papers]
  <2>1. disk[Head(asks).to].v + 1 \in Nat /\ worker.marks \in SUBSET Marks /\ worker.field \in Numbers
    BY <1>1 DEF TypeInv, DocTypes, Papers, Workers
  <2>2. [v |-> disk[Head(asks).to].v + 1, marks |-> worker.marks, field |-> worker.field] \in Papers
    BY <2>1 DEF Papers
  <2> QED
    BY <1>1, <2>2 DEF ServeSave, TypeInv, DocTypes
<1>6. DocTypes' /\ skew' \in SUBSET Causes
  BY <1>3, <1>5 DEF ServeSave, TypeInv, DocTypes, historyVars
<1> QED
  BY <1>3, <1>4, <1>6 DEF TypeInv, CountTypes

LEMMA TypeWorkerDies == ASSUME TypeInv, WorkerDies PROVE TypeInv'
<1>1. LinkTypes' /\ ReaderTypes' /\ QueueTypes' /\ KeptTypes' /\ LeftTypes' /\ skew' \in SUBSET Causes
  BY DEF WorkerDies, TypeInv, LinkTypes, ReaderTypes, QueueTypes, KeptTypes, LeftTypes, linkVars,
         queueVars, journalVars
<1>2. DocTypes'
  BY DEF WorkerDies, TypeInv, DocTypes, Workers
<1>3. CountTypes'
  BY FaultType DEF WorkerDies, TypeInv, CountTypes
<1> QED
  BY <1>1, <1>2, <1>3 DEF TypeInv

LEMMA TypeServeLost == ASSUME TypeInv, ServeLost PROVE TypeInv'
<1>1. [k |-> "gone"] \in Replies
  BY DEF Replies, Others
<1>2. Append(told, [k |-> "gone"]) \in Seq(Replies)
  BY <1>1 DEF TypeInv, LinkTypes
<1>3. LinkTypes'
  BY <1>2, NothingQueued DEF ServeLost, LinkTypes
<1>4. ReaderTypes' /\ QueueTypes' /\ KeptTypes' /\ LeftTypes' /\ CountTypes' /\ skew' \in SUBSET Causes
  BY DEF ServeLost, TypeInv, ReaderTypes, QueueTypes, KeptTypes, LeftTypes, CountTypes, queueVars,
         journalVars, countVars, historyVars
<1>5. DocTypes'
  BY DEF ServeLost, TypeInv, DocTypes
<1> QED
  BY <1>3, <1>4, <1>5 DEF TypeInv

LEMMA TypeTakeAnswer ==
  ASSUME TypeInv, NEW kind, TakeAnswer(kind)
  PROVE  /\ told # <<>> /\ Head(told) \in Replies /\ Head(told).k = kind
         /\ told' = Tail(told) /\ told' \in Seq(Replies) /\ pumping' \in BOOLEAN
         /\ DocTypes' /\ LeftTypes' /\ acts' \in Numbers /\ opens' \in 0..MaxOpens
<1>1. /\ told # <<>> /\ Head(told).k = kind /\ told' = Tail(told)
      /\ Head(told) \in Replies /\ Tail(told) \in Seq(Replies)
  BY HeadTailProperties DEF TakeAnswer, TypeInv, LinkTypes
<1>2. pumping' \in BOOLEAN
  BY DEF TakeAnswer
<1>3. DocTypes' /\ LeftTypes' /\ acts' \in Numbers /\ opens' \in 0..MaxOpens
  BY DEF TakeAnswer, TypeInv, DocTypes, LeftTypes, CountTypes
<1> QED
  BY <1>1, <1>2, <1>3

LEMMA ReplyTypes ==
  ASSUME NEW t \in Replies
  PROVE  /\ t.k = "applied" => t.rev \in Nat /\ t.did \in Ops /\ t.undo \in Ops
         /\ t.k = "form" => /\ t.commits \in BOOLEAN
                            /\ t.commits => /\ t.named \in BOOLEAN /\ t.rev \in Nat
                                            /\ t.was \in Numbers /\ t.val \in Numbers
         /\ t.k = "saved" => t.to \in Files
         /\ t.k = "refused" => t.op \in Ops /\ t.behind \in SUBSET Causes
BY DEF Replies, Applieds, Refusals, IdleForms, Commits, Saveds, Others

LEMMA PendingHead ==
  ASSUME TypeInv, pending # <<>>
  PROVE  /\ Head(pending).op \in Ops /\ Head(pending).kind \in {"edit", "undo", "redo"}
         /\ Head(pending).epoch \in Nat /\ Tail(pending) \in Seq(Pendings)
<1>1. Head(pending) \in Pendings /\ Tail(pending) \in Seq(Pendings)
  BY HeadTailProperties DEF TypeInv, QueueTypes
<1> QED
  BY <1>1 DEF Pendings

LEMMA JournalledType ==
  ASSUME TypeInv, NEW e \in Entries, Journalled(e)
  PROVE  journal' \in Covers /\ own' \in Journals /\ faults' \in 0..MaxFaults
<1>1. journal \in Covers /\ own \in Journals /\ own.entries \in Seq(Entries)
  BY DEF TypeInv, KeptTypes, Journals
<1>2. journal.written \in 0..MaxEntries
  BY <1>1 DEF Covers
<1>3. faults' \in 0..MaxFaults
  BY FaultType DEF Journalled, TypeInv, CountTypes
<1>4. journal' \in Covers
  <2>1. [journal EXCEPT !.full = TRUE] \in Covers
    BY <1>1 DEF Covers
  <2>2. journal.written < MaxEntries => [journal EXCEPT !.written = @ + 1] \in Covers
    BY <1>1, <1>2, NumberFacts DEF Covers
  <2>3. CASE journal.on /\ journal.written < MaxEntries /\ journal.file
    BY <2>2, <2>3, <1>2, NumberFacts, BlankTypes DEF Journalled
  <2>4. CASE ~journal.on
    BY <2>4, <1>1 DEF Journalled
  <2>5. CASE journal.on /\ ~(journal.written < MaxEntries)
    <3>1. journal.written >= MaxEntries
      BY <2>5, <1>2, NumberFacts
    <3> QED
      BY <2>1, <2>5, <3>1 DEF Journalled
  <2>6. CASE journal.on /\ journal.written < MaxEntries /\ ~journal.file
    <3>1. ~(journal.written >= MaxEntries)
      BY <2>6, <1>2, NumberFacts
    <3> QED
      BY <2>6, <3>1, BlankTypes DEF Journalled
  <2> QED
    BY <2>3, <2>4, <2>5, <2>6
<1>5. own' \in Journals
  <2>1. Append(own.entries, e) \in Seq(Entries)
    BY <1>1
  <2>2. [own EXCEPT !.entries = Append(@, e)] \in Journals
    BY <1>1, <2>1 DEF Journals
  <2> QED
    BY <1>1, <2>2 DEF Journalled
<1> QED
  BY <1>3, <1>4, <1>5

LEMMA AdoptType ==
  ASSUME TypeInv, NEW kind \in {"edit", "undo", "redo"}, NEW t \in Replies, t.k = "applied"
  PROVE  Adopt(kind, t) \in Readers
<1>1. t.rev \in Nat /\ t.undo \in Ops
  BY ReplyTypes
<1>2. /\ reader \in Readers /\ reader.undo \in Seq(Ops) /\ reader.redo \in Seq(Ops)
      /\ reader.epoch \in Nat
  BY DEF TypeInv, ReaderTypes, Readers
<1>3. Append(reader.undo, t.undo) \in Seq(Ops) /\ Append(reader.redo, t.undo) \in Seq(Ops)
  BY <1>1, <1>2
<1>4. [rev |-> t.rev, undo |-> Append(reader.undo, t.undo), redo |-> <<>>,
       epoch |-> reader.epoch + 1] \in Readers
  BY <1>1, <1>2, <1>3, NothingQueued DEF Readers
<1>5. [reader EXCEPT !.rev = t.rev, !.redo = Append(@, t.undo)] \in Readers
  BY <1>1, <1>2, <1>3 DEF Readers
<1>6. [reader EXCEPT !.rev = t.rev, !.undo = Append(@, t.undo)] \in Readers
  BY <1>1, <1>2, <1>3 DEF Readers
<1> QED
  BY <1>4, <1>5, <1>6 DEF Adopt

(* The desk with the edit of an answer taken off. *)
Answered(s) == [s EXCEPT !.p = IF @ = <<>> THEN @ ELSE Tail(@)]

LEMMA AnsweredType == ASSUME NEW s \in Desks PROVE Answered(s) \in Desks
<1>1. s.p \in Seq(Pendings)
  BY DEF Desks
<1>2. s.p # <<>> => Tail(s.p) \in Seq(Pendings)
  BY <1>1, HeadTailProperties
<1> QED
  BY <1>1, <1>2 DEF Answered, Desks

LEMMA SettleType == ASSUME TypeInv, Settle PROVE skew' \in SUBSET Causes
BY DEF TypeInv, Settle

LEMMA EntryType ==
  ASSUME TypeInv, NEW t \in Replies, t.k = "applied"
  PROVE  EntryFor(t) \in Entries
<1>1. t.rev \in Nat /\ t.undo \in Ops
  BY ReplyTypes
<1>2. pending # <<>> => Head(pending).op \in Ops
  BY PendingHead
<1>3. CASE pending = <<>>
  BY <1>1, <1>3 DEF EntryFor, Entries
<1>4. CASE pending # <<>>
  BY <1>1, <1>2, <1>4 DEF EntryFor, Entries
<1> QED
  BY <1>3, <1>4

LEMMA TypeTakeApplied == ASSUME TypeInv, TakeApplied PROVE TypeInv'
<1> DEFINE t == Head(told)
           kind == IF pending = <<>> THEN "edit" ELSE Head(pending).kind
<1>1. /\ t \in Replies /\ t.k = "applied" /\ told' \in Seq(Replies) /\ pumping' \in BOOLEAN
      /\ DocTypes' /\ LeftTypes' /\ acts' \in Numbers /\ opens' \in 0..MaxOpens
  BY TypeTakeAnswer DEF TakeApplied
<1>2. t.rev \in Nat /\ t.did \in Ops
  BY <1>1, ReplyTypes
<1>3. kind \in {"edit", "undo", "redo"}
  BY PendingHead
<1>4. /\ reader' = Adopt(kind, t) /\ Journalled(EntryFor(t))
      /\ log' = Append(log, [rev |-> t.rev, op |-> t.did])
      /\ PutDesk(Released(Answered(Desk), t.rev, events))
      /\ Settle /\ UNCHANGED <<open, events, promise>>
  BY DEF TakeApplied, Answered
<1> HIDE DEF kind, t
<1>5. ReaderTypes'
  BY <1>1, <1>3, <1>4, AdoptType DEF TypeInv, ReaderTypes
<1>6. journal' \in Covers /\ own' \in Journals /\ faults' \in 0..MaxFaults
  BY <1>1, <1>4, EntryType, JournalledType
<1>7. log' \in Seq(Edits)
  <2>1. [rev |-> t.rev, op |-> t.did] \in Edits
    BY <1>2 DEF Edits
  <2>2. log \in Seq(Edits)
    BY DEF TypeInv, KeptTypes
  <2> QED
    BY <1>4, <2>1, <2>2
<1>8. Released(Answered(Desk), t.rev, events) \in Desks
  BY <1>2, DeskType, AnsweredType, ReleasedType
<1>9. pending' \in Seq(Pendings) /\ deferred' \in Seq(Ops) /\ asks' \in Seq(Requests)
  BY <1>4, <1>8, PutDeskType
<1>10. LinkTypes' /\ QueueTypes'
  BY <1>1, <1>4, <1>9 DEF TypeInv, LinkTypes, QueueTypes
<1>11. skew' \in SUBSET Causes
  BY <1>4, SettleType
<1> QED
  BY <1>1, <1>5, <1>6, <1>7, <1>10, <1>11 DEF TypeInv, KeptTypes, CountTypes

LEMMA PutBackType ==
  ASSUME TypeInv, NEW p \in Pendings
  PROVE  PutBack(p) \in Readers
<1>1. reader \in Readers /\ reader.undo \in Seq(Ops) /\ reader.redo \in Seq(Ops)
  BY DEF TypeInv, ReaderTypes, Readers
<1>2. p.op \in Ops /\ p.kind \in {"edit", "undo", "redo"}
  BY DEF Pendings
<1>3. Append(reader.undo, p.op) \in Seq(Ops) /\ Append(reader.redo, p.op) \in Seq(Ops)
  BY <1>1, <1>2
<1>4. /\ [reader EXCEPT !["undo"] = Append(@, p.op)] \in Readers
      /\ [reader EXCEPT !["redo"] = Append(@, p.op)] \in Readers
  BY <1>1, <1>3 DEF Readers
<1> QED
  BY <1>1, <1>2, <1>4 DEF PutBack

LEMMA TypeTakeRefused == ASSUME TypeInv, TakeRefused PROVE TypeInv'
<1>1. /\ told' \in Seq(Replies) /\ pumping' \in BOOLEAN
      /\ DocTypes' /\ LeftTypes' /\ acts' \in Numbers /\ opens' \in 0..MaxOpens
  BY TypeTakeAnswer DEF TakeRefused
<1>2. /\ reader' = IF pending = <<>> THEN reader ELSE PutBack(Head(pending))
      /\ PutDesk(Released(Answered(Desk), reader.rev, events))
      /\ Settle /\ UNCHANGED <<open, events, promise, journal, own, log, faults>>
  BY DEF TakeRefused, Answered
<1>3. reader \in Readers /\ reader.rev \in Nat
  BY DEF TypeInv, ReaderTypes, Readers
<1>4. pending # <<>> => Head(pending) \in Pendings
  BY HeadTailProperties DEF TypeInv, QueueTypes
<1>5. reader' \in Readers
  BY <1>2, <1>3, <1>4, PutBackType
<1>6. Released(Answered(Desk), reader.rev, events) \in Desks
  BY <1>3, DeskType, AnsweredType, ReleasedType
<1>7. pending' \in Seq(Pendings) /\ deferred' \in Seq(Ops) /\ asks' \in Seq(Requests)
  BY <1>2, <1>6, PutDeskType
<1>8. LinkTypes' /\ QueueTypes' /\ ReaderTypes'
  BY <1>1, <1>2, <1>5, <1>7 DEF TypeInv, LinkTypes, QueueTypes, ReaderTypes
<1>9. KeptTypes' /\ CountTypes' /\ skew' \in SUBSET Causes
  BY <1>1, <1>2, SettleType DEF TypeInv, KeptTypes, CountTypes
<1> QED
  BY <1>1, <1>8, <1>9 DEF TypeInv

LEMMA TypeTakeForm == ASSUME TypeInv, events # <<>>, TakeForm PROVE TypeInv'
<1> DEFINE t == Head(told)
           rev == IF t.commits THEN t.rev ELSE reader.rev
<1>1. /\ t \in Replies /\ t.k = "form" /\ told' \in Seq(Replies) /\ pumping' \in BOOLEAN
      /\ DocTypes' /\ LeftTypes' /\ acts' \in Numbers /\ opens' \in 0..MaxOpens
  BY TypeTakeAnswer DEF TakeForm
<1>2. reader \in Readers /\ reader.rev \in Nat /\ reader.undo \in Seq(Ops) /\ reader.epoch \in Nat
  BY DEF TypeInv, ReaderTypes, Readers
<1>3. t.commits => t.rev \in Nat /\ t.was \in Numbers /\ t.val \in Numbers
  BY <1>1, ReplyTypes
<1>4. rev \in Nat
  BY <1>2, <1>3
<1>5. /\ events' = Tail(events) /\ Settle /\ UNCHANGED <<open, promise>>
      /\ PutDesk(Released(Desk, rev, events'))
  BY DEF TakeForm
<1>6. reader' \in Readers /\ journal' \in Covers /\ own' \in Journals /\ log' \in Seq(Edits)
      /\ faults' \in 0..MaxFaults
  <2>1. CASE t.commits /\ t.named
    <3>1. SetField(t.was) \in Ops /\ SetField(t.val) \in Ops
      BY <1>3, <2>1, OpTypes
    <3>2. Append(reader.undo, SetField(t.was)) \in Seq(Ops)
      BY <1>2, <3>1
    <3>3. reader' \in Readers
      <4>1. reader' = [rev |-> rev, undo |-> Append(reader.undo, SetField(t.was)),
                       redo |-> <<>>, epoch |-> reader.epoch + 1]
        BY <2>1 DEF TakeForm
      <4> HIDE DEF t, rev
      <4> QED
        BY <1>2, <1>4, <3>2, <4>1, NothingQueued DEF Readers
    <3>4. [rev |-> rev, via |-> "applied", op |-> SetField(t.val)] \in Entries
      BY <1>4, <3>1 DEF Entries
    <3>5. Journalled([rev |-> rev, via |-> "applied", op |-> SetField(t.val)])
      BY <2>1 DEF TakeForm
    <3>6. journal' \in Covers /\ own' \in Journals /\ faults' \in 0..MaxFaults
      BY <3>4, <3>5, JournalledType
    <3>7. log \in Seq(Edits) /\ [rev |-> rev, op |-> SetField(t.val)] \in Edits
      BY <1>4, <3>1 DEF TypeInv, KeptTypes, Edits
    <3>8. log' \in Seq(Edits)
      <4>1. log' = Append(log, [rev |-> rev, op |-> SetField(t.val)])
        BY <2>1 DEF TakeForm
      <4>2. Append(log, [rev |-> rev, op |-> SetField(t.val)]) \in Seq(Edits)
        BY <3>7
      <4> QED
        BY <4>1, <4>2
    <3> QED
      BY <3>3, <3>6, <3>8
  <2>2. CASE ~(t.commits /\ t.named)
    <3>1. reader' = [reader EXCEPT !.rev = rev] /\ UNCHANGED <<journal, own, log, faults>>
      BY <2>2 DEF TakeForm
    <3>2. reader' \in Readers
      BY <1>2, <1>4, <3>1 DEF Readers
    <3> QED
      BY <3>1, <3>2 DEF TypeInv, KeptTypes, CountTypes
  <2> QED
    BY <2>1, <2>2
<1>7. Released(Desk, rev, events') \in Desks
  BY <1>4, DeskType, ReleasedType
<1>8. pending' \in Seq(Pendings) /\ deferred' \in Seq(Ops) /\ asks' \in Seq(Requests)
  BY <1>5, <1>7, PutDeskType
<1>9. events' \in Seq(BOOLEAN)
  BY <1>5, HeadTailProperties DEF TypeInv, QueueTypes
<1>10. LinkTypes' /\ QueueTypes' /\ ReaderTypes'
  BY <1>1, <1>5, <1>6, <1>8, <1>9 DEF TypeInv, LinkTypes, QueueTypes, ReaderTypes
<1>11. KeptTypes' /\ CountTypes' /\ skew' \in SUBSET Causes
  BY <1>1, <1>5, <1>6, SettleType DEF KeptTypes, CountTypes
<1> QED
  BY <1>1, <1>10, <1>11 DEF TypeInv

LEMMA TypeTakeSaved == ASSUME TypeInv, TakeSaved PROVE TypeInv'
<1>1. /\ Head(told) \in Replies /\ Head(told).k = "saved" /\ told' \in Seq(Replies)
      /\ pumping' \in BOOLEAN
      /\ DocTypes' /\ LeftTypes' /\ acts' \in Numbers /\ opens' \in 0..MaxOpens
  BY TypeTakeAnswer DEF TakeSaved
<1>2. /\ PutDesk(Released(Desk, reader.rev, events)) /\ log' = <<>>
      /\ Settle /\ UNCHANGED <<open, reader, events, promise>>
  BY DEF TakeSaved
<1>3. Head(told).to \in Files /\ disk[Head(told).to].v \in Nat
  BY <1>1, ReplyTypes DEF TypeInv, DocTypes, Papers
<1>4. journal' \in Covers /\ own' \in Journals
  <2>1. /\ [on |-> TRUE, file |-> TRUE, written |-> 0, full |-> FALSE] \in Covers
        /\ [on |-> TRUE, file |-> FALSE, written |-> 0, full |-> FALSE] \in Covers
    BY NumberFacts DEF Covers
  <2>2. [of |-> Head(told).to, v |-> disk[Head(told).to].v, entries |-> <<>>] \in Journals
    BY <1>3 DEF Journals
  <2>3. own \in Journals /\ journal \in Covers
    BY DEF TypeInv, KeptTypes
  <2>4. [own EXCEPT !.entries = <<>>] \in Journals
    BY <2>3, NothingQueued DEF Journals
  <2> QED
    BY <2>1, <2>2, <2>3, <2>4, BlankTypes DEF TakeSaved
<1>5. faults' \in 0..MaxFaults
  BY FaultType DEF TakeSaved, TypeInv, CountTypes
<1>6. Released(Desk, reader.rev, events) \in Desks
  BY DeskType, ReleasedType DEF TypeInv, ReaderTypes, Readers
<1>7. pending' \in Seq(Pendings) /\ deferred' \in Seq(Ops) /\ asks' \in Seq(Requests)
  BY <1>2, <1>6, PutDeskType
<1>8. LinkTypes' /\ QueueTypes' /\ ReaderTypes'
  BY <1>1, <1>2, <1>7 DEF TypeInv, LinkTypes, QueueTypes, ReaderTypes
<1>9. KeptTypes' /\ CountTypes' /\ skew' \in SUBSET Causes
  BY <1>1, <1>2, <1>4, <1>5, SettleType DEF KeptTypes, CountTypes
<1> QED
  BY <1>1, <1>8, <1>9 DEF TypeInv

LEMMA TypeTakeFailed == ASSUME TypeInv, TakeFailed PROVE TypeInv'
<1>1. /\ told' \in Seq(Replies) /\ pumping' \in BOOLEAN
      /\ DocTypes' /\ LeftTypes' /\ acts' \in Numbers /\ opens' \in 0..MaxOpens
  BY TypeTakeAnswer DEF TakeFailed
<1>2. /\ PutDesk(Released(Desk, reader.rev, events)) /\ Settle
      /\ UNCHANGED <<open, reader, events, promise, journal, own, log, faults>>
  BY DEF TakeFailed
<1>3. Released(Desk, reader.rev, events) \in Desks
  BY DeskType, ReleasedType DEF TypeInv, ReaderTypes, Readers
<1>4. pending' \in Seq(Pendings) /\ deferred' \in Seq(Ops) /\ asks' \in Seq(Requests)
  BY <1>2, <1>3, PutDeskType
<1>5. LinkTypes' /\ QueueTypes' /\ ReaderTypes'
  BY <1>1, <1>2, <1>4 DEF TypeInv, LinkTypes, QueueTypes, ReaderTypes
<1>6. KeptTypes' /\ CountTypes' /\ skew' \in SUBSET Causes
  BY <1>1, <1>2, SettleType DEF TypeInv, KeptTypes, CountTypes
<1> QED
  BY <1>1, <1>5, <1>6 DEF TypeInv

LEMMA TypeTakeGone == ASSUME TypeInv, TakeGone PROVE TypeInv'
<1>1. LinkTypes' /\ QueueTypes' /\ serving' \in BOOLEAN /\ reader' \in Readers /\ skew' \in SUBSET Causes
  BY ForgetType DEF TakeGone
<1>2. DocTypes' /\ ReaderTypes'
  BY <1>1 DEF TakeGone, TypeInv, DocTypes, ReaderTypes
<1>3. KeptTypes' /\ LeftTypes' /\ CountTypes'
  BY DEF TakeGone, TypeInv, KeptTypes, LeftTypes, CountTypes, journalVars, countVars
<1> QED
  BY <1>1, <1>2, <1>3 DEF TypeInv

LEMMA TypeUser ==
  ASSUME TypeInv, Ascending(offer), User
  PROVE  TypeInv'
<1>1. CASE Draw \/ Erase
  BY <1>1, TypeDraw, TypeErase
<1>2. CASE Undo \/ Redo
  BY <1>2, TypeTakeBack DEF Undo, Redo
<1>3. CASE \E may \in BOOLEAN : FormEvent(may)
  BY <1>3, TypeFormEvent
<1>4. CASE \E f \in Files : SaveAs(f) \/ Open(f)
  BY <1>4, TypeSaveAs, TypeOpen
<1>5. CASE PutAway \/ RestoreEdits \/ DiscardEdits
  BY <1>5, TypePutAway, TypeRestoreEdits, TypeDiscardEdits
<1> QED
  BY <1>1, <1>2, <1>3, <1>4, <1>5 DEF User

LEMMA TypeServe == ASSUME TypeInv, Serve PROVE TypeInv'
BY TypeServeEdit, TypeRefusals, TypeServeForm, TypeServeSave, TypeServeLost DEF Serve

LEMMA TypePump ==
  ASSUME TypeInv, TakeForm => events # <<>>, Pump
  PROVE  TypeInv'
BY TypeTakeApplied, TypeTakeRefused, TypeTakeForm, TypeTakeSaved, TypeTakeFailed, TypeTakeGone
   DEF Pump

LEMMA TypeStutter == ASSUME TypeInv, UNCHANGED vars PROVE TypeInv'
BY DEF TypeInv, DocTypes, LinkTypes, ReaderTypes, QueueTypes, KeptTypes, LeftTypes, CountTypes,
       vars, docVars, linkVars, queueVars, journalVars, historyVars, countVars

LEMMA TypeNext ==
  ASSUME TypeInv, Ascending(offer), TakeForm => events # <<>>, [Next]_vars
  PROVE  TypeInv'
<1>1. CASE User
  BY <1>1, TypeUser
<1>2. CASE Serve
  BY <1>2, TypeServe
<1>3. CASE Pump
  BY <1>3, TypePump
<1>4. CASE WorkerDies \/ Crash
  BY <1>4, TypeWorkerDies, TypeCrash
<1>5. CASE UNCHANGED vars
  BY <1>5, TypeStutter
<1> QED
  BY <1>1, <1>2, <1>3, <1>4, <1>5 DEF Next

(***************************************************************************)
(* The link, as one queue: what was told and then what was asked.          *)
(***************************************************************************)
Messages == Replies \cup Requests

LEMMA StreamType ==
  ASSUME NEW T \in Seq(Replies), NEW a \in Seq(Requests)
  PROVE  /\ T \o a \in Seq(Messages) /\ Len(T) \in Nat /\ Len(a) \in Nat
         /\ Len(T \o a) = Len(T) + Len(a) /\ DOMAIN (T \o a) = 1..(Len(T) + Len(a))
         /\ \A i \in 1..Len(T) : (T \o a)[i] = T[i] /\ T[i] \in Replies
         /\ \A i \in 1..Len(a) : (T \o a)[Len(T) + i] = a[i] /\ a[i] \in Requests
<1>1. T \in Seq(Messages) /\ a \in Seq(Messages)
  BY SeqMonotonic DEF Messages
<1>2. /\ T \o a \in Seq(Messages) /\ Len(T \o a) = Len(T) + Len(a)
      /\ \A i \in 1..Len(T) + Len(a) : (T \o a)[i] = IF i <= Len(T) THEN T[i] ELSE a[i - Len(T)]
  BY <1>1, ConcatProperties
<1>3. Len(T) \in Nat /\ Len(a) \in Nat
  OBVIOUS
<1>4. \A i \in 1..Len(a) : Len(T) + i \in 1..Len(T) + Len(a) /\ ~(Len(T) + i <= Len(T))
                           /\ (Len(T) + i) - Len(T) = i
  BY <1>3
<1>5. \A i \in 1..Len(T) : i \in 1..Len(T) + Len(a) /\ i <= Len(T)
  BY <1>3
<1>6. \A i \in 1..Len(T) : (T \o a)[i] = T[i] /\ T[i] \in Replies
  BY <1>2, <1>5
<1>7. \A i \in 1..Len(a) : (T \o a)[Len(T) + i] = a[i] /\ a[i] \in Requests
  BY <1>2, <1>4
<1>8. DOMAIN (T \o a) = 1..(Len(T) + Len(a))
  BY <1>2, LenProperties
<1> QED
  BY <1>2, <1>3, <1>6, <1>7, <1>8

LEMMA StreamPush ==
  ASSUME NEW T \in Seq(Replies), NEW a \in Seq(Requests), NEW x \in Requests
  PROVE  T \o Append(a, x) = Append(T \o a, x)
<1>1. T \in Seq(Messages) /\ a \in Seq(Messages) /\ x \in Messages /\ <<x>> \in Seq(Messages)
  BY SeqMonotonic DEF Messages
<1>2. T \o a \in Seq(Messages)
  BY <1>1
<1>3. Append(a, x) = a \o <<x>> /\ Append(T \o a, x) = (T \o a) \o <<x>>
  BY <1>1, <1>2, AppendIsConcat
<1> QED
  BY <1>1, <1>3, ConcatAssociative

LEMMA StreamPop ==
  ASSUME NEW T \in Seq(Replies), NEW a \in Seq(Requests), T # <<>>
  PROVE  /\ Tail(T) \o a = Tail(T \o a) /\ T \o a # <<>> /\ Head(T) = (T \o a)[1] /\ Head(T) = T[1]
         /\ Tail(T) \in Seq(Replies) /\ Len(Tail(T)) = Len(T) - 1 /\ Len(T) >= 1
         /\ \A i \in 1..Len(Tail(T)) : Tail(T)[i] = T[i + 1]
<1> DEFINE q == T \o a
           r == Tail(T) \o a
<1>1. /\ q \in Seq(Messages) /\ Len(T) \in Nat /\ Len(a) \in Nat /\ Len(q) = Len(T) + Len(a)
      /\ \A i \in 1..Len(T) : q[i] = T[i]
      /\ \A i \in 1..Len(a) : q[Len(T) + i] = a[i]
  BY StreamType
<1>2. /\ Tail(T) \in Seq(Replies) /\ Len(T) >= 1 /\ Head(T) = T[1] /\ Len(Tail(T)) = Len(T) - 1
      /\ \A i \in 1..Len(T) - 1 : Tail(T)[i] = T[i + 1]
  BY HeadTailProperties
<1>3. /\ r \in Seq(Messages) /\ Len(r) = Len(T) - 1 + Len(a)
      /\ \A i \in 1..Len(T) - 1 : r[i] = Tail(T)[i]
      /\ \A i \in 1..Len(a) : r[Len(T) - 1 + i] = a[i]
  BY <1>2, StreamType
<1> HIDE DEF q, r
<1>4. q # <<>> /\ Len(q) >= 1
  BY <1>1, <1>2
<1>5. /\ Tail(q) \in Seq(Messages) /\ Len(Tail(q)) = Len(q) - 1
      /\ \A i \in 1..Len(q) - 1 : Tail(q)[i] = q[i + 1]
  BY <1>1, <1>4, HeadTailProperties
<1>6. ASSUME NEW i \in 1..Len(r) PROVE r[i] = Tail(q)[i]
  <2>1. i \in 1..Len(q) - 1
    BY <1>1, <1>3
  <2>2. CASE i <= Len(T) - 1
    <3>1. i \in 1..Len(T) - 1 /\ i + 1 \in 1..Len(T)
      BY <1>1, <2>1, <2>2
    <3> QED
      BY <1>1, <1>2, <1>3, <1>5, <2>1, <3>1
  <2>3. CASE ~(i <= Len(T) - 1)
    <3> DEFINE c == i - (Len(T) - 1)
    <3>1. c \in 1..Len(a) /\ i = Len(T) - 1 + c /\ i + 1 = Len(T) + c
      BY <1>1, <1>3, <2>1, <2>3
    <3> HIDE DEF c
    <3>2. r[i] = a[c] /\ q[i + 1] = a[c]
      BY <1>1, <1>3, <3>1
    <3> QED
      BY <1>5, <2>1, <3>2
  <2> QED
    BY <2>2, <2>3
<1>7. Len(r) = Len(Tail(q))
  BY <1>1, <1>3, <1>5
<1>8. r = Tail(q)
  BY <1>3, <1>5, <1>6, <1>7, SeqEqual
<1>9. Head(T) = q[1]
  BY <1>1, <1>2
<1> QED
  BY <1>2, <1>4, <1>8, <1>9 DEF q, r

LEMMA StreamServe ==
  ASSUME NEW T \in Seq(Replies), NEW a \in Seq(Requests), a # <<>>, NEW y \in Replies
  PROVE  /\ Append(T, y) \in Seq(Replies) /\ Tail(a) \in Seq(Requests)
         /\ Len(Append(T, y)) = Len(T) + 1 /\ Len(Tail(a)) = Len(a) - 1 /\ Len(a) >= 1
         /\ Len(Append(T, y) \o Tail(a)) = Len(T \o a)
         /\ (T \o a)[Len(T) + 1] = Head(a) /\ Head(a) = a[1] /\ Head(a) \in Requests
         /\ (Append(T, y) \o Tail(a))[Len(T) + 1] = y
         /\ \A i \in 1..Len(T \o a) :
              i # Len(T) + 1 => (Append(T, y) \o Tail(a))[i] = (T \o a)[i]
         /\ \A i \in 1..Len(a) - 1 : Tail(a)[i] = a[i + 1]
         /\ \A i \in 1..Len(T) : Append(T, y)[i] = T[i]
         /\ Append(T, y)[Len(T) + 1] = y
<1> DEFINE U == Append(T, y)
           b == Tail(a)
           q == T \o a
           r == U \o b
<1>1. /\ U \in Seq(Replies) /\ Len(U) = Len(T) + 1 /\ \A i \in 1..Len(T) : U[i] = T[i]
      /\ U[Len(T) + 1] = y
  BY AppendProperties
<1>2. /\ b \in Seq(Requests) /\ Len(b) = Len(a) - 1 /\ Head(a) = a[1] /\ Head(a) \in Requests
      /\ \A i \in 1..Len(a) - 1 : b[i] = a[i + 1]
      /\ Len(a) >= 1
  BY HeadTailProperties
<1>3. /\ Len(T) \in Nat /\ Len(a) \in Nat /\ Len(q) = Len(T) + Len(a)
      /\ \A i \in 1..Len(T) : q[i] = T[i]
      /\ \A i \in 1..Len(a) : q[Len(T) + i] = a[i]
  BY StreamType
<1>4. /\ Len(r) = Len(U) + Len(b)
      /\ \A i \in 1..Len(U) : r[i] = U[i]
      /\ \A i \in 1..Len(b) : r[Len(U) + i] = b[i]
  BY <1>1, <1>2, StreamType
<1> HIDE DEF U, b, q, r
<1>5. ASSUME NEW i \in 1..Len(q), i # Len(T) + 1 PROVE r[i] = q[i]
  <2>1. CASE i <= Len(T)
    <3>1. i \in 1..Len(T) /\ i \in 1..Len(U)
      BY <1>1, <1>3, <2>1
    <3> QED
      BY <1>1, <1>3, <1>4, <3>1
  <2>2. CASE ~(i <= Len(T))
    <3> DEFINE c == i - (Len(T) + 1)
    <3>1. c \in 1..Len(a) - 1 /\ c + 1 \in 1..Len(a) /\ i = Len(T) + (c + 1) /\ i = Len(U) + c
      BY <1>1, <1>3, <1>5, <2>2
    <3> HIDE DEF c
    <3>2. r[i] = b[c] /\ q[i] = a[c + 1] /\ b[c] = a[c + 1]
      BY <1>2, <1>3, <1>4, <3>1
    <3> QED
      BY <3>2
  <2> QED
    BY <2>1, <2>2
<1>6. r[Len(T) + 1] = y /\ q[Len(T) + 1] = Head(a) /\ Len(r) = Len(q)
  <2>1. Len(T) + 1 \in 1..Len(U) /\ 1 \in 1..Len(a)
    BY <1>1, <1>2, <1>3
  <2> QED
    BY <1>1, <1>2, <1>3, <1>4, <2>1
<1> QED
  BY <1>1, <1>2, <1>5, <1>6 DEF U, b, q, r

(* The places of the messages of a set. *)
Places(q, X) == {i \in DOMAIN q : q[i] \in X}

LEMMA PlacesType ==
  ASSUME NEW M, NEW q \in Seq(M), NEW X
  PROVE  /\ Len(q) \in Nat /\ DOMAIN q = 1..Len(q) /\ Places(q, X) \in SUBSET (1..Len(q))
         /\ Cardinality(Places(q, X)) \in Nat
         /\ \A i \in Places(q, X) : UpTo(Places(q, X), i) \in 1..Cardinality(Places(q, X))
<1>1. Len(q) \in Nat /\ DOMAIN q = 1..Len(q)
  OBVIOUS
<1>2. Places(q, X) \in SUBSET (1..Len(q))
  BY <1>1 DEF Places
<1> QED
  BY <1>1, <1>2, UpToType

LEMMA PlacesPush ==
  ASSUME NEW M, NEW q \in Seq(M), NEW x \in M, NEW X
  PROVE  /\ x \notin X => Places(Append(q, x), X) = Places(q, X)
         /\ x \in X => /\ Places(Append(q, x), X) = Places(q, X) \cup {Len(q) + 1}
                       /\ Cardinality(Places(Append(q, x), X)) = Cardinality(Places(q, X)) + 1
                       /\ \A i \in 1..Len(q) :
                            UpTo(Places(Append(q, x), X), i) = UpTo(Places(q, X), i)
                       /\ UpTo(Places(Append(q, x), X), Len(q) + 1)
                            = Cardinality(Places(q, X)) + 1
<1> DEFINE r == Append(q, x)
           n == Len(q)
<1>1. /\ r \in Seq(M) /\ Len(r) = n + 1 /\ \A i \in 1..n : r[i] = q[i]
      /\ r[n + 1] = x
  BY AppendProperties
<1>2. n \in Nat /\ DOMAIN q = 1..n /\ DOMAIN r = 1..(n + 1) /\ Places(q, X) \in SUBSET (1..n)
  BY <1>1, PlacesType
<1> HIDE DEF r, n
<1>3. \A i \in 1..(n + 1) : i \in 1..n \/ i = n + 1
  BY <1>2
<1>4. x \notin X => Places(r, X) = Places(q, X)
  BY <1>1, <1>2, <1>3 DEF Places
<1>5. x \in X => Places(r, X) = Places(q, X) \cup {n + 1}
  <2>1. 1..n \subseteq 1..(n + 1) /\ n + 1 \in 1..(n + 1)
    BY <1>2
  <2> QED
    BY <1>1, <1>2, <1>3, <2>1 DEF Places
<1>6. /\ Cardinality(Places(q, X) \cup {n + 1}) = Cardinality(Places(q, X)) + 1
      /\ \A i \in 1..n : UpTo(Places(q, X) \cup {n + 1}, i) = UpTo(Places(q, X), i)
      /\ UpTo(Places(q, X) \cup {n + 1}, n + 1) = Cardinality(Places(q, X)) + 1
  BY <1>2, UpToPush
<1> QED
  BY <1>4, <1>5, <1>6 DEF r, n

LEMMA PlacesPop ==
  ASSUME NEW M, NEW q \in Seq(M), q # <<>>, NEW X
  PROVE  /\ Places(Tail(q), X) = Shifted(Places(q, X))
         /\ 1 \in Places(q, X) <=> q[1] \in X
         /\ \A i \in Places(Tail(q), X) : i \in Nat /\ i + 1 \in Places(q, X)
         /\ \A i \in 1..Len(q) - 1 : Tail(q)[i] = q[i + 1]
         /\ q[1] \in X =>
              /\ Cardinality(Places(Tail(q), X)) = Cardinality(Places(q, X)) - 1
              /\ UpTo(Places(q, X), 1) = 1
              /\ \A i \in Nat : UpTo(Places(Tail(q), X), i) = UpTo(Places(q, X), i + 1) - 1
         /\ q[1] \notin X =>
              /\ Cardinality(Places(Tail(q), X)) = Cardinality(Places(q, X))
              /\ \A i \in Nat : UpTo(Places(Tail(q), X), i) = UpTo(Places(q, X), i + 1)
<1> DEFINE r == Tail(q)
           n == Len(q)
<1>1. r \in Seq(M) /\ Len(r) = n - 1 /\ \A i \in 1..n - 1 : r[i] = q[i + 1]
  BY HeadTailProperties
<1>2. n \in Nat /\ n >= 1 /\ DOMAIN q = 1..n /\ Places(q, X) \in SUBSET (1..n)
  BY PlacesType
<1>3. DOMAIN r = 1..n - 1
  BY <1>1, LenProperties
<1> HIDE DEF r, n
<1>4. 1 \in Places(q, X) <=> q[1] \in X
  BY <1>2 DEF Places
<1>5. \A i \in Places(r, X) : i \in Nat /\ i + 1 \in Places(q, X) /\ i + 1 # 1
  BY <1>1, <1>2, <1>3 DEF Places
<1>6. \A j \in Places(q, X) \ {1} : j - 1 \in Places(r, X) /\ (j - 1) + 1 = j
  BY <1>1, <1>2, <1>3 DEF Places
<1>7. Places(r, X) = Shifted(Places(q, X))
  <2>1. Places(r, X) \subseteq Shifted(Places(q, X))
    <3> SUFFICES ASSUME NEW i \in Places(r, X) PROVE i \in Shifted(Places(q, X))
      OBVIOUS
    <3>1. i + 1 \in Places(q, X) \ {1} /\ i = (i + 1) - 1
      BY <1>5
    <3> QED
      BY <3>1 DEF Shifted
  <2>2. Shifted(Places(q, X)) \subseteq Places(r, X)
    BY <1>6 DEF Shifted
  <2> QED
    BY <2>1, <2>2
<1>8. /\ Cardinality(Shifted(Places(q, X))) = IF 1 \in Places(q, X)
                                              THEN Cardinality(Places(q, X)) - 1
                                              ELSE Cardinality(Places(q, X))
      /\ \A i \in Nat : UpTo(Shifted(Places(q, X)), i) = IF 1 \in Places(q, X)
                                                         THEN UpTo(Places(q, X), i + 1) - 1
                                                         ELSE UpTo(Places(q, X), i + 1)
      /\ 1 \in Places(q, X) => UpTo(Places(q, X), 1) = 1
  BY <1>2, UpToPop
<1> QED
  BY <1>1, <1>4, <1>5, <1>7, <1>8 DEF r, n

LEMMA PlacesJoin ==
  ASSUME NEW T \in Seq(Replies), NEW a \in Seq(Requests), NEW X
  PROVE  Cardinality(Places(T \o a, X)) = Cardinality(Places(T, X)) + Cardinality(Places(a, X))
<1> DEFINE q == T \o a
           n == Len(T)
           A == Places(T, X)
           B == Places(a, X)
           C == {n + i : i \in B}
<1>1. /\ n \in Nat /\ Len(a) \in Nat /\ DOMAIN q = 1..(n + Len(a))
      /\ \A i \in 1..n : q[i] = T[i]
      /\ \A i \in 1..Len(a) : q[n + i] = a[i]
  BY StreamType
<1>2. /\ DOMAIN T = 1..n /\ DOMAIN a = 1..Len(a)
      /\ A \in SUBSET (1..n) /\ B \in SUBSET (1..Len(a))
  BY PlacesType
<1>3. IsFiniteSet(A) /\ IsFiniteSet(B)
  BY <1>1, <1>2, UpToType
<1> HIDE DEF q, n
<1>4. Places(q, X) = A \cup C
  <2>1. A \cup C \subseteq Places(q, X)
    <3>1. A \subseteq Places(q, X)
      BY <1>1, <1>2 DEF Places
    <3>2. ASSUME NEW i \in B PROVE n + i \in Places(q, X)
      <4>1. i \in 1..Len(a) /\ a[i] \in X
        BY <1>2 DEF Places
      <4>2. n + i \in 1..(n + Len(a)) /\ q[n + i] = a[i]
        BY <1>1, <4>1
      <4> QED
        BY <1>1, <4>1, <4>2 DEF Places
    <3> QED
      BY <3>1, <3>2
  <2>2. ASSUME NEW i \in Places(q, X) PROVE i \in A \cup C
    <3>1. i \in 1..(n + Len(a)) /\ q[i] \in X
      BY <1>1 DEF Places
    <3>2. CASE i <= n
      <4>1. i \in 1..n
        BY <1>1, <3>1, <3>2
      <4> QED
        BY <1>1, <1>2, <3>1, <4>1 DEF Places
    <3>3. CASE ~(i <= n)
      <4> DEFINE c == i - n
      <4>1. c \in 1..Len(a) /\ i = n + c
        BY <1>1, <3>1, <3>3
      <4> HIDE DEF c
      <4>2. a[c] \in X
        BY <1>1, <3>1, <4>1
      <4>3. c \in B
        BY <1>2, <4>1, <4>2 DEF Places
      <4> QED
        BY <4>1, <4>3
    <3> QED
      BY <3>2, <3>3
  <2> QED
    BY <2>1, <2>2
<1>5. IsFiniteSet(C) /\ Cardinality(C) = Cardinality(B)
  <2> DEFINE f == [i \in B |-> n + i]
  <2>1. \A i, j \in B : f[i] = f[j] => i = j
    BY <1>1, <1>2
  <2>2. (\A i \in B : f[i] \in C) /\ \A c \in C : \E i \in B : f[i] = c
    OBVIOUS
  <2>3. f \in Bijection(B, C)
    BY <2>1, <2>2 DEF Bijection, Injection, Surjection, IsInjective
  <2> QED
    BY <1>3, <2>3, FS_Bijection DEF ExistsBijection
<1>6. A \cap C = {}
  <2> SUFFICES ASSUME NEW x \in A, x \in C PROVE FALSE
    OBVIOUS
  <2>1. x \in Nat /\ x <= n
    BY <1>1, <1>2
  <2>2. PICK i \in B : x = n + i
    OBVIOUS
  <2>3. i \in Nat /\ i >= 1
    BY <1>1, <1>2
  <2> QED
    BY <1>1, <2>1, <2>2, <2>3
<1>7. Cardinality(A \cup C) = Cardinality(A) + Cardinality(C) - Cardinality(A \cap C)
  BY <1>3, <1>5, FS_Union
<1>8. Cardinality(A \cap C) = 0
  BY <1>6, FS_EmptySet
<1>9. Cardinality(A) \in Nat /\ Cardinality(B) \in Nat
  BY <1>3, FS_CardinalityType
<1>10. Cardinality(Places(q, X)) = Cardinality(A) + Cardinality(B)
  BY <1>4, <1>5, <1>7, <1>8, <1>9
<1> QED
  BY <1>10 DEF q

EditMsgs == {m \in Messages : IsEdit(m)}
FormMsgs == {m \in Messages : m.k = "form"}
MoveMsgs == {m \in Replies : m.k = "applied" \/ (m.k = "form" /\ m.commits)}

(* The n-th mutation of the link is the n-th edit that is pending. *)
PairedEdits(q, p) ==
  \A i \in Places(q, EditMsgs) :
    /\ UpTo(Places(q, EditMsgs), i) \in DOMAIN p
    /\ p[UpTo(Places(q, EditMsgs), i)].op = OpOf(q[i])

(* The n-th form event of the link is the n-th in flight; one that commits  *)
(* unannounced leaves its mark.                                             *)
PairedForms(q, n, E, K) ==
  \A i \in Places(q, FormMsgs) :
    LET e == UpTo(Places(q, FormMsgs), i) IN
    /\ e \in DOMAIN E
    /\ i > n => E[e] = q[i].may
    /\ i <= n /\ q[i].commits /\ ~E[e] => K # {}

AllOwed(q, p, E) == /\ Cardinality(Places(q, EditMsgs)) = Len(p)
                    /\ Cardinality(Places(q, FormMsgs)) = Len(E)

(* Each answer that moves the revision moves the reader's by one. *)
Revised(T, R, W) ==
  /\ W = R + Cardinality(Places(T, MoveMsgs))
  /\ \A i \in Places(T, MoveMsgs) : T[i].rev = R + UpTo(Places(T, MoveMsgs), i)

(* Unless something moved the revision behind the reader's back, each       *)
(* transaction names the revision it will meet.                             *)
ExpectsRight(a, W, K) ==
  K = {} => \A i \in DOMAIN a :
              a[i].k = "apply" => a[i].exp + 1 = W + UpTo(Places(a, EditMsgs), i)

(* No transaction is posted behind an event that may commit. *)
NoneBehind(a) ==
  \A i, j \in DOMAIN a : i < j /\ a[i].k = "form" /\ a[i].may => a[j].k # "apply"

RefusalsSeen(T, K) == \A i \in DOMAIN T : T[i].k = "refused" => K # {}

CauseSeen(T) ==
  \A i \in DOMAIN T :
    T[i].k = "refused" /\ T[i].why = "conflict" /\ T[i].was = "apply" => T[i].behind # {}

(* What holds of the link: told T, asked a; of the reader: pending p,       *)
(* events E, revision R; of the worker's revision W; and of what has been   *)
(* moved in between, K.  V is whether the thread runs.                      *)
LinkInv(T, a, p, E, R, W, K, V) ==
  /\ PairedEdits(T \o a, p) /\ PairedForms(T \o a, Len(T), E, K)
  /\ V => AllOwed(T \o a, p, E)
  /\ ~V => a = <<>>
  /\ Revised(T, R, W) /\ ExpectsRight(a, W, K) /\ NoneBehind(a)
  /\ RefusalsSeen(T, K) /\ CauseSeen(T)

LEMMA MessageKinds ==
  /\ EditRequests \subseteq Requests /\ EditRequests \subseteq EditMsgs
  /\ \A x \in EditRequests : x \notin FormMsgs
  /\ \A x \in FormRequests : x \in Requests /\ x \in FormMsgs /\ x \notin EditMsgs
  /\ \A x \in SaveRequests : x \in Requests /\ x \notin FormMsgs /\ x \notin EditMsgs
<1>1. ASSUME NEW x \in EditRequests PROVE x \in Requests /\ x \in EditMsgs /\ x \notin FormMsgs
  BY DEF EditRequests, Requests, EditMsgs, FormMsgs, Messages, IsEdit
<1>2. ASSUME NEW x \in FormRequests PROVE x \in Requests /\ x \in FormMsgs /\ x \notin EditMsgs
  BY DEF FormRequests, Requests, EditMsgs, FormMsgs, Messages, IsEdit
<1>3. ASSUME NEW x \in SaveRequests PROVE x \in Requests /\ x \notin FormMsgs /\ x \notin EditMsgs
  BY DEF SaveRequests, Requests, EditMsgs, FormMsgs, Messages, IsEdit
<1> QED
  BY <1>1, <1>2, <1>3

(* A form event of the link that has not been answered may commit only if   *)
(* the reader knows that it may.                                            *)
LEMMA NoQuietForm ==
  ASSUME NEW T \in Seq(Replies), NEW a \in Seq(Requests), NEW p, NEW E \in Seq(BOOLEAN),
         NEW R, NEW W, NEW K, NEW V, LinkInv(T, a, p, E, R, W, K, V), ~MayCommitOut(E),
         NEW i \in DOMAIN a, a[i].k = "form"
  PROVE  ~a[i].may
<1> DEFINE q == T \o a
           c == Len(T) + i
           e == UpTo(Places(q, FormMsgs), c)
<1>1. /\ i \in 1..Len(a) /\ Len(T) \in Nat /\ Len(a) \in Nat /\ q \in Seq(Messages)
      /\ DOMAIN q = 1..(Len(T) + Len(a)) /\ q[c] = a[i] /\ a[i] \in Requests
  BY StreamType
<1>2. c \in Places(q, FormMsgs) /\ c > Len(T)
  BY <1>1 DEF Places, FormMsgs, Messages
<1>3. e \in DOMAIN E /\ E[e] = q[c].may
  BY <1>2 DEF LinkInv, PairedForms
<1>4. ~E[e]
  BY <1>3 DEF MayCommitOut
<1> QED
  BY <1>1, <1>3, <1>4

(* The revision a transaction posted now will meet. *)
LEMMA QuietCount ==
  ASSUME NEW T \in Seq(Replies), NEW a \in Seq(Requests), NEW p \in Seq(Pendings),
         NEW E \in Seq(BOOLEAN), NEW R \in Nat, NEW W \in Nat, NEW K,
         LinkInv(T, a, p, E, R, W, K, TRUE), ~MayCommitOut(E), K = {}
  PROVE  R + Len(p) = W + Cardinality(Places(a, EditMsgs))
<1> DEFINE q == T \o a
<1>1. /\ q \in Seq(Messages) /\ Len(T) \in Nat /\ DOMAIN q = 1..(Len(T) + Len(a)) /\ Len(a) \in Nat
      /\ \A i \in 1..Len(T) : q[i] = T[i] /\ T[i] \in Replies
  BY StreamType
<1>2. DOMAIN T = 1..Len(T)
  OBVIOUS
<1>3. ASSUME NEW i \in 1..Len(T) PROVE T[i] \in EditMsgs <=> T[i] \in MoveMsgs
  <2>1. T[i] \in Replies /\ T[i] \in Messages /\ q[i] = T[i]
    BY <1>1 DEF Messages
  <2>2. T[i].k # "refused"
    BY <1>2 DEF LinkInv, RefusalsSeen
  <2>3. T[i].k \notin {"apply", "undo"}
    BY <2>1 DEF Replies, Applieds, Refusals, IdleForms, Commits, Saveds, Others
  <2>4. ~(T[i].k = "form" /\ T[i].commits)
    <3> SUFFICES ASSUME T[i].k = "form", T[i].commits PROVE FALSE
      OBVIOUS
    <3> DEFINE e == UpTo(Places(q, FormMsgs), i)
    <3>1. i \in Places(q, FormMsgs) /\ i <= Len(T)
      BY <1>1, <2>1 DEF Places, FormMsgs
    <3>2. e \in DOMAIN E /\ E[e]
      BY <2>1, <3>1 DEF LinkInv, PairedForms
    <3> QED
      BY <3>2 DEF MayCommitOut
  <2> QED
    BY <2>1, <2>2, <2>3, <2>4 DEF EditMsgs, MoveMsgs, IsEdit
<1>4. Places(T, EditMsgs) = Places(T, MoveMsgs)
  BY <1>2, <1>3 DEF Places
<1>5. Cardinality(Places(q, EditMsgs))
        = Cardinality(Places(T, EditMsgs)) + Cardinality(Places(a, EditMsgs))
  BY PlacesJoin
<1>6. W = R + Cardinality(Places(T, MoveMsgs)) /\ Cardinality(Places(q, EditMsgs)) = Len(p)
  BY DEF LinkInv, Revised, AllOwed
<1>7. Cardinality(Places(T, MoveMsgs)) \in Nat /\ Cardinality(Places(a, EditMsgs)) \in Nat
  BY PlacesType
<1> HIDE DEF q
<1>8. Len(p) = Cardinality(Places(T, MoveMsgs)) + Cardinality(Places(a, EditMsgs))
  BY <1>4, <1>5, <1>6
<1> QED
  BY <1>6, <1>7, <1>8

(* One more mutation is posted. *)
LEMMA LinkPush ==
  ASSUME NEW T \in Seq(Replies), NEW a \in Seq(Requests), NEW p \in Seq(Pendings),
         NEW E \in Seq(BOOLEAN), NEW R \in Nat, NEW W \in Nat, NEW K,
         LinkInv(T, a, p, E, R, W, K, TRUE),
         NEW x \in EditRequests, NEW y \in Pendings, y.op = x.op,
         x.k = "apply" => ~MayCommitOut(E) /\ x.exp = R + Len(p)
  PROVE  LinkInv(T, Append(a, x), Append(p, y), E, R, W, K, TRUE)
<1> DEFINE q == T \o a
           r == Append(q, x)
           n == Len(q)
           b == Append(a, x)
           o == Append(p, y)
           S == Places(q, EditMsgs)
           G == Places(q, FormMsgs)
<1>1. /\ q \in Seq(Messages) /\ Len(T) \in Nat /\ Len(a) \in Nat /\ n = Len(T) + Len(a)
      /\ DOMAIN q = 1..n /\ n \in Nat
  BY StreamType
<1>2. /\ x \in Requests /\ x \in Messages /\ x \in EditMsgs /\ x \notin FormMsgs
  BY MessageKinds DEF Messages
<1>3. T \o b = r
  BY <1>2, StreamPush
<1>4. /\ r \in Seq(Messages) /\ Len(r) = n + 1 /\ r[n + 1] = x /\ \A i \in 1..n : r[i] = q[i]
  BY <1>1, <1>2, AppendProperties
<1>5. /\ Len(o) = Len(p) + 1 /\ o[Len(p) + 1] = y /\ \A i \in 1..Len(p) : o[i] = p[i]
      /\ DOMAIN o = 1..(Len(p) + 1) /\ DOMAIN p = 1..Len(p) /\ Len(p) \in Nat
  <2>1. o \in Seq(Pendings) /\ Len(o) = Len(p) + 1
    BY AppendProperties
  <2>2. o[Len(p) + 1] = y /\ \A i \in 1..Len(p) : o[i] = p[i]
    BY AppendProperties
  <2> QED
    BY <2>1, <2>2, LenProperties
<1>6. /\ Places(r, EditMsgs) = S \cup {n + 1} /\ Cardinality(Places(r, EditMsgs)) = Cardinality(S) + 1
      /\ \A i \in 1..n : UpTo(Places(r, EditMsgs), i) = UpTo(S, i)
      /\ UpTo(Places(r, EditMsgs), n + 1) = Cardinality(S) + 1
      /\ Places(r, FormMsgs) = G
  <2>1. q \in Seq(Messages) /\ x \in Messages /\ x \in EditMsgs /\ x \notin FormMsgs
    BY <1>1, <1>2
  <2> HIDE DEF q
  <2>2. Places(r, FormMsgs) = G
    BY <2>1, PlacesPush
  <2>3. Places(r, EditMsgs) = S \cup {n + 1} /\ UpTo(Places(r, EditMsgs), n + 1) = Cardinality(S) + 1
    BY <2>1, PlacesPush
  <2>4. /\ Cardinality(Places(r, EditMsgs)) = Cardinality(S) + 1
        /\ \A i \in 1..n : UpTo(Places(r, EditMsgs), i) = UpTo(S, i)
    BY <2>1, PlacesPush
  <2> QED
    BY <2>2, <2>3, <2>4
<1>7. S \in SUBSET (1..n) /\ G \in SUBSET (1..n) /\ Cardinality(S) \in Nat
  BY <1>1, PlacesType
<1>8. /\ PairedEdits(q, p) /\ PairedForms(q, Len(T), E, K) /\ AllOwed(q, p, E)
      /\ Revised(T, R, W) /\ ExpectsRight(a, W, K) /\ NoneBehind(a)
      /\ RefusalsSeen(T, K) /\ CauseSeen(T)
  BY DEF LinkInv
<1>9. \A i \in DOMAIN a : a[i].k = "form" /\ x.k = "apply" => ~a[i].may
  BY NoQuietForm
<1>10. x.k = "apply" /\ K = {} => R + Len(p) = W + Cardinality(Places(a, EditMsgs))
  <2> SUFFICES ASSUME x.k = "apply", K = {}
               PROVE  R + Len(p) = W + Cardinality(Places(a, EditMsgs))
    OBVIOUS
  <2>1. ~MayCommitOut(E)
    OBVIOUS
  <2> QED
    BY <2>1, QuietCount
<1> HIDE DEF q, r, n, o
<1>11. PairedEdits(r, o)
  <2> SUFFICES ASSUME NEW i \in Places(r, EditMsgs)
               PROVE  /\ UpTo(Places(r, EditMsgs), i) \in DOMAIN o
                      /\ o[UpTo(Places(r, EditMsgs), i)].op = OpOf(r[i])
    BY DEF PairedEdits
  <2>1. CASE i = n + 1
    <3>1. UpTo(Places(r, EditMsgs), i) = Len(p) + 1
      BY <1>6, <1>8, <2>1 DEF AllOwed
    <3>2. OpOf(x) = x.op
      BY DEF OpOf, EditRequests
    <3> QED
      BY <1>4, <1>5, <2>1, <3>1, <3>2
  <2>2. CASE i # n + 1
    <3>1. i \in S /\ i \in 1..n
      BY <1>6, <1>7, <2>2
    <3>2. /\ UpTo(S, i) \in 1..Len(p) /\ p[UpTo(S, i)].op = OpOf(q[i])
      BY <1>5, <1>8, <3>1 DEF PairedEdits
    <3>3. UpTo(Places(r, EditMsgs), i) = UpTo(S, i) /\ r[i] = q[i]
      BY <1>4, <1>6, <3>1
    <3> QED
      BY <1>5, <3>2, <3>3
  <2> QED
    BY <2>1, <2>2
<1>12. AllOwed(r, o, E)
  BY <1>5, <1>6, <1>8 DEF AllOwed
<1>13. PairedForms(r, Len(T), E, K)
  BY <1>4, <1>6, <1>7, <1>8 DEF PairedForms
<1>14. /\ b \in Seq(Requests) /\ Len(b) = Len(a) + 1 /\ b[Len(a) + 1] = x
       /\ \A i \in 1..Len(a) : b[i] = a[i]
  BY <1>2, AppendProperties
<1>15. DOMAIN b = 1..(Len(a) + 1) /\ DOMAIN a = 1..Len(a)
  BY <1>14, LenProperties
<1>16. /\ \A i \in 1..Len(a) : UpTo(Places(b, EditMsgs), i) = UpTo(Places(a, EditMsgs), i)
       /\ UpTo(Places(b, EditMsgs), Len(a) + 1) = Cardinality(Places(a, EditMsgs)) + 1
  BY <1>2, PlacesPush
<1>17. Cardinality(Places(a, EditMsgs)) \in Nat
  BY PlacesType
<1> HIDE DEF b
<1>18. ExpectsRight(b, W, K)
  <2> SUFFICES ASSUME K = {}, NEW i \in 1..(Len(a) + 1), b[i].k = "apply"
               PROVE  b[i].exp + 1 = W + UpTo(Places(b, EditMsgs), i)
    BY <1>15 DEF ExpectsRight
  <2>1. CASE i = Len(a) + 1
    <3>1. x.exp = R + Len(p) /\ R + Len(p) = W + Cardinality(Places(a, EditMsgs))
      BY <1>10, <1>14, <2>1
    <3> QED
      BY <1>14, <1>16, <1>17, <2>1, <3>1
  <2>2. CASE i # Len(a) + 1
    <3>1. i \in 1..Len(a)
      BY <1>1, <2>2
    <3> QED
      BY <1>8, <1>14, <1>15, <1>16, <3>1 DEF ExpectsRight
  <2> QED
    BY <2>1, <2>2
<1>19. NoneBehind(b)
  <2> SUFFICES ASSUME NEW i \in 1..(Len(a) + 1), NEW j \in 1..(Len(a) + 1), i < j,
                      b[i].k = "form", b[i].may, b[j].k = "apply"
               PROVE  FALSE
    BY <1>15 DEF NoneBehind
  <2>1. i \in 1..Len(a) /\ b[i] = a[i]
    BY <1>1, <1>14
  <2>2. CASE j = Len(a) + 1
    BY <1>9, <1>14, <1>15, <2>1, <2>2
  <2>3. CASE j # Len(a) + 1
    <3>1. j \in 1..Len(a)
      BY <1>1, <2>3
    <3> QED
      BY <1>8, <1>14, <1>15, <2>1, <3>1 DEF NoneBehind
  <2> QED
    BY <2>2, <2>3
<1> QED
  BY <1>3, <1>8, <1>11, <1>12, <1>13, <1>18, <1>19 DEF LinkInv, b, o

(* An undo is pending that the link, which has ended, did not take. *)
LEMMA LinkPend ==
  ASSUME NEW T \in Seq(Replies), NEW a \in Seq(Requests), NEW p \in Seq(Pendings),
         NEW E, NEW R, NEW W, NEW K, LinkInv(T, a, p, E, R, W, K, FALSE), NEW y \in Pendings
  PROVE  LinkInv(T, a, Append(p, y), E, R, W, K, FALSE)
<1> DEFINE o == Append(p, y)
<1>1. /\ o \in Seq(Pendings) /\ Len(o) = Len(p) + 1 /\ \A i \in 1..Len(p) : o[i] = p[i]
  BY AppendProperties
<1>2. DOMAIN o = 1..(Len(p) + 1) /\ DOMAIN p = 1..Len(p) /\ Len(p) \in Nat
  BY <1>1, LenProperties
<1> HIDE DEF o
<1>3. PairedEdits(T \o a, p)
  BY DEF LinkInv
<1>4. ASSUME NEW i \in Places(T \o a, EditMsgs)
      PROVE  /\ UpTo(Places(T \o a, EditMsgs), i) \in DOMAIN o
             /\ o[UpTo(Places(T \o a, EditMsgs), i)].op = OpOf((T \o a)[i])
  <2> DEFINE u == UpTo(Places(T \o a, EditMsgs), i)
  <2>1. u \in DOMAIN p /\ p[u].op = OpOf((T \o a)[i])
    BY <1>3 DEF PairedEdits
  <2> HIDE DEF u
  <2>2. u \in 1..Len(p) /\ u \in DOMAIN o
    BY <1>2, <2>1
  <2>3. o[u].op = OpOf((T \o a)[i])
    BY <1>1, <2>1, <2>2
  <2> QED
    BY <2>2, <2>3 DEF u
<1>5. PairedEdits(T \o a, o)
  BY <1>4 DEF PairedEdits
<1> QED
  BY <1>5 DEF LinkInv, o

(* Desks whose queues fit the link. *)
LinkedDesks(T, E, R, W, K, V) == {s \in Desks : LinkInv(T, s.a, s.p, E, R, W, K, V)}

LEMMA UndoLinked ==
  ASSUME NEW T \in Seq(Replies), NEW E \in Seq(BOOLEAN), NEW R \in Nat, NEW W \in Nat, NEW K,
         NEW s \in LinkedDesks(T, E, R, W, K, serving), serving \in BOOLEAN,
         NEW kind \in {"undo", "redo"}, NEW epoch \in Nat, NEW op \in Ops
  PROVE  SendUndo(s, R, kind, epoch, op) \in LinkedDesks(T, E, R, W, K, serving)
<1> DEFINE x == [k |-> "undo", exp |-> Expected(R, s.p), op |-> op]
           y == [kind |-> kind, op |-> op, epoch |-> epoch]
           z == SendUndo(s, R, kind, epoch, op)
<1>1. /\ s \in Desks /\ s.p \in Seq(Pendings) /\ s.a \in Seq(Requests)
      /\ LinkInv(T, s.a, s.p, E, R, W, K, serving)
  BY DEF LinkedDesks, Desks
<1>2. z \in Desks
  BY <1>1, SendUndoType
<1>3. x \in EditRequests /\ y \in Pendings /\ x.op = y.op /\ x.k # "apply"
  BY <1>1 DEF EditRequests, Pendings, Expected
<1>4. CASE open = NoFile
  BY <1>4 DEF SendUndo
<1>5. CASE open # NoFile /\ serving
  <2>1. z.p = Append(s.p, y) /\ z.a = Append(s.a, x)
    BY <1>1, <1>5 DEF SendUndo, Desks
  <2>2. LinkInv(T, s.a, s.p, E, R, W, K, TRUE)
    BY <1>1, <1>5
  <2> HIDE DEF x, y, z
  <2>3. LinkInv(T, Append(s.a, x), Append(s.p, y), E, R, W, K, TRUE)
    BY <1>1, <1>3, <2>2, LinkPush
  <2>4. LinkInv(T, Append(s.a, x), Append(s.p, y), E, R, W, K, serving)
    BY <1>5, <2>3
  <2>5. z \in LinkedDesks(T, E, R, W, K, serving)
    BY <1>2, <2>1, <2>4 DEF LinkedDesks
  <2> QED
    BY <2>5 DEF z
<1>6. CASE open # NoFile /\ ~serving
  <2>1. z.p = Append(s.p, y) /\ z.a = s.a
    BY <1>1, <1>6 DEF SendUndo, Desks
  <2>2. LinkInv(T, s.a, s.p, E, R, W, K, FALSE)
    BY <1>1, <1>6
  <2> HIDE DEF x, y, z
  <2>3. LinkInv(T, s.a, Append(s.p, y), E, R, W, K, FALSE)
    BY <1>1, <1>3, <2>2, LinkPend
  <2>4. LinkInv(T, s.a, Append(s.p, y), E, R, W, K, serving)
    BY <1>6, <2>3
  <2>5. z \in LinkedDesks(T, E, R, W, K, serving)
    BY <1>2, <2>1, <2>4 DEF LinkedDesks
  <2> QED
    BY <2>5 DEF z
<1> QED
  BY <1>4, <1>5, <1>6

LEMMA PostLinked ==
  ASSUME NEW T \in Seq(Replies), NEW E \in Seq(BOOLEAN), NEW R \in Nat, NEW W \in Nat, NEW K,
         NEW s \in LinkedDesks(T, E, R, W, K, serving), serving \in BOOLEAN, NEW e \in Posts
  PROVE  Post(s, R, E, e) \in LinkedDesks(T, E, R, W, K, serving)
<1>1. /\ s \in Desks /\ s.p \in Seq(Pendings) /\ s.a \in Seq(Requests)
      /\ LinkInv(T, s.a, s.p, E, R, W, K, serving)
  BY DEF LinkedDesks, Desks
<1>2. Post(s, R, E, e) \in Desks
  BY <1>1, PostType
<1>3. e.op \in Ops /\ NoEpoch \in Nat
  BY NumberFacts DEF Posts, Entries, NoEpoch
<1>4. CASE e.via = "applied"
  <2> DEFINE x == [k |-> "apply", exp |-> Expected(R, s.p), op |-> e.op]
             y == [kind |-> "edit", op |-> e.op, epoch |-> NoEpoch]
  <2>1. Post(s, R, E, e) = Commit(s, R, E, e.op)
    BY <1>4 DEF Post
  <2>2. CASE MayCommitOut(E)
    <3>1. Commit(s, R, E, e.op).p = s.p /\ Commit(s, R, E, e.op).a = s.a
      BY <1>1, <2>2 DEF Commit, Desks
    <3> QED
      BY <1>1, <1>2, <2>1, <3>1 DEF LinkedDesks
  <2>3. CASE ~MayCommitOut(E) /\ serving
    <3>1. x \in EditRequests /\ y \in Pendings
      BY <1>1, <1>3 DEF EditRequests, Pendings, Expected
    <3>2. x.op = y.op /\ x.exp = R + Len(s.p)
      BY DEF Expected
    <3>3. LinkInv(T, s.a, s.p, E, R, W, K, TRUE)
      BY <1>1, <2>3
    <3>4. Commit(s, R, E, e.op).p = Append(s.p, y) /\ Commit(s, R, E, e.op).a = Append(s.a, x)
      BY <1>1, <2>3 DEF Commit, Desks
    <3> HIDE DEF x, y
    <3>5. LinkInv(T, Append(s.a, x), Append(s.p, y), E, R, W, K, TRUE)
      BY <1>1, <2>3, <3>1, <3>2, <3>3, LinkPush
    <3>6. LinkInv(T, Append(s.a, x), Append(s.p, y), E, R, W, K, serving)
      BY <2>3, <3>5
    <3> QED
      BY <1>2, <2>1, <3>4, <3>6 DEF LinkedDesks
  <2>4. CASE ~MayCommitOut(E) /\ ~serving
    BY <2>1, <2>4 DEF Commit
  <2> QED
    BY <2>2, <2>3, <2>4
<1>5. CASE e.via # "applied"
  <2> DEFINE x == [k |-> "undo", exp |-> Expected(R, s.p), op |-> e.op]
             y == [kind |-> "undo", op |-> e.op, epoch |-> NoEpoch]
  <2>1. Post(s, R, E, e) = SendUndo(s, R, "undo", NoEpoch, e.op)
    BY <1>5 DEF Post
  <2>2. SendUndo(s, R, "undo", NoEpoch, e.op) \in LinkedDesks(T, E, R, W, K, serving)
    BY <1>3, UndoLinked
  <2> QED
    BY <2>1, <2>2
<1> QED
  BY <1>4, <1>5

LEMMA PostAllLinked ==
  ASSUME NEW T \in Seq(Replies), NEW E \in Seq(BOOLEAN), NEW R \in Nat, NEW W \in Nat, NEW K,
         NEW s \in LinkedDesks(T, E, R, W, K, serving), serving \in BOOLEAN,
         NEW es \in Seq(Posts)
  PROVE  PostAll(s, R, E, es) \in LinkedDesks(T, E, R, W, K, serving)
<1>1. \A t \in LinkedDesks(T, E, R, W, K, serving) : \A e \in Posts :
        Post(t, R, E, e) \in LinkedDesks(T, E, R, W, K, serving)
  BY PostLinked
<1> QED
  BY <1>1, PostAllKeeps

LEMMA ReleasedLinked ==
  ASSUME NEW T \in Seq(Replies), NEW E \in Seq(BOOLEAN), NEW R \in Nat, NEW W \in Nat, NEW K,
         NEW s \in LinkedDesks(T, E, R, W, K, serving), serving \in BOOLEAN
  PROVE  Released(s, R, E) \in LinkedDesks(T, E, R, W, K, serving)
<1> DEFINE z == [s EXCEPT !.d = <<>>]
<1>1. s \in Desks /\ LinkInv(T, s.a, s.p, E, R, W, K, serving) /\ s.d \in Seq(Ops)
  BY DEF LinkedDesks, Desks
<1>2. z \in Desks /\ z.a = s.a /\ z.p = s.p
  BY <1>1, NothingQueued DEF Desks
<1>3. z \in LinkedDesks(T, E, R, W, K, serving)
  BY <1>1, <1>2 DEF LinkedDesks
<1> HIDE DEF z
<1>4. PostAll(z, R, E, Waiting(s.d)) \in LinkedDesks(T, E, R, W, K, serving)
  BY <1>1, <1>3, WaitingType, PostAllLinked
<1> QED
  BY <1>4 DEF Released, Waiting, z

(* A request that is no mutation is posted: a form event, or a copy. *)
LEMMA LinkAsk ==
  ASSUME NEW T \in Seq(Replies), NEW a \in Seq(Requests), NEW p \in Seq(Pendings),
         NEW E \in Seq(BOOLEAN), NEW R \in Nat, NEW W \in Nat, NEW K,
         LinkInv(T, a, p, E, R, W, K, TRUE),
         NEW x \in FormRequests \cup SaveRequests
  PROVE  LinkInv(T, Append(a, x), p, IF x \in FormRequests THEN Append(E, x.may) ELSE E,
                 R, W, K, TRUE)
<1> DEFINE q == T \o a
           r == Append(q, x)
           n == Len(q)
           b == Append(a, x)
           F == IF x \in FormRequests THEN Append(E, x.may) ELSE E
           G == Places(q, FormMsgs)
           H == Places(r, FormMsgs)
<1>1. /\ q \in Seq(Messages) /\ Len(T) \in Nat /\ Len(a) \in Nat /\ n = Len(T) + Len(a)
      /\ DOMAIN q = 1..n /\ n \in Nat
  BY StreamType
<1>2. /\ x \in Requests /\ x \in Messages /\ x \notin EditMsgs /\ x.k # "apply"
      /\ x \in FormMsgs <=> x \in FormRequests
  BY MessageKinds DEF Messages, FormRequests, SaveRequests
<1>3. T \o b = r
  BY <1>2, StreamPush
<1>4. /\ r \in Seq(Messages) /\ Len(r) = n + 1 /\ r[n + 1] = x /\ \A i \in 1..n : r[i] = q[i]
  BY <1>1, <1>2, AppendProperties
<1>5. /\ Len(E) \in Nat /\ DOMAIN E = 1..Len(E) /\ \A i \in 1..Len(E) : F[i] = E[i]
      /\ DOMAIN F = 1..Len(F) /\ Len(E) <= Len(F) /\ Len(F) \in Nat
      /\ x \in FormRequests => Len(F) = Len(E) + 1 /\ F[Len(E) + 1] = x.may
      /\ x \notin FormRequests => F = E
  <2>1. x \in FormRequests => /\ Append(E, x.may) \in Seq(BOOLEAN)
                              /\ Len(Append(E, x.may)) = Len(E) + 1
                              /\ Append(E, x.may)[Len(E) + 1] = x.may
                              /\ \A i \in 1..Len(E) : Append(E, x.may)[i] = E[i]
    BY AppendProperties DEF FormRequests
  <2>2. Len(E) \in Nat /\ DOMAIN E = 1..Len(E)
    OBVIOUS
  <2>3. CASE x \in FormRequests
    <3>1. F = Append(E, x.may) /\ F \in Seq(BOOLEAN)
      BY <2>1, <2>3
    <3> HIDE DEF F
    <3>2. DOMAIN F = 1..Len(F)
      BY <3>1, LenProperties
    <3>3. Len(F) = Len(E) + 1 /\ F[Len(E) + 1] = x.may /\ \A i \in 1..Len(E) : F[i] = E[i]
      BY <2>1, <2>3, <3>1
    <3> QED
      BY <2>2, <2>3, <3>2, <3>3
  <2>4. CASE x \notin FormRequests
    <3>1. F = E
      BY <2>4
    <3> HIDE DEF F
    <3>2. DOMAIN F = 1..Len(F) /\ Len(E) <= Len(F) /\ Len(F) \in Nat
      BY <2>2, <3>1
    <3>3. \A i \in 1..Len(E) : F[i] = E[i]
      BY <3>1, Zenon
    <3> QED
      BY <2>2, <2>4, <3>1, <3>2, <3>3, Zenon
  <2> QED
    BY <2>3, <2>4
<1>6. Places(r, EditMsgs) = Places(q, EditMsgs)
  <2>1. q \in Seq(Messages) /\ x \in Messages /\ x \notin EditMsgs
    BY <1>1, <1>2
  <2> HIDE DEF q
  <2> QED
    BY <2>1, PlacesPush
<1>7. /\ x \notin FormRequests => H = G
      /\ x \in FormRequests => /\ H = G \cup {n + 1} /\ Cardinality(H) = Cardinality(G) + 1
                               /\ \A i \in 1..n : UpTo(H, i) = UpTo(G, i)
                               /\ UpTo(H, n + 1) = Cardinality(G) + 1
  <2>1. q \in Seq(Messages) /\ x \in Messages
    BY <1>1, <1>2
  <2> HIDE DEF q
  <2>2. x \notin FormMsgs => H = G
    BY <2>1, PlacesPush
  <2>3. x \in FormMsgs => H = G \cup {n + 1} /\ UpTo(H, n + 1) = Cardinality(G) + 1
    BY <2>1, PlacesPush
  <2>4. x \in FormMsgs => /\ Cardinality(H) = Cardinality(G) + 1
                          /\ \A i \in 1..n : UpTo(H, i) = UpTo(G, i)
    BY <2>1, PlacesPush
  <2> QED
    BY <1>2, <2>2, <2>3, <2>4
<1>8. Places(q, EditMsgs) \in SUBSET (1..n) /\ G \in SUBSET (1..n)
  BY <1>1, PlacesType
<1>9. /\ PairedEdits(q, p) /\ PairedForms(q, Len(T), E, K) /\ AllOwed(q, p, E)
      /\ Revised(T, R, W) /\ ExpectsRight(a, W, K) /\ NoneBehind(a)
      /\ RefusalsSeen(T, K) /\ CauseSeen(T)
  BY DEF LinkInv
<1> HIDE DEF q, r, n, F, G, H
<1>10. PairedEdits(r, p)
  BY <1>4, <1>6, <1>8, <1>9 DEF PairedEdits
<1>11. AllOwed(r, p, F)
  <2>1. x \in FormRequests => Cardinality(H) = Len(F)
    BY <1>5, <1>7, <1>9, SMTT(20) DEF AllOwed, G
  <2>2. x \notin FormRequests => Cardinality(H) = Len(F)
    BY <1>5, <1>7, <1>9 DEF AllOwed, G
  <2> QED
    BY <1>6, <1>9, <2>1, <2>2 DEF AllOwed, H
<1>12. PairedForms(r, Len(T), F, K)
  <2> SUFFICES ASSUME NEW i \in H
               PROVE  /\ UpTo(H, i) \in DOMAIN F
                      /\ i > Len(T) => F[UpTo(H, i)] = r[i].may
                      /\ i <= Len(T) /\ r[i].commits /\ ~F[UpTo(H, i)] => K # {}
    BY DEF PairedForms, H
  <2>1. CASE i \in G
    <3> DEFINE e == UpTo(G, i)
    <3>1. i \in 1..n /\ UpTo(H, i) = e /\ r[i] = q[i]
      BY <1>4, <1>7, <1>8, <2>1
    <3>2. /\ e \in DOMAIN E /\ i > Len(T) => E[e] = q[i].may
          /\ i <= Len(T) /\ q[i].commits /\ ~E[e] => K # {}
      BY <1>9, <2>1 DEF PairedForms, G
    <3>3. e \in DOMAIN E
      BY <1>9, <2>1 DEF PairedForms, G
    <3> HIDE DEF e
    <3>4. e \in DOMAIN F /\ F[e] = E[e]
      <4>1. /\ Len(E) \in Nat /\ Len(F) \in Nat /\ Len(E) <= Len(F)
            /\ DOMAIN E = 1..Len(E) /\ DOMAIN F = 1..Len(F)
        BY <1>5, Zenon
      <4>2. e \in 1..Len(E) /\ e \in 1..Len(F)
        BY <3>3, <4>1
      <4> QED
        BY <1>5, <4>1, <4>2, Zenon
    <3> QED
      BY <1>9, <2>1, <3>1, <3>3, <3>4 DEF PairedForms, G, e
  <2>2. CASE i \notin G
    <3>1. x \in FormRequests /\ i = n + 1 /\ UpTo(H, i) = Len(E) + 1
      BY <1>7, <1>9, <2>2 DEF AllOwed, G
    <3>2. ~(i <= Len(T))
      BY <1>1, <3>1
    <3>3. UpTo(H, i) \in DOMAIN F
      BY <1>5, <3>1
    <3> QED
      BY <1>4, <1>5, <3>1, <3>2, <3>3
  <2> QED
    BY <2>1, <2>2
<1>13. /\ b \in Seq(Requests) /\ Len(b) = Len(a) + 1 /\ b[Len(a) + 1] = x
       /\ \A i \in 1..Len(a) : b[i] = a[i]
  BY <1>2, AppendProperties
<1>14. DOMAIN b = 1..(Len(a) + 1) /\ DOMAIN a = 1..Len(a)
  BY <1>13, LenProperties
<1>15. Places(b, EditMsgs) = Places(a, EditMsgs)
  BY <1>2, PlacesPush
<1> HIDE DEF b
<1>16. \A i \in 1..(Len(a) + 1) : i # Len(a) + 1 => i \in 1..Len(a)
  BY <1>1
<1>17. ExpectsRight(b, W, K)
  BY <1>2, <1>9, <1>13, <1>14, <1>15, <1>16 DEF ExpectsRight
<1>18. NoneBehind(b)
  <2> SUFFICES ASSUME NEW i \in 1..(Len(a) + 1), NEW j \in 1..(Len(a) + 1), i < j,
                      b[i].k = "form", b[i].may, b[j].k = "apply"
               PROVE  FALSE
    BY <1>14 DEF NoneBehind
  <2>1. j \in 1..Len(a)
    BY <1>2, <1>13, <1>16
  <2>2. i \in 1..Len(a)
    BY <1>1, <2>1
  <2> QED
    BY <1>9, <1>13, <1>14, <2>1, <2>2 DEF NoneBehind
<1> QED
  BY <1>3, <1>9, <1>10, <1>11, <1>12, <1>17, <1>18 DEF LinkInv, b, F

(* The worker answers the first request. *)
LEMMA LinkServe ==
  ASSUME NEW T \in Seq(Replies), NEW a \in Seq(Requests), NEW p \in Seq(Pendings),
         NEW E \in Seq(BOOLEAN), NEW R \in Nat, NEW W \in Nat, NEW K,
         LinkInv(T, a, p, E, R, W, K, TRUE), a # <<>>, NEW y \in Replies, NEW W2, NEW K2,
         IsEdit(y) <=> IsEdit(Head(a)), IsEdit(y) => OpOf(y) = OpOf(Head(a)),
         y.k = "form" <=> Head(a).k = "form",
         y \in MoveMsgs => W2 = W + 1 /\ y.rev = W + 1, y \notin MoveMsgs => W2 = W,
         K2 = {} => K = {}, y.k = "refused" => K2 # {},
         y.k = "form" /\ y.commits /\ ~Head(a).may => K2 # {},
         y.k = "refused" /\ y.why = "conflict" /\ y.was = "apply" => y.behind # {}
  PROVE  LinkInv(Append(T, y), Tail(a), p, E, R, W2, K2, TRUE)
<1> DEFINE q == T \o a
           U == Append(T, y)
           b == Tail(a)
           r == U \o b
           n == Len(T)
           x == Head(a)
<1>1. /\ q \in Seq(Messages) /\ n \in Nat /\ Len(a) \in Nat /\ Len(q) = n + Len(a)
      /\ DOMAIN q = 1..Len(q)
  BY StreamType
<1>2. /\ U \in Seq(Replies) /\ b \in Seq(Requests) /\ Len(U) = n + 1 /\ Len(b) = Len(a) - 1
      /\ Len(a) >= 1 /\ Len(r) = Len(q) /\ q[n + 1] = x /\ x = a[1] /\ x \in Requests
      /\ r[n + 1] = y /\ U[n + 1] = y
  BY StreamServe
<1>3. /\ \A i \in 1..Len(q) : i # n + 1 => r[i] = q[i]
      /\ \A i \in 1..Len(a) - 1 : b[i] = a[i + 1]
      /\ \A i \in 1..n : U[i] = T[i]
  BY StreamServe
<1>4. r \in Seq(Messages) /\ DOMAIN r = 1..Len(q)
  <2>1. r \in Seq(Messages)
    BY <1>2, StreamType
  <2> QED
    BY <1>2, <2>1, LenProperties
<1>5. /\ y \in EditMsgs <=> x \in EditMsgs
      /\ y \in FormMsgs <=> x \in FormMsgs
  BY <1>2 DEF EditMsgs, FormMsgs, Messages
<1>6. /\ PairedEdits(q, p) /\ PairedForms(q, n, E, K) /\ AllOwed(q, p, E)
      /\ Revised(T, R, W) /\ ExpectsRight(a, W, K) /\ NoneBehind(a)
      /\ RefusalsSeen(T, K) /\ CauseSeen(T)
  BY DEF LinkInv
<1>7. DOMAIN U = 1..(n + 1) /\ DOMAIN T = 1..n /\ DOMAIN b = 1..Len(a) - 1 /\ DOMAIN a = 1..Len(a)
  BY <1>2, LenProperties
<1>8. /\ y \notin MoveMsgs => Places(U, MoveMsgs) = Places(T, MoveMsgs)
      /\ y \in MoveMsgs =>
           /\ Places(U, MoveMsgs) = Places(T, MoveMsgs) \cup {n + 1}
           /\ Cardinality(Places(U, MoveMsgs)) = Cardinality(Places(T, MoveMsgs)) + 1
           /\ \A i \in 1..n : UpTo(Places(U, MoveMsgs), i) = UpTo(Places(T, MoveMsgs), i)
           /\ UpTo(Places(U, MoveMsgs), n + 1) = Cardinality(Places(T, MoveMsgs)) + 1
  BY PlacesPush
<1>9. Places(T, MoveMsgs) \in SUBSET (1..n) /\ Cardinality(Places(T, MoveMsgs)) \in Nat
  BY PlacesType
<1>10. /\ \A i \in Places(b, EditMsgs) : i \in Nat /\ i + 1 \in Places(a, EditMsgs)
       /\ a[1] \in EditMsgs =>
            \A i \in Nat : UpTo(Places(b, EditMsgs), i) = UpTo(Places(a, EditMsgs), i + 1) - 1
       /\ a[1] \notin EditMsgs =>
            \A i \in Nat : UpTo(Places(b, EditMsgs), i) = UpTo(Places(a, EditMsgs), i + 1)
  <2>1. \A i \in Places(b, EditMsgs) : i \in Nat /\ i + 1 \in Places(a, EditMsgs)
    BY PlacesPop
  <2>2. a[1] \in EditMsgs =>
          \A i \in Nat : UpTo(Places(b, EditMsgs), i) = UpTo(Places(a, EditMsgs), i + 1) - 1
    BY PlacesPop
  <2>3. a[1] \notin EditMsgs =>
          \A i \in Nat : UpTo(Places(b, EditMsgs), i) = UpTo(Places(a, EditMsgs), i + 1)
    BY PlacesPop
  <2> QED
    BY <2>1, <2>2, <2>3
<1>11. \A i \in Nat : UpTo(Places(a, EditMsgs), i) \in Nat
  BY PlacesType, UpToType
<1>12. y \in MoveMsgs <=> y.k = "applied" \/ (y.k = "form" /\ y.commits)
  BY DEF MoveMsgs
<1> HIDE DEF q, U, b, r, n, x
<1>13. Places(r, EditMsgs) = Places(q, EditMsgs) /\ Places(r, FormMsgs) = Places(q, FormMsgs)
  <2>1. n + 1 \in 1..Len(q)
    BY <1>1, <1>2
  <2>2. \A i \in 1..Len(q) : (r[i] \in EditMsgs <=> q[i] \in EditMsgs)
                             /\ (r[i] \in FormMsgs <=> q[i] \in FormMsgs)
    BY <1>2, <1>3, <1>5, <2>1
  <2> QED
    BY <1>1, <1>4, <2>2 DEF Places
<1>14. PairedEdits(r, p)
  <2> SUFFICES ASSUME NEW i \in Places(q, EditMsgs)
               PROVE  OpOf(r[i]) = OpOf(q[i])
    BY <1>6, <1>13 DEF PairedEdits
  <2>1. CASE i = n + 1
    BY <1>2, <1>5, <2>1 DEF Places, EditMsgs, x
  <2>2. CASE i # n + 1
    BY <1>1, <1>3, <2>2 DEF Places
  <2> QED
    BY <2>1, <2>2
<1>15. PairedForms(r, n + 1, E, K2)
  <2> SUFFICES ASSUME NEW i \in Places(q, FormMsgs)
               PROVE  /\ UpTo(Places(q, FormMsgs), i) \in DOMAIN E
                      /\ i > n + 1 => E[UpTo(Places(q, FormMsgs), i)] = r[i].may
                      /\ i <= n + 1 /\ r[i].commits /\ ~E[UpTo(Places(q, FormMsgs), i)] => K2 # {}
    BY <1>13 DEF PairedForms
  <2> DEFINE e == UpTo(Places(q, FormMsgs), i)
  <2>1. e \in DOMAIN E /\ (i > n => E[e] = q[i].may) /\ (i <= n /\ q[i].commits /\ ~E[e] => K # {})
    BY <1>6 DEF PairedForms
  <2>2. i \in 1..Len(q)
    BY <1>1 DEF Places
  <2>3. CASE i = n + 1
    <3>1. x.k = "form" /\ E[e] = x.may /\ r[i] = y
      BY <1>1, <1>2, <2>1, <2>3 DEF Places, FormMsgs
    <3>2. y.k = "form"
      BY <3>1 DEF x
    <3>3. ~(i > n + 1)
      BY <1>1, <2>3
    <3>4. r[i].commits /\ ~E[e] => K2 # {}
      BY <3>1, <3>2 DEF x
    <3> QED
      BY <2>1, <3>3, <3>4
  <2>4. CASE i # n + 1
    <3>1. r[i] = q[i]
      BY <1>3, <2>2, <2>4
    <3>2. (i > n + 1 => i > n) /\ (i <= n + 1 => i <= n)
      BY <1>1, <2>2, <2>4
    <3> QED
      BY <2>1, <3>1, <3>2
  <2> QED
    BY <2>3, <2>4
<1>16. AllOwed(r, p, E)
  BY <1>6, <1>13 DEF AllOwed
<1>17. Revised(U, R, W2)
  <2>1. CASE y \notin MoveMsgs
    <3>1. \A i \in Places(T, MoveMsgs) : U[i] = T[i]
      BY <1>3, <1>9
    <3> QED
      BY <1>6, <1>8, <2>1, <3>1 DEF Revised
  <2>2. CASE y \in MoveMsgs
    <3>1. W2 = R + Cardinality(Places(U, MoveMsgs))
      BY <1>6, <1>8, <1>9, <2>2 DEF Revised
    <3>2. ASSUME NEW i \in Places(U, MoveMsgs)
          PROVE  U[i].rev = R + UpTo(Places(U, MoveMsgs), i)
      <4>1. CASE i = n + 1
        BY <1>2, <1>6, <1>8, <1>9, <2>2, <4>1, SMTT(20) DEF Revised
      <4>2. CASE i # n + 1
        <5>1. i \in Places(T, MoveMsgs) /\ i \in 1..n
          BY <1>8, <1>9, <2>2, <4>2
        <5> QED
          BY <1>3, <1>6, <1>8, <2>2, <5>1 DEF Revised
      <4> QED
        BY <4>1, <4>2
    <3> QED
      BY <3>1, <3>2 DEF Revised
  <2> QED
    BY <2>1, <2>2
<1>18. ExpectsRight(b, W2, K2)
  <2> SUFFICES ASSUME K2 = {}, NEW i \in 1..Len(a) - 1, b[i].k = "apply"
               PROVE  b[i].exp + 1 = W2 + UpTo(Places(b, EditMsgs), i)
    BY <1>7 DEF ExpectsRight
  <2>1. /\ i \in Nat /\ i + 1 \in DOMAIN a /\ b[i] = a[i + 1] /\ 1 \in DOMAIN a /\ 1 < i + 1
    BY <1>1, <1>2, <1>3, <1>7
  <2>2. b[i].exp + 1 = W + UpTo(Places(a, EditMsgs), i + 1)
    BY <1>6, <2>1 DEF ExpectsRight
  <2>3. ~(x.k = "form" /\ x.may)
    BY <1>2, <1>6, <2>1 DEF NoneBehind
  <2>4. ~(y.k = "form" /\ y.commits)
    BY <2>3 DEF x
  <2>5. x \in EditMsgs <=> y \in MoveMsgs
    <3>1. y.k # "refused"
      OBVIOUS
    <3>2. y.k \notin {"apply", "undo"}
      BY DEF Replies, Applieds, Refusals, IdleForms, Commits, Saveds, Others
    <3> QED
      BY <1>5, <1>12, <2>4, <3>1, <3>2 DEF EditMsgs, Messages, IsEdit
  <2>6. UpTo(Places(a, EditMsgs), i + 1) \in Nat
    BY <1>11, <2>1
  <2>7. CASE x \in EditMsgs
    <3>1. UpTo(Places(b, EditMsgs), i) = UpTo(Places(a, EditMsgs), i + 1) - 1 /\ W2 = W + 1
      BY <1>2, <1>10, <2>1, <2>5, <2>7
    <3> QED
      BY <2>2, <2>6, <3>1
  <2>8. CASE x \notin EditMsgs
    <3>1. UpTo(Places(b, EditMsgs), i) = UpTo(Places(a, EditMsgs), i + 1) /\ W2 = W
      BY <1>2, <1>10, <2>1, <2>5, <2>8
    <3> QED
      BY <2>2, <3>1
  <2> QED
    BY <2>7, <2>8
<1>19. NoneBehind(b)
  <2> SUFFICES ASSUME NEW i \in 1..Len(a) - 1, NEW j \in 1..Len(a) - 1, i < j,
                      b[i].k = "form", b[i].may
               PROVE  b[j].k # "apply"
    BY <1>7 DEF NoneBehind
  <2>1. i + 1 \in DOMAIN a /\ j + 1 \in DOMAIN a /\ i + 1 < j + 1 /\ b[i] = a[i + 1] /\ b[j] = a[j + 1]
    BY <1>1, <1>3, <1>7
  <2> QED
    BY <1>6, <2>1 DEF NoneBehind
<1>20. \A i \in 1..(n + 1) : i = n + 1 \/ i \in 1..n
  BY <1>1
<1>21. RefusalsSeen(U, K2)
  BY <1>2, <1>3, <1>6, <1>7, <1>20 DEF RefusalsSeen
<1>22. CauseSeen(U)
  BY <1>2, <1>3, <1>6, <1>7, <1>20 DEF CauseSeen
<1> QED
  BY <1>2, <1>14, <1>15, <1>16, <1>17, <1>18, <1>19, <1>21, <1>22 DEF LinkInv, r, U, b

(* The thread ends, and with it what it had not read. *)
LEMMA LinkLost ==
  ASSUME NEW T \in Seq(Replies), NEW a \in Seq(Requests), NEW p \in Seq(Pendings),
         NEW E \in Seq(BOOLEAN), NEW R \in Nat, NEW W \in Nat, NEW K, NEW V,
         LinkInv(T, a, p, E, R, W, K, V), NEW y \in Replies, y.k = "gone"
  PROVE  LinkInv(Append(T, y), <<>>, p, E, R, W, K, FALSE)
<1> DEFINE q == T \o a
           U == Append(T, y)
           n == Len(T)
<1>1. /\ q \in Seq(Messages) /\ n \in Nat /\ Len(a) \in Nat /\ DOMAIN q = 1..(n + Len(a))
      /\ \A i \in 1..n : q[i] = T[i]
  BY StreamType
<1>2. /\ U \in Seq(Replies) /\ Len(U) = n + 1 /\ U[n + 1] = y /\ \A i \in 1..n : U[i] = T[i]
  BY AppendProperties
<1>3. U \o <<>> = U
  BY <1>2, ConcatEmptySeq
<1>4. DOMAIN U = 1..(n + 1) /\ DOMAIN T = 1..n
  BY <1>2, LenProperties
<1>5. y \notin EditMsgs /\ y \notin FormMsgs /\ y \notin MoveMsgs /\ y.k # "refused"
  BY DEF EditMsgs, FormMsgs, MoveMsgs, IsEdit
<1>6. Places(U, MoveMsgs) = Places(T, MoveMsgs) /\ Places(T, MoveMsgs) \in SUBSET (1..n)
  BY <1>5, PlacesPush, PlacesType
<1> HIDE DEF q, U, n
<1>7. \A i \in 1..(n + 1) : i = n + 1 \/ i \in 1..n
  BY <1>1
<1>8. ASSUME NEW X, y \notin X, NEW i \in Places(U, X)
      PROVE  /\ i \in 1..n /\ U[i] = q[i] /\ i \in Places(q, X)
             /\ UpTo(Places(U, X), i) = UpTo(Places(q, X), i)
  <2>1. i \in 1..n
    BY <1>2, <1>4, <1>7, <1>8 DEF Places
  <2>2. \A j \in 1..n : j \in Places(U, X) <=> j \in Places(q, X)
    <3>1. 1..n \subseteq 1..(n + 1) /\ 1..n \subseteq 1..(n + Len(a))
      BY <1>1
    <3> QED
      BY <1>1, <1>2, <1>4, <3>1 DEF Places
  <2>3. \A j \in Places(U, X) \cup Places(q, X) : j \in Nat /\ (j <= i => j \in 1..n)
    BY <1>1, <1>4, <2>1 DEF Places
  <2>4. {j \in Places(U, X) : j <= i} = {j \in Places(q, X) : j <= i}
    BY <2>2, <2>3
  <2> QED
    BY <1>1, <1>2, <1>8, <2>1, <2>2, <2>4 DEF UpTo
<1>9. /\ PairedEdits(q, p) /\ PairedForms(q, n, E, K) /\ Revised(T, R, W)
      /\ RefusalsSeen(T, K) /\ CauseSeen(T)
  BY DEF LinkInv, q, n
<1>10. PairedEdits(U, p)
  BY <1>5, <1>8, <1>9 DEF PairedEdits
<1>11. PairedForms(U, n + 1, E, K)
  <2> SUFFICES ASSUME NEW i \in Places(U, FormMsgs)
               PROVE  /\ UpTo(Places(U, FormMsgs), i) \in DOMAIN E
                      /\ i > n + 1 => E[UpTo(Places(U, FormMsgs), i)] = U[i].may
                      /\ i <= n + 1 /\ U[i].commits /\ ~E[UpTo(Places(U, FormMsgs), i)] => K # {}
    BY DEF PairedForms
  <2>1. i \in 1..n /\ U[i] = q[i] /\ i \in Places(q, FormMsgs)
    BY <1>5, <1>8
  <2>2. UpTo(Places(U, FormMsgs), i) = UpTo(Places(q, FormMsgs), i)
    BY <1>5, <1>8
  <2>3. i <= n /\ ~(i > n + 1)
    BY <1>1, <2>1
  <2> QED
    BY <1>9, <2>1, <2>2, <2>3 DEF PairedForms
<1>12. Revised(U, R, W)
  BY <1>2, <1>6, <1>9 DEF Revised
<1>13. RefusalsSeen(U, K) /\ CauseSeen(U)
  BY <1>2, <1>4, <1>5, <1>7, <1>9 DEF RefusalsSeen, CauseSeen
<1>14. ExpectsRight(<<>>, W, K) /\ NoneBehind(<<>>)
  BY DEF ExpectsRight, NoneBehind
<1> QED
  BY <1>2, <1>3, <1>10, <1>11, <1>12, <1>13, <1>14 DEF LinkInv, U

(* The reader hears the first answer. *)
LEMMA LinkPop ==
  ASSUME NEW T \in Seq(Replies), NEW a \in Seq(Requests), NEW p \in Seq(Pendings),
         NEW E \in Seq(BOOLEAN), NEW R \in Nat, NEW W \in Nat, NEW K, NEW V,
         LinkInv(T, a, p, E, R, W, K, V), T # <<>>
  PROVE  /\ Head(T) \in EditMsgs => p # <<>> /\ Head(p).op = OpOf(Head(T))
         /\ Head(T) \in FormMsgs => E # <<>>
         /\ Head(T) \in MoveMsgs => Head(T).rev = R + 1
         /\ LinkInv(Tail(T), a,
                    IF Head(T) \in EditMsgs THEN Tail(p) ELSE p,
                    IF Head(T) \in FormMsgs THEN Tail(E) ELSE E,
                    IF Head(T) \in MoveMsgs THEN Head(T).rev ELSE R, W, K, V)
<1> DEFINE q == T \o a
           r == Tail(q)
           U == Tail(T)
           n == Len(T)
           t == Head(T)
           o == IF t \in EditMsgs THEN Tail(p) ELSE p
           F == IF t \in FormMsgs THEN Tail(E) ELSE E
           S == IF t \in MoveMsgs THEN t.rev ELSE R
<1>1. /\ U \o a = r /\ q # <<>> /\ t = q[1] /\ t = T[1] /\ U \in Seq(Replies) /\ Len(U) = n - 1
      /\ n >= 1 /\ \A i \in 1..n - 1 : U[i] = T[i + 1]
  BY StreamPop
<1>2. q \in Seq(Messages) /\ n \in Nat /\ Len(a) \in Nat /\ DOMAIN q = 1..(n + Len(a))
  BY StreamType
<1>3. /\ PairedEdits(q, p) /\ PairedForms(q, n, E, K) /\ (V => AllOwed(q, p, E)) /\ (~V => a = <<>>)
      /\ Revised(T, R, W) /\ ExpectsRight(a, W, K) /\ NoneBehind(a)
      /\ RefusalsSeen(T, K) /\ CauseSeen(T)
  BY DEF LinkInv
<1> HIDE DEF q, r, U, t, o, F, S
<1>4. ASSUME NEW X
      PROVE  /\ Places(r, X) \in SUBSET Nat
             /\ \A i \in Places(r, X) : i + 1 \in Places(q, X) /\ UpTo(Places(r, X), i) >= 1
                                        /\ UpTo(Places(r, X), i) \in Nat /\ r[i] = q[i + 1]
             /\ t \in X => /\ 1 \in Places(q, X) /\ UpTo(Places(q, X), 1) = 1
                           /\ Cardinality(Places(r, X)) = Cardinality(Places(q, X)) - 1
                           /\ \A i \in Nat : UpTo(Places(r, X), i) = UpTo(Places(q, X), i + 1) - 1
             /\ t \notin X => /\ Cardinality(Places(r, X)) = Cardinality(Places(q, X))
                              /\ \A i \in Nat : UpTo(Places(r, X), i) = UpTo(Places(q, X), i + 1)
  <2>1. r \in Seq(Messages) /\ Len(r) = Len(q) - 1 /\ Len(q) \in Nat
    BY <1>1, <1>2, HeadTailProperties DEF r
  <2>2. Places(r, X) \in SUBSET (1..Len(q) - 1)
    BY <2>1, PlacesType
  <2>3. \A i \in Places(r, X) : UpTo(Places(r, X), i) >= 1 /\ UpTo(Places(r, X), i) \in Nat
    BY <2>1, PlacesType
  <2>4. /\ \A i \in Places(r, X) : i \in Nat /\ i + 1 \in Places(q, X)
        /\ (1 \in Places(q, X)) <=> (t \in X)
    <3>1. \A i \in Places(r, X) : i \in Nat /\ i + 1 \in Places(q, X)
      BY <1>1, <1>2, PlacesPop DEF r
    <3>2. (1 \in Places(q, X)) <=> (q[1] \in X)
      BY <1>1, <1>2, PlacesPop
    <3> QED
      BY <1>1, <3>1, <3>2
  <2>5. \A i \in Places(r, X) : r[i] = q[i + 1]
    BY <1>1, <1>2, <2>2, PlacesPop DEF r
  <2>6. t \in X => /\ Cardinality(Places(r, X)) = Cardinality(Places(q, X)) - 1
                   /\ UpTo(Places(q, X), 1) = 1
                   /\ \A i \in Nat : UpTo(Places(r, X), i) = UpTo(Places(q, X), i + 1) - 1
    <3>1. t \in X => Cardinality(Places(r, X)) = Cardinality(Places(q, X)) - 1
      <4>1. q[1] \in X => Cardinality(Places(Tail(q), X)) = Cardinality(Places(q, X)) - 1
        BY <1>1, <1>2, PlacesPop
      <4> QED
        BY <1>1, <4>1 DEF r
    <3>2. t \in X => UpTo(Places(q, X), 1) = 1
      BY <1>1, <1>2, PlacesPop
    <3>3. t \in X => \A i \in Nat : UpTo(Places(r, X), i) = UpTo(Places(q, X), i + 1) - 1
      <4>1. q[1] \in X =>
              \A i \in Nat : UpTo(Places(Tail(q), X), i) = UpTo(Places(q, X), i + 1) - 1
        <5> SUFFICES ASSUME q[1] \in X, NEW i \in Nat
                     PROVE  UpTo(Places(Tail(q), X), i) = UpTo(Places(q, X), i + 1) - 1
          OBVIOUS
        <5>1. q \in Seq(Messages) /\ q # <<>>
          BY <1>1, <1>2
        <5> QED
          BY <5>1, PlacesPop
      <4> QED
        BY <1>1, <4>1 DEF r
    <3> QED
      BY <3>1, <3>2, <3>3
  <2>7. t \notin X => /\ Cardinality(Places(r, X)) = Cardinality(Places(q, X))
                      /\ \A i \in Nat : UpTo(Places(r, X), i) = UpTo(Places(q, X), i + 1)
    BY <1>1, <1>2, PlacesPop DEF r
  <2> QED
    BY <2>2, <2>3, <2>4, <2>5, <2>6, <2>7
<1>5. \A X : Cardinality(Places(q, X)) \in Nat /\ \A i \in Places(q, X) : UpTo(Places(q, X), i) \in Nat
  BY <1>2, PlacesType
<1>6. t \in EditMsgs => p # <<>> /\ Head(p).op = OpOf(t)
  <2> SUFFICES ASSUME t \in EditMsgs PROVE p # <<>> /\ Head(p).op = OpOf(t)
    OBVIOUS
  <2>1. 1 \in Places(q, EditMsgs) /\ UpTo(Places(q, EditMsgs), 1) = 1
    BY <1>4
  <2>2. 1 \in DOMAIN p /\ p[1].op = OpOf(q[1])
    BY <1>3, <2>1 DEF PairedEdits
  <2>3. p # <<>> /\ Head(p) = p[1]
    BY <2>2
  <2> QED
    BY <1>1, <2>2, <2>3
<1>7. t \in FormMsgs => E # <<>>
  <2> SUFFICES ASSUME t \in FormMsgs PROVE E # <<>>
    OBVIOUS
  <2>1. 1 \in Places(q, FormMsgs) /\ UpTo(Places(q, FormMsgs), 1) = 1
    BY <1>4
  <2>2. 1 \in DOMAIN E
    BY <1>3, <2>1 DEF PairedForms
  <2> QED
    BY <2>2
<1>8. PairedEdits(r, o)
  <2> SUFFICES ASSUME NEW i \in Places(r, EditMsgs)
               PROVE  /\ UpTo(Places(r, EditMsgs), i) \in DOMAIN o
                      /\ o[UpTo(Places(r, EditMsgs), i)].op = OpOf(r[i])
    BY DEF PairedEdits
  <2> DEFINE u == UpTo(Places(r, EditMsgs), i)
             w == UpTo(Places(q, EditMsgs), i + 1)
  <2>1. i \in Nat /\ r[i] = q[i + 1] /\ u >= 1 /\ u \in Nat /\ w \in DOMAIN p /\ p[w].op = OpOf(q[i + 1])
    BY <1>3, <1>4 DEF PairedEdits
  <2>2. CASE t \notin EditMsgs
    BY <1>4, <2>1, <2>2 DEF o
  <2>3. CASE t \in EditMsgs
    <3>1. u = w - 1
      BY <1>4, <2>1, <2>3
    <3>2. o = Tail(p) /\ Len(o) = Len(p) - 1 /\ \A k \in 1..Len(p) - 1 : o[k] = p[k + 1]
      BY <1>6, <2>3, HeadTailProperties DEF o
    <3>3. o \in Seq(Pendings)
      BY <1>6, <2>3, HeadTailProperties DEF o
    <3>4. DOMAIN o = 1..Len(p) - 1 /\ DOMAIN p = 1..Len(p) /\ Len(p) \in Nat
      BY <3>2, <3>3, LenProperties
    <3> HIDE DEF u, w
    <3>5. u \in 1..Len(p) - 1 /\ u + 1 = w
      BY <2>1, <3>1, <3>4
    <3>6. u \in DOMAIN o /\ o[u] = p[w]
      BY <3>2, <3>4, <3>5
    <3> QED
      BY <2>1, <3>6 DEF u
  <2> QED
    BY <2>2, <2>3
<1>9. /\ Len(E) \in Nat /\ DOMAIN E = 1..Len(E) /\ DOMAIN F = 1..Len(F)
      /\ t \in FormMsgs => Len(F) = Len(E) - 1 /\ \A k \in 1..Len(E) - 1 : F[k] = E[k + 1]
      /\ t \notin FormMsgs => F = E
  <2>1. Len(E) \in Nat /\ DOMAIN E = 1..Len(E)
    OBVIOUS
  <2>2. t \in FormMsgs => /\ F \in Seq(BOOLEAN) /\ Len(F) = Len(E) - 1
                          /\ \A k \in 1..Len(E) - 1 : F[k] = E[k + 1]
    BY <1>7, HeadTailProperties DEF F
  <2>3. t \notin FormMsgs => F = E
    BY DEF F
  <2>4. F \in Seq(BOOLEAN)
    BY <2>2, <2>3
  <2>5. DOMAIN F = 1..Len(F)
    BY <2>4, LenProperties
  <2> QED
    BY <2>1, <2>2, <2>3, <2>5, Zenon
<1>10. PairedForms(r, n - 1, F, K)
  <2> SUFFICES ASSUME NEW i \in Places(r, FormMsgs)
               PROVE  /\ UpTo(Places(r, FormMsgs), i) \in DOMAIN F
                      /\ i > n - 1 => F[UpTo(Places(r, FormMsgs), i)] = r[i].may
                      /\ i <= n - 1 /\ r[i].commits /\ ~F[UpTo(Places(r, FormMsgs), i)] => K # {}
    BY DEF PairedForms
  <2> DEFINE u == UpTo(Places(r, FormMsgs), i)
             w == UpTo(Places(q, FormMsgs), i + 1)
  <2>1. i \in Nat /\ i + 1 \in Places(q, FormMsgs) /\ r[i] = q[i + 1] /\ u >= 1 /\ u \in Nat
    BY <1>4
  <2>2. w \in DOMAIN E
    BY <1>3, <2>1 DEF PairedForms
  <2>3. i + 1 > n => E[w] = q[i + 1].may
    BY <1>3, <2>1 DEF PairedForms
  <2>4. i + 1 <= n /\ q[i + 1].commits /\ ~E[w] => K # {}
    BY <1>3, <2>1, SMTT(30) DEF PairedForms
  <2>5. u \in DOMAIN F /\ F[u] = E[w]
    <3>1. CASE t \notin FormMsgs
      <4>1. u = w /\ F = E
        BY <1>4, <1>9, <2>1, <3>1
      <4> HIDE DEF u, w
      <4> QED
        BY <2>2, <4>1, Zenon
    <3>2. CASE t \in FormMsgs
      <4>1. u = w - 1
        BY <1>4, <2>1, <3>2
      <4>2. /\ Len(E) \in Nat /\ DOMAIN E = 1..Len(E) /\ DOMAIN F = 1..Len(F)
            /\ Len(F) = Len(E) - 1
        BY <1>9, <3>2, Zenon
      <4> HIDE DEF u, w
      <4>3. u \in 1..Len(E) - 1 /\ u + 1 = w /\ u \in DOMAIN F
        BY <2>1, <2>2, <4>1, <4>2
      <4>4. \A k \in 1..Len(E) - 1 : F[k] = E[k + 1]
        BY <1>9, <3>2, Zenon
      <4>5. F[u] = E[u + 1]
        BY <4>3, <4>4, Zenon
      <4> QED
        BY <4>3, <4>5, Zenon
    <3> QED
      BY <3>1, <3>2
  <2>6. (i > n - 1 <=> i + 1 > n) /\ (i <= n - 1 <=> i + 1 <= n)
    BY <1>2, <2>1
  <2> HIDE DEF u, w
  <2>7. i > n - 1 => F[u] = r[i].may
    BY <2>1, <2>3, <2>5, <2>6, Zenon
  <2>8. i <= n - 1 /\ r[i].commits /\ ~F[u] => K # {}
    BY <2>1, <2>4, <2>5, <2>6, Zenon
  <2> QED
    BY <2>5, <2>7, <2>8, Zenon DEF u
<1>11. V => AllOwed(r, o, F)
  <2> SUFFICES ASSUME V PROVE AllOwed(r, o, F)
    OBVIOUS
  <2>1. Cardinality(Places(r, EditMsgs)) = Len(o)
    <3>1. t \in EditMsgs => Len(o) = Len(p) - 1
      BY <1>6, HeadTailProperties DEF o
    <3>2. t \notin EditMsgs => o = p
      BY DEF o
    <3> QED
      BY <1>3, <1>4, <3>1, <3>2 DEF AllOwed
  <2>2. Cardinality(Places(r, FormMsgs)) = Len(F)
    <3>1. t \in FormMsgs => Len(F) = Len(E) - 1
      BY <1>9, Zenon
    <3>2. t \notin FormMsgs => F = E
      BY <1>9, Zenon
    <3> QED
      BY <1>3, <1>4, <3>1, <3>2 DEF AllOwed
  <2> QED
    BY <2>1, <2>2 DEF AllOwed
<1>12. DOMAIN T = 1..n /\ DOMAIN U = 1..n - 1
  BY <1>1, LenProperties
<1>13. /\ Places(U, MoveMsgs) \in SUBSET (1..n - 1) /\ Places(T, MoveMsgs) \in SUBSET (1..n)
       /\ Cardinality(Places(T, MoveMsgs)) \in Nat
       /\ \A i \in Places(T, MoveMsgs) : UpTo(Places(T, MoveMsgs), i) \in Nat
  BY <1>1, PlacesType
<1>14. /\ \A i \in Places(U, MoveMsgs) : i \in Nat /\ i + 1 \in Places(T, MoveMsgs)
       /\ 1 \in Places(T, MoveMsgs) <=> t \in MoveMsgs
  BY <1>1, PlacesPop DEF U
<1>15. t \in MoveMsgs =>
         /\ Cardinality(Places(U, MoveMsgs)) = Cardinality(Places(T, MoveMsgs)) - 1
         /\ UpTo(Places(T, MoveMsgs), 1) = 1
         /\ \A i \in Nat : UpTo(Places(U, MoveMsgs), i) = UpTo(Places(T, MoveMsgs), i + 1) - 1
  BY <1>1, PlacesPop DEF U
<1>16. t \notin MoveMsgs =>
         /\ Cardinality(Places(U, MoveMsgs)) = Cardinality(Places(T, MoveMsgs))
         /\ \A i \in Nat : UpTo(Places(U, MoveMsgs), i) = UpTo(Places(T, MoveMsgs), i + 1)
  BY <1>1, PlacesPop DEF U
<1>17. t \in MoveMsgs => t.rev = R + 1
  BY <1>1, <1>3, <1>14, <1>15 DEF Revised
<1>18. \A i \in Places(U, MoveMsgs) : U[i] = T[i + 1]
  BY <1>1, <1>13
<1>19. Revised(U, S, W)
  <2>1. CASE t \notin MoveMsgs
    BY <1>3, <1>14, <1>16, <1>18, <2>1 DEF Revised, S
  <2>2. CASE t \in MoveMsgs
    <3>1. S = R + 1 /\ Cardinality(Places(U, MoveMsgs)) = Cardinality(Places(T, MoveMsgs)) - 1
      BY <1>15, <1>17, <2>2 DEF S
    <3>2. W = S + Cardinality(Places(U, MoveMsgs))
      BY <1>3, <1>13, <3>1 DEF Revised
    <3>3. ASSUME NEW i \in Places(U, MoveMsgs)
          PROVE  U[i].rev = S + UpTo(Places(U, MoveMsgs), i)
      <4>1. U[i].rev = R + UpTo(Places(T, MoveMsgs), i + 1)
        BY <1>3, <1>14, <1>18 DEF Revised
      <4>2. /\ UpTo(Places(U, MoveMsgs), i) = UpTo(Places(T, MoveMsgs), i + 1) - 1
            /\ UpTo(Places(T, MoveMsgs), i + 1) \in Nat
        BY <1>13, <1>14, <1>15, <2>2
      <4> QED
        BY <3>1, <4>1, <4>2
    <3> QED
      BY <3>2, <3>3 DEF Revised
  <2> QED
    BY <2>1, <2>2
<1>20. \A i \in 1..n - 1 : i + 1 \in 1..n
  BY <1>2
<1>21. RefusalsSeen(U, K) /\ CauseSeen(U)
  <2>1. \A i \in DOMAIN U : i + 1 \in DOMAIN T /\ U[i] = T[i + 1]
    BY <1>1, <1>12, <1>20
  <2>2. RefusalsSeen(U, K)
    BY <1>3, <2>1 DEF RefusalsSeen
  <2>3. CauseSeen(U)
    BY <1>3, <2>1 DEF CauseSeen
  <2> QED
    BY <2>2, <2>3
<1>22. LinkInv(U, a, o, F, S, W, K, V)
  BY <1>1, <1>3, <1>8, <1>10, <1>11, <1>19, <1>21 DEF LinkInv
<1> QED
  BY <1>6, <1>7, <1>17, <1>22 DEF U, o, F, S, t

LEMMA LinkReset == LinkInv(<<>>, <<>>, <<>>, <<>>, 0, 0, {}, TRUE)
<1>1. <<>> \o <<>> = <<>>
  OBVIOUS
<1>2. \A X : Places(<<>>, X) = {}
  BY DEF Places
<1>3. Cardinality({}) = 0 /\ Len(<<>>) = 0
  BY FS_EmptySet
<1>4. PairedEdits(<<>>, <<>>) /\ PairedForms(<<>>, Len(<<>>), <<>>, {}) /\ AllOwed(<<>>, <<>>, <<>>)
  BY <1>2, <1>3 DEF PairedEdits, PairedForms, AllOwed
<1>5. Revised(<<>>, 0, 0)
  BY <1>2, <1>3, SMTT(20) DEF Revised
<1>6. ExpectsRight(<<>>, 0, {}) /\ NoneBehind(<<>>) /\ RefusalsSeen(<<>>, {}) /\ CauseSeen(<<>>)
  BY DEF ExpectsRight, NoneBehind, RefusalsSeen, CauseSeen
<1> QED
  BY <1>1, <1>4, <1>5, <1>6 DEF LinkInv

(* With nothing in flight nothing remains of what moved the revision. *)
LEMMA LinkSettle ==
  ASSUME NEW E, NEW R, NEW W, NEW K, NEW V, LinkInv(<<>>, <<>>, <<>>, E, R, W, K, V)
  PROVE  LinkInv(<<>>, <<>>, <<>>, E, R, W, {}, V)
<1>1. <<>> \o <<>> = <<>>
  OBVIOUS
<1>2. Places(<<>>, FormMsgs) = {}
  BY DEF Places
<1>3. PairedForms(<<>> \o <<>>, Len(<<>>), E, {})
  BY <1>1, <1>2 DEF PairedForms
<1>4. ExpectsRight(<<>>, W, {}) /\ RefusalsSeen(<<>>, {})
  BY DEF ExpectsRight, RefusalsSeen
<1> QED
  BY <1>3, <1>4 DEF LinkInv

(***************************************************************************)
(* The link of a reader that is open, and the reader that is not.          *)
(***************************************************************************)
Linked ==
  open # NoFile =>
    \A T, a, p, E, R, W, K, V :
      /\ T = told /\ a = asks /\ p = pending /\ E = events
      /\ R = reader.rev /\ W = worker.rev /\ K = skew /\ V = serving
      => LinkInv(T, a, p, E, R, W, K, V)

Closed ==
  open = NoFile => /\ told = <<>> /\ asks = <<>> /\ ~serving /\ ~pumping
                   /\ pending = <<>> /\ deferred = <<>> /\ events = <<>>

LEMMA LinkNow ==
  ASSUME Linked, open # NoFile
  PROVE  LinkInv(told, asks, pending, events, reader.rev, worker.rev, skew, serving)
BY DEF Linked

LEMMA LinkNext ==
  ASSUME NEW T, T = told', NEW a, a = asks', NEW p, p = pending', NEW E, E = events',
         NEW R, R = reader'.rev, NEW W, W = worker'.rev, NEW K, K = skew', NEW V, V = serving',
         LinkInv(T, a, p, E, R, W, K, V)
  PROVE  Linked'
BY DEF Linked

LEMMA LinkSame ==
  ASSUME Linked, UNCHANGED <<told, asks, pending, events, open, skew, serving>>,
         reader'.rev = reader.rev, worker'.rev = worker.rev
  PROVE  Linked'
BY DEF Linked

(* The queues as they are, in their types. *)
LEMMA LinkParts ==
  ASSUME TypeInv
  PROVE  /\ told \in Seq(Replies) /\ asks \in Seq(Requests) /\ pending \in Seq(Pendings)
         /\ events \in Seq(BOOLEAN) /\ reader.rev \in Nat /\ worker.rev \in Nat
         /\ serving \in BOOLEAN /\ skew \in SUBSET Causes
BY DEF TypeInv, LinkTypes, QueueTypes, ReaderTypes, Readers, DocTypes, Workers

LEMMA DeskLinked ==
  ASSUME TypeInv, Linked, open # NoFile
  PROVE  Desk \in LinkedDesks(told, events, reader.rev, worker.rev, skew, serving)
<1>1. Desk.a = asks /\ Desk.p = pending
  BY DEF Desk
<1> QED
  BY <1>1, DeskType, LinkNow DEF LinkedDesks

(* What the user posts. *)
LEMMA LinkPuts ==
  ASSUME NEW s \in LinkedDesks(told, events, reader.rev, worker.rev, skew, serving),
         PutDesk(s), UNCHANGED <<told, events, worker, skew, serving>>, reader'.rev = reader.rev
  PROVE  Linked'
<1>1. pending' = s.p /\ asks' = s.a
  BY DEF PutDesk
<1>2. LinkInv(told, s.a, s.p, events, reader.rev, worker.rev, skew, serving)
  BY DEF LinkedDesks
<1> QED
  BY <1>1, <1>2, LinkNext

LEMMA LinkPostsTransaction ==
  ASSUME TypeInv, Linked, UserActs, NEW op \in Ops, PostsTransaction(op)
  PROVE  Linked'
<1> DEFINE e == [via |-> "applied", op |-> op]
<1>1. e \in Posts /\ Post(Desk, reader.rev, events, e) = Commit(Desk, reader.rev, events, op)
  BY DEF Posts, Post
<1>2. open # NoFile
  BY DEF UserActs
<1> HIDE DEF e
<1>3. Post(Desk, reader.rev, events, e)
        \in LinkedDesks(told, events, reader.rev, worker.rev, skew, serving)
  BY <1>1, <1>2, LinkParts, DeskLinked, PostLinked
<1> QED
  BY <1>1, <1>3, LinkPuts DEF PostsTransaction, docVars

LEMMA LinkDraws == ASSUME TypeInv, Linked, Draw \/ Erase PROVE Linked'
<1>1. CASE Draw
  BY <1>1, ActsType, OpTypes, LinkPostsTransaction DEF Draw
<1>2. CASE Erase
  <2>1. PICK i \in Known : PostsTransaction(Delete(i))
    BY <1>2 DEF Erase
  <2>2. i \in Marks
    BY DEF Known, TypeInv, DocTypes, Workers
  <2>3. Delete(i) \in Ops
    BY <2>2, OpTypes
  <2>4. UserActs
    BY <1>2 DEF Erase
  <2> QED
    BY <2>1, <2>3, <2>4, LinkPostsTransaction
<1> QED
  BY <1>1, <1>2

LEMMA LinkTakeBack ==
  ASSUME TypeInv, Linked, NEW kind \in {"undo", "redo"}, TakeBack(kind)
  PROVE  Linked'
<1>1. /\ reader[kind] \in Seq(Ops) /\ reader[kind] # <<>> /\ reader.epoch \in Nat
      /\ reader' = [reader EXCEPT ![kind] = Front(@)] /\ open # NoFile
  BY DEF TakeBack, UserActs, TypeInv, ReaderTypes, Readers
<1>2. Last(reader[kind]) \in Ops
  BY <1>1, FrontLast
<1>3. reader'.rev = reader.rev
  BY <1>1 DEF TypeInv, ReaderTypes, Readers
<1>4. SendUndo(Desk, reader.rev, kind, reader.epoch, Last(reader[kind]))
        \in LinkedDesks(told, events, reader.rev, worker.rev, skew, serving)
  BY <1>1, <1>2, LinkParts, DeskLinked, UndoLinked
<1> QED
  BY <1>3, <1>4, LinkPuts DEF TakeBack, docVars

LEMMA LinkAsks ==
  ASSUME TypeInv, Linked, NEW may \in BOOLEAN, NEW f \in Files, FormEvent(may) \/ SaveAs(f)
  PROVE  Linked'
<1>1. /\ open # NoFile /\ reader' = reader /\ told' = told /\ pending' = pending
      /\ UNCHANGED docVars /\ skew' = skew /\ open' = open
  BY DEF FormEvent, SaveAs, UserActs, queueVars
<1>2. CASE ~serving
  <2>1. asks' = asks /\ events' = events
    BY <1>2 DEF FormEvent, SaveAs, queueVars
  <2> QED
    BY <1>1, <2>1, LinkSame DEF docVars
<1>3. CASE serving /\ FormEvent(may)
  <2> DEFINE x == [k |-> "form", may |-> may, val |-> acts + 1]
  <2>1. x \in FormRequests /\ x.may = may
    BY <1>3, ActsType DEF FormEvent, FormRequests
  <2>2. asks' = Append(asks, x) /\ events' = Append(events, may)
    BY <1>3 DEF FormEvent
  <2>3. LinkInv(told, asks, pending, events, reader.rev, worker.rev, skew, TRUE)
    BY <1>1, <1>3, LinkNow
  <2> HIDE DEF x
  <2>4. LinkInv(told, Append(asks, x), pending, Append(events, may), reader.rev, worker.rev, skew,
                TRUE)
    BY <2>1, <2>3, LinkParts, LinkAsk
  <2>5. LinkInv(told, Append(asks, x), pending, Append(events, may), reader.rev, worker.rev, skew,
                serving)
    BY <1>3, <2>4
  <2> QED
    BY <1>1, <2>2, <2>5, LinkNext DEF docVars
<1>4. CASE serving /\ SaveAs(f)
  <2> DEFINE x == [k |-> "save", to |-> f]
  <2>1. x \in SaveRequests /\ x \notin FormRequests
    BY DEF SaveRequests, FormRequests
  <2>2. asks' = Append(asks, x) /\ events' = events
    BY <1>4 DEF SaveAs, queueVars
  <2>3. LinkInv(told, asks, pending, events, reader.rev, worker.rev, skew, TRUE)
    BY <1>1, <1>4, LinkNow
  <2> HIDE DEF x
  <2>4. LinkInv(told, Append(asks, x), pending, events, reader.rev, worker.rev, skew, TRUE)
    BY <2>1, <2>3, LinkParts, LinkAsk
  <2>5. LinkInv(told, Append(asks, x), pending, events, reader.rev, worker.rev, skew, serving)
    BY <1>4, <2>4
  <2> QED
    BY <1>1, <2>2, <2>5, LinkNext DEF docVars
<1> QED
  BY <1>2, <1>3, <1>4 DEF TypeInv, DocTypes

LEMMA FilesFacts == \A f \in Files : f # NoFile
BY EditAssumption

LEMMA LinkOpen == ASSUME NEW f \in Files, Open(f) PROVE Linked' /\ Closed'
<1>1. /\ asks' = <<>> /\ told' = <<>> /\ serving' = TRUE /\ worker'.rev = 0 /\ reader'.rev = 0
      /\ pending' = <<>> /\ events' = <<>> /\ skew' = {} /\ open' = f
  BY DEF Open, Fresh
<1>2. Linked'
  BY <1>1, LinkReset, LinkNext
<1> QED
  BY <1>1, <1>2, FilesFacts DEF Closed

LEMMA LinkForgets == ASSUME open' = NoFile, ForgetEdits PROVE Linked' /\ Closed'
BY DEF ForgetEdits, Linked, Closed

LEMMA ClosedUser ==
  ASSUME Closed, UserActs, UNCHANGED open
  PROVE  Closed'
BY DEF UserActs, Closed

(* With no document open a replay posts nothing. *)
LEMMA ReplayClosed ==
  ASSUME Closed, open = NoFile, NEW rev, NEW es \in Seq(Entries)
  PROVE  PostAll(Desk, rev, events, es) = Desk
<1>1. ~MayCommitOut(events) /\ ~serving
  BY DEF Closed, MayCommitOut
<1>2. \A t \in {Desk} : \A e \in Entries : Post(t, rev, events, e) \in {Desk}
  BY <1>1 DEF Post, Commit, SendUndo
<1>3. PostAll(Desk, rev, events, es) \in {Desk}
  BY <1>2, PostAllKeeps
<1> QED
  BY <1>3

LEMMA LinkRestoreEdits ==
  ASSUME TypeInv, Ascending(offer), Linked, Closed, RestoreEdits
  PROVE  Linked' /\ Closed'
<1> DEFINE es == InOrder(offer.entries)
           z == PostAll(Desk, reader.rev, events, es)
<1>1. es \in Seq(Entries) /\ Entries \subseteq Posts
  BY InOrderType DEF TypeInv, LeftTypes, Posts
<1>2. es \in Seq(Posts)
  BY <1>1, SeqMonotonic
<1>3. /\ PutDesk(z) /\ UNCHANGED <<told, events, worker, skew, serving, pumping>>
      /\ reader'.rev = reader.rev /\ open' = open
  BY DEF RestoreEdits, docVars
<1> HIDE DEF es
<1>4. CASE open = NoFile
  <2>1. z = Desk
    BY <1>1, <1>4, ReplayClosed
  <2>2. pending' = pending /\ deferred' = deferred /\ asks' = asks
    BY <1>3, <2>1 DEF PutDesk, Desk
  <2> QED
    BY <1>3, <1>4, <2>2 DEF Closed, Linked
<1>5. CASE open # NoFile
  <2>1. z \in LinkedDesks(told, events, reader.rev, worker.rev, skew, serving)
    BY <1>2, <1>5, LinkParts, DeskLinked, PostAllLinked
  <2> HIDE DEF z
  <2>2. Linked'
    BY <1>3, <2>1, LinkPuts
  <2> QED
    BY <1>3, <1>5, <2>2 DEF Closed
<1> QED
  BY <1>4, <1>5

(* The worker's answers. *)
LEMMA LinkAnswers ==
  ASSUME TypeInv, Linked, Closed, serving, asks # <<>>, NEW y \in Replies, Answers(y),
         NEW W2, W2 = worker'.rev, NEW K2, K2 = skew',
         IsEdit(y) <=> IsEdit(Head(asks)), IsEdit(y) => OpOf(y) = OpOf(Head(asks)),
         y.k = "form" <=> Head(asks).k = "form",
         y \in MoveMsgs => W2 = worker.rev + 1 /\ y.rev = worker.rev + 1,
         y \notin MoveMsgs => W2 = worker.rev,
         K2 = {} => skew = {}, y.k = "refused" => K2 # {},
         y.k = "form" /\ y.commits /\ ~Head(asks).may => K2 # {},
         y.k = "refused" /\ y.why = "conflict" /\ y.was = "apply" => y.behind # {}
  PROVE  Linked' /\ Closed'
<1>1. open # NoFile
  BY DEF Closed
<1>2. serving = TRUE
  BY LinkParts
<1>3. LinkInv(told, asks, pending, events, reader.rev, worker.rev, skew, TRUE)
  BY <1>1, <1>2, LinkNow
<1>4. LinkInv(Append(told, y), Tail(asks), pending, events, reader.rev, W2, K2, TRUE)
  BY <1>3, LinkParts, LinkServe
<1>5. /\ asks' = Tail(asks) /\ told' = Append(told, y)
      /\ UNCHANGED <<serving, open, reader, pending, events>>
  BY DEF Answers, queueVars
<1>6. Linked'
  BY <1>2, <1>4, <1>5, LinkNext
<1> QED
  BY <1>1, <1>5, <1>6 DEF Closed

LEMMA LinkServeEdit == ASSUME TypeInv, Linked, Closed, ServeEdit PROVE Linked' /\ Closed'
<1> DEFINE a == Head(asks)
           y == [k |-> "applied", rev |-> worker.rev + 1, did |-> a.op,
                 undo |-> UndoOf(worker.field, worker.named + 1, a.op)]
<1>1. serving /\ asks # <<>> /\ a.k \in {"apply", "undo"} /\ a.op \in Ops
  BY HeadAsked DEF ServeEdit, Asked
<1>2. /\ worker.field \in Numbers /\ worker.named + 1 \in Nat /\ worker.marks \in SUBSET Marks
      /\ worker.rev \in Nat /\ worker \in Workers
  BY DEF TypeInv, DocTypes, Workers
<1>3. UndoOf(worker.field, worker.named + 1, a.op) \in Ops
  BY <1>1, <1>2, EngineTypes
<1>4. y \in Replies /\ y \in MoveMsgs
  BY <1>1, <1>2, <1>3 DEF Replies, Applieds, MoveMsgs
<1>5. /\ y.k = "applied" /\ y.rev = worker.rev + 1 /\ y.did = a.op
  OBVIOUS
<1>6. Answers(y) /\ skew' = skew /\ worker'.rev = worker.rev + 1
  BY <1>1, <1>2, DoneType DEF ServeEdit, historyVars
<1> HIDE DEF y, a
<1>7. IsEdit(y) /\ IsEdit(a) /\ OpOf(y) = OpOf(a) /\ a.k # "form"
  BY <1>1, <1>5 DEF IsEdit, OpOf
<1> QED
  BY <1>1, <1>4, <1>5, <1>6, <1>7, LinkAnswers DEF a

LEMMA LinkRefuseAs ==
  ASSUME TypeInv, Linked, Closed, Asked({"apply", "undo"}),
         NEW why \in {"conflict", "missing", "invalid"}, RefuseAs(why),
         why = "conflict" => ~Checked(Head(asks))
  PROVE  Linked' /\ Closed'
<1> DEFINE a == Head(asks)
           y == [k |-> "refused", op |-> a.op, was |-> a.k, why |-> why, behind |-> skew]
<1>1. serving /\ asks # <<>> /\ a.k \in {"apply", "undo"} /\ a.op \in Ops /\ a \in Requests
  BY HeadAsked DEF Asked
<1>2. y \in Replies
  BY <1>1 DEF TypeInv, Replies, Refusals
<1>3. y.k = "refused" /\ y.op = a.op /\ y.was = a.k /\ y.why = why /\ y.behind = skew
  OBVIOUS
<1>4. Answers(y) /\ skew' = skew \cup {"refusal"} /\ worker' = worker
  BY DEF RefuseAs
<1>5. why = "conflict" /\ a.k = "apply" => skew # {}
  <2> SUFFICES ASSUME why = "conflict", a.k = "apply", skew = {} PROVE FALSE
    OBVIOUS
  <2>1. open # NoFile
    BY <1>1 DEF Closed
  <2>2. ExpectsRight(asks, worker.rev, skew)
    BY <2>1, LinkNow DEF LinkInv
  <2>3. asks \in Seq(Requests) /\ 1 \in DOMAIN asks /\ asks[1] = a
    BY <1>1, LinkParts, HeadTailProperties
  <2>4. a.exp + 1 = worker.rev + UpTo(Places(asks, EditMsgs), 1)
    BY <2>2, <2>3 DEF ExpectsRight
  <2>5. asks[1] \in EditMsgs
    BY <1>1, <2>3 DEF EditMsgs, Messages, IsEdit
  <2>6. UpTo(Places(asks, EditMsgs), 1) = 1
    BY <1>1, <2>3, <2>5, PlacesPop
  <2>7. a.exp \in Nat /\ worker.rev \in Nat
    BY <1>1, LinkParts DEF Requests, EditRequests, FormRequests, SaveRequests
  <2>8. a.exp = worker.rev
    BY <2>4, <2>6, <2>7
  <2> QED
    BY <2>8 DEF Checked
<1> HIDE DEF y, a
<1>6. /\ IsEdit(y) /\ IsEdit(a) /\ OpOf(y) = OpOf(a) /\ a.k # "form" /\ y.k # "form"
      /\ y \notin MoveMsgs
  BY <1>1, <1>3 DEF IsEdit, OpOf, MoveMsgs
<1>7. /\ skew' # {} /\ worker'.rev = worker.rev /\ y.k # "form"
      /\ y.why = "conflict" /\ y.was = "apply" => y.behind # {}
  BY <1>3, <1>4, <1>5, <1>6
<1>8. IsEdit(y) /\ IsEdit(Head(asks)) /\ OpOf(y) = OpOf(Head(asks)) /\ Head(asks).k # "form"
  BY <1>6 DEF a
<1> QED
  BY <1>1, <1>2, <1>4, <1>6, <1>7, <1>8, LinkAnswers

LEMMA LinkRefusals ==
  ASSUME TypeInv, Linked, Closed, ServeConflict \/ ServeMissing \/ ServeInvalid
  PROVE  Linked' /\ Closed'
<1>1. Asked({"apply", "undo"})
  BY DEF ServeConflict, ServeMissing, ServeInvalid, Asked
<1>2. \E why \in {"conflict", "missing", "invalid"} :
        RefuseAs(why) /\ (why = "conflict" => ~Checked(Head(asks)))
  BY DEF ServeConflict, ServeMissing, ServeInvalid
<1> QED
  BY <1>1, <1>2, LinkRefuseAs

LEMMA LinkServeForm == ASSUME TypeInv, Linked, Closed, ServeForm PROVE Linked' /\ Closed'
<1> DEFINE a == Head(asks)
<1>1. serving /\ asks # <<>> /\ a.k = "form" /\ a.val \in Numbers /\ a.may \in BOOLEAN
  BY HeadAsked DEF ServeForm, Asked
<1>2. worker \in Workers /\ worker.rev \in Nat /\ worker.field \in Numbers
  BY DEF TypeInv, DocTypes, Workers
<1>3. CASE Answers([k |-> "form", commits |-> FALSE]) /\ UNCHANGED <<worker, skew>>
  <2> DEFINE y == [k |-> "form", commits |-> FALSE]
  <2>1. y \in Replies /\ y.k = "form" /\ ~y.commits
    BY DEF Replies, IdleForms
  <2> HIDE DEF y, a
  <2>2. ~IsEdit(y) /\ ~IsEdit(a) /\ y \notin MoveMsgs
    BY <1>1, <2>1 DEF IsEdit, MoveMsgs
  <2>3. Answers(y) /\ skew' = skew /\ worker'.rev = worker.rev
    BY <1>3 DEF y
  <2> QED
    BY <1>1, <2>1, <2>2, <2>3, LinkAnswers DEF a
<1>4. CASE /\ \E named \in BOOLEAN :
                Answers([k |-> "form", commits |-> TRUE, named |-> named, rev |-> worker.rev + 1,
                         was |-> worker.field, val |-> a.val])
           /\ worker' = [worker EXCEPT !.rev = @ + 1, !.field = a.val]
           /\ skew' = IF a.may THEN skew ELSE skew \cup {"quiet commit"}
  <2>1. PICK named \in BOOLEAN :
             Answers([k |-> "form", commits |-> TRUE, named |-> named, rev |-> worker.rev + 1,
                      was |-> worker.field, val |-> a.val])
    BY <1>4
  <2> DEFINE y == [k |-> "form", commits |-> TRUE, named |-> named, rev |-> worker.rev + 1,
                   was |-> worker.field, val |-> a.val]
  <2>2. y \in Replies /\ y.k = "form" /\ y.commits /\ y.rev = worker.rev + 1
    BY <1>1, <1>2 DEF Replies, Commits
  <2>3. worker'.rev = worker.rev + 1
    BY <1>2, <1>4 DEF Workers
  <2>4. (skew' = {} => skew = {}) /\ (~a.may => skew' # {})
    BY <1>4
  <2>5. Answers(y)
    BY <2>1
  <2> HIDE DEF y, a
  <2>6. ~IsEdit(y) /\ ~IsEdit(a) /\ y \in MoveMsgs
    BY <1>1, <2>2 DEF IsEdit, MoveMsgs
  <2> QED
    BY <1>1, <2>2, <2>3, <2>4, <2>5, <2>6, LinkAnswers DEF a
<1> QED
  BY <1>3, <1>4 DEF ServeForm

LEMMA LinkServeSave == ASSUME TypeInv, Linked, Closed, ServeSave PROVE Linked' /\ Closed'
<1> DEFINE a == Head(asks)
<1>1. serving /\ asks # <<>> /\ a.k = "save" /\ a.to \in Files
  BY HeadAsked DEF ServeSave, Asked
<1>2. worker' = worker /\ skew' = skew
  BY DEF ServeSave, historyVars
<1>3. PICK y \in {[k |-> "saved", to |-> a.to], [k |-> "failed"]} : Answers(y)
  BY DEF ServeSave
<1>4. y \in Replies /\ y.k \in {"saved", "failed"}
  BY <1>1 DEF Replies, Saveds, Others
<1> HIDE DEF a
<1>5. ~IsEdit(y) /\ ~IsEdit(a) /\ y \notin MoveMsgs
  BY <1>1, <1>4 DEF IsEdit, MoveMsgs
<1> QED
  BY <1>1, <1>2, <1>3, <1>4, <1>5, LinkAnswers DEF a

LEMMA LinkServeLost == ASSUME TypeInv, Linked, Closed, ServeLost PROVE Linked' /\ Closed'
<1> DEFINE y == [k |-> "gone"]
<1>1. y \in Replies /\ y.k = "gone"
  BY DEF Replies, Others
<1>2. open # NoFile
  BY DEF ServeLost, Closed
<1>3. /\ told' = Append(told, y) /\ asks' = <<>> /\ serving' = FALSE
      /\ UNCHANGED <<pending, events, worker, skew, open, reader>>
  BY DEF ServeLost, queueVars, historyVars
<1> HIDE DEF y
<1>4. LinkInv(told, asks, pending, events, reader.rev, worker.rev, skew, serving)
  BY <1>2, LinkNow
<1>5. LinkInv(Append(told, y), <<>>, pending, events, reader.rev, worker.rev, skew, FALSE)
  BY <1>1, <1>4, LinkParts, LinkLost
<1>6. Linked'
  BY <1>3, <1>5, LinkNext
<1> QED
  BY <1>2, <1>3, <1>6 DEF Closed

LEMMA LinkWorkerDies == ASSUME TypeInv, Linked, Closed, WorkerDies PROVE Linked' /\ Closed'
<1>1. worker'.rev = worker.rev
  BY DEF WorkerDies, TypeInv, DocTypes, Workers
<1>2. UNCHANGED <<told, asks, pending, events, open, skew, serving, reader, pumping, deferred>>
  BY DEF WorkerDies, linkVars, queueVars
<1>3. Linked'
  BY <1>1, <1>2, LinkSame
<1> QED
  BY <1>2, <1>3 DEF Closed

(* An answer is taken, whatever it says. *)
LEMMA LinkTakes ==
  ASSUME TypeInv, Linked, Closed, NEW kind, TakeAnswer(kind), open' = open,
         NEW s \in Desks, s.a = asks,
         s.p = IF Head(told) \in EditMsgs THEN Tail(pending) ELSE pending,
         NEW F \in Seq(BOOLEAN), F = events',
         F = IF Head(told) \in FormMsgs THEN Tail(events) ELSE events,
         NEW R \in Nat, R = reader'.rev,
         R = IF Head(told) \in MoveMsgs THEN Head(told).rev ELSE reader.rev,
         PutDesk(Released(s, R, F)), Settle
  PROVE  Linked' /\ Closed'
<1>1. /\ told # <<>> /\ told' = Tail(told) /\ Tail(told) \in Seq(Replies)
      /\ UNCHANGED <<worker, serving>> /\ open # NoFile
  BY TypeTakeAnswer DEF TakeAnswer
<1>2. LinkInv(Tail(told), asks, s.p, F, R, worker.rev, skew, serving)
  BY <1>1, LinkNow, LinkParts, LinkPop
<1>3. s \in LinkedDesks(Tail(told), F, R, worker.rev, skew, serving)
  BY <1>2 DEF LinkedDesks
<1> DEFINE z == Released(s, R, F)
<1>4. z \in LinkedDesks(Tail(told), F, R, worker.rev, skew, serving)
  BY <1>1, <1>3, LinkParts, ReleasedLinked
<1>5. pending' = z.p /\ asks' = z.a
  BY DEF PutDesk
<1> HIDE DEF z
<1>6. LinkInv(Tail(told), z.a, z.p, F, R, worker.rev, skew, serving)
  BY <1>4 DEF LinkedDesks
<1>7. Linked'
  <2>1. CASE skew' = skew
    BY <1>1, <1>5, <1>6, <2>1, LinkNext
  <2>2. CASE skew' # skew
    <3>1. asks' = <<>> /\ told' = <<>> /\ pending' = <<>> /\ skew' = {}
      BY <2>2 DEF Settle
    <3>2. z.a = <<>> /\ Tail(told) = <<>> /\ z.p = <<>>
      BY <1>1, <1>5, <3>1
    <3>3. LinkInv(<<>>, <<>>, <<>>, F, R, worker.rev, skew, serving)
      BY <1>6, <3>2
    <3>4. LinkInv(<<>>, <<>>, <<>>, F, R, worker.rev, {}, serving)
      BY <3>3, LinkSettle
    <3> QED
      BY <1>1, <3>1, <3>4, LinkNext
  <2> QED
    BY <2>1, <2>2
<1> QED
  BY <1>1, <1>7 DEF Closed

(* An answer in the reader's queue belongs to the edit, or to the event, it *)
(* is taken for.                                                            *)
LEMMA AnswerOfEdit ==
  ASSUME TypeInv, Linked, NEW kind \in {"applied", "refused"}, TakeAnswer(kind)
  PROVE  /\ Head(told) \in EditMsgs /\ Head(told) \notin FormMsgs
         /\ pending # <<>> /\ Head(pending).op = OpOf(Head(told))
         /\ kind = "applied" => Head(told) \in MoveMsgs /\ Head(told).rev = reader.rev + 1
         /\ kind = "refused" => Head(told) \notin MoveMsgs
<1>1. /\ told # <<>> /\ Head(told) \in Replies /\ Head(told).k = kind /\ open # NoFile
  BY TypeTakeAnswer DEF TakeAnswer
<1>2. Head(told) \in EditMsgs /\ Head(told) \notin FormMsgs
  BY <1>1 DEF EditMsgs, FormMsgs, Messages, IsEdit
<1>3. (kind = "applied" => Head(told) \in MoveMsgs) /\ (kind = "refused" => Head(told) \notin MoveMsgs)
  BY <1>1 DEF MoveMsgs
<1>4. LinkInv(told, asks, pending, events, reader.rev, worker.rev, skew, serving)
  BY <1>1, LinkNow
<1>5. pending # <<>> /\ Head(pending).op = OpOf(Head(told))
  BY <1>1, <1>2, <1>4, LinkParts, LinkPop
<1>6. Head(told) \in MoveMsgs => Head(told).rev = reader.rev + 1
  BY <1>1, <1>4, LinkParts, LinkPop
<1> QED
  BY <1>2, <1>3, <1>5, <1>6

LEMMA AnswerOfForm ==
  ASSUME TypeInv, Linked, TakeAnswer("form")
  PROVE  /\ Head(told) \in FormMsgs /\ Head(told) \notin EditMsgs /\ events # <<>>
         /\ Head(told) \in MoveMsgs <=> Head(told).commits
         /\ Head(told).commits => Head(told).rev = reader.rev + 1
<1>1. /\ told # <<>> /\ Head(told) \in Replies /\ Head(told).k = "form" /\ open # NoFile
  BY TypeTakeAnswer DEF TakeAnswer
<1>2. Head(told) \in FormMsgs /\ Head(told) \notin EditMsgs
  BY <1>1 DEF EditMsgs, FormMsgs, Messages, IsEdit
<1>3. Head(told) \in MoveMsgs <=> Head(told).commits
  BY <1>1 DEF MoveMsgs
<1>4. LinkInv(told, asks, pending, events, reader.rev, worker.rev, skew, serving)
  BY <1>1, LinkNow
<1>5. events # <<>>
  BY <1>1, <1>2, <1>4, LinkParts, LinkPop
<1>6. Head(told) \in MoveMsgs => Head(told).rev = reader.rev + 1
  BY <1>1, <1>4, LinkParts, LinkPop
<1> QED
  BY <1>2, <1>3, <1>5, <1>6

LEMMA FormAwaited == ASSUME TypeInv, Linked PROVE TakeForm => events # <<>>
BY AnswerOfForm DEF TakeForm

LEMMA AnsweredDesk ==
  ASSUME TypeInv, pending # <<>>
  PROVE  Answered(Desk) \in Desks /\ Answered(Desk).a = asks /\ Answered(Desk).p = Tail(pending)
<1>1. Answered(Desk) \in Desks
  BY DeskType, AnsweredType
<1>2. Answered(Desk).a = asks /\ Answered(Desk).p = Tail(pending)
  BY DEF Answered, Desk
<1> QED
  BY <1>1, <1>2

LEMMA LinkTakeApplied == ASSUME TypeInv, Linked, Closed, TakeApplied PROVE Linked' /\ Closed'
<1> DEFINE t == Head(told)
           kind == IF pending = <<>> THEN "edit" ELSE Head(pending).kind
<1>1. /\ TakeAnswer("applied") /\ reader' = Adopt(kind, t)
      /\ PutDesk(Released(Answered(Desk), t.rev, events))
      /\ Settle /\ UNCHANGED <<open, events>>
  BY DEF TakeApplied, Answered
<1>2. /\ t \in EditMsgs /\ t \notin FormMsgs /\ pending # <<>> /\ t \in MoveMsgs
      /\ t.rev = reader.rev + 1
  BY <1>1, AnswerOfEdit
<1>3. t.rev \in Nat /\ events \in Seq(BOOLEAN)
  BY <1>2, LinkParts
<1>4. reader'.rev = t.rev
  BY <1>1 DEF Adopt, TypeInv, ReaderTypes, Readers
<1> DEFINE s == Answered(Desk)
<1>5. s \in Desks /\ s.a = asks /\ s.p = Tail(pending)
  BY <1>2, AnsweredDesk
<1> HIDE DEF kind, t, s
<1>6. PutDesk(Released(s, t.rev, events))
  BY <1>1 DEF s
<1> QED
  BY <1>1, <1>2, <1>3, <1>4, <1>5, <1>6, LinkTakes DEF t

LEMMA LinkTakeRefused == ASSUME TypeInv, Linked, Closed, TakeRefused PROVE Linked' /\ Closed'
<1> DEFINE t == Head(told)
           s == Answered(Desk)
<1>1. /\ TakeAnswer("refused") /\ Settle /\ UNCHANGED <<open, events>>
      /\ reader' = IF pending = <<>> THEN reader ELSE PutBack(Head(pending))
      /\ PutDesk(Released(s, reader.rev, events))
  BY DEF TakeRefused, Answered
<1>2. t \in EditMsgs /\ t \notin FormMsgs /\ pending # <<>> /\ t \notin MoveMsgs
  BY <1>1, AnswerOfEdit
<1>3. reader.rev \in Nat /\ events \in Seq(BOOLEAN)
  BY LinkParts
<1>4. reader'.rev = reader.rev
  <2>1. Head(pending).kind \in {"edit", "undo", "redo"}
    BY <1>2, PendingHead
  <2> QED
    BY <1>1, <1>2, <2>1 DEF PutBack, TypeInv, ReaderTypes, Readers
<1>5. s \in Desks /\ s.a = asks /\ s.p = Tail(pending)
  BY <1>2, AnsweredDesk
<1> HIDE DEF t, s
<1> QED
  BY <1>1, <1>2, <1>3, <1>4, <1>5, LinkTakes DEF t

LEMMA LinkTakeForm == ASSUME TypeInv, Linked, Closed, TakeForm PROVE Linked' /\ Closed'
<1> DEFINE t == Head(told)
           rev == IF t.commits THEN t.rev ELSE reader.rev
<1>1. /\ TakeAnswer("form") /\ Settle /\ open' = open /\ events' = Tail(events)
      /\ PutDesk(Released(Desk, rev, events'))
      /\ reader'.rev = rev
  BY DEF TakeForm, TypeInv, ReaderTypes, Readers
<1>2. /\ t \in FormMsgs /\ t \notin EditMsgs /\ events # <<>>
      /\ t \in MoveMsgs <=> t.commits
      /\ t.commits => t.rev = reader.rev + 1
  BY <1>1, AnswerOfForm
<1>3. rev \in Nat /\ rev = IF t \in MoveMsgs THEN t.rev ELSE reader.rev
  BY <1>2, LinkParts
<1>4. Tail(events) \in Seq(BOOLEAN)
  BY <1>2, LinkParts, HeadTailProperties
<1>5. Desk \in Desks /\ Desk.a = asks /\ Desk.p = pending
  BY DeskType DEF Desk
<1> DEFINE s == Desk
           F == Tail(events)
<1>6. PutDesk(Released(s, rev, F))
  BY <1>1
<1> HIDE DEF t, s, rev, F
<1> QED
  BY <1>1, <1>2, <1>3, <1>4, <1>5, <1>6, LinkTakes DEF t, s, F

LEMMA LinkTakeCopies ==
  ASSUME TypeInv, Linked, Closed, TakeSaved \/ TakeFailed
  PROVE  Linked' /\ Closed'
<1> DEFINE t == Head(told)
           s == Desk
<1>1. PICK kind \in {"saved", "failed"} : TakeAnswer(kind)
  BY DEF TakeSaved, TakeFailed
<1>2. /\ PutDesk(Released(s, reader.rev, events)) /\ Settle /\ UNCHANGED <<open, reader, events>>
  BY DEF TakeSaved, TakeFailed
<1>3. t \in Replies /\ t.k = kind
  BY <1>1, TypeTakeAnswer
<1>4. t \notin EditMsgs /\ t \notin FormMsgs /\ t \notin MoveMsgs
  BY <1>1, <1>3 DEF EditMsgs, FormMsgs, MoveMsgs, IsEdit
<1>5. s \in Desks /\ s.a = asks /\ s.p = pending
  BY DeskType DEF Desk
<1>6. reader.rev \in Nat /\ events \in Seq(BOOLEAN) /\ reader'.rev = reader.rev
  BY <1>2, LinkParts
<1> HIDE DEF t, s
<1> QED
  BY <1>1, <1>2, <1>4, <1>5, <1>6, LinkTakes DEF t

LEMMA LinkInit == Init => Linked /\ Closed
BY DEF Init, Linked, Closed

LEMMA LinkUser ==
  ASSUME TypeInv, Ascending(offer), Linked, Closed, User
  PROVE  Linked' /\ Closed'
<1>1. CASE Draw \/ Erase
  <2>1. UserActs /\ UNCHANGED open
    BY <1>1 DEF Draw, Erase, PostsTransaction
  <2> QED
    BY <1>1, <2>1, LinkDraws, ClosedUser
<1>2. CASE Undo \/ Redo
  <2>1. PICK kind \in {"undo", "redo"} : TakeBack(kind)
    BY <1>2 DEF Undo, Redo
  <2>2. UserActs /\ UNCHANGED open
    BY <2>1 DEF TakeBack
  <2> QED
    BY <2>1, <2>2, LinkTakeBack, ClosedUser
<1>3. CASE \E may \in BOOLEAN : FormEvent(may)
  <2>1. PICK may \in BOOLEAN : FormEvent(may)
    BY <1>3
  <2>2. UserActs /\ UNCHANGED open
    BY <2>1 DEF FormEvent
  <2> QED
    BY <2>1, <2>2, EditAssumption, LinkAsks, ClosedUser
<1>4. CASE \E f \in Files : SaveAs(f)
  <2>1. PICK f \in Files : SaveAs(f)
    BY <1>4
  <2>2. UserActs /\ UNCHANGED open
    BY <2>1 DEF SaveAs
  <2> QED
    BY <2>1, <2>2, LinkAsks, ClosedUser
<1>5. CASE \E f \in Files : Open(f)
  BY <1>5, LinkOpen
<1>6. CASE PutAway
  BY <1>6, LinkForgets DEF PutAway
<1>7. CASE RestoreEdits
  BY <1>7, LinkRestoreEdits
<1>8. CASE DiscardEdits
  BY <1>8, LinkSame DEF DiscardEdits, docVars, linkVars, queueVars, historyVars, Closed
<1> QED
  BY <1>1, <1>2, <1>3, <1>4, <1>5, <1>6, <1>7, <1>8 DEF User

LEMMA LinkedNext ==
  ASSUME TypeInv, Ascending(offer), Linked, Closed, [Next]_vars
  PROVE  Linked' /\ Closed'
<1>1. CASE User
  BY <1>1, LinkUser
<1>2. CASE Serve
  BY <1>2, LinkServeEdit, LinkRefusals, LinkServeForm, LinkServeSave, LinkServeLost DEF Serve
<1>3. CASE Pump
  <2>1. TakeGone => Linked' /\ Closed'
    BY LinkForgets DEF TakeGone
  <2> QED
    BY <1>3, <2>1, LinkTakeApplied, LinkTakeRefused, LinkTakeForm, LinkTakeCopies DEF Pump
<1>4. CASE WorkerDies
  BY <1>4, LinkWorkerDies
<1>5. CASE Crash
  BY <1>5, LinkForgets DEF Crash
<1>6. CASE UNCHANGED vars
  BY <1>6, LinkSame DEF vars, docVars, linkVars, queueVars, historyVars, Closed
<1> QED
  BY <1>1, <1>2, <1>3, <1>4, <1>5, <1>6 DEF Next

(***************************************************************************)
(* The journal.                                                            *)
(***************************************************************************)
Ordered ==
  /\ Ascending(own) /\ Ascending(offer) /\ \A j \in left : Ascending(j)
  /\ open # NoFile /\ journal.on =>
       \A i \in DOMAIN own.entries : own.entries[i].rev <= reader.rev

Recorded ==
  /\ Covered => Kept = log
  /\ journal.full => journal.written >= MaxEntries
  /\ journal.on => IF journal.file THEN Len(own.entries) = journal.written
                   ELSE own.entries = <<>> /\ journal.written = 0

(* The steps, as the journal sees them: what leaves it alone, ... *)
Quiet ==
  /\ UNCHANGED <<journal, own, log>>
  /\ open' = NoFile \/ (open' = open /\ reader.rev <= reader'.rev)

(* ... and an edit that is told. *)
Records(e) ==
  /\ Journalled(e) /\ log' = Append(log, Entry(e)) /\ open # NoFile /\ open' = open
  /\ e.rev = reader.rev + 1 /\ reader'.rev = e.rev

LEMMA RecordsApplied ==
  ASSUME TypeInv, Linked, TakeApplied
  PROVE  \E e \in Entries : Records(e)
<1> DEFINE t == Head(told)
           e == EntryFor(t)
<1>1. TakeAnswer("applied") /\ Journalled(e) /\ open # NoFile /\ open' = open
      /\ log' = Append(log, [rev |-> t.rev, op |-> t.did])
      /\ reader' = Adopt(IF pending = <<>> THEN "edit" ELSE Head(pending).kind, t)
  BY DEF TakeApplied, TakeAnswer
<1>2. t \in Replies /\ t.k = "applied"
  BY <1>1, TypeTakeAnswer
<1>3. pending # <<>> /\ Head(pending).op = OpOf(t) /\ t.rev = reader.rev + 1
  BY <1>1, AnswerOfEdit
<1>4. e \in Entries
  BY <1>2, EntryType
<1>5. e.rev = t.rev /\ e.op = t.did
  BY <1>2, <1>3 DEF EntryFor, OpOf
<1>6. Entry(e) = [rev |-> t.rev, op |-> t.did]
  BY <1>5 DEF Entry
<1>7. reader'.rev = t.rev
  BY <1>1 DEF Adopt, TypeInv, ReaderTypes, Readers
<1> HIDE DEF e, t
<1>8. Records(e)
  BY <1>1, <1>3, <1>5, <1>6, <1>7 DEF Records
<1> QED
  BY <1>4, <1>8

LEMMA RecordsForm ==
  ASSUME TypeInv, Linked, TakeForm
  PROVE  Quiet \/ \E e \in Entries : Records(e)
<1> DEFINE t == Head(told)
           rev == IF t.commits THEN t.rev ELSE reader.rev
           e == [rev |-> rev, via |-> "applied", op |-> SetField(t.val)]
<1>1. TakeAnswer("form") /\ open # NoFile /\ open' = open
  BY DEF TakeForm, TakeAnswer
<1>2. t \in Replies /\ t.k = "form"
  BY <1>1, TypeTakeAnswer
<1>3. t.commits => t.rev = reader.rev + 1 /\ t.rev \in Nat /\ t.val \in Numbers
  BY <1>1, <1>2, AnswerOfForm, ReplyTypes
<1>4. reader.rev \in Nat /\ reader \in Readers
  BY DEF TypeInv, ReaderTypes, Readers
<1>5. CASE t.commits /\ t.named
  <2>1. rev = reader.rev + 1 /\ rev \in Nat
    BY <1>3, <1>5
  <2>2. e \in Entries
    BY <1>3, <1>5, <2>1, OpTypes DEF Entries
  <2>3. /\ Journalled(e) /\ log' = Append(log, [rev |-> rev, op |-> SetField(t.val)])
        /\ reader'.rev = rev
    BY <1>5 DEF TakeForm
  <2>4. Entry(e) = [rev |-> rev, op |-> SetField(t.val)] /\ e.rev = rev
    BY DEF Entry
  <2> HIDE DEF e, rev, t
  <2>5. Records(e)
    BY <1>1, <2>1, <2>3, <2>4 DEF Records
  <2> QED
    BY <2>2, <2>5
<1>6. CASE ~(t.commits /\ t.named)
  <2>1. reader' = [reader EXCEPT !.rev = rev] /\ UNCHANGED <<journal, own, log>>
    BY <1>6 DEF TakeForm
  <2>2. reader'.rev = rev
    BY <1>4, <2>1 DEF Readers
  <2>3. reader.rev <= rev
    BY <1>3, <1>4
  <2> HIDE DEF rev
  <2> QED
    BY <1>1, <2>1, <2>2, <2>3 DEF Quiet
<1> QED
  BY <1>5, <1>6

LEMMA JournalSteps ==
  ASSUME TypeInv, Linked, Closed, [Next]_vars
  PROVE  \/ Quiet
         \/ \E e \in Entries : Records(e)
         \/ \E f \in Files : Open(f)
         \/ PutAway \/ Crash \/ TakeSaved
<1>0. reader.rev \in Nat /\ reader \in Readers
  BY DEF TypeInv, ReaderTypes, Readers
<1>1. reader' = reader /\ open' = open /\ UNCHANGED <<journal, own, log>> => Quiet
  BY <1>0 DEF Quiet
<1>2. CASE Draw \/ Erase
  BY <1>1, <1>2 DEF Draw, Erase, PostsTransaction, journalVars
<1>3. CASE Undo \/ Redo
  <2>1. PICK kind \in {"undo", "redo"} : TakeBack(kind)
    BY <1>3 DEF Undo, Redo
  <2>2. reader' = [reader EXCEPT ![kind] = Front(@)] /\ open' = open /\ UNCHANGED <<journal, own, log>>
    BY <2>1 DEF TakeBack, journalVars
  <2>3. reader'.rev = reader.rev
    BY <1>0, <2>2 DEF Readers
  <2> QED
    BY <1>0, <2>2, <2>3 DEF Quiet
<1>4. CASE \/ \E may \in BOOLEAN : FormEvent(may)
           \/ \E f \in Files : SaveAs(f)
           \/ RestoreEdits \/ DiscardEdits
  BY <1>1, <1>4 DEF FormEvent, SaveAs, RestoreEdits, DiscardEdits, journalVars
<1>5. CASE Serve
  BY <1>1, <1>5 DEF Serve, ServeEdit, ServeConflict, ServeMissing, ServeInvalid, ServeForm, ServeSave,
                    ServeLost, RefuseAs, Answers, journalVars
<1>6. CASE Pump
  <2>1. CASE TakeApplied
    BY <2>1, RecordsApplied
  <2>2. CASE TakeRefused
    <3>1. /\ open' = open /\ UNCHANGED <<journal, own, log>>
          /\ reader' = IF pending = <<>> THEN reader ELSE PutBack(Head(pending))
      BY <2>2 DEF TakeRefused
    <3>2. pending # <<>> => Head(pending).kind \in {"edit", "undo", "redo"}
      BY PendingHead
    <3>3. reader'.rev = reader.rev
      BY <1>0, <3>1, <3>2 DEF PutBack, Readers
    <3> QED
      BY <1>0, <3>1, <3>3 DEF Quiet
  <2>3. CASE TakeForm
    BY <2>3, RecordsForm
  <2>4. CASE TakeFailed
    BY <1>1, <2>4 DEF TakeFailed
  <2>5. CASE TakeGone
    BY <2>5 DEF TakeGone, Quiet, journalVars
  <2> QED
    BY <1>6, <2>1, <2>2, <2>3, <2>4, <2>5 DEF Pump
<1>7. CASE WorkerDies \/ UNCHANGED vars
  BY <1>1, <1>7 DEF WorkerDies, journalVars, vars
<1> QED
  BY <1>2, <1>3, <1>4, <1>5, <1>6, <1>7 DEF Next, User

(* The journals that are offered are journals some process has written. *)
LEMMA LeftSteps ==
  ASSUME [Next]_vars
  PROVE  left' \subseteq left \cup {own} /\ offer' \in left \cup {offer, NoJournal}
<1>1. CASE User
  <2>1. CASE \E f \in Files : Open(f)
    BY <2>1 DEF Open
  <2> QED
    BY <1>1, <2>1 DEF User, Draw, Erase, PostsTransaction, Undo, Redo, TakeBack, FormEvent, SaveAs,
                      PutAway, RestoreEdits, DiscardEdits, journalVars
<1>2. CASE Serve
  BY <1>2 DEF Serve, ServeEdit, ServeConflict, ServeMissing, ServeInvalid, ServeForm, ServeSave,
              ServeLost, RefuseAs, Answers, journalVars
<1>3. CASE Pump
  BY <1>3 DEF Pump, TakeApplied, TakeRefused, TakeForm, TakeSaved, TakeFailed, TakeGone, TakeAnswer,
              journalVars
<1>4. CASE WorkerDies \/ Crash \/ UNCHANGED vars
  BY <1>4 DEF WorkerDies, Crash, journalVars, vars
<1> QED
  BY <1>1, <1>2, <1>3, <1>4 DEF Next

(* What Journal::append does to the file. *)
LEMMA JournalWrites ==
  ASSUME TypeInv, Recorded, NEW e \in Entries, Journalled(e)
  PROVE  \/ /\ own' = own /\ ~Covered'
            /\ journal'.full => journal'.written >= MaxEntries
            /\ journal'.on => journal.on /\ journal'.file = journal.file
                              /\ journal'.written = journal.written
         \/ /\ Covered /\ Covered' /\ journal.file /\ journal'.file /\ ~journal'.full
            /\ journal'.written = journal.written + 1
            /\ own' = [own EXCEPT !.entries = Append(@, e)]
<1>1. journal \in Covers /\ journal.written \in Nat /\ MaxEntries \in Nat
  BY NumberFacts DEF TypeInv, KeptTypes, Covers
<1>2. ~Off.on /\ ~Off.full
  BY DEF Off
<1>3. CASE ~journal.on
  BY <1>3 DEF Journalled, Recorded, Covered
<1>4. CASE journal.on /\ journal.written >= MaxEntries
  <2>1. journal' = [journal EXCEPT !.full = TRUE] /\ own' = own
    <3>1. ~(journal.written < MaxEntries)
      BY <1>1, <1>4
    <3> QED
      BY <1>4, <3>1 DEF Journalled
  <2>2. journal'.full /\ journal'.on /\ journal'.file = journal.file /\ journal'.written = journal.written
    BY <1>1, <1>4, <2>1 DEF Covers
  <2> QED
    BY <1>4, <2>1, <2>2 DEF Covered
<1>5. CASE journal.on /\ ~(journal.written >= MaxEntries) /\ ~journal.file
  <2>1. journal.written < MaxEntries
    BY <1>1, <1>5
  <2>2. journal' = Off /\ own' = own
    BY <1>5, <2>1 DEF Journalled
  <2> QED
    BY <1>2, <2>2 DEF Covered
<1>6. CASE journal.on /\ ~(journal.written >= MaxEntries) /\ journal.file
  <2>1. ~journal.full
    BY <1>6 DEF Recorded
  <2>2. CASE /\ journal' = [journal EXCEPT !.written = @ + 1]
             /\ own' = [own EXCEPT !.entries = Append(@, e)]
    <3>1. journal'.on /\ ~journal'.full /\ journal'.file /\ journal'.written = journal.written + 1
      BY <1>1, <1>6, <2>1, <2>2 DEF Covers
    <3> QED
      BY <1>6, <2>1, <2>2, <3>1 DEF Covered
  <2>3. CASE journal' = Off /\ own' = own
    BY <1>2, <2>3 DEF Covered
  <2> QED
    BY <1>1, <1>6, <2>2, <2>3 DEF Journalled
<1> QED
  BY <1>3, <1>4, <1>5, <1>6

Facts(es) == [i \in DOMAIN es |-> Entry(es[i])]

LEMMA FactsAppend ==
  ASSUME NEW es \in Seq(Entries), NEW e \in Entries
  PROVE  /\ Facts(es) \in Seq(Edits)
         /\ Facts(Append(es, e)) = Append(Facts(es), Entry(e))
<1> DEFINE n == Len(es)
           fs == Append(es, e)
           g == Append(Facts(es), Entry(e))
<1>1. n \in Nat /\ DOMAIN es = 1..n /\ \A i \in 1..n : es[i] \in Entries
  OBVIOUS
<1>2. \A x \in Entries : Entry(x) \in Edits
  BY DEF Entries, Edits, Entry
<1>3. Facts(es) \in Seq(Edits) /\ Len(Facts(es)) = n /\ \A i \in 1..n : Facts(es)[i] = Entry(es[i])
  BY <1>1, <1>2 DEF Facts
<1>4. fs \in Seq(Entries) /\ Len(fs) = n + 1 /\ fs[n + 1] = e /\ \A i \in 1..n : fs[i] = es[i]
  BY AppendProperties
<1>5. DOMAIN fs = 1..(n + 1) /\ \A i \in 1..(n + 1) : fs[i] \in Entries
  BY <1>4, LenProperties, ElementOfSeq
<1>6. g \in Seq(Edits) /\ Len(g) = n + 1 /\ g[n + 1] = Entry(e)
      /\ \A i \in 1..n : g[i] = Facts(es)[i]
  BY <1>2, <1>3, AppendProperties
<1> HIDE DEF n, fs, g
<1>7. /\ Facts(fs) \in Seq(Edits) /\ Len(Facts(fs)) = n + 1
      /\ \A i \in 1..(n + 1) : Facts(fs)[i] = Entry(fs[i])
  BY <1>1, <1>2, <1>5 DEF Facts
<1>8. \A i \in 1..(n + 1) : i = n + 1 \/ i \in 1..n
  BY <1>1
<1>9. \A i \in 1..(n + 1) : Facts(fs)[i] = g[i]
  BY <1>3, <1>4, <1>6, <1>7, <1>8
<1>10. Facts(fs) = g
  BY <1>6, <1>7, <1>9, SeqEqual
<1> QED
  BY <1>3, <1>10 DEF fs, g

LEMMA KeptFacts == Kept = Facts(own.entries) /\ Kept' = Facts(own'.entries)
BY DEF Kept, Facts

(* One more entry, in place and as the reader was told. *)
LEMMA KeptGrows ==
  ASSUME TypeInv, NEW e \in Entries, own' = [own EXCEPT !.entries = Append(@, e)]
  PROVE  /\ own'.entries = Append(own.entries, e) /\ own.entries \in Seq(Entries)
         /\ Kept' = Append(Kept, Entry(e))
<1>1. own \in Journals /\ own.entries \in Seq(Entries)
  BY DEF TypeInv, KeptTypes, Journals
<1>2. own'.entries = Append(own.entries, e)
  BY <1>1 DEF Journals
<1> QED
  BY <1>1, <1>2, FactsAppend, KeptFacts

LEMMA NothingKept ==
  /\ own.entries = <<>> => Kept = <<>>
  /\ own'.entries = <<>> => Kept' = <<>>
BY DEF Kept

(* A journal that is begun, and one that is put down. *)
LEMMA Begins ==
  ASSUME TypeInv, \/ \E f \in Files : Open(f)
                  \/ PutAway \/ Crash \/ TakeSaved
  PROVE  /\ log' = <<>>
         /\ own'.entries = <<>> \/ (~Covered' /\ ~journal'.on /\ own' = own)
         /\ ~journal'.full \/ journal' = journal
         /\ journal'.on => own'.entries = <<>> /\ journal'.written = 0
<1>1. own \in Journals
  BY DEF TypeInv, KeptTypes
<1>2. [own EXCEPT !.entries = <<>>].entries = <<>>
  BY <1>1 DEF Journals
<1>3. NoJournal.entries = <<>> /\ ~Off.on /\ ~Off.full
  BY DEF NoJournal, Off
<1>4. CASE \E f \in Files : Open(f)
  <2>1. PICK f \in Files : Open(f)
    BY <1>4
  <2>2. CASE /\ journal' = [on |-> TRUE, file |-> TRUE, written |-> 0, full |-> FALSE]
             /\ own' = [of |-> f, v |-> disk[f].v, entries |-> <<>>]
    BY <2>1, <2>2 DEF Open
  <2>3. CASE journal' = Off /\ own' \in {own, NoJournal}
    BY <1>3, <2>1, <2>3 DEF Open, Covered
  <2> QED
    BY <2>1, <2>2, <2>3 DEF Open
<1>5. CASE PutAway \/ Crash
  BY <1>3, <1>5 DEF PutAway, Crash
<1>6. CASE TakeSaved
  <2>1. log' = <<>>
    BY <1>6 DEF TakeSaved
  <2>2. CASE ~journal.on /\ UNCHANGED <<journal, own>>
    BY <2>1, <2>2 DEF Covered
  <2>3. CASE journal.on
    <3>1. journal' \in {[on |-> TRUE, file |-> file, written |-> 0, full |-> FALSE] : file \in BOOLEAN}
      BY <1>6, <2>3 DEF TakeSaved
    <3>2. journal'.written = 0 /\ ~journal'.full
      BY <3>1
    <3>3. own'.entries = <<>>
      <4>1. \/ own' = [of |-> Head(told).to, v |-> disk[Head(told).to].v, entries |-> <<>>]
            \/ own' = NoJournal
            \/ own' = [own EXCEPT !.entries = <<>>]
        BY <1>6, <2>3 DEF TakeSaved
      <4>2. [of |-> Head(told).to, v |-> disk[Head(told).to].v, entries |-> <<>>].entries = <<>>
        OBVIOUS
      <4> QED
        BY <1>2, <1>3, <4>1, <4>2, Zenon
    <3> QED
      BY <2>1, <3>2, <3>3
  <2> QED
    BY <1>6, <2>2, <2>3 DEF TakeSaved
<1> QED
  BY <1>4, <1>5, <1>6

LEMMA RecordedInit == Init => Ordered /\ Recorded
<1> SUFFICES ASSUME Init PROVE Ordered /\ Recorded
  OBVIOUS
<1>1. own.entries = <<>> /\ offer.entries = <<>> /\ left = {} /\ log = <<>>
  BY DEF Init, NoJournal
<1>2. ~journal.on /\ ~journal.full
  BY DEF Init, Off
<1>3. Kept = <<>>
  BY <1>1, NothingKept
<1> QED
  BY <1>1, <1>2, <1>3 DEF Ordered, Ascending, Recorded, Covered

LEMMA RecordedNext ==
  ASSUME TypeInv, Linked, Closed, Recorded, [Next]_vars
  PROVE  Recorded'
<1>1. CASE Quiet
  BY <1>1 DEF Quiet, Recorded, Covered, Kept
<1>2. CASE \E e \in Entries : Records(e)
  <2>1. PICK e \in Entries : Records(e)
    BY <1>2
  <2>2. Journalled(e) /\ log' = Append(log, Entry(e))
    BY <2>1 DEF Records
  <2>3. CASE own' = own /\ ~Covered'
             /\ (journal'.full => journal'.written >= MaxEntries)
             /\ (journal'.on => journal.on /\ journal'.file = journal.file
                                /\ journal'.written = journal.written)
    BY <2>3 DEF Recorded
  <2>4. CASE /\ Covered /\ Covered' /\ journal.file /\ journal'.file /\ ~journal'.full
             /\ journal'.written = journal.written + 1
             /\ own' = [own EXCEPT !.entries = Append(@, e)]
    <3>1. /\ own'.entries = Append(own.entries, e) /\ own.entries \in Seq(Entries)
          /\ Kept' = Append(Kept, Entry(e))
      BY <2>4, KeptGrows
    <3>2. Len(own'.entries) = Len(own.entries) + 1
      BY <3>1
    <3>3. Kept = log /\ Len(own.entries) = journal.written
      BY <2>4 DEF Recorded, Covered
    <3> QED
      BY <2>2, <2>4, <3>1, <3>2, <3>3 DEF Recorded
  <2> QED
    BY <2>2, <2>3, <2>4, JournalWrites
<1>3. CASE \/ \E f \in Files : Open(f)
           \/ PutAway \/ Crash \/ TakeSaved
  <2>1. /\ log' = <<>>
        /\ own'.entries = <<>> \/ (~Covered' /\ ~journal'.on /\ own' = own)
        /\ ~journal'.full \/ journal' = journal
        /\ journal'.on => own'.entries = <<>> /\ journal'.written = 0
    BY <1>3, Begins
  <2>2. Covered' => Kept' = <<>>
    BY <2>1, NothingKept
  <2>3. Len(<<>>) = 0
    OBVIOUS
  <2> QED
    BY <2>1, <2>2, <2>3 DEF Recorded
<1> QED
  BY <1>1, <1>2, <1>3, JournalSteps

LEMMA OrderedNext ==
  ASSUME TypeInv, TypeInv', Linked, Closed, Ordered, Recorded, [Next]_vars
  PROVE  Ordered'
<1>0. Ascending(NoJournal)
  BY DEF Ascending, NoJournal
<1>1. Ascending(own) /\ Ascending(offer) /\ \A j \in left : Ascending(j)
  BY DEF Ordered
<1>2. \A j \in left \cup {own, offer, NoJournal} : Ascending(j)
  BY <1>0, <1>1
<1>3. (\A j \in left' : Ascending(j)) /\ \A j : j = offer' => Ascending(j)
  BY <1>2, LeftSteps
<1>4. Ascending(offer)'
  BY <1>3 DEF Ascending
<1>5. Ascending(own)' /\ (open' # NoFile /\ journal'.on =>
        \A i \in DOMAIN own'.entries : own'.entries[i].rev <= reader'.rev)
  <2>0. reader.rev \in Nat /\ own.entries \in Seq(Entries)
    BY DEF TypeInv, ReaderTypes, Readers, KeptTypes, Journals
  <2>1. DOMAIN own.entries = 1..Len(own.entries) /\ Len(own.entries) \in Nat
        /\ \A i \in DOMAIN own.entries : own.entries[i].rev \in Nat
    <3>1. DOMAIN own.entries = 1..Len(own.entries) /\ Len(own.entries) \in Nat
          /\ \A i \in DOMAIN own.entries : own.entries[i] \in Entries
      BY <2>0
    <3> QED
      BY <3>1 DEF Entries
  <2>2. CASE Quiet
    <3>1. own' = own /\ journal' = journal
      BY <2>2 DEF Quiet
    <3>2. CASE open' = NoFile
      BY <1>1, <3>1, <3>2 DEF Ascending
    <3>3. CASE open' = open /\ reader.rev <= reader'.rev /\ open # NoFile
      <4>1. reader'.rev \in Nat
        BY DEF TypeInv, ReaderTypes, Readers
      <4>2. \A i \in DOMAIN own.entries : own.entries[i].rev <= reader.rev
                                          => own.entries[i].rev <= reader'.rev
        BY <2>0, <2>1, <3>3, <4>1
      <4> QED
        BY <1>1, <3>1, <3>3, <4>2 DEF Ascending, Ordered
    <3> QED
      BY <2>2, <3>2, <3>3 DEF Quiet
  <2>3. CASE \E e \in Entries : Records(e)
    <3>1. PICK e \in Entries : Records(e)
      BY <2>3
    <3>2. /\ Journalled(e) /\ open' = open /\ e.rev = reader.rev + 1 /\ reader'.rev = e.rev
      BY <3>1 DEF Records
    <3>3. CASE own' = own /\ (journal'.on => journal.on)
      <4>1. \A i \in DOMAIN own.entries : own.entries[i].rev <= reader.rev
                                          => own.entries[i].rev <= reader'.rev
        BY <2>0, <2>1, <3>2
      <4> QED
        BY <1>1, <3>2, <3>3, <4>1 DEF Ascending, Ordered
    <3>4. CASE Covered /\ own' = [own EXCEPT !.entries = Append(@, e)]
      <4> DEFINE n == Len(own.entries)
      <4>1. own'.entries = Append(own.entries, e)
        BY <3>4, KeptGrows
      <4>2. /\ DOMAIN own'.entries = 1..(n + 1) /\ own'.entries[n + 1] = e
            /\ \A i \in 1..n : own'.entries[i] = own.entries[i]
        BY <2>0, <4>1, AppendProperties
      <4>4. \A i \in 1..n : own.entries[i].rev <= reader.rev /\ own.entries[i].rev \in Nat
        <5>1. open # NoFile /\ journal.on
          BY <3>1, <3>4 DEF Records, Covered
        <5>2. \A i \in DOMAIN own.entries : own.entries[i].rev <= reader.rev
          BY <5>1 DEF Ordered
        <5> QED
          BY <2>1, <5>2
      <4>5. \A i \in 1..(n + 1) : i = n + 1 \/ i \in 1..n
        BY <2>1
      <4> HIDE DEF n
      <4>6. \A i \in 1..(n + 1) : own'.entries[i].rev <= reader'.rev
        BY <2>0, <3>2, <4>2, <4>4, <4>5
      <4>7. ASSUME NEW a \in 1..(n + 1), NEW b \in 1..(n + 1), a < b
            PROVE  own'.entries[a].rev <= own'.entries[b].rev
        <5>1. a \in 1..n
          BY <2>1, <4>7 DEF n
        <5>2. CASE b = n + 1
          BY <2>0, <3>2, <4>2, <4>4, <5>1, <5>2, SMTT(20)
        <5>3. CASE b # n + 1
          <6>1. b \in 1..n
            BY <4>5, <5>3
          <6> QED
            BY <1>1, <2>1, <4>2, <4>7, <5>1, <6>1 DEF Ascending, n
        <5> QED
          BY <5>2, <5>3
      <4> QED
        BY <4>2, <4>6, <4>7 DEF Ascending
    <3> QED
      BY <3>2, <3>3, <3>4, JournalWrites
  <2>4. CASE \/ \E f \in Files : Open(f)
             \/ PutAway \/ Crash \/ TakeSaved
    <3>1. own'.entries = <<>> \/ (~journal'.on /\ own' = own)
      BY <2>4, Begins
    <3> QED
      BY <1>1, <3>1 DEF Ascending
  <2> QED
    BY <2>2, <2>3, <2>4, JournalSteps
<1> QED
  BY <1>3, <1>4, <1>5 DEF Ordered

(***************************************************************************)
(* The copies: a file's version is at most the number of copies asked for. *)
(***************************************************************************)
CopyMsgs(f) == {m \in SaveRequests : m.to = f}

SavesBounded ==
  \A f \in Files : \A a : a = asks => disk[f].v + Cardinality(Places(a, CopyMsgs(f))) <= acts + 1

(* Desks with c copies of f to be made. *)
CopyDesks(f, c) == {s \in Desks : Cardinality(Places(s.a, CopyMsgs(f))) = c}

LEMMA CopiesPushed ==
  ASSUME NEW f, NEW c, NEW s \in CopyDesks(f, c), NEW x \in Requests, x \notin CopyMsgs(f)
  PROVE  Cardinality(Places(Append(s.a, x), CopyMsgs(f))) = c
<1>1. s.a \in Seq(Requests) /\ Cardinality(Places(s.a, CopyMsgs(f))) = c
  BY DEF CopyDesks, Desks
<1> QED
  BY <1>1, PlacesPush

LEMMA CopiesPost ==
  ASSUME NEW f, NEW c, NEW s \in CopyDesks(f, c), NEW rev \in Nat, NEW ev, NEW e \in Posts
  PROVE  Post(s, rev, ev, e) \in CopyDesks(f, c)
<1>1. /\ s \in Desks /\ s.p \in Seq(Pendings) /\ s.a \in Seq(Requests)
      /\ Cardinality(Places(s.a, CopyMsgs(f))) = c
  BY DEF CopyDesks, Desks
<1>2. Post(s, rev, ev, e) \in Desks
  BY <1>1, PostType
<1>3. e.op \in Ops
  BY DEF Posts, Entries
<1>4. \A k \in {"apply", "undo"} :
        [k |-> k, exp |-> Expected(rev, s.p), op |-> e.op] \in Requests \ CopyMsgs(f)
  BY <1>1, <1>3 DEF Requests, EditRequests, CopyMsgs, SaveRequests, Expected
<1>5. \A k \in {"apply", "undo"} :
        Cardinality(Places(Append(s.a, [k |-> k, exp |-> Expected(rev, s.p), op |-> e.op]),
                           CopyMsgs(f))) = c
  BY <1>4, CopiesPushed
<1>6. \/ Post(s, rev, ev, e).a = s.a
      \/ \E k \in {"apply", "undo"} :
           Post(s, rev, ev, e).a = Append(s.a, [k |-> k, exp |-> Expected(rev, s.p), op |-> e.op])
  BY <1>1 DEF Post, Commit, SendUndo, Desks
<1> QED
  BY <1>1, <1>2, <1>5, <1>6 DEF CopyDesks

LEMMA CopiesPostAll ==
  ASSUME NEW f, NEW c, NEW s \in CopyDesks(f, c), NEW rev \in Nat, NEW ev, NEW es \in Seq(Posts)
  PROVE  PostAll(s, rev, ev, es) \in CopyDesks(f, c)
<1>1. \A t \in CopyDesks(f, c) : \A e \in Posts : Post(t, rev, ev, e) \in CopyDesks(f, c)
  BY CopiesPost
<1> QED
  BY <1>1, PostAllKeeps

LEMMA CopiesReleased ==
  ASSUME NEW f, NEW c, NEW s \in CopyDesks(f, c), NEW rev \in Nat, NEW ev
  PROVE  Released(s, rev, ev) \in CopyDesks(f, c)
<1> DEFINE z == [s EXCEPT !.d = <<>>]
<1>1. s \in Desks /\ s.d \in Seq(Ops) /\ Cardinality(Places(s.a, CopyMsgs(f))) = c
  BY DEF CopyDesks, Desks
<1>2. z \in Desks /\ z.a = s.a
  BY <1>1, NothingQueued DEF Desks
<1>3. z \in CopyDesks(f, c)
  BY <1>1, <1>2 DEF CopyDesks
<1> HIDE DEF z
<1>4. PostAll(z, rev, ev, Waiting(s.d)) \in CopyDesks(f, c)
  BY <1>1, <1>3, WaitingType, CopiesPostAll
<1> QED
  BY <1>4 DEF Released, Waiting, z

(* Posting edits asks for no copy. *)
Copyless(s) == \A f \in Files : \A a : a = asks => s \in CopyDesks(f, Cardinality(Places(a, CopyMsgs(f))))

LEMMA CopylessDesk == ASSUME TypeInv, NEW s \in Desks, s.a = asks PROVE Copyless(s)
BY DEF Copyless, CopyDesks

LEMMA CopylessReleased ==
  ASSUME NEW s, Copyless(s), NEW rev \in Nat, NEW ev
  PROVE  Copyless(Released(s, rev, ev))
BY CopiesReleased DEF Copyless

LEMMA CopylessPostAll ==
  ASSUME NEW s, Copyless(s), NEW rev \in Nat, NEW ev, NEW es \in Seq(Posts)
  PROVE  Copyless(PostAll(s, rev, ev, es))
BY CopiesPostAll DEF Copyless

LEMMA CopylessPost ==
  ASSUME NEW s, Copyless(s), NEW rev \in Nat, NEW ev, NEW e \in Posts
  PROVE  Copyless(Post(s, rev, ev, e))
BY CopiesPost DEF Copyless

LEMMA CopyNumbers ==
  ASSUME TypeInv
  PROVE  /\ acts \in Nat /\ \A f \in Files : disk[f].v \in Nat
         /\ \A f \in Files : \A a : a = asks => Cardinality(Places(a, CopyMsgs(f))) \in Nat
<1>1. asks \in Seq(Requests) /\ acts \in Nat /\ \A f \in Files : disk[f].v \in Nat
  BY DEF TypeInv, LinkTypes, CountTypes, Numbers, DocTypes, Papers
<1> QED
  BY <1>1, PlacesType

LEMMA SavesPut ==
  ASSUME TypeInv, SavesBounded, NEW s, Copyless(s), PutDesk(s), disk' = disk,
         acts' \in {acts, acts + 1}
  PROVE  SavesBounded'
<1>1. asks' = s.a
  BY DEF PutDesk
<1>2. \A f \in Files : \A a : a = asks =>
        Cardinality(Places(s.a, CopyMsgs(f))) = Cardinality(Places(a, CopyMsgs(f)))
  BY DEF Copyless, CopyDesks
<1>3. \A f \in Files : disk[f].v + Cardinality(Places(s.a, CopyMsgs(f))) <= acts + 1
  BY <1>2 DEF SavesBounded
<1>4. \A f \in Files : disk[f].v \in Nat /\ Cardinality(Places(s.a, CopyMsgs(f))) \in Nat
  BY <1>2, CopyNumbers
<1>5. acts \in Nat
  BY CopyNumbers
<1>6. \A f \in Files : disk[f].v + Cardinality(Places(s.a, CopyMsgs(f))) <= acts' + 1
  BY <1>3, <1>4, <1>5
<1> QED
  BY <1>1, <1>6 DEF SavesBounded

LEMMA SavesForgotten ==
  ASSUME TypeInv, SavesBounded, asks' = <<>>, disk' = disk, acts' = acts
  PROVE  SavesBounded'
<1>1. \A X : Cardinality(Places(<<>>, X)) = 0
  BY FS_EmptySet DEF Places
<1>2. \A f \in Files : disk[f].v + 0 <= acts + 1
  BY CopyNumbers DEF SavesBounded
<1> QED
  BY <1>1, <1>2 DEF SavesBounded

LEMMA SavesKept ==
  ASSUME TypeInv, SavesBounded, asks' = asks, disk' = disk, acts' \in {acts, acts + 1}
  PROVE  SavesBounded'
<1>1. \A f \in Files : \A a : a = asks => disk[f].v + Cardinality(Places(a, CopyMsgs(f))) <= acts' + 1
  BY CopyNumbers DEF SavesBounded
<1> QED
  BY <1>1 DEF SavesBounded

LEMMA SavesUser ==
  ASSUME TypeInv, Ascending(offer), SavesBounded, User
  PROVE  SavesBounded'
<1>0. /\ Copyless(Desk) /\ reader.rev \in Nat /\ acts \in Nat /\ asks \in Seq(Requests)
      /\ Desk \in Desks
  BY DeskType, CopylessDesk, LinkParts, CopyNumbers DEF Desk
<1>1. CASE Draw \/ Erase
  <2>1. PICK op \in Ops : PostsTransaction(op)
    <3>1. CASE Draw
      BY <3>1, ActsType, OpTypes DEF Draw
    <3>2. CASE Erase
      <4>1. PICK i \in Known : PostsTransaction(Delete(i))
        BY <3>2 DEF Erase
      <4>2. i \in Marks
        BY DEF Known, TypeInv, DocTypes, Workers
      <4> QED
        BY <4>1, <4>2, OpTypes
    <3> QED
      BY <1>1, <3>1, <3>2
  <2> DEFINE e == [via |-> "applied", op |-> op]
  <2>2. e \in Posts /\ Post(Desk, reader.rev, events, e) = Commit(Desk, reader.rev, events, op)
    BY DEF Posts, Post
  <2>3. disk' = disk /\ acts' = acts + 1 /\ PutDesk(Post(Desk, reader.rev, events, e))
    BY <1>1, <2>1, <2>2 DEF Draw, Erase, UserActs, PostsTransaction, docVars
  <2> HIDE DEF e
  <2>4. Copyless(Post(Desk, reader.rev, events, e))
    BY <1>0, <2>2, CopylessPost
  <2> QED
    BY <2>3, <2>4, SavesPut
<1>2. CASE Undo \/ Redo
  <2>1. PICK kind \in {"undo", "redo"} : TakeBack(kind)
    BY <1>2 DEF Undo, Redo
  <2> DEFINE z == SendUndo(Desk, reader.rev, kind, reader.epoch, Last(reader[kind]))
             x == [k |-> "undo", exp |-> Expected(reader.rev, Desk.p), op |-> Last(reader[kind])]
  <2>2. /\ reader[kind] \in Seq(Ops) /\ reader[kind] # <<>> /\ reader.epoch \in Nat
        /\ disk' = disk /\ acts' = acts + 1 /\ PutDesk(z)
    BY <2>1 DEF TakeBack, UserActs, TypeInv, ReaderTypes, Readers, docVars
  <2>3. Last(reader[kind]) \in Ops
    BY <2>2, FrontLast
  <2>4. z \in Desks
    BY <1>0, <2>2, <2>3, SendUndoType
  <2>5. x \in Requests /\ \A f : x \notin CopyMsgs(f)
    BY <1>0, <2>3 DEF Requests, EditRequests, CopyMsgs, SaveRequests, Expected, Desks
  <2>6. z.a = Desk.a \/ z.a = Append(Desk.a, x)
    BY <1>0 DEF SendUndo, Desks
  <2> HIDE DEF z, x
  <2>7. Copyless(z)
    <3> SUFFICES ASSUME NEW f \in Files, NEW a, a = asks
                 PROVE  z \in CopyDesks(f, Cardinality(Places(a, CopyMsgs(f))))
      BY DEF Copyless
    <3>1. Desk \in CopyDesks(f, Cardinality(Places(a, CopyMsgs(f))))
      BY <1>0 DEF Copyless
    <3>2. Cardinality(Places(Append(Desk.a, x), CopyMsgs(f))) = Cardinality(Places(a, CopyMsgs(f)))
      BY <2>5, <3>1, CopiesPushed
    <3> QED
      BY <2>4, <2>6, <3>1, <3>2 DEF CopyDesks
  <2> QED
    BY <2>2, <2>7, SavesPut
<1>3. CASE \E may \in BOOLEAN : FormEvent(may)
  <2>1. PICK may \in BOOLEAN : FormEvent(may)
    BY <1>3
  <2>2. disk' = disk /\ acts' = acts + 1
    BY <2>1 DEF FormEvent, UserActs, docVars
  <2>3. CASE ~serving
    BY <2>1, <2>2, <2>3, SavesKept DEF FormEvent
  <2>4. CASE serving
    <3> DEFINE x == [k |-> "form", may |-> may, val |-> acts + 1]
    <3>1. x \in Requests /\ \A f : x \notin CopyMsgs(f)
      BY <2>1, ActsType DEF FormEvent, Requests, FormRequests, CopyMsgs, SaveRequests
    <3>2. asks' = Append(asks, x)
      BY <2>1, <2>4 DEF FormEvent
    <3> HIDE DEF x
    <3>3. \A f \in Files : Places(Append(asks, x), CopyMsgs(f)) = Places(asks, CopyMsgs(f))
      BY <1>0, <3>1, PlacesPush
    <3>4. \A f \in Files : disk[f].v + Cardinality(Places(asks, CopyMsgs(f))) <= acts + 2
      BY CopyNumbers DEF SavesBounded
    <3>5. \A f \in Files : disk[f].v + Cardinality(Places(Append(asks, x), CopyMsgs(f))) <= (acts + 1) + 1
      BY <1>0, <3>3, <3>4
    <3> QED
      BY <2>2, <3>2, <3>5 DEF SavesBounded
  <2> QED
    BY <2>3, <2>4
<1>4. CASE \E f \in Files : SaveAs(f)
  <2>1. PICK g \in Files : SaveAs(g)
    BY <1>4
  <2>2. disk' = disk /\ acts' = acts + 1
    BY <2>1 DEF SaveAs, UserActs, docVars
  <2>3. CASE ~serving
    BY <2>1, <2>2, <2>3, SavesKept DEF SaveAs
  <2>4. CASE serving
    <3> DEFINE x == [k |-> "save", to |-> g]
    <3>1. x \in Requests
      BY DEF Requests, SaveRequests
    <3>2. asks' = Append(asks, x)
      BY <2>1, <2>4 DEF SaveAs
    <3> HIDE DEF x
    <3>3. ASSUME NEW f \in Files
          PROVE  disk[f].v + Cardinality(Places(Append(asks, x), CopyMsgs(f))) <= (acts + 1) + 1
      <4>1. x \notin CopyMsgs(f) => Places(Append(asks, x), CopyMsgs(f)) = Places(asks, CopyMsgs(f))
        BY <1>0, <3>1, PlacesPush
      <4>2. x \in CopyMsgs(f) => Cardinality(Places(Append(asks, x), CopyMsgs(f)))
                                   = Cardinality(Places(asks, CopyMsgs(f))) + 1
        BY <1>0, <3>1, PlacesPush
      <4>3. disk[f].v + Cardinality(Places(asks, CopyMsgs(f))) <= acts + 1
        BY DEF SavesBounded
      <4>4. disk[f].v \in Nat /\ Cardinality(Places(asks, CopyMsgs(f))) \in Nat
        BY CopyNumbers
      <4> QED
        BY <1>0, <4>1, <4>2, <4>3, <4>4
    <3> QED
      BY <2>2, <3>2, <3>3 DEF SavesBounded
  <2> QED
    BY <2>3, <2>4
<1>5. CASE (\E f \in Files : Open(f)) \/ PutAway
  BY <1>5, SavesForgotten DEF Open, PutAway, ForgetEdits, countVars
<1>6. CASE RestoreEdits
  <2> DEFINE es == InOrder(offer.entries)
  <2>1. es \in Seq(Entries) /\ Entries \subseteq Posts
    BY InOrderType DEF TypeInv, LeftTypes, Posts
  <2>2. es \in Seq(Posts)
    BY <2>1, SeqMonotonic
  <2>3. disk' = disk /\ acts' = acts /\ PutDesk(PostAll(Desk, reader.rev, events, es))
    BY <1>6 DEF RestoreEdits, docVars, countVars
  <2> HIDE DEF es
  <2>4. Copyless(PostAll(Desk, reader.rev, events, es))
    BY <1>0, <2>2, CopylessPostAll
  <2> QED
    BY <2>3, <2>4, SavesPut
<1>7. CASE DiscardEdits
  BY <1>7, SavesKept DEF DiscardEdits, docVars, linkVars, countVars
<1> QED
  BY <1>1, <1>2, <1>3, <1>4, <1>5, <1>6, <1>7 DEF User

LEMMA SavesServe ==
  ASSUME TypeInv, SavesBounded, Serve
  PROVE  SavesBounded'
<1>0. acts \in Nat /\ asks \in Seq(Requests)
  BY LinkParts, CopyNumbers
<1>1. CASE ServeLost
  BY <1>1, SavesForgotten DEF ServeLost, countVars
<1>2. CASE ~ServeLost
  <2> DEFINE x == Head(asks)
  <2>1. asks # <<>> /\ asks' = Tail(asks) /\ acts' = acts
    BY <1>2 DEF Serve, ServeEdit, ServeConflict, ServeMissing, ServeInvalid, ServeForm, ServeSave,
                RefuseAs, Answers, Asked
  <2>2. x = asks[1] /\ x \in Requests
    BY <1>0, <2>1, HeadTailProperties
  <2>3. \/ disk' = disk
        \/ /\ x.k = "save" /\ x.to \in Files
           /\ disk' = [disk EXCEPT ![x.to] = [v |-> disk[x.to].v + 1, marks |-> worker.marks,
                                              field |-> worker.field]]
    <3>1. CASE ServeSave
      BY <2>1, <3>1, HeadAsked DEF ServeSave, Asked
    <3>2. CASE ~ServeSave
      BY <1>2, <3>2 DEF Serve, ServeEdit, ServeConflict, ServeMissing, ServeInvalid, ServeForm, RefuseAs
    <3> QED
      BY <3>1, <3>2
  <2> HIDE DEF x
  <2>4. ASSUME NEW f \in Files
        PROVE  disk'[f].v + Cardinality(Places(Tail(asks), CopyMsgs(f))) <= acts + 1
    <3> DEFINE c == Cardinality(Places(asks, CopyMsgs(f)))
               d == Cardinality(Places(Tail(asks), CopyMsgs(f)))
    <3>1. disk[f].v + c <= acts + 1 /\ c \in Nat /\ disk[f].v \in Nat
      BY CopyNumbers DEF SavesBounded
    <3>2. x \in CopyMsgs(f) => d = c - 1
      BY <1>0, <2>1, <2>2, PlacesPop
    <3>3. x \notin CopyMsgs(f) => d = c
      BY <1>0, <2>1, <2>2, PlacesPop
    <3>4. x \in CopyMsgs(f) => disk'[f].v = disk[f].v \/ disk'[f].v = disk[f].v + 1
      BY <2>3 DEF TypeInv, DocTypes
    <3>5. x \notin CopyMsgs(f) => disk'[f].v = disk[f].v
      <4>1. x.k = "save" /\ x.to = f => x \in CopyMsgs(f)
        BY <2>2 DEF CopyMsgs, Requests, EditRequests, FormRequests, SaveRequests
      <4> QED
        BY <2>3, <4>1 DEF TypeInv, DocTypes
    <3> HIDE DEF c, d
    <3>6. disk'[f].v + d <= acts + 1
      BY <1>0, <3>1, <3>2, <3>3, <3>4, <3>5
    <3> QED
      BY <3>6 DEF d
  <2> QED
    BY <2>1, <2>4 DEF SavesBounded
<1> QED
  BY <1>1, <1>2

(* What a pump leaves the reader with. *)
LEMMA PumpPuts ==
  ASSUME TypeInv, TakeApplied \/ TakeRefused \/ TakeForm \/ TakeSaved \/ TakeFailed
  PROVE  \E s \in {Desk, Answered(Desk)} : \E rev \in Nat : PutDesk(Released(s, rev, events'))
<1>0. reader.rev \in Nat
  BY LinkParts
<1>1. CASE TakeApplied
  <2>1. Head(told) \in Replies /\ Head(told).k = "applied"
    BY <1>1, TypeTakeAnswer DEF TakeApplied
  <2>2. Head(told).rev \in Nat
    BY <2>1, ReplyTypes
  <2>3. PutDesk(Released(Answered(Desk), Head(told).rev, events')) 
    BY <1>1 DEF TakeApplied, Answered
  <2> QED
    BY <2>2, <2>3
<1>2. CASE TakeRefused
  <2>1. PutDesk(Released(Answered(Desk), reader.rev, events'))
    BY <1>2 DEF TakeRefused, Answered
  <2> QED
    BY <1>0, <2>1
<1>3. CASE TakeForm
  <2> DEFINE rev == IF Head(told).commits THEN Head(told).rev ELSE reader.rev
  <2>1. Head(told) \in Replies /\ Head(told).k = "form"
    BY <1>3, TypeTakeAnswer DEF TakeForm
  <2>2. rev \in Nat
    BY <1>0, <2>1, ReplyTypes
  <2>3. PutDesk(Released(Desk, rev, events'))
    BY <1>3 DEF TakeForm
  <2> HIDE DEF rev
  <2> QED
    BY <2>2, <2>3
<1>4. CASE TakeSaved \/ TakeFailed
  <2>1. PutDesk(Released(Desk, reader.rev, events'))
    BY <1>4 DEF TakeSaved, TakeFailed
  <2> QED
    BY <1>0, <2>1
<1> QED
  BY <1>1, <1>2, <1>3, <1>4

LEMMA SavesPump ==
  ASSUME TypeInv, Linked, SavesBounded, Pump
  PROVE  SavesBounded'
<1>0. /\ Copyless(Desk) /\ Copyless(Answered(Desk))
  <2>1. Answered(Desk) \in Desks /\ Answered(Desk).a = asks
    BY DeskType, AnsweredType DEF Answered, Desk
  <2>2. Desk \in Desks /\ Desk.a = asks
    BY DeskType DEF Desk
  <2> QED
    BY <2>1, <2>2, CopylessDesk
<1>1. CASE TakeGone
  BY <1>1, SavesForgotten DEF TakeGone, ForgetEdits, countVars
<1>2. CASE TakeApplied \/ TakeRefused \/ TakeForm \/ TakeSaved \/ TakeFailed
  <2>1. disk' = disk /\ acts' = acts
    BY <1>2 DEF TakeApplied, TakeRefused, TakeForm, TakeSaved, TakeFailed, TakeAnswer
  <2>2. PICK s \in {Desk, Answered(Desk)}, rev \in Nat : PutDesk(Released(s, rev, events'))
    BY <1>2, PumpPuts
  <2>3. Copyless(Released(s, rev, events'))
    BY <1>0, CopylessReleased
  <2> QED
    BY <2>1, <2>2, <2>3, SavesPut
<1> QED
  BY <1>1, <1>2 DEF Pump

LEMMA SavesInit == Init => SavesBounded
<1> SUFFICES ASSUME Init PROVE SavesBounded
  OBVIOUS
<1>1. asks = <<>> /\ acts = 0 /\ \A f \in Files : disk[f].v \in {0, 1}
  BY DEF Init
<1>2. \A X : Cardinality(Places(<<>>, X)) = 0
  BY FS_EmptySet DEF Places
<1>3. \A f \in Files : disk[f].v + 0 <= acts + 1
  BY <1>1
<1> QED
  BY <1>1, <1>2, <1>3 DEF SavesBounded

LEMMA SavesNext ==
  ASSUME TypeInv, Ascending(offer), Linked, SavesBounded, [Next]_vars
  PROVE  SavesBounded'
<1>1. CASE WorkerDies \/ UNCHANGED vars
  BY <1>1, SavesKept DEF WorkerDies, linkVars, vars, docVars, countVars
<1>2. CASE Crash
  BY <1>2, SavesForgotten DEF Crash, ForgetEdits
<1> QED
  BY <1>1, <1>2, SavesUser, SavesServe, SavesPump DEF Next

(***************************************************************************)
(* A replay in order: the entries as they are.                             *)
(***************************************************************************)
LEMMA InOrderSame ==
  ASSUME NEW j \in Journals, Ascending(j)
  PROVE  InOrder(j.entries) = j.entries
<1> DEFINE es == j.entries
           n == Len(es)
           p == CHOOSE q \in [DOMAIN es -> DOMAIN es] : Sorts(es, q)
           id == [i \in DOMAIN es |-> i]
           Fixed == {m \in 0..n : \A i \in 1..n : i <= m => p[i] = i}
<1>1. n \in Nat /\ DOMAIN es = 1..n /\ \A i \in 1..n : es[i] \in Entries
  BY DEF Journals
<1>2. \A i \in 1..n : es[i].rev \in Nat
  BY <1>1 DEF Entries
<1>3. Sorts(es, id)
  BY <1>1, <1>2 DEF Sorts, Ascending
<1>4. p \in [1..n -> 1..n] /\ Sorts(es, p)
  BY <1>1, <1>3
<1>5. \A a, b \in 1..n : a < b => es[a].rev <= es[b].rev
  BY <1>1 DEF Ascending
<1> HIDE DEF p
<1>6. \A a, b \in 1..n : a < b => p[a] < p[b]
  <2> SUFFICES ASSUME NEW a \in 1..n, NEW b \in 1..n, a < b, ~(p[a] < p[b]) PROVE FALSE
    OBVIOUS
  <2>1. \/ es[p[a]].rev < es[p[b]].rev
        \/ es[p[a]].rev = es[p[b]].rev /\ p[a] < p[b]
    BY <1>1, <1>4 DEF Sorts
  <2>2. p[a] \in 1..n /\ p[b] \in 1..n /\ p[a] # p[b]
    BY <1>1, <1>4 DEF Sorts
  <2>3. p[b] < p[a]
    BY <2>2
  <2>4. es[p[b]].rev <= es[p[a]].rev
    BY <1>5, <2>2, <2>3
  <2>5. es[p[a]].rev \in Nat /\ es[p[b]].rev \in Nat
    BY <1>2, <2>2
  <2> HIDE DEF es
  <2> QED
    BY <2>1, <2>2, <2>3, <2>4, <2>5
<1>7. \A a \in 1..n : p[a] >= a
  <2> DEFINE S == {m \in 0..n : \A a \in 1..n : a <= m => p[a] >= a}
  <2>1. 0 \in S
    BY <1>1
  <2>2. ASSUME NEW k \in 0..n, k \in S, k < n PROVE k + 1 \in S
    <3>1. k + 1 \in 1..n
      BY <1>1, <2>2
    <3>2. p[k + 1] >= k + 1
      <4>1. CASE k = 0
        BY <1>4, <3>1, <4>1
      <4>2. CASE k # 0
        <5>1. k \in 1..n /\ p[k] >= k /\ p[k] < p[k + 1]
          BY <1>1, <1>6, <2>2, <3>1, <4>2
        <5> QED
          BY <1>1, <1>4, <3>1, <5>1
      <4> QED
        BY <4>1, <4>2
    <3>3. \A a \in 1..n : a <= k + 1 => a <= k \/ a = k + 1
      BY <1>1
    <3> QED
      BY <1>1, <2>2, <3>1, <3>2, <3>3
  <2>3. 0..n \subseteq S
    BY <1>1, <2>1, <2>2, UpToNumber
  <2> QED
    BY <1>1, <2>3
<1>8. \A a \in 1..n : p[a] <= a
  <2> DEFINE S == {m \in 0..n : \A a \in 1..n : a > n - m => p[a] <= a}
  <2>1. 0 \in S
    BY <1>1
  <2>2. ASSUME NEW k \in 0..n, k \in S, k < n PROVE k + 1 \in S
    <3>1. n - k \in 1..n /\ k + 1 \in 0..n
      BY <1>1, <2>2
    <3>2. p[n - k] <= n - k
      <4>1. CASE k = 0
        BY <1>1, <1>4, <3>1, <4>1
      <4>2. CASE k # 0
        <5> DEFINE b == (n - k) + 1
        <5>1. b \in 1..n /\ b > n - k
          BY <1>1, <2>2, <4>2
        <5>2. p[b] <= b /\ p[n - k] < p[b]
          BY <1>6, <2>2, <3>1, <5>1
        <5>3. p[b] \in 1..n /\ p[n - k] \in 1..n
          BY <1>4, <3>1, <5>1
        <5>4. b = (n - k) + 1 /\ n - k \in Int
          BY <1>1, <3>1
        <5> HIDE DEF b
        <5> QED
          BY <1>1, <5>2, <5>3, <5>4
      <4> QED
        BY <4>1, <4>2
    <3>3. \A a \in 1..n : a > n - (k + 1) => a > n - k \/ a = n - k
      BY <1>1
    <3> QED
      BY <1>1, <2>2, <3>1, <3>2, <3>3
  <2>3. 0..n \subseteq S
    BY <1>1, <2>1, <2>2, UpToNumber
  <2>4. n \in S
    BY <1>1, <2>3
  <2> QED
    BY <1>1, <2>4
<1>9. \A a \in 1..n : p[a] = a
  BY <1>1, <1>4, <1>7, <1>8
<1>10. InOrder(es) = [i \in 1..n |-> es[p[i]]]
  BY <1>1 DEF InOrder, p
<1>11. InOrder(es) = [i \in 1..n |-> es[i]]
  BY <1>9, <1>10
<1> DEFINE f == [i \in 1..n |-> es[i]]
<1>12. es \in Seq(Entries)
  BY DEF Journals
<1>13. f = es
  BY <1>1, <1>12
<1> QED
  BY <1>11, <1>13

(***************************************************************************)
(* What the steps of the link leave alone.                                 *)
(***************************************************************************)
LEMMA ServeLeaves ==
  ASSUME Serve
  PROVE  /\ serving /\ asks # <<>>
         /\ UNCHANGED <<open, reader, queueVars, journal, own, left, offer, log>>
         /\ ServeLost \/ (serving' = serving /\ asks' = Tail(asks))
<1>1. CASE ServeEdit
  BY <1>1 DEF ServeEdit, Answers, Asked, journalVars
<1>2. CASE ServeConflict \/ ServeMissing \/ ServeInvalid
  BY <1>2 DEF ServeConflict, ServeMissing, ServeInvalid, RefuseAs, Answers, Asked, journalVars
<1>3. CASE ServeForm
  <2>1. Asked({"form"})
    BY <1>3, Zenon DEF ServeForm
  <2>2. \E t : Answers(t)
    BY <1>3, Zenon DEF ServeForm
  <2> QED
    BY <2>1, <2>2 DEF Answers, Asked, journalVars
<1>4. CASE ServeSave
  BY <1>4 DEF ServeSave, Answers, Asked, journalVars
<1>5. CASE ServeLost
  BY <1>5 DEF ServeLost, journalVars
<1> QED
  BY <1>1, <1>2, <1>3, <1>4, <1>5 DEF Serve

(* What an answer is taken off, and what of the pump nothing else moves. *)
LEMMA PumpMoves ==
  ASSUME TakeApplied \/ TakeRefused \/ TakeForm \/ TakeSaved \/ TakeFailed
  PROVE  /\ open # NoFile /\ open' = open /\ told # <<>> /\ told' = Tail(told)
         /\ Head(told).k \in {"applied", "refused", "form", "saved", "failed"}
         /\ UNCHANGED <<disk, worker, serving, left, offer, acts, opens, promise>>
BY DEF TakeApplied, TakeRefused, TakeForm, TakeSaved, TakeFailed, TakeAnswer

LEMMA TailOf ==
  ASSUME NEW S, NEW q \in Seq(S), q # <<>>
  PROVE  /\ Head(q) = q[1] /\ Head(q) \in S /\ Tail(q) \in Seq(S) /\ Len(q) \in Nat /\ Len(q) >= 1
         /\ Len(Tail(q)) = Len(q) - 1 /\ DOMAIN q = 1..Len(q) /\ DOMAIN Tail(q) = 1..(Len(q) - 1)
         /\ \A i \in 1..(Len(q) - 1) : Tail(q)[i] = q[i + 1]
<1>1. /\ Head(q) = q[1] /\ Tail(q) \in Seq(S) /\ Len(q) \in Nat /\ Len(q) >= 1
      /\ Len(Tail(q)) = Len(q) - 1 /\ \A i \in 1..Len(Tail(q)) : Tail(q)[i] = q[i + 1]
  BY HeadTailProperties
<1>2. q[1] \in S /\ DOMAIN q = 1..Len(q) /\ DOMAIN Tail(q) = 1..Len(Tail(q))
  BY <1>1, LenProperties
<1> QED
  BY <1>1, <1>2

LEMMA AppendOf ==
  ASSUME NEW S, NEW q \in Seq(S), NEW x \in S
  PROVE  /\ Append(q, x) \in Seq(S) /\ Len(q) \in Nat /\ Len(Append(q, x)) = Len(q) + 1
         /\ DOMAIN q = 1..Len(q) /\ DOMAIN Append(q, x) = 1..(Len(q) + 1)
         /\ Append(q, x)[Len(q) + 1] = x /\ \A i \in 1..Len(q) : Append(q, x)[i] = q[i]
<1>1. /\ Append(q, x) \in Seq(S) /\ Len(q) \in Nat /\ Len(Append(q, x)) = Len(q) + 1
      /\ Append(q, x)[Len(q) + 1] = x /\ \A i \in 1..Len(q) : Append(q, x)[i] = q[i]
  BY AppendProperties
<1> QED
  BY <1>1, LenProperties

(***************************************************************************)
(* What waits is waiting for something.                                    *)
(***************************************************************************)
Deferral == deferred # <<>> => pumping \/ MayCommitOut(events)

WaitingDesks(ev) == {s \in Desks : s.d # <<>> => MayCommitOut(ev)}

LEMMA WaitingPost ==
  ASSUME NEW ev, NEW rev \in Nat, NEW s \in WaitingDesks(ev), NEW e \in Posts
  PROVE  Post(s, rev, ev, e) \in WaitingDesks(ev)
<1>1. s \in Desks /\ (s.d # <<>> => MayCommitOut(ev))
  BY DEF WaitingDesks
<1>2. Post(s, rev, ev, e) \in Desks
  BY <1>1, PostType
<1>3. Post(s, rev, ev, e).d = s.d \/ MayCommitOut(ev)
  BY <1>1 DEF Post, Commit, SendUndo, Desks
<1> QED
  BY <1>1, <1>2, <1>3 DEF WaitingDesks

LEMMA WaitingPostAll ==
  ASSUME NEW ev, NEW rev \in Nat, NEW s \in WaitingDesks(ev), NEW es \in Seq(Posts)
  PROVE  PostAll(s, rev, ev, es) \in WaitingDesks(ev)
<1>1. \A t \in WaitingDesks(ev) : \A e \in Posts : Post(t, rev, ev, e) \in WaitingDesks(ev)
  BY WaitingPost
<1> QED
  BY <1>1, PostAllKeeps

LEMMA WaitingReleased ==
  ASSUME NEW ev, NEW rev \in Nat, NEW s \in Desks
  PROVE  Released(s, rev, ev).d # <<>> => pumping' \/ MayCommitOut(ev)
<1>1. [s EXCEPT !.d = <<>>] \in WaitingDesks(ev)
  BY NothingQueued DEF WaitingDesks, Desks
<1>2. s.d \in Seq(Ops)
  BY DEF Desks
<1>3. PostAll([s EXCEPT !.d = <<>>], rev, ev, Waiting(s.d)) \in WaitingDesks(ev)
  BY <1>1, <1>2, WaitingType, WaitingPostAll
<1> QED
  BY <1>3 DEF Released, Waiting, WaitingDesks

LEMMA DeferralUser ==
  ASSUME TypeInv, Ascending(offer), Deferral, User
  PROVE  Deferral'
<1>0. Desk \in Desks /\ reader.rev \in Nat /\ events \in Seq(BOOLEAN) /\ Desk.d = deferred
  BY DeskType, LinkParts DEF Desk
<1>1. CASE Draw \/ Erase
  <2>1. PICK op \in Ops : PostsTransaction(op)
    <3>1. CASE Draw
      BY <3>1, ActsType, OpTypes DEF Draw
    <3>2. CASE Erase
      <4>1. PICK i \in Known : PostsTransaction(Delete(i))
        BY <3>2 DEF Erase
      <4>2. i \in Marks
        BY DEF Known, TypeInv, DocTypes, Workers
      <4> QED
        BY <4>1, <4>2, OpTypes
    <3> QED
      BY <1>1, <3>1, <3>2
  <2> DEFINE e == [via |-> "applied", op |-> op]
  <2>2. e \in Posts /\ Post(Desk, reader.rev, events, e) = Commit(Desk, reader.rev, events, op)
    BY DEF Posts, Post
  <2>3. ~pumping /\ PutDesk(Post(Desk, reader.rev, events, e)) /\ UNCHANGED <<events, pumping>>
    BY <1>1, <2>1, <2>2 DEF Draw, Erase, UserActs, PostsTransaction
  <2> HIDE DEF e
  <2>4. Desk \in WaitingDesks(events)
    BY <1>0, <2>3 DEF Deferral, WaitingDesks
  <2>5. Post(Desk, reader.rev, events, e) \in WaitingDesks(events)
    BY <1>0, <2>2, <2>4, WaitingPost
  <2> QED
    BY <2>3, <2>5 DEF Deferral, WaitingDesks, PutDesk
<1>2. CASE Undo \/ Redo
  <2>1. PICK kind \in {"undo", "redo"} : TakeBack(kind)
    BY <1>2 DEF Undo, Redo
  <2>2. SendUndo(Desk, reader.rev, kind, reader.epoch, Last(reader[kind])).d = Desk.d
    BY <1>0 DEF SendUndo, Desks
  <2>3. deferred' = deferred /\ UNCHANGED <<events, pumping>>
    BY <1>0, <2>1, <2>2 DEF TakeBack, PutDesk
  <2> QED
    BY <2>3 DEF Deferral
<1>3. CASE \E may \in BOOLEAN : FormEvent(may)
  <2>1. PICK may \in BOOLEAN : FormEvent(may)
    BY <1>3
  <2>2. MayCommitOut(events) => MayCommitOut(Append(events, may))
    BY <1>0, AppendOf DEF MayCommitOut
  <2> QED
    BY <2>1, <2>2 DEF FormEvent, Deferral
<1>4. CASE (\E f \in Files : SaveAs(f)) \/ DiscardEdits
  BY <1>4 DEF SaveAs, DiscardEdits, queueVars, Deferral
<1>5. CASE (\E f \in Files : Open(f)) \/ PutAway
  BY <1>5 DEF Open, PutAway, ForgetEdits, Deferral
<1>6. CASE RestoreEdits
  <2> DEFINE es == InOrder(offer.entries)
  <2>1. es \in Seq(Entries) /\ Entries \subseteq Posts
    BY InOrderType DEF TypeInv, LeftTypes, Posts
  <2>2. es \in Seq(Posts)
    BY <2>1, SeqMonotonic
  <2>3. ~pumping /\ UNCHANGED <<events, pumping>> /\ PutDesk(PostAll(Desk, reader.rev, events, es))
    BY <1>6 DEF RestoreEdits
  <2> HIDE DEF es
  <2>4. Desk \in WaitingDesks(events)
    BY <1>0, <2>3 DEF Deferral, WaitingDesks
  <2>5. PostAll(Desk, reader.rev, events, es) \in WaitingDesks(events)
    BY <1>0, <2>2, <2>4, WaitingPostAll
  <2> QED
    BY <2>3, <2>5 DEF Deferral, WaitingDesks, PutDesk
<1> QED
  BY <1>1, <1>2, <1>3, <1>4, <1>5, <1>6 DEF User

LEMMA DeferralNext ==
  ASSUME TypeInv, Ascending(offer), Deferral, [Next]_vars
  PROVE  Deferral'
<1>1. CASE Serve \/ WorkerDies \/ UNCHANGED vars
  BY <1>1, ServeLeaves DEF WorkerDies, vars, queueVars, Deferral
<1>2. CASE Crash \/ TakeGone
  BY <1>2 DEF Crash, TakeGone, ForgetEdits, Deferral
<1>3. CASE TakeApplied \/ TakeRefused \/ TakeForm \/ TakeSaved \/ TakeFailed
  <2>1. PICK s \in {Desk, Answered(Desk)}, rev \in Nat : PutDesk(Released(s, rev, events'))
    BY <1>3, PumpPuts
  <2>2. s \in Desks
    BY DeskType, AnsweredType
  <2> QED
    BY <2>1, <2>2, WaitingReleased DEF PutDesk, Deferral
<1> QED
  BY <1>1, <1>2, <1>3, DeferralUser DEF Next, Pump

(***************************************************************************)
(* A thread that has ended has said so.                                    *)
(***************************************************************************)
GoneTold == open # NoFile /\ ~serving => \E i \in DOMAIN told : told[i].k = "gone"

LEMMA GoneNext ==
  ASSUME TypeInv, GoneTold, [Next]_vars
  PROVE  GoneTold'
<1>0. told \in Seq(Replies)
  BY LinkParts
<1>1. CASE UNCHANGED <<open, told, serving>> \/ serving' \/ open' = NoFile
  BY <1>1 DEF GoneTold
<1>2. CASE ServeLost
  <2> DEFINE t == [k |-> "gone"]
  <2>1. t \in Replies /\ told' = Append(told, t)
    BY <1>2 DEF ServeLost, Replies, Others
  <2> QED
    BY <1>0, <2>1, AppendOf DEF GoneTold
<1>3. CASE TakeApplied \/ TakeRefused \/ TakeForm \/ TakeSaved \/ TakeFailed
  <2>1. /\ open # NoFile /\ told # <<>> /\ told' = Tail(told) /\ Head(told).k # "gone"
        /\ serving' = serving
    BY <1>3, PumpMoves
  <2> SUFFICES ASSUME ~serving PROVE \E i \in DOMAIN told' : told'[i].k = "gone"
    BY <2>1 DEF GoneTold
  <2>2. PICK i \in DOMAIN told : told[i].k = "gone"
    BY <2>1 DEF GoneTold
  <2>3. i \in 1..Len(told) /\ i # 1 /\ Len(told) \in Nat
    BY <1>0, <2>1, <2>2, TailOf
  <2>4. i - 1 \in 1..(Len(told) - 1) /\ (i - 1) + 1 = i
    BY <2>3
  <2> QED
    BY <1>0, <2>1, <2>2, <2>4, TailOf
<1>4. CASE Serve /\ ~ServeLost
  BY <1>1, <1>4, ServeLeaves
<1>5. CASE User
  BY <1>1, <1>5 DEF User, Draw, Erase, Undo, Redo, TakeBack, FormEvent, SaveAs, Open, PutAway,
              RestoreEdits, DiscardEdits, PostsTransaction, docVars, linkVars, UserActs
<1>6. CASE WorkerDies \/ Crash \/ TakeGone \/ UNCHANGED vars
  BY <1>1, <1>6 DEF WorkerDies, Crash, TakeGone, vars, docVars, linkVars
<1> QED
  BY <1>2, <1>3, <1>4, <1>5, <1>6 DEF Next, Pump

(***************************************************************************)
(* Names: nothing speaks of a mark that has not been named.                *)
(***************************************************************************)
NamedMarks(n) == {i \in Marks : i[1] <= n}
NamedOps(n) == {op \in Ops : op.id[1] <= n}
NamedPosts(n) == {e \in Posts : e.op \in NamedOps(n)}
NamedPendings(n) == {x \in Pendings : x.op \in NamedOps(n)}
NamedRequests(n) == {x \in Requests : x.k \in {"apply", "undo"} => x.op \in NamedOps(n)}
NamedReplies(n) ==
  {t \in Replies : t.k = "applied" => t.did \in NamedOps(n) /\ t.undo \in NamedOps(n)}
NamedEntries(n) == {e \in Entries : e.op \in NamedOps(n)}
NamedJournals(n) == {j \in Journals : j.entries \in Seq(NamedEntries(n))}
NamedDesks(n) == [p : Seq(NamedPendings(n)), d : Seq(NamedOps(n)), a : Seq(NamedRequests(n))]

NamedDocs(n) == /\ worker.marks \subseteq NamedMarks(n)
                /\ \A f \in Files : disk[f].marks \subseteq NamedMarks(n)
NamedQueues(n) == /\ pending \in Seq(NamedPendings(n)) /\ deferred \in Seq(NamedOps(n))
                  /\ asks \in Seq(NamedRequests(n))
NamedReader(n) == reader.undo \in Seq(NamedOps(n)) /\ reader.redo \in Seq(NamedOps(n))
NamedKept(n) == /\ own \in NamedJournals(n) /\ offer \in NamedJournals(n)
                /\ left \subseteq NamedJournals(n)

NamedUpTo(n) == /\ NamedDocs(n) /\ NamedQueues(n) /\ NamedReader(n) /\ told \in Seq(NamedReplies(n))
                /\ NamedKept(n)

Named == \A n : n = worker.named => NamedUpTo(n)

LEMMA NamedOpTypes ==
  ASSUME NEW n \in Nat
  PROVE  /\ \A v \in Numbers : Create(v) \in NamedOps(n) /\ SetField(v) \in NamedOps(n)
         /\ \A i \in NamedMarks(n) : Delete(i) \in NamedOps(n) /\ Restore(i) \in NamedOps(n)
<1>1. NoMark[1] = 0
  BY DEF NoMark
<1>2. \A v \in Numbers : Create(v).id = NoMark /\ SetField(v).id = NoMark
  BY DEF Create, SetField
<1>3. \A i : Delete(i).id = i /\ Restore(i).id = i
  BY DEF Delete, Restore
<1> QED
  BY <1>1, <1>2, <1>3, OpTypes DEF NamedOps, NamedMarks

LEMMA NamedGrows ==
  ASSUME NEW n \in Nat, TypeInv, NamedUpTo(n)
  PROVE  NamedUpTo(n + 1)
<1>0. \A i \in Marks : i[1] \in Nat
  BY DEF Marks
<1>1. NamedMarks(n) \subseteq NamedMarks(n + 1)
  BY <1>0 DEF NamedMarks
<1>2. \A op \in Ops : op.id[1] \in Nat
  BY <1>0 DEF Ops
<1>3. NamedOps(n) \subseteq NamedOps(n + 1)
  BY <1>2 DEF NamedOps
<1>4. /\ NamedPendings(n) \subseteq NamedPendings(n + 1)
      /\ NamedRequests(n) \subseteq NamedRequests(n + 1)
      /\ NamedReplies(n) \subseteq NamedReplies(n + 1)
      /\ NamedEntries(n) \subseteq NamedEntries(n + 1)
  BY <1>3 DEF NamedPendings, NamedRequests, NamedReplies, NamedEntries
<1>5. /\ Seq(NamedOps(n)) \subseteq Seq(NamedOps(n + 1))
      /\ Seq(NamedPendings(n)) \subseteq Seq(NamedPendings(n + 1))
      /\ Seq(NamedRequests(n)) \subseteq Seq(NamedRequests(n + 1))
      /\ Seq(NamedReplies(n)) \subseteq Seq(NamedReplies(n + 1))
      /\ Seq(NamedEntries(n)) \subseteq Seq(NamedEntries(n + 1))
  BY <1>3, <1>4, SeqMonotonic
<1>6. NamedJournals(n) \subseteq NamedJournals(n + 1)
  BY <1>5 DEF NamedJournals
<1>7. NamedDocs(n + 1)
  BY <1>1 DEF NamedUpTo, NamedDocs
<1>8. NamedQueues(n + 1) /\ NamedReader(n + 1) /\ told \in Seq(NamedReplies(n + 1))
  BY <1>5 DEF NamedUpTo, NamedQueues, NamedReader
<1>9. NamedKept(n + 1)
  BY <1>6 DEF NamedUpTo, NamedKept
<1> QED
  BY <1>7, <1>8, <1>9 DEF NamedUpTo

LEMMA NamedCommit ==
  ASSUME NEW n \in Nat, NEW s \in NamedDesks(n), NEW rev \in Nat, NEW ev, NEW op \in NamedOps(n)
  PROVE  Commit(s, rev, ev, op) \in NamedDesks(n)
<1> DEFINE y == [kind |-> "edit", op |-> op, epoch |-> NoEpoch]
           x == [k |-> "apply", exp |-> Expected(rev, s.p), op |-> op]
<1>1. s.p \in Seq(NamedPendings(n)) /\ s.d \in Seq(NamedOps(n)) /\ s.a \in Seq(NamedRequests(n))
  BY DEF NamedDesks
<1>2. op \in Ops /\ NoEpoch \in Nat /\ Expected(rev, s.p) \in Nat
  BY <1>1, NumberFacts DEF NamedOps, NoEpoch, Expected
<1>3. y \in NamedPendings(n)
  BY <1>2 DEF NamedPendings, Pendings
<1>4. x \in NamedRequests(n)
  BY <1>2 DEF NamedRequests, Requests, EditRequests
<1> HIDE DEF x, y
<1>5. Append(s.d, op) \in Seq(NamedOps(n)) /\ Append(s.p, y) \in Seq(NamedPendings(n))
      /\ Append(s.a, x) \in Seq(NamedRequests(n))
  BY <1>1, <1>3, <1>4
<1> QED
  BY <1>1, <1>5 DEF Commit, NamedDesks, x, y

LEMMA NamedSendUndo ==
  ASSUME NEW n \in Nat, NEW s \in NamedDesks(n), NEW rev \in Nat, NEW kind \in {"undo", "redo"},
         NEW epoch \in Nat, NEW op \in NamedOps(n)
  PROVE  SendUndo(s, rev, kind, epoch, op) \in NamedDesks(n)
<1> DEFINE y == [kind |-> kind, op |-> op, epoch |-> epoch]
           x == [k |-> "undo", exp |-> Expected(rev, s.p), op |-> op]
<1>1. s.p \in Seq(NamedPendings(n)) /\ s.d \in Seq(NamedOps(n)) /\ s.a \in Seq(NamedRequests(n))
  BY DEF NamedDesks
<1>2. op \in Ops /\ Expected(rev, s.p) \in Nat
  BY <1>1 DEF NamedOps, Expected
<1>3. y \in NamedPendings(n)
  BY <1>2 DEF NamedPendings, Pendings
<1>4. x \in NamedRequests(n)
  BY <1>2 DEF NamedRequests, Requests, EditRequests
<1> HIDE DEF x, y
<1>5. Append(s.p, y) \in Seq(NamedPendings(n)) /\ Append(s.a, x) \in Seq(NamedRequests(n))
  BY <1>1, <1>3, <1>4
<1> QED
  BY <1>1, <1>5 DEF SendUndo, NamedDesks, x, y

LEMMA NamedPost ==
  ASSUME NEW n \in Nat, NEW s \in NamedDesks(n), NEW rev \in Nat, NEW ev, NEW e \in NamedPosts(n)
  PROVE  Post(s, rev, ev, e) \in NamedDesks(n)
<1>1. e.op \in NamedOps(n) /\ NoEpoch \in Nat
  BY NumberFacts DEF NamedPosts, NoEpoch
<1> QED
  BY <1>1, NamedCommit, NamedSendUndo DEF Post

LEMMA NamedPostAll ==
  ASSUME NEW n \in Nat, NEW s \in NamedDesks(n), NEW rev \in Nat, NEW ev, NEW es \in Seq(NamedPosts(n))
  PROVE  PostAll(s, rev, ev, es) \in NamedDesks(n)
<1>1. \A t \in NamedDesks(n) : \A e \in NamedPosts(n) : Post(t, rev, ev, e) \in NamedDesks(n)
  BY NamedPost
<1> QED
  BY <1>1, PostAllKeeps

LEMMA NamedReleased ==
  ASSUME NEW n \in Nat, NEW s \in NamedDesks(n), NEW rev \in Nat, NEW ev
  PROVE  Released(s, rev, ev) \in NamedDesks(n)
<1> DEFINE z == [s EXCEPT !.d = <<>>]
<1>1. z \in NamedDesks(n)
  <2>1. <<>> \in Seq(NamedOps(n))
    OBVIOUS
  <2> QED
    BY <2>1 DEF NamedDesks
<1>0. s.d \in Seq(NamedOps(n))
  BY DEF NamedDesks
<1>2. Len(s.d) \in Nat /\ DOMAIN s.d = 1..Len(s.d) /\ \A i \in 1..Len(s.d) : s.d[i] \in NamedOps(n)
  BY <1>0
<1>3. \A op \in NamedOps(n) : [via |-> "applied", op |-> op] \in NamedPosts(n)
  BY DEF NamedOps, NamedPosts, Posts
<1>4. Waiting(s.d) \in Seq(NamedPosts(n))
  BY <1>2, <1>3 DEF Waiting
<1> HIDE DEF z
<1>5. PostAll(z, rev, ev, Waiting(s.d)) \in NamedDesks(n)
  BY <1>1, <1>4, NamedPostAll
<1> QED
  BY <1>5 DEF Released, Waiting, z

LEMMA NamedAnswered ==
  ASSUME NEW n \in Nat, NEW s \in NamedDesks(n)
  PROVE  Answered(s) \in NamedDesks(n)
<1>1. s.p \in Seq(NamedPendings(n)) /\ (s.p # <<>> => Tail(s.p) \in Seq(NamedPendings(n)))
  BY DEF NamedDesks
<1> QED
  BY <1>1 DEF Answered, NamedDesks

LEMMA NamedDesk ==
  ASSUME NEW n \in Nat, NamedUpTo(n)
  PROVE  Desk \in NamedDesks(n)
BY DEF NamedUpTo, NamedQueues, Desk, NamedDesks

LEMMA NamedPut ==
  ASSUME NEW n \in Nat, NEW s \in NamedDesks(n), PutDesk(s)
  PROVE  NamedQueues(n)'
BY DEF PutDesk, NamedDesks, NamedQueues

LEMMA NamedBlanks ==
  ASSUME NEW n
  PROVE  /\ <<>> \in Seq(NamedPendings(n)) /\ <<>> \in Seq(NamedOps(n))
         /\ <<>> \in Seq(NamedRequests(n))
         /\ <<>> \in Seq(NamedReplies(n)) /\ <<>> \in Seq(NamedEntries(n))
         /\ NoJournal \in NamedJournals(n)
         /\ \A j \in Journals : j.entries = <<>> => j \in NamedJournals(n)
<1>1. /\ <<>> \in Seq(NamedPendings(n)) /\ <<>> \in Seq(NamedOps(n)) /\ <<>> \in Seq(NamedRequests(n))
      /\ <<>> \in Seq(NamedReplies(n)) /\ <<>> \in Seq(NamedEntries(n))
  OBVIOUS
<1>2. \A j \in Journals : j.entries = <<>> => j \in NamedJournals(n)
  BY <1>1 DEF NamedJournals
<1>3. NoJournal.entries = <<>>
  BY DEF NoJournal
<1> QED
  BY <1>1, <1>2, <1>3, BlankTypes

LEMMA NamedForgets ==
  ASSUME NEW n \in Nat, ForgetEdits
  PROVE  NamedQueues(n)' /\ NamedReader(n)' /\ (told \in Seq(NamedReplies(n)))'
BY NamedBlanks DEF ForgetEdits, NamedQueues, NamedReader, Fresh

LEMMA NamedStays ==
  ASSUME NEW n \in Nat, NamedUpTo(n)
  PROVE  /\ UNCHANGED <<worker, disk>> => NamedDocs(n)'
         /\ UNCHANGED <<pending, deferred, asks>> => NamedQueues(n)'
         /\ UNCHANGED reader => NamedReader(n)'
         /\ UNCHANGED told => (told \in Seq(NamedReplies(n)))'
         /\ UNCHANGED <<own, left, offer>> => NamedKept(n)'
BY DEF NamedUpTo, NamedDocs, NamedQueues, NamedReader, NamedKept

LEMMA NamedFront ==
  ASSUME NEW n \in Nat, NEW q \in Seq(NamedOps(n)), q # <<>>
  PROVE  Front(q) \in Seq(NamedOps(n)) /\ Last(q) \in NamedOps(n)
BY FrontLast

LEMMA NamedUser ==
  ASSUME TypeInv, Ascending(offer), NEW n \in Nat, NamedUpTo(n), User
  PROVE  NamedUpTo(n)'
<1>0. /\ Desk \in NamedDesks(n) /\ reader.rev \in Nat /\ reader.epoch \in Nat /\ reader \in Readers
      /\ reader.undo \in Seq(NamedOps(n)) /\ reader.redo \in Seq(NamedOps(n))
  BY NamedDesk, LinkParts DEF NamedUpTo, NamedReader, TypeInv, ReaderTypes, Readers
<1>1. CASE Draw \/ Erase
  <2>1. PICK op \in NamedOps(n) : PostsTransaction(op)
    <3>1. CASE Draw
      BY <3>1, ActsType, NamedOpTypes DEF Draw
    <3>2. CASE Erase
      <4>1. PICK i \in Known : PostsTransaction(Delete(i))
        BY <3>2 DEF Erase
      <4>2. i \in NamedMarks(n)
        BY DEF Known, NamedUpTo, NamedDocs
      <4> QED
        BY <4>1, <4>2, NamedOpTypes
    <3> QED
      BY <1>1, <3>1, <3>2
  <2>2. Commit(Desk, reader.rev, events, op) \in NamedDesks(n)
    BY <1>0, NamedCommit
  <2>3. /\ PutDesk(Commit(Desk, reader.rev, events, op))
        /\ UNCHANGED <<docVars, told, reader, own, left, offer>>
    BY <2>1 DEF PostsTransaction, journalVars
  <2>4. NamedQueues(n)'
    BY <2>2, <2>3, NamedPut
  <2> QED
    BY <2>3, <2>4, NamedStays DEF docVars, NamedUpTo
<1>2. CASE Undo \/ Redo
  <2>1. PICK kind \in {"undo", "redo"} : TakeBack(kind)
    BY <1>2 DEF Undo, Redo
  <2>2. /\ reader[kind] # <<>> /\ reader[kind] \in Seq(NamedOps(n))
        /\ reader' = [reader EXCEPT ![kind] = Front(reader[kind])]
        /\ PutDesk(SendUndo(Desk, reader.rev, kind, reader.epoch, Last(reader[kind])))
        /\ UNCHANGED <<docVars, told, own, left, offer>>
    BY <1>0, <2>1 DEF TakeBack, journalVars
  <2>3. Front(reader[kind]) \in Seq(NamedOps(n)) /\ Last(reader[kind]) \in NamedOps(n)
    BY <2>2, NamedFront
  <2>4. SendUndo(Desk, reader.rev, kind, reader.epoch, Last(reader[kind])) \in NamedDesks(n)
    BY <1>0, <2>3, NamedSendUndo
  <2>5. NamedQueues(n)'
    BY <2>2, <2>4, NamedPut
  <2>6. NamedReader(n)'
    BY <1>0, <2>2, <2>3 DEF NamedReader, Readers
  <2> QED
    BY <2>2, <2>5, <2>6, NamedStays DEF docVars, NamedUpTo
<1>3. CASE \E may \in BOOLEAN : FormEvent(may)
  <2>1. PICK may \in BOOLEAN : FormEvent(may)
    BY <1>3
  <2> DEFINE x == [k |-> "form", may |-> may, val |-> acts + 1]
  <2>2. x \in NamedRequests(n)
    BY <2>1, ActsType DEF FormEvent, NamedRequests, Requests, FormRequests
  <2>3. /\ asks' \in {asks, Append(asks, x)}
        /\ UNCHANGED <<docVars, told, reader, own, left, offer, pending, deferred>>
    BY <2>1 DEF FormEvent, journalVars
  <2> HIDE DEF x
  <2>4. asks \in Seq(NamedRequests(n)) /\ Append(asks, x) \in Seq(NamedRequests(n))
    BY <2>2, AppendOf DEF NamedUpTo, NamedQueues
  <2>5. NamedQueues(n)'
    BY <2>3, <2>4 DEF NamedUpTo, NamedQueues
  <2> QED
    BY <2>3, <2>5, NamedStays DEF docVars, NamedUpTo
<1>4. CASE \E f \in Files : SaveAs(f)
  <2>1. PICK f \in Files : SaveAs(f)
    BY <1>4
  <2> DEFINE x == [k |-> "save", to |-> f]
  <2>2. x \in NamedRequests(n)
    BY DEF NamedRequests, Requests, SaveRequests
  <2>3. /\ asks' \in {asks, Append(asks, x)}
        /\ UNCHANGED <<docVars, told, reader, own, left, offer, pending, deferred>>
    BY <2>1 DEF SaveAs, journalVars, queueVars
  <2> HIDE DEF x
  <2>4. asks \in Seq(NamedRequests(n)) /\ Append(asks, x) \in Seq(NamedRequests(n))
    BY <2>2, AppendOf DEF NamedUpTo, NamedQueues
  <2>5. NamedQueues(n)'
    BY <2>3, <2>4 DEF NamedUpTo, NamedQueues
  <2> QED
    BY <2>3, <2>5, NamedStays DEF docVars, NamedUpTo
<1>5. CASE \E f \in Files : Open(f)
  <2>1. PICK f \in Files : Open(f)
    BY <1>5
  <2>2. worker'.marks = disk[f].marks /\ disk' = disk
    BY <2>1 DEF Open
  <2>3. NamedDocs(n)'
    BY <2>2 DEF NamedUpTo, NamedDocs
  <2>4. NamedQueues(n)' /\ NamedReader(n)' /\ (told \in Seq(NamedReplies(n)))'
    BY <2>1, NamedBlanks DEF Open, NamedQueues, NamedReader, Fresh
  <2>5. own' \in NamedJournals(n)
    <3>1. CASE own' = [of |-> f, v |-> disk[f].v, entries |-> <<>>]
      <4>1. own' \in Journals /\ own'.entries = <<>>
        BY <3>1, NothingQueued DEF Journals, TypeInv, DocTypes, Papers
      <4> QED
        BY <4>1, NamedBlanks
    <3>2. CASE own' \in {own, NoJournal}
      BY <3>2, NamedBlanks DEF NamedUpTo, NamedKept
    <3> QED
      BY <2>1, <3>1, <3>2 DEF Open
  <2>6. left' = left /\ (offer' = NoJournal \/ offer' \in left)
    BY <2>1 DEF Open
  <2>7. NamedKept(n)'
    BY <2>5, <2>6, NamedBlanks DEF NamedUpTo, NamedKept
  <2> QED
    BY <2>3, <2>4, <2>7 DEF NamedUpTo
<1>6. CASE PutAway
  <2>1. UNCHANGED <<disk, worker, left>> /\ own' = NoJournal /\ offer' = NoJournal /\ ForgetEdits
    BY <1>6 DEF PutAway
  <2>2. NamedKept(n)'
    BY <2>1, NamedBlanks DEF NamedUpTo, NamedKept
  <2> QED
    BY <2>1, <2>2, NamedForgets, NamedStays DEF NamedUpTo
<1>7. CASE RestoreEdits
  <2>1. InOrder(offer.entries) = offer.entries
    BY InOrderSame DEF TypeInv, LeftTypes
  <2>2. /\ PutDesk(PostAll(Desk, reader.rev, events, offer.entries))
        /\ left' \subseteq left /\ offer' = NoJournal /\ UNCHANGED <<docVars, told, reader, own>>
    BY <1>7, <2>1 DEF RestoreEdits
  <2>3. offer.entries \in Seq(NamedEntries(n)) /\ NamedEntries(n) \subseteq NamedPosts(n)
    BY DEF NamedUpTo, NamedKept, NamedJournals, NamedEntries, NamedPosts, Posts
  <2>4. offer.entries \in Seq(NamedPosts(n))
    BY <2>3, SeqMonotonic
  <2>5. NamedQueues(n)'
    BY <1>0, <2>2, <2>4, NamedPostAll, NamedPut
  <2>6. NamedKept(n)'
    BY <2>2, NamedBlanks DEF NamedUpTo, NamedKept
  <2> QED
    BY <2>2, <2>5, <2>6, NamedStays DEF docVars, NamedUpTo
<1>8. CASE DiscardEdits
  <2>1. /\ left' \subseteq left /\ offer' = NoJournal
        /\ UNCHANGED <<docVars, linkVars, reader, pending, deferred, own>>
    BY <1>8 DEF DiscardEdits, queueVars
  <2>2. NamedKept(n)'
    BY <2>1, NamedBlanks DEF NamedUpTo, NamedKept
  <2> QED
    BY <2>1, <2>2, NamedStays DEF docVars, linkVars, NamedUpTo
<1> QED
  BY <1>1, <1>2, <1>3, <1>4, <1>5, <1>6, <1>7, <1>8 DEF User

(* An answer of the worker that names n marks so far. *)
LEMMA NamedAnswers ==
  ASSUME TypeInv, NEW n \in Nat, NamedUpTo(n), NEW t \in NamedReplies(n), asks # <<>>, Answers(t)
  PROVE  NamedQueues(n)' /\ NamedReader(n)' /\ (told \in Seq(NamedReplies(n)))' /\ NamedKept(n)'
<1>1. /\ asks' = Tail(asks) /\ told' = Append(told, t)
      /\ UNCHANGED <<reader, pending, deferred, own, left, offer>>
  BY DEF Answers, queueVars, journalVars
<1>2. asks \in Seq(NamedRequests(n)) /\ told \in Seq(NamedReplies(n))
  BY DEF NamedUpTo, NamedQueues
<1>3. Tail(asks) \in Seq(NamedRequests(n)) /\ Append(told, t) \in Seq(NamedReplies(n))
  BY <1>2, TailOf, AppendOf
<1>4. NamedQueues(n)'
  BY <1>1, <1>3 DEF NamedUpTo, NamedQueues
<1> QED
  BY <1>1, <1>3, <1>4, NamedStays

LEMMA NamedHead ==
  ASSUME NEW n \in Nat, NamedUpTo(n), asks # <<>>
  PROVE  Head(asks).k \in {"apply", "undo"} => Head(asks).op \in NamedOps(n)
<1>1. asks \in Seq(NamedRequests(n))
  BY DEF NamedUpTo, NamedQueues
<1>2. Head(asks) \in NamedRequests(n)
  BY <1>1, TailOf
<1> QED
  BY <1>2 DEF NamedRequests

LEMMA NamedEngine ==
  ASSUME NEW n \in Nat, NEW op \in NamedOps(n), NEW marks \in SUBSET NamedMarks(n),
         NEW field \in Numbers,
         NEW m \in Nat, op.k = "create" => m <= n
  PROVE  MarksAfter(marks, m, op) \subseteq NamedMarks(n) /\ UndoOf(field, m, op) \in NamedOps(n)
<1>1. op \in Ops /\ op.id \in Marks /\ op.id[1] <= n /\ op.val \in Numbers
  BY DEF NamedOps, Ops, Numbers
<1>2. op.id \in NamedMarks(n)
  BY <1>1 DEF NamedMarks
<1>3. op.k = "create" => <<m, op.val>> \in NamedMarks(n)
  BY <1>1 DEF NamedMarks, Marks, Numbers
<1>4. MarksAfter(marks, m, op) \subseteq NamedMarks(n)
  BY <1>2, <1>3 DEF MarksAfter
<1>5. UndoOf(field, m, op) \in NamedOps(n)
  BY <1>2, <1>3, NamedOpTypes DEF UndoOf
<1> QED
  BY <1>4, <1>5

LEMMA NamedServeEdit ==
  ASSUME TypeInv, Named, ServeEdit
  PROVE  Named'
<1> DEFINE n == worker.named
           a == Head(asks)
           m == worker'.named
           t == [k |-> "applied", rev |-> worker.rev + 1, did |-> a.op,
                 undo |-> UndoOf(worker.field, worker.named + 1, a.op)]
<1>1. asks # <<>> /\ a.k \in {"apply", "undo"} /\ a.op \in Ops
  BY HeadAsked DEF ServeEdit, Asked
<1>2. worker \in Workers /\ n \in Nat /\ worker.field \in Numbers /\ worker.rev \in Nat
  BY DEF TypeInv, DocTypes, Workers
<1>3. Answers(t) /\ worker' = Done(worker, a.op) /\ disk' = disk
  BY DEF ServeEdit
<1>4. /\ m = IF a.op.k = "create" THEN n + 1 ELSE n
      /\ worker'.marks = MarksAfter(worker.marks, n + 1, a.op)
  BY <1>1, <1>2, <1>3, DoneType
<1>5. m \in Nat /\ (a.op.k = "create" => n + 1 <= m) /\ n + 1 \in Nat /\ (m = n \/ m = n + 1)
  BY <1>2, <1>4
<1>6. NamedUpTo(n)
  BY DEF Named
<1> HIDE DEF n, m, a
<1>7. NamedUpTo(m)
  BY <1>2, <1>5, <1>6, NamedGrows
<1>8. a.op \in NamedOps(m)
  BY <1>1, <1>5, <1>7, NamedHead DEF a
<1>9. worker.marks \subseteq NamedMarks(m)
  BY <1>7 DEF NamedUpTo, NamedDocs
<1>10. MarksAfter(worker.marks, n + 1, a.op) \subseteq NamedMarks(m)
       /\ UndoOf(worker.field, n + 1, a.op) \in NamedOps(m)
  BY <1>2, <1>5, <1>8, <1>9, NamedEngine
<1>11. t \in NamedReplies(m)
  BY <1>1, <1>2, <1>8, <1>10 DEF NamedReplies, Replies, Applieds, NamedOps, n
<1> HIDE DEF t
<1>12. ASSUME NEW p, p = m PROVE NamedUpTo(p)'
  <2>1. NamedUpTo(p) /\ p \in Nat /\ t \in NamedReplies(p)
    BY <1>5, <1>7, <1>11, <1>12
  <2>2. NamedQueues(p)' /\ NamedReader(p)' /\ (told \in Seq(NamedReplies(p)))' /\ NamedKept(p)'
    BY <1>1, <1>3, <2>1, NamedAnswers
  <2>3. worker'.marks \subseteq NamedMarks(p)
    BY <1>4, <1>10, <1>12
  <2>4. NamedDocs(p)'
    BY <1>3, <2>1, <2>3 DEF NamedUpTo, NamedDocs
  <2> QED
    BY <2>2, <2>4 DEF NamedUpTo
<1> QED
  BY <1>12 DEF Named, m

(* What the worker says to a form event. *)
LEMMA FormServed ==
  ASSUME TypeInv, ServeForm
  PROVE  /\ \E t \in Replies : Answers(t) /\ t.k = "form"
         /\ serving /\ asks # <<>> /\ Head(asks).k = "form" /\ disk' = disk /\ promise' = promise
         /\ worker'.marks = worker.marks /\ worker'.named = worker.named
<1>0. Asked({"form"})
  BY Zenon DEF ServeForm
<1>1. asks # <<>> /\ Head(asks).val \in Numbers /\ serving /\ Head(asks).k = "form"
  BY <1>0, HeadAsked DEF Asked
<1>2. worker \in Workers /\ worker.rev \in Nat /\ worker.field \in Numbers
  BY DEF TypeInv, DocTypes, Workers
<1>3. disk' = disk /\ promise' = promise
  BY Zenon DEF ServeForm
<1>4. CASE Answers([k |-> "form", commits |-> FALSE]) /\ UNCHANGED <<worker, skew>>
  <2> DEFINE t == [k |-> "form", commits |-> FALSE]
  <2>1. t \in Replies /\ t.k = "form"
    BY DEF Replies, IdleForms
  <2> QED
    BY <1>1, <1>3, <1>4, <2>1
<1>5. CASE /\ \E named \in BOOLEAN :
                Answers([k |-> "form", commits |-> TRUE, named |-> named, rev |-> worker.rev + 1,
                         was |-> worker.field, val |-> Head(asks).val])
           /\ worker' = [worker EXCEPT !.rev = @ + 1, !.field = Head(asks).val]
  <2>1. PICK named \in BOOLEAN :
             Answers([k |-> "form", commits |-> TRUE, named |-> named, rev |-> worker.rev + 1,
                      was |-> worker.field, val |-> Head(asks).val])
    BY <1>5
  <2> DEFINE t == [k |-> "form", commits |-> TRUE, named |-> named, rev |-> worker.rev + 1,
                   was |-> worker.field, val |-> Head(asks).val]
  <2>2. t \in Replies /\ t.k = "form" /\ Answers(t)
    BY <1>1, <1>2, <2>1 DEF Replies, Commits
  <2>3. worker'.marks = worker.marks /\ worker'.named = worker.named
    BY <1>2, <1>5 DEF Workers
  <2> HIDE DEF t
  <2> QED
    BY <1>1, <1>3, <2>2, <2>3
<1> QED
  BY <1>4, <1>5, Zenon DEF ServeForm

(* What the worker says, when it does not say that an edit is done. *)
LEMMA OtherServed ==
  ASSUME TypeInv, Serve, ~ServeEdit
  PROVE  /\ \E t \in Replies : t.k # "applied" /\ told' = Append(told, t)
         /\ worker'.marks = worker.marks /\ worker'.named = worker.named
<1>1. CASE ServeConflict \/ ServeMissing \/ ServeInvalid
  <2>1. PICK why : RefuseAs(why)
    BY <1>1 DEF ServeConflict, ServeMissing, ServeInvalid
  <2>2. /\ Answers([k |-> "refused", op |-> Head(asks).op, was |-> Head(asks).k, why |-> why,
                    behind |-> skew])
        /\ UNCHANGED <<disk, worker>>
    BY <2>1 DEF RefuseAs
  <2> DEFINE t == [k |-> "refused", op |-> Head(asks).op, was |-> Head(asks).k, why |-> why,
                   behind |-> skew]
  <2>3. told' = Append(told, t) /\ t.k = "refused"
    BY <2>2 DEF Answers
  <2>4. told' \in Seq(Replies)
    BY <1>1, TypeRefusals DEF TypeInv, LinkTypes
  <2>5. told \in Seq(Replies)
    BY LinkParts
  <2> HIDE DEF t
  <2>6. t \in Replies
    <3>1. Len(told) \in Nat /\ Len(told') = Len(told) + 1 /\ told'[Len(told) + 1] = t
      BY <2>3, <2>5
    <3> QED
      BY <2>4, <3>1
  <2> QED
    BY <2>2, <2>3, <2>6
<1>2. CASE ServeForm
  BY <1>2, FormServed DEF Answers
<1>3. CASE ServeSave
  <2> DEFINE f == Head(asks).to
  <2>1. worker' = worker /\ f \in Files
    BY <1>3, HeadAsked DEF ServeSave, Asked
  <2>2. Answers([k |-> "saved", to |-> f]) \/ Answers([k |-> "failed"])
    BY <1>3 DEF ServeSave
  <2> HIDE DEF f
  <2>3. [k |-> "saved", to |-> f] \in Replies /\ [k |-> "failed"] \in Replies
    BY <2>1 DEF Replies, Saveds, Others
  <2> QED
    BY <2>1, <2>2, <2>3 DEF Answers
<1>4. CASE ServeLost
  <2>1. told' = Append(told, [k |-> "gone"]) /\ worker' = worker
    BY <1>4 DEF ServeLost
  <2>2. [k |-> "gone"] \in Replies
    BY DEF Replies, Others
  <2> QED
    BY <2>1, <2>2
<1> QED
  BY <1>1, <1>2, <1>3, <1>4 DEF Serve

LEMMA NamedServe ==
  ASSUME TypeInv, NEW n \in Nat, NamedUpTo(n), Serve, ~ServeEdit
  PROVE  NamedUpTo(n)'
<1>1. /\ asks # <<>> /\ UNCHANGED <<reader, pending, deferred, own, left, offer>>
      /\ asks' \in {Tail(asks), <<>>}
  BY ServeLeaves DEF queueVars, ServeLost
<1>2. PICK t \in Replies : t.k # "applied" /\ told' = Append(told, t)
  BY OtherServed
<1>3. t \in NamedReplies(n)
  BY <1>2 DEF NamedReplies
<1>4. told' \in Seq(NamedReplies(n))
  BY <1>2, <1>3, AppendOf DEF NamedUpTo
<1>5. Tail(asks) \in Seq(NamedRequests(n)) /\ <<>> \in Seq(NamedRequests(n))
  BY <1>1, TailOf DEF NamedUpTo, NamedQueues
<1>6. NamedQueues(n)'
  BY <1>1, <1>5 DEF NamedUpTo, NamedQueues
<1>7. \A f \in Files : disk'[f].marks \in {disk[f].marks, worker.marks}
  <2>1. CASE ServeForm
    BY <2>1, FormServed
  <2>2. CASE ServeSave
    BY <2>2 DEF ServeSave, TypeInv, DocTypes
  <2>3. CASE ServeConflict \/ ServeMissing \/ ServeInvalid \/ ServeLost
    BY <2>3 DEF ServeConflict, ServeMissing, ServeInvalid, RefuseAs, ServeLost
  <2> QED
    BY <2>1, <2>2, <2>3 DEF Serve
<1>8. worker'.marks = worker.marks
  BY OtherServed
<1>9. NamedDocs(n)'
  BY <1>7, <1>8 DEF NamedUpTo, NamedDocs
<1> QED
  BY <1>1, <1>4, <1>6, <1>9, NamedStays DEF NamedUpTo

LEMMA NamedAdopt ==
  ASSUME TypeInv, NEW n \in Nat, NamedUpTo(n), NEW kind \in {"edit", "undo", "redo"},
         NEW t, t.undo \in NamedOps(n), reader' = Adopt(kind, t)
  PROVE  NamedReader(n)'
<1>1. reader.undo \in Seq(NamedOps(n)) /\ reader.redo \in Seq(NamedOps(n)) /\ reader \in Readers
  BY DEF NamedUpTo, NamedReader, TypeInv, ReaderTypes
<1>2. /\ Append(reader.undo, t.undo) \in Seq(NamedOps(n))
      /\ Append(reader.redo, t.undo) \in Seq(NamedOps(n))
      /\ <<>> \in Seq(NamedOps(n))
  BY <1>1, AppendOf
<1>3. /\ reader'.undo \in {reader.undo, Append(reader.undo, t.undo)}
      /\ reader'.redo \in {reader.redo, Append(reader.redo, t.undo), <<>>}
  BY <1>1 DEF Adopt, Readers
<1> QED
  BY <1>1, <1>2, <1>3 DEF NamedReader

LEMMA NamedJournalled ==
  ASSUME TypeInv, NEW n \in Nat, NamedUpTo(n), NEW e \in NamedEntries(n), Journalled(e),
         UNCHANGED <<left, offer>>
  PROVE  NamedKept(n)'
<1>1. own \in Journals /\ own.entries \in Seq(NamedEntries(n)) /\ own \in NamedJournals(n)
  BY DEF NamedUpTo, NamedKept, NamedJournals
<1>2. Append(own.entries, e) \in Seq(NamedEntries(n)) /\ Append(own.entries, e) \in Seq(Entries)
  <2>1. e \in Entries /\ own.entries \in Seq(Entries)
    BY <1>1 DEF NamedEntries, Journals
  <2> QED
    BY <1>1, <2>1, AppendOf
<1>3. own' = own \/ own' = [own EXCEPT !.entries = Append(own.entries, e)]
  BY DEF Journalled
<1>4. [own EXCEPT !.entries = Append(own.entries, e)] \in NamedJournals(n)
  BY <1>1, <1>2 DEF NamedJournals, Journals
<1> QED
  BY <1>1, <1>3, <1>4 DEF NamedUpTo, NamedKept

LEMMA NamedPump ==
  ASSUME TypeInv, Linked, NEW n \in Nat, NamedUpTo(n), Pump
  PROVE  NamedUpTo(n)'
<1>1. CASE TakeGone
  BY <1>1, NamedForgets, NamedStays DEF TakeGone, journalVars, NamedUpTo
<1>2. CASE TakeApplied \/ TakeRefused \/ TakeForm \/ TakeSaved \/ TakeFailed
  <2> DEFINE t == Head(told)
  <2>1. told # <<>> /\ told' = Tail(told) /\ UNCHANGED <<disk, worker, left, offer>>
    BY <1>2, PumpMoves
  <2>2. told \in Seq(NamedReplies(n))
    BY DEF NamedUpTo
  <2>3. t \in NamedReplies(n) /\ (told \in Seq(NamedReplies(n)))'
    BY <2>1, <2>2, TailOf
  <2>4. NamedQueues(n)'
    <3>1. PICK s \in {Desk, Answered(Desk)}, rev \in Nat : PutDesk(Released(s, rev, events'))
      BY <1>2, PumpPuts
    <3>2. s \in NamedDesks(n)
      BY NamedDesk, NamedAnswered
    <3> QED
      BY <3>1, <3>2, NamedReleased, NamedPut
  <2>5. NamedDocs(n)'
    BY <2>1, NamedStays
  <2>6. NamedReader(n)' /\ NamedKept(n)'
    <3>1. CASE TakeApplied
      <4>1. /\ TakeAnswer("applied") /\ Journalled(EntryFor(t))
            /\ reader' = Adopt(IF pending = <<>> THEN "edit" ELSE Head(pending).kind, t)
        BY <3>1 DEF TakeApplied
      <4>2. t \in Replies /\ t.k = "applied" /\ pending # <<>> /\ Head(pending).op = OpOf(t)
        BY <4>1, AnswerOfEdit, TypeTakeAnswer
      <4>3. t.did \in NamedOps(n) /\ t.undo \in NamedOps(n)
        BY <2>3, <4>2 DEF NamedReplies
      <4>4. Head(pending).kind \in {"edit", "undo", "redo"}
        BY <4>2, PendingHead
      <4>5. NamedReader(n)'
        BY <4>1, <4>2, <4>3, <4>4, NamedAdopt
      <4>6. EntryFor(t) \in Entries /\ EntryFor(t).op = t.did
        BY <4>2, EntryType DEF EntryFor, OpOf
      <4>7. EntryFor(t) \in NamedEntries(n)
        BY <4>3, <4>6 DEF NamedEntries
      <4> QED
        BY <2>1, <4>1, <4>5, <4>7, NamedJournalled
    <3>2. CASE TakeRefused
      <4>1. own' = own /\ reader' = IF pending = <<>> THEN reader ELSE PutBack(Head(pending))
        BY <3>2 DEF TakeRefused
      <4>2. NamedReader(n)'
        <5>1. reader.undo \in Seq(NamedOps(n)) /\ reader.redo \in Seq(NamedOps(n)) /\ reader \in Readers
              /\ pending \in Seq(NamedPendings(n))
          BY DEF NamedUpTo, NamedReader, NamedQueues, TypeInv, ReaderTypes
        <5>2. CASE pending = <<>>
          BY <4>1, <5>2, NamedStays
        <5>3. CASE pending # <<>>
          <6> DEFINE p == Head(pending)
          <6>1. p \in NamedPendings(n)
            BY <5>1, <5>3, TailOf
          <6>2. p.op \in NamedOps(n) /\ p.kind \in {"edit", "undo", "redo"}
            BY <6>1 DEF NamedPendings, Pendings
          <6>3. reader' = PutBack(p)
            BY <4>1, <5>3
          <6> HIDE DEF p
          <6>4. /\ Append(reader.undo, p.op) \in Seq(NamedOps(n))
                /\ Append(reader.redo, p.op) \in Seq(NamedOps(n))
            BY <5>1, <6>2, AppendOf
          <6>5. /\ reader'.undo \in {reader.undo, Append(reader.undo, p.op)}
                /\ reader'.redo \in {reader.redo, Append(reader.redo, p.op)}
            BY <5>1, <6>2, <6>3 DEF PutBack, Readers
          <6> QED
            BY <5>1, <6>4, <6>5 DEF NamedReader
        <5> QED
          BY <5>2, <5>3
      <4> QED
        BY <2>1, <4>1, <4>2, NamedStays
    <3>3. CASE TakeForm
      <4> DEFINE rev == IF t.commits THEN t.rev ELSE reader.rev
      <4>1. t \in Replies /\ t.k = "form"
        BY <3>3, TypeTakeAnswer DEF TakeForm
      <4>2. CASE t.commits /\ t.named
        <5> DEFINE e == [rev |-> rev, via |-> "applied", op |-> SetField(t.val)]
        <5>1. /\ reader' = [rev |-> rev, undo |-> Append(reader.undo, SetField(t.was)),
                            redo |-> <<>>, epoch |-> reader.epoch + 1]
              /\ Journalled(e)
          BY <3>3, <4>2 DEF TakeForm
        <5>2. t.was \in Numbers /\ t.val \in Numbers /\ rev \in Nat
          BY <4>1, <4>2, ReplyTypes, LinkParts
        <5>3. e \in NamedEntries(n) /\ SetField(t.was) \in NamedOps(n)
          <6>1. /\ SetField(t.val) \in NamedOps(n) /\ SetField(t.was) \in NamedOps(n)
                /\ SetField(t.val) \in Ops
            BY <5>2, NamedOpTypes, OpTypes
          <6> HIDE DEF rev
          <6> QED
            BY <5>2, <6>1 DEF NamedEntries, Entries
        <5> HIDE DEF rev, e
        <5>4. NamedKept(n)'
          BY <2>1, <5>1, <5>3, NamedJournalled
        <5>5. Append(reader.undo, SetField(t.was)) \in Seq(NamedOps(n)) /\ <<>> \in Seq(NamedOps(n))
          BY <5>3, AppendOf DEF NamedUpTo, NamedReader
        <5>6. NamedReader(n)'
          BY <5>1, <5>5 DEF NamedReader
        <5> QED
          BY <5>4, <5>6
      <4>3. CASE ~(t.commits /\ t.named)
        <5>1. reader'.undo = reader.undo /\ reader'.redo = reader.redo /\ own' = own
          BY <3>3, <4>3 DEF TakeForm, TypeInv, ReaderTypes, Readers
        <5>2. NamedReader(n)'
          BY <5>1 DEF NamedUpTo, NamedReader
        <5> QED
          BY <2>1, <5>1, <5>2, NamedStays
      <4> QED
        BY <4>2, <4>3
    <3>4. CASE TakeSaved
      <4>1. reader' = reader /\ (own' = own \/ own' = NoJournal \/ own'.entries = <<>>)
        BY <3>4 DEF TakeSaved, TypeInv, KeptTypes, Journals
      <4>2. own' \in Journals
        BY <3>4, TypeTakeSaved DEF TypeInv, KeptTypes
      <4>3. own' \in NamedJournals(n)
        BY <4>1, <4>2, NamedBlanks DEF NamedUpTo, NamedKept
      <4>4. NamedKept(n)'
        BY <2>1, <4>3 DEF NamedUpTo, NamedKept
      <4> QED
        BY <4>1, <4>4, NamedStays
    <3>5. CASE TakeFailed
      BY <2>1, <3>5, NamedStays DEF TakeFailed
    <3> QED
      BY <1>2, <3>1, <3>2, <3>3, <3>4, <3>5
  <2> QED
    BY <2>3, <2>4, <2>5, <2>6 DEF NamedUpTo
<1> QED
  BY <1>1, <1>2 DEF Pump

LEMMA NamedInit == Init => Named
<1> SUFFICES ASSUME Init PROVE Named
  OBVIOUS
<1>1. NoMark \in NamedMarks(0)
  BY NumberFacts DEF NamedMarks, NoMark
<1>2. NamedDocs(0)
  BY <1>1 DEF Init, NamedDocs
<1>3. NamedQueues(0) /\ NamedReader(0) /\ told \in Seq(NamedReplies(0))
  BY NamedBlanks DEF Init, NamedQueues, NamedReader, Fresh
<1>4. NamedKept(0)
  BY NamedBlanks DEF Init, NamedKept
<1>5. NamedUpTo(0)
  BY <1>2, <1>3, <1>4 DEF NamedUpTo
<1>6. worker.named = 0
  BY DEF Init
<1> QED
  BY <1>5, <1>6 DEF Named

LEMMA NamedNext ==
  ASSUME TypeInv, Linked, Ascending(offer), Named, [Next]_vars
  PROVE  Named'
<1> DEFINE n == worker.named
<1>1. n \in Nat /\ NamedUpTo(n)
  BY DEF TypeInv, DocTypes, Workers, Named
<1>2. CASE ServeEdit
  BY <1>2, NamedServeEdit
<1>3. CASE ~ServeEdit
  <2>1. worker'.named = n
    <3>1. CASE User
      <4>1. CASE Draw \/ Erase \/ Undo \/ Redo
        BY <4>1 DEF Draw, Erase, Undo, Redo, TakeBack, PostsTransaction, docVars
      <4>2. CASE \E may \in BOOLEAN : FormEvent(may)
        BY <4>2 DEF FormEvent, docVars
      <4>4. CASE \E f \in Files : SaveAs(f)
        BY <4>4 DEF SaveAs, docVars
      <4>5. CASE \E f \in Files : Open(f)
        BY <4>5 DEF Open
      <4>3. CASE PutAway \/ RestoreEdits \/ DiscardEdits
        BY <4>3 DEF PutAway, RestoreEdits, DiscardEdits, docVars
      <4> QED
        BY <3>1, <4>1, <4>2, <4>3, <4>4, <4>5 DEF User
    <3>2. CASE Serve
      <4>1. CASE ServeConflict \/ ServeMissing \/ ServeInvalid
        BY <4>1 DEF ServeConflict, ServeMissing, ServeInvalid, RefuseAs
      <4>2. CASE ServeForm
        BY <4>2, FormServed
      <4>3. CASE ServeSave \/ ServeLost
        BY <4>3 DEF ServeSave, ServeLost
      <4> QED
        BY <1>3, <3>2, <4>1, <4>2, <4>3 DEF Serve
    <3>3. CASE Pump
      BY <3>3, PumpMoves DEF Pump, TakeGone
    <3>4. CASE WorkerDies \/ Crash \/ UNCHANGED vars
      BY <3>4 DEF WorkerDies, Crash, vars, docVars, TypeInv, DocTypes, Workers
    <3> QED
      BY <3>1, <3>2, <3>3, <3>4 DEF Next
  <2>2. ASSUME NEW m, m = n PROVE NamedUpTo(m)'
    <3>0. NamedUpTo(m) /\ m \in Nat
      BY <1>1, <2>2
    <3> HIDE DEF n
    <3>1. CASE User
      BY <3>0, <3>1, NamedUser
    <3>2. CASE Serve
      BY <1>3, <3>0, <3>2, NamedServe
    <3>3. CASE Pump
      BY <3>0, <3>3, NamedPump
    <3>4. CASE WorkerDies
      <4>1. /\ worker'.marks = worker.marks
            /\ UNCHANGED <<disk, linkVars, reader, pending, deferred, own, left, offer>>
        BY <3>4 DEF WorkerDies, TypeInv, DocTypes, Workers, queueVars, journalVars
      <4>2. NamedDocs(m)'
        BY <3>0, <4>1 DEF NamedUpTo, NamedDocs
      <4> QED
        BY <3>0, <4>1, <4>2, NamedStays DEF NamedUpTo, linkVars
    <3>5. CASE Crash
      <4>1. /\ left' \subseteq left \cup {own} /\ own' = NoJournal /\ offer' = NoJournal /\ ForgetEdits
            /\ UNCHANGED <<disk, worker>>
        BY <3>5 DEF Crash
      <4>2. NamedKept(m)'
        BY <3>0, <4>1, NamedBlanks DEF NamedUpTo, NamedKept
      <4> QED
        BY <3>0, <4>1, <4>2, NamedForgets, NamedStays DEF NamedUpTo
    <3>6. CASE UNCHANGED vars
      BY <3>0, <3>6, NamedStays DEF vars, docVars, linkVars, queueVars, journalVars, NamedUpTo
    <3> QED
      BY <3>1, <3>2, <3>3, <3>4, <3>5, <3>6 DEF Next
  <2> QED
    BY <2>1, <2>2 DEF Named
<1> QED
  BY <1>2, <1>3

(***************************************************************************)
(* Erasures: what a course of operations leaves erased.                    *)
(***************************************************************************)
Mend(d, op) == CASE op.k = "delete" -> d \cup {op.id}
                 [] op.k = "restore" -> d \ {op.id}
                 [] OTHER -> d

(* From what is erased before the operations to what is erased after them,  *)
(* and nothing is erased twice.                                             *)
Course(ops, d, a, z) ==
  /\ d \in [0..Len(ops) -> SUBSET Marks] /\ d[0] = a /\ d[Len(ops)] = z
  /\ \A i \in 1..Len(ops) : /\ ops[i].k = "delete" => ops[i].id \notin d[i - 1]
                            /\ d[i] = Mend(d[i - 1], ops[i])
Leads(ops, a, z) == \E d : Course(ops, d, a, z)

LEMMA MendFacts ==
  ASSUME NEW op \in Ops, NEW a \in SUBSET Marks
  PROVE  /\ Mend(a, op) \in SUBSET Marks
         /\ \A b \in SUBSET a : Mend(b, op) \subseteq Mend(a, op)
         /\ op.k \notin {"delete", "restore"} => Mend(a, op) = a
<1>1. op.id \in Marks
  BY DEF Ops
<1> QED
  BY <1>1 DEF Mend

LEMMA LeadsNothing == ASSUME NEW a \in SUBSET Marks PROVE Leads(<<>>, a, a)
<1> DEFINE d == [i \in 0..0 |-> a]
<1>1. Len(<<>>) = 0 /\ 1..0 = {}
  OBVIOUS
<1>2. Course(<<>>, d, a, a)
  BY <1>1 DEF Course
<1> QED
  BY <1>2 DEF Leads

LEMMA LeadsPush ==
  ASSUME NEW ops \in Seq(Ops), NEW op \in Ops, NEW a, NEW z, Leads(ops, a, z),
         op.k = "delete" => op.id \notin z
  PROVE  Leads(Append(ops, op), a, Mend(z, op))
<1>1. PICK d : Course(ops, d, a, z)
  BY DEF Leads
<1> DEFINE n == Len(ops)
           q == Append(ops, op)
           f == [i \in 0..(n + 1) |-> IF i = n + 1 THEN Mend(z, op) ELSE d[i]]
<1>2. /\ n \in Nat /\ Len(q) = n + 1 /\ q[n + 1] = op /\ \A i \in 1..n : q[i] = ops[i]
  BY AppendOf
<1>3. /\ d \in [0..n -> SUBSET Marks] /\ d[0] = a /\ d[n] = z
      /\ \A i \in 1..n : /\ ops[i].k = "delete" => ops[i].id \notin d[i - 1]
                         /\ d[i] = Mend(d[i - 1], ops[i])
  BY <1>1 DEF Course
<1>4. z \in SUBSET Marks
  BY <1>2, <1>3
<1>5. Mend(z, op) \in SUBSET Marks
  BY <1>4, MendFacts
<1> HIDE DEF q, n
<1>6. f \in [0..(n + 1) -> SUBSET Marks] /\ f[0] = a /\ f[n + 1] = Mend(z, op) /\ f[n] = z
      /\ \A i \in 0..n : f[i] = d[i]
  BY <1>2, <1>3, <1>5
<1> HIDE DEF f
<1>7. ASSUME NEW i \in 1..(n + 1)
      PROVE  (q[i].k = "delete" => q[i].id \notin f[i - 1]) /\ f[i] = Mend(f[i - 1], q[i])
  <2>1. CASE i = n + 1
    <3>1. i - 1 = n
      BY <1>2, <2>1
    <3> QED
      BY <1>2, <1>6, <2>1, <3>1
  <2>2. CASE i # n + 1
    <3>1. i \in 1..n /\ i \in 0..n /\ i - 1 \in 0..n
      BY <1>2, <2>2
    <3> QED
      BY <1>2, <1>3, <1>6, <3>1
  <2> QED
    BY <2>1, <2>2
<1>8. Course(q, f, a, Mend(z, op))
  BY <1>2, <1>6, <1>7 DEF Course
<1> QED
  BY <1>8 DEF Leads, q

LEMMA LeadsPop ==
  ASSUME NEW ops \in Seq(Ops), ops # <<>>, NEW a, NEW z, Leads(ops, a, z)
  PROVE  /\ Head(ops).k = "delete" => Head(ops).id \notin a
         /\ Leads(Tail(ops), Mend(a, Head(ops)), z)
<1>1. PICK d : Course(ops, d, a, z)
  BY DEF Leads
<1> DEFINE n == Len(ops)
           q == Tail(ops)
           f == [i \in 0..(n - 1) |-> d[i + 1]]
<1>2. /\ n \in Nat /\ n >= 1 /\ Len(q) = n - 1 /\ Head(ops) = ops[1]
      /\ \A i \in 1..(n - 1) : q[i] = ops[i + 1]
  BY TailOf
<1>3. /\ d \in [0..n -> SUBSET Marks] /\ d[0] = a /\ d[n] = z
      /\ \A i \in 1..n : /\ ops[i].k = "delete" => ops[i].id \notin d[i - 1]
                         /\ d[i] = Mend(d[i - 1], ops[i])
  BY <1>1 DEF Course
<1> HIDE DEF q, n
<1>4. 1 \in 1..n /\ 1 - 1 = 0 /\ (n - 1) + 1 = n
  BY <1>2
<1>5. (ops[1].k = "delete" => ops[1].id \notin a) /\ d[1] = Mend(a, ops[1])
  BY <1>3, <1>4
<1>6. f \in [0..(n - 1) -> SUBSET Marks] /\ f[0] = d[1] /\ f[n - 1] = z
  BY <1>2, <1>3, <1>4
<1>7. ASSUME NEW i \in 1..(n - 1)
      PROVE  (q[i].k = "delete" => q[i].id \notin f[i - 1]) /\ f[i] = Mend(f[i - 1], q[i])
  <2>1. /\ i + 1 \in 1..n /\ (i + 1) - 1 = i /\ (i - 1) + 1 = i /\ i - 1 \in 0..(n - 1)
        /\ i \in 0..(n - 1)
    BY <1>2
  <2>2. f[i - 1] = d[i] /\ f[i] = d[i + 1] /\ q[i] = ops[i + 1]
    BY <1>2, <2>1
  <2>3. /\ ops[i + 1].k = "delete" => ops[i + 1].id \notin d[(i + 1) - 1]
        /\ d[i + 1] = Mend(d[(i + 1) - 1], ops[i + 1])
    BY <1>3, <2>1
  <2> QED
    BY <2>1, <2>2, <2>3
<1> HIDE DEF f
<1>8. Course(q, f, Mend(a, ops[1]), z)
  BY <1>2, <1>5, <1>6, <1>7 DEF Course
<1> QED
  BY <1>2, <1>5, <1>8 DEF Leads, q

LEMMA LeadsTypes ==
  ASSUME NEW ops \in Seq(Ops), NEW a, NEW z, Leads(ops, a, z)
  PROVE  a \in SUBSET Marks /\ z \in SUBSET Marks
<1>1. PICK d : Course(ops, d, a, z)
  BY DEF Leads
<1>2. Len(ops) \in Nat /\ 0 \in 0..Len(ops) /\ Len(ops) \in 0..Len(ops)
  OBVIOUS
<1> QED
  BY <1>1, <1>2 DEF Course

(* The operations of a journal, and those of what was told. *)
OpsOf(es) == [i \in DOMAIN es |-> es[i].op]
DidOf(t) == IF t.k = "applied" THEN t.did ELSE SetField(0)
Dids(T) == [i \in DOMAIN T |-> DidOf(T[i])]

LEMMA DidType ==
  ASSUME NEW t \in Replies
  PROVE  DidOf(t) \in Ops /\ (t.k # "applied" => DidOf(t).k = "set")
<1>1. t.k = "applied" => t.did \in Ops
  BY DEF Replies, Applieds, Refusals, IdleForms, Commits, Saveds, Others
<1>2. SetField(0) \in Ops /\ SetField(0).k = "set"
  BY NumberFacts, OpTypes DEF SetField
<1> QED
  BY <1>1, <1>2 DEF DidOf

LEMMA OpsAppend ==
  ASSUME NEW es \in Seq(Entries), NEW e \in Entries
  PROVE  OpsOf(es) \in Seq(Ops) /\ OpsOf(Append(es, e)) = Append(OpsOf(es), e.op)
<1> DEFINE n == Len(es)
           r == Append(es, e)
           u == OpsOf(r)
           v == Append(OpsOf(es), e.op)
<1>1. /\ r \in Seq(Entries) /\ n \in Nat /\ Len(r) = n + 1 /\ DOMAIN es = 1..n /\ DOMAIN r = 1..(n + 1)
      /\ r[n + 1] = e /\ \A i \in 1..n : r[i] = es[i]
  BY AppendOf
<1>2. \A x \in Entries : x.op \in Ops
  BY DEF Entries
<1>3. (\A i \in 1..n : es[i] \in Entries) /\ (\A i \in 1..(n + 1) : r[i] \in Entries)
  BY <1>1
<1>4. OpsOf(es) \in Seq(Ops) /\ Len(OpsOf(es)) = n /\ \A i \in 1..n : OpsOf(es)[i] = es[i].op
  BY <1>1, <1>2, <1>3 DEF OpsOf
<1>5. u \in Seq(Ops) /\ Len(u) = n + 1 /\ \A i \in 1..(n + 1) : u[i] = r[i].op
  BY <1>1, <1>2, <1>3 DEF OpsOf
<1> HIDE DEF u, r
<1>6. v \in Seq(Ops) /\ Len(v) = n + 1 /\ v[n + 1] = e.op /\ \A i \in 1..n : v[i] = es[i].op
  <2>1. e.op \in Ops
    BY <1>2
  <2> QED
    BY <1>4, <2>1, AppendOf
<1> HIDE DEF v, n
<1>7. \A i \in 1..(n + 1) : u[i] = v[i]
  BY <1>1, <1>5, <1>6
<1>8. u = v
  BY <1>5, <1>6, <1>7, SeqEqual
<1> QED
  BY <1>4, <1>8 DEF u, v, r

LEMMA DidsAppend ==
  ASSUME NEW T \in Seq(Replies), NEW t \in Replies
  PROVE  Dids(T) \in Seq(Ops) /\ Dids(Append(T, t)) = Append(Dids(T), DidOf(t))
<1> DEFINE n == Len(T)
           r == Append(T, t)
           u == Dids(r)
           v == Append(Dids(T), DidOf(t))
<1>1. /\ r \in Seq(Replies) /\ n \in Nat /\ Len(r) = n + 1 /\ DOMAIN T = 1..n /\ DOMAIN r = 1..(n + 1)
      /\ r[n + 1] = t /\ \A i \in 1..n : r[i] = T[i]
  BY AppendOf
<1>2. \A x \in Replies : DidOf(x) \in Ops
  BY DidType
<1>3. (\A i \in 1..n : T[i] \in Replies) /\ (\A i \in 1..(n + 1) : r[i] \in Replies)
  BY <1>1
<1>4. Dids(T) \in Seq(Ops) /\ Len(Dids(T)) = n /\ \A i \in 1..n : Dids(T)[i] = DidOf(T[i])
  BY <1>1, <1>2, <1>3 DEF Dids
<1>5. u \in Seq(Ops) /\ Len(u) = n + 1 /\ \A i \in 1..(n + 1) : u[i] = DidOf(r[i])
  BY <1>1, <1>2, <1>3 DEF Dids
<1> HIDE DEF u, r
<1>6. v \in Seq(Ops) /\ Len(v) = n + 1 /\ v[n + 1] = DidOf(t) /\ \A i \in 1..n : v[i] = DidOf(T[i])
  BY <1>2, <1>4, AppendOf
<1> HIDE DEF v, n
<1>7. \A i \in 1..(n + 1) : u[i] = v[i]
  BY <1>1, <1>5, <1>6
<1>8. u = v
  BY <1>5, <1>6, <1>7, SeqEqual
<1> QED
  BY <1>4, <1>8 DEF u, v, r

LEMMA DidsTail ==
  ASSUME NEW T \in Seq(Replies), T # <<>>
  PROVE  /\ Dids(T) \in Seq(Ops) /\ Dids(T) # <<>> /\ Head(Dids(T)) = DidOf(Head(T))
         /\ Dids(Tail(T)) = Tail(Dids(T))
<1> DEFINE n == Len(T)
           r == Tail(T)
           u == Dids(r)
           o == Dids(T)
           v == Tail(o)
<1>1. /\ r \in Seq(Replies) /\ n \in Nat /\ n >= 1 /\ DOMAIN T = 1..n /\ DOMAIN r = 1..(n - 1)
      /\ Head(T) = T[1] /\ \A i \in 1..(n - 1) : r[i] = T[i + 1]
  BY TailOf
<1>2. \A x \in Replies : DidOf(x) \in Ops
  BY DidType
<1>3. (\A i \in 1..n : T[i] \in Replies) /\ (\A i \in 1..(n - 1) : r[i] \in Replies)
  BY <1>1
<1>4. o \in Seq(Ops) /\ Len(o) = n /\ \A i \in 1..n : o[i] = DidOf(T[i])
  BY <1>1, <1>2, <1>3 DEF Dids
<1>5. u \in Seq(Ops) /\ Len(u) = n - 1 /\ \A i \in 1..(n - 1) : u[i] = DidOf(r[i])
  <2>1. n - 1 \in Nat
    BY <1>1
  <2> QED
    BY <1>1, <1>2, <1>3, <2>1 DEF Dids
<1>6. o # <<>>
  BY <1>1, <1>4
<1> HIDE DEF u, r, o, n
<1>7. /\ v \in Seq(Ops) /\ Len(v) = n - 1 /\ Head(o) = o[1]
      /\ \A i \in 1..(n - 1) : v[i] = o[i + 1]
  BY <1>4, <1>6, TailOf
<1> HIDE DEF v
<1>8. \A i \in 1..(n - 1) : u[i] = v[i]
  <2> TAKE i \in 1..(n - 1)
  <2>1. i + 1 \in 1..n
    BY <1>1
  <2> QED
    BY <1>1, <1>4, <1>5, <1>7, <2>1
<1>9. u = v
  BY <1>5, <1>7, <1>8, SeqEqual
<1>10. Head(o) = DidOf(Head(T))
  BY <1>1, <1>4, <1>7
<1> QED
  BY <1>4, <1>6, <1>9, <1>10 DEF u, v, r, o

(* A journal erases no mark twice. *)
Sound(j) == \E z : Leads(OpsOf(j.entries), {}, z)

(* What is told picks up where the journal, when c, has got to, and ends    *)
(* where the worker's document is.                                          *)
ErasuresOf(T, w, c, es) ==
  \E a, z : /\ Leads(Dids(T), a, z) /\ z \cap w.marks = {} /\ z \subseteq NamedMarks(w.named)
            /\ c => \E b \in SUBSET a : Leads(OpsOf(es), {}, b)

Erasures ==
  /\ Sound(own) /\ Sound(offer) /\ \A j \in left : Sound(j)
  /\ open # NoFile =>
       \A T, w, c, es : T = told /\ w = worker /\ c = Covered /\ es = own.entries
                          => ErasuresOf(T, w, c, es)

LEMMA SoundBlank == \A j : j.entries = <<>> => Sound(j)
<1>1. OpsOf(<<>>) = <<>>
  BY DEF OpsOf
<1>2. Leads(<<>>, {}, {})
  BY LeadsNothing
<1> QED
  BY <1>1, <1>2 DEF Sound

LEMMA ErasuresStart ==
  ASSUME NEW w, NEW c, NEW es, c => es = <<>>
  PROVE  ErasuresOf(<<>>, w, c, es)
<1>1. Dids(<<>>) = <<>> /\ OpsOf(<<>>) = <<>>
  BY DEF Dids, OpsOf
<1>2. Leads(<<>>, {}, {})
  BY LeadsNothing
<1>3. {} \cap w.marks = {} /\ {} \subseteq NamedMarks(w.named)
  OBVIOUS
<1>4. c => \E b \in SUBSET {} : Leads(OpsOf(es), {}, b)
  BY <1>1, <1>2
<1> QED
  BY <1>1, <1>2, <1>3, <1>4 DEF ErasuresOf

(* The worker does one more. *)
LEMMA ErasuresDone ==
  ASSUME NEW T \in Seq(Replies), NEW t \in Replies, t.k = "applied", NEW w \in Workers, NEW c, NEW es,
         w.marks \subseteq NamedMarks(w.named), Takes(w.marks, t.did), ErasuresOf(T, w, c, es)
  PROVE  ErasuresOf(Append(T, t), Done(w, t.did), c, es)
<1> DEFINE op == t.did
           v == Done(w, op)
<1>1. PICK a, z : /\ Leads(Dids(T), a, z) /\ z \cap w.marks = {} /\ z \subseteq NamedMarks(w.named)
                  /\ c => \E b \in SUBSET a : Leads(OpsOf(es), {}, b)
  BY DEF ErasuresOf
<1>2. DidOf(t) = op /\ op \in Ops
  BY DidType DEF DidOf
<1>3. Dids(T) \in Seq(Ops) /\ Dids(Append(T, t)) = Append(Dids(T), op)
  BY <1>2, DidsAppend
<1>4. /\ w.named \in Nat /\ w.marks \in SUBSET Marks
      /\ v.marks = MarksAfter(w.marks, w.named + 1, op)
      /\ v.named = IF op.k = "create" THEN w.named + 1 ELSE w.named
  BY <1>2, DoneType DEF Workers
<1> HIDE DEF v, op
<1>5. op.k = "delete" => op.id \in w.marks
  BY DEF Takes, op
<1>6. op.k = "delete" => op.id \notin z
  BY <1>1, <1>5
<1>7. Leads(Append(Dids(T), op), a, Mend(z, op))
  BY <1>1, <1>2, <1>3, <1>6, LeadsPush
<1>8. \A i \in NamedMarks(w.named) : i \in Marks /\ i[1] \in Nat /\ i[1] <= w.named
  BY DEF NamedMarks, Marks
<1>9. v.marks \cap Mend(z, op) = {}
  <2>1. CASE op.k = "create"
    <3>1. <<w.named + 1, op.val>> \notin z
      BY <1>1, <1>4, <1>8
    <3> QED
      BY <1>1, <1>4, <2>1, <3>1 DEF MarksAfter, Mend
  <2>2. CASE op.k = "delete"
    BY <1>1, <1>4, <2>2 DEF MarksAfter, Mend
  <2>3. CASE op.k = "restore"
    BY <1>1, <1>4, <2>3 DEF MarksAfter, Mend
  <2>4. CASE op.k \notin {"create", "delete", "restore"}
    BY <1>1, <1>4, <2>4 DEF MarksAfter, Mend
  <2> QED
    BY <2>1, <2>2, <2>3, <2>4
<1>10. Mend(z, op) \subseteq NamedMarks(v.named)
  <2>1. Mend(z, op) \subseteq NamedMarks(w.named)
    BY <1>1, <1>5 DEF Mend
  <2>2. NamedMarks(w.named) \subseteq NamedMarks(v.named)
    BY <1>4, <1>8 DEF NamedMarks
  <2> QED
    BY <2>1, <2>2
<1> QED
  BY <1>1, <1>3, <1>7, <1>9, <1>10 DEF ErasuresOf, v, op

(* The worker says something else. *)
LEMMA ErasuresSaid ==
  ASSUME NEW T \in Seq(Replies), NEW t \in Replies, t.k # "applied", NEW w, NEW v, NEW c, NEW es,
         v.marks = w.marks, v.named = w.named, ErasuresOf(T, w, c, es)
  PROVE  ErasuresOf(Append(T, t), v, c, es)
<1>1. PICK a, z : /\ Leads(Dids(T), a, z) /\ z \cap w.marks = {} /\ z \subseteq NamedMarks(w.named)
                  /\ c => \E b \in SUBSET a : Leads(OpsOf(es), {}, b)
  BY DEF ErasuresOf
<1>2. DidOf(t) \in Ops /\ DidOf(t).k = "set"
  BY DidType
<1>3. Dids(T) \in Seq(Ops) /\ Dids(Append(T, t)) = Append(Dids(T), DidOf(t))
  BY DidsAppend
<1>4. Leads(Append(Dids(T), DidOf(t)), a, Mend(z, DidOf(t)))
  BY <1>1, <1>2, <1>3, LeadsPush
<1>5. z \in SUBSET Marks
  BY <1>1, <1>3, LeadsTypes
<1>6. Mend(z, DidOf(t)) = z
  BY <1>2, <1>5, MendFacts
<1> QED
  BY <1>1, <1>3, <1>4, <1>6 DEF ErasuresOf

(* What is written in the journal es of an answer that op was done: fs,     *)
(* where the journal covered the session, c, and now does, d.               *)
Hears(op, c, es, d, fs) ==
  \/ ~d
  \/ fs = <<>>
  \/ c /\ op.k = "set" /\ fs = es
  \/ c /\ \E e \in Entries : fs = Append(es, e) /\ (e.op = op \/ (e.op.k = "set" /\ op.k = "set"))

(* The reader is told, and the journal, while it covers the session, has    *)
(* it, or an entry that erases nothing, or begins again.                    *)
LEMMA ErasuresHeard ==
  ASSUME NEW T \in Seq(Replies), T # <<>>, NEW w, NEW c, NEW es \in Seq(Entries), NEW c2, NEW fs,
         ErasuresOf(T, w, c, es),
         Hears(DidOf(Head(T)), c, es, c2, fs)
  PROVE  /\ ErasuresOf(Tail(T), w, c2, fs)
         /\ c2 => \E z : Leads(OpsOf(fs), {}, z)
<1> DEFINE op == DidOf(Head(T))
<1>1. PICK a, z : /\ Leads(Dids(T), a, z) /\ z \cap w.marks = {} /\ z \subseteq NamedMarks(w.named)
                  /\ c => \E b \in SUBSET a : Leads(OpsOf(es), {}, b)
  BY DEF ErasuresOf
<1>2. op \in Ops
  BY TailOf, DidType
<1>3. /\ Dids(T) \in Seq(Ops) /\ Dids(T) # <<>> /\ Head(Dids(T)) = op
      /\ Dids(Tail(T)) = Tail(Dids(T))
  BY DidsTail
<1>0. Hears(op, c, es, c2, fs)
  OBVIOUS
<1> HIDE DEF op
<1>4. (op.k = "delete" => op.id \notin a) /\ Leads(Dids(Tail(T)), Mend(a, op), z)
  BY <1>1, <1>3, LeadsPop
<1>5. a \in SUBSET Marks
  BY <1>1, <1>3, LeadsTypes
<1>6. c2 => \E b \in SUBSET Mend(a, op) : Leads(OpsOf(fs), {}, b)
  <2> SUFFICES ASSUME c2 PROVE \E b \in SUBSET Mend(a, op) : Leads(OpsOf(fs), {}, b)
    OBVIOUS
  <2>1. CASE fs = <<>>
    <3>1. OpsOf(fs) = <<>>
      BY <2>1 DEF OpsOf
    <3>2. Leads(<<>>, {}, {})
      BY LeadsNothing
    <3> QED
      BY <3>1, <3>2
  <2>2. CASE c
    <3>1. PICK b \in SUBSET a : Leads(OpsOf(es), {}, b)
      BY <1>1, <2>2
    <3>2. Mend(b, op) \subseteq Mend(a, op) /\ (op.k = "set" => Mend(a, op) = a)
      BY <1>2, <1>5, MendFacts
    <3>3. CASE op.k = "set" /\ fs = es
      BY <3>1, <3>2, <3>3
    <3>4. CASE \E e \in Entries : /\ fs = Append(es, e)
                                  /\ e.op = op \/ (e.op.k = "set" /\ op.k = "set")
      <4>1. PICK e \in Entries : /\ fs = Append(es, e)
                                 /\ e.op = op \/ (e.op.k = "set" /\ op.k = "set")
        BY <3>4
      <4>2. OpsOf(es) \in Seq(Ops) /\ OpsOf(fs) = Append(OpsOf(es), e.op) /\ e.op \in Ops
        BY <4>1, OpsAppend DEF Entries
      <4>3. e.op.k = "delete" => e.op.id \notin b
        BY <1>4, <3>1, <4>1
      <4>4. Leads(OpsOf(fs), {}, Mend(b, e.op))
        BY <3>1, <4>2, <4>3, LeadsPush
      <4>5. Mend(b, e.op) \subseteq Mend(a, op)
        <5>1. CASE e.op = op
          BY <3>2, <5>1
        <5>2. CASE e.op.k = "set" /\ op.k = "set"
          <6>1. b \in SUBSET Marks /\ e.op.k \notin {"delete", "restore"}
            BY <1>5, <3>1, <5>2
          <6>2. Mend(b, e.op) = b
            BY <4>2, <6>1, MendFacts
          <6> QED
            BY <3>1, <3>2, <5>2, <6>2
        <5> QED
          BY <4>1, <5>1, <5>2
      <4> QED
        BY <4>4, <4>5
    <3> QED
      BY <2>1, <3>3, <3>4, <1>0 DEF Hears
  <2> QED
    BY <1>0, <2>1, <2>2 DEF Hears
<1>7. ErasuresOf(Tail(T), w, c2, fs)
  BY <1>1, <1>4, <1>6 DEF ErasuresOf
<1> QED
  BY <1>6, <1>7

LEMMA ErasuresSame ==
  ASSUME Erasures, NEW T, T = told', UNCHANGED told, worker'.marks = worker.marks,
         worker'.named = worker.named, UNCHANGED <<open, own, journal>>,
         left' \subseteq left, offer' \in {offer, NoJournal} \cup left
  PROVE  Erasures'
<1>1. Covered' = Covered
  BY DEF Covered
<1>2. Sound(NoJournal)
  BY SoundBlank DEF NoJournal
<1>3. \A v, c, es : ErasuresOf(T, worker, c, es) /\ v = worker' => ErasuresOf(T, v, c, es)
  BY DEF ErasuresOf
<1> QED
  BY <1>1, <1>2, <1>3 DEF Erasures

LEMMA ErasuresClosed ==
  ASSUME Erasures, open' = NoFile, Sound(own)', left' \subseteq left \cup {own},
         offer' \in {offer, NoJournal}
  PROVE  Erasures'
<1>1. Sound(NoJournal)
  BY SoundBlank DEF NoJournal
<1> QED
  BY <1>1 DEF Erasures

(* Nothing of a step but what is told. *)
LEMMA ErasuresMoved ==
  ASSUME Erasures, NEW T, T = told', NEW w, w = worker', NEW c, c = Covered', NEW es, es = own'.entries,
         left' \subseteq left, offer' \in {offer, NoJournal} \cup left, Sound(own)',
         open' # NoFile => ErasuresOf(T, w, c, es)
  PROVE  Erasures'
<1>1. Sound(NoJournal)
  BY SoundBlank DEF NoJournal
<1> QED
  BY <1>1 DEF Erasures

LEMMA ErasuresServe ==
  ASSUME TypeInv, Named, Closed, Erasures, Serve
  PROVE  Erasures'
<1>1. /\ open' = open /\ UNCHANGED <<own, journal, left, offer>> /\ open # NoFile
  BY ServeLeaves DEF Closed
<1>2. Covered' = Covered /\ Sound(own)'
  BY <1>1 DEF Covered, Erasures, Sound
<1>3. ErasuresOf(told, worker, Covered, own.entries) /\ told \in Seq(Replies)
  BY <1>1, LinkParts DEF Erasures
<1>4. CASE ServeEdit
  <2> DEFINE op == Head(asks).op
             t == [k |-> "applied", rev |-> worker.rev + 1, did |-> op,
                   undo |-> UndoOf(worker.field, worker.named + 1, op)]
  <2>1. Takes(worker.marks, op) /\ worker' = Done(worker, op) /\ told' = Append(told, t)
    BY <1>4 DEF ServeEdit, Answers
  <2>2. op \in Ops /\ worker \in Workers /\ worker.rev \in Nat
    BY <1>4, HeadAsked DEF ServeEdit, Asked, TypeInv, DocTypes, Workers
  <2>3. worker.marks \subseteq NamedMarks(worker.named)
    BY DEF Named, NamedUpTo, NamedDocs
  <2>4. t \in Replies
    <3>1. UndoOf(worker.field, worker.named + 1, op) \in Ops
      <4>1. /\ worker.field \in Numbers /\ worker.named + 1 \in Nat /\ worker.marks \in SUBSET Marks
        BY <2>2 DEF Workers
      <4> HIDE DEF op
      <4> QED
        BY <2>2, <4>1, EngineTypes
    <3> HIDE DEF op
    <3> QED
      BY <2>2, <3>1 DEF Replies, Applieds
  <2>5. t.k = "applied" /\ t.did = op
    OBVIOUS
  <2> HIDE DEF t, op
  <2>6. ErasuresOf(Append(told, t), Done(worker, op), Covered, own.entries)
    BY <1>3, <2>1, <2>2, <2>3, <2>4, <2>5, ErasuresDone
  <2> QED
    BY <1>1, <1>2, <2>1, <2>6, ErasuresMoved
<1>5. CASE ~ServeEdit
  <2>1. PICK t \in Replies : t.k # "applied" /\ told' = Append(told, t)
    BY <1>5, OtherServed
  <2>2. ErasuresOf(Append(told, t), worker', Covered, own.entries)
    BY <1>3, <1>5, <2>1, OtherServed, ErasuresSaid
  <2> QED
    BY <1>1, <1>2, <2>1, <2>2, ErasuresMoved
<1> QED
  BY <1>4, <1>5

LEMMA PumpHears ==
  ASSUME TypeInv, Linked, Recorded, TakeApplied \/ TakeRefused \/ TakeForm \/ TakeSaved \/ TakeFailed
  PROVE  /\ Hears(DidOf(Head(told)), Covered, own.entries, Covered', own'.entries)
         /\ Covered' \/ own'.entries = <<>> \/ own' = own
<1> DEFINE t == Head(told)
<1>0. t.k # "applied" => DidOf(t).k = "set"
  BY OpTypes, NumberFacts DEF DidOf, SetField
<1>1. ASSUME NEW e \in Entries, Journalled(e), e.op = DidOf(t) \/ (e.op.k = "set" /\ DidOf(t).k = "set")
      PROVE  /\ Hears(DidOf(t), Covered, own.entries, Covered', own'.entries)
             /\ Covered' \/ own'.entries = <<>> \/ own' = own
  <2>1. CASE own' = own /\ ~Covered'
    BY <2>1 DEF Hears
  <2>2. CASE Covered /\ Covered' /\ own' = [own EXCEPT !.entries = Append(@, e)]
    <3>1. own'.entries = Append(own.entries, e)
      BY <2>2, KeptGrows
    <3> QED
      BY <1>1, <2>2, <3>1 DEF Hears
  <2> QED
    BY <1>1, <2>1, <2>2, JournalWrites
<1>2. ASSUME t.k # "applied", UNCHANGED <<journal, own>>
      PROVE  /\ Hears(DidOf(t), Covered, own.entries, Covered', own'.entries)
             /\ Covered' \/ own'.entries = <<>> \/ own' = own
  BY <1>0, <1>2 DEF Hears, Covered
<1>3. CASE TakeApplied
  <2>1. TakeAnswer("applied") /\ Journalled(EntryFor(t))
    BY <1>3 DEF TakeApplied
  <2>2. t \in Replies /\ t.k = "applied" /\ pending # <<>> /\ Head(pending).op = OpOf(t)
    BY <2>1, TypeTakeAnswer, AnswerOfEdit
  <2>3. EntryFor(t) \in Entries /\ EntryFor(t).op = DidOf(t)
    <3>1. EntryFor(t) \in Entries
      BY <2>2, EntryType
    <3> QED
      BY <2>2, <3>1 DEF EntryFor, OpOf, DidOf
  <2> QED
    BY <1>1, <2>1, <2>3
<1>4. CASE TakeRefused \/ TakeFailed
  BY <1>2, <1>4 DEF TakeRefused, TakeFailed, TakeAnswer
<1>5. CASE TakeForm
  <2> DEFINE rev == IF t.commits THEN t.rev ELSE reader.rev
             e == [rev |-> rev, via |-> "applied", op |-> SetField(t.val)]
  <2>1. t \in Replies /\ t.k = "form" /\ DidOf(t).k = "set"
    BY <1>0, <1>5, TypeTakeAnswer DEF TakeForm
  <2>2. CASE t.commits /\ t.named
    <3>1. Journalled(e)
      BY <1>5, <2>2 DEF TakeForm
    <3>2. e \in Entries /\ e.op.k = "set"
      <4>1. t.val \in Numbers /\ rev \in Nat
        BY <2>1, <2>2, ReplyTypes, LinkParts
      <4>2. SetField(t.val) \in Ops /\ SetField(t.val).k = "set"
        BY <4>1, OpTypes DEF SetField
      <4> HIDE DEF rev
      <4> QED
        BY <4>1, <4>2 DEF Entries
    <3> HIDE DEF e
    <3> QED
      BY <1>1, <2>1, <3>1, <3>2
  <2>3. CASE ~(t.commits /\ t.named)
    BY <1>2, <1>5, <2>1, <2>3 DEF TakeForm
  <2> QED
    BY <2>2, <2>3
<1>6. CASE TakeSaved
  BY <1>6, Begins DEF Hears
<1> QED
  BY <1>3, <1>4, <1>5, <1>6

LEMMA ErasuresPump ==
  ASSUME TypeInv, Linked, Recorded, Erasures,
         TakeApplied \/ TakeRefused \/ TakeForm \/ TakeSaved \/ TakeFailed
  PROVE  Erasures'
<1>1. /\ open # NoFile /\ open' = open /\ told # <<>> /\ told' = Tail(told)
      /\ UNCHANGED <<worker, left, offer>>
  BY PumpMoves
<1>2. /\ ErasuresOf(told, worker, Covered, own.entries) /\ told \in Seq(Replies)
      /\ own.entries \in Seq(Entries)
  BY <1>1, LinkParts DEF Erasures, TypeInv, KeptTypes, Journals
<1>3. /\ Hears(DidOf(Head(told)), Covered, own.entries, Covered', own'.entries)
      /\ Covered' \/ own'.entries = <<>> \/ own' = own
  BY PumpHears
<1>4. \A c2, fs : c2 = Covered' /\ fs = own'.entries =>
        /\ ErasuresOf(Tail(told), worker, c2, fs)
        /\ c2 => \E z : Leads(OpsOf(fs), {}, z)
  <2> SUFFICES ASSUME NEW c2, NEW fs, c2 = Covered', fs = own'.entries
               PROVE  /\ ErasuresOf(Tail(told), worker, c2, fs)
                      /\ c2 => \E z : Leads(OpsOf(fs), {}, z)
    OBVIOUS
  <2>1. Hears(DidOf(Head(told)), Covered, own.entries, c2, fs)
    BY <1>3
  <2>2. told \in Seq(Replies) /\ told # <<>> /\ own.entries \in Seq(Entries)
    BY <1>1, <1>2
  <2>3. ErasuresOf(told, worker, Covered, own.entries)
    BY <1>2
  <2> QED
    BY <2>1, <2>2, <2>3, ErasuresHeard
<1>5. Sound(own)'
  <2>1. CASE Covered'
    BY <1>4, <2>1 DEF Sound
  <2>2. CASE own'.entries = <<>>
    BY <2>2, SoundBlank DEF Sound
  <2>3. CASE own' = own
    BY <2>3 DEF Erasures, Sound
  <2> QED
    BY <1>3, <2>1, <2>2, <2>3
<1> QED
  BY <1>1, <1>4, <1>5, ErasuresMoved

LEMMA ErasuresUser ==
  ASSUME Erasures, User
  PROVE  Erasures'
<1>1. CASE Draw \/ Erase \/ Undo \/ Redo
  <2>1. UNCHANGED <<told, worker, open, own, journal, left, offer>>
    BY <1>1 DEF Draw, Erase, Undo, Redo, TakeBack, PostsTransaction, docVars, journalVars
  <2> QED
    BY <2>1, ErasuresSame
<1>2. CASE (\E may \in BOOLEAN : FormEvent(may)) \/ \E f \in Files : SaveAs(f)
  <2>1. UNCHANGED <<told, worker, open, own, journal, left, offer>>
    BY <1>2 DEF FormEvent, SaveAs, docVars, journalVars
  <2> QED
    BY <2>1, ErasuresSame
<1>3. CASE RestoreEdits \/ DiscardEdits
  <2>1. UNCHANGED <<told, worker, open, own, journal>> /\ left' \subseteq left /\ offer' = NoJournal
    BY <1>3 DEF RestoreEdits, DiscardEdits, docVars, linkVars
  <2> QED
    BY <2>1, ErasuresSame
<1>4. CASE PutAway
  <2>1. open' = NoFile /\ own' = NoJournal /\ offer' = NoJournal /\ left' = left
    BY <1>4 DEF PutAway
  <2>2. Sound(own)'
    BY <2>1, SoundBlank DEF Sound, NoJournal
  <2> QED
    BY <2>1, <2>2, ErasuresClosed
<1>5. CASE \E f \in Files : Open(f)
  <2>1. PICK f \in Files : Open(f)
    BY <1>5
  <2>2. told' = <<>> /\ left' = left /\ offer' \in {offer, NoJournal} \cup left
    BY <2>1 DEF Open
  <2>3. own'.entries = <<>> \/ (~Covered' /\ own' \in {own, NoJournal})
    <3>1. CASE own' = [of |-> f, v |-> disk[f].v, entries |-> <<>>]
      BY <3>1
    <3>2. CASE journal' = Off /\ own' \in {own, NoJournal}
      BY <3>2 DEF Covered, Off
    <3> QED
      BY <2>1, <3>1, <3>2 DEF Open
  <2>4. NoJournal.entries = <<>>
    BY DEF NoJournal
  <2>5. Sound(own)'
    <3>1. CASE own'.entries = <<>>
      BY <3>1, SoundBlank DEF Sound
    <3>2. CASE own' = own
      BY <3>2 DEF Erasures, Sound
    <3> QED
      BY <2>3, <2>4, <3>1, <3>2
  <2>6. Covered' => own'.entries = <<>>
    BY <2>3
  <2>7. \A w, c, es : (c => es = <<>>) => ErasuresOf(<<>>, w, c, es)
    BY ErasuresStart
  <2> QED
    BY <2>2, <2>5, <2>6, <2>7, ErasuresMoved
<1> QED
  BY <1>1, <1>2, <1>3, <1>4, <1>5 DEF User

LEMMA ErasuresNext ==
  ASSUME TypeInv, Linked, Closed, Recorded, Named, Erasures, [Next]_vars
  PROVE  Erasures'
<1>1. CASE WorkerDies \/ UNCHANGED vars
  <2>1. worker'.marks = worker.marks /\ worker'.named = worker.named
        /\ UNCHANGED <<told, open, own, journal, left, offer>>
    BY <1>1 DEF WorkerDies, vars, docVars, linkVars, journalVars, TypeInv, DocTypes, Workers
  <2> QED
    BY <2>1, ErasuresSame
<1>2. CASE Crash
  <2>1. open' = NoFile /\ own' = NoJournal /\ offer' = NoJournal /\ left' \subseteq left \cup {own}
    BY <1>2 DEF Crash
  <2>2. Sound(own)'
    BY <2>1, SoundBlank DEF Sound, NoJournal
  <2> QED
    BY <2>1, <2>2, ErasuresClosed
<1>3. CASE TakeGone
  <2>1. open' = NoFile /\ UNCHANGED <<own, left, offer>>
    BY <1>3 DEF TakeGone, journalVars
  <2>2. Sound(own)'
    BY <2>1 DEF Sound, Erasures
  <2> QED
    BY <2>1, <2>2, ErasuresClosed
<1> QED
  BY <1>1, <1>2, <1>3, ErasuresUser, ErasuresServe, ErasuresPump DEF Next, Pump

LEMMA ErasuresInit == Init => Deferral /\ GoneTold /\ Erasures
<1> SUFFICES ASSUME Init PROVE Deferral /\ GoneTold /\ Erasures
  OBVIOUS
<1>1. own.entries = <<>> /\ offer.entries = <<>> /\ left = {} /\ open = NoFile /\ deferred = <<>>
  BY DEF Init, NoJournal
<1> QED
  BY <1>1, SoundBlank DEF Deferral, GoneTold, Erasures

(* What a journal brings about, step by step. *)
Bringing(f, m, w, es) ==
  f = [i \in 0..m |-> IF i = 0 THEN w ELSE Done(f[i - 1], es[i].op)]

LEMMA BroughtSteps ==
  ASSUME NEW w, NEW E, NEW es \in Seq(E)
  PROVE  \E f : Bringing(f, Len(es), w, es) /\ Brought(w, es) = f[Len(es)]
<1> DEFINE n == Len(es)
           Good == {m \in 0..n : \E f : Bringing(f, m, w, es)}
<1>0. n \in Nat
  OBVIOUS
<1>1. 0 \in Good
  <2> DEFINE g == [i \in 0..0 |-> w]
  <2>1. Bringing(g, 0, w, es)
    BY DEF Bringing
  <2>2. \E f : Bringing(f, 0, w, es)
    BY <2>1
  <2> QED
    BY <1>0, <2>2
<1>2. ASSUME NEW k \in 0..n, k \in Good, k < n PROVE k + 1 \in Good
  <2>1. PICK f : Bringing(f, k, w, es)
    BY <1>2
  <2> DEFINE g == [i \in 0..(k + 1) |-> IF i = 0 THEN w ELSE Done(f[i - 1], es[i].op)]
  <2>2. \A i \in 0..k : g[i] = f[i]
    BY <2>1 DEF Bringing
  <2>3. \A i \in 0..(k + 1) : i # 0 => g[i - 1] = f[i - 1]
    <3>1. \A i \in 0..(k + 1) : i # 0 => i - 1 \in 0..k
      OBVIOUS
    <3> QED
      BY <2>2, <3>1
  <2>4. Bringing(g, k + 1, w, es)
    BY <2>3 DEF Bringing
  <2>5. \E h : Bringing(h, k + 1, w, es)
    BY <2>4
  <2>6. k + 1 \in 0..n
    BY <1>0, <1>2
  <2> QED
    BY <2>5, <2>6
<1>3. 0..n \subseteq Good
  BY <1>0, <1>1, <1>2, UpToNumber
<1>4. \E f : Bringing(f, n, w, es)
  BY <1>0, <1>3
<1> DEFINE F == CHOOSE f : f = [i \in 0..n |-> IF i = 0 THEN w ELSE Done(f[i - 1], es[i].op)]
<1>5. Bringing(F, n, w, es)
  BY <1>4 DEF Bringing
<1>6. Brought(w, es) = F[n]
  BY DEF Brought
<1> HIDE DEF F, n
<1> QED
  BY <1>5, <1>6 DEF n

(***************************************************************************)
(* A replay: the worker goes through a chain of documents, an edit at a    *)
(* time, none of which it can refuse.                                      *)
(***************************************************************************)
Chain(ops, c) ==
  /\ ops \in Seq(Ops) /\ c \in [0..Len(ops) -> Workers] /\ c[0].rev = 0
  /\ \A i \in 1..Len(ops) : /\ c[i] = Done(c[i - 1], ops[i]) /\ c[i].rev = i
                            /\ Takes(c[i - 1].marks, ops[i])

(* The requests of the replay that are left, behind copies already asked.   *)
Awaits(a, ops, r) ==
  /\ Len(a) >= Len(ops) - r
  /\ \A j \in DOMAIN a :
       LET i == Len(ops) - Len(a) + j IN
       IF i <= r THEN a[j].k = "save"
       ELSE a[j].k \in {"apply", "undo"} /\ a[j].op = ops[i] /\ a[j].exp = i - 1

Replay(w, a, p) ==
  \E ops, c : /\ Chain(ops, c) /\ w.rev \in 0..Len(ops) /\ w = c[w.rev] /\ Awaits(a, ops, w.rev)
              /\ p.marks = c[Len(ops)].marks /\ p.field = c[Len(ops)].field

Replaying ==
  \A w, a, p : /\ promise.made /\ ~promise.names /\ open # NoFile /\ serving
               /\ w = worker /\ a = asks /\ p = promise
               => deferred = <<>> /\ Replay(w, a, p)

LEMMA BroughtChain ==
  ASSUME NEW w \in Workers, w.rev = 0, NEW es \in Seq(Entries), NEW z, Leads(OpsOf(es), {}, z),
         \A i \in DOMAIN es : es[i].op.k \in {"delete", "restore"} => es[i].op.id \in w.marks
  PROVE  \E c : Chain(OpsOf(es), c) /\ c[0] = w /\ Brought(w, es) = c[Len(es)]
<1> DEFINE n == Len(es)
           ops == OpsOf(es)
<1>1. n \in Nat /\ DOMAIN es = 1..n /\ \A i \in 1..n : es[i] \in Entries
  OBVIOUS
<1>2. \A x \in Entries : x.op \in Ops
  BY DEF Entries
<1>3. ops \in Seq(Ops) /\ Len(ops) = n /\ \A i \in 1..n : ops[i] = es[i].op /\ ops[i] \in Ops
  BY <1>1, <1>2 DEF OpsOf
<1>4. PICK c : Bringing(c, n, w, es) /\ Brought(w, es) = c[n]
  BY BroughtSteps
<1>5. PICK d : Course(ops, d, {}, z)
  BY DEF Leads
<1> HIDE DEF ops, n
<1>6. c[0] = w /\ \A i \in 1..n : c[i] = Done(c[i - 1], ops[i])
  <2>1. \A i \in 1..n : i # 0 /\ i \in 0..n
    BY <1>1
  <2>2. 0 \in 0..n
    BY <1>1
  <2> QED
    BY <1>3, <1>4, <2>1, <2>2 DEF Bringing
<1>7. /\ d[0] = {}
      /\ \A i \in 1..n : /\ ops[i].k = "delete" => ops[i].id \notin d[i - 1]
                         /\ d[i] = Mend(d[i - 1], ops[i])
  BY <1>3, <1>5 DEF Course
<1>8. \A i \in 1..n : ops[i].k \in {"delete", "restore"} => ops[i].id \in w.marks
  BY <1>1, <1>3
<1> DEFINE Good == {i \in 0..n : /\ c[i] \in Workers /\ c[i].rev = i
                                 /\ w.marks \ d[i] \subseteq c[i].marks}
<1>9. 0 \in Good
  BY <1>1, <1>6
<1>10. ASSUME NEW k \in 0..n, k \in Good, k < n PROVE k + 1 \in Good
  <2>1. k + 1 \in 1..n /\ k + 1 \in 0..n /\ (k + 1) - 1 = k
    BY <1>1, <1>10
  <2>2. /\ c[k + 1] = Done(c[k], ops[k + 1]) /\ ops[k + 1] \in Ops
        /\ d[k + 1] = Mend(d[k], ops[k + 1])
    BY <1>3, <1>6, <1>7, <2>1
  <2>3. c[k] \in Workers /\ c[k].rev = k /\ w.marks \ d[k] \subseteq c[k].marks
    BY <1>10
  <2>4. /\ c[k + 1] \in Workers /\ c[k + 1].rev = k + 1
        /\ c[k + 1].marks = MarksAfter(c[k].marks, c[k].named + 1, ops[k + 1])
    BY <2>2, <2>3, DoneType
  <2>5. w.marks \ d[k + 1] \subseteq c[k + 1].marks
    BY <2>2, <2>3, <2>4 DEF MarksAfter, Mend
  <2> QED
    BY <2>1, <2>4, <2>5
<1>11. 0..n \subseteq Good
  BY <1>1, <1>9, <1>10, UpToNumber
<1>12. \A i \in 0..n : c[i] \in Workers /\ c[i].rev = i /\ w.marks \ d[i] \subseteq c[i].marks
  BY <1>11
<1>13. c \in [0..n -> Workers]
  <2>1. DOMAIN c = 0..n
    BY <1>4 DEF Bringing
  <2>2. c = [i \in 0..n |-> c[i]]
    BY <1>4 DEF Bringing
  <2> QED
    BY <1>12, <2>2
<1>14. \A i \in 1..n : /\ c[i] = Done(c[i - 1], ops[i]) /\ c[i].rev = i
                       /\ Takes(c[i - 1].marks, ops[i])
  <2> TAKE i \in 1..n
  <2>1. i \in 0..n /\ i - 1 \in 0..n
    BY <1>1
  <2>2. Takes(c[i - 1].marks, ops[i])
    BY <1>7, <1>8, <1>12, <2>1 DEF Takes
  <2> QED
    BY <1>6, <1>12, <2>1, <2>2
<1>15. Chain(ops, c)
  BY <1>3, <1>6, <1>13, <1>14 DEF Chain
<1> QED
  BY <1>4, <1>6, <1>15 DEF ops, n

PostedDesks(a, es, i) ==
  {s \in Desks : /\ Len(s.p) = i /\ s.d = <<>> /\ Len(s.a) = Len(a) + i
                 /\ \A j \in 1..Len(a) : s.a[j] = a[j]
                 /\ \A j \in 1..i : LET x == s.a[Len(a) + j] IN
                      x.k \in {"apply", "undo"} /\ x.op = es[j].op /\ x.exp = j - 1}

LEMMA PostedStep ==
  ASSUME serving, open # NoFile, NEW a \in Seq(Requests), NEW es \in Seq(Entries),
         NEW ev, ~MayCommitOut(ev), NEW k \in Nat, k + 1 \in 1..Len(es), NEW s \in PostedDesks(a, es, k)
  PROVE  Post(s, 0, ev, es[k + 1]) \in PostedDesks(a, es, k + 1)
<1> DEFINE e == es[k + 1]
           kind == IF e.via = "applied" THEN "edit" ELSE "undo"
           verb == IF e.via = "applied" THEN "apply" ELSE "undo"
           y == [kind |-> kind, op |-> e.op, epoch |-> NoEpoch]
           x == [k |-> verb, exp |-> Expected(0, s.p), op |-> e.op]
           v == Post(s, 0, ev, e)
<1>1. e \in Entries
  OBVIOUS
<1>2. e.op \in Ops /\ NoEpoch \in Nat
  BY <1>1, NumberFacts DEF Entries, NoEpoch
<1>3. /\ s \in Desks /\ s.p \in Seq(Pendings) /\ s.a \in Seq(Requests) /\ s.d = <<>>
      /\ Len(s.p) = k /\ Len(s.a) = Len(a) + k
      /\ \A j \in 1..Len(a) : s.a[j] = a[j]
      /\ \A j \in 1..k : s.a[Len(a) + j].k \in {"apply", "undo"} /\ s.a[Len(a) + j].op = es[j].op
                         /\ s.a[Len(a) + j].exp = j - 1
  BY DEF PostedDesks, Desks
<1>4. Expected(0, s.p) = k
  BY <1>3 DEF Expected
<1>5. y \in Pendings
  BY <1>2 DEF Pendings
<1>6. x \in Requests /\ x.k \in {"apply", "undo"} /\ x.op = e.op /\ x.exp = k
  BY <1>2, <1>4 DEF Requests, EditRequests
<1>7. v = [s EXCEPT !.p = Append(@, y), !.a = Append(@, x)]
  BY DEF Post, Commit, SendUndo
<1> HIDE DEF x, y, v, e
<1>8. v.p = Append(s.p, y) /\ v.a = Append(s.a, x) /\ v.d = <<>>
  BY <1>3, <1>7 DEF Desks
<1>9. v \in Desks
  BY <1>2, <1>1, <1>3, NumberFacts, PostType DEF Posts, v
<1>10. Len(a) \in Nat /\ Len(v.p) = k + 1
  BY <1>3, <1>5, <1>8, AppendOf
<1>11. /\ Len(v.a) = Len(s.a) + 1 /\ v.a[Len(s.a) + 1] = x /\ \A j \in 1..Len(s.a) : v.a[j] = s.a[j]
  BY <1>3, <1>6, <1>8, AppendOf
<1>12. Len(v.a) = Len(a) + (k + 1) /\ Len(s.a) + 1 = Len(a) + (k + 1)
  BY <1>3, <1>10, <1>11
<1>13. \A j \in 1..Len(a) : v.a[j] = a[j]
  <2>1. \A j \in 1..Len(a) : j \in 1..Len(s.a)
    BY <1>3, <1>10
  <2> QED
    BY <1>3, <1>11, <2>1
<1>14. ASSUME NEW j \in 1..(k + 1)
       PROVE  v.a[Len(a) + j].k \in {"apply", "undo"} /\ v.a[Len(a) + j].op = es[j].op
              /\ v.a[Len(a) + j].exp = j - 1
  <2>1. CASE j = k + 1
    <3>1. v.a[Len(a) + j] = x /\ j - 1 = k
      BY <1>11, <1>12, <2>1
    <3> QED
      BY <1>6, <2>1, <3>1 DEF e
  <2>2. CASE j # k + 1
    <3>1. j \in 1..k /\ Len(a) + j \in 1..Len(s.a)
      BY <1>3, <1>10, <2>2
    <3> QED
      BY <1>3, <1>11, <3>1
  <2> QED
    BY <2>1, <2>2
<1> QED
  BY <1>8, <1>9, <1>10, <1>12, <1>13, <1>14 DEF PostedDesks, v, e

LEMMA PostedAll ==
  ASSUME serving, open # NoFile, NEW es \in Seq(Entries), NEW ev, ~MayCommitOut(ev),
         NEW s \in Desks, s.p = <<>>, s.d = <<>>
  PROVE  PostAll(s, 0, ev, es) \in PostedDesks(s.a, es, Len(es))
<1> DEFINE n == Len(es)
<1>0. n \in Nat /\ s.a \in Seq(Requests)
  BY DEF Desks
<1>1. PICK f : After(f, n, s, 0, ev, es) /\ PostAll(s, 0, ev, es) = f[n]
  BY PostAllSteps
<1> HIDE DEF n
<1>2. f[0] = s /\ \A i \in 1..n : f[i] = Post(f[i - 1], 0, ev, es[i])
  <2>1. \A i \in 1..n : i # 0 /\ i \in 0..n
    BY <1>0
  <2>2. 0 \in 0..n
    BY <1>0
  <2> QED
    BY <1>1, <2>1, <2>2 DEF After
<1> DEFINE Good == {i \in 0..n : f[i] \in PostedDesks(s.a, es, i)}
<1>3. 0 \in Good
  <2>1. Len(<<>>) = 0 /\ 1..0 = {} /\ Len(s.a) \in Nat
    BY <1>0
  <2>2. Len(s.a) + 0 = Len(s.a)
    BY <2>1
  <2> QED
    BY <1>0, <1>2, <2>1, <2>2 DEF PostedDesks
<1>4. ASSUME NEW k \in 0..n, k \in Good, k < n PROVE k + 1 \in Good
  <2>1. k \in Nat /\ k + 1 \in 1..n /\ k + 1 \in 0..n /\ (k + 1) - 1 = k
    BY <1>0, <1>4
  <2>2. f[k + 1] = Post(f[k], 0, ev, es[k + 1])
    BY <1>2, <2>1
  <2>3. f[k] \in PostedDesks(s.a, es, k)
    BY <1>4
  <2>4. Post(f[k], 0, ev, es[k + 1]) \in PostedDesks(s.a, es, k + 1)
    BY <1>0, <2>1, <2>3, PostedStep DEF n
  <2> QED
    BY <2>1, <2>2, <2>4
<1>5. 0..n \subseteq Good
  BY <1>0, <1>3, <1>4, UpToNumber
<1> QED
  BY <1>0, <1>1, <1>5 DEF n

(* The next request of a replay. *)
LEMMA ReplayNext ==
  ASSUME NEW w \in Workers, NEW a \in Seq(Requests), a # <<>>, NEW p, Replay(w, a, p)
  PROVE  /\ Head(a).k \in {"apply", "undo", "save"}
         /\ Head(a).k = "save" => Replay(w, Tail(a), p)
         /\ Head(a).k \in {"apply", "undo"} =>
              /\ Head(a).exp = w.rev /\ Takes(w.marks, Head(a).op)
              /\ Replay(Done(w, Head(a).op), Tail(a), p)
<1>1. PICK ops, c : /\ Chain(ops, c) /\ w.rev \in 0..Len(ops) /\ w = c[w.rev] /\ Awaits(a, ops, w.rev)
                    /\ p.marks = c[Len(ops)].marks /\ p.field = c[Len(ops)].field
  BY DEF Replay
<1> DEFINE n == Len(ops)
           m == Len(a)
           r == w.rev
           b == Tail(a)
<1>2. /\ ops \in Seq(Ops) /\ n \in Nat /\ c \in [0..n -> Workers]
      /\ \A i \in 1..n : /\ c[i] = Done(c[i - 1], ops[i]) /\ c[i].rev = i
                         /\ Takes(c[i - 1].marks, ops[i])
  BY <1>1 DEF Chain
<1>3. /\ m \in Nat /\ m >= 1 /\ Head(a) = a[1] /\ DOMAIN a = 1..m /\ b \in Seq(Requests)
      /\ Len(b) = m - 1 /\ DOMAIN b = 1..(m - 1) /\ \A i \in 1..(m - 1) : b[i] = a[i + 1]
  BY TailOf
<1>4. /\ m >= n - r
      /\ \A j \in 1..m : IF n - m + j <= r THEN a[j].k = "save"
                         ELSE a[j].k \in {"apply", "undo"} /\ a[j].op = ops[n - m + j]
                              /\ a[j].exp = n - m + j - 1
  BY <1>1, <1>3 DEF Awaits
<1>5. r \in 0..n /\ w = c[r]
  BY <1>1
<1> HIDE DEF n, m, b, r
<1>6. 1 \in 1..m /\ n - m + 1 \in Int
  BY <1>2, <1>3
<1>7. CASE n - m + 1 <= r
  <2>1. Head(a).k = "save"
    BY <1>3, <1>4, <1>6, <1>7
  <2>2. m - 1 >= n - r
    BY <1>2, <1>3, <1>5, <1>7
  <2>3. ASSUME NEW j \in 1..(m - 1)
        PROVE  IF n - (m - 1) + j <= r THEN b[j].k = "save"
               ELSE b[j].k \in {"apply", "undo"} /\ b[j].op = ops[n - (m - 1) + j]
                    /\ b[j].exp = n - (m - 1) + j - 1
    <3>1. n - (m - 1) + j = n - m + (j + 1) /\ j + 1 \in 1..m
      BY <1>2, <1>3
    <3>2. b[j] = a[j + 1]
      BY <1>3
    <3>3. IF n - m + (j + 1) <= r THEN a[j + 1].k = "save"
          ELSE a[j + 1].k \in {"apply", "undo"} /\ a[j + 1].op = ops[n - m + (j + 1)]
               /\ a[j + 1].exp = n - m + (j + 1) - 1
      BY <1>4, <3>1
    <3>5. n - m + (j + 1) - 1 = n - (m - 1) + j - 1
      BY <1>2, <1>3
    <3> QED
      BY <3>1, <3>2, <3>3, <3>5, Zenon
  <2>4. Awaits(b, ops, r)
    BY <1>3, <2>2, <2>3 DEF Awaits, n
  <2>5. Replay(w, b, p)
    BY <1>1, <2>4 DEF Replay, r
  <2> QED
    BY <2>1, <2>5 DEF b
<1>8. CASE ~(n - m + 1 <= r)
  <2>1. n - m + 1 = r + 1 /\ r + 1 \in 1..n /\ (r + 1) - 1 = r /\ n - m + 1 - 1 = r
    BY <1>2, <1>3, <1>4, <1>5, <1>8
  <2>2. Head(a).k \in {"apply", "undo"} /\ Head(a).op = ops[r + 1] /\ Head(a).exp = r
    BY <1>3, <1>4, <1>6, <1>8, <2>1
  <2>3. c[r + 1] = Done(w, Head(a).op) /\ c[r + 1].rev = r + 1 /\ Takes(w.marks, Head(a).op)
    BY <1>2, <1>5, <2>1, <2>2
  <2>4. m - 1 >= n - (r + 1)
    BY <1>2, <1>3, <1>5, <2>1
  <2>5. ASSUME NEW j \in 1..(m - 1)
        PROVE  IF n - (m - 1) + j <= r + 1 THEN b[j].k = "save"
               ELSE b[j].k \in {"apply", "undo"} /\ b[j].op = ops[n - (m - 1) + j]
                    /\ b[j].exp = n - (m - 1) + j - 1
    <3>1. n - (m - 1) + j = n - m + (j + 1) /\ j + 1 \in 1..m
      BY <1>2, <1>3
    <3>2. b[j] = a[j + 1]
      BY <1>3
    <3>3. ~(n - m + (j + 1) <= r) /\ ~(n - (m - 1) + j <= r + 1)
      BY <1>2, <1>3, <1>5, <2>1
    <3>4. IF n - m + (j + 1) <= r THEN a[j + 1].k = "save"
          ELSE a[j + 1].k \in {"apply", "undo"} /\ a[j + 1].op = ops[n - m + (j + 1)]
               /\ a[j + 1].exp = n - m + (j + 1) - 1
      BY <1>4, <3>1
    <3>5. n - m + (j + 1) - 1 = n - (m - 1) + j - 1
      BY <1>2, <1>3
    <3> QED
      BY <3>1, <3>2, <3>3, <3>4, <3>5, Zenon
  <2>6. Awaits(b, ops, r + 1)
    BY <1>3, <2>4, <2>5 DEF Awaits, n
  <2>7. c[r + 1].rev \in 0..Len(ops) /\ c[r + 1] = c[c[r + 1].rev] /\ Awaits(b, ops, c[r + 1].rev)
    BY <1>2, <2>1, <2>3, <2>6 DEF n
  <2>8. Replay(c[r + 1], b, p)
    BY <1>1, <2>7 DEF Replay
  <2> QED
    BY <2>2, <2>3, <2>8 DEF b, r
<1> QED
  BY <1>7, <1>8

LEMMA ReplayDone ==
  ASSUME NEW w, NEW p, Replay(w, <<>>, p)
  PROVE  w.marks = p.marks /\ w.field = p.field
<1>1. PICK ops, c : /\ Chain(ops, c) /\ w.rev \in 0..Len(ops) /\ w = c[w.rev]
                    /\ Awaits(<<>>, ops, w.rev)
                    /\ p.marks = c[Len(ops)].marks /\ p.field = c[Len(ops)].field
  BY DEF Replay
<1>2. Len(ops) \in Nat /\ Len(<<>>) = 0
  BY <1>1 DEF Chain
<1>3. w.rev = Len(ops)
  BY <1>1, <1>2 DEF Awaits
<1> QED
  BY <1>1, <1>3

LEMMA ReplayStart ==
  ASSUME TypeInv, Linked, Closed, Ascending(offer), Deferral, Erasures, RestoreEdits
  PROVE  Replaying'
<1> DEFINE es == offer.entries
           n == Len(es)
           ops == OpsOf(es)
           z == PostAll(Desk, 0, events, es)
<1>0. InOrder(es) = es /\ es \in Seq(Entries) /\ n \in Nat
  BY InOrderSame DEF TypeInv, LeftTypes, Journals
<1>1. /\ ~pumping /\ PutDesk(PostAll(Desk, reader.rev, events, es))
      /\ promise' = IF pending = <<>> /\ events = <<>> /\ reader.rev = 0
                    THEN [made |-> TRUE, names |-> NamesOwnMarks(es),
                          marks |-> Brought(worker, es).marks, field |-> Brought(worker, es).field]
                    ELSE NoPromise
      /\ UNCHANGED <<worker, serving, open>>
  BY <1>0 DEF RestoreEdits, docVars
<1> SUFFICES ASSUME promise'.made, ~promise'.names, open # NoFile, serving
             PROVE  /\ deferred' = <<>>
                    /\ \A w, a, p : w = worker /\ a = asks' /\ p = promise' => Replay(w, a, p)
  BY <1>1 DEF Replaying
<1>2. /\ pending = <<>> /\ events = <<>> /\ reader.rev = 0
      /\ promise' = [made |-> TRUE, names |-> NamesOwnMarks(es),
                     marks |-> Brought(worker, es).marks, field |-> Brought(worker, es).field]
  BY <1>1 DEF NoPromise
<1>3. ~MayCommitOut(events) /\ deferred = <<>>
  BY <1>1, <1>2 DEF Deferral, MayCommitOut
<1>4. /\ told \in Seq(Replies) /\ asks \in Seq(Requests) /\ worker \in Workers /\ worker.rev \in Nat
  BY LinkParts DEF TypeInv, DocTypes
<1>5. LinkInv(told, asks, <<>>, <<>>, 0, worker.rev, skew, serving)
  BY <1>2, LinkNow
<1> DEFINE q == told \o asks
           k == Len(told)
<1>6. /\ k \in Nat /\ Len(asks) \in Nat /\ DOMAIN asks = 1..Len(asks) /\ DOMAIN told = 1..k
      /\ DOMAIN q = 1..(k + Len(asks)) /\ \A i \in 1..k : q[i] = told[i]
      /\ \A j \in 1..Len(asks) : q[k + j] = asks[j]
  BY <1>4
<1> HIDE DEF k, q, z, es, ops, n
<1>7. /\ \A i \in DOMAIN q : q[i] \notin EditMsgs
      /\ \A i \in DOMAIN q : q[i] \notin FormMsgs
  <2>1. PairedEdits(q, <<>>) /\ PairedForms(q, k, <<>>, skew)
    BY <1>5 DEF LinkInv, q, k
  <2>2. DOMAIN <<>> = {}
    OBVIOUS
  <2>3. \A i \in DOMAIN q : q[i] \notin EditMsgs
    BY <2>1, <2>2 DEF PairedEdits, Places
  <2>4. \A i \in DOMAIN q : q[i] \notin FormMsgs
    BY <2>1, <2>2 DEF PairedForms, Places
  <2> QED
    BY <2>3, <2>4
<1>8. \A j \in 1..Len(asks) : asks[j].k = "save"
  <2> TAKE j \in 1..Len(asks)
  <2>1. asks[j] \in Requests /\ k + j \in DOMAIN q /\ q[k + j] = asks[j]
    BY <1>4, <1>6
  <2>2. asks[j] \notin EditMsgs /\ asks[j] \notin FormMsgs
    BY <1>7, <2>1
  <2> QED
    BY <2>1, <2>2 DEF Requests, EditRequests, FormRequests, SaveRequests, EditMsgs, FormMsgs, Messages,
                      IsEdit
<1>9. worker.rev = 0
  <2>1. \A i \in DOMAIN told : told[i] \notin MoveMsgs
    <3> TAKE i \in DOMAIN told
    <3>1. told[i] \in Replies /\ i \in DOMAIN q /\ q[i] = told[i]
      BY <1>4, <1>6
    <3>2. told[i] \notin EditMsgs /\ told[i] \notin FormMsgs
      BY <1>7, <3>1
    <3> QED
      BY <3>1, <3>2 DEF MoveMsgs, EditMsgs, FormMsgs, Messages, IsEdit
  <2>2. Places(told, MoveMsgs) = {}
    BY <2>1 DEF Places
  <2>3. worker.rev = 0 + Cardinality(Places(told, MoveMsgs))
    BY <1>5 DEF LinkInv, Revised
  <2> QED
    BY <2>2, <2>3, FS_EmptySet
<1>10. /\ Desk \in Desks /\ Desk.p = <<>> /\ Desk.d = <<>> /\ Desk.a = asks
  BY <1>2, <1>3, DeskType DEF Desk
<1>11. z \in PostedDesks(asks, es, n)
  BY <1>0, <1>3, <1>10, PostedAll DEF z, es, n
<1>12. deferred' = z.d /\ asks' = z.a
  BY <1>1, <1>2 DEF PutDesk, z, es
<1>13. PICK v : Leads(ops, {}, v)
  BY DEF Erasures, Sound, ops, es
<1>14. \A i \in DOMAIN es : es[i].op.k \in {"delete", "restore"} => es[i].op.id \in worker.marks
  BY <1>2 DEF NamesOwnMarks, es
<1>15. PICK c : Chain(ops, c) /\ c[0] = worker /\ Brought(worker, es) = c[n]
  BY <1>0, <1>4, <1>9, <1>13, <1>14, BroughtChain DEF es, ops, n
<1>16. Len(ops) = n /\ \A i \in 1..n : ops[i] = es[i].op
  BY <1>0 DEF OpsOf, ops, es, n
<1>17. /\ Len(z.a) = Len(asks) + n /\ z.d = <<>> /\ z.a \in Seq(Requests)
       /\ \A j \in 1..Len(asks) : z.a[j] = asks[j]
       /\ \A j \in 1..n : /\ z.a[Len(asks) + j].k \in {"apply", "undo"}
                          /\ z.a[Len(asks) + j].op = es[j].op /\ z.a[Len(asks) + j].exp = j - 1
  BY <1>11 DEF PostedDesks, Desks
<1>18. n \in Nat
  BY <1>0 DEF n, es
<1>19. Awaits(z.a, ops, 0)
  <2>1. Len(z.a) >= Len(ops) - 0
    BY <1>6, <1>16, <1>17, <1>18
  <2>2. ASSUME NEW j \in DOMAIN z.a
        PROVE  LET i == Len(ops) - Len(z.a) + j IN
               IF i <= 0 THEN z.a[j].k = "save"
               ELSE z.a[j].k \in {"apply", "undo"} /\ z.a[j].op = ops[i] /\ z.a[j].exp = i - 1
    <3>1. j \in 1..(Len(asks) + n)
      BY <1>17
    <3>2. Len(ops) - Len(z.a) + j = j - Len(asks)
      BY <1>6, <1>16, <1>17, <1>18, <3>1
    <3>3. CASE j <= Len(asks)
      <4>1. j \in 1..Len(asks) /\ j - Len(asks) <= 0
        BY <1>6, <1>18, <3>1, <3>3
      <4> QED
        BY <1>8, <1>17, <3>2, <4>1
    <3>4. CASE ~(j <= Len(asks))
      <4> DEFINE i == j - Len(asks)
      <4>1. i \in 1..n /\ ~(i <= 0) /\ Len(asks) + i = j
        BY <1>6, <1>18, <3>1, <3>4
      <4> QED
        BY <1>16, <1>17, <3>2, <4>1
    <3> QED
      BY <3>3, <3>4
  <2> QED
    BY <2>1, <2>2 DEF Awaits
<1>20. worker.rev \in 0..Len(ops) /\ worker = c[worker.rev]
  BY <1>9, <1>15, <1>16, <1>18
<1>21. promise'.marks = c[Len(ops)].marks /\ promise'.field = c[Len(ops)].field
  BY <1>2, <1>15, <1>16
<1>22. ASSUME NEW p, p = promise' PROVE Replay(worker, z.a, p)
  BY <1>9, <1>15, <1>19, <1>20, <1>21, <1>22 DEF Replay
<1> QED
  BY <1>12, <1>17, <1>22

LEMMA ReplayingServe ==
  ASSUME TypeInv, Replaying, Serve
  PROVE  Replaying'
<1>1. /\ serving /\ asks # <<>> /\ UNCHANGED <<open, deferred>>
      /\ ServeLost \/ (serving' = serving /\ asks' = Tail(asks))
  BY ServeLeaves DEF queueVars
<1>2. asks \in Seq(Requests) /\ worker \in Workers
  BY LinkParts DEF TypeInv, DocTypes
<1>3. CASE promise' = NoPromise \/ ~serving'
  BY <1>3 DEF Replaying, NoPromise
<1>4. CASE promise' = promise /\ serving'
  <2> SUFFICES ASSUME promise.made, ~promise.names, open # NoFile
               PROVE  /\ deferred' = <<>>
                      /\ \A w, a, p : w = worker' /\ a = asks' /\ p = promise => Replay(w, a, p)
    BY <1>1, <1>4 DEF Replaying
  <2>1. deferred = <<>> /\ Replay(worker, asks, promise)
    BY <1>1 DEF Replaying
  <2>2. /\ Head(asks).k \in {"apply", "undo", "save"}
        /\ Head(asks).k = "save" => Replay(worker, Tail(asks), promise)
        /\ Head(asks).k \in {"apply", "undo"} =>
             /\ Head(asks).exp = worker.rev /\ Takes(worker.marks, Head(asks).op)
             /\ Replay(Done(worker, Head(asks).op), Tail(asks), promise)
    BY <1>1, <1>2, <2>1, ReplayNext
  <2>3. CASE ServeEdit
    <3>1. /\ worker' = Done(worker, Head(asks).op) /\ asks' = Tail(asks)
          /\ Head(asks).k \in {"apply", "undo"}
      BY <2>3 DEF ServeEdit, Answers, Asked
    <3> QED
      BY <1>1, <2>1, <2>2, <3>1
  <2>4. CASE ServeConflict
    BY <2>2, <2>4 DEF ServeConflict, Asked, Checked
  <2>5. CASE ServeMissing
    BY <2>2, <2>5 DEF ServeMissing, Asked
  <2>6. CASE ServeInvalid
    BY <1>4, <2>6 DEF ServeInvalid, NoPromise
  <2>7. CASE ServeForm
    BY <2>2, <2>7, FormServed
  <2>8. CASE ServeSave
    <3>1. worker' = worker /\ asks' = Tail(asks) /\ Head(asks).k = "save"
      BY <2>8 DEF ServeSave, Answers, Asked
    <3> QED
      BY <1>1, <2>1, <2>2, <3>1
  <2>9. CASE ServeLost
    BY <1>4, <2>9 DEF ServeLost
  <2> QED
    BY <2>3, <2>4, <2>5, <2>6, <2>7, <2>8, <2>9 DEF Serve
<1>5. promise' \in {promise, NoPromise} /\ serving' \in BOOLEAN
  <2>1. CASE ServeForm
    BY <1>1, <2>1, FormServed DEF ServeLost, TypeInv, DocTypes
  <2>2. CASE ~ServeForm
    BY <1>1, <2>2 DEF Serve, ServeEdit, ServeConflict, ServeMissing, ServeInvalid, ServeSave, ServeLost,
                      historyVars, TypeInv, DocTypes
  <2> QED
    BY <2>1, <2>2
<1> QED
  BY <1>3, <1>4, <1>5

LEMMA ReplayingPump ==
  ASSUME TypeInv, Replaying, TakeApplied \/ TakeRefused \/ TakeForm \/ TakeSaved \/ TakeFailed
  PROVE  Replaying'
<1>1. open' = open /\ UNCHANGED <<worker, serving, promise>>
  BY PumpMoves
<1>2. PICK s \in {Desk, Answered(Desk)}, rev \in Nat : PutDesk(Released(s, rev, events'))
  BY PumpPuts
<1>3. s \in Desks /\ s.a = asks /\ s.d = deferred
  <2>1. Desk.a = asks /\ Desk.d = deferred /\ Answered(Desk).a = asks /\ Answered(Desk).d = deferred
    BY DEF Desk, Answered
  <2> QED
    BY <2>1, DeskType, AnsweredType
<1> DEFINE y == [s EXCEPT !.d = <<>>]
           v == Released(s, rev, events')
<1>4. ASSUME deferred = <<>> PROVE v.a = asks /\ v.d = <<>>
  <2> DEFINE D == {y}
             E == {}
  <2>1. y \in D /\ Waiting(s.d) \in Seq(E)
    BY <1>3, <1>4 DEF Waiting
  <2>2. \A t \in D : \A e \in E : Post(t, rev, events', e) \in D
    OBVIOUS
  <2> HIDE DEF y, D, E
  <2>3. PostAll(y, rev, events', Waiting(s.d)) \in D
    BY <2>1, <2>2, PostAllKeeps
  <2>4. y.a = s.a /\ y.d = <<>>
    BY <1>3 DEF y, Desks
  <2>5. v = s \/ v = PostAll(y, rev, events', Waiting(s.d))
    BY DEF Released, Waiting, y
  <2> QED
    BY <1>3, <1>4, <2>3, <2>4, <2>5 DEF D
<1>5. asks' = v.a /\ deferred' = v.d
  BY <1>2 DEF PutDesk
<1> HIDE DEF v
<1> QED
  BY <1>1, <1>4, <1>5 DEF Replaying

LEMMA ReplayingNext ==
  ASSUME TypeInv, Linked, Closed, Ascending(offer), Deferral, Erasures, Replaying, [Next]_vars
  PROVE  Replaying'
<1>1. CASE promise' = NoPromise
  BY <1>1 DEF Replaying, NoPromise
<1>2. CASE UNCHANGED <<promise, open, serving, worker, asks, deferred>>
  BY <1>2 DEF Replaying
<1>3. CASE User
  <2>1. CASE Draw \/ Erase \/ Undo \/ Redo
    BY <1>1, <2>1 DEF Draw, Erase, Undo, Redo, TakeBack, UserActs
  <2>2. CASE \E may \in BOOLEAN : FormEvent(may)
    BY <1>1, <2>2 DEF FormEvent, UserActs
  <2>3. CASE \E f \in Files : SaveAs(f)
    BY <1>1, <2>3 DEF SaveAs, UserActs
  <2>4. CASE \E f \in Files : Open(f)
    BY <1>1, <2>4 DEF Open
  <2>5. CASE PutAway
    BY <1>1, <2>5 DEF PutAway, ForgetEdits
  <2>6. CASE RestoreEdits
    BY <2>6, ReplayStart
  <2>7. CASE DiscardEdits
    BY <1>2, <2>7 DEF DiscardEdits, docVars, linkVars, queueVars, historyVars
  <2> QED
    BY <1>3, <2>1, <2>2, <2>3, <2>4, <2>5, <2>6, <2>7 DEF User
<1>4. CASE Serve
  BY <1>4, ReplayingServe
<1>5. CASE TakeApplied \/ TakeRefused \/ TakeForm \/ TakeSaved \/ TakeFailed
  BY <1>5, ReplayingPump
<1>6. CASE TakeGone \/ WorkerDies \/ Crash
  BY <1>1, <1>6 DEF TakeGone, WorkerDies, Crash, ForgetEdits
<1>7. CASE UNCHANGED vars
  BY <1>2, <1>7 DEF vars, docVars, linkVars, queueVars, historyVars
<1> QED
  BY <1>3, <1>4, <1>5, <1>6, <1>7 DEF Next, Pump

(***************************************************************************)
(* The inductive invariant, and what follows from it.                      *)
(***************************************************************************)
EditInv == TypeInv /\ Linked /\ Closed /\ Ordered /\ Recorded /\ SavesBounded

LEMMA EditInit == Init => EditInv
BY TypeInit, LinkInit, RecordedInit, SavesInit DEF EditInv

LEMMA EditNext == EditInv /\ [Next]_vars => EditInv'
<1> SUFFICES ASSUME EditInv, [Next]_vars PROVE EditInv'
  OBVIOUS
<1>1. TypeInv /\ Linked /\ Closed /\ Ordered /\ Recorded /\ SavesBounded /\ Ascending(offer)
  BY DEF EditInv, Ordered
<1>2. TypeInv'
  BY <1>1, FormAwaited, TypeNext
<1>3. Linked' /\ Closed'
  BY <1>1, LinkedNext
<1>4. Recorded' /\ Ordered'
  BY <1>1, <1>2, RecordedNext, OrderedNext
<1>5. SavesBounded'
  BY <1>1, SavesNext
<1> QED
  BY <1>2, <1>3, <1>4, <1>5 DEF EditInv

LEMMA EditInvariant == Spec => []EditInv
BY EditInit, EditNext, PTL DEF Spec

LEMMA EditTypes == EditInv => TypeOK
<1> SUFFICES ASSUME EditInv PROVE TypeOK
  OBVIOUS
<1>1. TypeInv /\ Recorded /\ SavesBounded
  BY DEF EditInv
<1>2. \A f \in Files : disk[f].v \in 0..(MaxActs + 1) /\ disk[f].marks \subseteq Marks
  <2>1. \A f \in Files : disk[f].v + Cardinality(Places(asks, CopyMsgs(f))) <= acts + 1
    BY <1>1 DEF SavesBounded
  <2>2. \A f \in Files : disk[f].v \in Nat /\ Cardinality(Places(asks, CopyMsgs(f))) \in Nat
    BY <1>1, CopyNumbers
  <2>3. acts \in Nat /\ acts <= MaxActs /\ MaxActs \in Nat
    BY <1>1, NumberFacts DEF TypeInv, CountTypes, Numbers
  <2>4. \A f \in Files : disk[f].marks \subseteq Marks
    BY <1>1 DEF TypeInv, DocTypes, Papers
  <2> QED
    BY <2>1, <2>2, <2>3, <2>4
<1>3. worker.marks \subseteq Marks /\ worker.named \in Nat /\ worker.alive \in BOOLEAN
  BY <1>1, NumberFacts DEF TypeInv, DocTypes, Workers
<1>4. /\ open \in Files \cup {NoFile} /\ serving \in BOOLEAN /\ pumping \in BOOLEAN
      /\ deferred \in Seq(Ops) /\ events \in Seq(BOOLEAN)
      /\ reader.undo \in Seq(Ops) /\ reader.redo \in Seq(Ops)
      /\ journal.written \in 0..MaxEntries /\ log \in Seq(Edits)
      /\ skew \subseteq {"refusal", "quiet commit"}
  BY <1>1 DEF TypeInv, DocTypes, ReaderTypes, Readers, QueueTypes, KeptTypes, Covers, Causes
<1>5. \A i \in DOMAIN pending : pending[i].op \in Ops /\ pending[i].kind \in {"edit", "undo", "redo"}
  <2>1. \A i \in DOMAIN pending : pending[i] \in Pendings
    BY <1>1 DEF TypeInv, QueueTypes
  <2> QED
    BY <2>1 DEF Pendings
<1>6. own.entries # <<>> => Len(own.entries) = journal.written \/ ~journal.on
  BY <1>1 DEF Recorded
<1> QED
  BY <1>2, <1>3, <1>4, <1>5, <1>6 DEF TypeOK

LEMMA SaidPlaces ==
  ASSUME TypeInv
  PROVE  EditsSaid = Places(Said, EditMsgs) /\ FormsSaid = Places(Said, FormMsgs)
<1>1. Said \in Seq(Messages)
  BY LinkParts, StreamType DEF Said
<1>2. \A i \in DOMAIN Said : Said[i] \in Messages
  BY <1>1
<1> QED
  BY <1>2 DEF EditsSaid, FormsSaid, Places, EditMsgs, FormMsgs

LEMMA EditAnswers == EditInv => AnswersTrue
<1> SUFFICES ASSUME EditInv PROVE AnswersTrue
  OBVIOUS
<1>1. TypeInv /\ Linked /\ Closed
  BY DEF EditInv
<1>2. CASE open = NoFile
  <2>1. told = <<>> /\ asks = <<>> /\ ~serving
    BY <1>1, <1>2 DEF Closed
  <2>2. Said = <<>>
    BY <2>1 DEF Said
  <2>3. EditsSaid = {}
    BY <2>2 DEF EditsSaid
  <2> QED
    BY <2>1, <2>3 DEF AnswersTrue, PairedAnswers, ConflictHasCause
<1>3. CASE open # NoFile
  <2>1. LinkInv(told, asks, pending, events, reader.rev, worker.rev, skew, serving)
    BY <1>1, <1>3, LinkNow
  <2>2. PairedEdits(Said, pending) /\ (serving => AllOwed(Said, pending, events)) /\ CauseSeen(told)
    BY <2>1 DEF LinkInv, Said
  <2>3. EditsSaid = Places(Said, EditMsgs) /\ FormsSaid = Places(Said, FormMsgs)
    BY <1>1, SaidPlaces
  <2>4. PairedAnswers
    BY <2>2, <2>3 DEF PairedAnswers, PairedEdits, AllOwed
  <2>5. ConflictHasCause
    BY <2>2 DEF ConflictHasCause, CauseSeen
  <2> QED
    BY <2>4, <2>5 DEF AnswersTrue
<1> QED
  BY <1>2, <1>3

(* What a restore needs besides. *)
RestoreInv == EditInv /\ Deferral /\ GoneTold /\ Named /\ Erasures /\ Replaying

LEMMA RestoreInit == Init => RestoreInv
<1>1. Init => Replaying
  BY DEF Init, Replaying, NoPromise
<1> QED
  BY <1>1, EditInit, NamedInit, ErasuresInit DEF RestoreInv

LEMMA RestoreNext == RestoreInv /\ [Next]_vars => RestoreInv'
<1> SUFFICES ASSUME RestoreInv, [Next]_vars PROVE RestoreInv'
  OBVIOUS
<1>1. /\ TypeInv /\ Linked /\ Closed /\ Ordered /\ Recorded /\ Ascending(offer)
      /\ Deferral /\ GoneTold /\ Named /\ Erasures /\ Replaying
  BY DEF RestoreInv, EditInv, Ordered
<1>2. EditInv'
  BY EditNext DEF RestoreInv
<1>3. Deferral' /\ GoneTold' /\ Named'
  BY <1>1, DeferralNext, GoneNext, NamedNext
<1>4. Erasures' /\ Replaying'
  BY <1>1, ErasuresNext, ReplayingNext
<1> QED
  BY <1>2, <1>3, <1>4 DEF RestoreInv

LEMMA RestoreWhole == RestoreInv => RestoredWhole
<1> SUFFICES ASSUME RestoreInv, promise.made, ~promise.names, Idle, open # NoFile
             PROVE  worker.marks = promise.marks /\ worker.field = promise.field
  BY DEF RestoredWhole
<1>1. asks = <<>> /\ told = <<>>
  BY DEF Idle
<1>2. serving
  <2>1. DOMAIN told = {}
    BY <1>1
  <2> QED
    BY <2>1 DEF RestoreInv, GoneTold
<1>3. Replay(worker, <<>>, promise)
  BY <1>1, <1>2 DEF RestoreInv, Replaying
<1> QED
  BY <1>3, ReplayDone

(***************************************************************************)
(* The refinement: the journal does what DurableEdits promises.            *)
(***************************************************************************)
LEMMA DurableInit == Init => Durable!Init
<1> SUFFICES ASSUME Init PROVE Durable!Init
  OBVIOUS
<1>1. log = <<>> /\ own.entries = <<>> /\ journal = Off
  BY DEF Init, NoJournal
<1>2. Kept = <<>>
  BY <1>1, NothingKept
<1>3. Covered \in BOOLEAN
  BY <1>1 DEF Covered, Off
<1> QED
  BY <1>1, <1>2, <1>3 DEF Durable!Init

LEMMA FrontAppend ==
  ASSUME NEW S, NEW q \in Seq(S), NEW e \in S
  PROVE  Append(q, e) # <<>> /\ Front(Append(q, e)) = q /\ Last(Append(q, e)) = e
<1> DEFINE r == Append(q, e)
           n == Len(q)
<1>1. /\ n \in Nat /\ r \in Seq(S) /\ Len(r) = n + 1 /\ r[n + 1] = e /\ \A i \in 1..n : r[i] = q[i]
  BY AppendProperties
<1> HIDE DEF r, n
<1>2. Last(r) = e /\ r # <<>>
  BY <1>1 DEF Last
<1>3. Front(r) = SubSeq(r, 1, n)
  BY <1>1 DEF Front
<1>4. SubSeq(r, 1, n) \in Seq(S) /\ Len(SubSeq(r, 1, n)) = n
      /\ \A i \in 1..n : SubSeq(r, 1, n)[i] = r[i]
  BY <1>1
<1>5. SubSeq(r, 1, n) = q
  BY <1>1, <1>4, SeqEqual DEF n
<1> QED
  BY <1>2, <1>3, <1>5 DEF r

LEMMA DurableNext ==
  ASSUME EditInv, [Next]_vars
  PROVE  [Durable!Next]_(Durable!vars)
<1>1. TypeInv /\ Linked /\ Closed /\ Recorded
  BY DEF EditInv
<1>2. CASE Quiet
  BY <1>2 DEF Quiet, Durable!vars, Kept, Covered
<1>3. CASE \E e \in Entries : Records(e)
  <2>1. PICK e \in Entries : Records(e)
    BY <1>3
  <2>2. Journalled(e) /\ log' = Append(log, Entry(e))
    BY <2>1 DEF Records
  <2>3. log \in Seq(Edits) /\ Entry(e) \in Edits
    BY <1>1 DEF TypeInv, KeptTypes, Entries, Edits, Entry
  <2>4. log' # <<>> /\ Front(log') = log /\ Last(log') = Entry(e)
    BY <2>2, <2>3, FrontAppend
  <2>5. Durable!Tell
    BY <2>4 DEF Durable!Tell, Durable!Front, Front
  <2>6. CASE own' = own /\ ~Covered'
    <3>1. Kept' = Kept
      BY <2>6, KeptFacts
    <3>2. Covered' = FALSE
      BY <2>6 DEF Covered
    <3>3. Durable!Uncover
      BY <2>5, <3>1, <3>2 DEF Durable!Uncover
    <3> QED
      BY <3>3 DEF Durable!Next
  <2>7. CASE Covered /\ Covered' /\ own' = [own EXCEPT !.entries = Append(@, e)]
    <3>1. Kept' = Append(Kept, Entry(e))
      BY <1>1, <2>7, KeptGrows
    <3>2. Covered' = Covered
      BY <2>7 DEF Covered
    <3>3. Durable!Record
      BY <2>4, <2>5, <2>7, <3>1, <3>2 DEF Durable!Record, Durable!Last, Last
    <3> QED
      BY <3>3 DEF Durable!Next
  <2> QED
    BY <1>1, <2>2, <2>6, <2>7, JournalWrites
<1>4. CASE \/ \E f \in Files : Open(f)
           \/ PutAway \/ Crash \/ TakeSaved
  <2>1. log' = <<>> /\ (own'.entries = <<>> \/ (~Covered' /\ own' = own))
    BY <1>1, <1>4, Begins
  <2>2. Kept' = <<>> \/ (~Covered' /\ Kept' = Kept)
    BY <2>1, NothingKept, KeptFacts
  <2>3. Durable!PutDown
    BY <2>1, <2>2 DEF Durable!PutDown
  <2> QED
    BY <2>3 DEF Durable!Next
<1> QED
  BY <1>1, <1>2, <1>3, <1>4, JournalSteps

(* Every variable stays in its range: the queues of the link and of the     *)
(* reader hold what they should, the journal's count is that of its file,   *)
(* and a file is at most one version ahead of the copies asked for.         *)
THEOREM EditTypeCorrect == Spec => []TypeOK
BY EditInvariant, EditTypes, PTL

(* No answer carries the name of the edit it answers; yet at every moment   *)
(* the n-th mutation of the link is the n-th that is pending, so each is    *)
(* taken for its own, and a command is refused for a conflict only behind a *)
(* refusal or an event that was not supposed to commit (app.rs pump_reader, *)
(* commit_to_document, released_commits, expected_revision).                *)
THEOREM AnswersAreOwn == Spec => []AnswersTrue
BY EditInvariant, EditAnswers, PTL

(* Once every edit of a journal the user took back has been answered, the  *)
(* document is what the journal makes of it: app.rs restore_reader_edits   *)
(* posts every edit before the first is answered, and none of them is      *)
(* refused, or applied to anything but what it was recorded against.       *)
THEOREM RestoreIsWhole == Spec => []RestoredWhole
<1>1. Init => RestoreInv
  BY RestoreInit
<1>2. RestoreInv /\ [Next]_vars => RestoreInv'
  BY RestoreNext
<1>3. RestoreInv => RestoredWhole
  BY RestoreWhole
<1> QED
  BY <1>1, <1>2, <1>3, PTL DEF Spec

(* While the reader has not been told otherwise, the journal on disk holds  *)
(* every edit the reader has been told of since the last save, in order     *)
(* (app.rs journal, reader_journal.rs append).                              *)
THEOREM NothingIsLost == Spec => []Durable!NothingLost
<1>1. EditInv => Durable!NothingLost
  BY DEF EditInv, Recorded, Durable!NothingLost
<1> QED
  BY <1>1, EditInvariant, PTL

(* The editing session implements the abstract journal: every step of the   *)
(* application, of the link and of a crash is a step of DurableEdits or     *)
(* leaves it unchanged.                                                     *)
THEOREM SessionKeepsUp == Spec => JournalKeepsUp
<1>1. EditInv /\ [Next]_vars => [Durable!Next]_(Durable!vars)
  BY DurableNext
<1> QED
  BY <1>1, DurableInit, EditInvariant, PTL DEF Spec, JournalKeepsUp, Durable!Spec
=============================================================================
