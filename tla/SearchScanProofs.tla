--------------------------- MODULE SearchScanProofs ---------------------------
(***************************************************************************)
(* Theorems about SearchScan, for every value of its constants: the bounds *)
(* of a scan, that each chunk it waits for is on its way once, and that    *)
(* what it finds is what the document holds.                               *)
(*                                                                         *)
(* None of them is inductive.  A document worker's answer is cut off at    *)
(* the end of its document, so what counts as read is a set of pages       *)
(* (Counted), and no chunk that is still out covers one of them.  A        *)
(* message of the scan that runs asks its query (Letters), the link was    *)
(* measured before its answers are heard (Places), and each page counted   *)
(* is one of the document the scan is of, or -- once an engine was lost    *)
(* and the pool reads on -- one its shorter version lacks (Content).       *)
(***************************************************************************)
EXTENDS SearchScan, FiniteSetTheorems, SequenceTheorems, WellFoundedInduction, NaturalsInduction, TLAPS

ScanType ==
  [query : Queries \cup {NoQuery}, gen : Nat, hits : SUBSET Nat, start : Nat, origin : Nat,
   requested : Nat, scanned : Nat, issued : Nat, pages : Nat, inFlight : SUBSET Nat,
   problem : {"none", "invalid", "tooMany", "unsupported"}]

AskType == {Describe} \cup [kind : {"FindText"}, chunk : Chunks]
ToldType ==
  [kind : {"Described", "Refused", "Lost"}] \cup [kind : {"Found"}, chunk : Answers]
LinkType ==
  [doc : Docs \cup {NoDoc}, alive : BOOLEAN, asks : Seq(AskType), told : Seq(ToldType)]
PoolType == [doc : Docs, chunk : Chunks]

(* How far behind the start of the scan page p is asked for. *)
Behind(s, p) == IF p >= s.start THEN p - s.start ELSE p + s.pages - s.start

ScanBounds(s) ==
  /\ s \in ScanType
  /\ IsFiniteSet(s.hits) /\ Cardinality(s.hits) <= MaxHits
  /\ IsFiniteSet(s.inFlight) /\ Cardinality(s.inFlight) <= MaxInFlight
  /\ s.scanned <= s.requested /\ s.requested <= s.pages
  /\ s.start < s.pages \/ s.start = 0
  /\ s.query = NoQuery \/ s.problem # "none" =>
       s.scanned = s.pages /\ s.requested = s.pages /\ s.inFlight = {}

Typed(s, lk, pl) ==
  /\ ScanBounds(s) /\ lk \in LinkType /\ pl \in SUBSET PoolType
  /\ \A i \in 1..Len(lk.told) : lk.told[i].kind = "Found" => IsFiniteSet(lk.told[i].chunk.hits)

(* The messages of generation g. *)
AskOf(lk, i, g) == lk.asks[i].kind = "FindText" /\ lk.asks[i].chunk.gen = g
ToldOf(lk, i, g) == lk.told[i].kind = "Found" /\ lk.told[i].chunk.gen = g

(* A message is of this scan or of an earlier one, and asks its query. *)
Letter(s, c) == c.gen <= s.gen /\ c.from <= c.to
Letters(s, lk, pl) ==
  /\ \A i \in 1..Len(lk.asks) : lk.asks[i].kind = "FindText" =>
       Letter(s, lk.asks[i].chunk) /\ (AskOf(lk, i, s.gen) => lk.asks[i].chunk.query = s.query)
  /\ \A i \in 1..Len(lk.told) : lk.told[i].kind = "Found" => Letter(s, lk.told[i].chunk)
  /\ \A a \in pl : Letter(s, a.chunk) /\ (a.chunk.gen = s.gen => a.chunk.query = s.query)

(* The pages of c are pages of document d. *)
Inside(c, d) == c.from < c.to => c.to <= PageCount[d]

(* What an answer c that was given for document d and query q says of the   *)
(* pages that d has.                                                        *)
Truly(c, d, q) ==
  /\ q \in Queries /\ d \in Docs
  /\ c.hits \subseteq AllText(d, q)
  /\ ~c.truncated =>
       \A p \in c.from..(c.to - 1) : p < PageCount[d] => Text[d][q][p] \subseteq c.hits

Reported(s, lk) ==
  \A i \in 1..Len(lk.told) : ToldOf(lk, i, s.gen) =>
    Truly(lk.told[i].chunk, lk.doc, s.query) /\ Inside(lk.told[i].chunk, lk.doc)

Describes(lk) == \E i \in 1..Len(lk.asks) : lk.asks[i].kind = "Describe"
Described(lk) == \E i \in 1..Len(lk.told) : lk.told[i].kind = "Described"

(* The document worker is asked to measure its document first of all, and   *)
(* unless an engine was lost, the reader has the shape it will find.        *)
Places(lk) ==
  /\ {deck, reader, preopened, coming, preparing} \subseteq Docs \cup {NoDoc}
  /\ preparing # NoDoc => lk = NoLink /\ reader = NoDoc /\ preopened = NoDoc
  /\ lk.doc = NoDoc => lk = NoLink
  /\ ~lk.alive => lk.asks = <<>>
  /\ faults = 0 =>
       /\ lk.doc # NoDoc <=> lk.alive
       /\ reader # NoDoc => lk.alive
       /\ preopened # NoDoc => reader = preopened
       /\ lk.alive /\ ~Describes(lk) /\ ~Described(lk) => reader = lk.doc
       /\ \A i \in 1..Len(lk.told) : lk.told[i].kind # "Lost"
  /\ \A i \in 1..Len(lk.asks) : lk.asks[i].kind = "Describe" => i = 1 /\ lk.told = <<>>
  /\ \A i \in 1..Len(lk.told) : lk.told[i].kind = "Described" => i = 1

(* The document the scan is of. *)
Source == IF reader # NoDoc THEN reader ELSE deck

(* The pool is asked of the document on screen when there is no document    *)
(* worker; one that is started meanwhile finds a scan of that document.     *)
Asks(s, pl) ==
  \A a \in pl : a.chunk.gen = s.gen =>
    /\ a.doc = deck
    /\ faults = 0 => reader = NoDoc
    /\ link.alive => Inside(a.chunk, deck)

Shape(s) ==
  /\ (faults = 0 \/ preparing # NoDoc) /\ s.query # NoQuery => s.pages = Searchable(reader, deck)
  /\ faults = 0 /\ s.query # NoQuery =>
       \A h \in s.hits : h \in NotesOf(deck, s.query) \/ (Source # NoDoc /\ h \in AllText(Source, s.query))
  /\ s.problem = "none" /\ s.query # NoQuery =>
       IF Cardinality(s.hits) < MaxHits THEN NotesOf(deck, s.query) \subseteq s.hits
       ELSE s.requested = 0

(* The chunks of generation g that are on their way. *)
Due(g, lk, pl) ==
  {m \in [from : Nat, to : Nat] :
     \/ \E i \in 1..Len(lk.asks) :
          AskOf(lk, i, g) /\ lk.asks[i].chunk.from = m.from /\ lk.asks[i].chunk.to = m.to
     \/ \E i \in 1..Len(lk.told) :
          ToldOf(lk, i, g) /\ lk.told[i].chunk.from = m.from /\ lk.told[i].chunk.to = m.to
     \/ \E a \in pl : a.chunk.gen = g /\ a.chunk.from = m.from /\ a.chunk.to = m.to}

Covers(m, p) == m.from <= p /\ p < m.to

(* The pages R were read, and those of the chunks D are to come. *)
Counted(s, D, R) ==
  /\ \A m \in D : m.from < m.to =>
       /\ m.to <= s.pages /\ Behind(s, m.from) + (m.to - m.from) <= s.requested
       /\ m.from >= s.start \/ m.to <= s.start
  /\ \A m, n \in D : m.from < m.to /\ n.from < n.to =>
       m.from = n.from \/ m.to <= n.from \/ n.to <= m.from
  /\ s.problem = "none" /\ s.query # NoQuery =>
       /\ \A p \in R : p < s.pages /\ Behind(s, p) < s.requested
       /\ s.scanned <= Cardinality(R)
       /\ \A m \in D : m.from \in s.inFlight => \A p \in R : ~Covers(m, p)

(* A page that counts as read though the pool's version does not have it. *)
Missing(p) == faults # 0 /\ Beyond(p)

Content(s, R) ==
  s.problem = "none" /\ s.query # NoQuery =>
    \A p \in R : \/ Missing(p)
                 \/ \E d \in Docs : /\ p < PageCount[d] /\ Text[d][s.query][p] \subseteq s.hits
                                    /\ faults = 0 => d = Source

Read(s, D) ==
  \E R \in SUBSET (0..s.pages) : Counted(s, D, R) /\ Content(s, R)

(* Nothing keeps an answer from coming, whole. *)
Steady(s, lk) ==
  /\ faults = 0 /\ lk.doc \notin Unsearchable /\ s.problem = "none"
  /\ (~Describes(lk) /\ ~Described(lk)) \/ preopened = lk.doc

AskAt(s, lk, i, f) == AskOf(lk, i, s.gen) /\ lk.asks[i].chunk.from = f
ToldAt(s, lk, i, f) == ToldOf(lk, i, s.gen) /\ lk.told[i].chunk.from = f
PoolAt(s, a, f) == a.chunk.gen = s.gen /\ a.chunk.from = f

(* Each chunk waited for is on its way, once. *)
Each(s, lk, pl) ==
  /\ \A m \in Due(s.gen, lk, pl) : m.from < m.to /\ m.from \in s.inFlight
  /\ \A f \in s.inFlight :
       \/ \E i \in 1..Len(lk.asks) : AskAt(s, lk, i, f)
       \/ \E i \in 1..Len(lk.told) : ToldAt(s, lk, i, f)
       \/ \E a \in pl : PoolAt(s, a, f)
  /\ \A f \in s.inFlight :
       /\ \A i, j \in 1..Len(lk.asks) : AskAt(s, lk, i, f) /\ AskAt(s, lk, j, f) => i = j
       /\ \A i, j \in 1..Len(lk.told) : ToldAt(s, lk, i, f) /\ ToldAt(s, lk, j, f) => i = j
       /\ \A a, b \in pl : PoolAt(s, a, f) /\ PoolAt(s, b, f) => a = b
       /\ \A i \in 1..Len(lk.asks), j \in 1..Len(lk.told) : ~(AskAt(s, lk, i, f) /\ ToldAt(s, lk, j, f))
       /\ \A a \in pl : PoolAt(s, a, f) =>
            /\ \A i \in 1..Len(lk.asks) : ~AskAt(s, lk, i, f)
            /\ \A j \in 1..Len(lk.told) : ~ToldAt(s, lk, j, f)

Once(s, lk, pl) == Steady(s, lk) => Each(s, lk, pl)

Messages(s, lk, pl) ==
  /\ lk.alive = link.alive
  /\ Typed(s, lk, pl) /\ Letters(s, lk, pl) /\ Reported(s, lk) /\ Asks(s, pl)
  /\ Places(lk) /\ Shape(s) /\ Read(s, Due(s.gen, lk, pl)) /\ Once(s, lk, pl)

ScanInv ==
  /\ Messages(scan, link, pool)
  /\ settling \in BOOLEAN /\ moves \in Nat /\ faults \in Nat

-----------------------------------------------------------------------------
(* Numbers and sets of them. *)

(* Induction over a number, with a set for the predicate. *)
LEMMA NumberInduction ==
  ASSUME NEW n \in Nat, NEW S, 0 \in S, \A k \in 0..n : k \in S /\ k < n => k + 1 \in S
  PROVE  0..n \subseteq S
<1>1. SUFFICES ASSUME ~(0..n \subseteq S) PROVE FALSE
  OBVIOUS
<1>2. 0..n \ S \subseteq Nat /\ 0..n \ S # {}
  BY <1>1
<1>3. PICK m \in 0..n \ S : \A y \in 0..n \ S : <<y, m>> \notin OpToRel(<, Nat)
  BY <1>2, NatLessThanWellFounded, WFMin
<1>4. \A y \in 0..n \ S : ~(y < m)
  BY <1>2, <1>3 DEF OpToRel
<1>5. m - 1 \in 0..n /\ m - 1 < m /\ m - 1 < n /\ (m - 1) + 1 = m
  OBVIOUS
<1>6. m - 1 \in S
  BY <1>4, <1>5
<1> QED
  BY <1>5, <1>6

LEMMA FactorPositive == Factor \in [0..16 -> Nat \ {0}]
<1> DEFINE Powers ==
      <<2, 4, 8, 16, 32, 64, 128, 256, 512, 1024, 2048, 4096, 8192, 16384, 32768, 65536>>
    f == [n \in 0..16 |-> IF n = 0 THEN 1 ELSE Powers[n]]
    g == [n \in 0..16 |-> IF n = 0 THEN 1 ELSE 2 * f[n - 1]]
<1>1. ASSUME NEW n \in 0..16 PROVE f[n] = g[n]
  <2>1. n \in {0, 1, 2, 3, 4, 5, 6, 7, 8, 9, 10, 11, 12, 13, 14, 15, 16}
    OBVIOUS
  <2> QED
    BY <2>1
<1>2. f = g
  BY <1>1
<1>3. Factor = [n \in 0..16 |-> IF n = 0 THEN 1 ELSE 2 * Factor[n - 1]]
  <2> DEFINE c == f
  <2>1. c = [n \in 0..16 |-> IF n = 0 THEN 1 ELSE 2 * c[n - 1]]
    BY <1>2
  <2> HIDE DEF c
  <2> QED
    BY <2>1 DEF Factor
<1>4. DOMAIN Factor = 0..16
  BY <1>3
<1> DEFINE Good == {n \in Nat : n <= 16 => Factor[n] \in Nat \ {0}}
<1>5. 0 \in Good
  BY <1>3
<1>6. \A k \in 0..16 : k \in Good /\ k < 16 => k + 1 \in Good
  <2> SUFFICES ASSUME NEW k \in 0..16, k \in Good, k < 16 PROVE Factor[k + 1] \in Nat \ {0}
    OBVIOUS
  <2>1. Factor[k + 1] = 2 * Factor[k]
    <3>1. k + 1 \in 0..16 /\ k + 1 # 0 /\ (k + 1) - 1 = k
      OBVIOUS
    <3> QED
      BY <1>3, <3>1
  <2>2. Factor[k] \in Nat \ {0}
    OBVIOUS
  <2> HIDE DEF Good, f, g
  <2> QED
    BY <2>1, <2>2
<1>7. 0..16 \subseteq Good
  <2> HIDE DEF Good
  <2> QED
    BY <1>5, <1>6, NumberInduction
<1>8. \A n \in 0..16 : Factor[n] \in Nat \ {0}
  BY <1>7
<1> QED
  BY <1>3, <1>4, <1>8

LEMMA ChunkPagesPositive == ASSUME NEW n \in Nat PROVE ChunkPages(n) \in Nat \ {0}
<1>1. Least(n, 16) \in 0..16
  BY DEF Least
<1>2. Factor[Least(n, 16)] \in Nat \ {0}
  BY <1>1, FactorPositive
<1>3. FirstChunk * Factor[Least(n, 16)] \in Nat \ {0}
  BY <1>2, SearchAssumption
<1> QED
  BY <1>3, SearchAssumption DEF ChunkPages, Least

LEMMA Modulus ==
  ASSUME NEW a \in Nat, NEW b \in Nat, b > 0, a < 2 * b
  PROVE  a % b = IF a < b THEN a ELSE a - b
  OBVIOUS

(* A set of numbers has a least one; a finite one has a greatest. *)
LEMMA LeastOf ==
  ASSUME NEW S \in SUBSET Nat, S # {}
  PROVE  \E m \in S : \A y \in S : m <= y
<1>1. PICK m \in S : \A y \in S : <<y, m>> \notin OpToRel(<, Nat)
  BY NatLessThanWellFounded, WFMin
<1>2. \A y \in S : ~(y < m)
  BY <1>1 DEF OpToRel
<1> QED
  BY <1>2

LEMMA GreatestOf ==
  ASSUME NEW S \in SUBSET Nat, IsFiniteSet(S), S # {}
  PROVE  \E m \in S : \A y \in S : y <= m
<1> DEFINE Above(m) == {y \in S : m < y}
    Sizes == {Cardinality(Above(m)) : m \in S}
<1>1. \A m \in S : IsFiniteSet(Above(m)) /\ Cardinality(Above(m)) \in Nat
  BY FS_Subset, FS_CardinalityType
<1>2. PICK n \in Sizes : \A k \in Sizes : n <= k
  <2>1. Sizes \subseteq Nat /\ Sizes # {}
    BY <1>1
  <2> HIDE DEF Sizes
  <2> QED
    BY <2>1, LeastOf
<1>3. PICK m \in S : n = Cardinality(Above(m))
  BY <1>2
<1>4. SUFFICES ASSUME NEW y \in S, ~(y <= m) PROVE FALSE
  BY <1>3
<1>5. y \in Above(m) /\ Above(y) \subseteq Above(m) /\ y \notin Above(y)
  <2>1. y \in Nat /\ m \in Nat /\ m < y
    BY <1>4
  <2>2. \A x \in Nat : y < x => m < x
    BY <2>1
  <2>3. ~(y < y)
    BY <2>1
  <2> QED
    BY <2>1, <2>2, <2>3
<1>6. Cardinality(Above(m)) <= Cardinality(Above(y))
  BY <1>2, <1>3
<1> HIDE DEF Above
<1> QED
  BY <1>1, <1>5, <1>6, FS_Subset

LEMMA LowestFinite ==
  ASSUME NEW S \in SUBSET Nat, IsFiniteSet(S), NEW n
  PROVE  /\ Lowest(S, n) \subseteq S /\ IsFiniteSet(Lowest(S, n))
         /\ Cardinality(Lowest(S, n)) \in Nat /\ Cardinality(S) \in Nat
         /\ Cardinality(Lowest(S, n)) <= Cardinality(S)
<1>1. Lowest(S, n) \subseteq S
  BY DEF Lowest
<1> QED
  BY <1>1, FS_Subset, FS_CardinalityType

LEMMA LowestBound ==
  ASSUME NEW S \in SUBSET Nat, IsFiniteSet(S), NEW n \in Nat
  PROVE  Cardinality(Lowest(S, n)) <= n
<1> DEFINE L == Lowest(S, n)
<1>1. L \subseteq S /\ L \subseteq Nat /\ IsFiniteSet(L) /\ Cardinality(L) \in Nat
  BY LowestFinite
<1>2. CASE L = {}
  BY <1>2, FS_EmptySet
<1>3. CASE L # {}
  <2>1. PICK h \in L : \A y \in L : y <= h
    BY <1>1, <1>3, GreatestOf
  <2> DEFINE B == {g \in S : g < h}
  <2>2. Cardinality(B) < n /\ h \in S
    BY <2>1 DEF Lowest
  <2>3. IsFiniteSet(B) /\ Cardinality(B) \in Nat
    BY FS_Subset, FS_CardinalityType
  <2>4. L \subseteq B \cup {h}
    BY <1>1, <2>1
  <2>5. IsFiniteSet(B \cup {h}) /\ Cardinality(B \cup {h}) <= Cardinality(B) + 1
    <3>1. Cardinality(B \cup {h}) = IF h \in B THEN Cardinality(B) ELSE Cardinality(B) + 1
      BY <2>3, FS_AddElement
    <3> HIDE DEF B
    <3> QED
      BY <2>3, <3>1, FS_AddElement
  <2>6. Cardinality(L) <= Cardinality(B \cup {h}) /\ Cardinality(B \cup {h}) \in Nat
    BY <2>4, <2>5, FS_Subset, FS_CardinalityType
  <2>7. Cardinality(L) <= Cardinality(B) + 1 /\ Cardinality(B) + 1 <= n
    <3> HIDE DEF L, B
    <3> QED
      BY <1>1, <2>2, <2>3, <2>5, <2>6
  <2> HIDE DEF B
  <2> QED
    BY <1>1, <2>3, <2>7
<1> QED
  BY <1>2, <1>3

(* A list that is not full was not cut. *)
LEMMA LowestWhole ==
  ASSUME NEW S \in SUBSET Nat, IsFiniteSet(S), NEW n \in Nat, Cardinality(Lowest(S, n)) < n
  PROVE  Lowest(S, n) = S
<1> DEFINE L == Lowest(S, n)
<1>1. L \subseteq S /\ IsFiniteSet(L) /\ Cardinality(L) \in Nat
  BY LowestFinite
<1>2. SUFFICES ASSUME S \ L # {} PROVE FALSE
  BY <1>1
<1> DEFINE Cut == S \ L
<1>3. PICK m \in Cut : \A y \in Cut : m <= y
  <2>1. Cut \in SUBSET Nat /\ Cut # {}
    BY <1>2
  <2> HIDE DEF Cut
  <2> QED
    BY <2>1, LeastOf
<1> DEFINE B == {g \in S : g < m}
<1>4. B \subseteq L
  <2> SUFFICES ASSUME NEW g \in S, g < m, g \notin L PROVE FALSE
    OBVIOUS
  <2>1. g \in Cut /\ g \in Nat /\ m \in Nat
    BY <1>3
  <2> HIDE DEF Cut
  <2> QED
    BY <1>3, <2>1
<1>5. Cardinality(B) <= Cardinality(L) /\ Cardinality(B) \in Nat
  BY <1>1, <1>4, FS_Subset, FS_CardinalityType
<1>6. Cardinality(B) < n
  <2> HIDE DEF B
  <2> QED
    BY <1>1, <1>5
<1> QED
  BY <1>3, <1>6 DEF Lowest
LEMMA Limits ==
  /\ MaxHits \in Nat \ {0} /\ ChunkHits \in Nat \ {0} /\ MaxInFlight \in Nat \ {0}
  /\ IsFiniteSet({}) /\ Cardinality({}) = 0
  BY SearchAssumption, FS_EmptySet

-----------------------------------------------------------------------------
(* A scan that starts again. *)

LEMMA RestartScan ==
  ASSUME NEW s \in ScanType, NEW n, n = Restart(s)
  PROVE  /\ ScanBounds(n) /\ n.gen = s.gen + 1 /\ n.query = s.query /\ n.pages = s.pages
         /\ n.hits = {} /\ n.problem = "none" /\ n.inFlight = {}
         /\ n.query # NoQuery => n.scanned = 0 /\ n.requested = 0
<1>1. n \in ScanType
  <2> DEFINE from == IF s.pages = 0 THEN 0 ELSE Least(s.origin, s.pages - 1)
             done == IF s.query = NoQuery THEN s.pages ELSE 0
  <2>1. from \in Nat /\ done \in Nat
    BY DEF Least, ScanType
  <2>2. n = [s EXCEPT !.hits = {}, !.problem = "none", !.inFlight = {}, !.issued = 0, !.start = from,
                      !.requested = done, !.scanned = done, !.gen = @ + 1]
    BY DEF Restart
  <2> HIDE DEF from, done
  <2>3. n = [query |-> s.query, gen |-> s.gen + 1, hits |-> {}, start |-> from, origin |-> s.origin,
             requested |-> done, scanned |-> done, issued |-> 0, pages |-> s.pages, inFlight |-> {},
             problem |-> "none"]
    BY <2>2 DEF ScanType
  <2>4. s.gen + 1 \in Nat /\ s.query \in Queries \cup {NoQuery} /\ s.origin \in Nat /\ s.pages \in Nat
    BY DEF ScanType
  <2> QED
    BY <2>1, <2>3, <2>4 DEF ScanType
<1>2. /\ n.gen = s.gen + 1 /\ n.query = s.query /\ n.pages = s.pages
      /\ n.hits = {} /\ n.problem = "none" /\ n.inFlight = {}
      /\ n.requested = (IF s.query = NoQuery THEN s.pages ELSE 0) /\ n.scanned = n.requested
      /\ n.start = IF s.pages = 0 THEN 0 ELSE Least(s.origin, s.pages - 1)
  BY DEF Restart, ScanType
<1>3. n.start < n.pages \/ n.start = 0
  BY <1>2 DEF Least, ScanType
<1>4. s.pages \in Nat
  BY DEF ScanType
<1> QED
  BY <1>1, <1>2, <1>3, <1>4, FS_EmptySet, SearchAssumption DEF ScanBounds

(* A scan begun anew with r read and d presented. *)
Begun(n, old, r, d) ==
  /\ ScanBounds(n) /\ n.gen > old.gen /\ n.inFlight = {}
  /\ n.query # NoQuery =>
       /\ n.pages = Searchable(r, d) /\ n.hits \subseteq NotesOf(d, n.query)
       /\ n.problem = "none" =>
            /\ n.scanned = 0 /\ n.requested = 0
            /\ Cardinality(n.hits) < MaxHits => NotesOf(d, n.query) \subseteq n.hits

LEMMA ShapePages ==
  ASSUME NEW r \in Docs \cup {NoDoc}, NEW d \in Docs \cup {NoDoc} PROVE Searchable(r, d) \in Nat
  BY SearchAssumption DEF Searchable

LEMMA OpenScan ==
  ASSUME NEW s \in ScanType, NEW k \in Nat, NEW n, n = OpenAt(s, k)
  PROVE  /\ ScanBounds(n) /\ n.gen = s.gen + 1 /\ n.query = s.query /\ n.pages = k
         /\ n.hits = {} /\ n.problem = "none" /\ n.inFlight = {}
         /\ n.query # NoQuery => n.scanned = 0 /\ n.requested = 0
<1> DEFINE o == [s EXCEPT !.pages = k]
<1>1. o \in ScanType /\ o.gen = s.gen /\ o.query = s.query /\ o.pages = k
  BY DEF ScanType
<1>2. n = Restart(o)
  BY DEF OpenAt
<1> HIDE DEF o
<1> QED
  BY <1>1, <1>2, RestartScan

LEMMA QueryScan ==
  ASSUME NEW s \in ScanType, NEW q \in Queries \cup {NoQuery}, NEW n,
         n = Restart([s EXCEPT !.query = q])
  PROVE  /\ ScanBounds(n) /\ n.gen = s.gen + 1 /\ n.query = q /\ n.pages = s.pages
         /\ n.hits = {} /\ n.problem = "none" /\ n.inFlight = {}
         /\ n.query # NoQuery => n.scanned = 0 /\ n.requested = 0
<1> DEFINE o == [s EXCEPT !.query = q]
<1>1. o \in ScanType /\ o.gen = s.gen /\ o.query = q /\ o.pages = s.pages
  BY DEF ScanType
<1>2. n = Restart(o)
  OBVIOUS
<1> HIDE DEF o
<1> QED
  BY <1>1, <1>2, RestartScan

LEMMA ClearedBegun ==
  ASSUME ScanBounds(scan), NEW r, NEW d PROVE Begun(Cleared(scan), scan, r, d)
<1>1. scan \in ScanType /\ scan.gen \in Nat
  BY DEF ScanBounds, ScanType
<1> QED
  BY <1>1, QueryScan DEF Begun, Cleared

LEMMA NotesFinite ==
  ASSUME NEW d \in Docs \cup {NoDoc}, NEW q \in Queries
  PROVE  NotesOf(d, q) \in SUBSET Nat /\ IsFiniteSet(NotesOf(d, q))
  BY SearchAssumption, FS_EmptySet DEF NotesOf

LEMMA NotesBegun ==
  ASSUME NEW s, ScanBounds(s), s.gen > scan.gen, s.inFlight = {}, s.hits = {}, s.problem = "none",
         s.query # NoQuery, s.scanned = 0, s.requested = 0,
         NEW r, NEW d \in Docs \cup {NoDoc}, s.pages = Searchable(r, d)
  PROVE  Begun(WithNotes(s, d), scan, r, d)
<1> DEFINE q == s.query
           n == WithNotes(s, d)
<1>1. q \in Queries /\ s \in ScanType
  BY DEF ScanBounds, ScanType
<1>2. NotesOf(d, q) \in SUBSET Nat /\ IsFiniteSet(NotesOf(d, q))
  BY <1>1, NotesFinite
<1>3. CASE d = NoDoc
  <2>1. n = s /\ NotesOf(d, q) = {}
    BY <1>3 DEF WithNotes, NotesOf
  <2>2. Begun(s, scan, r, d)
    BY <2>1, FS_EmptySet DEF Begun
  <2> QED
    BY <2>1, <2>2
<1>4. CASE d # NoDoc
  <2>1. n = [s EXCEPT !.hits = Lowest({} \cup NotesOf(d, q), MaxHits)]
    <3>1. Cardinality(s.hits) = 0
      BY FS_EmptySet
    <3> QED
      BY <1>4, <3>1, SearchAssumption DEF WithNotes, Absorbed, NotesOf
  <2> DEFINE L == Lowest(NotesOf(d, q), MaxHits)
  <2>2. /\ L \subseteq NotesOf(d, q) /\ L \subseteq Nat /\ IsFiniteSet(L) /\ Cardinality(L) <= MaxHits
        /\ Cardinality(L) < MaxHits => L = NotesOf(d, q)
    BY <1>2, LowestFinite, LowestBound, LowestWhole, SearchAssumption
  <2>3. n = [s EXCEPT !.hits = L]
    BY <2>1
  <2> HIDE DEF L, n
  <2>4. /\ n \in ScanType /\ n.hits = L /\ n.query = q /\ n.gen = s.gen /\ n.inFlight = {} /\ n.pages = s.pages
        /\ n.problem = "none" /\ n.scanned = 0 /\ n.requested = 0 /\ n.start = s.start
    BY <1>1, <2>2, <2>3 DEF ScanType
  <2>5. ScanBounds(n)
    BY <2>2, <2>4 DEF ScanBounds
  <2>6. Begun(n, scan, r, d)
    BY <2>2, <2>4, <2>5 DEF Begun
  <2> QED
    BY <2>6 DEF n
<1> QED
  BY <1>3, <1>4

LEMMA RescannedBegun ==
  ASSUME ScanBounds(scan), NEW r \in Docs \cup {NoDoc}, NEW d \in Docs \cup {NoDoc}
  PROVE  Begun(Rescanned(r, d), scan, r, d)
<1> DEFINE s == OpenAt(scan, Searchable(r, d))
<1>1. scan \in ScanType /\ scan.gen \in Nat
  BY DEF ScanBounds, ScanType
<1>2. /\ ScanBounds(s) /\ s.gen = scan.gen + 1 /\ s.pages = Searchable(r, d)
      /\ s.hits = {} /\ s.problem = "none" /\ s.inFlight = {}
      /\ s.query # NoQuery => s.scanned = 0 /\ s.requested = 0
  BY <1>1, OpenScan, ShapePages
<1>3. Rescanned(r, d) = IF s.query = NoQuery THEN s ELSE WithNotes(s, d)
  BY DEF Rescanned
<1> HIDE DEF s
<1>4. CASE s.query = NoQuery
  BY <1>1, <1>2, <1>3, <1>4 DEF Begun
<1>5. CASE s.query # NoQuery
  BY <1>1, <1>2, <1>3, <1>5, NotesBegun
<1> QED
  BY <1>4, <1>5

(* The same question of the same pages. *)
SameScan(n, s) == n.gen = s.gen /\ n.query = s.query /\ n.pages = s.pages /\ n.start = s.start

LEMMA FinishedScan ==
  ASSUME NEW s, ScanBounds(s), NEW problem \in {"none", "invalid", "tooMany", "unsupported"}, NEW n,
         NEW o, o = [s EXCEPT !.problem = problem], n = Finished(o)
  PROVE  /\ ScanBounds(n) /\ n.gen = s.gen /\ n.query = s.query /\ n.pages = s.pages /\ n.start = s.start
         /\ n.hits = s.hits /\ n.problem = problem /\ n.inFlight = {}
         /\ n.requested = s.pages /\ n.scanned = s.pages
<1>1. s \in ScanType
  BY DEF ScanBounds
<1>2. n \in ScanType
  BY <1>1 DEF Finished, ScanType
<1>3. /\ n.gen = s.gen /\ n.query = s.query /\ n.pages = s.pages /\ n.start = s.start
      /\ n.hits = s.hits /\ n.problem = problem /\ n.inFlight = {}
      /\ n.requested = s.pages /\ n.scanned = s.pages
  BY <1>1 DEF Finished, ScanType
<1>4. s.pages \in Nat
  BY <1>1 DEF ScanType
<1>5. IsFiniteSet(n.inFlight) /\ Cardinality(n.inFlight) <= MaxInFlight
  BY <1>3, Limits
<1>6. IsFiniteSet(n.hits) /\ Cardinality(n.hits) <= MaxHits /\ (n.start < n.pages \/ n.start = 0)
  BY <1>3 DEF ScanBounds
<1>7. ScanBounds(n)
  BY <1>2, <1>3, <1>4, <1>5, <1>6 DEF ScanBounds
<1> QED
  BY <1>3, <1>7

LEMMA TooManyScan ==
  ASSUME NEW s, ScanBounds(s), NEW n, n = Finished([s EXCEPT !.problem = "tooMany"])
  PROVE  /\ ScanBounds(n) /\ SameScan(n, s)
         /\ n.hits = s.hits /\ n.problem = "tooMany" /\ n.requested = s.pages
<1> DEFINE p == "tooMany"
           o == [s EXCEPT !.problem = p]
<1>1. p \in {"none", "invalid", "tooMany", "unsupported"} /\ o = [s EXCEPT !.problem = p] /\ n = Finished(o)
  OBVIOUS
<1> HIDE DEF p, o
<1>2. /\ ScanBounds(n) /\ n.gen = s.gen /\ n.query = s.query /\ n.pages = s.pages /\ n.start = s.start
      /\ n.hits = s.hits /\ n.problem = p /\ n.requested = s.pages
  BY <1>1, FinishedScan
<1> QED
  BY <1>2 DEF p, SameScan

LEMMA SearchedBegun ==
  ASSUME ScanBounds(scan), {deck, reader} \subseteq Docs \cup {NoDoc}, NEW q \in Queries \cup {NoQuery}
  PROVE  Begun(Searched(q), scan, reader, deck)
<1> DEFINE o == OpenAt(scan, Searchable(reader, deck))
           s == SetQuery(o, q)
<1>1. scan \in ScanType /\ scan.gen \in Nat
  BY DEF ScanBounds, ScanType
<1>2. /\ ScanBounds(o) /\ o.gen = scan.gen + 1 /\ o.pages = Searchable(reader, deck)
      /\ o.hits = {} /\ o.problem = "none" /\ o.inFlight = {}
      /\ o.query # NoQuery => o.scanned = 0 /\ o.requested = 0
  BY <1>1, OpenScan, ShapePages
<1>3. s = IF q = o.query THEN o ELSE Restart([o EXCEPT !.query = q])
  BY DEF SetQuery
<1>4. Searched(q) = IF q = NoQuery THEN s
                    ELSE IF q \in Invalid THEN Failed(s, s.gen, "invalid") ELSE WithNotes(s, deck)
  BY DEF Searched
<1> HIDE DEF o, s
<1>5. /\ ScanBounds(s) /\ s.gen > scan.gen /\ s.pages = Searchable(reader, deck) /\ s.query = q
      /\ s.hits = {} /\ s.problem = "none" /\ s.inFlight = {}
      /\ s.query # NoQuery => s.scanned = 0 /\ s.requested = 0
  <2>1. CASE q = o.query
    BY <1>1, <1>2, <1>3, <2>1
  <2>2. CASE q # o.query
    <3>1. o \in ScanType
      BY <1>2 DEF ScanBounds
    <3> QED
      BY <1>1, <1>2, <1>3, <2>2, <3>1, QueryScan
  <2> QED
    BY <2>1, <2>2
<1>6. CASE q = NoQuery
  BY <1>4, <1>5, <1>6 DEF Begun
<1>7. CASE q # NoQuery /\ q \in Invalid
  <2>1. Searched(q) = Finished([s EXCEPT !.problem = "invalid"])
    BY <1>4, <1>7 DEF Failed
  <2> DEFINE n == Searched(q)
  <2>2. /\ ScanBounds(n) /\ n.gen = s.gen /\ n.query = s.query /\ n.pages = s.pages
        /\ n.hits = s.hits /\ n.problem = "invalid" /\ n.inFlight = {}
    <3>1. n = Finished([s EXCEPT !.problem = "invalid"])
      BY <2>1
    <3> HIDE DEF n
    <3> QED
      BY <1>5, <3>1, FinishedScan
  <2> QED
    BY <1>5, <2>2 DEF Begun
<1>8. CASE q # NoQuery /\ q \notin Invalid
  BY <1>4, <1>5, <1>8, NotesBegun
<1> QED
  BY <1>6, <1>7, <1>8

(* What a link still carries belongs to the scan so far. *)
Earlier(lk) ==
  /\ lk \in LinkType
  /\ \A i \in 1..Len(lk.asks) : lk.asks[i].kind = "FindText" => Letter(scan, lk.asks[i].chunk)
  /\ \A i \in 1..Len(lk.told) : lk.told[i].kind = "Found" =>
       Letter(scan, lk.told[i].chunk) /\ IsFiniteSet(lk.told[i].chunk.hits)

LEMMA LinkEarlier == ASSUME Typed(scan, link, pool), Letters(scan, link, pool) PROVE Earlier(link)
  BY DEF Earlier, Typed, Letters

LEMMA NoLinkEarlier == Earlier(NoLink)
<1>1. <<>> \in Seq(AskType) /\ <<>> \in Seq(ToldType)
  OBVIOUS
<1>2. NoLink \in LinkType /\ Len(NoLink.asks) = 0 /\ Len(NoLink.told) = 0
  BY <1>1 DEF NoLink, LinkType
<1> QED
  BY <1>2 DEF Earlier

LEMMA NewLinkEarlier ==
  ASSUME NEW d \in Docs PROVE Earlier(NewLink(d))
<1>1. <<>> \in Seq(AskType) /\ <<Describe>> \in Seq(AskType) /\ <<>> \in Seq(ToldType)
  BY DEF AskType
<1>2. NewLink(d) \in LinkType
  BY <1>1 DEF NewLink, LinkType
<1>3. \A i \in 1..Len(NewLink(d).asks) : NewLink(d).asks[i].kind = "Describe"
  BY DEF NewLink, Describe
<1>4. Len(NewLink(d).told) = 0
  BY DEF NewLink
<1> QED
  BY <1>2, <1>3, <1>4 DEF Earlier

(* A scan begun anew waits for nothing, and nothing is heard for it. *)
LEMMA BegunMessages ==
  ASSUME Typed(scan, link, pool), Letters(scan, link, pool),
         Begun(scan', scan, reader', deck'), Earlier(link'), pool' = pool, Places(link)'
  PROVE  Messages(scan, link, pool)'
<1>1. /\ ScanBounds(scan') /\ scan'.gen \in Nat /\ scan.gen \in Nat /\ scan'.gen > scan.gen
      /\ scan'.inFlight = {} /\ scan'.query \in Queries \cup {NoQuery} /\ scan'.pages \in Nat
      /\ scan'.scanned \in Nat /\ scan'.requested \in Nat
  BY DEF Begun, ScanBounds, ScanType, Typed
<1>2. Typed(scan', link', pool')
  BY <1>1 DEF Typed, Earlier
<1>3. /\ \A i \in 1..Len(link'.asks) : ~AskOf(link', i, scan'.gen)
      /\ \A i \in 1..Len(link'.told) : ~ToldOf(link', i, scan'.gen)
      /\ \A a \in pool' : a.chunk.gen # scan'.gen
  <2>1. \A c : Letter(scan, c) => c.gen # scan'.gen
    BY <1>1 DEF Letter
  <2> QED
    BY <2>1 DEF Earlier, AskOf, ToldOf, Letters
<1>4. Letters(scan', link', pool')
  <2>1. \A c : c.gen \in Nat /\ Letter(scan, c) => Letter(scan', c)
    BY <1>1 DEF Letter
  <2>2. \A i \in 1..Len(link'.asks) : link'.asks[i].kind = "FindText" => link'.asks[i].chunk.gen \in Nat
    <3>1. link'.asks \in Seq(AskType)
      BY DEF Earlier, LinkType
    <3>2. \A i \in 1..Len(link'.asks) : link'.asks[i] \in AskType
      BY <3>1, ElementOfSeq
    <3> QED
      BY <3>2 DEF AskType, Chunks, Describe
  <2>3. \A i \in 1..Len(link'.told) : link'.told[i].kind = "Found" => link'.told[i].chunk.gen \in Nat
    <3>1. link'.told \in Seq(ToldType)
      BY DEF Earlier, LinkType
    <3>2. \A i \in 1..Len(link'.told) : link'.told[i] \in ToldType
      BY <3>1, ElementOfSeq
    <3> QED
      BY <3>2 DEF ToldType, Answers
  <2>4. \A a \in pool' : a.chunk.gen \in Nat
    BY DEF Typed, PoolType, Chunks
  <2> QED
    BY <1>3, <2>1, <2>2, <2>3, <2>4 DEF Letters, Earlier
<1>5. Reported(scan', link')
  BY <1>3 DEF Reported
<1>6. Asks(scan, pool)'
  BY <1>3 DEF Asks
<1>7. Shape(scan)'
  <2>1. {deck', reader'} \subseteq Docs \cup {NoDoc}
    BY DEF Places
  <2> QED
    BY <1>1, <2>1 DEF Shape, Begun
<1>8. Due(scan'.gen, link', pool') = {}
  BY <1>3 DEF Due
<1>9. Read(scan, {})'
  <2>1. Counted(scan', {}, {})
    BY <1>1, Limits DEF Counted, Begun
  <2>2. Content(scan, {})'
    BY DEF Content
  <2>3. {} \in SUBSET (0..scan'.pages)
    OBVIOUS
  <2> QED
    BY <2>1, <2>2, <2>3 DEF Read
<1>10. Once(scan, link, pool)'
  BY <1>1, <1>8 DEF Once, Each
<1> QED
  BY <1>2, <1>4, <1>5, <1>6, <1>7, <1>8, <1>9, <1>10 DEF Messages

-----------------------------------------------------------------------------
(* Asking for more. *)

LEMMA NextChunkRight ==
  ASSUME NEW n, ScanBounds(n), More(n), NEW c, c = NextChunk(n)
  PROVE  /\ c \in Chunks /\ c.gen = n.gen /\ c.query = n.query /\ c.from < c.to /\ c.to <= n.pages
         /\ Behind(n, c.from) = n.requested /\ n.requested + (c.to - c.from) <= n.pages
         /\ c.from >= n.start \/ c.to <= n.start
<1>1. /\ n.start \in Nat /\ n.requested \in Nat /\ n.pages \in Nat /\ n.pages > 0 /\ n.start < n.pages
      /\ n.requested < n.pages /\ n.issued \in Nat /\ n.query \in Queries /\ n.gen \in Nat
  BY DEF ScanBounds, ScanType, More
<1> DEFINE from == (n.start + n.requested) % n.pages
           size == Least(ChunkPages(n.issued), Least(n.pages - n.requested, n.pages - from))
<1>2. from = IF n.start + n.requested < n.pages THEN n.start + n.requested
             ELSE n.start + n.requested - n.pages
  <2>1. n.start + n.requested \in Nat /\ n.start + n.requested < 2 * n.pages
    BY <1>1
  <2> QED
    <3> DEFINE a == n.start + n.requested
               b == n.pages
    <3>1. a \in Nat /\ b \in Nat /\ b > 0 /\ a < 2 * b
      BY <1>1, <2>1
    <3> HIDE DEF a, b
    <3>2. a % b = IF a < b THEN a ELSE a - b
      BY <3>1, Modulus
    <3> QED
      BY <1>1, <3>2 DEF a, b, from
<1>3. c = [gen |-> n.gen, query |-> n.query, from |-> from, to |-> from + size]
  BY DEF NextChunk
<1>4. ChunkPages(n.issued) \in Nat \ {0}
  BY <1>1, ChunkPagesPositive
<1> HIDE DEF from
<1>5. from \in Nat /\ from < n.pages
  BY <1>1, <1>2
<1>6. /\ size \in Nat \ {0} /\ size <= n.pages - n.requested /\ size <= n.pages - from
  BY <1>1, <1>4, <1>5 DEF Least
<1> HIDE DEF size
<1>7. Behind(n, from) = n.requested
  BY <1>1, <1>2, <1>5 DEF Behind
<1>8. from >= n.start \/ from + size <= n.start
  BY <1>1, <1>2, <1>5, <1>6
<1>9. c \in Chunks
  BY <1>1, <1>3, <1>5, <1>6 DEF Chunks
<1> QED
  BY <1>1, <1>3, <1>5, <1>6, <1>7, <1>8, <1>9

(* What asking makes of scan s: scan n, and the chunks c asked for. *)
Extent(s, n, c) ==
  /\ c.gen = s.gen /\ c.query = s.query /\ c.from < c.to /\ c.to <= s.pages
  /\ s.requested <= Behind(s, c.from) /\ Behind(s, c.from) + (c.to - c.from) <= n.requested
  /\ c.from >= s.start \/ c.to <= s.start

Pumped(s, n, c) ==
  /\ ScanBounds(n) /\ c \in Seq(Chunks)
  /\ n.query = s.query /\ n.gen = s.gen /\ n.hits = s.hits /\ n.start = s.start
  /\ n.pages = s.pages /\ n.problem = s.problem /\ n.scanned = s.scanned
  /\ c # <<>> => s.query # NoQuery /\ Cardinality(s.hits) < MaxHits
  /\ s.requested <= n.requested
  /\ n.requested = s.requested <=> c = <<>>
  /\ \A i \in 1..Len(c) : Extent(s, n, c[i])
  /\ \A i, j \in 1..Len(c) :
       i < j => Behind(s, c[i].from) + (c[i].to - c[i].from) <= Behind(s, c[j].from)
  /\ \A f : f \in n.inFlight <=> f \in s.inFlight \/ \E i \in 1..Len(c) : c[i].from = f

LEMMA PumpedNone == ASSUME NEW s, ScanBounds(s) PROVE Pumped(s, s, <<>>)
<1>1. s.requested \in Nat
  BY DEF ScanBounds, ScanType
<1>2. <<>> \in Seq(Chunks) /\ Len(<<>>) = 0
  OBVIOUS
<1> QED
  BY <1>1, <1>2 DEF Pumped

LEMMA RequestedScan ==
  ASSUME NEW n, ScanBounds(n), More(n), NEW m, m = Requested(n)
  PROVE  LET c == NextChunk(n) IN
         /\ ScanBounds(m) /\ m.requested = n.requested + (c.to - c.from)
         /\ m.inFlight = n.inFlight \cup {c.from}
         /\ m.query = n.query /\ m.gen = n.gen /\ m.hits = n.hits /\ m.start = n.start
         /\ m.pages = n.pages /\ m.problem = n.problem /\ m.scanned = n.scanned
<1> DEFINE c == NextChunk(n)
           asked == n.requested + (c.to - c.from)
           out == n.inFlight \cup {c.from}
<1>1. /\ c \in Chunks /\ c.from < c.to /\ n.requested + (c.to - c.from) <= n.pages
  BY NextChunkRight
<1>2. c.from \in Nat /\ c.to \in Nat
  BY <1>1 DEF Chunks
<1>3. m = [n EXCEPT !.requested = asked, !.issued = @ + 1, !.inFlight = out]
  BY DEF Requested
<1> HIDE DEF c
<1>4. n \in ScanType /\ n.scanned <= n.requested /\ n.requested \in Nat /\ n.scanned \in Nat /\ n.inFlight \subseteq Nat
  BY DEF ScanBounds, ScanType
<1>5. asked \in Nat /\ out \subseteq Nat /\ n.requested < asked /\ asked <= n.pages
  BY <1>1, <1>2, <1>4
<1>6. IsFiniteSet(out) /\ Cardinality(out) <= MaxInFlight
  <2>1. /\ IsFiniteSet(n.inFlight) /\ Cardinality(n.inFlight) \in Nat
        /\ Cardinality(n.inFlight) < MaxInFlight
    BY FS_CardinalityType DEF ScanBounds, More
  <2>2. IsFiniteSet(out) /\ Cardinality(out) \in {Cardinality(n.inFlight), Cardinality(n.inFlight) + 1}
    BY <2>1, FS_AddElement
  <2> HIDE DEF out
  <2> QED
    BY <2>1, <2>2, Limits
<1> HIDE DEF asked, out
<1>7. m \in ScanType
  <2>1. n.issued + 1 \in Nat
    BY <1>4 DEF ScanType
  <2>2. m = [n EXCEPT !.requested = asked, !.issued = n.issued + 1, !.inFlight = out]
    BY <1>3
  <2> QED
    BY <1>4, <1>5, <2>1, <2>2 DEF ScanType
<1>8. /\ m.requested = asked /\ m.inFlight = out
      /\ m.query = n.query /\ m.gen = n.gen /\ m.hits = n.hits /\ m.start = n.start
      /\ m.pages = n.pages /\ m.problem = n.problem /\ m.scanned = n.scanned
  BY <1>3, <1>4 DEF ScanType
<1>9. m.query # NoQuery /\ m.problem = "none"
  BY <1>4, <1>8 DEF More, ScanBounds
<1>10. ScanBounds(m)
  BY <1>4, <1>5, <1>6, <1>7, <1>8, <1>9 DEF ScanBounds
<1> QED
  BY <1>8, <1>10 DEF asked, out, c

LEMMA PumpedNext ==
  ASSUME NEW s, ScanBounds(s), NEW n, NEW c, Pumped(s, n, c), More(n)
  PROVE  Pumped(s, Requested(n), Append(c, NextChunk(n)))
<1> DEFINE k == NextChunk(n)
           m == Requested(n)
           d == Append(c, k)
<1>1. /\ ScanBounds(n) /\ c \in Seq(Chunks) /\ n.query = s.query /\ n.gen = s.gen /\ n.hits = s.hits
      /\ n.start = s.start /\ n.pages = s.pages /\ n.problem = s.problem /\ n.scanned = s.scanned
      /\ s.requested <= n.requested
  BY DEF Pumped
<1>2. /\ k \in Chunks /\ k.gen = n.gen /\ k.query = n.query /\ k.from < k.to /\ k.to <= n.pages
      /\ Behind(n, k.from) = n.requested /\ n.requested + (k.to - k.from) <= n.pages
      /\ k.from >= n.start \/ k.to <= n.start
  BY <1>1, NextChunkRight
<1>3. /\ ScanBounds(m) /\ m.requested = n.requested + (k.to - k.from)
      /\ m.inFlight = n.inFlight \cup {k.from}
      /\ m.query = n.query /\ m.gen = n.gen /\ m.hits = n.hits /\ m.start = n.start
      /\ m.pages = n.pages /\ m.problem = n.problem /\ m.scanned = n.scanned
  BY <1>1, RequestedScan
<1>4. k.from \in Nat /\ k.to \in Nat
  BY <1>2 DEF Chunks
<1>5. n.requested \in Nat /\ s.requested \in Nat
  BY <1>1 DEF ScanBounds, ScanType
<1>6. \A p : Behind(n, p) = Behind(s, p)
  BY <1>1 DEF Behind
<1>7. /\ d \in Seq(Chunks) /\ Len(c) \in Nat /\ Len(d) = Len(c) + 1 /\ d[Len(c) + 1] = k /\ d # <<>>
      /\ \A i \in 1..Len(c) : d[i] = c[i]
  <2> HIDE DEF k
  <2> QED
    BY <1>1, <1>2, AppendProperties, LenProperties
<1>8. s.query # NoQuery /\ Cardinality(s.hits) < MaxHits
  BY <1>1 DEF More
<1> HIDE DEF k, m, d
<1>9. \A i \in 1..Len(c) : Extent(s, m, d[i]) /\ Behind(s, d[i].from) + (d[i].to - d[i].from) <= n.requested
  <2> SUFFICES ASSUME NEW i \in 1..Len(c)
               PROVE Extent(s, m, c[i]) /\ Behind(s, c[i].from) + (c[i].to - c[i].from) <= n.requested
    BY <1>7
  <2>1. Extent(s, n, c[i])
    BY DEF Pumped
  <2>2. c[i] \in Chunks
    BY <1>1, ElementOfSeq
  <2>3. c[i].from \in Nat /\ c[i].to \in Nat
    BY <2>2 DEF Chunks
  <2>4. Behind(s, c[i].from) \in Int
    BY <2>3 DEF Behind, ScanBounds, ScanType
  <2> QED
    BY <1>3, <1>4, <1>2, <1>5, <2>1, <2>3, <2>4 DEF Extent
<1>10. Extent(s, m, k)
  BY <1>1, <1>2, <1>3, <1>4, <1>5, <1>6 DEF Extent
<1>11. \A i \in 1..Len(d) : Extent(s, m, d[i])
  <2>1. \A i \in 1..Len(d) : i \in 1..Len(c) \/ i = Len(c) + 1
    BY <1>7
  <2> QED
    BY <1>7, <1>9, <1>10, <2>1
<1>12. \A i, j \in 1..Len(d) :
         i < j => Behind(s, d[i].from) + (d[i].to - d[i].from) <= Behind(s, d[j].from)
  <2> SUFFICES ASSUME NEW i \in 1..Len(d), NEW j \in 1..Len(d), i < j
               PROVE  Behind(s, d[i].from) + (d[i].to - d[i].from) <= Behind(s, d[j].from)
    OBVIOUS
  <2>1. i \in 1..Len(c)
    BY <1>7
  <2>2. CASE j \in 1..Len(c)
    BY <1>7, <2>1, <2>2 DEF Pumped
  <2>3. CASE j = Len(c) + 1
    BY <1>2, <1>6, <1>7, <1>9, <2>1, <2>3
  <2> QED
    BY <1>7, <2>2, <2>3
<1>13. \A f : f \in m.inFlight <=> f \in s.inFlight \/ \E i \in 1..Len(d) : d[i].from = f
  <2> SUFFICES ASSUME NEW f PROVE f \in m.inFlight <=> f \in s.inFlight \/ \E i \in 1..Len(d) : d[i].from = f
    OBVIOUS
  <2>1. f \in n.inFlight <=> f \in s.inFlight \/ \E i \in 1..Len(c) : c[i].from = f
    BY DEF Pumped
  <2>2. (\E i \in 1..Len(d) : d[i].from = f) <=> (\E i \in 1..Len(c) : c[i].from = f) \/ k.from = f
    <3>1. \A i \in 1..Len(d) : i \in 1..Len(c) \/ i = Len(c) + 1
      BY <1>7
    <3>2. Len(c) + 1 \in 1..Len(d) /\ \A i \in 1..Len(c) : i \in 1..Len(d)
      BY <1>7
    <3> QED
      BY <1>7, <3>1, <3>2
  <2> QED
    BY <1>3, <2>1, <2>2
<1>14. s.requested <= m.requested /\ m.requested # s.requested
  BY <1>1, <1>2, <1>3, <1>4, <1>5
<1> QED
  BY <1>1, <1>3, <1>7, <1>8, <1>11, <1>12, <1>13, <1>14 DEF Pumped, m, d, k

(* One more request, where there is one to make. *)
OneMore(v) ==
  {IF ~More(p.scan) THEN p
   ELSE [scan |-> Requested(p.scan), chunks |-> Append(p.chunks, NextChunk(p.scan))] : p \in v}

(* f counts the requests up to m of them. *)
Counts(f, s, m) ==
  f = [n \in 0..m |-> IF n = 0 THEN {[scan |-> s, chunks |-> <<>>]} ELSE OneMore(f[n - 1])]

LEMMA CountsExist == ASSUME NEW s, NEW M \in Nat PROVE \E f : Counts(f, s, M)
<1> DEFINE Good == {m \in Nat : \E f : Counts(f, s, m)}
           base == {[scan |-> s, chunks |-> <<>>]}
<1>1. 0 \in Good
  <2> DEFINE f == [n \in 0..0 |-> base]
  <2>1. \A n \in 0..0 : n = 0
    OBVIOUS
  <2>2. f = [n \in 0..0 |-> IF n = 0 THEN base ELSE OneMore(f[n - 1])]
    BY <2>1
  <2>3. Counts(f, s, 0)
    BY <2>2 DEF Counts
  <2> QED
    BY <2>3
<1>2. \A k \in 0..M : k \in Good /\ k < M => k + 1 \in Good
  <2> SUFFICES ASSUME NEW k \in 0..M, k \in Good PROVE k + 1 \in Good
    OBVIOUS
  <2>1. PICK f : Counts(f, s, k)
    OBVIOUS
  <2> DEFINE g == [n \in 0..k + 1 |-> IF n <= k THEN f[n] ELSE OneMore(f[k])]
             h == [n \in 0..k + 1 |-> IF n = 0 THEN base ELSE OneMore(g[n - 1])]
  <2>2. ASSUME NEW n \in 0..k + 1 PROVE g[n] = h[n]
    <3>1. CASE n = 0
      <4>1. f[0] = base
        BY <2>1 DEF Counts
      <4> QED
        BY <3>1, <4>1
    <3>2. CASE n # 0 /\ n <= k
      <4>1. n - 1 \in 0..k /\ n \in 0..k /\ n - 1 \in 0..k + 1 /\ n - 1 <= k
        BY <3>2
      <4>2. f[n] = OneMore(f[n - 1])
        <5> HIDE DEF base
        <5> QED
          BY <2>1, <3>2, <4>1 DEF Counts
      <4>3. g[n] = f[n] /\ g[n - 1] = f[n - 1] /\ h[n] = OneMore(g[n - 1])
        BY <3>2, <4>1
      <4> HIDE DEF g, h
      <4> QED
        BY <4>2, <4>3
    <3>3. CASE n = k + 1
      <4>1. n - 1 = k /\ n - 1 \in 0..k + 1 /\ ~(n <= k) /\ n # 0
        BY <3>3
      <4>2. g[n] = OneMore(f[k]) /\ g[n - 1] = f[k] /\ h[n] = OneMore(g[n - 1])
        BY <4>1
      <4> HIDE DEF g, h
      <4> QED
        BY <4>2
    <3> QED
      BY <3>1, <3>2, <3>3
  <2>3. g = h
    BY <2>2
  <2>4. Counts(g, s, k + 1)
    <3> DEFINE c == g
    <3>1. c = [n \in 0..k + 1 |-> IF n = 0 THEN base ELSE OneMore(c[n - 1])]
      BY <2>3
    <3> HIDE DEF c
    <3>2. Counts(c, s, k + 1)
      BY <3>1 DEF Counts
    <3> QED
      BY <3>2 DEF c
  <2> HIDE DEF g
  <2> QED
    BY <2>4
<1>3. 0..M \subseteq Good
  <2> HIDE DEF Good
  <2> QED
    BY <1>1, <1>2, NumberInduction
<1> QED
  BY <1>3

LEMMA AskedPumped ==
  ASSUME NEW s, ScanBounds(s), NEW p \in Asked(s) PROVE Pumped(s, p.scan, p.chunks)
<1> DEFINE M == MaxInFlight
           f == CHOOSE g : Counts(g, s, M)
<1>1. Asked(s) = f[M]
  BY DEF Asked, Counts, OneMore
<1>2. Counts(f, s, M)
  BY CountsExist, Limits
<1> HIDE DEF f
<1> DEFINE Good == {n \in Nat : n <= M => \A v \in f[n] : Pumped(s, v.scan, v.chunks)}
<1>3. f[0] = {[scan |-> s, chunks |-> <<>>]}
  BY <1>2, Limits DEF Counts
<1>4. \A n \in 0..M : n < M => f[n + 1] = OneMore(f[n])
  <2> SUFFICES ASSUME NEW n \in 0..M, n < M PROVE f[n + 1] = OneMore(f[n])
    OBVIOUS
  <2>1. n + 1 \in 0..M /\ n + 1 # 0 /\ (n + 1) - 1 = n
    BY Limits
  <2> QED
    BY <1>2, <2>1 DEF Counts
<1>5. 0 \in Good
  BY <1>3, PumpedNone
<1>6. \A n \in 0..M : n \in Good /\ n < M => n + 1 \in Good
  <2> SUFFICES ASSUME NEW n \in 0..M, n \in Good, n < M, NEW v \in f[n + 1]
               PROVE  Pumped(s, v.scan, v.chunks)
    BY Limits
  <2>1. PICK u \in f[n] : v = IF ~More(u.scan) THEN u
                              ELSE [scan |-> Requested(u.scan), chunks |-> Append(u.chunks, NextChunk(u.scan))]
    BY <1>4 DEF OneMore
  <2>2. Pumped(s, u.scan, u.chunks)
    BY Limits
  <2>3. CASE ~More(u.scan)
    BY <2>1, <2>2, <2>3
  <2>4. CASE More(u.scan)
    BY <2>1, <2>2, <2>4, PumpedNext
  <2> QED
    BY <2>3, <2>4
<1>7. 0..M \subseteq Good
  <2>1. M \in Nat
    BY Limits
  <2> HIDE DEF Good, M
  <2> QED
    BY <1>5, <1>6, <2>1, NumberInduction
<1> QED
  BY <1>1, <1>7, Limits

(* The chunks c were posted to the link, or asked of the pool. *)
Posted(lk, c, n) ==
  /\ n \in LinkType /\ n.doc = lk.doc /\ n.alive = lk.alive /\ n.told = lk.told
  /\ Len(n.asks) = Len(lk.asks) + Len(c)
  /\ \A i \in 1..Len(lk.asks) : n.asks[i] = lk.asks[i]
  /\ \A i \in 1..Len(c) : n.asks[Len(lk.asks) + i] = FindText(c[i])
  /\ c = <<>> => n = lk

PoolAsked(pl, c) == pl \cup {[doc |-> deck, chunk |-> c[i]] : i \in 1..Len(c)}

LinkPumps(s, lk, pl, c) ==
  /\ Pumped(s, scan', c) /\ (c = <<>> \/ lk.alive) /\ Posted(lk, c, link') /\ pool' = pl
PoolPumps(s, lk, pl, c) ==
  /\ Pumped(s, scan', c) /\ ~lk.alive /\ deck # NoDoc /\ link' = lk /\ pool' = PoolAsked(pl, c)
NobodyPumps(s, lk, pl) ==
  link' = lk /\ pool' = pl /\ scan' = Finished([s EXCEPT !.problem = "unsupported"])

LEMMA PostedNone == ASSUME NEW lk \in LinkType PROVE Posted(lk, <<>>, lk)
  BY DEF Posted, LinkType

LEMMA AskedPosted ==
  ASSUME NEW lk \in LinkType, NEW c \in Seq(Chunks), NEW n,
         n = [lk EXCEPT !.asks = @ \o [i \in DOMAIN c |-> FindText(c[i])]]
  PROVE  Posted(lk, c, n)
<1> DEFINE new == [i \in DOMAIN c |-> FindText(c[i])]
           all == lk.asks \o new
<1>1. lk.asks \in Seq(AskType) /\ Len(lk.asks) \in Nat /\ Len(c) \in Nat /\ DOMAIN c = 1..Len(c)
  BY LenProperties DEF LinkType
<1>2. \A i \in 1..Len(c) : FindText(c[i]) \in AskType
  BY ElementOfSeq DEF FindText, AskType
<1>3. new \in Seq(AskType) /\ Len(new) = Len(c) /\ \A i \in 1..Len(c) : new[i] = FindText(c[i])
  BY <1>1, <1>2
<1> HIDE DEF new
<1>4. /\ all \in Seq(AskType) /\ Len(all) = Len(lk.asks) + Len(c)
      /\ \A i \in 1..Len(lk.asks) + Len(c) :
           all[i] = IF i <= Len(lk.asks) THEN lk.asks[i] ELSE new[i - Len(lk.asks)]
  <2>1. \A u, v \in Seq(AskType) :
          /\ u \o v \in Seq(AskType) /\ Len(u \o v) = Len(u) + Len(v)
          /\ \A i \in 1..Len(u) + Len(v) : (u \o v)[i] = IF i <= Len(u) THEN u[i] ELSE v[i - Len(u)]
    BY ConcatProperties
  <2>2. Len(new) = Len(c) /\ new \in Seq(AskType) /\ lk.asks \in Seq(AskType)
    BY <1>1, <1>3
  <2> QED
    BY <2>1, <2>2
<1>5. /\ \A i \in 1..Len(lk.asks) : all[i] = lk.asks[i]
      /\ \A i \in 1..Len(c) : all[Len(lk.asks) + i] = FindText(c[i])
  <2>1. ASSUME NEW i \in 1..Len(lk.asks) PROVE all[i] = lk.asks[i]
    BY <1>1, <1>4
  <2>2. ASSUME NEW i \in 1..Len(c) PROVE all[Len(lk.asks) + i] = FindText(c[i])
    <3>1. /\ Len(lk.asks) + i \in 1..Len(lk.asks) + Len(c) /\ ~(Len(lk.asks) + i <= Len(lk.asks))
          /\ (Len(lk.asks) + i) - Len(lk.asks) = i
      BY <1>1
    <3> HIDE DEF all
    <3> QED
      BY <1>3, <1>4, <3>1
  <2> QED
    BY <2>1, <2>2
<1>6. n = [lk EXCEPT !.asks = all]
  BY DEF new
<1>7. c = <<>> => n = lk
  <2> SUFFICES ASSUME c = <<>> PROVE n = lk
    OBVIOUS
  <2>1. new = <<>>
    BY <1>1, <1>3
  <2>2. all = lk.asks
    BY <1>1, <2>1, ConcatEmptySeq
  <2> HIDE DEF all
  <2> QED
    BY <1>6, <2>2 DEF LinkType
<1> HIDE DEF all
<1>8. n \in LinkType /\ n.doc = lk.doc /\ n.alive = lk.alive /\ n.told = lk.told /\ n.asks = all
  BY <1>4, <1>6 DEF LinkType
<1> QED
  BY <1>4, <1>5, <1>7, <1>8 DEF Posted

LEMMA PumpSteps ==
  ASSUME NEW s, ScanBounds(s), NEW lk \in LinkType, NEW pl, PumpNow(s, lk, pl)
  PROVE  (\E c : LinkPumps(s, lk, pl, c) \/ PoolPumps(s, lk, pl, c)) \/ NobodyPumps(s, lk, pl)
<1>1. CASE scan' = s /\ link' = lk /\ pool' = pl
  <2>1. LinkPumps(s, lk, pl, <<>>)
    BY <1>1, PumpedNone, PostedNone DEF LinkPumps
  <2> QED
    BY <2>1
<1>2. CASE Pump(s, lk, pl)
  <2>1. PICK p \in Asked(s) :
          IF lk.alive
            THEN /\ scan' = p.scan
                 /\ link' = [lk EXCEPT !.asks = @ \o [i \in DOMAIN p.chunks |-> FindText(p.chunks[i])]]
                 /\ pool' = pl
            ELSE /\ link' = lk
                 /\ IF deck # NoDoc
                      THEN /\ scan' = p.scan
                           /\ pool' = pl \cup {[doc |-> deck, chunk |-> p.chunks[i]] : i \in DOMAIN p.chunks}
                      ELSE /\ scan' = IF More(s) THEN Failed(s, s.gen, "unsupported") ELSE s
                           /\ pool' = pl
    BY <1>2 DEF Pump
  <2> DEFINE c == p.chunks
  <2>2. Pumped(s, p.scan, c)
    BY AskedPumped
  <2>3. c \in Seq(Chunks) /\ DOMAIN c = 1..Len(c)
    BY <2>2 DEF Pumped
  <2>4. CASE lk.alive
    <3>1. Posted(lk, c, link')
      BY <2>1, <2>3, <2>4, AskedPosted
    <3>2. LinkPumps(s, lk, pl, c)
      BY <2>1, <2>2, <2>4, <3>1 DEF LinkPumps
    <3> QED
      BY <3>2
  <2>5. CASE ~lk.alive /\ deck # NoDoc
    <3>1. PoolPumps(s, lk, pl, c)
      BY <2>1, <2>2, <2>3, <2>5 DEF PoolPumps, PoolAsked
    <3> QED
      BY <3>1
  <2>6. CASE ~lk.alive /\ deck = NoDoc
    <3>1. link' = lk /\ pool' = pl /\ scan' = IF More(s) THEN Failed(s, s.gen, "unsupported") ELSE s
      BY <2>1, <2>6
    <3> QED
      BY <1>1, <3>1 DEF NobodyPumps, Failed
  <2> QED
    BY <2>4, <2>5, <2>6
<1> QED
  BY <1>1, <1>2 DEF PumpNow

-----------------------------------------------------------------------------
(* What is due, and how it is counted. *)

LEMMA DueAsk ==
  ASSUME NEW lk \in LinkType, NEW pl, NEW g, NEW i \in 1..Len(lk.asks), AskOf(lk, i, g)
  PROVE  [from |-> lk.asks[i].chunk.from, to |-> lk.asks[i].chunk.to] \in Due(g, lk, pl)
<1>1. lk.asks[i] \in AskType
  BY ElementOfSeq DEF LinkType
<1>2. lk.asks[i].chunk.from \in Nat /\ lk.asks[i].chunk.to \in Nat
  BY <1>1 DEF AskType, AskOf, Describe, Chunks
<1> QED
  BY <1>2 DEF Due

LEMMA DueTold ==
  ASSUME NEW lk \in LinkType, NEW pl, NEW g, NEW i \in 1..Len(lk.told), ToldOf(lk, i, g)
  PROVE  [from |-> lk.told[i].chunk.from, to |-> lk.told[i].chunk.to] \in Due(g, lk, pl)
<1>1. lk.told[i] \in ToldType
  BY ElementOfSeq DEF LinkType
<1>2. lk.told[i].chunk.from \in Nat /\ lk.told[i].chunk.to \in Nat
  BY <1>1 DEF ToldType, ToldOf, Answers
<1> QED
  BY <1>2 DEF Due

LEMMA DuePool ==
  ASSUME NEW lk, NEW pl \in SUBSET PoolType, NEW g, NEW a \in pl, a.chunk.gen = g
  PROVE  [from |-> a.chunk.from, to |-> a.chunk.to] \in Due(g, lk, pl)
  BY DEF Due, PoolType, Chunks

(* Chunks that lie one after the other in the order of the scan share no page. *)
LEMMA BehindApart ==
  ASSUME NEW s \in ScanType, NEW a \in Nat, NEW b \in Nat, NEW c \in Nat, NEW d \in Nat,
         a < b, c < d, b <= s.pages, d <= s.pages,
         a >= s.start \/ b <= s.start, c >= s.start \/ d <= s.start,
         Behind(s, a) + (b - a) <= Behind(s, c)
  PROVE  (b <= c \/ d <= a) /\ a # c
  BY DEF Behind, ScanType

LEMMA BehindWithin ==
  ASSUME NEW s \in ScanType, NEW a \in Nat, NEW b \in Nat, NEW p \in Nat,
         a <= p, p < b, a >= s.start \/ b <= s.start
  PROVE  Behind(s, p) = Behind(s, a) + (p - a)
  BY DEF Behind, ScanType

(* The chunks D2 are due: those of D, or the ones that were just asked for. *)
Grown(D2, D, c) ==
  \A m \in D2 : m \in D \/ \E i \in 1..Len(c) : m.from = c[i].from /\ m.to = c[i].to
NoneAgain(D, c) == \A m \in D : m.from < m.to => \A i \in 1..Len(c) : m.from # c[i].from

LEMMA PumpedCounted ==
  ASSUME NEW s, s \in ScanType, NEW n, NEW c, Pumped(s, n, c),
         NEW D, D \in SUBSET [from : Nat, to : Nat], NEW D2, D2 \in SUBSET [from : Nat, to : Nat],
         NEW R, R \in SUBSET Nat, Counted(s, D, R), Grown(D2, D, c)
  PROVE  Counted(n, D2, R) /\ NoneAgain(D, c)
<1>1. /\ s.requested \in Nat /\ n.requested \in Nat /\ s.requested <= n.requested
      /\ n.query = s.query /\ n.problem = s.problem /\ n.start = s.start /\ n.pages = s.pages
      /\ n.scanned = s.scanned /\ s.pages \in Nat /\ s.start \in Nat
  BY DEF Pumped, ScanBounds, ScanType
<1>2. \A p : Behind(n, p) = Behind(s, p)
  BY <1>1 DEF Behind
<1>3. \A i \in 1..Len(c) : /\ c[i].from \in Nat /\ c[i].to \in Nat /\ Extent(s, n, c[i])
  <2> SUFFICES ASSUME NEW i \in 1..Len(c) PROVE c[i].from \in Nat /\ c[i].to \in Nat /\ Extent(s, n, c[i])
    OBVIOUS
  <2>1. c \in Seq(Chunks) /\ Extent(s, n, c[i])
    BY DEF Pumped
  <2>2. c[i] \in Chunks
    BY <2>1, ElementOfSeq
  <2> QED
    BY <2>1, <2>2 DEF Chunks
<1>4. \A m \in D : m.from \in Nat /\ m.to \in Nat
  OBVIOUS
<1>5. \A p \in Nat : Behind(s, p) \in Int
  BY <1>1 DEF Behind
<1>6. ASSUME NEW m \in D, m.from < m.to, NEW i \in 1..Len(c)
      PROVE  m.from # c[i].from /\ (m.to <= c[i].from \/ c[i].to <= m.from)
  <2>1. /\ m.to <= s.pages /\ Behind(s, m.from) + (m.to - m.from) <= s.requested
        /\ m.from >= s.start \/ m.to <= s.start
    BY <1>6 DEF Counted
  <2>2. /\ c[i].from < c[i].to /\ c[i].to <= s.pages /\ s.requested <= Behind(s, c[i].from)
        /\ c[i].from >= s.start \/ c[i].to <= s.start
    BY <1>3 DEF Extent
  <2>3. Behind(s, m.from) + (m.to - m.from) <= Behind(s, c[i].from)
    <3>1. Behind(s, m.from) \in Int /\ Behind(s, c[i].from) \in Int /\ m.from \in Nat /\ m.to \in Nat
      BY <1>3, <1>4, <1>5
    <3> QED
      BY <1>1, <2>1, <2>2, <3>1
  <2> QED
    BY <1>3, <1>4, <1>6, <2>1, <2>2, <2>3, BehindApart
<1>7. ASSUME NEW i \in 1..Len(c), NEW j \in 1..Len(c), i < j
      PROVE  c[i].to <= c[j].from \/ c[j].to <= c[i].from
  <2>1. Behind(s, c[i].from) + (c[i].to - c[i].from) <= Behind(s, c[j].from)
    BY <1>7 DEF Pumped
  <2>2. /\ c[i].from < c[i].to /\ c[i].to <= s.pages /\ c[j].from < c[j].to /\ c[j].to <= s.pages
        /\ c[i].from >= s.start \/ c[i].to <= s.start
        /\ c[j].from >= s.start \/ c[j].to <= s.start
    BY <1>3 DEF Extent
  <2> QED
    BY <1>3, <2>1, <2>2, BehindApart
<1>8. ASSUME NEW m \in D2, m.from < m.to
      PROVE  /\ m.to <= n.pages /\ Behind(n, m.from) + (m.to - m.from) <= n.requested
             /\ m.from >= n.start \/ m.to <= n.start
  <2>1. CASE m \in D
    <3>1. /\ m.to <= s.pages /\ Behind(s, m.from) + (m.to - m.from) <= s.requested
          /\ m.from >= s.start \/ m.to <= s.start
      BY <1>8, <2>1 DEF Counted
    <3>2. Behind(s, m.from) \in Int /\ m.from \in Nat /\ m.to \in Nat
      BY <1>4, <1>5, <2>1
    <3> QED
      BY <1>1, <1>2, <3>1, <3>2
  <2>2. CASE \E i \in 1..Len(c) : m.from = c[i].from /\ m.to = c[i].to
    BY <1>1, <1>2, <1>3, <2>2 DEF Extent
  <2> QED
    BY <2>1, <2>2 DEF Grown
<1>9. ASSUME NEW m \in D2, NEW k \in D2, m.from < m.to, k.from < k.to
      PROVE  m.from = k.from \/ m.to <= k.from \/ k.to <= m.from
  <2>1. CASE m \in D /\ k \in D
    BY <1>9, <2>1 DEF Counted
  <2>2. CASE m \in D /\ \E i \in 1..Len(c) : k.from = c[i].from /\ k.to = c[i].to
    BY <1>6, <1>9, <2>2
  <2>3. CASE k \in D /\ \E i \in 1..Len(c) : m.from = c[i].from /\ m.to = c[i].to
    BY <1>6, <1>9, <2>3
  <2>4. CASE /\ \E i \in 1..Len(c) : m.from = c[i].from /\ m.to = c[i].to
             /\ \E i \in 1..Len(c) : k.from = c[i].from /\ k.to = c[i].to
    <3>1. PICK i \in 1..Len(c) : m.from = c[i].from /\ m.to = c[i].to
      BY <2>4
    <3>2. PICK j \in 1..Len(c) : k.from = c[j].from /\ k.to = c[j].to
      BY <2>4
    <3>3. i < j \/ j < i \/ i = j
      BY LenProperties DEF Pumped
    <3> QED
      BY <1>7, <3>1, <3>2, <3>3
  <2> QED
    BY <2>1, <2>2, <2>3, <2>4 DEF Grown
<1>10. ASSUME s.problem = "none", s.query # NoQuery
       PROVE  /\ \A p \in R : p < n.pages /\ Behind(n, p) < n.requested
              /\ n.scanned <= Cardinality(R)
              /\ \A m \in D2 : m.from \in n.inFlight => \A p \in R : ~Covers(m, p)
  <2>1. /\ \A p \in R : p < s.pages /\ Behind(s, p) < s.requested
        /\ s.scanned <= Cardinality(R)
        /\ \A m \in D : m.from \in s.inFlight => \A p \in R : ~Covers(m, p)
    BY <1>10 DEF Counted
  <2>2. ASSUME NEW p \in R PROVE p < n.pages /\ Behind(n, p) < n.requested
    <3>1. Behind(s, p) \in Int /\ Behind(n, p) = Behind(s, p) /\ Behind(s, p) < s.requested /\ p < s.pages
      BY <1>2, <1>5, <2>1
    <3> QED
      BY <1>1, <3>1
  <2>3. ASSUME NEW m \in D2, m.from \in n.inFlight, NEW p \in R, Covers(m, p) PROVE FALSE
    <3>1. p \in Nat /\ m.from \in Nat /\ m.to \in Nat /\ m.from <= p /\ p < m.to /\ m.from < m.to
      BY <2>3 DEF Covers
    <3>2. CASE m \in D
      <4>1. m.from \in s.inFlight
        BY <1>6, <2>3, <3>1, <3>2 DEF Pumped
      <4> QED
        BY <2>1, <2>3, <3>2, <4>1
    <3>3. CASE \E i \in 1..Len(c) : m.from = c[i].from /\ m.to = c[i].to
      <4>1. PICK i \in 1..Len(c) : m.from = c[i].from /\ m.to = c[i].to
        BY <3>3
      <4>2. s.requested <= Behind(s, m.from) /\ (m.from >= s.start \/ m.to <= s.start)
        BY <1>3, <4>1 DEF Extent
      <4>3. Behind(s, p) = Behind(s, m.from) + (p - m.from)
        BY <3>1, <4>2, BehindWithin
      <4>4. Behind(s, p) < s.requested
        BY <2>1
      <4> QED
        <5>1. Behind(s, p) \in Int /\ Behind(s, m.from) \in Int
          BY <1>5, <3>1
        <5> QED
          BY <1>1, <3>1, <4>2, <4>3, <4>4, <5>1
    <3> QED
      BY <3>2, <3>3 DEF Grown
  <2> QED
    BY <1>1, <2>1, <2>2, <2>3
<1>11. Counted(n, D2, R)
  BY <1>1, <1>8, <1>9, <1>10 DEF Counted
<1> QED
  BY <1>6, <1>11 DEF NoneAgain

-----------------------------------------------------------------------------
(* A pump keeps what holds of the scan and its messages. *)

Still == UNCHANGED <<deck, reader, preopened, coming, preparing, faults>>

LEMMA PumpedContent ==
  ASSUME NEW s, NEW c, Pumped(s, scan', c), Still, link'.alive = link.alive, NEW R, Content(s, R)
  PROVE  Content(scan, R)'
<1>1. /\ scan'.query = s.query /\ scan'.hits = s.hits /\ scan'.problem = s.problem
      /\ faults' = faults /\ Source' = Source
  BY DEF Pumped, Still, Source
<1>2. \A p : Missing(p)' <=> Missing(p)
  BY DEF Missing, Beyond, Still
<1> QED
  BY <1>1, <1>2 DEF Content

LEMMA PumpedShape ==
  ASSUME NEW s, ScanBounds(s), NEW c, Pumped(s, scan', c), Still, Shape(s)
  PROVE  Shape(scan)'
<1>1. /\ scan'.query = s.query /\ scan'.hits = s.hits /\ scan'.pages = s.pages /\ scan'.problem = s.problem
      /\ c # <<>> => Cardinality(s.hits) < MaxHits
      /\ c = <<>> => scan'.requested = s.requested
  BY DEF Pumped
<1>2. /\ deck' = deck /\ reader' = reader /\ faults' = faults /\ preparing' = preparing
      /\ Source' = Source
  BY DEF Still, Source
<1> QED
  BY <1>1, <1>2 DEF Shape

LEMMA PumpedLetter ==
  ASSUME NEW s, NEW c, Pumped(s, scan', c)
  PROVE  /\ scan'.gen = s.gen /\ scan'.query = s.query
         /\ \A i \in 1..Len(c) :
              /\ c[i] \in Chunks /\ c[i].gen = s.gen /\ c[i].query = s.query /\ Letter(s, c[i])
              /\ c[i].from < c[i].to
<1>1. scan'.gen = s.gen /\ scan'.query = s.query /\ c \in Seq(Chunks) /\ scan'.gen \in Nat
  BY DEF Pumped, ScanBounds, ScanType
<1>2. ASSUME NEW i \in 1..Len(c)
      PROVE  /\ c[i] \in Chunks /\ c[i].gen = s.gen /\ c[i].query = s.query /\ c[i].from < c[i].to
    <2>1. Extent(s, scan', c[i])
      BY DEF Pumped
    <2>2. c[i] \in Chunks
      BY <1>1, ElementOfSeq
    <2> QED
      BY <2>1, <2>2 DEF Extent
<1>3. ASSUME NEW i \in 1..Len(c) PROVE Letter(s, c[i])
  BY <1>1, <1>2, <1>3 DEF Letter, Chunks
<1> QED
  BY <1>1, <1>2, <1>3

LEMMA LinkPumpsDue ==
  ASSUME NEW s, NEW lk \in LinkType, NEW pl, NEW c, LinkPumps(s, lk, pl, c), NEW g,
         NEW m \in Due(g, link', pool')
  PROVE  m \in Due(g, lk, pl) \/ \E i \in 1..Len(c) : m.from = c[i].from /\ m.to = c[i].to
<1>1. /\ link'.told = lk.told /\ pool' = pl /\ Len(link'.asks) = Len(lk.asks) + Len(c)
      /\ \A i \in 1..Len(lk.asks) : link'.asks[i] = lk.asks[i]
      /\ \A i \in 1..Len(c) : link'.asks[Len(lk.asks) + i] = FindText(c[i])
  BY DEF LinkPumps, Posted
<1>2. Len(lk.asks) \in Nat /\ Len(c) \in Nat
  BY LenProperties DEF LinkType, LinkPumps, Pumped
<1>3. m \in [from : Nat, to : Nat]
  BY DEF Due
<1>4. CASE \E i \in 1..Len(link'.asks) :
             AskOf(link', i, g) /\ link'.asks[i].chunk.from = m.from /\ link'.asks[i].chunk.to = m.to
  <2>1. PICK i \in 1..Len(link'.asks) :
             AskOf(link', i, g) /\ link'.asks[i].chunk.from = m.from /\ link'.asks[i].chunk.to = m.to
    BY <1>4
  <2>2. CASE i \in 1..Len(lk.asks)
    BY <1>1, <1>3, <2>1, <2>2 DEF Due, AskOf
  <2>3. CASE i \notin 1..Len(lk.asks)
    <3> DEFINE j == i - Len(lk.asks)
    <3>1. j \in 1..Len(c) /\ Len(lk.asks) + j = i
      BY <1>1, <1>2, <2>3
    <3>2. link'.asks[i] = FindText(c[j])
      BY <1>1, <3>1
    <3> HIDE DEF j
    <3> QED
      BY <2>1, <3>1, <3>2 DEF FindText
  <2> QED
    BY <2>2, <2>3
<1>5. CASE \/ \E i \in 1..Len(link'.told) :
                ToldOf(link', i, g) /\ link'.told[i].chunk.from = m.from /\ link'.told[i].chunk.to = m.to
           \/ \E a \in pool' : a.chunk.gen = g /\ a.chunk.from = m.from /\ a.chunk.to = m.to
  BY <1>1, <1>3, <1>5 DEF Due, ToldOf
<1> QED
  BY <1>4, <1>5 DEF Due

LEMMA PumpedApart ==
  ASSUME NEW s \in ScanType, NEW c, NEW n, Pumped(s, n, c)
  PROVE  \A i, j \in 1..Len(c) : c[i].from = c[j].from => i = j
<1>1. ASSUME NEW i \in 1..Len(c), NEW j \in 1..Len(c), i < j PROVE c[i].from # c[j].from
  <2>1. Behind(s, c[i].from) + (c[i].to - c[i].from) <= Behind(s, c[j].from)
    BY <1>1 DEF Pumped
  <2>2. c[i].from \in Nat /\ c[i].to \in Nat /\ c[i].from < c[i].to
    <3>1. Extent(s, n, c[i]) /\ c \in Seq(Chunks)
      BY DEF Pumped
    <3>2. c[i] \in Chunks
      BY <3>1, ElementOfSeq
    <3> QED
      BY <3>1, <3>2 DEF Extent, Chunks
  <2>3. Behind(s, c[i].from) \in Int
    BY <2>2 DEF Behind, ScanType
  <2> QED
    BY <2>1, <2>2, <2>3
<1>2. Len(c) \in Nat
  BY LenProperties DEF Pumped
<1>3. \A i, j \in 1..Len(c) : i < j \/ j < i \/ i = j
  BY <1>2
<1> QED
  BY <1>1, <1>3

LEMMA PoolPumpsDue ==
  ASSUME NEW s, NEW lk, NEW pl, NEW c, PoolPumps(s, lk, pl, c), NEW g, NEW m \in Due(g, link', pool')
  PROVE  m \in Due(g, lk, pl) \/ \E i \in 1..Len(c) : m.from = c[i].from /\ m.to = c[i].to
<1>1. link' = lk /\ \A a \in pool' : a \in pl \/ \E i \in 1..Len(c) : a.chunk = c[i]
  BY DEF PoolPumps, PoolAsked
<1>2. m \in [from : Nat, to : Nat]
  BY DEF Due
<1>3. CASE \E a \in pool' : a.chunk.gen = g /\ a.chunk.from = m.from /\ a.chunk.to = m.to
  BY <1>1, <1>2, <1>3 DEF Due
<1>4. CASE \/ \E i \in 1..Len(link'.asks) :
                AskOf(link', i, g) /\ link'.asks[i].chunk.from = m.from /\ link'.asks[i].chunk.to = m.to
           \/ \E i \in 1..Len(link'.told) :
                ToldOf(link', i, g) /\ link'.told[i].chunk.from = m.from /\ link'.told[i].chunk.to = m.to
  BY <1>1, <1>2, <1>4 DEF Due
<1> QED
  BY <1>3, <1>4 DEF Due

LEMMA DueType == ASSUME NEW lk, NEW pl, NEW g PROVE Due(g, lk, pl) \in SUBSET [from : Nat, to : Nat]
  BY DEF Due

LEMMA LinkPumpsKeep ==
  ASSUME NEW s, NEW lk, NEW pl, Messages(s, lk, pl), NEW c, LinkPumps(s, lk, pl, c), Still
  PROVE  Messages(scan, link, pool)'
<1>1. /\ ScanBounds(s) /\ s \in ScanType /\ lk \in LinkType /\ pl \in SUBSET PoolType
      /\ Letters(s, lk, pl) /\ Reported(s, lk) /\ Asks(s, pl) /\ Places(lk) /\ Shape(s)
      /\ Typed(s, lk, pl) /\ Once(s, lk, pl) /\ lk.alive = link.alive
  BY DEF Messages, Typed, ScanBounds
<1>2. /\ Pumped(s, scan', c) /\ Posted(lk, c, link') /\ pool' = pl /\ (c = <<>> \/ lk.alive)
      /\ link'.told = lk.told /\ link'.doc = lk.doc /\ link'.alive = lk.alive /\ link' \in LinkType
      /\ Len(link'.asks) = Len(lk.asks) + Len(c)
      /\ \A i \in 1..Len(lk.asks) : link'.asks[i] = lk.asks[i]
      /\ \A i \in 1..Len(c) : link'.asks[Len(lk.asks) + i] = FindText(c[i])
      /\ c = <<>> => link' = lk
  BY DEF LinkPumps, Posted
<1>3. Len(lk.asks) \in Nat /\ Len(c) \in Nat
  BY <1>1, <1>2, LenProperties DEF LinkType, Pumped
<1>4. /\ scan'.gen = s.gen /\ scan'.query = s.query
      /\ \A i \in 1..Len(c) :
           /\ c[i] \in Chunks /\ c[i].gen = s.gen /\ c[i].query = s.query /\ Letter(s, c[i])
           /\ c[i].from < c[i].to
  BY <1>2, PumpedLetter
<1>5. \A i \in 1..Len(link'.asks) :
        \/ i \in 1..Len(lk.asks) /\ link'.asks[i] = lk.asks[i]
        \/ \E j \in 1..Len(c) : i = Len(lk.asks) + j /\ link'.asks[i] = FindText(c[j])
  <2> SUFFICES ASSUME NEW i \in 1..Len(link'.asks), i \notin 1..Len(lk.asks)
               PROVE  \E j \in 1..Len(c) : i = Len(lk.asks) + j /\ link'.asks[i] = FindText(c[j])
    BY <1>2
  <2>1. i - Len(lk.asks) \in 1..Len(c) /\ i = Len(lk.asks) + (i - Len(lk.asks))
    BY <1>2, <1>3
  <2> QED
    BY <1>2, <2>1
<1>6. /\ deck' = deck /\ reader' = reader /\ preopened' = preopened /\ coming' = coming
      /\ preparing' = preparing /\ faults' = faults
  BY DEF Still
<1>7. ScanBounds(scan')
  BY <1>2 DEF Pumped
<1>8. Typed(scan, link, pool)'
  BY <1>1, <1>2, <1>7 DEF Typed
<1>9. Letters(scan, link, pool)'
  <2>1. \A k : Letter(s, k) => Letter(scan', k)
    BY <1>4 DEF Letter
  <2>2. ASSUME NEW i \in 1..Len(link'.asks), link'.asks[i].kind = "FindText"
        PROVE  /\ Letter(scan', link'.asks[i].chunk)
               /\ AskOf(link', i, scan'.gen) => link'.asks[i].chunk.query = scan'.query
    <3>1. CASE i \in 1..Len(lk.asks) /\ link'.asks[i] = lk.asks[i]
      BY <1>1, <1>4, <2>1, <2>2, <3>1 DEF Letters, AskOf
    <3>2. CASE \E j \in 1..Len(c) : i = Len(lk.asks) + j /\ link'.asks[i] = FindText(c[j])
      BY <1>4, <2>1, <3>2 DEF FindText
    <3> QED
      BY <1>5, <3>1, <3>2
  <2> QED
    BY <1>1, <1>2, <1>4, <2>1, <2>2 DEF Letters
<1>10. Reported(scan, link)'
  BY <1>1, <1>2, <1>4 DEF Reported, ToldOf
<1>11. Asks(scan, pool)'
  BY <1>1, <1>2, <1>4, <1>6 DEF Asks
<1>12. /\ Describes(link') <=> Describes(lk)
       /\ Described(link') <=> Described(lk)
  <2>1. \A j \in 1..Len(c) : FindText(c[j]).kind # "Describe"
    BY DEF FindText
  <2>2. \A i \in 1..Len(lk.asks) : i \in 1..Len(link'.asks)
    BY <1>2, <1>3
  <2>3. Describes(link') => Describes(lk)
    BY <1>5, <2>1 DEF Describes
  <2>4. Describes(lk) => Describes(link')
    BY <1>2, <2>2 DEF Describes
  <2> QED
    BY <1>2, <2>3, <2>4 DEF Described
<1>13. Places(link)'
  <2>1. ASSUME NEW i \in 1..Len(link'.asks), link'.asks[i].kind = "Describe" PROVE i = 1 /\ link'.told = <<>>
    <3>1. i \in 1..Len(lk.asks) /\ link'.asks[i] = lk.asks[i]
      <4>1. \A j \in 1..Len(c) : FindText(c[j]).kind # "Describe"
        BY DEF FindText
      <4> QED
        BY <1>5, <2>1, <4>1
    <3> QED
      BY <1>1, <1>2, <2>1, <3>1 DEF Places
  <2>2. /\ preparing' # NoDoc => link' = NoLink /\ reader' = NoDoc /\ preopened' = NoDoc
        /\ link'.doc = NoDoc => link' = NoLink
        /\ ~link'.alive => link'.asks = <<>>
    <3>1. lk = NoLink => lk.alive = FALSE
      BY DEF NoLink
    <3> QED
      BY <1>1, <1>2, <1>6, <3>1 DEF Places
  <2> QED
    BY <1>1, <1>2, <1>6, <1>12, <2>1, <2>2 DEF Places
<1>14. Shape(scan)'
  BY <1>1, <1>2, PumpedShape
<1> DEFINE g == s.gen
           D == Due(g, lk, pl)
           D2 == Due(g, link', pool')
<1>15. Grown(D2, D, c)
  BY <1>1, LinkPumpsDue DEF Grown
<1>16. D \in SUBSET [from : Nat, to : Nat] /\ D2 \in SUBSET [from : Nat, to : Nat]
  BY DueType
<1>17. PICK R \in SUBSET (0..s.pages) : Counted(s, D, R) /\ Content(s, R)
  BY DEF Messages, Read
<1>18. Counted(scan', D2, R) /\ NoneAgain(D, c)
  <2>1. R \in SUBSET Nat
    BY <1>1 DEF ScanType
  <2> HIDE DEF D, D2
  <2> QED
    <3>1. s \in ScanType /\ Pumped(s, scan', c) /\ Counted(s, D, R)
      BY <1>1, <1>2, <1>17
    <3> QED
      BY <1>15, <1>16, <2>1, <3>1, PumpedCounted
<1>19. Read(scan, Due(scan.gen, link, pool))'
  <2>1. Content(scan, R)'
    BY <1>1, <1>2, <1>17, PumpedContent
  <2>2. scan'.pages = s.pages
    BY <1>2 DEF Pumped
  <2> QED
    BY <1>4, <1>17, <1>18, <2>1, <2>2 DEF Read
<1>20. Once(scan, link, pool)'
  <2> SUFFICES ASSUME Steady(scan, link)'
      PROVE  /\ \A m \in D2 : m.from < m.to /\ m.from \in scan'.inFlight
             /\ \A f \in scan'.inFlight :
                  \/ \E i \in 1..Len(link'.asks) : AskAt(scan', link', i, f)
                  \/ \E i \in 1..Len(link'.told) : ToldAt(scan', link', i, f)
                  \/ \E a \in pool' : PoolAt(scan', a, f)
             /\ \A f \in scan'.inFlight :
                  /\ \A i, j \in 1..Len(link'.asks) :
                       AskAt(scan', link', i, f) /\ AskAt(scan', link', j, f) => i = j
                  /\ \A i, j \in 1..Len(link'.told) :
                       ToldAt(scan', link', i, f) /\ ToldAt(scan', link', j, f) => i = j
                  /\ \A a, b \in pool' : PoolAt(scan', a, f) /\ PoolAt(scan', b, f) => a = b
                  /\ \A i \in 1..Len(link'.asks), j \in 1..Len(link'.told) :
                       ~(AskAt(scan', link', i, f) /\ ToldAt(scan', link', j, f))
                  /\ \A a \in pool' : PoolAt(scan', a, f) =>
                       /\ \A i \in 1..Len(link'.asks) : ~AskAt(scan', link', i, f)
                       /\ \A j \in 1..Len(link'.told) : ~ToldAt(scan', link', j, f)
    BY <1>4 DEF Once, Each
  <2>1. Steady(s, lk)
    <3>1. scan'.problem = s.problem
      BY <1>2 DEF Pumped
    <3> QED
      BY <1>2, <1>6, <1>12, <3>1 DEF Steady
  <2> HIDE DEF D, D2
  <2>2. \A m \in D : m.from < m.to /\ m.from \in s.inFlight
    BY <1>1, <2>1 DEF Once, Each, D
  <2>3. \A f : f \in scan'.inFlight <=> f \in s.inFlight \/ \E i \in 1..Len(c) : c[i].from = f
    BY <1>2 DEF Pumped
  <2>4. ASSUME NEW m \in D2 PROVE m.from < m.to /\ m.from \in scan'.inFlight
    BY <1>4, <1>15, <2>2, <2>3 DEF Grown
  <2>5. /\ \A i \in 1..Len(lk.asks) : \A f : AskAt(s, lk, i, f) =>
             f \in s.inFlight /\ \A j \in 1..Len(c) : f # c[j].from
        /\ \A i \in 1..Len(lk.told) : \A f : ToldAt(s, lk, i, f) =>
             f \in s.inFlight /\ \A j \in 1..Len(c) : f # c[j].from
        /\ \A a \in pl : \A f : PoolAt(s, a, f) =>
             f \in s.inFlight /\ \A j \in 1..Len(c) : f # c[j].from
    <3>1. ASSUME NEW m \in D PROVE m.from \in s.inFlight /\ \A j \in 1..Len(c) : m.from # c[j].from
      BY <1>18, <2>2 DEF NoneAgain
    <3>2. ASSUME NEW i \in 1..Len(lk.asks), NEW f, AskAt(s, lk, i, f)
          PROVE  f \in s.inFlight /\ \A j \in 1..Len(c) : f # c[j].from
      <4>1. [from |-> lk.asks[i].chunk.from, to |-> lk.asks[i].chunk.to] \in D
        BY <1>1, <3>2, DueAsk DEF AskAt, D
      <4> QED
        BY <3>1, <3>2, <4>1 DEF AskAt
    <3>3. ASSUME NEW i \in 1..Len(lk.told), NEW f, ToldAt(s, lk, i, f)
          PROVE  f \in s.inFlight /\ \A j \in 1..Len(c) : f # c[j].from
      <4>1. [from |-> lk.told[i].chunk.from, to |-> lk.told[i].chunk.to] \in D
        BY <1>1, <3>3, DueTold DEF ToldAt, D
      <4> QED
        BY <3>1, <3>3, <4>1 DEF ToldAt
    <3>4. ASSUME NEW a \in pl, NEW f, PoolAt(s, a, f)
          PROVE  f \in s.inFlight /\ \A j \in 1..Len(c) : f # c[j].from
      <4>1. [from |-> a.chunk.from, to |-> a.chunk.to] \in D
        BY <1>1, <3>4, DuePool DEF PoolAt, D
      <4> QED
        BY <3>1, <3>4, <4>1 DEF PoolAt
    <3> QED
      BY <3>2, <3>3, <3>4
  <2>6. \A i, j \in 1..Len(c) : c[i].from = c[j].from => i = j
    BY <1>1, <1>2, PumpedApart
  <2>7. /\ \A i \in 1..Len(lk.asks) : \A f : AskAt(scan', link', i, f) <=> AskAt(s, lk, i, f)
        /\ \A i \in 1..Len(lk.told) : \A f : ToldAt(scan', link', i, f) <=> ToldAt(s, lk, i, f)
        /\ \A a, f : PoolAt(scan', a, f) <=> PoolAt(s, a, f)
        /\ \A i \in 1..Len(c) : \A f : AskAt(scan', link', Len(lk.asks) + i, f) <=> c[i].from = f
    <3>1. \A i \in 1..Len(c) : \A f : AskAt(scan', link', Len(lk.asks) + i, f) <=> c[i].from = f
      <4> SUFFICES ASSUME NEW i \in 1..Len(c), NEW f
                   PROVE  AskAt(scan', link', Len(lk.asks) + i, f) <=> c[i].from = f
        OBVIOUS
      <4>1. link'.asks[Len(lk.asks) + i] = [kind |-> "FindText", chunk |-> c[i]]
        BY <1>2 DEF FindText
      <4>2. c[i].gen = scan'.gen
        BY <1>4
      <4> QED
        BY <4>1, <4>2 DEF AskAt, AskOf
    <3> QED
      BY <1>2, <1>4, <3>1 DEF AskAt, AskOf, ToldAt, ToldOf, PoolAt
  <2>8. ASSUME NEW f \in scan'.inFlight
        PROVE  \/ \E i \in 1..Len(link'.asks) : AskAt(scan', link', i, f)
               \/ \E i \in 1..Len(link'.told) : ToldAt(scan', link', i, f)
               \/ \E a \in pool' : PoolAt(scan', a, f)
    <3>1. CASE f \in s.inFlight
      <4>1. \/ \E i \in 1..Len(lk.asks) : AskAt(s, lk, i, f)
            \/ \E i \in 1..Len(lk.told) : ToldAt(s, lk, i, f)
            \/ \E a \in pl : PoolAt(s, a, f)
        BY <1>1, <2>1, <3>1 DEF Once, Each
      <4>2. \A i \in 1..Len(lk.asks) : i \in 1..Len(link'.asks)
        BY <1>2, <1>3
      <4> QED
        BY <1>2, <2>7, <4>1, <4>2
    <3>2. CASE \E i \in 1..Len(c) : c[i].from = f
      <4>1. PICK i \in 1..Len(c) : c[i].from = f
        BY <3>2
      <4>2. Len(lk.asks) + i \in 1..Len(link'.asks)
        BY <1>2, <1>3
      <4> QED
        BY <2>7, <4>1, <4>2
    <3> QED
      BY <2>3, <3>1, <3>2
  <2>9. ASSUME NEW f \in scan'.inFlight
        PROVE  /\ \A i, j \in 1..Len(link'.asks) :
                    AskAt(scan', link', i, f) /\ AskAt(scan', link', j, f) => i = j
               /\ \A i, j \in 1..Len(link'.told) :
                    ToldAt(scan', link', i, f) /\ ToldAt(scan', link', j, f) => i = j
               /\ \A a, b \in pool' : PoolAt(scan', a, f) /\ PoolAt(scan', b, f) => a = b
               /\ \A i \in 1..Len(link'.asks), j \in 1..Len(link'.told) :
                    ~(AskAt(scan', link', i, f) /\ ToldAt(scan', link', j, f))
               /\ \A a \in pool' : PoolAt(scan', a, f) =>
                    /\ \A i \in 1..Len(link'.asks) : ~AskAt(scan', link', i, f)
                    /\ \A j \in 1..Len(link'.told) : ~ToldAt(scan', link', j, f)
    <3>1. f \in s.inFlight =>
            /\ \A i, j \in 1..Len(lk.asks) : AskAt(s, lk, i, f) /\ AskAt(s, lk, j, f) => i = j
            /\ \A i, j \in 1..Len(lk.told) : ToldAt(s, lk, i, f) /\ ToldAt(s, lk, j, f) => i = j
            /\ \A a, b \in pl : PoolAt(s, a, f) /\ PoolAt(s, b, f) => a = b
            /\ \A i \in 1..Len(lk.asks), j \in 1..Len(lk.told) : ~(AskAt(s, lk, i, f) /\ ToldAt(s, lk, j, f))
            /\ \A a \in pl : PoolAt(s, a, f) =>
                 /\ \A i \in 1..Len(lk.asks) : ~AskAt(s, lk, i, f)
                 /\ \A j \in 1..Len(lk.told) : ~ToldAt(s, lk, j, f)
      BY <1>1, <2>1 DEF Once, Each
    <3>2. \A i \in 1..Len(link'.asks) : AskAt(scan', link', i, f) =>
            \/ i \in 1..Len(lk.asks) /\ AskAt(s, lk, i, f)
            \/ \E j \in 1..Len(c) : i = Len(lk.asks) + j /\ c[j].from = f
      <4> SUFFICES ASSUME NEW i \in 1..Len(link'.asks), AskAt(scan', link', i, f)
                   PROVE  \/ i \in 1..Len(lk.asks) /\ AskAt(s, lk, i, f)
                          \/ \E j \in 1..Len(c) : i = Len(lk.asks) + j /\ c[j].from = f
        OBVIOUS
      <4>1. CASE i \in 1..Len(lk.asks)
        BY <2>7, <4>1
      <4>2. CASE i \notin 1..Len(lk.asks)
        <5>1. PICK j \in 1..Len(c) : i = Len(lk.asks) + j
          BY <1>5, <4>2
        <5> QED
          <6>1. AskAt(scan', link', Len(lk.asks) + j, f) <=> c[j].from = f
            BY <2>7
          <6> QED
            BY <5>1, <6>1
      <4> QED
        BY <4>1, <4>2
    <3>3. \A i, j \in 1..Len(link'.asks) : AskAt(scan', link', i, f) /\ AskAt(scan', link', j, f) => i = j
      BY <2>5, <2>6, <3>1, <3>2
    <3> QED
      <4>1. \A i \in 1..Len(link'.told) : ToldAt(scan', link', i, f) =>
              ToldAt(s, lk, i, f) /\ i \in 1..Len(lk.told) /\ f \in s.inFlight
        BY <1>2, <2>5, <2>7
      <4>2. \A a \in pool' : PoolAt(scan', a, f) => PoolAt(s, a, f) /\ a \in pl /\ f \in s.inFlight
        BY <1>2, <2>5, <2>7
      <4>3. \A i \in 1..Len(link'.asks) : AskAt(scan', link', i, f) /\ f \in s.inFlight =>
              \/ i \in 1..Len(lk.asks) /\ AskAt(s, lk, i, f)
              \/ ~\E j \in 1..Len(lk.told) : ToldAt(s, lk, j, f)
        BY <2>5, <3>2
      <4>4. \A i \in 1..Len(link'.asks), j \in 1..Len(link'.told) :
              ~(AskAt(scan', link', i, f) /\ ToldAt(scan', link', j, f))
        BY <1>2, <3>1, <4>1, <4>3
      <4>5. \A a \in pool' : PoolAt(scan', a, f) => \A i \in 1..Len(link'.asks) : ~AskAt(scan', link', i, f)
        BY <2>5, <3>1, <3>2, <4>2
      <4>6. \A a \in pool' : PoolAt(scan', a, f) => \A i \in 1..Len(link'.told) : ~ToldAt(scan', link', i, f)
        BY <3>1, <4>1, <4>2
      <4>7. \A i, j \in 1..Len(link'.told) : ToldAt(scan', link', i, f) /\ ToldAt(scan', link', j, f) => i = j
        BY <3>1, <4>1
      <4>8. \A a, b \in pool' : PoolAt(scan', a, f) /\ PoolAt(scan', b, f) => a = b
        BY <3>1, <4>2
      <4> QED
        BY <3>3, <4>4, <4>5, <4>6, <4>7, <4>8
  <2> QED
    BY <2>4, <2>8, <2>9
<1> QED
  BY <1>8, <1>9, <1>10, <1>11, <1>13, <1>14, <1>19, <1>20 DEF Messages

LEMMA PoolPumpsKeep ==
  ASSUME NEW s, NEW lk, NEW pl, Messages(s, lk, pl), NEW c, PoolPumps(s, lk, pl, c), Still
  PROVE  Messages(scan, link, pool)'
<1>1. /\ ScanBounds(s) /\ s \in ScanType /\ lk \in LinkType /\ pl \in SUBSET PoolType
      /\ Letters(s, lk, pl) /\ Reported(s, lk) /\ Asks(s, pl) /\ Places(lk) /\ Shape(s)
      /\ Typed(s, lk, pl) /\ Once(s, lk, pl) /\ lk.alive = link.alive
  BY DEF Messages, Typed, ScanBounds
<1>2. Pumped(s, scan', c) /\ link' = lk /\ ~lk.alive /\ deck # NoDoc
  BY DEF PoolPumps
<1>3. /\ \A a \in pool' : a \in pl \/ \E i \in 1..Len(c) : a = [doc |-> deck, chunk |-> c[i]]
      /\ \A a \in pl : a \in pool'
      /\ \A i \in 1..Len(c) : [doc |-> deck, chunk |-> c[i]] \in pool'
  BY DEF PoolPumps, PoolAsked
<1>4. /\ scan'.gen = s.gen /\ scan'.query = s.query
      /\ \A i \in 1..Len(c) :
           /\ c[i] \in Chunks /\ c[i].gen = s.gen /\ c[i].query = s.query /\ Letter(s, c[i])
           /\ c[i].from < c[i].to
  BY <1>2, PumpedLetter
<1>5. /\ deck' = deck /\ reader' = reader /\ preopened' = preopened /\ coming' = coming
      /\ preparing' = preparing /\ faults' = faults
  BY DEF Still
<1>6. ScanBounds(scan')
  BY <1>2 DEF Pumped
<1>7. Typed(scan, link, pool)'
  <2>1. deck \in Docs
    BY <1>1, <1>2 DEF Places
  <2>2. pool' \in SUBSET PoolType
    BY <1>1, <1>3, <1>4, <2>1 DEF PoolType
  <2> QED
    BY <1>1, <1>2, <1>6, <2>2 DEF Typed
<1>8. Letters(scan, link, pool)'
  <2>1. \A k : Letter(s, k) => Letter(scan', k)
    BY <1>4 DEF Letter
  <2>2. ASSUME NEW a \in pool'
        PROVE  Letter(scan', a.chunk) /\ (a.chunk.gen = scan'.gen => a.chunk.query = scan'.query)
    <3>1. CASE a \in pl
      BY <1>1, <1>4, <2>1, <3>1 DEF Letters
    <3>2. CASE \E i \in 1..Len(c) : a = [doc |-> deck, chunk |-> c[i]]
      BY <1>4, <2>1, <3>2
    <3> QED
      BY <1>3, <3>1, <3>2
  <2> QED
    BY <1>1, <1>2, <1>4, <2>1, <2>2 DEF Letters, AskOf
<1>9. Reported(scan, link)'
  BY <1>1, <1>2, <1>4 DEF Reported, ToldOf
<1>10. Asks(scan, pool)'
  <2> SUFFICES ASSUME NEW a \in pool', a.chunk.gen = s.gen
               PROVE  a.doc = deck /\ (faults = 0 => reader = NoDoc)
    BY <1>1, <1>2, <1>4, <1>5 DEF Asks
  <2>1. faults = 0 => reader = NoDoc
    BY <1>1, <1>2 DEF Places
  <2> QED
    BY <1>1, <1>3, <2>1 DEF Asks
<1>11. Places(link)'
  BY <1>1, <1>2, <1>5 DEF Places
<1>12. Shape(scan)'
  BY <1>1, <1>2, PumpedShape
<1> DEFINE g == s.gen
           D == Due(g, lk, pl)
           D2 == Due(g, link', pool')
<1>13. Grown(D2, D, c)
  BY PoolPumpsDue DEF Grown
<1>14. D \in SUBSET [from : Nat, to : Nat] /\ D2 \in SUBSET [from : Nat, to : Nat]
  BY DueType
<1>15. PICK R \in SUBSET (0..s.pages) : Counted(s, D, R) /\ Content(s, R)
  BY DEF Messages, Read
<1>16. Counted(scan', D2, R) /\ NoneAgain(D, c)
  <2>1. R \in SUBSET Nat
    BY <1>1 DEF ScanType
  <2> HIDE DEF D, D2
  <2>2. s \in ScanType /\ Pumped(s, scan', c) /\ Counted(s, D, R)
    BY <1>1, <1>2, <1>15
  <2> QED
    BY <1>13, <1>14, <2>1, <2>2, PumpedCounted
<1>17. Read(scan, Due(scan.gen, link, pool))'
  <2>1. Content(scan, R)'
    BY <1>1, <1>2, <1>15, PumpedContent
  <2>2. scan'.pages = s.pages
    BY <1>2 DEF Pumped
  <2> QED
    BY <1>4, <1>15, <1>16, <2>1, <2>2 DEF Read
<1>18. Once(scan, link, pool)'
  <2> SUFFICES ASSUME Steady(scan, link)'
      PROVE  /\ \A m \in D2 : m.from < m.to /\ m.from \in scan'.inFlight
             /\ \A f \in scan'.inFlight :
                  \/ \E i \in 1..Len(link'.asks) : AskAt(scan', link', i, f)
                  \/ \E i \in 1..Len(link'.told) : ToldAt(scan', link', i, f)
                  \/ \E a \in pool' : PoolAt(scan', a, f)
             /\ \A f \in scan'.inFlight :
                  /\ \A i, j \in 1..Len(link'.asks) :
                       AskAt(scan', link', i, f) /\ AskAt(scan', link', j, f) => i = j
                  /\ \A i, j \in 1..Len(link'.told) :
                       ToldAt(scan', link', i, f) /\ ToldAt(scan', link', j, f) => i = j
                  /\ \A a, b \in pool' : PoolAt(scan', a, f) /\ PoolAt(scan', b, f) => a = b
                  /\ \A i \in 1..Len(link'.asks), j \in 1..Len(link'.told) :
                       ~(AskAt(scan', link', i, f) /\ ToldAt(scan', link', j, f))
                  /\ \A a \in pool' : PoolAt(scan', a, f) =>
                       /\ \A i \in 1..Len(link'.asks) : ~AskAt(scan', link', i, f)
                       /\ \A j \in 1..Len(link'.told) : ~ToldAt(scan', link', j, f)
    BY <1>4 DEF Once, Each
  <2>1. Steady(s, lk)
    <3>1. scan'.problem = s.problem
      BY <1>2 DEF Pumped
    <3> QED
      BY <1>2, <1>5, <3>1 DEF Steady
  <2> HIDE DEF D, D2
  <2>2. \A m \in D : m.from < m.to /\ m.from \in s.inFlight
    BY <1>1, <2>1 DEF Once, Each, D
  <2>3. \A f : f \in scan'.inFlight <=> f \in s.inFlight \/ \E i \in 1..Len(c) : c[i].from = f
    BY <1>2 DEF Pumped
  <2>4. ASSUME NEW m \in D2 PROVE m.from < m.to /\ m.from \in scan'.inFlight
    BY <1>4, <1>13, <2>2, <2>3 DEF Grown
  <2>5. \A m \in D : m.from \in s.inFlight /\ \A j \in 1..Len(c) : m.from # c[j].from
    BY <1>16, <2>2 DEF NoneAgain
  <2>6. /\ \A i \in 1..Len(lk.asks) : \A f : AskAt(s, lk, i, f) =>
             f \in s.inFlight /\ \A j \in 1..Len(c) : f # c[j].from
        /\ \A i \in 1..Len(lk.told) : \A f : ToldAt(s, lk, i, f) =>
             f \in s.inFlight /\ \A j \in 1..Len(c) : f # c[j].from
        /\ \A a \in pl : \A f : PoolAt(s, a, f) =>
             f \in s.inFlight /\ \A j \in 1..Len(c) : f # c[j].from
    <3>1. ASSUME NEW i \in 1..Len(lk.asks), NEW f, AskAt(s, lk, i, f)
          PROVE  f \in s.inFlight /\ \A j \in 1..Len(c) : f # c[j].from
      <4>1. [from |-> lk.asks[i].chunk.from, to |-> lk.asks[i].chunk.to] \in D
        BY <1>1, <3>1, DueAsk DEF AskAt, D
      <4> QED
        BY <2>5, <3>1, <4>1 DEF AskAt
    <3>2. ASSUME NEW i \in 1..Len(lk.told), NEW f, ToldAt(s, lk, i, f)
          PROVE  f \in s.inFlight /\ \A j \in 1..Len(c) : f # c[j].from
      <4>1. [from |-> lk.told[i].chunk.from, to |-> lk.told[i].chunk.to] \in D
        BY <1>1, <3>2, DueTold DEF ToldAt, D
      <4> QED
        BY <2>5, <3>2, <4>1 DEF ToldAt
    <3>3. ASSUME NEW a \in pl, NEW f, PoolAt(s, a, f)
          PROVE  f \in s.inFlight /\ \A j \in 1..Len(c) : f # c[j].from
      <4>1. [from |-> a.chunk.from, to |-> a.chunk.to] \in D
        BY <1>1, <3>3, DuePool DEF PoolAt, D
      <4> QED
        BY <2>5, <3>3, <4>1 DEF PoolAt
    <3> QED
      BY <3>1, <3>2, <3>3
  <2>7. \A i, j \in 1..Len(c) : c[i].from = c[j].from => i = j
    BY <1>1, <1>2, PumpedApart
  <2>8. /\ \A i : \A f : AskAt(scan', link', i, f) <=> AskAt(s, lk, i, f)
        /\ \A i : \A f : ToldAt(scan', link', i, f) <=> ToldAt(s, lk, i, f)
        /\ \A a, f : PoolAt(scan', a, f) <=> PoolAt(s, a, f)
        /\ \A i \in 1..Len(c) : \A f : PoolAt(s, [doc |-> deck, chunk |-> c[i]], f) <=> c[i].from = f
    BY <1>2, <1>4 DEF AskAt, AskOf, ToldAt, ToldOf, PoolAt
  <2>9. ASSUME NEW f \in scan'.inFlight
        PROVE  \/ \E i \in 1..Len(link'.asks) : AskAt(scan', link', i, f)
               \/ \E i \in 1..Len(link'.told) : ToldAt(scan', link', i, f)
               \/ \E a \in pool' : PoolAt(scan', a, f)
    <3>1. CASE f \in s.inFlight
      <4>1. \/ \E i \in 1..Len(lk.asks) : AskAt(s, lk, i, f)
            \/ \E i \in 1..Len(lk.told) : ToldAt(s, lk, i, f)
            \/ \E a \in pl : PoolAt(s, a, f)
        BY <1>1, <2>1, <3>1 DEF Once, Each
      <4> QED
        BY <1>2, <1>3, <2>8, <4>1
    <3>2. CASE \E i \in 1..Len(c) : c[i].from = f
      BY <1>3, <2>8, <3>2
    <3> QED
      BY <2>3, <3>1, <3>2
  <2>10. ASSUME NEW f \in scan'.inFlight
        PROVE  /\ \A i, j \in 1..Len(link'.asks) :
                    AskAt(scan', link', i, f) /\ AskAt(scan', link', j, f) => i = j
               /\ \A i, j \in 1..Len(link'.told) :
                    ToldAt(scan', link', i, f) /\ ToldAt(scan', link', j, f) => i = j
               /\ \A a, b \in pool' : PoolAt(scan', a, f) /\ PoolAt(scan', b, f) => a = b
               /\ \A i \in 1..Len(link'.asks), j \in 1..Len(link'.told) :
                    ~(AskAt(scan', link', i, f) /\ ToldAt(scan', link', j, f))
               /\ \A a \in pool' : PoolAt(scan', a, f) =>
                    /\ \A i \in 1..Len(link'.asks) : ~AskAt(scan', link', i, f)
                    /\ \A j \in 1..Len(link'.told) : ~ToldAt(scan', link', j, f)
    <3>1. f \in s.inFlight =>
            /\ \A i, j \in 1..Len(lk.asks) : AskAt(s, lk, i, f) /\ AskAt(s, lk, j, f) => i = j
            /\ \A i, j \in 1..Len(lk.told) : ToldAt(s, lk, i, f) /\ ToldAt(s, lk, j, f) => i = j
            /\ \A a, b \in pl : PoolAt(s, a, f) /\ PoolAt(s, b, f) => a = b
            /\ \A i \in 1..Len(lk.asks), j \in 1..Len(lk.told) : ~(AskAt(s, lk, i, f) /\ ToldAt(s, lk, j, f))
            /\ \A a \in pl : PoolAt(s, a, f) =>
                 /\ \A i \in 1..Len(lk.asks) : ~AskAt(s, lk, i, f)
                 /\ \A j \in 1..Len(lk.told) : ~ToldAt(s, lk, j, f)
      BY <1>1, <2>1 DEF Once, Each
    <3>2. \A a \in pool' : PoolAt(scan', a, f) =>
            \/ a \in pl /\ PoolAt(s, a, f) /\ f \in s.inFlight
            \/ \E j \in 1..Len(c) : a = [doc |-> deck, chunk |-> c[j]] /\ c[j].from = f
      BY <1>3, <2>6, <2>8
    <3>3. \A a, b \in pool' : PoolAt(scan', a, f) /\ PoolAt(scan', b, f) => a = b
      BY <2>6, <2>7, <3>1, <3>2
    <3>4. /\ \A i \in 1..Len(link'.asks) : AskAt(scan', link', i, f) =>
               AskAt(s, lk, i, f) /\ i \in 1..Len(lk.asks) /\ f \in s.inFlight
          /\ \A i \in 1..Len(link'.told) : ToldAt(scan', link', i, f) =>
               ToldAt(s, lk, i, f) /\ i \in 1..Len(lk.told) /\ f \in s.inFlight
      BY <1>2, <2>6, <2>8
    <3>5. \A a \in pool' : PoolAt(scan', a, f) =>
            /\ \A i \in 1..Len(link'.asks) : ~AskAt(scan', link', i, f)
            /\ \A j \in 1..Len(link'.told) : ~ToldAt(scan', link', j, f)
      BY <2>6, <3>1, <3>2, <3>4
    <3> QED
      BY <3>1, <3>3, <3>4, <3>5
  <2> QED
    BY <2>4, <2>9, <2>10
<1> QED
  BY <1>7, <1>8, <1>9, <1>10, <1>11, <1>12, <1>17, <1>18 DEF Messages

(* With nobody to ask, the scan gives up. *)
LEMMA GivenUpKeep ==
  ASSUME NEW s, NEW lk, NEW pl, Messages(s, lk, pl), NEW n, ScanBounds(n), SameScan(n, s),
         n.hits = s.hits, n.problem # "none", n.requested = s.pages
  PROVE  Messages(n, lk, pl)
<1>1. /\ Typed(s, lk, pl) /\ Letters(s, lk, pl) /\ Reported(s, lk) /\ Asks(s, pl)
      /\ Places(lk) /\ Shape(s) /\ s \in ScanType /\ n \in ScanType
      /\ n.gen = s.gen /\ n.query = s.query /\ n.pages = s.pages /\ n.start = s.start
  BY DEF Messages, Typed, ScanBounds, SameScan
<1>2. Typed(n, lk, pl)
  BY <1>1 DEF Typed
<1>3. Letters(n, lk, pl) /\ Reported(n, lk) /\ Asks(n, pl)
  BY <1>1 DEF Letters, Letter, Reported, Asks
<1>4. Shape(n)
  BY <1>1 DEF Shape
<1> DEFINE D == Due(s.gen, lk, pl)
<1>5. PICK R \in SUBSET (0..s.pages) : Counted(s, D, R)
  BY DEF Messages, Read
<1>6. Counted(n, D, R)
  <2>1. s.requested <= s.pages /\ s.requested \in Nat /\ s.pages \in Nat
    BY DEF Messages, Typed, ScanBounds, ScanType
  <2>2. D \in SUBSET [from : Nat, to : Nat] /\ s.start \in Nat
    BY <1>1, DueType DEF ScanType
  <2> HIDE DEF D
  <2>3. \A p : Behind(n, p) = Behind(s, p)
    BY <1>1 DEF Behind
  <2>4. \A m \in D : m.from \in Nat /\ m.to \in Nat /\ Behind(s, m.from) \in Int
    BY <2>1, <2>2 DEF Behind
  <2> QED
    BY <1>1, <1>5, <2>1, <2>3, <2>4 DEF Counted
<1>7. Read(n, D)
  <2>1. Content(n, R)
    BY DEF Content
  <2> HIDE DEF D
  <2> QED
    BY <1>1, <1>6, <2>1 DEF Read
<1>8. Once(n, lk, pl)
  BY DEF Once, Steady
<1> QED
  BY <1>1, <1>2, <1>3, <1>4, <1>7, <1>8 DEF Messages

LEMMA StillMessages ==
  ASSUME Messages(scan', link', pool'), Still PROVE Messages(scan, link, pool)'
<1>1. /\ deck' = deck /\ reader' = reader /\ preopened' = preopened /\ coming' = coming
      /\ preparing' = preparing /\ faults' = faults
  BY DEF Still
<1>2. Source' = Source /\ link'.alive = link.alive /\ \A p : Missing(p)' <=> Missing(p)
  <2>1. link'.alive = link.alive
    BY DEF Messages
  <2> QED
    BY <1>1, <2>1 DEF Source, Missing, Beyond
<1>3. Asks(scan, pool)' /\ Places(link)' /\ Shape(scan)'
  BY <1>1, <1>2 DEF Messages, Asks, Places, Shape
<1>4. \A R : Content(scan', R) => Content(scan, R)'
  BY <1>1, <1>2 DEF Content
<1>5. Read(scan, Due(scan.gen, link, pool))'
  BY <1>4 DEF Messages, Read
<1>6. Once(scan, link, pool)'
  BY <1>1 DEF Messages, Once, Steady
<1> QED
  BY <1>3, <1>5, <1>6 DEF Messages

LEMMA NobodyPumpsKeep ==
  ASSUME NEW s, NEW lk, NEW pl, Messages(s, lk, pl), NobodyPumps(s, lk, pl), Still
  PROVE  Messages(scan, link, pool)'
<1>1. ScanBounds(s) /\ scan' = Finished([s EXCEPT !.problem = "unsupported"]) /\ link' = lk /\ pool' = pl
  BY DEF Messages, Typed, NobodyPumps
<1>2. /\ ScanBounds(scan') /\ SameScan(scan', s) /\ scan'.hits = s.hits
      /\ scan'.problem = "unsupported" /\ scan'.requested = s.pages
  BY <1>1, FinishedScan DEF SameScan
<1>3. Messages(scan', lk, pl)
  BY <1>2, GivenUpKeep
<1> QED
  BY <1>1, <1>3, StillMessages

LEMMA PumpKeeps ==
  ASSUME NEW s, NEW lk, NEW pl, Messages(s, lk, pl), PumpNow(s, lk, pl), Still
  PROVE  Messages(scan, link, pool)'
<1>1. ScanBounds(s) /\ lk \in LinkType
  BY DEF Messages, Typed
<1> QED
  BY <1>1, PumpSteps, LinkPumpsKeep, PoolPumpsKeep, NobodyPumpsKeep

-----------------------------------------------------------------------------
(* Hearing an answer. *)

LEMMA HeardLink ==
  ASSUME NEW lk \in LinkType, lk.told # <<>>, NEW h, h = [lk EXCEPT !.told = Tail(@)]
  PROVE  /\ h \in LinkType /\ h.doc = lk.doc /\ h.alive = lk.alive /\ h.asks = lk.asks
         /\ Len(lk.told) \in Nat /\ Len(h.told) = Len(lk.told) - 1
         /\ \A i \in 1..Len(h.told) : i + 1 \in 1..Len(lk.told) /\ h.told[i] = lk.told[i + 1]
         /\ \A i \in 1..Len(lk.told) : i = 1 \/ (i - 1 \in 1..Len(h.told) /\ h.told[i - 1] = lk.told[i])
         /\ 1 \in 1..Len(lk.told) /\ Head(lk.told) = lk.told[1] /\ lk.told[1] \in ToldType
<1>1. lk.told \in Seq(ToldType) /\ Len(lk.told) \in Nat
  BY LenProperties DEF LinkType
<1>2. Len(lk.told) > 0
  BY <1>1, EmptySeq
<1>3. /\ Tail(lk.told) \in Seq(ToldType) /\ Len(Tail(lk.told)) = Len(lk.told) - 1
      /\ \A i \in 1..Len(lk.told) - 1 : Tail(lk.told)[i] = lk.told[i + 1]
      /\ Head(lk.told) = lk.told[1]
  BY <1>1, <1>2, HeadTailProperties
<1>4. /\ h.doc = lk.doc /\ h.alive = lk.alive /\ h.asks = lk.asks /\ h.told = Tail(lk.told)
      /\ h \in LinkType
  BY <1>3 DEF LinkType
<1>5. \A i \in 1..Len(lk.told) : i = 1 \/ (i - 1 \in 1..Len(lk.told) - 1 /\ (i - 1) + 1 = i)
  BY <1>1
<1>6. 1 \in 1..Len(lk.told) /\ lk.told[1] \in ToldType
  BY <1>1, <1>2, ElementOfSeq
<1>7. \A i \in 1..Len(lk.told) - 1 : i + 1 \in 1..Len(lk.told)
  BY <1>1
<1>8. /\ \A i \in 1..Len(h.told) : i + 1 \in 1..Len(lk.told) /\ h.told[i] = lk.told[i + 1]
      /\ \A i \in 1..Len(lk.told) : i = 1 \/ (i - 1 \in 1..Len(h.told) /\ h.told[i - 1] = lk.told[i])
  BY <1>3, <1>4, <1>5, <1>7
<1> QED
  BY <1>1, <1>3, <1>4, <1>6, <1>8

(* The chunks D2 lie within those of D, each with one that begins at its place. *)
Within(D2, D) ==
  \A m \in D2 : m.from < m.to => \E k \in D : k.from = m.from /\ m.to <= k.to

LEMMA CountedWithin ==
  ASSUME NEW s \in ScanType, NEW D, D \in SUBSET [from : Nat, to : Nat],
         NEW D2, D2 \in SUBSET [from : Nat, to : Nat], NEW R, R \in SUBSET Nat,
         Counted(s, D, R), Within(D2, D)
  PROVE  Counted(s, D2, R)
<1>1. s.pages \in Nat /\ s.start \in Nat /\ s.requested \in Nat
  BY DEF ScanType
<1>2. \A k \in D : k.from \in Nat /\ k.to \in Nat /\ Behind(s, k.from) \in Int
  BY <1>1 DEF Behind
<1>3. ASSUME NEW m \in D2, m.from < m.to
      PROVE  \E k \in D : /\ k.from = m.from /\ m.to <= k.to /\ k.from < k.to
                          /\ m.to \in Nat /\ m.from \in Nat
  BY <1>3 DEF Within
<1>4. ASSUME NEW m \in D2, m.from < m.to
      PROVE  /\ m.to <= s.pages /\ Behind(s, m.from) + (m.to - m.from) <= s.requested
             /\ m.from >= s.start \/ m.to <= s.start
  <2>1. PICK k \in D : /\ k.from = m.from /\ m.to <= k.to /\ k.from < k.to
                       /\ m.to \in Nat /\ m.from \in Nat
    BY <1>3, <1>4
  <2>2. /\ k.to <= s.pages /\ Behind(s, k.from) + (k.to - k.from) <= s.requested
        /\ k.from >= s.start \/ k.to <= s.start
    BY <2>1 DEF Counted
  <2> QED
    BY <1>1, <1>2, <2>1, <2>2
<1>5. ASSUME NEW m \in D2, NEW n \in D2, m.from < m.to, n.from < n.to
      PROVE  m.from = n.from \/ m.to <= n.from \/ n.to <= m.from
  <2>1. PICK k \in D : /\ k.from = m.from /\ m.to <= k.to /\ k.from < k.to
                       /\ m.to \in Nat /\ m.from \in Nat
    BY <1>3, <1>5
  <2>2. PICK l \in D : /\ l.from = n.from /\ n.to <= l.to /\ l.from < l.to
                       /\ n.to \in Nat /\ n.from \in Nat
    BY <1>3, <1>5
  <2>3. k.from = l.from \/ k.to <= l.from \/ l.to <= k.from
    BY <2>1, <2>2 DEF Counted
  <2> QED
    BY <1>2, <2>1, <2>2, <2>3
<1>6. ASSUME s.problem = "none", s.query # NoQuery, NEW m \in D2, m.from \in s.inFlight, NEW p \in R
      PROVE  ~Covers(m, p)
  <2>1. SUFFICES ASSUME Covers(m, p) PROVE FALSE
    OBVIOUS
  <2>2. m.from \in Nat /\ m.to \in Nat /\ p \in Nat
    OBVIOUS
  <2>3. m.from < m.to
    BY <2>1, <2>2 DEF Covers
  <2>4. PICK k \in D : /\ k.from = m.from /\ m.to <= k.to /\ k.from < k.to
    BY <1>3, <2>3
  <2>5. Covers(k, p)
    BY <1>2, <2>1, <2>2, <2>4 DEF Covers
  <2> QED
    BY <1>6, <2>4, <2>5 DEF Counted
<1> QED
  BY <1>4, <1>5, <1>6 DEF Counted

(* What was counted is no more than what was asked for. *)
LEMMA PagesCounted ==
  ASSUME NEW s, s \in ScanType, NEW R, R \in SUBSET Nat, s.requested <= s.pages,
         s.start < s.pages \/ s.start = 0,
         \A p \in R : p < s.pages /\ Behind(s, p) < s.requested
  PROVE  IsFiniteSet(R) /\ Cardinality(R) <= s.requested
<1>1. s.pages \in Nat /\ s.start \in Nat /\ s.requested \in Nat
  BY DEF ScanType
<1> DEFINE T == 0..s.requested - 1
           f == [p \in R |-> Behind(s, p)]
<1>2. IsFiniteSet(T) /\ Cardinality(T) = s.requested
  <2>1. 0 \in Int /\ s.requested - 1 \in Int /\ (s.requested - 1) - 0 + 1 = s.requested
        /\ (0 > s.requested - 1 => s.requested = 0)
    BY <1>1
  <2>2. IsFiniteSet(T) /\ Cardinality(T) = IF 0 > s.requested - 1 THEN 0 ELSE (s.requested - 1) - 0 + 1
    BY <2>1, FS_Interval
  <2> HIDE DEF T
  <2> QED
    BY <2>1, <2>2
<1>3. \A p \in R : Behind(s, p) \in T
  BY <1>1 DEF Behind
<1>4. \A p, r \in R : Behind(s, p) = Behind(s, r) => p = r
  BY <1>1 DEF Behind
<1>5. f \in Injection(R, T)
  BY <1>3, <1>4 DEF Injection, IsInjective
<1> HIDE DEF T
<1> QED
  BY <1>2, <1>5, FS_Injection

(* What an engine that reads the pages from `from` to before `to` finds, and *)
(* that it sends all of it when it is not too much.                          *)
TextOf(d, q, from, to) == UNION {Text[d][q][p] : p \in from..(to - 1)}

LEMMA TextRead ==
  ASSUME NEW d \in Docs, NEW q \in Queries, NEW from \in Nat, NEW to \in Nat, to <= PageCount[d],
         NEW all, all = TextOf(d, q, from, to)
  PROVE  /\ Lowest(all, ChunkHits) \in SUBSET Nat /\ Lowest(all, ChunkHits) \subseteq AllText(d, q)
         /\ IsFiniteSet(Lowest(all, ChunkHits)) /\ Cardinality(all) \in Nat
         /\ Cardinality(all) < ChunkHits =>
              \A p \in from..(to - 1) : Text[d][q][p] \subseteq Lowest(all, ChunkHits)
<1> DEFINE texts == {Text[d][q][p] : p \in from..(to - 1)}
           f == [p \in from..(to - 1) |-> Text[d][q][p]]
<1>1. \A p \in from..(to - 1) : p \in 0..(PageCount[d] - 1)
  BY SearchAssumption
<1>2. \A p \in from..(to - 1) : Text[d][q][p] \subseteq Nat /\ IsFiniteSet(Text[d][q][p])
  BY <1>1, SearchAssumption
<1>3. all \subseteq Nat /\ all \subseteq AllText(d, q)
  BY <1>1, <1>2 DEF AllText, TextOf
<1>4. IsFiniteSet(all)
  <2>1. f \in Surjection(from..(to - 1), texts)
    BY DEF Surjection
  <2>2. IsFiniteSet(from..(to - 1))
    BY FS_Interval
  <2>3. IsFiniteSet(texts)
    <3> HIDE DEF f, texts
    <3> QED
      BY <2>1, <2>2, FS_Surjection
  <2>4. \A T \in texts : IsFiniteSet(T)
    BY <1>2
  <2>5. all = UNION texts
    BY DEF TextOf
  <2> HIDE DEF texts
  <2> QED
    BY <2>3, <2>4, <2>5, FS_UNION
<1>5. \A p \in from..(to - 1) : Text[d][q][p] \subseteq all
  BY DEF TextOf
<1> HIDE DEF texts, f
<1>6. /\ Lowest(all, ChunkHits) \subseteq all /\ IsFiniteSet(Lowest(all, ChunkHits))
      /\ Cardinality(Lowest(all, ChunkHits)) <= Cardinality(all)
      /\ Cardinality(Lowest(all, ChunkHits)) \in Nat /\ Cardinality(all) \in Nat
  BY <1>3, <1>4, Limits, LowestFinite
<1>7. Cardinality(all) < ChunkHits => Lowest(all, ChunkHits) = all
  <2>1. Cardinality(all) < ChunkHits => Cardinality(Lowest(all, ChunkHits)) < ChunkHits
    BY <1>6, Limits
  <2> QED
    BY <1>3, <1>4, <1>6, <2>1, Limits, LowestWhole
<1> QED
  BY <1>3, <1>5, <1>6, <1>7

(* The hits a document worker sends are those of the pages it names. *)
LEMMA HitsTrue ==
  ASSUME NEW d \in Docs, NEW c \in Chunks, NEW n, n = Hits(d, c)
  PROVE  /\ Truly(n, d, c.query) /\ Inside(n, d) /\ n \in Answers /\ n.gen = c.gen /\ IsFiniteSet(n.hits)
         /\ c.from <= c.to => n.from <= n.to
         /\ n.from < n.to => n.from = c.from /\ n.to <= c.to
         /\ c.from <= c.to /\ c.to <= PageCount[d] => n.from = c.from /\ n.to = c.to
<1> DEFINE q == c.query
           from == Least(c.from, PageCount[d])
           to == Least(c.to, PageCount[d])
           all == UNION {Text[d][q][p] : p \in from..(to - 1)}
           L == Lowest(all, ChunkHits)
           full == Cardinality(all) >= ChunkHits
<1>1. PageCount[d] \in Nat /\ q \in Queries /\ c.gen \in Nat /\ c.from \in Nat /\ c.to \in Nat
  BY SearchAssumption DEF Chunks
<1>2. /\ from \in Nat /\ to \in Nat /\ from <= PageCount[d] /\ to <= PageCount[d]
      /\ c.from <= c.to => from <= to
      /\ from < to => from = c.from /\ to <= c.to
      /\ c.from <= c.to /\ c.to <= PageCount[d] => from = c.from /\ to = c.to
  BY <1>1 DEF Least
<1>3. n = [gen |-> c.gen, from |-> from, to |-> to, hits |-> L, truncated |-> full]
  BY DEF Hits
<1> HIDE DEF from, to
<1>4. /\ L \in SUBSET Nat /\ L \subseteq AllText(d, q) /\ IsFiniteSet(L)
      /\ Cardinality(all) \in Nat
      /\ Cardinality(all) < ChunkHits => \A p \in from..(to - 1) : Text[d][q][p] \subseteq L
  <2> HIDE DEF q
  <2>1. all = TextOf(d, q, from, to)
    BY DEF TextOf
  <2> HIDE DEF all
  <2> QED
    BY <1>1, <1>2, <2>1, TextRead
<1>5. full \in BOOLEAN /\ (~full => \A p \in from..(to - 1) : Text[d][q][p] \subseteq L)
  BY <1>4, Limits
<1> HIDE DEF all, L, full
<1>6. [gen |-> c.gen, from |-> from, to |-> to, hits |-> L, truncated |-> full] \in Answers
  BY <1>1, <1>2, <1>4, <1>5, Zenon DEF Answers
<1>7. n.gen = c.gen /\ n.from = from /\ n.to = to /\ n.hits = L /\ n.truncated = full /\ n \in Answers
  BY <1>3, <1>6
<1>8. Truly(n, d, q) /\ Inside(n, d)
  BY <1>1, <1>2, <1>4, <1>5, <1>7 DEF Truly, Inside
<1> QED
  BY <1>2, <1>4, <1>7, <1>8

(* The pool answers with the pages asked for, read or not. *)
LEMMA PoolHitsTrue ==
  ASSUME NEW d \in Docs, NEW c \in Chunks, NEW n, n = PoolHits(d, c)
  PROVE  /\ Truly(n, d, c.query) /\ n \in Answers /\ n.gen = c.gen /\ IsFiniteSet(n.hits)
         /\ n.from = c.from /\ n.to = c.to
<1> DEFINE q == c.query
           to == Least(c.to, PageCount[d])
           all == UNION {Text[d][q][p] : p \in c.from..(to - 1)}
           L == Lowest(all, ChunkHits)
           full == Cardinality(all) >= ChunkHits
<1>1. PageCount[d] \in Nat /\ q \in Queries /\ c.gen \in Nat /\ c.from \in Nat /\ c.to \in Nat
  BY SearchAssumption DEF Chunks
<1>2. /\ to \in Nat /\ to <= PageCount[d]
      /\ \A p \in c.from..(c.to - 1) : p < PageCount[d] => p \in c.from..(to - 1)
  BY <1>1 DEF Least
<1>3. n = [gen |-> c.gen, from |-> c.from, to |-> c.to, hits |-> L, truncated |-> full]
  BY DEF PoolHits
<1> HIDE DEF to
<1>4. /\ L \in SUBSET Nat /\ L \subseteq AllText(d, q) /\ IsFiniteSet(L)
      /\ Cardinality(all) \in Nat
      /\ Cardinality(all) < ChunkHits => \A p \in c.from..(to - 1) : Text[d][q][p] \subseteq L
  <2> HIDE DEF q
  <2>1. all = TextOf(d, q, c.from, to)
    BY DEF TextOf
  <2> HIDE DEF all
  <2> QED
    BY <1>1, <1>2, <2>1, TextRead
<1>5. full \in BOOLEAN /\ (~full => \A p \in c.from..(to - 1) : Text[d][q][p] \subseteq L)
  BY <1>4, Limits
<1> HIDE DEF all, L, full
<1>6. [gen |-> c.gen, from |-> c.from, to |-> c.to, hits |-> L, truncated |-> full] \in Answers
  BY <1>1, <1>4, <1>5, Zenon DEF Answers
<1>7. n.gen = c.gen /\ n.from = c.from /\ n.to = c.to /\ n.hits = L /\ n.truncated = full /\ n \in Answers
  BY <1>3, <1>6
<1>8. Truly(n, d, q)
  BY <1>1, <1>2, <1>4, <1>5, <1>7 DEF Truly
<1> QED
  BY <1>4, <1>7, <1>8

LEMMA AbsorbedScan ==
  ASSUME NEW s, ScanBounds(s), NEW H \in SUBSET Nat, IsFiniteSet(H), NEW n, n = Absorbed(s, H)
  PROVE  /\ ScanBounds(n) /\ n = [s EXCEPT !.hits = n.hits] /\ n.hits \subseteq s.hits \cup H
         /\ Cardinality(n.hits) \in Nat
         /\ Cardinality(n.hits) < MaxHits => n.hits = s.hits \cup H /\ Cardinality(s.hits) < MaxHits
<1>1. s \in ScanType /\ s.hits \in SUBSET Nat /\ IsFiniteSet(s.hits) /\ Cardinality(s.hits) \in Nat
  BY FS_CardinalityType DEF ScanBounds, ScanType
<1>2. CASE Cardinality(s.hits) >= MaxHits
  <2>1. n = s
    BY <1>2 DEF Absorbed
  <2>2. s = [s EXCEPT !.hits = s.hits]
    BY <1>1 DEF ScanType
  <2> QED
    BY <1>1, <1>2, <2>1, <2>2, Limits
<1>3. CASE ~(Cardinality(s.hits) >= MaxHits)
  <2> DEFINE L == Lowest(s.hits \cup H, MaxHits)
  <2>1. s.hits \cup H \in SUBSET Nat /\ IsFiniteSet(s.hits \cup H)
    BY <1>1, FS_Union
  <2>2. /\ L \subseteq s.hits \cup H /\ IsFiniteSet(L) /\ Cardinality(L) \in Nat
        /\ Cardinality(L) <= MaxHits
        /\ Cardinality(L) < MaxHits => L = s.hits \cup H
    BY <2>1, Limits, LowestFinite, LowestBound, LowestWhole
  <2>3. n = [s EXCEPT !.hits = L]
    BY <1>3 DEF Absorbed
  <2>4. Cardinality(s.hits) < MaxHits
    BY <1>1, <1>3, Limits
  <2> HIDE DEF L
  <2>5. /\ n \in ScanType /\ n.hits = L /\ n.start = s.start /\ n.pages = s.pages /\ n.query = s.query
        /\ n.problem = s.problem /\ n.scanned = s.scanned /\ n.requested = s.requested
        /\ n.inFlight = s.inFlight
    BY <1>1, <2>1, <2>2, <2>3 DEF ScanType
  <2>6. ScanBounds(n)
    BY <2>2, <2>5 DEF ScanBounds
  <2> QED
    BY <2>2, <2>3, <2>4, <2>5, <2>6
<1> QED
  BY <1>2, <1>3

LEMMA AcceptedScan ==
  ASSUME NEW s, ScanBounds(s), NEW c \in Answers, IsFiniteSet(c.hits), c.from <= c.to, c.gen = s.gen,
         c.from \in s.inFlight => s.scanned + (c.to - c.from) <= s.requested,
         NEW n, n = Accepted(s, c)
  PROVE  /\ ScanBounds(n) /\ SameScan(n, s) /\ n.hits \subseteq s.hits \cup c.hits
         /\ s.requested <= n.requested
         /\ n.problem = "none" =>
              /\ s.problem = "none" /\ ~c.truncated /\ n.hits = s.hits \cup c.hits
              /\ Cardinality(s.hits) < MaxHits /\ Cardinality(n.hits) < MaxHits
              /\ n.requested = s.requested /\ n.inFlight = s.inFlight \ {c.from}
              /\ n.scanned = IF c.from \in s.inFlight THEN s.scanned + (c.to - c.from) ELSE s.scanned
<1> DEFINE m == Absorbed(s, c.hits)
           h == IF c.from \in s.inFlight
                  THEN [m EXCEPT !.inFlight = @ \ {c.from},
                                 !.scanned = Least(@ + (c.to - c.from), m.pages)]
                  ELSE m
           many == c.truncated \/ Cardinality(h.hits) >= MaxHits
<1>1. /\ s \in ScanType /\ c.hits \in SUBSET Nat /\ c.from \in Nat /\ c.to \in Nat
      /\ s.scanned \in Nat /\ s.requested \in Nat /\ s.pages \in Nat /\ s.inFlight \in SUBSET Nat
      /\ s.scanned <= s.requested /\ s.requested <= s.pages
  BY DEF Answers, ScanBounds, ScanType
<1>2. /\ ScanBounds(m) /\ m = [s EXCEPT !.hits = m.hits] /\ m.hits \subseteq s.hits \cup c.hits
      /\ Cardinality(m.hits) \in Nat
      /\ Cardinality(m.hits) < MaxHits => m.hits = s.hits \cup c.hits /\ Cardinality(s.hits) < MaxHits
  BY <1>1, AbsorbedScan
<1>3. /\ m.pages = s.pages /\ m.inFlight = s.inFlight /\ m.scanned = s.scanned /\ m.gen = s.gen
      /\ m.query = s.query /\ m.start = s.start /\ m.requested = s.requested /\ m.problem = s.problem
  BY <1>1, <1>2 DEF ScanType
<1>4. n = IF many THEN Finished([h EXCEPT !.problem = "tooMany"]) ELSE h
  BY <1>3 DEF Accepted
<1> HIDE DEF m
<1>5. /\ ScanBounds(h) /\ h.hits = m.hits /\ h.pages = s.pages /\ h.gen = s.gen
      /\ h.query = s.query /\ h.start = s.start /\ h.requested = s.requested /\ h.problem = s.problem
      /\ h.inFlight = s.inFlight \ {c.from}
      /\ h.scanned = IF c.from \in s.inFlight THEN s.scanned + (c.to - c.from) ELSE s.scanned
  <2>1. CASE c.from \notin s.inFlight
    BY <1>2, <1>3, <2>1
  <2>2. CASE c.from \in s.inFlight
    <3> DEFINE k == s.scanned + (c.to - c.from)
               F == s.inFlight \ {c.from}
    <3>1. k \in Nat /\ k <= s.requested /\ Least(k, m.pages) = k
      BY <1>1, <1>3, <2>2 DEF Least
    <3>2. h = [m EXCEPT !.inFlight = F, !.scanned = k]
      BY <1>3, <2>2, <3>1
    <3>3. F \in SUBSET Nat /\ IsFiniteSet(F) /\ Cardinality(F) <= MaxInFlight
      <4>1. IsFiniteSet(s.inFlight) /\ Cardinality(s.inFlight) <= MaxInFlight
        BY DEF ScanBounds
      <4>2. IsFiniteSet(F) /\ Cardinality(F) <= Cardinality(s.inFlight)
        BY <4>1, FS_Subset
      <4>3. Cardinality(F) \in Nat /\ Cardinality(s.inFlight) \in Nat
        BY <4>1, <4>2, FS_CardinalityType
      <4> HIDE DEF F
      <4>4. Cardinality(F) <= MaxInFlight
        BY <4>1, <4>2, <4>3, Limits
      <4> QED
        BY <1>1, <4>2, <4>4 DEF F
    <3> HIDE DEF k, F, h
    <3>4. /\ h \in ScanType /\ h.hits = m.hits /\ h.pages = s.pages /\ h.gen = s.gen
          /\ h.query = s.query /\ h.start = s.start /\ h.requested = s.requested /\ h.problem = s.problem
          /\ h.inFlight = F /\ h.scanned = k
      <4>1. m \in ScanType
        BY <1>2 DEF ScanBounds
      <4> QED
        BY <1>3, <3>1, <3>2, <3>3, <4>1 DEF ScanType
    <3>5. ~(s.query = NoQuery \/ s.problem # "none")
      BY <2>2 DEF ScanBounds
    <3>6. ScanBounds(h)
      BY <1>2, <1>3, <3>1, <3>3, <3>4, <3>5 DEF ScanBounds
    <3> QED
      BY <2>2, <3>4, <3>6 DEF k, F
  <2> QED
    BY <2>1, <2>2
<1> HIDE DEF h
<1>6. CASE many
  <2>1. n = Finished([h EXCEPT !.problem = "tooMany"])
    BY <1>4, <1>6
  <2>2. /\ ScanBounds(n) /\ SameScan(n, h) /\ n.hits = h.hits /\ n.problem = "tooMany" /\ n.requested = h.pages
    <3>1. ScanBounds(h)
      BY <1>5
    <3> HIDE DEF many
    <3> QED
      BY <2>1, <3>1, TooManyScan
  <2> QED
    BY <1>1, <1>2, <1>5, <2>2 DEF SameScan
<1>7. CASE ~many
  <2>1. n = h /\ ~c.truncated /\ Cardinality(m.hits) < MaxHits
    BY <1>2, <1>4, <1>5, <1>7, Limits
  <2> QED
    BY <1>1, <1>2, <1>5, <2>1 DEF SameScan
<1> QED
  BY <1>6, <1>7

(* An answer c of document d to a chunk of D: its pages count as read, also *)
(* those that d lacks.                                                      *)
LEMMA AcceptedCounts ==
  ASSUME NEW s, ScanBounds(s), Shape(s), NEW c \in Answers, IsFiniteSet(c.hits), c.from <= c.to,
         c.gen = s.gen, NEW d, Truly(c, d, s.query), faults = 0 => d = Source,
         \A p \in c.from..(c.to - 1) : p < PageCount[d] \/ Missing(p),
         NEW D, D \in SUBSET [from : Nat, to : Nat], NEW D2, D2 \in SUBSET [from : Nat, to : Nat],
         Read(s, D), Within({c}, D), Within(D2, D),
         NEW n, n = Accepted(s, c)
  PROVE  /\ ScanBounds(n) /\ SameScan(n, s) /\ Shape(n) /\ Read(n, D2)
         /\ n.problem = "none" => s.problem = "none" /\ n.inFlight = s.inFlight \ {c.from}
<1> DEFINE q == s.query
           new == c.from..(c.to - 1)
<1>1. /\ s \in ScanType /\ s.pages \in Nat /\ s.start \in Nat /\ s.requested \in Nat /\ s.scanned \in Nat
      /\ c.from \in Nat /\ c.to \in Nat /\ q \in Queries /\ d \in Docs /\ q # NoQuery
      /\ s.requested <= s.pages /\ (s.start < s.pages \/ s.start = 0)
      /\ s.problem # "none" => s.inFlight = {}
  BY SearchAssumption DEF ScanBounds, ScanType, Answers, Truly
<1>2. PICK R \in SUBSET (0..s.pages) : Counted(s, D, R) /\ Content(s, R)
  BY DEF Read
<1>3. R \in SUBSET Nat
  BY <1>1
<1>4. ASSUME c.from < c.to
      PROVE  \E k \in D : /\ k.from = c.from /\ c.to <= k.to /\ k.from < k.to /\ k.from \in Nat /\ k.to \in Nat
                          /\ k.to <= s.pages /\ Behind(s, k.from) + (k.to - k.from) <= s.requested
                          /\ k.from >= s.start \/ k.to <= s.start
  <2>1. PICK k \in D : k.from = c.from /\ c.to <= k.to
    BY <1>4 DEF Within
  <2>2. k.from < k.to /\ k.from \in Nat /\ k.to \in Nat
    BY <1>1, <1>4, <2>1
  <2> QED
    BY <1>2, <2>1, <2>2 DEF Counted
<1>5. \A p \in new : p < s.pages /\ Behind(s, p) < s.requested
  <2> SUFFICES ASSUME NEW p \in new PROVE p < s.pages /\ Behind(s, p) < s.requested
    OBVIOUS
  <2>1. p \in Nat /\ c.from <= p /\ p < c.to
    BY <1>1
  <2>2. PICK k \in D : /\ k.from = c.from /\ c.to <= k.to /\ k.from < k.to /\ k.from \in Nat /\ k.to \in Nat
                       /\ k.to <= s.pages /\ Behind(s, k.from) + (k.to - k.from) <= s.requested
                       /\ k.from >= s.start \/ k.to <= s.start
    BY <1>1, <1>4, <2>1
  <2>3. Behind(s, p) = Behind(s, k.from) + (p - k.from)
    BY <1>1, <2>1, <2>2, BehindWithin
  <2>4. Behind(s, k.from) \in Int
    BY <1>1, <2>2 DEF Behind
  <2> QED
    BY <1>1, <2>1, <2>2, <2>3, <2>4
<1>6. ASSUME s.problem = "none", c.from \in s.inFlight PROVE R \cap new = {}
  <2> SUFFICES ASSUME NEW p \in R, p \in new PROVE FALSE
    OBVIOUS
  <2>1. p \in Nat /\ c.from <= p /\ p < c.to
    BY <1>1
  <2>2. PICK k \in D : k.from = c.from /\ c.to <= k.to /\ k.to \in Nat
    BY <1>1, <1>4, <2>1
  <2>3. ~Covers(k, p)
    BY <1>1, <1>2, <1>6, <2>2 DEF Counted
  <2> QED
    BY <1>1, <2>1, <2>2, <2>3 DEF Covers
<1> DEFINE R2 == IF c.from \in s.inFlight THEN R \cup new ELSE R
<1>7. R2 \in SUBSET (0..s.pages) /\ R2 \in SUBSET Nat
  <2>1. new \subseteq 0..s.pages
    <3>1. \A p \in new : p \in Nat
      BY <1>1
    <3> HIDE DEF new
    <3>2. \A p \in new : p < s.pages
      BY <1>5
    <3> QED
      BY <1>1, <3>1, <3>2
  <2> HIDE DEF new
  <2>2. R \cup new \subseteq 0..s.pages /\ R \subseteq 0..s.pages /\ 0..s.pages \subseteq Nat
    BY <1>1, <2>1
  <2>3. R2 = R \cup new \/ R2 = R
    OBVIOUS
  <2> HIDE DEF R2
  <2> QED
    BY <2>2, <2>3
<1>8. s.problem = "none" =>
        /\ \A p \in R2 : p < s.pages /\ Behind(s, p) < s.requested
        /\ IsFiniteSet(R2) /\ Cardinality(R2) <= s.requested
        /\ (IF c.from \in s.inFlight THEN s.scanned + (c.to - c.from) ELSE s.scanned) <= Cardinality(R2)
  <2> SUFFICES ASSUME s.problem = "none"
               PROVE  /\ \A p \in R2 : p < s.pages /\ Behind(s, p) < s.requested
                      /\ IsFiniteSet(R2) /\ Cardinality(R2) <= s.requested
                      /\ (IF c.from \in s.inFlight THEN s.scanned + (c.to - c.from) ELSE s.scanned)
                           <= Cardinality(R2)
    OBVIOUS
  <2>1. (\A p \in R : p < s.pages /\ Behind(s, p) < s.requested) /\ s.scanned <= Cardinality(R)
    BY <1>1, <1>2 DEF Counted
  <2>2. \A p \in R2 : p < s.pages /\ Behind(s, p) < s.requested
    <3> HIDE DEF new
    <3> QED
      BY <1>5, <2>1
  <2>3. IsFiniteSet(R2) /\ Cardinality(R2) <= s.requested
    <3> HIDE DEF R2
    <3> QED
      BY <1>1, <1>7, <2>2, PagesCounted
  <2>4. IsFiniteSet(R) /\ Cardinality(R) \in Nat
    <3>1. IsFiniteSet(R)
      BY <1>1, <1>3, <2>1, PagesCounted
    <3> QED
      BY <3>1, FS_CardinalityType
  <2>5. CASE c.from \in s.inFlight
    <3>1. IsFiniteSet(new) /\ Cardinality(new) = c.to - c.from
      <4>1. IsFiniteSet(new) /\ Cardinality(new) = IF c.from > c.to - 1 THEN 0 ELSE (c.to - 1) - c.from + 1
        <5>1. c.from \in Int /\ c.to - 1 \in Int
          BY <1>1
        <5> QED
          BY <5>1, FS_Interval
      <4> HIDE DEF new
      <4> QED
        BY <1>1, <4>1
    <3>2. R \cap new = {}
      BY <1>6, <2>5
    <3> HIDE DEF new
    <3>3. Cardinality(R \cup new) = Cardinality(R) + Cardinality(new) - Cardinality({})
      BY <2>4, <3>1, <3>2, FS_Union
    <3>4. Cardinality(R2) = Cardinality(R) + (c.to - c.from)
      <4>1. Cardinality({}) = 0 /\ R2 = R \cup new
        BY <2>5, FS_EmptySet
      <4> HIDE DEF R2
      <4> QED
        BY <1>1, <2>4, <3>1, <3>3, <4>1
    <3> HIDE DEF R2
    <3> QED
      BY <1>1, <2>1, <2>2, <2>3, <2>4, <2>5, <3>4
  <2>6. CASE c.from \notin s.inFlight
    BY <2>1, <2>2, <2>3, <2>6
  <2> QED
    BY <2>5, <2>6
<1>9. c.from \in s.inFlight => s.scanned + (c.to - c.from) <= s.requested
  <2> SUFFICES ASSUME c.from \in s.inFlight PROVE s.scanned + (c.to - c.from) <= s.requested
    OBVIOUS
  <2> HIDE DEF R2
  <2>1. IsFiniteSet(R2) /\ Cardinality(R2) <= s.requested /\ s.scanned + (c.to - c.from) <= Cardinality(R2)
    BY <1>1, <1>8
  <2>2. Cardinality(R2) \in Nat
    BY <2>1, FS_CardinalityType
  <2> QED
    BY <1>1, <2>1, <2>2
<1>10. /\ ScanBounds(n) /\ SameScan(n, s) /\ n.hits \subseteq s.hits \cup c.hits
       /\ s.requested <= n.requested
       /\ n.problem = "none" =>
            /\ s.problem = "none" /\ ~c.truncated /\ n.hits = s.hits \cup c.hits
            /\ Cardinality(s.hits) < MaxHits /\ Cardinality(n.hits) < MaxHits
            /\ n.requested = s.requested /\ n.inFlight = s.inFlight \ {c.from}
            /\ n.scanned = IF c.from \in s.inFlight THEN s.scanned + (c.to - c.from) ELSE s.scanned
  BY <1>9, AcceptedScan
<1>11. /\ n.query = q /\ n.pages = s.pages /\ n.start = s.start /\ n.requested \in Nat
       /\ \A p : Behind(n, p) = Behind(s, p)
  BY <1>10 DEF SameScan, ScanBounds, ScanType, Behind
<1>12. Shape(n)
  <2>1. ASSUME faults = 0, NEW h \in n.hits
        PROVE  h \in NotesOf(deck, q) \/ (Source # NoDoc /\ h \in AllText(Source, q))
    <3>1. CASE h \in s.hits
      BY <1>1, <2>1, <3>1 DEF Shape
    <3>2. CASE h \in c.hits
      BY <1>1, <2>1, <3>2, SearchAssumption DEF Truly
    <3> QED
      BY <1>10, <3>1, <3>2
  <2> QED
    BY <1>1, <1>10, <1>11, <2>1 DEF Shape
<1>13. Counted(s, D2, R)
  BY <1>1, <1>2, <1>3, CountedWithin
<1>14. Counted(n, D2, R2)
  <2>1. \A m \in D2 : m.from \in Nat /\ m.to \in Nat
    OBVIOUS
  <2>2. \A m \in D2 : m.from < m.to =>
          /\ m.to <= n.pages /\ Behind(n, m.from) + (m.to - m.from) <= n.requested
          /\ m.from >= n.start \/ m.to <= n.start
    <3> SUFFICES ASSUME NEW m \in D2, m.from < m.to
                 PROVE  /\ m.to <= n.pages /\ Behind(n, m.from) + (m.to - m.from) <= n.requested
                        /\ m.from >= n.start \/ m.to <= n.start
      OBVIOUS
    <3>1. /\ m.to <= s.pages /\ Behind(s, m.from) + (m.to - m.from) <= s.requested
          /\ m.from >= s.start \/ m.to <= s.start
      BY <1>13 DEF Counted
    <3>2. Behind(s, m.from) \in Int
      BY <1>1, <2>1 DEF Behind
    <3> QED
      BY <1>1, <1>10, <1>11, <2>1, <3>1, <3>2
  <2>3. \A m, k \in D2 : m.from < m.to /\ k.from < k.to =>
          m.from = k.from \/ m.to <= k.from \/ k.to <= m.from
    BY <1>13 DEF Counted
  <2>4. ASSUME n.problem = "none", NEW m \in D2, m.from \in n.inFlight, NEW p \in R2 PROVE ~Covers(m, p)
    <3>1. SUFFICES ASSUME Covers(m, p) PROVE FALSE
      OBVIOUS
    <3>2. s.problem = "none" /\ m.from \in s.inFlight /\ m.from # c.from
      BY <1>10, <2>4
    <3>3. p \notin R
      BY <1>1, <1>13, <3>1, <3>2 DEF Counted
    <3>4. p \in Nat /\ c.from <= p /\ p < c.to
      BY <1>1, <3>3
    <3>5. PICK k \in D : k.from = c.from /\ c.to <= k.to /\ k.from < k.to /\ k.to \in Nat
      BY <1>1, <1>4, <3>4
    <3>6. m.from <= p /\ p < m.to /\ m.from < m.to
      BY <2>1, <3>1, <3>4 DEF Covers
    <3>7. PICK l \in D : l.from = m.from /\ m.to <= l.to
      BY <3>6 DEF Within
    <3>8. l.from < l.to /\ l.to \in Nat
      BY <2>1, <3>6, <3>7
    <3>9. k.from = l.from \/ k.to <= l.from \/ l.to <= k.from
      BY <1>2, <3>5, <3>8 DEF Counted
    <3> QED
      BY <1>1, <2>1, <3>2, <3>4, <3>5, <3>6, <3>7, <3>8, <3>9
  <2>5. n.problem = "none" =>
          /\ \A p \in R2 : p < n.pages /\ Behind(n, p) < n.requested
          /\ n.scanned <= Cardinality(R2)
    <3> HIDE DEF R2
    <3> QED
      BY <1>8, <1>10, <1>11
  <2> HIDE DEF R2
  <2> QED
    BY <2>2, <2>3, <2>4, <2>5 DEF Counted
<1>15. Content(n, R2)
  <2> SUFFICES ASSUME n.problem = "none", NEW p \in R2
               PROVE  \/ Missing(p)
                      \/ \E e \in Docs : /\ p < PageCount[e] /\ Text[e][q][p] \subseteq n.hits
                                         /\ faults = 0 => e = Source
    BY <1>11 DEF Content
  <2>1. CASE p \in R
    BY <1>1, <1>2, <1>10, <2>1 DEF Content
  <2>2. CASE p \in new
    <3>1. CASE Missing(p)
      BY <3>1
    <3>2. CASE p < PageCount[d]
      <4>1. Text[d][q][p] \subseteq c.hits
        BY <1>10, <2>2, <3>2 DEF Truly
      <4> QED
        BY <1>1, <1>10, <3>2, <4>1
    <3> QED
      BY <2>2, <3>1, <3>2
  <2> HIDE DEF new
  <2> QED
    BY <2>1, <2>2
<1>16. Read(n, D2)
  <2> HIDE DEF R2
  <2> QED
    BY <1>7, <1>11, <1>14, <1>15 DEF Read
<1> QED
  BY <1>10, <1>12, <1>16

LEMMA HeardTyped ==
  ASSUME NEW s, NEW lk, NEW pl, Typed(s, lk, pl), Letters(s, lk, pl), Reported(s, lk), lk.told # <<>>,
         NEW h, h = [lk EXCEPT !.told = Tail(@)]
  PROVE  /\ Typed(s, h, pl) /\ Letters(s, h, pl) /\ Reported(s, h)
         /\ Within(Due(s.gen, h, pl), Due(s.gen, lk, pl))
<1>1. lk \in LinkType
  BY DEF Typed
<1>2. /\ h \in LinkType /\ h.doc = lk.doc /\ h.alive = lk.alive /\ h.asks = lk.asks
      /\ \A i \in 1..Len(h.told) : i + 1 \in 1..Len(lk.told) /\ h.told[i] = lk.told[i + 1]
  BY <1>1, HeardLink
<1>3. \A i \in 1..Len(h.told) : \E j \in 1..Len(lk.told) : h.told[i] = lk.told[j]
  BY <1>2
<1>4. Typed(s, h, pl)
  BY <1>2, <1>3 DEF Typed
<1>5. Letters(s, h, pl)
  BY <1>2, <1>3 DEF Letters, AskOf
<1>6. Reported(s, h)
  BY <1>2, <1>3 DEF Reported, ToldOf
<1>7. ASSUME NEW m \in Due(s.gen, h, pl) PROVE m \in Due(s.gen, lk, pl)
  BY <1>2, <1>3, <1>7 DEF Due, AskOf, ToldOf
<1>8. Within(Due(s.gen, h, pl), Due(s.gen, lk, pl))
  <2>1. \A m \in Due(s.gen, h, pl) : m.to \in Nat
    BY DEF Due
  <2>2. \A m \in Due(s.gen, h, pl) : m.to <= m.to
    BY <2>1
  <2> QED
    BY <1>7, <2>2 DEF Within
<1> QED
  BY <1>4, <1>5, <1>6, <1>8

LEMMA HeardPlaces ==
  ASSUME NEW lk \in LinkType, Places(lk), lk.told # <<>>, lk.told[1].kind # "Described",
         NEW h, h = [lk EXCEPT !.told = Tail(@)]
  PROVE  /\ Places(h) /\ (~Describes(lk) /\ ~Described(lk)) /\ lk.doc \in Docs
         /\ faults = 0 => reader = lk.doc /\ Source = lk.doc
<1>1. /\ h.doc = lk.doc /\ h.alive = lk.alive /\ h.asks = lk.asks
      /\ \A i \in 1..Len(h.told) : i + 1 \in 1..Len(lk.told) /\ h.told[i] = lk.told[i + 1]
  BY HeardLink
<1>2. Describes(lk) = FALSE /\ Described(lk) = FALSE
  BY DEF Places, Describes, Described
<1>3. Describes(h) = FALSE /\ Described(h) = FALSE
  BY <1>1, <1>2 DEF Describes, Described
<1>4. lk # NoLink
  BY DEF NoLink
<1>5. lk.doc \in Docs /\ preparing = NoDoc /\ lk.doc # NoDoc
  BY <1>4 DEF Places, LinkType
<1>6. \A i \in 1..Len(h.told) : h.told[i].kind # "Described" /\ (faults = 0 => h.told[i].kind # "Lost")
  BY <1>1, <1>3 DEF Places, Described
<1>7. faults = 0 => reader = lk.doc /\ Source = lk.doc
  BY <1>2, <1>5 DEF Places, Source
<1>8. Places(h)
  BY <1>1, <1>2, <1>3, <1>5, <1>6, <1>7 DEF Places, Describes
<1> QED
  BY <1>2, <1>5, <1>7, <1>8

LEMMA HeardEach ==
  ASSUME NEW s, NEW lk \in LinkType, NEW pl, Each(s, lk, pl), lk.told # <<>>,
         NEW h, h = [lk EXCEPT !.told = Tail(@)], NEW n, n.gen = s.gen,
         n.inFlight = IF ToldOf(lk, 1, s.gen) THEN s.inFlight \ {lk.told[1].chunk.from} ELSE s.inFlight
  PROVE  Each(n, h, pl)
<1>1. /\ h.asks = lk.asks
      /\ \A i \in 1..Len(h.told) : i + 1 \in 1..Len(lk.told) /\ h.told[i] = lk.told[i + 1]
      /\ \A i \in 1..Len(lk.told) : i = 1 \/ (i - 1 \in 1..Len(h.told) /\ h.told[i - 1] = lk.told[i])
      /\ 1 \in 1..Len(lk.told)
  BY HeardLink
<1>2. \A f : f \in n.inFlight => f \in s.inFlight /\ ~ToldAt(s, lk, 1, f)
  BY DEF ToldAt, ToldOf
<1>3. /\ \A i, f : AskAt(n, h, i, f) <=> AskAt(s, lk, i, f)
      /\ \A i \in 1..Len(h.told) : \A f : ToldAt(n, h, i, f) <=> ToldAt(s, lk, i + 1, f)
      /\ \A a, f : PoolAt(n, a, f) <=> PoolAt(s, a, f)
  BY <1>1 DEF AskAt, AskOf, ToldAt, ToldOf, PoolAt
<1>4. \A i \in 1..Len(lk.told) : \A f : ToldAt(s, lk, i, f) =>
        i = 1 \/ \E j \in 1..Len(h.told) : ToldAt(n, h, j, f)
  <2> SUFFICES ASSUME NEW i \in 1..Len(lk.told), NEW f, ToldAt(s, lk, i, f), i # 1
               PROVE  \E j \in 1..Len(h.told) : ToldAt(n, h, j, f)
    OBVIOUS
  <2>1. i - 1 \in 1..Len(h.told) /\ (i - 1) + 1 = i
    BY <1>1
  <2>2. ToldAt(n, h, i - 1, f) <=> ToldAt(s, lk, (i - 1) + 1, f)
    BY <1>3, <2>1
  <2> QED
    BY <2>1, <2>2
<1>5. ASSUME NEW m \in Due(s.gen, h, pl)
      PROVE  \/ \E i \in 1..Len(lk.asks) : AskAt(s, lk, i, m.from)
             \/ \E i \in 1..Len(lk.told) : i # 1 /\ ToldAt(s, lk, i, m.from)
             \/ \E a \in pl : PoolAt(s, a, m.from)
  <2>1. CASE \E i \in 1..Len(h.told) : ToldOf(h, i, s.gen) /\ h.told[i].chunk.from = m.from
    <3>1. PICK i \in 1..Len(h.told) : ToldOf(h, i, s.gen) /\ h.told[i].chunk.from = m.from
      BY <2>1
    <3>2. i + 1 \in 1..Len(lk.told) /\ i + 1 # 1 /\ ToldAt(s, lk, i + 1, m.from)
      BY <1>1, <3>1 DEF ToldAt, ToldOf
    <3> QED
      BY <3>2
  <2>2. CASE \/ \E i \in 1..Len(h.asks) : AskOf(h, i, s.gen) /\ h.asks[i].chunk.from = m.from
             \/ \E a \in pl : a.chunk.gen = s.gen /\ a.chunk.from = m.from
    BY <1>1, <2>2 DEF AskAt, AskOf, PoolAt
  <2> QED
    BY <1>5, <2>1, <2>2 DEF Due
<1>6. ASSUME NEW m \in Due(s.gen, h, pl) PROVE m.from < m.to /\ m.from \in n.inFlight
  <2>1. m \in Due(s.gen, lk, pl)
    <3>1. \A i \in 1..Len(h.told) : \E j \in 1..Len(lk.told) : h.told[i] = lk.told[j]
      BY <1>1
    <3> QED
      BY <1>1, <1>6, <3>1 DEF Due, AskOf, ToldOf
  <2>2. m.from < m.to /\ m.from \in s.inFlight
    BY <2>1 DEF Each
  <2>3. ~ToldAt(s, lk, 1, m.from)
    BY <1>1, <1>5, <2>2 DEF Each
  <2> QED
    BY <2>2, <2>3 DEF ToldAt
<1>7. ASSUME NEW f \in n.inFlight
      PROVE  \/ \E i \in 1..Len(h.asks) : AskAt(n, h, i, f)
             \/ \E i \in 1..Len(h.told) : ToldAt(n, h, i, f)
             \/ \E a \in pl : PoolAt(n, a, f)
  <2>1. /\ f \in s.inFlight /\ ~ToldAt(s, lk, 1, f)
        /\ \/ \E i \in 1..Len(lk.asks) : AskAt(s, lk, i, f)
           \/ \E i \in 1..Len(lk.told) : ToldAt(s, lk, i, f)
           \/ \E a \in pl : PoolAt(s, a, f)
    BY <1>2 DEF Each
  <2>2. CASE \E i \in 1..Len(lk.told) : ToldAt(s, lk, i, f)
    BY <1>4, <2>1, <2>2
  <2>3. CASE (\E i \in 1..Len(lk.asks) : AskAt(s, lk, i, f)) \/ (\E a \in pl : PoolAt(s, a, f))
    BY <1>1, <1>3, <2>3
  <2> QED
    BY <2>1, <2>2, <2>3
<1>8. ASSUME NEW f \in n.inFlight
      PROVE  /\ \A i, j \in 1..Len(h.asks) : AskAt(n, h, i, f) /\ AskAt(n, h, j, f) => i = j
             /\ \A i, j \in 1..Len(h.told) : ToldAt(n, h, i, f) /\ ToldAt(n, h, j, f) => i = j
             /\ \A a, b \in pl : PoolAt(n, a, f) /\ PoolAt(n, b, f) => a = b
             /\ \A i \in 1..Len(h.asks), j \in 1..Len(h.told) : ~(AskAt(n, h, i, f) /\ ToldAt(n, h, j, f))
             /\ \A a \in pl : PoolAt(n, a, f) =>
                  /\ \A i \in 1..Len(h.asks) : ~AskAt(n, h, i, f)
                  /\ \A j \in 1..Len(h.told) : ~ToldAt(n, h, j, f)
  <2>1. f \in s.inFlight
    BY <1>2
  <2>2. \A i \in 1..Len(h.told) : ToldAt(n, h, i, f) => i + 1 \in 1..Len(lk.told) /\ ToldAt(s, lk, i + 1, f)
    BY <1>1, <1>3
  <2>3. \A i, j \in 1..Len(h.told) : ToldAt(n, h, i, f) /\ ToldAt(n, h, j, f) => i = j
    <3>1. \A i, j \in 1..Len(h.told) : i + 1 = j + 1 => i = j
      OBVIOUS
    <3> QED
      BY <2>1, <2>2, <3>1 DEF Each
  <2> QED
    BY <1>1, <1>3, <2>1, <2>2, <2>3 DEF Each
<1> QED
  BY <1>6, <1>7, <1>8 DEF Each

LEMMA WithinRead ==
  ASSUME NEW s, ScanBounds(s), NEW D, D \in SUBSET [from : Nat, to : Nat], Read(s, D),
         NEW D2, D2 \in SUBSET [from : Nat, to : Nat], Within(D2, D)
  PROVE  Read(s, D2)
<1>1. PICK R \in SUBSET (0..s.pages) : Counted(s, D, R) /\ Content(s, R)
  BY DEF Read
<1>2. s \in ScanType /\ R \in SUBSET Nat
  BY DEF ScanBounds, ScanType
<1> QED
  BY <1>1, <1>2, CountedWithin DEF Read

LEMMA SameTyped ==
  ASSUME NEW s, NEW lk, NEW pl, Typed(s, lk, pl), Letters(s, lk, pl), Reported(s, lk), Asks(s, pl),
         NEW n, ScanBounds(n), SameScan(n, s)
  PROVE  Typed(n, lk, pl) /\ Letters(n, lk, pl) /\ Reported(n, lk) /\ Asks(n, pl)
<1>1. n.gen = s.gen /\ n.query = s.query
  BY DEF SameScan
<1>2. \A c : Letter(n, c) <=> Letter(s, c)
  BY <1>1 DEF Letter
<1> QED
  BY <1>1, <1>2 DEF Typed, Letters, Reported, Asks

LEMMA TakenTyped ==
  ASSUME NEW s, NEW lk, NEW pl, Typed(s, lk, pl), Letters(s, lk, pl), Asks(s, pl), NEW p2 \in SUBSET pl
  PROVE  /\ Typed(s, lk, p2) /\ Letters(s, lk, p2) /\ Asks(s, p2)
         /\ Within(Due(s.gen, lk, p2), Due(s.gen, lk, pl))
<1>1. Typed(s, lk, p2) /\ Letters(s, lk, p2) /\ Asks(s, p2)
  BY DEF Typed, Letters, Asks
<1>2. \A m \in Due(s.gen, lk, p2) : m \in Due(s.gen, lk, pl) /\ m.to \in Nat
  BY DEF Due
<1>3. \A m \in Due(s.gen, lk, p2) : m.to <= m.to
  BY <1>2
<1> QED
  BY <1>1, <1>2, <1>3 DEF Within

LEMMA TakenEach ==
  ASSUME NEW s, NEW lk, NEW pl, Each(s, lk, pl), NEW a \in pl,
         NEW n, n.gen = s.gen,
         n.inFlight = IF a.chunk.gen = s.gen THEN s.inFlight \ {a.chunk.from} ELSE s.inFlight
  PROVE  Each(n, lk, pl \ {a})
<1>1. \A f : f \in n.inFlight => f \in s.inFlight /\ ~PoolAt(s, a, f)
  BY DEF PoolAt
<1>2. /\ \A i, f : AskAt(n, lk, i, f) <=> AskAt(s, lk, i, f)
      /\ \A i, f : ToldAt(n, lk, i, f) <=> ToldAt(s, lk, i, f)
      /\ \A b, f : PoolAt(n, b, f) <=> PoolAt(s, b, f)
  BY DEF AskAt, AskOf, ToldAt, ToldOf, PoolAt
<1>3. ASSUME NEW m \in Due(s.gen, lk, pl \ {a}) PROVE m.from < m.to /\ m.from \in n.inFlight
  <2>1. m \in Due(s.gen, lk, pl)
    BY <1>3 DEF Due
  <2>2. m.from < m.to /\ m.from \in s.inFlight
    BY <2>1 DEF Each
  <2>3. \/ \E i \in 1..Len(lk.asks) : AskAt(s, lk, i, m.from)
        \/ \E i \in 1..Len(lk.told) : ToldAt(s, lk, i, m.from)
        \/ \E b \in pl : b # a /\ PoolAt(s, b, m.from)
    BY <1>3 DEF Due, AskAt, ToldAt, PoolAt
  <2>4. ~PoolAt(s, a, m.from)
    BY <2>2, <2>3 DEF Each
  <2> QED
    BY <2>2, <2>4 DEF PoolAt
<1>4. ASSUME NEW f \in n.inFlight
      PROVE  \/ \E i \in 1..Len(lk.asks) : AskAt(n, lk, i, f)
             \/ \E i \in 1..Len(lk.told) : ToldAt(n, lk, i, f)
             \/ \E b \in pl \ {a} : PoolAt(n, b, f)
  <2>1. /\ f \in s.inFlight /\ ~PoolAt(s, a, f)
        /\ \/ \E i \in 1..Len(lk.asks) : AskAt(s, lk, i, f)
           \/ \E i \in 1..Len(lk.told) : ToldAt(s, lk, i, f)
           \/ \E b \in pl : PoolAt(s, b, f)
    BY <1>1 DEF Each
  <2> QED
    BY <1>2, <2>1
<1>5. ASSUME NEW f \in n.inFlight
      PROVE  /\ \A i, j \in 1..Len(lk.asks) : AskAt(n, lk, i, f) /\ AskAt(n, lk, j, f) => i = j
             /\ \A i, j \in 1..Len(lk.told) : ToldAt(n, lk, i, f) /\ ToldAt(n, lk, j, f) => i = j
             /\ \A b, c \in pl \ {a} : PoolAt(n, b, f) /\ PoolAt(n, c, f) => b = c
             /\ \A i \in 1..Len(lk.asks), j \in 1..Len(lk.told) : ~(AskAt(n, lk, i, f) /\ ToldAt(n, lk, j, f))
             /\ \A b \in pl \ {a} : PoolAt(n, b, f) =>
                  /\ \A i \in 1..Len(lk.asks) : ~AskAt(n, lk, i, f)
                  /\ \A j \in 1..Len(lk.told) : ~ToldAt(n, lk, j, f)
  <2>1. f \in s.inFlight
    BY <1>1
  <2> QED
    BY <1>2, <2>1 DEF Each
<1> QED
  BY <1>3, <1>4, <1>5 DEF Each

(* The document worker's answer is heard. *)
LEMMA HeardAccepted ==
  ASSUME NEW s, NEW lk, NEW pl, Messages(s, lk, pl), lk.told # <<>>, lk.told[1].kind = "Found",
         NEW h, h = [lk EXCEPT !.told = Tail(@)], NEW n, n = Accepted(s, lk.told[1].chunk)
  PROVE  Messages(n, h, pl)
<1> DEFINE c == lk.told[1].chunk
           D == Due(s.gen, lk, pl)
           D2 == Due(s.gen, h, pl)
<1>1. /\ Typed(s, lk, pl) /\ Letters(s, lk, pl) /\ Reported(s, lk) /\ Asks(s, pl)
      /\ Places(lk) /\ Shape(s) /\ Read(s, D) /\ Once(s, lk, pl) /\ lk \in LinkType /\ ScanBounds(s)
  BY DEF Messages, Typed
<1>2. /\ 1 \in 1..Len(lk.told) /\ lk.told[1] \in ToldType
      /\ h.doc = lk.doc
  BY <1>1, HeardLink
<1>3. c \in Answers /\ IsFiniteSet(c.hits) /\ c.gen <= s.gen /\ c.from <= c.to
  BY <1>1, <1>2 DEF ToldType, Typed, Letters, Letter
<1>4. /\ Typed(s, h, pl) /\ Letters(s, h, pl) /\ Reported(s, h) /\ Within(D2, D)
  BY <1>1, HeardTyped
<1>5. /\ Places(h) /\ (~Describes(lk) /\ ~Described(lk)) /\ lk.doc \in Docs
      /\ faults = 0 => reader = lk.doc /\ Source = lk.doc
  BY <1>1, HeardPlaces
<1>6. D \in SUBSET [from : Nat, to : Nat] /\ D2 \in SUBSET [from : Nat, to : Nat]
  BY DueType
<1>7. CASE c.gen # s.gen
  <2>1. n = s
    BY <1>7 DEF Accepted
  <2>2. Read(s, D2)
    BY <1>1, <1>4, <1>6, WithinRead DEF Messages
  <2>3. Once(s, h, pl)
    <3> SUFFICES ASSUME Steady(s, h) PROVE Each(s, h, pl)
      BY DEF Once
    <3>1. Each(s, lk, pl)
      BY <1>1, <1>2, <1>5 DEF Once, Steady
    <3>2. s.inFlight = IF ToldOf(lk, 1, s.gen) THEN s.inFlight \ {lk.told[1].chunk.from} ELSE s.inFlight
      BY <1>7 DEF ToldOf
    <3> QED
      BY <1>1, <3>1, <3>2, HeardEach
  <2> QED
    BY <1>1, <1>4, <1>5, <2>1, <2>2, <2>3 DEF Messages
<1>8. CASE c.gen = s.gen
  <2>1. ToldOf(lk, 1, s.gen) /\ Truly(c, lk.doc, s.query) /\ Inside(c, lk.doc)
    BY <1>1, <1>2, <1>8 DEF ToldOf, Reported
  <2>2. Within({c}, D)
    <3>1. [from |-> c.from, to |-> c.to] \in D
      BY <1>1, <1>2, <2>1, DueTold
    <3>2. c.to <= c.to
      BY <1>3 DEF Answers
    <3> HIDE DEF c, D
    <3> QED
      BY <3>1, <3>2 DEF Within
  <2>3. /\ ScanBounds(n) /\ SameScan(n, s) /\ Shape(n) /\ Read(n, D2)
        /\ n.problem = "none" => s.problem = "none" /\ n.inFlight = s.inFlight \ {c.from}
    <3> HIDE DEF c, D, D2
    <3>1. n = Accepted(s, c)
      BY DEF c
    <3>2. \A p \in c.from..(c.to - 1) : p < PageCount[lk.doc]
      <4>1. c.from \in Nat /\ c.to \in Nat /\ PageCount[lk.doc] \in Nat
        BY <1>3, <1>5, SearchAssumption DEF Answers
      <4> QED
        BY <2>1, <4>1 DEF Inside
    <3> QED
      BY <1>1, <1>3, <1>4, <1>5, <1>6, <1>8, <2>1, <2>2, <3>1, <3>2, AcceptedCounts, ZenonT(40)
  <2>4. Typed(n, h, pl) /\ Letters(n, h, pl) /\ Reported(n, h) /\ Asks(n, pl)
    BY <1>1, <1>4, <2>3, SameTyped
  <2>5. Once(n, h, pl)
    <3> SUFFICES ASSUME Steady(n, h) PROVE Each(n, h, pl)
      BY DEF Once
    <3>1. n.problem = "none" /\ Each(s, lk, pl)
      BY <1>1, <1>2, <1>5, <2>3 DEF Once, Steady
    <3>2. n.gen = s.gen /\ n.inFlight = s.inFlight \ {lk.told[1].chunk.from}
      BY <2>3, <3>1 DEF SameScan
    <3> QED
      BY <1>1, <2>1, <3>1, <3>2, HeardEach
  <2> QED
    BY <1>5, <2>3, <2>4, <2>5 DEF Messages, SameScan
<1> QED
  BY <1>7, <1>8

(* The pool's answer a is heard. *)
LEMMA TakenAccepted ==
  ASSUME NEW s, NEW lk, NEW pl, Messages(s, lk, pl), NEW a \in pl, 
         NEW n, n = Accepted(s, PoolHits(a.doc, a.chunk))
  PROVE  Messages(n, lk, pl \ {a})
<1> DEFINE c == PoolHits(a.doc, a.chunk)
           D == Due(s.gen, lk, pl)
           D2 == Due(s.gen, lk, pl \ {a})
<1>1. /\ Typed(s, lk, pl) /\ Letters(s, lk, pl) /\ Reported(s, lk) /\ Asks(s, pl)
      /\ Places(lk) /\ Shape(s) /\ Read(s, D) /\ Once(s, lk, pl) /\ lk \in LinkType /\ ScanBounds(s)
      /\ pl \in SUBSET PoolType
  BY DEF Messages, Typed
<1>2. a.doc \in Docs /\ a.chunk \in Chunks /\ Letter(s, a.chunk)
  BY <1>1 DEF PoolType, Letters
<1>3. /\ Truly(c, a.doc, a.chunk.query) /\ c \in Answers /\ c.gen = a.chunk.gen /\ IsFiniteSet(c.hits)
      /\ c.from <= c.to /\ c.from = a.chunk.from /\ c.to = a.chunk.to
  BY <1>2, PoolHitsTrue DEF Letter
<1> HIDE DEF c
<1>4. Typed(s, lk, pl \ {a}) /\ Letters(s, lk, pl \ {a}) /\ Asks(s, pl \ {a}) /\ Within(D2, D)
  BY <1>1, TakenTyped
<1>5. D \in SUBSET [from : Nat, to : Nat] /\ D2 \in SUBSET [from : Nat, to : Nat]
  BY DueType
<1>6. CASE c.gen # s.gen
  <2>1. n = s
    BY <1>6 DEF Accepted, c
  <2>2. Read(s, D2)
    BY <1>1, <1>4, <1>5, WithinRead
  <2>3. Once(s, lk, pl \ {a})
    <3> SUFFICES ASSUME Steady(s, lk) PROVE Each(s, lk, pl \ {a})
      BY DEF Once
    <3> QED
      BY <1>1, <1>3, <1>6, TakenEach DEF Once
  <2> QED
    BY <1>1, <1>4, <2>1, <2>2, <2>3 DEF Messages
<1>7. CASE c.gen = s.gen
  <2>1. /\ a.chunk.query = s.query /\ a.doc = deck /\ (faults = 0 => reader = NoDoc)
        /\ link.alive => Inside(a.chunk, deck)
    BY <1>1, <1>3, <1>7 DEF Letters, Asks
  <2>2. faults = 0 => a.doc = Source
    BY <2>1 DEF Source
  <2>3. [from |-> a.chunk.from, to |-> a.chunk.to] \in D
    BY <1>1, <1>3, <1>7, DuePool
  <2>4. Within({c}, D)
    <3>1. c.to <= a.chunk.to
      BY <1>3 DEF Answers
    <3> HIDE DEF D
    <3> QED
      BY <1>3, <2>3, <3>1 DEF Within
  <2>5. faults = 0 => Inside(a.chunk, deck)
    <3> SUFFICES ASSUME faults = 0, a.chunk.from < a.chunk.to PROVE a.chunk.to <= PageCount[deck]
      BY DEF Inside
    <3>1. a.chunk.to <= s.pages
      <4>1. PICK R : Counted(s, D, R)
        BY <1>1 DEF Read
      <4> HIDE DEF D
      <4> QED
        BY <2>3, <4>1 DEF Counted
    <3>2. s.query # NoQuery /\ deck # NoDoc
      BY <1>2, <2>1, SearchAssumption DEF Chunks
    <3>3. s.pages = PageCount[deck]
      BY <1>1, <2>1, <3>2 DEF Shape, Searchable
    <3> QED
      BY <3>1, <3>3
  <2>6. ASSUME NEW p \in c.from..(c.to - 1) PROVE p < PageCount[deck] \/ Missing(p)
    <3>1. /\ c.from \in Nat /\ c.to \in Nat /\ PageCount[deck] \in Nat /\ deck # NoDoc
      BY <1>2, <1>3, <2>1, SearchAssumption DEF Answers
    <3>2. p \in Nat /\ c.from <= p /\ p < c.to
      BY <3>1
    <3>3. CASE Inside(a.chunk, deck)
      BY <1>3, <3>1, <3>2, <3>3 DEF Inside
    <3>4. CASE ~Inside(a.chunk, deck)
      <4>1. faults # 0 /\ ~link.alive
        BY <2>1, <2>5, <3>4
      <4> QED
        BY <3>1, <3>2, <4>1 DEF Missing, Beyond
    <3> QED
      BY <3>3, <3>4
  <2>7. /\ ScanBounds(n) /\ SameScan(n, s) /\ Shape(n) /\ Read(n, D2)
        /\ n.problem = "none" => s.problem = "none" /\ n.inFlight = s.inFlight \ {c.from}
    <3> HIDE DEF D, D2
    <3>1. n = Accepted(s, c)
      BY DEF c
    <3> QED
      <4> DEFINE d == a.doc
      <4>1. /\ Truly(c, d, s.query) /\ (faults = 0 => d = Source)
            /\ \A p \in c.from..(c.to - 1) : p < PageCount[d] \/ Missing(p)
        BY <1>3, <2>1, <2>2, <2>6
      <4> HIDE DEF d
      <4> QED
        BY <1>1, <1>3, <1>4, <1>5, <1>7, <2>4, <3>1, <4>1, AcceptedCounts, ZenonT(40)
  <2>8. Typed(n, lk, pl \ {a}) /\ Letters(n, lk, pl \ {a}) /\ Reported(n, lk) /\ Asks(n, pl \ {a})
    BY <1>1, <1>4, <2>7, SameTyped
  <2>9. Once(n, lk, pl \ {a})
    <3> SUFFICES ASSUME Steady(n, lk) PROVE Each(n, lk, pl \ {a})
      BY DEF Once
    <3>1. n.problem = "none" /\ Each(s, lk, pl)
      BY <1>1, <2>7 DEF Once, Steady
    <3>2. n.gen = s.gen /\ n.inFlight = s.inFlight \ {a.chunk.from}
      BY <1>3, <2>7, <3>1 DEF SameScan
    <3> QED
      BY <1>3, <1>7, <3>1, <3>2, TakenEach
  <2> QED
    BY <1>1, <2>7, <2>8, <2>9 DEF Messages, SameScan
<1> QED
  BY <1>6, <1>7

-----------------------------------------------------------------------------
(* The document worker serves the ask at the head of its queue with t. *)

Served(lk, t) == [lk EXCEPT !.asks = Tail(@), !.told = Append(@, t)]

LEMMA ServedLink ==
  ASSUME NEW lk \in LinkType, lk.asks # <<>>, NEW t \in ToldType, NEW v, v = Served(lk, t)
  PROVE  /\ v \in LinkType /\ v.doc = lk.doc /\ v.alive = lk.alive
         /\ Len(lk.asks) \in Nat /\ Len(v.asks) = Len(lk.asks) - 1
         /\ \A i \in 1..Len(v.asks) : i + 1 \in 1..Len(lk.asks) /\ v.asks[i] = lk.asks[i + 1]
         /\ \A i \in 1..Len(lk.asks) : i = 1 \/ (i - 1 \in 1..Len(v.asks) /\ v.asks[i - 1] = lk.asks[i])
         /\ 1 \in 1..Len(lk.asks) /\ Head(lk.asks) = lk.asks[1] /\ lk.asks[1] \in AskType
         /\ Len(lk.told) \in Nat /\ Len(v.told) = Len(lk.told) + 1
         /\ \A i \in 1..Len(lk.told) : i \in 1..Len(v.told) /\ v.told[i] = lk.told[i]
         /\ Len(lk.told) + 1 \in 1..Len(v.told) /\ v.told[Len(lk.told) + 1] = t
         /\ \A i \in 1..Len(v.told) : i \in 1..Len(lk.told) \/ i = Len(lk.told) + 1
<1>1. lk.asks \in Seq(AskType) /\ Len(lk.asks) \in Nat /\ lk.told \in Seq(ToldType) /\ Len(lk.told) \in Nat
  BY LenProperties DEF LinkType
<1>2. Len(lk.asks) > 0
  BY <1>1, EmptySeq
<1>3. /\ Tail(lk.asks) \in Seq(AskType) /\ Len(Tail(lk.asks)) = Len(lk.asks) - 1
      /\ \A i \in 1..Len(lk.asks) - 1 : Tail(lk.asks)[i] = lk.asks[i + 1]
      /\ Head(lk.asks) = lk.asks[1]
  BY <1>1, <1>2, HeadTailProperties
<1>4. /\ Append(lk.told, t) \in Seq(ToldType) /\ Len(Append(lk.told, t)) = Len(lk.told) + 1
      /\ \A i \in 1..Len(lk.told) : Append(lk.told, t)[i] = lk.told[i]
      /\ Append(lk.told, t)[Len(lk.told) + 1] = t
  BY <1>1, AppendProperties
<1>5. /\ v.doc = lk.doc /\ v.alive = lk.alive /\ v.asks = Tail(lk.asks) /\ v.told = Append(lk.told, t)
      /\ v \in LinkType
  BY <1>3, <1>4 DEF LinkType, Served
<1>6. /\ \A i \in 1..Len(lk.asks) : i = 1 \/ (i - 1 \in 1..Len(lk.asks) - 1 /\ (i - 1) + 1 = i)
      /\ \A i \in 1..Len(lk.asks) - 1 : i + 1 \in 1..Len(lk.asks)
      /\ \A i \in 1..Len(lk.told) + 1 : i \in 1..Len(lk.told) \/ i = Len(lk.told) + 1
      /\ \A i \in 1..Len(lk.told) : i \in 1..Len(lk.told) + 1
      /\ Len(lk.told) + 1 \in 1..Len(lk.told) + 1
  BY <1>1
<1>7. 1 \in 1..Len(lk.asks) /\ lk.asks[1] \in AskType
  BY <1>1, <1>2, ElementOfSeq
<1>8. /\ \A i \in 1..Len(v.asks) : i + 1 \in 1..Len(lk.asks) /\ v.asks[i] = lk.asks[i + 1]
      /\ \A i \in 1..Len(lk.asks) : i = 1 \/ (i - 1 \in 1..Len(v.asks) /\ v.asks[i - 1] = lk.asks[i])
  BY <1>3, <1>5, <1>6
<1>9. /\ Len(v.told) = Len(lk.told) + 1
      /\ \A i \in 1..Len(lk.told) : i \in 1..Len(v.told) /\ v.told[i] = lk.told[i]
      /\ Len(lk.told) + 1 \in 1..Len(v.told) /\ v.told[Len(lk.told) + 1] = t
      /\ \A i \in 1..Len(v.told) : i \in 1..Len(lk.told) \/ i = Len(lk.told) + 1
  BY <1>4, <1>5, <1>6
<1> QED
  BY <1>1, <1>3, <1>5, <1>7, <1>8, <1>9

(* Answer t to the ask at the head, heard while s is the scan. *)
Now(s, t) == t.kind = "Found" /\ t.chunk.gen = s.gen
Reply(s, lk, t) ==
  /\ t \in ToldType
  /\ t.kind = "Found" => IsFiniteSet(t.chunk.hits) /\ Letter(s, t.chunk)
  /\ Now(s, t) => /\ AskOf(lk, 1, s.gen) /\ Truly(t.chunk, lk.doc, s.query) /\ Inside(t.chunk, lk.doc)
                  /\ Within({t.chunk}, {lk.asks[1].chunk})

LEMMA ServedTyped ==
  ASSUME NEW s, NEW lk, NEW pl, Typed(s, lk, pl), Letters(s, lk, pl), Reported(s, lk), lk.asks # <<>>,
         NEW t, Reply(s, lk, t), NEW v, v = Served(lk, t)
  PROVE  /\ Typed(s, v, pl) /\ Letters(s, v, pl) /\ Reported(s, v)
         /\ Within(Due(s.gen, v, pl), Due(s.gen, lk, pl))
<1>1. lk \in LinkType /\ t \in ToldType
  BY DEF Typed, Reply
<1>2. /\ v \in LinkType /\ v.doc = lk.doc /\ 1 \in 1..Len(lk.asks)
      /\ \A i \in 1..Len(v.asks) : i + 1 \in 1..Len(lk.asks) /\ v.asks[i] = lk.asks[i + 1]
      /\ \A i \in 1..Len(lk.told) : v.told[i] = lk.told[i]
      /\ v.told[Len(lk.told) + 1] = t
      /\ \A i \in 1..Len(v.told) : i \in 1..Len(lk.told) \/ i = Len(lk.told) + 1
  <2>1. v \in LinkType /\ v.doc = lk.doc /\ 1 \in 1..Len(lk.asks)
    BY <1>1, ServedLink
  <2>2. \A i \in 1..Len(v.asks) : i + 1 \in 1..Len(lk.asks) /\ v.asks[i] = lk.asks[i + 1]
    BY <1>1, ServedLink
  <2>3. /\ \A i \in 1..Len(lk.told) : v.told[i] = lk.told[i]
        /\ v.told[Len(lk.told) + 1] = t
    BY <1>1, ServedLink
  <2>4. \A i \in 1..Len(v.told) : i \in 1..Len(lk.told) \/ i = Len(lk.told) + 1
    BY <1>1, ServedLink
  <2> QED
    BY <2>1, <2>2, <2>3, <2>4
<1>3. \A i \in 1..Len(v.asks) : \E j \in 1..Len(lk.asks) : v.asks[i] = lk.asks[j]
  BY <1>2
<1>4. \A i \in 1..Len(v.told) : v.told[i] = t \/ \E j \in 1..Len(lk.told) : v.told[i] = lk.told[j]
  BY <1>2
<1>5. Typed(s, v, pl)
  BY <1>2, <1>4 DEF Typed, Reply
<1>6. Letters(s, v, pl)
  BY <1>3, <1>4, ZenonT(40) DEF Letters, AskOf, Reply
<1>7. Reported(s, v)
  BY <1>2, <1>4 DEF Reported, ToldOf, Reply, Now
<1>8. ASSUME NEW m \in Due(s.gen, v, pl), m.from < m.to
      PROVE  \E k \in Due(s.gen, lk, pl) : k.from = m.from /\ m.to <= k.to
  <2>1. m \in [from : Nat, to : Nat] /\ m.to \in Nat /\ m.to <= m.to
    BY DEF Due
  <2>2. CASE \/ \E i \in 1..Len(v.asks) :
                  AskOf(v, i, s.gen) /\ v.asks[i].chunk.from = m.from /\ v.asks[i].chunk.to = m.to
             \/ \E a \in pl : a.chunk.gen = s.gen /\ a.chunk.from = m.from /\ a.chunk.to = m.to
    <3>1. m \in Due(s.gen, lk, pl)
      BY <1>3, <2>1, <2>2 DEF Due, AskOf
    <3> QED
      BY <2>1, <3>1
  <2>3. CASE \E i \in 1..Len(v.told) :
                ToldOf(v, i, s.gen) /\ v.told[i].chunk.from = m.from /\ v.told[i].chunk.to = m.to
    <3>1. PICK i \in 1..Len(v.told) :
                ToldOf(v, i, s.gen) /\ v.told[i].chunk.from = m.from /\ v.told[i].chunk.to = m.to
      BY <2>3
    <3>2. CASE v.told[i] = t
      <4> DEFINE a == lk.asks[1].chunk
                 k == [from |-> a.from, to |-> a.to]
      <4>1. AskOf(lk, 1, s.gen) /\ Within({t.chunk}, {a})
        BY <3>1, <3>2 DEF Reply, Now, ToldOf
      <4>2. k \in Due(s.gen, lk, pl)
        BY <1>1, <1>2, <4>1, DueAsk
      <4>3. a.from = m.from /\ m.to <= a.to
        BY <1>8, <3>1, <3>2, <4>1 DEF Within
      <4> HIDE DEF a
      <4> QED
        BY <4>2, <4>3
    <3>3. CASE \E j \in 1..Len(lk.told) : v.told[i] = lk.told[j]
      <4>1. m \in Due(s.gen, lk, pl)
        BY <2>1, <3>1, <3>3 DEF Due, ToldOf
      <4> QED
        BY <2>1, <4>1
    <3> QED
      BY <1>4, <3>2, <3>3
  <2> QED
    BY <1>8, <2>2, <2>3 DEF Due
<1> QED
  BY <1>5, <1>6, <1>7, <1>8 DEF Within

LEMMA ServedPlaces ==
  ASSUME NEW lk \in LinkType, Places(lk), lk.asks # <<>>, NEW t \in ToldType, NEW v, v = Served(lk, t),
         t.kind = "Described" <=> lk.asks[1].kind = "Describe", t.kind # "Lost"
  PROVE  /\ Places(v) /\ lk.doc \in Docs
         /\ ~Describes(v) /\ (lk.asks[1].kind = "Describe" => Described(v))
         /\ lk.asks[1].kind # "Describe" => ~Describes(lk) /\ (Described(v) <=> Described(lk))
<1>1. /\ v.doc = lk.doc /\ v.alive = lk.alive
      /\ 1 \in 1..Len(lk.asks)
      /\ \A i \in 1..Len(v.asks) : i + 1 \in 1..Len(lk.asks) /\ v.asks[i] = lk.asks[i + 1]
      /\ \A i \in 1..Len(lk.told) : i \in 1..Len(v.told) /\ v.told[i] = lk.told[i]
      /\ Len(lk.told) + 1 \in 1..Len(v.told) /\ v.told[Len(lk.told) + 1] = t
      /\ \A i \in 1..Len(v.told) : i \in 1..Len(lk.told) \/ i = Len(lk.told) + 1
  BY ServedLink, SMTT(40)
<1>2. \A i \in 1..Len(v.asks) : v.asks[i].kind # "Describe"
  <2>1. \A i \in 1..Len(v.asks) : i + 1 # 1
    OBVIOUS
  <2> QED
    BY <1>1, <2>1 DEF Places
<1>3. ~Describes(v)
  BY <1>2 DEF Describes
<1>4. lk # NoLink /\ lk.alive
  BY DEF NoLink, Places
<1>5. lk.doc \in Docs /\ preparing = NoDoc /\ lk.doc # NoDoc
  BY <1>4 DEF Places, LinkType
<1>6. lk.asks[1].kind = "Describe" => Described(v) /\ lk.told = <<>>
  BY <1>1 DEF Described, Places
<1>7. lk.asks[1].kind # "Describe" => ~Describes(lk) /\ (Described(v) <=> Described(lk))
  <2> SUFFICES ASSUME lk.asks[1].kind # "Describe" PROVE ~Describes(lk) /\ (Described(v) <=> Described(lk))
    OBVIOUS
  <2>1. ~Describes(lk)
    BY DEF Describes, Places
  <2>2. Described(v) => Described(lk)
    BY <1>1 DEF Described
  <2>3. Described(lk) => Described(v)
    BY <1>1 DEF Described
  <2> QED
    BY <2>1, <2>2, <2>3
<1>8. \A i \in 1..Len(v.told) : v.told[i].kind = "Described" => i = 1
  <2> SUFFICES ASSUME NEW i \in 1..Len(v.told), v.told[i].kind = "Described" PROVE i = 1
    OBVIOUS
  <2>1. CASE i \in 1..Len(lk.told)
    BY <1>1, <2>1 DEF Places
  <2>2. CASE i = Len(lk.told) + 1
    BY <1>1, <1>6, <2>2
  <2> QED
    BY <1>1, <2>1, <2>2
<1>9. faults = 0 => \A i \in 1..Len(v.told) : v.told[i].kind # "Lost"
  BY <1>1 DEF Places
<1>10. v.doc # NoDoc
  BY <1>1, <1>5
<1>11. faults = 0 /\ ~Describes(v) /\ ~Described(v) => reader = v.doc
  BY <1>1, <1>4, <1>6, <1>7 DEF Places
<1>12. Places(v)
  <2>1. \A i \in 1..Len(v.asks) : v.asks[i].kind = "Describe" => i = 1 /\ v.told = <<>>
    BY <1>2
  <2> QED
    BY <1>1, <1>3, <1>4, <1>5, <1>8, <1>9, <1>10, <1>11, <2>1 DEF Places
<1> QED
  BY <1>3, <1>5, <1>6, <1>7, <1>12

LEMMA ServedEach ==
  ASSUME NEW s, NEW lk \in LinkType, NEW pl, Each(s, lk, pl), lk.asks # <<>>,
         NEW t \in ToldType, NEW v, v = Served(lk, t),
         \A f : AskAt(s, lk, 1, f) <=> Now(s, t) /\ t.chunk.from = f,
         Now(s, t) => t.chunk.from < t.chunk.to
  PROVE  Each(s, v, pl)
<1>1. /\ 1 \in 1..Len(lk.asks)
      /\ \A i \in 1..Len(v.asks) : i + 1 \in 1..Len(lk.asks) /\ v.asks[i] = lk.asks[i + 1]
      /\ \A i \in 1..Len(lk.asks) : i = 1 \/ (i - 1 \in 1..Len(v.asks) /\ v.asks[i - 1] = lk.asks[i])
      /\ \A i \in 1..Len(lk.told) : i \in 1..Len(v.told) /\ v.told[i] = lk.told[i]
      /\ Len(lk.told) + 1 \in 1..Len(v.told) /\ v.told[Len(lk.told) + 1] = t
      /\ \A i \in 1..Len(v.told) : i \in 1..Len(lk.told) \/ i = Len(lk.told) + 1
  <2>1. /\ 1 \in 1..Len(lk.asks)
        /\ \A i \in 1..Len(v.asks) : i + 1 \in 1..Len(lk.asks) /\ v.asks[i] = lk.asks[i + 1]
    BY ServedLink
  <2>2. \A i \in 1..Len(lk.asks) : i = 1 \/ (i - 1 \in 1..Len(v.asks) /\ v.asks[i - 1] = lk.asks[i])
    BY ServedLink
  <2>3. \A i \in 1..Len(lk.told) : i \in 1..Len(v.told) /\ v.told[i] = lk.told[i]
    BY ServedLink
  <2>4. Len(lk.told) + 1 \in 1..Len(v.told) /\ v.told[Len(lk.told) + 1] = t
    BY ServedLink
  <2>5. \A i \in 1..Len(v.told) : i \in 1..Len(lk.told) \/ i = Len(lk.told) + 1
    BY ServedLink
  <2> QED
    BY <2>1, <2>2, <2>3, <2>4, <2>5
<1>2. /\ \A i \in 1..Len(v.asks) : \A f : AskAt(s, v, i, f) <=> AskAt(s, lk, i + 1, f)
      /\ \A i \in 1..Len(lk.told) : \A f : ToldAt(s, v, i, f) <=> ToldAt(s, lk, i, f)
      /\ \A f : ToldAt(s, v, Len(lk.told) + 1, f) <=> AskAt(s, lk, 1, f)
  BY <1>1 DEF AskAt, AskOf, ToldAt, ToldOf, Now
<1>3. \A i \in 1..Len(lk.asks) : \A f : AskAt(s, lk, i, f) =>
        i = 1 \/ \E j \in 1..Len(v.asks) : AskAt(s, v, j, f)
  <2> SUFFICES ASSUME NEW i \in 1..Len(lk.asks), NEW f, AskAt(s, lk, i, f), i # 1
               PROVE  \E j \in 1..Len(v.asks) : AskAt(s, v, j, f)
    OBVIOUS
  <2>1. i - 1 \in 1..Len(v.asks) /\ (i - 1) + 1 = i
    BY <1>1
  <2>2. AskAt(s, v, i - 1, f) <=> AskAt(s, lk, (i - 1) + 1, f)
    BY <1>2, <2>1
  <2> QED
    BY <2>1, <2>2
<1>4. ASSUME NEW m \in Due(s.gen, v, pl) PROVE m.from < m.to /\ m.from \in s.inFlight
  <2>1. m \in [from : Nat, to : Nat]
    BY DEF Due
  <2>2. CASE \/ \E i \in 1..Len(v.asks) :
                  AskOf(v, i, s.gen) /\ v.asks[i].chunk.from = m.from /\ v.asks[i].chunk.to = m.to
             \/ \E a \in pl : a.chunk.gen = s.gen /\ a.chunk.from = m.from /\ a.chunk.to = m.to
    <3>1. \A i \in 1..Len(v.asks) : \E j \in 1..Len(lk.asks) : v.asks[i] = lk.asks[j]
      BY <1>1
    <3>2. m \in Due(s.gen, lk, pl)
      BY <2>1, <2>2, <3>1 DEF Due, AskOf
    <3> QED
      BY <3>2 DEF Each
  <2>3. CASE \E i \in 1..Len(v.told) :
                ToldOf(v, i, s.gen) /\ v.told[i].chunk.from = m.from /\ v.told[i].chunk.to = m.to
    <3>1. PICK i \in 1..Len(v.told) :
                ToldOf(v, i, s.gen) /\ v.told[i].chunk.from = m.from /\ v.told[i].chunk.to = m.to
      BY <2>3
    <3>2. CASE i \in 1..Len(lk.told)
      <4>1. m \in Due(s.gen, lk, pl)
        BY <1>1, <2>1, <3>1, <3>2, ZenonT(40) DEF Due, ToldOf
      <4> QED
        BY <4>1 DEF Each
    <3>3. CASE i = Len(lk.told) + 1
      <4>1. Now(s, t) /\ t.chunk.from = m.from /\ t.chunk.to = m.to
        BY <1>1, <3>1, <3>3 DEF ToldOf, Now
      <4>2. AskAt(s, lk, 1, m.from)
        BY <4>1
      <4>3. [from |-> lk.asks[1].chunk.from, to |-> lk.asks[1].chunk.to] \in Due(s.gen, lk, pl)
        BY <1>1, <4>2, DueAsk DEF AskAt
      <4>4. lk.asks[1].chunk.from \in s.inFlight
        BY <4>3 DEF Each
      <4> QED
        BY <4>1, <4>2, <4>4 DEF AskAt
    <3> QED
      BY <1>1, <3>2, <3>3
  <2> QED
    BY <1>4, <2>2, <2>3 DEF Due
<1>5. ASSUME NEW f \in s.inFlight
      PROVE  \/ \E i \in 1..Len(v.asks) : AskAt(s, v, i, f)
             \/ \E i \in 1..Len(v.told) : ToldAt(s, v, i, f)
             \/ \E a \in pl : PoolAt(s, a, f)
  <2>1. \/ \E i \in 1..Len(lk.asks) : AskAt(s, lk, i, f)
        \/ \E i \in 1..Len(lk.told) : ToldAt(s, lk, i, f)
        \/ \E a \in pl : PoolAt(s, a, f)
    BY DEF Each
  <2>2. CASE \E i \in 1..Len(lk.asks) : AskAt(s, lk, i, f)
    <3>1. PICK i \in 1..Len(lk.asks) : AskAt(s, lk, i, f)
      BY <2>2
    <3>2. CASE i = 1
      BY <1>1, <1>2, <3>1, <3>2
    <3>3. CASE i # 1
      BY <1>3, <3>1, <3>3
    <3> QED
      BY <3>2, <3>3
  <2>3. CASE \E i \in 1..Len(lk.told) : ToldAt(s, lk, i, f)
    BY <1>1, <1>2, <2>3
  <2> QED
    BY <2>1, <2>2, <2>3
<1>6. ASSUME NEW f \in s.inFlight
      PROVE  /\ \A i, j \in 1..Len(v.asks) : AskAt(s, v, i, f) /\ AskAt(s, v, j, f) => i = j
             /\ \A i, j \in 1..Len(v.told) : ToldAt(s, v, i, f) /\ ToldAt(s, v, j, f) => i = j
             /\ \A a, b \in pl : PoolAt(s, a, f) /\ PoolAt(s, b, f) => a = b
             /\ \A i \in 1..Len(v.asks), j \in 1..Len(v.told) : ~(AskAt(s, v, i, f) /\ ToldAt(s, v, j, f))
             /\ \A a \in pl : PoolAt(s, a, f) =>
                  /\ \A i \in 1..Len(v.asks) : ~AskAt(s, v, i, f)
                  /\ \A j \in 1..Len(v.told) : ~ToldAt(s, v, j, f)
  <2>1. \A i \in 1..Len(v.asks) : AskAt(s, v, i, f) =>
          i + 1 \in 1..Len(lk.asks) /\ i + 1 # 1 /\ AskAt(s, lk, i + 1, f)
    <3>1. \A i \in 1..Len(v.asks) : i + 1 # 1
      OBVIOUS
    <3> QED
      BY <1>1, <1>2, <3>1
  <2>2. \A i \in 1..Len(v.told) : ToldAt(s, v, i, f) =>
          \/ i \in 1..Len(lk.told) /\ ToldAt(s, lk, i, f)
          \/ i = Len(lk.told) + 1 /\ AskAt(s, lk, 1, f)
    BY <1>1, <1>2
  <2>3. \A i, j \in 1..Len(v.asks) : AskAt(s, v, i, f) /\ AskAt(s, v, j, f) => i = j
    <3>1. \A i, j \in 1..Len(v.asks) : i + 1 = j + 1 => i = j
      OBVIOUS
    <3> QED
      BY <2>1, <3>1 DEF Each
  <2>4. \A i, j \in 1..Len(v.told) : ToldAt(s, v, i, f) /\ ToldAt(s, v, j, f) => i = j
    BY <1>1, <2>2 DEF Each
  <2>5. \A i \in 1..Len(v.asks), j \in 1..Len(v.told) : ~(AskAt(s, v, i, f) /\ ToldAt(s, v, j, f))
    BY <1>1, <2>1, <2>2 DEF Each
  <2>6. \A a \in pl : PoolAt(s, a, f) => \A i \in 1..Len(v.asks) : ~AskAt(s, v, i, f)
    BY <2>1 DEF Each
  <2>7. \A a \in pl : PoolAt(s, a, f) => \A j \in 1..Len(v.told) : ~ToldAt(s, v, j, f)
    BY <1>1, <2>2 DEF Each
  <2> QED
    BY <2>3, <2>4, <2>5, <2>6, <2>7 DEF Each
<1> QED
  BY <1>4, <1>5, <1>6 DEF Each

-----------------------------------------------------------------------------
(* The steps that leave the scan as it is. *)

Alike(n, s) ==
  /\ SameScan(n, s) /\ n.hits = s.hits /\ n.problem = s.problem /\ n.inFlight = s.inFlight
  /\ n.requested = s.requested /\ n.scanned = s.scanned

LEMMA AlikeItself == Alike(scan, scan)
  BY DEF Alike, SameScan

(* While a document worker is being started, the scan is of the document on *)
(* screen, and the pool is asked for no page that it does not have.         *)
LEMMA PreparedShape ==
  ASSUME Messages(scan, link, pool), preparing # NoDoc
  PROVE  /\ \A a \in pool : a.chunk.gen = scan.gen => Inside(a.chunk, deck)
         /\ scan.query # NoQuery /\ deck # NoDoc =>
              \A p \in Nat : p < scan.pages => ~(p >= PageCount[deck])
<1>1. /\ pool \in SUBSET PoolType /\ Letters(scan, link, pool) /\ Asks(scan, pool) /\ Places(link)
      /\ Shape(scan) /\ Read(scan, Due(scan.gen, link, pool)) /\ scan.pages \in Nat
  BY DEF Messages, Typed, ScanBounds, ScanType
<1>2. reader = NoDoc /\ deck \in Docs \cup {NoDoc}
  BY <1>1 DEF Places
<1>3. scan.query # NoQuery /\ deck # NoDoc => scan.pages = PageCount[deck]
  BY <1>1, <1>2 DEF Shape, Searchable
<1>4. ASSUME NEW a \in pool, a.chunk.gen = scan.gen, a.chunk.from < a.chunk.to
      PROVE  a.chunk.to <= PageCount[deck]
  <2>1. a.doc = deck /\ a.chunk \in Chunks /\ a.doc \in Docs /\ a.chunk.query = scan.query
    BY <1>1, <1>4 DEF Asks, PoolType, Letters
  <2>2. scan.query # NoQuery /\ deck # NoDoc
    BY <2>1, SearchAssumption DEF Chunks
  <2> DEFINE D == Due(scan.gen, link, pool)
  <2>3. [from |-> a.chunk.from, to |-> a.chunk.to] \in D
    BY <1>1, <1>4, DuePool
  <2>4. PICK R : Counted(scan, D, R)
    BY <1>1 DEF Read
  <2> HIDE DEF D
  <2>5. a.chunk.to <= scan.pages
    BY <1>4, <2>3, <2>4 DEF Counted
  <2> QED
    BY <1>3, <2>2, <2>5
<1>5. scan.query # NoQuery /\ deck # NoDoc =>
        \A p \in Nat : p < scan.pages => ~(p >= PageCount[deck])
  BY <1>1, <1>3
<1> QED
  BY <1>4, <1>5 DEF Inside

LEMMA QuietMessages ==
  ASSUME Messages(scan, link, pool), ScanBounds(scan'), Alike(scan', scan), deck' = deck,
         faults' = 0 => faults = 0 /\ reader' = reader,
         preparing' # NoDoc => preparing # NoDoc /\ reader' = reader,
         link'.alive => link.alive \/ preparing # NoDoc,
         Typed(scan, link', pool'), Letters(scan, link', pool'), Reported(scan, link'), pool' \subseteq pool,
         Within(Due(scan.gen, link', pool'), Due(scan.gen, link, pool)),
         Places(link)', Steady(scan, link)' => Each(scan, link', pool')
  PROVE  Messages(scan, link, pool)'
<1>1. /\ scan'.gen = scan.gen /\ scan'.query = scan.query /\ scan'.pages = scan.pages
      /\ scan'.start = scan.start /\ scan'.hits = scan.hits /\ scan'.problem = scan.problem
      /\ scan'.inFlight = scan.inFlight /\ scan'.requested = scan.requested /\ scan'.scanned = scan.scanned
      /\ \A p : Behind(scan', p) = Behind(scan, p)
      /\ \A c : Letter(scan', c) <=> Letter(scan, c)
  BY DEF Alike, SameScan, Behind, Letter
<1>2. faults' = 0 => faults = 0 /\ reader' = reader /\ deck' = deck /\ Source' = Source
  BY DEF Source
<1>3. Typed(scan, link, pool)' /\ Letters(scan, link, pool)' /\ Reported(scan, link)'
  BY <1>1 DEF Typed, Letters, Reported
<1>4. Asks(scan, pool)'
  <2> SUFFICES ASSUME NEW a \in pool', a.chunk.gen = scan.gen
               PROVE  /\ a.doc = deck' /\ (faults' = 0 => reader' = NoDoc)
                      /\ link'.alive => Inside(a.chunk, deck')
    BY <1>1 DEF Asks
  <2>1. /\ a.doc = deck /\ (faults = 0 => reader = NoDoc)
        /\ link.alive => Inside(a.chunk, deck)
    BY DEF Messages, Asks
  <2> QED
    BY <1>2, <2>1, PreparedShape
<1>5. Shape(scan)'
  <2>1. Shape(scan) /\ (faults' = 0 \/ preparing' # NoDoc => reader' = reader)
    BY <1>2 DEF Messages
  <2> QED
    BY <1>1, <1>2, <2>1 DEF Shape
<1> DEFINE D == Due(scan.gen, link, pool)
           D2 == Due(scan.gen, link', pool')
<1>6. D \in SUBSET [from : Nat, to : Nat] /\ D2 \in SUBSET [from : Nat, to : Nat]
  BY DueType
<1>7. Read(scan, D2)
  <2>1. ScanBounds(scan) /\ Read(scan, D)
    BY DEF Messages, Typed
  <2> HIDE DEF D, D2
  <2>2. Within(D2, D)
    BY DEF D, D2
  <2> QED
    BY <1>6, <2>1, <2>2, WithinRead
<1>8. Read(scan, Due(scan.gen, link, pool))'
  <2> HIDE DEF D, D2
  <2>1. PICK R \in SUBSET (0..scan.pages) : Counted(scan, D2, R) /\ Content(scan, R)
    BY <1>7 DEF Read
  <2>2. Counted(scan', D2, R)
    BY <1>1, <2>1 DEF Counted
  <2>3. Content(scan, R)'
    <3> SUFFICES ASSUME scan.problem = "none", scan.query # NoQuery, NEW p \in R
                 PROVE  \/ Missing(p)'
                        \/ \E d \in Docs : /\ p < PageCount[d] /\ Text[d][scan.query][p] \subseteq scan.hits
                                           /\ faults' = 0 => d = Source'
      BY <1>1 DEF Content
    <3>1. \/ Missing(p)
          \/ \E d \in Docs : /\ p < PageCount[d] /\ Text[d][scan.query][p] \subseteq scan.hits
                             /\ faults = 0 => d = Source
      BY <2>1 DEF Content
    <3>2. p \in Nat /\ p < scan.pages
      <4>1. scan.pages \in Nat
        BY DEF Messages, Typed, ScanBounds, ScanType
      <4> QED
        BY <2>1, <4>1 DEF Counted
    <3>3. Missing(p) => Missing(p)'
      BY <3>2, PreparedShape DEF Missing, Beyond
    <3> QED
      BY <1>2, <3>1, <3>3
  <2>4. Due(scan.gen, link, pool)' = D2
    BY <1>1 DEF D2
  <2> QED
    BY <1>1, <2>2, <2>3, <2>4 DEF Read
<1>9. Once(scan, link, pool)'
  <2> SUFFICES ASSUME Steady(scan, link)' PROVE Each(scan', link', pool')
    BY DEF Once
  <2>1. Each(scan, link', pool')
    OBVIOUS
  <2>2. /\ \A i, f : AskAt(scan', link', i, f) <=> AskAt(scan, link', i, f)
        /\ \A i, f : ToldAt(scan', link', i, f) <=> ToldAt(scan, link', i, f)
        /\ \A a, f : PoolAt(scan', a, f) <=> PoolAt(scan, a, f)
    BY <1>1 DEF AskAt, ToldAt, PoolAt
  <2> QED
    BY <1>1, <2>1, <2>2 DEF Each
<1> QED
  BY <1>3, <1>4, <1>5, <1>8, <1>9 DEF Messages

(* Pool questions are dropped: nothing that is waited for is missed. *)
LEMMA TakenMessages ==
  ASSUME NEW s, NEW lk, NEW pl, Messages(s, lk, pl), NEW a \in pl,
         a.chunk.gen # s.gen \/ ~Steady(s, lk)
  PROVE  Messages(s, lk, pl \ {a})
<1>1. /\ Typed(s, lk, pl) /\ Letters(s, lk, pl) /\ Reported(s, lk) /\ Asks(s, pl)
      /\ Places(lk) /\ Shape(s) /\ Once(s, lk, pl) /\ ScanBounds(s)
  BY DEF Messages, Typed
<1> DEFINE p2 == pl \ {a}
           D == Due(s.gen, lk, pl)
           D2 == Due(s.gen, lk, p2)
<1>2. Typed(s, lk, p2) /\ Letters(s, lk, p2) /\ Asks(s, p2) /\ Within(D2, D)
  BY <1>1, TakenTyped
<1>3. D \in SUBSET [from : Nat, to : Nat] /\ D2 \in SUBSET [from : Nat, to : Nat]
  BY DueType
<1>4. Read(s, D2)
  <2>1. Read(s, D)
    BY DEF Messages
  <2> HIDE DEF D, D2
  <2> QED
    BY <1>1, <1>2, <1>3, <2>1, WithinRead
<1>5. Once(s, lk, p2)
  <2> SUFFICES ASSUME Steady(s, lk) PROVE Each(s, lk, p2)
    BY DEF Once
  <2> QED
    BY <1>1, TakenEach DEF Once
<1> QED
  BY <1>1, <1>2, <1>4, <1>5 DEF Messages

LEMMA ServedMessages ==
  ASSUME Messages(scan, link, pool), link.asks # <<>>, NEW t, Reply(scan, link, t),
         link' = Served(link, t), t.kind = "Described" <=> link.asks[1].kind = "Describe", t.kind # "Lost",
         Steady(scan, link) =>
           /\ \A f : AskAt(scan, link, 1, f) <=> Now(scan, t) /\ t.chunk.from = f
           /\ Now(scan, t) => t.chunk.from < t.chunk.to,
         UNCHANGED <<scan, deck, reader, preopened, coming, preparing, pool, faults>>
  PROVE  Messages(scan, link, pool)'
<1>1. /\ Typed(scan, link, pool) /\ Letters(scan, link, pool) /\ Reported(scan, link) /\ Places(link)
      /\ link \in LinkType /\ ScanBounds(scan) /\ t \in ToldType /\ Once(scan, link, pool)
  BY DEF Messages, Typed, Reply
<1>2. /\ Typed(scan, link', pool') /\ Letters(scan, link', pool') /\ Reported(scan, link')
      /\ Within(Due(scan.gen, link', pool'), Due(scan.gen, link, pool))
  BY <1>1, ServedTyped
<1>3. /\ Places(link') /\ link.doc \in Docs
      /\ ~Describes(link') /\ (link.asks[1].kind = "Describe" => Described(link'))
      /\ link.asks[1].kind # "Describe" => ~Describes(link) /\ (Described(link') <=> Described(link))
  BY <1>1, ServedPlaces
<1>4. Places(link)'
  BY <1>3 DEF Places
<1>5. Steady(scan, link)' => Each(scan, link', pool')
  <2> SUFFICES ASSUME Steady(scan, link)' PROVE Each(scan, link', pool')
    OBVIOUS
  <2>1. link'.doc = link.doc
    BY <1>1, ServedLink
  <2>2. Steady(scan, link)
    BY <1>3, <2>1 DEF Steady
  <2>3. Each(scan, link, pool) /\ pool' = pool
    BY <1>1, <2>2 DEF Once
  <2> QED
    BY <1>1, <2>2, <2>3, ServedEach
<1>6. link'.alive = link.alive
  BY <1>1, ServedLink
<1> QED
  BY <1>1, <1>2, <1>4, <1>5, <1>6, AlikeItself, QuietMessages

LEMMA ServeDescribeKeeps ==
  ASSUME Messages(scan, link, pool), ServeDescribe,
         UNCHANGED <<scan, deck, reader, preopened, coming, preparing, pool, faults>>
  PROVE  Messages(scan, link, pool)'
<1> DEFINE t == [kind |-> "Described"]
<1>1. link.asks # <<>> /\ Head(link.asks).kind = "Describe" /\ link' = Served(link, t)
  BY DEF ServeDescribe, Says, Served
<1>2. t \in ToldType /\ t.kind = "Described" /\ link \in LinkType
  BY DEF ToldType, Messages, Typed
<1> HIDE DEF t
<1>3. link.asks[1].kind = "Describe"
  BY <1>1, <1>2, ServedLink
<1>4. Reply(scan, link, t)
  BY <1>2 DEF Reply, Now
<1>5. \A f : AskAt(scan, link, 1, f) <=> Now(scan, t) /\ t.chunk.from = f
  BY <1>2, <1>3 DEF AskAt, AskOf, Now
<1>6. ~Now(scan, t) /\ t.kind # "Lost"
  BY <1>2 DEF Now
<1> QED
  BY <1>1, <1>2, <1>3, <1>4, <1>5, <1>6, ServedMessages

LEMMA ServeFindTextKeeps ==
  ASSUME Messages(scan, link, pool), ServeFindText,
         UNCHANGED <<scan, deck, reader, preopened, coming, preparing, pool, faults>>
  PROVE  Messages(scan, link, pool)'
<1> DEFINE c == Head(link.asks).chunk
           hits == Hits(link.doc, c)
<1>1. /\ link.asks # <<>> /\ Head(link.asks).kind = "FindText"
      /\ \/ Superseded(link.asks) /\ link' = Served(link, [kind |-> "Found", chunk |-> Nothing(c)])
         \/ link.doc \in Unsearchable /\ link' = Served(link, [kind |-> "Refused"])
         \/ ~Superseded(link.asks) /\ link' = Served(link, [kind |-> "Found", chunk |-> hits])
  BY DEF ServeFindText, Says, Served
<1>2. /\ Typed(scan, link, pool) /\ Letters(scan, link, pool) /\ Reported(scan, link) /\ Places(link)
      /\ link \in LinkType /\ ScanBounds(scan) /\ Once(scan, link, pool) /\ Shape(scan)
      /\ scan.gen \in Nat
  BY DEF Messages, Typed, ScanBounds, ScanType
<1>3. 1 \in 1..Len(link.asks) /\ Head(link.asks) = link.asks[1] /\ link.asks[1] \in AskType
  <2>1. [kind |-> "Refused"] \in ToldType
    BY DEF ToldType
  <2> QED
    BY <1>1, <1>2, <2>1, ServedLink
<1>4. c = link.asks[1].chunk /\ link.asks[1].kind = "FindText"
  BY <1>1, <1>3
<1>5. c \in Chunks /\ Letter(scan, c) /\ (c.gen = scan.gen => c.query = scan.query)
  BY <1>2, <1>3, <1>4 DEF AskType, Describe, Letters, AskOf
<1>6. c.gen \in Nat /\ c.from \in Nat /\ c.to \in Nat /\ c.from <= c.to /\ c.query \in Queries
  BY <1>5 DEF Chunks, Letter
<1>7. ~Describes(link)
  BY <1>2, <1>3, <1>4 DEF Places, Describes
<1>8. link.doc \in Docs
  <2>1. link # NoLink
    BY <1>1 DEF NoLink
  <2> QED
    BY <1>2, <2>1 DEF Places, LinkType
<1> HIDE DEF c
<1>9. CASE Superseded(link.asks) /\ link' = Served(link, [kind |-> "Found", chunk |-> Nothing(c)])
  <2> DEFINE t == [kind |-> "Found", chunk |-> Nothing(c)]
  <2>1. c.gen # scan.gen
    <3>1. PICK i \in 2..Len(link.asks) : link.asks[i].kind = "FindText" /\ link.asks[i].chunk.gen > c.gen
      BY <1>4, <1>9 DEF Superseded
    <3>2. i \in 1..Len(link.asks) /\ link.asks[i] \in AskType
      <4>1. link.asks \in Seq(AskType)
        BY <1>2 DEF LinkType
      <4>2. i \in 1..Len(link.asks)
        BY <4>1
      <4> QED
        BY <4>1, <4>2, ElementOfSeq
    <3>3. link.asks[i].chunk.gen \in Nat /\ link.asks[i].chunk.gen <= scan.gen
      BY <1>2, <3>1, <3>2 DEF Letters, Letter, AskType, Describe, Chunks
    <3> QED
      BY <1>2, <1>6, <3>1, <3>3
  <2>2. Nothing(c) \in Answers /\ Nothing(c).gen = c.gen /\ Nothing(c).from = c.from /\ Nothing(c).to = c.to
        /\ Nothing(c).hits = {}
    BY <1>6 DEF Nothing, Answers
  <2>3. t \in ToldType /\ t.kind = "Found" /\ t.chunk = Nothing(c)
    BY <2>2 DEF ToldType
  <2> HIDE DEF t
  <2>4. ~Now(scan, t)
    BY <2>1, <2>2, <2>3 DEF Now
  <2>5. Reply(scan, link, t)
    BY <1>5, <2>2, <2>3, <2>4, Limits DEF Reply, Letter
  <2>6. \A f : ~AskAt(scan, link, 1, f)
    BY <1>4, <2>1 DEF AskAt, AskOf
  <2>7. link' = Served(link, t)
    BY <1>9 DEF t
  <2> QED
    BY <1>1, <1>4, <2>3, <2>4, <2>5, <2>6, <2>7, ServedMessages
<1>10. CASE link.doc \in Unsearchable /\ link' = Served(link, [kind |-> "Refused"])
  <2> DEFINE t == [kind |-> "Refused"]
  <2>1. t \in ToldType /\ t.kind = "Refused" /\ link' = Served(link, t)
    BY <1>10 DEF ToldType
  <2> HIDE DEF t
  <2>2. Reply(scan, link, t) /\ ~Now(scan, t) /\ ~Steady(scan, link)
    BY <1>10, <2>1 DEF Reply, Now, Steady
  <2> QED
    BY <1>1, <1>4, <2>1, <2>2, ServedMessages
<1>11. CASE ~Superseded(link.asks) /\ link' = Served(link, [kind |-> "Found", chunk |-> hits])
  <2> DEFINE t == [kind |-> "Found", chunk |-> hits]
  <2>1. /\ Truly(hits, link.doc, c.query) /\ Inside(hits, link.doc) /\ hits \in Answers /\ hits.gen = c.gen /\ IsFiniteSet(hits.hits)
        /\ hits.from <= hits.to
        /\ hits.from < hits.to => hits.from = c.from /\ hits.to <= c.to
        /\ c.to <= PageCount[link.doc] => hits.from = c.from /\ hits.to = c.to
    BY <1>5, <1>6, <1>8, HitsTrue
  <2> HIDE DEF hits
  <2>2. t \in ToldType /\ t.kind = "Found" /\ t.chunk = hits /\ link' = Served(link, t)
    BY <1>11, <2>1 DEF ToldType
  <2> HIDE DEF t
  <2>3. AskOf(link, 1, scan.gen) <=> c.gen = scan.gen
    BY <1>4 DEF AskOf
  <2>4. Now(scan, t) <=> c.gen = scan.gen
    BY <2>1, <2>2 DEF Now
  <2>5. Reply(scan, link, t)
    <3>1. Within({hits}, {c})
      BY <2>1 DEF Within
    <3>2. Letter(scan, hits)
      BY <1>5, <2>1 DEF Letter
    <3> QED
      BY <1>4, <1>5, <2>1, <2>2, <2>3, <2>4, <3>1, <3>2 DEF Reply
  <2>6. ASSUME Steady(scan, link)
        PROVE  /\ \A f : AskAt(scan, link, 1, f) <=> Now(scan, t) /\ t.chunk.from = f
               /\ Now(scan, t) => t.chunk.from < t.chunk.to
    <3>1. CASE c.gen # scan.gen
      BY <2>3, <2>4, <3>1 DEF AskAt
    <3>2. CASE c.gen = scan.gen
      <4> DEFINE D == Due(scan.gen, link, pool)
      <4>1. [from |-> c.from, to |-> c.to] \in D
        BY <1>2, <1>3, <1>4, <2>3, <3>2, DueAsk
      <4>2. c.from < c.to
        BY <1>2, <2>6, <4>1 DEF Once, Each
      <4>3. c.to <= scan.pages
        <5>1. PICK R : Counted(scan, D, R)
          BY DEF Messages, Read
        <5> HIDE DEF D
        <5> QED
          BY <4>1, <4>2, <5>1 DEF Counted
      <4>4. reader = link.doc /\ faults = 0
        BY <1>2, <1>7, <1>8, <2>6, SearchAssumption DEF Steady, Places
      <4>5. scan.pages = PageCount[link.doc]
        <5>1. scan.query # NoQuery /\ reader # NoDoc
          BY <1>5, <1>6, <1>8, <3>2, <4>4, SearchAssumption
        <5> QED
          BY <1>2, <4>4, <5>1 DEF Shape, Searchable
      <4>6. hits.from = c.from /\ hits.to = c.to
        BY <2>1, <4>3, <4>5
      <4> QED
        BY <1>4, <2>2, <2>3, <2>4, <3>2, <4>2, <4>6 DEF AskAt
    <3> QED
      BY <3>1, <3>2
  <2> QED
    BY <1>1, <1>4, <2>2, <2>5, <2>6, ServedMessages
<1> QED
  BY <1>1, <1>9, <1>10, <1>11

(* The links that carry nothing of the scan. *)
LEMMA EmptyLink ==
  ASSUME NEW s, NEW lk, NEW pl, Typed(s, lk, pl), Letters(s, lk, pl), NEW v \in LinkType,
         \A i \in 1..Len(v.asks) : v.asks[i].kind # "FindText",
         \A i \in 1..Len(v.told) : v.told[i].kind # "Found"
  PROVE  /\ Typed(s, v, pl) /\ Letters(s, v, pl) /\ Reported(s, v)
         /\ Within(Due(s.gen, v, pl), Due(s.gen, lk, pl))
<1>1. Typed(s, v, pl) /\ Letters(s, v, pl) /\ Reported(s, v)
  BY DEF Typed, Letters, AskOf, Reported, ToldOf
<1>2. ASSUME NEW m \in Due(s.gen, v, pl) PROVE m \in Due(s.gen, lk, pl) /\ m.to <= m.to
  <2>1. m \in [from : Nat, to : Nat] /\ m.to \in Nat
    BY DEF Due
  <2> QED
    BY <2>1 DEF Due, AskOf, ToldOf
<1> QED
  BY <1>1, <1>2 DEF Within

LEMMA ServeDiesKeeps ==
  ASSUME Messages(scan, link, pool), ServeDies, faults \in Nat,
         UNCHANGED <<scan, deck, reader, preopened, coming, preparing, pool>>
  PROVE  Messages(scan, link, pool)'
<1> DEFINE t == [kind |-> "Lost"]
<1>1. /\ link.asks # <<>> /\ faults' # 0
      /\ link' = [link EXCEPT !.alive = FALSE, !.asks = <<>>, !.told = Append(@, t)]
  BY DEF ServeDies
<1>2. /\ Typed(scan, link, pool) /\ Letters(scan, link, pool) /\ Reported(scan, link) /\ Places(link)
      /\ link \in LinkType /\ ScanBounds(scan)
  BY DEF Messages, Typed
<1>3. t \in ToldType /\ t.kind = "Lost"
  BY DEF ToldType
<1> HIDE DEF t
<1>4. /\ Append(link.told, t) \in Seq(ToldType)
      /\ \A i \in 1..Len(Append(link.told, t)) :
           \/ i \in 1..Len(link.told) /\ Append(link.told, t)[i] = link.told[i]
           \/ Append(link.told, t)[i] = t
  <2>1. link.told \in Seq(ToldType) /\ Len(link.told) \in Nat
    BY <1>2, LenProperties DEF LinkType
  <2>2. /\ Append(link.told, t) \in Seq(ToldType) /\ Len(Append(link.told, t)) = Len(link.told) + 1
        /\ \A i \in 1..Len(link.told) : Append(link.told, t)[i] = link.told[i]
        /\ Append(link.told, t)[Len(link.told) + 1] = t
    BY <1>3, <2>1, AppendProperties
  <2>3. \A i \in 1..Len(link.told) + 1 : i \in 1..Len(link.told) \/ i = Len(link.told) + 1
    BY <2>1
  <2> QED
    BY <2>2, <2>3
<1>5. /\ link' \in LinkType /\ link'.doc = link.doc /\ link'.alive = FALSE /\ link'.asks = <<>>
      /\ link'.told = Append(link.told, t)
  <2>1. <<>> \in Seq(AskType) /\ FALSE \in BOOLEAN
    OBVIOUS
  <2> QED
    BY <1>1, <1>2, <1>4, <2>1 DEF LinkType
<1>6. /\ Len(link'.asks) = 0
      /\ \A i \in 1..Len(link'.told) :
           link'.told[i] = t \/ (i \in 1..Len(link.told) /\ link'.told[i] = link.told[i])
  BY <1>4, <1>5
<1>7. Typed(scan, link', pool) /\ Letters(scan, link', pool) /\ Reported(scan, link')
  <2>1. \A i \in 1..Len(link'.asks) : FALSE
    BY <1>6
  <2> QED
    BY <1>2, <1>3, <1>5, <1>6, <2>1 DEF Typed, Letters, Reported, ToldOf
<1>8. Within(Due(scan.gen, link', pool), Due(scan.gen, link, pool))
  <2>1. \A i \in 1..Len(link'.asks) : FALSE
    BY <1>6
  <2>2. ASSUME NEW m \in Due(scan.gen, link', pool) PROVE m \in Due(scan.gen, link, pool) /\ m.to <= m.to
    <3>1. m \in [from : Nat, to : Nat] /\ m.to \in Nat
      BY <2>2 DEF Due
    <3> QED
      BY <1>3, <1>6, <2>1, <2>2, <3>1 DEF Due, ToldOf
  <2> QED
    BY <2>2 DEF Within
<1>9. Places(link)'
  <2>1. link # NoLink
    BY <1>1 DEF NoLink
  <2>2. \A i \in 1..Len(link'.asks) : FALSE
    BY <1>6
  <2>3. \A i \in 1..Len(link'.told) : link'.told[i].kind = "Described" => i = 1
    BY <1>2, <1>3, <1>6 DEF Places
  <2>4. preparing = NoDoc /\ link.doc # NoDoc
    BY <1>2, <2>1 DEF Places
  <2> QED
    BY <1>1, <1>2, <1>5, <2>2, <2>3, <2>4 DEF Places
<1>10. ~Steady(scan, link)'
  BY <1>1 DEF Steady
<1> QED
  BY <1>1, <1>2, <1>7, <1>8, <1>9, <1>10, AlikeItself, QuietMessages

-----------------------------------------------------------------------------
(* The application's steps. *)

LEMMA SearchedKeeps ==
  ASSUME Messages(scan, link, pool), NEW q \in Queries \cup {NoQuery}, scan' = Searched(q),
         UNCHANGED <<deck, reader, preopened, coming, preparing, link, pool, faults>>
  PROVE  Messages(scan, link, pool)'
<1>1. Typed(scan, link, pool) /\ Letters(scan, link, pool) /\ Places(link) /\ ScanBounds(scan)
  BY DEF Messages, Typed
<1>2. {deck, reader} \subseteq Docs \cup {NoDoc}
  BY <1>1 DEF Places
<1>3. Begun(scan', scan, reader', deck')
  BY <1>1, <1>2, SearchedBegun
<1>4. Earlier(link')
  BY <1>1, LinkEarlier
<1>5. Places(link)'
  BY <1>1 DEF Places
<1> QED
  BY <1>1, <1>3, <1>4, <1>5, BegunMessages

LEMMA ClearedKeeps ==
  ASSUME Messages(scan, link, pool), scan' = Cleared(scan), pool' = pool,
         Places(link)', link' = link \/ link' = NoLink
  PROVE  Messages(scan, link, pool)'
<1>1. Typed(scan, link, pool) /\ Letters(scan, link, pool) /\ Places(link) /\ ScanBounds(scan)
  BY DEF Messages, Typed
<1>2. Begun(scan', scan, reader', deck')
  BY <1>1, ClearedBegun
<1>3. Earlier(link')
  BY <1>1, LinkEarlier, NoLinkEarlier
<1> QED
  BY <1>1, <1>2, <1>3, BegunMessages

LEMMA DroppedPlaces ==
  ASSUME link' = NoLink, reader' = NoDoc, preopened' = NoDoc,
         {deck', coming', preparing'} \subseteq Docs \cup {NoDoc}
  PROVE  Places(link)'
<1>1. Len(NoLink.asks) = 0 /\ Len(NoLink.told) = 0 /\ NoLink.doc = NoDoc /\ NoLink.alive = FALSE /\ NoLink.asks = <<>>
  BY DEF NoLink
<1> QED
  BY <1>1 DEF Places

LEMMA OpenDocumentKeeps ==
  ASSUME Messages(scan, link, pool), NEW d \in Docs, OpenDocument(d) PROVE Messages(scan, link, pool)'
<1>1. Places(link)'
  BY DroppedPlaces DEF OpenDocument, Messages, Places
<1> QED
  BY <1>1, ClearedKeeps DEF OpenDocument

LEMMA CloseDocumentKeeps ==
  ASSUME Messages(scan, link, pool), CloseDocument PROVE Messages(scan, link, pool)'
<1>1. Places(link)'
  BY DroppedPlaces DEF CloseDocument
<1> QED
  BY <1>1, ClearedKeeps DEF CloseDocument

(* The user turns a page, the file is rewritten, the worker is not started. *)
LEMMA LinkLeftKeeps ==
  ASSUME Messages(scan, link, pool), ScanBounds(scan'), Alike(scan', scan), Places(link)',
         UNCHANGED <<deck, reader, preopened, link, pool, faults>>, preparing' \in {preparing, NoDoc}
  PROVE  Messages(scan, link, pool)'
<1>1. /\ Typed(scan, link, pool) /\ Letters(scan, link, pool) /\ Reported(scan, link)
      /\ Once(scan, link, pool)
  BY DEF Messages
<1>2. \A m \in Due(scan.gen, link, pool) : m.to <= m.to
  BY DEF Due
<1>3. Within(Due(scan.gen, link', pool'), Due(scan.gen, link, pool))
  BY <1>2 DEF Within
<1>4. Steady(scan, link)' => Steady(scan, link)
  BY DEF Steady, Alike
<1>5. Steady(scan, link)' => Each(scan, link', pool')
  BY <1>1, <1>4 DEF Once
<1> QED
  BY <1>1, <1>3, <1>5, QuietMessages

LEMMA OpenSearchKeeps ==
  ASSUME Messages(scan, link, pool), NEW page \in Nat, OpenSearch(page) PROVE Messages(scan, link, pool)'
<1>1. ScanBounds(scan) /\ scan \in ScanType /\ Places(link)
  BY DEF Messages, Typed, ScanBounds
<1>2. /\ scan' = [scan EXCEPT !.origin = page]
      /\ UNCHANGED <<deck, reader, preopened, coming, preparing, link, pool, faults>>
  BY DEF OpenSearch, documents
<1>3. scan' \in ScanType /\ Alike(scan', scan)
  BY <1>1, <1>2 DEF ScanType, Alike, SameScan
<1>4. ScanBounds(scan')
  BY <1>1, <1>3 DEF ScanBounds, Alike, SameScan
<1>5. Places(link)'
  BY <1>1, <1>2 DEF Places
<1> QED
  BY <1>2, <1>3, <1>4, <1>5, LinkLeftKeeps

LEMMA RebuildKeeps ==
  ASSUME Messages(scan, link, pool), NEW d \in Docs, Rebuild(d) PROVE Messages(scan, link, pool)'
<1>1. ScanBounds(scan) /\ Places(link)
  BY DEF Messages, Typed
<1>2. Places(link)'
  BY <1>1 DEF Rebuild, Places
<1> QED
  BY <1>1, <1>2, AlikeItself, LinkLeftKeeps DEF Rebuild

LEMMA PrepareFailsKeeps ==
  ASSUME Messages(scan, link, pool), PrepareFails PROVE Messages(scan, link, pool)'
<1>1. ScanBounds(scan) /\ Places(link)
  BY DEF Messages, Typed
<1>2. Places(link)'
  BY <1>1 DEF PrepareFails, Places
<1> QED
  BY <1>1, <1>2, AlikeItself, LinkLeftKeeps DEF PrepareFails

LEMMA PromoteKeeps ==
  ASSUME Messages(scan, link, pool), Promote PROVE Messages(scan, link, pool)'
<1>1. Typed(scan, link, pool) /\ Letters(scan, link, pool) /\ Places(link) /\ ScanBounds(scan)
  BY DEF Messages, Typed
<1>2. /\ deck' = coming /\ coming' = NoDoc /\ scan' = Rescanned(reader, coming)
      /\ UNCHANGED <<reader, preopened, preparing, link, pool, faults>>
  BY DEF Promote
<1>3. {reader, coming} \subseteq Docs \cup {NoDoc}
  BY <1>1 DEF Places
<1>4. Begun(scan', scan, reader', deck')
  BY <1>1, <1>2, <1>3, RescannedBegun
<1>5. Places(link)'
  BY <1>1, <1>2 DEF Places
<1>6. Earlier(link')
  BY <1>1, <1>2, LinkEarlier
<1> QED
  BY <1>1, <1>2, <1>4, <1>5, <1>6, BegunMessages

LEMMA FinishPrepareKeeps ==
  ASSUME Messages(scan, link, pool), NEW shape \in Docs \cup {NoDoc}, FinishPrepare(shape)
  PROVE  Messages(scan, link, pool)'
<1>1. Typed(scan, link, pool) /\ Letters(scan, link, pool) /\ Places(link) /\ ScanBounds(scan)
  BY DEF Messages, Typed
<1>2. /\ preparing # NoDoc /\ preparing' = NoDoc /\ link' = NewLink(preparing) /\ preopened' = shape
      /\ IF shape = NoDoc THEN UNCHANGED <<reader, scan>>
         ELSE reader' = shape /\ scan' = Rescanned(shape, deck)
      /\ UNCHANGED <<deck, coming, pool, faults>>
  BY DEF FinishPrepare
<1>3. preparing \in Docs /\ link = NoLink /\ reader = NoDoc
  BY <1>1, <1>2 DEF Places
<1>4. /\ link'.doc = preparing /\ link'.alive = TRUE /\ link'.asks = <<Describe>> /\ link'.told = <<>>
      /\ Len(link'.asks) = 1 /\ link'.asks[1].kind = "Describe" /\ Len(link'.told) = 0
  BY <1>2 DEF NewLink, Describe
<1>5. Places(link)'
  <2>1. \A i \in 1..Len(link'.asks) : i = 1
    BY <1>4
  <2>2. \A i \in 1..Len(link'.told) : FALSE
    BY <1>4
  <2>3. Describes(link')
    BY <1>4 DEF Describes
  <2>4. link'.doc # NoDoc /\ reader' = shape
    BY <1>2, <1>3, <1>4
  <2> QED
    BY <1>1, <1>2, <1>3, <1>4, <2>1, <2>2, <2>3, <2>4 DEF Places
<1>6. CASE shape # NoDoc
  <2>1. deck \in Docs \cup {NoDoc}
    BY <1>1 DEF Places
  <2>2. Begun(scan', scan, reader', deck')
    BY <1>1, <1>2, <1>6, <2>1, RescannedBegun
  <2>3. Earlier(link')
    BY <1>2, <1>3, NewLinkEarlier
  <2> QED
    BY <1>1, <1>2, <1>5, <2>2, <2>3, BegunMessages
<1>7. CASE shape = NoDoc
  <2>1. link' \in LinkType
    BY <1>2, <1>3, NewLinkEarlier DEF Earlier
  <2>2. /\ \A i \in 1..Len(link'.asks) : link'.asks[i].kind # "FindText"
        /\ \A i \in 1..Len(link'.told) : link'.told[i].kind # "Found"
    <3>1. \A i \in 1..Len(link'.asks) : i = 1
      BY <1>4
    <3>2. \A i \in 1..Len(link'.told) : FALSE
      BY <1>4
    <3> QED
      BY <1>4, <3>1, <3>2
  <2>3. /\ Typed(scan, link', pool) /\ Letters(scan, link', pool) /\ Reported(scan, link')
        /\ Within(Due(scan.gen, link', pool), Due(scan.gen, link, pool))
    BY <1>1, <2>1, <2>2, EmptyLink
  <2>4. ~Steady(scan, link)'
    <3>1. Describes(link') /\ preopened' # link'.doc
      BY <1>2, <1>3, <1>4, <1>7, SearchAssumption DEF Describes
    <3> QED
      BY <3>1 DEF Steady
  <2> QED
    BY <1>1, <1>2, <1>5, <1>7, <2>3, <2>4, AlikeItself, QuietMessages
<1> QED
  BY <1>6, <1>7

LEMMA TickKeeps == ASSUME Messages(scan, link, pool), Tick PROVE Messages(scan, link, pool)'
<1>1. PumpNow(scan, link, pool) /\ Still
  BY DEF Tick, PumpNow, Still, documents
<1> QED
  BY <1>1, PumpKeeps

LEMMA HandleFoundKeeps == ASSUME Messages(scan, link, pool), HandleFound PROVE Messages(scan, link, pool)'
<1>1. link.told # <<>> /\ Head(link.told).kind = "Found" /\ link \in LinkType
  BY DEF HandleFound, Told, Messages, Typed
<1>2. link.told[1] = Head(link.told)
  BY <1>1, HeardLink
<1> DEFINE s == Accepted(scan, link.told[1].chunk)
           h == [link EXCEPT !.told = Tail(@)]
<1>3. PumpNow(s, h, pool) /\ Still
  BY <1>2 DEF HandleFound, Heard, Still, documents
<1>4. Messages(s, h, pool)
  BY <1>1, <1>2, HeardAccepted
<1> HIDE DEF s, h
<1> QED
  BY <1>3, <1>4, PumpKeeps

LEMMA HandleRefusedKeeps ==
  ASSUME Messages(scan, link, pool), HandleRefused PROVE Messages(scan, link, pool)'
<1>1. /\ link.told # <<>> /\ Head(link.told).kind = "Refused" /\ link' = [link EXCEPT !.told = Tail(@)]
      /\ UNCHANGED <<scan, deck, reader, preopened, coming, preparing, pool, faults>>
  BY DEF HandleRefused, Told, Heard, documents
<1>2. /\ Typed(scan, link, pool) /\ Letters(scan, link, pool) /\ Reported(scan, link) /\ Places(link)
      /\ link \in LinkType /\ ScanBounds(scan) /\ Once(scan, link, pool)
  BY DEF Messages, Typed
<1>3. link.told[1].kind = "Refused" /\ link'.doc = link.doc /\ link'.alive = link.alive
  BY <1>1, <1>2, HeardLink
<1>4. /\ Typed(scan, link', pool) /\ Letters(scan, link', pool) /\ Reported(scan, link')
      /\ Within(Due(scan.gen, link', pool), Due(scan.gen, link, pool))
  BY <1>1, <1>2, HeardTyped
<1>5. Places(link') /\ ~Describes(link) /\ ~Described(link)
  BY <1>1, <1>2, <1>3, HeardPlaces
<1>6. Places(link)'
  BY <1>1, <1>5 DEF Places
<1>7. Steady(scan, link)' => Each(scan, link', pool')
  <2> SUFFICES ASSUME Steady(scan, link)' PROVE Each(scan, link', pool)
    BY <1>1
  <2>1. Each(scan, link, pool)
    BY <1>1, <1>2, <1>3, <1>5 DEF Once, Steady
  <2>2. ~ToldOf(link, 1, scan.gen)
    BY <1>3 DEF ToldOf
  <2> QED
    BY <1>1, <1>2, <2>1, <2>2, HeardEach
<1> QED
  BY <1>1, <1>2, <1>3, <1>4, <1>6, <1>7, AlikeItself, QuietMessages

LEMMA HandleLostKeeps == ASSUME Messages(scan, link, pool), HandleLost PROVE Messages(scan, link, pool)'
<1>1. /\ link.told # <<>> /\ Head(link.told).kind = "Lost" /\ link' = NoLink /\ reader' = NoDoc
      /\ UNCHANGED <<scan, deck, preopened, coming, preparing, pool, faults>>
  BY DEF HandleLost, Told
<1>2. /\ Typed(scan, link, pool) /\ Letters(scan, link, pool) /\ Places(link)
      /\ link \in LinkType /\ ScanBounds(scan)
  BY DEF Messages, Typed
<1>3. link.told[1].kind = "Lost" /\ 1 \in 1..Len(link.told)
  BY <1>1, <1>2, HeardLink
<1>4. faults # 0
  BY <1>2, <1>3 DEF Places
<1>5. NoLink \in LinkType /\ NoLink.doc = NoDoc /\ ~NoLink.alive /\ NoLink.asks = <<>> /\ Len(NoLink.asks) = 0 /\ Len(NoLink.told) = 0
  BY NoLinkEarlier DEF Earlier, NoLink
<1>6. /\ Typed(scan, NoLink, pool) /\ Letters(scan, NoLink, pool) /\ Reported(scan, NoLink)
      /\ Within(Due(scan.gen, NoLink, pool), Due(scan.gen, link, pool))
  <2>1. (\A i \in 1..Len(NoLink.asks) : FALSE) /\ (\A i \in 1..Len(NoLink.told) : FALSE)
    BY <1>5
  <2> QED
    BY <1>2, <1>5, <2>1, EmptyLink
<1>7. preparing = NoDoc
  <2>1. link # NoLink
    BY <1>1 DEF NoLink
  <2> QED
    BY <1>2, <2>1 DEF Places
<1>8. Places(link)'
  <2>1. (\A i \in 1..Len(NoLink.asks) : FALSE) /\ (\A i \in 1..Len(NoLink.told) : FALSE)
    BY <1>5
  <2> QED
    BY <1>1, <1>2, <1>4, <1>5, <1>7, <2>1 DEF Places
<1>9. ~Steady(scan, link)'
  BY <1>1, <1>4 DEF Steady
<1> QED
  BY <1>1, <1>2, <1>4, <1>5, <1>6, <1>7, <1>8, <1>9, AlikeItself, QuietMessages

LEMMA HandleDescribedKeeps ==
  ASSUME Messages(scan, link, pool), HandleDescribed PROVE Messages(scan, link, pool)'
<1>1. /\ link.told # <<>> /\ Head(link.told).kind = "Described" /\ link' = [link EXCEPT !.told = Tail(@)]
      /\ preopened' = NoDoc
      /\ IF preopened = link.doc THEN UNCHANGED <<scan, reader>>
         ELSE reader' = link.doc /\ scan' = Rescanned(link.doc, deck)
      /\ UNCHANGED <<deck, coming, preparing, pool, faults>>
  BY DEF HandleDescribed, Told, Heard
<1>2. /\ Typed(scan, link, pool) /\ Letters(scan, link, pool) /\ Reported(scan, link) /\ Places(link)
      /\ link \in LinkType /\ ScanBounds(scan) /\ Once(scan, link, pool)
  BY DEF Messages, Typed
<1>3. /\ link.told[1].kind = "Described" /\ link'.doc = link.doc /\ link'.alive = link.alive
      /\ link'.asks = link.asks
      /\ \A i \in 1..Len(link'.told) : i + 1 \in 1..Len(link.told) /\ link'.told[i] = link.told[i + 1]
  BY <1>1, <1>2, HeardLink
<1>4. /\ Typed(scan, link', pool) /\ Letters(scan, link', pool) /\ Reported(scan, link')
      /\ Within(Due(scan.gen, link', pool), Due(scan.gen, link, pool))
  BY <1>1, <1>2, HeardTyped
<1>5. link.doc \in Docs /\ link.doc # NoDoc /\ preparing = NoDoc
  <2>1. link # NoLink
    BY <1>1 DEF NoLink
  <2> QED
    BY <1>2, <2>1 DEF Places, LinkType
<1>6. faults' = 0 => reader' = link.doc
  BY <1>1, <1>2, <1>5 DEF Places
<1>7. Places(link)'
  <2>1. \A i \in 1..Len(link'.told) : link'.told[i].kind # "Described" /\ (faults = 0 => link'.told[i].kind # "Lost")
    <3>1. \A i \in 1..Len(link'.told) : i + 1 # 1
      OBVIOUS
    <3> QED
      BY <1>2, <1>3, <3>1 DEF Places
  <2>2. \A i \in 1..Len(link'.asks) : link'.asks[i].kind # "Describe"
    BY <1>1, <1>2, <1>3 DEF Places
  <2>3. {deck', reader', preopened', coming', preparing'} \subseteq Docs \cup {NoDoc}
    BY <1>1, <1>2, <1>5 DEF Places
  <2>4. faults' = 0 => (link'.doc # NoDoc <=> link'.alive) /\ link'.alive
    BY <1>1, <1>2, <1>3, <1>5 DEF Places
  <2>5. ~link'.alive => link'.asks = <<>>
    BY <1>2, <1>3 DEF Places
  <2> QED
    BY <1>1, <1>3, <1>5, <1>6, <2>1, <2>2, <2>3, <2>4, <2>5 DEF Places
<1>8. CASE preopened # link.doc
  <2>1. deck \in Docs \cup {NoDoc}
    BY <1>2 DEF Places
  <2>2. Begun(scan', scan, reader', deck')
    BY <1>1, <1>2, <1>5, <1>8, <2>1, RescannedBegun
  <2>3. Earlier(link')
    BY <1>4 DEF Typed, Letters, Earlier
  <2> QED
    BY <1>1, <1>2, <1>7, <2>2, <2>3, BegunMessages
<1>9. CASE preopened = link.doc
  <2>1. UNCHANGED <<scan, reader>>
    BY <1>1, <1>9
  <2>2. Steady(scan, link)' => Each(scan, link', pool')
    <3> SUFFICES ASSUME Steady(scan, link)' PROVE Each(scan, link', pool)
      BY <1>1
    <3>1. Each(scan, link, pool)
      BY <1>1, <1>2, <1>3, <1>9, <2>1 DEF Once, Steady
    <3>2. ~ToldOf(link, 1, scan.gen)
      BY <1>3 DEF ToldOf
    <3> QED
      BY <1>1, <1>2, <3>1, <3>2, HeardEach
  <2> QED
    BY <1>1, <1>2, <1>4, <1>7, <2>1, <2>2, AlikeItself, QuietMessages
<1> QED
  BY <1>8, <1>9

LEMMA PoolAnswersKeeps ==
  ASSUME Messages(scan, link, pool), NEW a \in pool, PoolAnswers(a) PROVE Messages(scan, link, pool)'
<1>1. Still
  BY DEF PoolAnswers, documents, Still
<1>2. CASE a.doc \notin Unsearchable
  <2> DEFINE s == Accepted(scan, PoolHits(a.doc, a.chunk))
  <2>1. PumpNow(s, link, pool \ {a})
    BY <1>2 DEF PoolAnswers
  <2>2. Messages(s, link, pool \ {a})
    BY TakenAccepted
  <2> HIDE DEF s
  <2> QED
    BY <1>1, <2>1, <2>2, PumpKeeps
<1>3. CASE a.doc \in Unsearchable
  <2>1. scan' = Failed(scan, a.chunk.gen, "unsupported") /\ pool' = pool \ {a} /\ link' = link
    BY <1>3 DEF PoolAnswers
  <2>2. CASE a.chunk.gen # scan.gen
    <3>1. scan' = scan
      BY <2>1, <2>2 DEF Failed
    <3>2. Messages(scan, link, pool \ {a})
      BY <2>2, TakenMessages
    <3> QED
      BY <1>1, <2>1, <3>1, <3>2, StillMessages
  <2>3. CASE a.chunk.gen = scan.gen
    <3>1. NobodyPumps(scan, link, pool \ {a})
      BY <2>1, <2>3 DEF Failed, NobodyPumps
    <3>2. ScanBounds(scan)
      BY DEF Messages, Typed
    <3> DEFINE o == [scan EXCEPT !.problem = "unsupported"]
    <3>3. scan' = Finished(o)
      BY <2>1, <2>3 DEF Failed
    <3>4. /\ ScanBounds(scan') /\ SameScan(scan', scan) /\ scan'.hits = scan.hits
          /\ scan'.problem = "unsupported" /\ scan'.requested = scan.pages
      BY <3>2, <3>3, FinishedScan DEF SameScan
    <3>5. Messages(scan', link, pool)
      BY <3>4, GivenUpKeep
    <3>6. Messages(scan', link, pool \ {a})
      BY <3>4, <3>5, TakenMessages DEF Steady
    <3> QED
      BY <1>1, <2>1, <3>6, StillMessages
  <2> QED
    BY <2>2, <2>3
<1> QED
  BY <1>2, <1>3

LEMMA PoolLosesKeeps ==
  ASSUME Messages(scan, link, pool), faults \in Nat, NEW a \in pool, PoolLoses(a)
  PROVE  Messages(scan, link, pool)'
<1>1. /\ faults' # 0 /\ pool' = pool \ {a}
      /\ UNCHANGED <<scan, deck, reader, preopened, coming, preparing, link>>
  BY DEF PoolLoses, documents
<1>2. /\ Typed(scan, link, pool) /\ Letters(scan, link, pool) /\ Reported(scan, link) /\ Places(link)
      /\ Asks(scan, pool) /\ ScanBounds(scan)
  BY DEF Messages, Typed
<1>3. /\ Typed(scan, link, pool') /\ Letters(scan, link, pool')
      /\ Within(Due(scan.gen, link, pool'), Due(scan.gen, link, pool))
  BY <1>1, <1>2, TakenTyped
<1>4. Places(link)'
  BY <1>1, <1>2 DEF Places
<1>5. ~Steady(scan, link)'
  BY <1>1 DEF Steady
<1> QED
  BY <1>1, <1>2, <1>3, <1>4, <1>5, AlikeItself, QuietMessages

LEMMA StutterKeeps ==
  ASSUME Messages(scan, link, pool), UNCHANGED vars PROVE Messages(scan, link, pool)'
<1>1. Still /\ UNCHANGED <<scan, link, pool>>
  BY DEF vars, Still
<1> QED
  BY <1>1, StillMessages

-----------------------------------------------------------------------------
(* The invariant. *)

LEMMA ScanInvInit == Init => ScanInv
<1> SUFFICES ASSUME Init PROVE ScanInv
  OBVIOUS
<1>1. /\ scan = [query |-> NoQuery, gen |-> 0, hits |-> {}, start |-> 0, origin |-> 0,
                 requested |-> 0, scanned |-> 0, issued |-> 0, pages |-> 0,
                 inFlight |-> {}, problem |-> "none"]
      /\ settling = FALSE /\ deck = NoDoc /\ reader = NoDoc /\ preopened = NoDoc
      /\ coming = NoDoc /\ preparing = NoDoc /\ link = NoLink /\ pool = {} /\ moves = 0 /\ faults = 0
  BY DEF Init
<1>2. NoLink \in LinkType /\ Len(NoLink.asks) = 0 /\ Len(NoLink.told) = 0 /\ NoLink.asks = <<>>
      /\ NoLink.doc = NoDoc /\ NoLink.alive = FALSE
  BY DEF NoLink, LinkType
<1>3. /\ scan \in ScanType /\ scan.hits = {} /\ scan.inFlight = {} /\ scan.query = NoQuery
      /\ scan.scanned = 0 /\ scan.requested = 0 /\ scan.pages = 0 /\ scan.start = 0
  BY <1>1 DEF ScanType
<1>4. ScanBounds(scan)
  BY <1>3, Limits DEF ScanBounds
<1>5. Typed(scan, link, pool) /\ Letters(scan, link, pool) /\ Reported(scan, link) /\ Asks(scan, pool)
  BY <1>1, <1>2, <1>4 DEF Typed, Letters, Reported, Asks
<1>6. Places(link)
  BY <1>1, <1>2 DEF Places
<1>7. Shape(scan)
  BY <1>3 DEF Shape
<1>8. \A m : m \notin Due(scan.gen, link, pool)
  BY <1>1, <1>2 DEF Due
<1>9. Read(scan, Due(scan.gen, link, pool))
  <2>1. Counted(scan, Due(scan.gen, link, pool), {}) /\ Content(scan, {})
    BY <1>3, <1>8 DEF Counted, Content
  <2> QED
    BY <2>1 DEF Read
<1>10. Once(scan, link, pool)
  BY <1>3, <1>8 DEF Once, Each
<1> QED
  BY <1>1, <1>5, <1>6, <1>7, <1>9, <1>10 DEF ScanInv, Messages

LEMMA UserKeeps ==
  ASSUME Messages(scan, link, pool), User PROVE Messages(scan, link, pool)'
<1>1. ASSUME NEW q \in Queries \cup {NoQuery}, Type(q) \/ Toggle(q) PROVE Messages(scan, link, pool)'
  <2>1. scan' = Searched(q) /\ UNCHANGED <<deck, reader, preopened, coming, preparing, link, pool, faults>>
    BY <1>1 DEF Type, Toggle, documents
  <2> QED
    BY <2>1, SearchedKeeps
<1>2. CASE Clear
  <2>1. /\ scan' = Cleared(scan)
        /\ UNCHANGED <<deck, reader, preopened, coming, preparing, link, pool, faults>>
    BY <1>2 DEF Clear, documents
  <2>2. Places(link)'
    BY <2>1 DEF Messages, Places
  <2> QED
    BY <2>1, <2>2, ClearedKeeps
<1>3. ASSUME NEW d \in Docs, NEW page \in 0..(PageCount[d] - 1), OpenSearch(page)
      PROVE  Messages(scan, link, pool)'
  <2>1. page \in Nat
    BY SearchAssumption
  <2> QED
    BY <1>3, <2>1, OpenSearchKeeps
<1> QED
  BY <1>1, <1>2, <1>3, OpenDocumentKeeps, RebuildKeeps, CloseDocumentKeeps DEF User

LEMMA HandleKeeps ==
  ASSUME Messages(scan, link, pool), Handle PROVE Messages(scan, link, pool)'
  BY HandleDescribedKeeps, HandleFoundKeeps, HandleRefusedKeeps, HandleLostKeeps DEF Handle

LEMMA ServeKeeps ==
  ASSUME Messages(scan, link, pool), faults \in Nat, Serve PROVE Messages(scan, link, pool)'
<1>1. CASE ServeDies
  BY <1>1, ServeDiesKeeps DEF Serve
<1>2. CASE (ServeDescribe \/ ServeFindText) /\ UNCHANGED faults
  BY <1>2, ServeDescribeKeeps, ServeFindTextKeeps DEF Serve
<1> QED
  BY <1>1, <1>2 DEF Serve

LEMMA NextKeeps ==
  ASSUME Messages(scan, link, pool), faults \in Nat, [Next]_vars PROVE Messages(scan, link, pool)'
<1>1. CASE Prepared
  BY <1>1, FinishPrepareKeeps, PrepareFailsKeeps DEF Prepared
<1> QED
  BY <1>1, UserKeeps, TickKeeps, HandleKeeps, ServeKeeps, PromoteKeeps, PoolAnswersKeeps,
     PoolLosesKeeps, StutterKeeps DEF Next

(* The counters and the flag, which no step but its own looks at. *)
LEMMA CountersKept ==
  ASSUME settling \in BOOLEAN, moves \in Nat, faults \in Nat, [Next]_vars
  PROVE  settling' \in BOOLEAN /\ moves' \in Nat /\ faults' \in Nat
<1>1. CASE User
  <2>1. moves' \in Nat /\ faults' = faults
    BY <1>1 DEF User, Type, Toggle, Clear, OpenSearch, OpenDocument, Rebuild, CloseDocument, Move
  <2>2. settling' \in BOOLEAN
    <3>1. ASSUME NEW q, Type(q) PROVE settling' \in BOOLEAN
      <4>1. settling' = (scan'.scanned < scan'.pages)
        BY <3>1 DEF Type, Scanning
      <4> QED
        BY <4>1
    <3>2. \A q : Toggle(q) => settling' \in BOOLEAN
      BY DEF Toggle
    <3> QED
      BY <1>1, <3>1, <3>2 DEF User, Clear, OpenSearch, OpenDocument, Rebuild, CloseDocument
  <2> QED
    BY <2>1, <2>2
<1>2. CASE Tick
  BY <1>2 DEF Tick
<1>3. CASE Handle
  <2>1. moves' = moves /\ faults' = faults
    BY <1>3 DEF Handle, HandleDescribed, HandleFound, HandleRefused, HandleLost
  <2>2. settling' \in BOOLEAN
    BY <1>3 DEF Handle, HandleDescribed, HandleFound, HandleRefused, HandleLost, PumpNow
  <2> QED
    BY <2>1, <2>2
<1>4. CASE Serve
  BY <1>4 DEF Serve, ServeDies
<1>5. CASE Prepared \/ Promote
  BY <1>5 DEF Prepared, FinishPrepare, PrepareFails, Promote
<1>6. ASSUME NEW a \in pool, PoolAnswers(a) PROVE settling' \in BOOLEAN /\ moves' = moves /\ faults' = faults
  BY <1>6 DEF PoolAnswers, PumpNow
<1>7. ASSUME NEW a \in pool, PoolLoses(a) PROVE settling' = settling /\ moves' = moves /\ faults' \in Nat
  BY <1>7 DEF PoolLoses
<1>8. CASE UNCHANGED vars
  BY <1>8 DEF vars
<1> QED
  BY <1>1, <1>2, <1>3, <1>4, <1>5, <1>6, <1>7, <1>8 DEF Next

LEMMA ScanInvNext == ScanInv /\ [Next]_vars => ScanInv'
<1> SUFFICES ASSUME ScanInv, [Next]_vars PROVE ScanInv'
  OBVIOUS
<1>1. Messages(scan, link, pool) /\ settling \in BOOLEAN /\ moves \in Nat /\ faults \in Nat
  BY DEF ScanInv
<1>2. Messages(scan, link, pool)'
  BY <1>1, NextKeeps
<1>3. settling' \in BOOLEAN /\ moves' \in Nat /\ faults' \in Nat
  BY <1>1, CountersKept
<1> QED
  BY <1>2, <1>3 DEF ScanInv

(* The invariant all three results rest on: every message of the scan that  *)
(* runs is one it asked for, and what it counted it has read -- or, once    *)
(* the document worker was lost and the pool reads on from the version on   *)
(* screen, that version does not have.                                      *)
THEOREM ScanSound == Spec => []ScanInv
  BY ScanInvInit, ScanInvNext, PTL DEF Spec

-----------------------------------------------------------------------------
(* What follows from it.  The two counts: pages read, messages on their way. *)

(* The types and the bounds of a scan. *)
THEOREM ScansTyped == Spec => []TypeOK
<1>1. ScanInv => TypeOK
  <2> SUFFICES ASSUME ScanInv PROVE TypeOK
    OBVIOUS
  <2>1. /\ Typed(scan, link, pool) /\ ScanBounds(scan) /\ scan \in ScanType
        /\ link \in LinkType /\ pool \in SUBSET PoolType /\ Places(link) /\ settling \in BOOLEAN
    BY DEF ScanInv, Messages, Typed, ScanBounds
  <2>2. /\ scan.query \in Queries \cup {NoQuery} /\ scan.gen \in Nat /\ scan.hits \subseteq Nat
        /\ scan.problem \in {"none", "invalid", "tooMany", "unsupported"}
        /\ scan.scanned <= scan.requested /\ scan.requested <= scan.pages
        /\ Cardinality(scan.inFlight) <= MaxInFlight /\ Cardinality(scan.hits) <= MaxHits
    BY <2>1 DEF ScanBounds, ScanType
  <2>3. {deck, reader, preopened, coming, preparing, link.doc} \subseteq Docs \cup {NoDoc}
    BY <2>1 DEF LinkType, Places
  <2>4. link.asks \in Seq(AskType) /\ link.told \in Seq(ToldType)
    BY <2>1 DEF LinkType
  <2>5. \A i \in DOMAIN link.asks : link.asks[i] = Describe \/ link.asks[i].chunk \in Chunks
    BY <2>4 DEF AskType
  <2>6. ASSUME NEW i \in DOMAIN link.told, link.told[i].kind = "Found"
        PROVE  [link.told[i].chunk EXCEPT !.hits = {}] \in Answers /\ link.told[i].chunk.hits \subseteq Nat
    <3> DEFINE c == link.told[i].chunk
    <3>1. c \in Answers
      BY <2>4, <2>6 DEF ToldType
    <3> HIDE DEF c
    <3>2. [c EXCEPT !.hits = {}] \in Answers /\ c.hits \subseteq Nat
      BY <3>1 DEF Answers
    <3> QED
      BY <3>2 DEF c
  <2>7. \A a \in pool : a.doc \in Docs /\ a.chunk \in Chunks
    BY <2>1 DEF PoolType
  <2> QED
    BY <2>1, <2>2, <2>3, <2>5, <2>6, <2>7 DEF TypeOK
<1> QED
  BY <1>1, ScanSound, PTL

LEMMA CompleteRead ==
  ASSUME ScanInv, Complete
  PROVE  /\ scan.requested # 0 /\ scan.pages \in Nat
         /\ \A p \in 0..(scan.pages - 1) :
              \/ Missing(p)
              \/ \E d \in Docs : /\ p < PageCount[d] /\ Text[d][scan.query][p] \subseteq scan.hits
                                 /\ faults = 0 => d = Source
<1>1. /\ ScanBounds(scan) /\ scan \in ScanType /\ Read(scan, Due(scan.gen, link, pool))
      /\ scan.query # NoQuery /\ scan.pages # 0 /\ ~(scan.scanned < scan.pages) /\ scan.problem = "none"
  BY DEF ScanInv, Messages, Typed, ScanBounds, Complete, Scanning
<1>2. /\ scan.pages \in Nat /\ scan.scanned \in Nat /\ scan.requested \in Nat
      /\ scan.scanned <= scan.requested /\ scan.requested <= scan.pages
  BY <1>1 DEF ScanBounds, ScanType
<1>3. scan.scanned = scan.pages /\ scan.requested # 0
  BY <1>1, <1>2
<1>4. PICK R \in SUBSET (0..scan.pages) : Counted(scan, Due(scan.gen, link, pool), R) /\ Content(scan, R)
  BY <1>1 DEF Read
<1>5. (\A p \in R : p < scan.pages) /\ scan.scanned <= Cardinality(R)
  BY <1>1, <1>4 DEF Counted
<1> DEFINE all == 0..(scan.pages - 1)
<1>6. R \subseteq all
  BY <1>2, <1>5
<1> DEFINE last == scan.pages - 1
<1>7. IsFiniteSet(all) /\ Cardinality(all) = scan.pages
  <2>1. 0 \in Int /\ last \in Int /\ last + 1 = scan.pages /\ last >= -1
    BY <1>2
  <2> HIDE DEF last
  <2>2. IsFiniteSet(0..last) /\ Cardinality(0..last) = IF 0 > last THEN 0 ELSE last - 0 + 1
    BY <2>1, FS_Interval
  <2>3. Cardinality(0..last) = scan.pages
    BY <2>1, <2>2
  <2> QED
    BY <2>2, <2>3 DEF last
<1> HIDE DEF all
<1>8. /\ IsFiniteSet(R) /\ Cardinality(R) <= Cardinality(all)
      /\ Cardinality(R) = Cardinality(all) => R = all
  BY <1>6, <1>7, FS_Subset
<1>9. Cardinality(R) \in Nat
  BY <1>8, FS_CardinalityType
<1>10. R = all
  BY <1>2, <1>3, <1>5, <1>7, <1>8, <1>9
<1>11. \A p \in R :
         \/ Missing(p)
         \/ \E d \in Docs : /\ p < PageCount[d] /\ Text[d][scan.query][p] \subseteq scan.hits
                            /\ faults = 0 => d = Source
  BY <1>1, <1>4 DEF Content
<1> QED
  BY <1>2, <1>3, <1>10, <1>11 DEF all

(* With every engine alive, the scan is of a document in front of the user. *)
LEMMA SourceShown ==
  ASSUME ScanInv, faults = 0, scan.query # NoQuery, scan.pages # 0
  PROVE  Source \in Shown /\ scan.pages = PageCount[Source]
<1>1. scan.pages = Searchable(reader, deck)
  BY DEF ScanInv, Messages, Shape
<1> QED
  BY <1>1 DEF Searchable, Source, Shown

(* While the scan runs the list holds nothing of another query or of a      *)
(* document that was put down, and at its end it holds every match,         *)
(* whatever answers came late.  Once an engine was lost nothing is counted  *)
(* as read that was not, but the pages that the version the pool reads on   *)
(* is too short for.                                                        *)
THEOREM ListHoldsWhatIsThere == Spec => []HitsRight
<1>1. ASSUME ScanInv PROVE HitsFromHere
  <2>1. faults = 0 /\ scan.query # NoQuery =>
          \A h \in scan.hits :
             h \in NotesOf(deck, scan.query) \/ (Source # NoDoc /\ h \in AllText(Source, scan.query))
    BY <1>1 DEF ScanInv, Messages, Shape
  <2>2. Source # NoDoc => Source \in Shown
    BY DEF Source, Shown
  <2> QED
    BY <2>1, <2>2 DEF HitsFromHere
<1>2. ASSUME ScanInv PROVE FoundEverything
  <2> SUFFICES ASSUME Complete
               PROVE  IF faults = 0
                      THEN \E d \in Shown :
                             scan.hits = AllText(d, scan.query) \cup NotesOf(deck, scan.query)
                      ELSE \A p \in 0..(scan.pages - 1) :
                             \/ \E d \in Docs : p < PageCount[d] /\ Text[d][scan.query][p] \subseteq scan.hits
                             \/ Beyond(p)
    BY DEF FoundEverything
  <2>1. /\ scan.requested # 0 /\ scan.pages \in Nat
        /\ \A p \in 0..(scan.pages - 1) :
             \/ Missing(p)
             \/ \E d \in Docs : /\ p < PageCount[d] /\ Text[d][scan.query][p] \subseteq scan.hits
                                /\ faults = 0 => d = Source
    BY <1>2, CompleteRead
  <2>2. CASE faults # 0
    BY <2>1, <2>2 DEF Missing
  <2>3. CASE faults = 0
    <3>1. scan.query # NoQuery /\ scan.pages # 0 /\ scan.problem = "none"
      BY DEF Complete
    <3>2. Source \in Shown /\ scan.pages = PageCount[Source]
      BY <1>2, <2>3, <3>1, SourceShown
    <3>3. \A p \in 0..(PageCount[Source] - 1) : Text[Source][scan.query][p] \subseteq scan.hits
      BY <2>1, <2>3, <3>2 DEF Missing
    <3>4. AllText(Source, scan.query) \subseteq scan.hits
      BY <3>3 DEF AllText
    <3>5. Shape(scan)
      BY <1>2 DEF ScanInv, Messages
    <3>6. NotesOf(deck, scan.query) \subseteq scan.hits
      BY <2>1, <3>1, <3>5 DEF Shape
    <3>7. \A h \in scan.hits : h \in NotesOf(deck, scan.query) \/ h \in AllText(Source, scan.query)
      BY <2>3, <3>1, <3>5 DEF Shape
    <3>8. scan.hits = AllText(Source, scan.query) \cup NotesOf(deck, scan.query)
      BY <3>4, <3>6, <3>7
    <3> QED
      BY <2>3, <3>2, <3>8
  <2> QED
    BY <2>2, <2>3
<1>3. ScanInv => HitsRight
  BY <1>1, <1>2 DEF HitsRight
<1> QED
  BY <1>3, ScanSound, PTL

(* A set with at most one member. *)
LEMMA AtMostOne ==
  ASSUME NEW S, \A x, y \in S : x = y
  PROVE  Cardinality(S) = IF S = {} THEN 0 ELSE 1
<1>1. CASE S = {}
  BY <1>1, FS_EmptySet
<1>2. CASE S # {}
  <2>1. PICK x : S = {x}
    BY <1>2
  <2> QED
    BY <2>1, FS_Singleton
<1> QED
  BY <1>1, <1>2

(* Every chunk the scan waits for is on its way exactly once, with the      *)
(* document worker or with the pool, and nothing of this scan is on its way *)
(* that it does not wait for.                                               *)
THEOREM NoChunkLostOrTwice == Spec => []OwedOnce
<1>1. ScanInv => OwedOnce
  <2> SUFFICES ASSUME ScanInv, Whole, scan.problem = "none", ~Unmeasured,
                      NEW f \in 0..(scan.pages - 1)
               PROVE  Owed(f) = IF f \in scan.inFlight THEN 1 ELSE 0
    BY DEF OwedOnce
  <2>1. /\ link \in LinkType /\ pool \in SUBSET PoolType /\ Once(scan, link, pool)
        /\ link.asks \in Seq(AskType) /\ link.told \in Seq(ToldType)
        /\ Letters(scan, link, pool)
    BY DEF ScanInv, Messages, Typed, LinkType
  <2>2. DOMAIN link.asks = 1..Len(link.asks) /\ DOMAIN link.told = 1..Len(link.told)
    BY <2>1
  <2>3. ~Describes(link) /\ ~Described(link)
    BY <2>2 DEF Unmeasured, Describes, Described
  <2>4. Each(scan, link, pool)
    BY <2>1, <2>3 DEF Once, Steady, Whole
  <2> DEFINE A == {i \in DOMAIN link.asks : link.asks[i].kind = "FindText"
                     /\ link.asks[i].chunk.gen = scan.gen /\ link.asks[i].chunk.from = f}
             T == {i \in DOMAIN link.told : link.told[i].kind = "Found"
                     /\ link.told[i].chunk.gen = scan.gen /\ link.told[i].chunk.from = f}
             P == {a \in pool : a.chunk.gen = scan.gen /\ a.chunk.from = f}
  <2>5. Owed(f) = Cardinality(A) + Cardinality(T) + Cardinality(P)
    BY DEF Owed
  <2>6. /\ \A i : i \in A <=> i \in 1..Len(link.asks) /\ AskAt(scan, link, i, f)
        /\ \A i : i \in T <=> i \in 1..Len(link.told) /\ ToldAt(scan, link, i, f)
        /\ \A a : a \in P <=> a \in pool /\ PoolAt(scan, a, f)
    BY <2>2 DEF AskAt, AskOf, ToldAt, ToldOf, PoolAt
  <2> HIDE DEF A, T, P
  <2>7. CASE f \in scan.inFlight
    <3>1. \/ \E i \in 1..Len(link.asks) : AskAt(scan, link, i, f)
          \/ \E i \in 1..Len(link.told) : ToldAt(scan, link, i, f)
          \/ \E a \in pool : PoolAt(scan, a, f)
      BY <2>4, <2>7 DEF Each
    <3>2. /\ \A i, j \in 1..Len(link.asks) : AskAt(scan, link, i, f) /\ AskAt(scan, link, j, f) => i = j
          /\ \A i, j \in 1..Len(link.told) : ToldAt(scan, link, i, f) /\ ToldAt(scan, link, j, f) => i = j
          /\ \A a, b \in pool : PoolAt(scan, a, f) /\ PoolAt(scan, b, f) => a = b
          /\ \A i \in 1..Len(link.asks), j \in 1..Len(link.told) :
               ~(AskAt(scan, link, i, f) /\ ToldAt(scan, link, j, f))
          /\ \A a \in pool : PoolAt(scan, a, f) =>
               /\ \A i \in 1..Len(link.asks) : ~AskAt(scan, link, i, f)
               /\ \A j \in 1..Len(link.told) : ~ToldAt(scan, link, j, f)
      BY <2>4, <2>7 DEF Each
    <3>3. /\ Cardinality(A) = IF A = {} THEN 0 ELSE 1
          /\ Cardinality(T) = IF T = {} THEN 0 ELSE 1
          /\ Cardinality(P) = IF P = {} THEN 0 ELSE 1
      BY <2>6, <3>2, AtMostOne
    <3>4. A # {} \/ T # {} \/ P # {}
      BY <2>6, <3>1
    <3>5. (A # {} => T = {} /\ P = {}) /\ (T # {} => P = {})
      BY <2>6, <3>2
    <3>6. Cardinality(A) + Cardinality(T) + Cardinality(P) = 1
      BY <3>3, <3>4, <3>5
    <3> QED
      BY <2>5, <2>7, <3>6
  <2>8. CASE f \notin scan.inFlight
    <3>1. \A m \in Due(scan.gen, link, pool) : m.from # f
      BY <2>4, <2>8 DEF Each
    <3>2. A = {}
      <4> SUFFICES ASSUME NEW i \in 1..Len(link.asks), AskAt(scan, link, i, f) PROVE FALSE
        BY <2>6
      <4> DEFINE m == [from |-> link.asks[i].chunk.from, to |-> link.asks[i].chunk.to]
      <4>1. m \in Due(scan.gen, link, pool)
        BY <2>1, DueAsk DEF AskAt
      <4> QED
        BY <3>1, <4>1 DEF AskAt
    <3>3. T = {}
      <4> SUFFICES ASSUME NEW i \in 1..Len(link.told), ToldAt(scan, link, i, f) PROVE FALSE
        BY <2>6
      <4> DEFINE m == [from |-> link.told[i].chunk.from, to |-> link.told[i].chunk.to]
      <4>1. m \in Due(scan.gen, link, pool)
        BY <2>1, DueTold DEF ToldAt
      <4> QED
        BY <3>1, <4>1 DEF ToldAt
    <3>4. P = {}
      <4> SUFFICES ASSUME NEW a \in pool, PoolAt(scan, a, f) PROVE FALSE
        BY <2>6
      <4> DEFINE m == [from |-> a.chunk.from, to |-> a.chunk.to]
      <4>1. m \in Due(scan.gen, link, pool)
        BY <2>1, DuePool DEF PoolAt
      <4> QED
        BY <3>1, <4>1 DEF PoolAt
    <3>5. Cardinality(A) = 0 /\ Cardinality(T) = 0 /\ Cardinality(P) = 0
      BY <3>2, <3>3, <3>4, FS_EmptySet
    <3> QED
      BY <2>5, <2>8, <3>5
  <2> QED
    BY <2>7, <2>8
<1> QED
  BY <1>1, ScanSound, PTL
=============================================================================
