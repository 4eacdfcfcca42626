------------------------- MODULE SavedSessionProofs -------------------------
(***************************************************************************)
(* The snapshots of any number of copies, of any number of places, through *)
(* any number of moves and faults: a snapshot is whole, a clean end leaves *)
(* none, and nobody takes that of a copy that runs.                        *)
(*                                                                         *)
(* None of the three is inductive.  A listing made before a copy claimed   *)
(* its pid would hold a copy that runs: so nothing listed is a copy that   *)
(* has yet to start (Listed), which in turn is because such a copy has no  *)
(* snapshot, not even one that a power loss could bring back (Unwritten).  *)
(* A copy that cleared its snapshot must have no writer left (Cleared).    *)
(***************************************************************************)
EXTENDS SavedSession, FiniteSetTheorems, TLAPS

(* A copy that has not started has no snapshot. *)
Unwritten == \A c \in Copies : phase[c] = "off" => snap[c] = File(Missing)

(* What a starting copy has listed started, and holds no claim. *)
Listed ==
  \A c \in Copies : \A i \in 1..Len(todo[c]) : phase[todo[c][i]] # "off" /\ todo[c][i] \notin claimed

(* A copy that cleared its snapshot has no writer to bring it back. *)
Cleared ==
  \A c \in Copies :
    phase[c] \in {"leaving", "gone"} => writer[c] = Idle /\ (snap[c].seen = Missing \/ blackout)

SessionInv == TypeOK /\ Unwritten /\ Listed /\ Cleared /\ NeverTorn

Phases == {"off", "listing", "loading", "taking", "up", "quitting", "leaving", "gone", "dead"}
Snapshots == [seen : 0..Torn, kept : SUBSET (0..Torn)]
Writers == [at : {"idle", "write", "sync"}, what : 0..MaxPlaces]

LEMMA Sizes == 0..MaxPlaces \subseteq 0..Torn /\ Missing \in 0..MaxPlaces /\ Torn \notin 0..MaxPlaces /\ Torn \in 0..Torn
  BY SessionAssumption

LEMMA IdleWriter == Idle \in Writers
  BY SessionAssumption DEF Idle, Writers

(* What the operations on a file keep. *)
LEMMA FileTypes ==
  /\ \A v \in 0..Torn : File(v) \in Snapshots /\ File(v).seen \in File(v).kept
  /\ \A f \in Snapshots :
       /\ Removed(f) \in Snapshots /\ Removed(f).seen \in Removed(f).kept
       /\ \A v \in 0..MaxPlaces : Renamed(f, v) \in Snapshots /\ Renamed(f, v).seen \in Renamed(f, v).kept
       /\ f.seen \in f.kept => Settled(f) \in Snapshots /\ Settled(f).seen \in Settled(f).kept
       /\ \A g \in AfterPowerLoss(f) : g \in Snapshots /\ g.seen \in g.kept
  BY Sizes DEF File, Removed, Renamed, Settled, AfterPowerLoss, Snapshots, Synced

LEMMA FilesWhole ==
  ASSUME NEW f \in Snapshots, Torn \notin f.kept
  PROVE  /\ Torn \notin Removed(f).kept
         /\ \A v \in 0..MaxPlaces : Torn \notin Renamed(f, v).kept
         /\ Torn \notin Settled(f).kept
         /\ \A g \in AfterPowerLoss(f) : Torn \notin g.kept
  BY Sizes DEF File, Removed, Renamed, Settled, AfterPowerLoss, Snapshots, Synced

(* A file that never was stays so through what others do to it. *)
LEMMA FileNever ==
  /\ Removed(File(Missing)) = File(Missing) /\ Settled(File(Missing)) = File(Missing)
  /\ \A g \in AfterPowerLoss(File(Missing)) : g = File(Missing)
  BY Sizes DEF File, Removed, Settled, AfterPowerLoss

LEMMA FileSeen == \A f \in Snapshots : Settled(f).seen = f.seen /\ Removed(f).seen = Missing
  BY DEF Settled, Removed, Snapshots

(* A listing is a sequence of copies, empty when nothing was found. *)
LEMMA ListingType ==
  ASSUME NEW S \in SUBSET Copies, NEW q \in Sorted(S)
  PROVE  /\ q \in Seq(Copies) /\ \A i \in 1..Len(q) : q[i] \in S
         /\ q = <<>> <=> S = {}
  <1>1. IsFiniteSet(S) /\ Cardinality(S) \in Nat
    BY SessionAssumption, FS_Subset, FS_CardinalityType
  <1>2. q \in [1..Cardinality(S) -> S]
    BY DEF Sorted
  <1>3. q \in Seq(S) /\ Len(q) = Cardinality(S)
    BY <1>1, <1>2
  <1>4. Cardinality(S) = 0 <=> S = {}
    BY <1>1, FS_EmptySet
  <1>5. q = <<>> <=> Len(q) = 0
    BY <1>3
  <1> QED
    BY <1>3, <1>4, <1>5

LEMMA SessionInit == Init => SessionInv
  <1> SUFFICES ASSUME Init PROVE SessionInv
    OBVIOUS
  <1>1. TypeOK
    <2>1. snap \in [Copies -> Snapshots] /\ \A c \in Copies : snap[c].seen \in snap[c].kept
      BY Sizes, FileTypes DEF Init
    <2>2. writer \in [Copies -> Writers] /\ \A c \in Copies : writer[c] = Idle
      BY IdleWriter DEF Init
    <2>3. todo \in [Copies -> Seq(Copies)] /\ \A c \in Copies : todo[c] = <<>> /\ phase[c] = "off"
      BY DEF Init
    <2>4. /\ phase \in [Copies -> Phases] /\ found \in [Copies -> 0..Torn]
          /\ session \in [Copies -> 0..MaxPlaces] /\ last \in [Copies -> 0..MaxPlaces]
          /\ claimed = {} /\ failed = {}
      BY SessionAssumption DEF Init, Phases
    <2> QED
      BY <2>1, <2>2, <2>3, <2>4 DEF TypeOK, Writers, Snapshots, Phases
  <1>2. Unwritten /\ Listed /\ Cleared
    BY DEF Init, Unwritten, Listed, Cleared
  <1>3. NeverTorn
    BY Sizes DEF Init, NeverTorn, File
  <1> QED
    BY <1>1, <1>2, <1>3 DEF SessionInv

-----------------------------------------------------------------------------
(* Types: one step per action. *)
LEMMA Alive == \A c \in Copies : c \in Running <=> phase[c] \notin {"off", "gone", "dead"}
  BY DEF Running

LEMMA TypeStart ==
  ASSUME TypeOK, NEW c \in Copies, NEW looks \in BOOLEAN, Start(c, looks)
  PROVE  TypeOK'
  BY SMTT(20) DEF TypeOK, Start, Goes, Claims, Fault, Running, startVars, sessionVars

LEMMA TypeList ==
  ASSUME TypeOK, NEW c \in Copies, List(c)
  PROVE  TypeOK'
  <1>1. PICK q \in Sorted(Abandoned(c)) : todo' = [todo EXCEPT ![c] = q]
    BY DEF List
  <1>2. q \in Seq(Copies) /\ (q = <<>> <=> Abandoned(c) = {})
    BY ListingType DEF Abandoned
  <1> QED
    BY <1>1, <1>2 DEF TypeOK, List, Goes, Running, sessionVars

LEMMA TypeLoad ==
  ASSUME TypeOK, NEW c \in Copies, Load(c)
  PROVE  TypeOK'
  <1>1. Head(todo[c]) \in Copies
    BY DEF TypeOK, Load, Goes
  <1> QED
    BY <1>1 DEF TypeOK, Load, Goes, Running, sessionVars

LEMMA TypeTake ==
  ASSUME TypeOK, NEW c \in Copies, Take(c)
  PROVE  TypeOK'
  <1>1. todo[c] \in Seq(Copies) /\ todo[c] # <<>> /\ phase[c] = "taking"
    BY DEF TypeOK, Take, Goes
  <1>2. Head(todo[c]) \in Copies /\ Tail(todo[c]) \in Seq(Copies) /\ Len(Tail(todo[c])) = Len(todo[c]) - 1
    BY <1>1
  <1>3. Len(todo[c]) = 1 <=> Tail(todo[c]) = <<>>
    <2>1. \A q \in Seq(Copies) : q = <<>> <=> Len(q) = 0
      OBVIOUS
    <2>2. Len(todo[c]) \in Nat
      BY <1>1
    <2>3. Tail(todo[c]) = <<>> <=> Len(Tail(todo[c])) = 0
      BY <1>2, <2>1
    <2> QED
      BY <1>2, <2>2, <2>3
  <1>4. snap' \in [Copies -> Snapshots] /\ \A d \in Copies : snap'[d].seen \in snap'[d].kept
    BY <1>2, FileTypes DEF TypeOK, Take, Snapshots
  <1>5. session' \in [Copies -> 0..MaxPlaces]
    BY SessionAssumption DEF TypeOK, Take
  <1>6. found' \in [Copies -> 0..Torn]
    BY Sizes DEF TypeOK, Take
  <1>7. PICK read \in BOOLEAN :
          /\ phase' = [phase EXCEPT ![c] = IF read \/ Len(todo[c]) = 1 THEN "up" ELSE "loading"]
          /\ todo' = [todo EXCEPT ![c] = IF read THEN <<>> ELSE Tail(todo[c])]
    BY DEF Take, Goes, Remaining
  <1>8. todo' \in [Copies -> Seq(Copies)] /\ phase' \in [Copies -> Phases]
    <2>1. <<>> \in Seq(Copies)
      OBVIOUS
    <2>2. phase' \in [Copies -> Phases]
      BY <1>7 DEF TypeOK, Phases
    <2> QED
      BY <1>2, <1>7, <2>1, <2>2 DEF TypeOK
  <1>9. \A d \in Copies : phase'[d] \in {"loading", "taking"} <=> todo'[d] # <<>>
    BY <1>3, <1>7 DEF TypeOK
  <1>10. Running' = Running
    BY <1>1, <1>7 DEF TypeOK, Running
  <1>11. UNCHANGED <<claimed, failed, last, writer>>
    BY DEF Take
  <1> QED
    BY <1>4, <1>5, <1>6, <1>8, <1>9, <1>10, <1>11 DEF TypeOK, Snapshots, Phases

LEMMA TypeUser ==
  ASSUME TypeOK, NEW c \in Copies, CloseDocument(c) \/ Quit(c) \/ \E place \in 1..MaxPlaces : Move(c, place)
  PROVE  TypeOK'
  <1>1. CASE CloseDocument(c)
    <2>1. snap' \in [Copies -> Snapshots] /\ \A d \in Copies : snap'[d].seen \in snap'[d].kept
      BY <1>1, FileTypes DEF TypeOK, CloseDocument, Snapshots
    <2>2. session' \in [Copies -> 0..MaxPlaces] /\ last' \in [Copies -> 0..MaxPlaces]
      BY <1>1, SessionAssumption DEF TypeOK, CloseDocument, Forgotten
    <2> QED
      BY <1>1, <2>1, <2>2 DEF TypeOK, CloseDocument, Running, startVars, Snapshots
  <1>2. CASE Quit(c)
    BY <1>2 DEF TypeOK, Quit, Goes, Running, startVars, sessionVars
  <1>3. ASSUME NEW place \in 1..MaxPlaces, Move(c, place) PROVE TypeOK'
    BY <1>3, SMTT(20) DEF TypeOK, Move, Running, startVars
  <1> QED
    BY <1>1, <1>2, <1>3

LEMMA TypeWriter ==
  ASSUME TypeOK, NEW c \in Copies, SaveSession(c) \/ Write(c) \/ WriteFails(c) \/ SyncDirectory(c)
  PROVE  TypeOK'
  <1>0. writer[c].at # "idle" => c \in Running
    BY DEF TypeOK, Idle
  <1>1. CASE SaveSession(c)
    BY <1>1, SessionAssumption DEF TypeOK, SaveSession, Running, startVars
  <1>2. CASE Write(c)
    <2>1. snap' \in [Copies -> Snapshots] /\ \A d \in Copies : snap'[d].seen \in snap'[d].kept
      BY <1>2, FileTypes DEF TypeOK, Write, Snapshots
    <2>2. writer' \in [Copies -> Writers] /\ \A d \in Copies \ {c} : writer'[d] = writer[d]
      BY <1>2 DEF TypeOK, Write, Writers
    <2> QED
      BY <1>0, <1>2, <2>1, <2>2 DEF TypeOK, Write, Running, startVars, sessionVars, Snapshots, Writers
  <1>3. CASE WriteFails(c)
    <2>1. writer' \in [Copies -> Writers]
      BY <1>3, IdleWriter DEF TypeOK, WriteFails, Writers
    <2> QED
      BY <1>0, <1>3, <2>1 DEF TypeOK, WriteFails, Running, startVars, sessionVars, Writers
  <1>4. CASE SyncDirectory(c)
    <2>1. snap' \in [Copies -> Snapshots] /\ \A d \in Copies : snap'[d].seen \in snap'[d].kept
      BY <1>4, FileTypes DEF TypeOK, SyncDirectory, Snapshots
    <2>2. writer' \in [Copies -> Writers]
      BY <1>4, IdleWriter DEF TypeOK, SyncDirectory, Writers
    <2> QED
      BY <1>0, <1>4, <2>1, <2>2 DEF TypeOK, SyncDirectory, Running, startVars, sessionVars, Snapshots, Writers
  <1> QED
    BY <1>1, <1>2, <1>3, <1>4

LEMMA TypeEnds ==
  ASSUME TypeOK, NEW S \in SUBSET Running, NEW as \in {"gone", "dead"}, Ends(S, as),
         snap' \in [Copies -> Snapshots], \A d \in Copies : snap'[d].seen \in snap'[d].kept
  PROVE  TypeOK'
  <1>1. /\ phase' \in [Copies -> Phases] /\ todo' \in [Copies -> Seq(Copies)]
        /\ found' \in [Copies -> 0..Torn] /\ session' \in [Copies -> 0..MaxPlaces]
        /\ last' \in [Copies -> 0..MaxPlaces] /\ writer' \in [Copies -> Writers]
    <2>1. 0 \in 0..MaxPlaces /\ Missing \in 0..Torn
      BY SessionAssumption
    <2>2. phase' \in [Copies -> Phases]
      BY DEF TypeOK, Ends, Phases
    <2>3. writer' \in [Copies -> Writers]
      BY IdleWriter DEF TypeOK, Ends, Writers
    <2>4. todo' \in [Copies -> Seq(Copies)]
      BY DEF TypeOK, Ends
    <2> QED
      BY <2>1, <2>2, <2>3, <2>4 DEF TypeOK, Ends
  <1>2. Running' = Running \ S
    BY DEF TypeOK, Ends, Running
  <1>3. claimed' \subseteq Running' /\ failed' \subseteq Running'
    BY <1>2 DEF TypeOK, Ends
  <1>4. ASSUME NEW d \in Copies
        PROVE  /\ phase'[d] \in {"loading", "taking"} <=> todo'[d] # <<>>
               /\ d \notin Running' => writer'[d] = Idle
    BY <1>2 DEF TypeOK, Ends
  <1> QED
    BY <1>1, <1>3, <1>4 DEF TypeOK, Phases, Snapshots, Writers

LEMMA TypeEnd ==
  ASSUME TypeOK, NEW c \in Copies, Clear(c) \/ Exit(c) \/ Crash(c)
  PROVE  TypeOK'
  <1>0. snap \in [Copies -> Snapshots] /\ \A d \in Copies : snap[d].seen \in snap[d].kept
    BY DEF TypeOK, Snapshots
  <1>1. CASE Clear(c)
    <2>1. snap' \in [Copies -> Snapshots] /\ \A d \in Copies : snap'[d].seen \in snap'[d].kept
      BY <1>0, <1>1, FileTypes DEF Clear
    <2> QED
      BY <1>1, <2>1 DEF TypeOK, Clear, Goes, Running, startVars, sessionVars, Snapshots
  <1>2. CASE Exit(c)
    BY <1>0, <1>2, TypeEnds DEF Exit, Running
  <1>3. CASE Crash(c)
    BY <1>0, <1>3, TypeEnds DEF Crash
  <1> QED
    BY <1>1, <1>2, <1>3

LEMMA TypePowerLoss ==
  ASSUME TypeOK, PowerLoss
  PROVE  TypeOK'
  <1>1. \A d \in Copies : snap[d] \in Snapshots /\ snap'[d] \in AfterPowerLoss(snap[d])
    BY DEF TypeOK, PowerLoss, Snapshots
  <1>2. \A d \in Copies : snap'[d] \in Snapshots /\ snap'[d].seen \in snap'[d].kept
    BY <1>1, FileTypes
  <1>3. snap' \in [Copies -> Snapshots]
    BY <1>2 DEF PowerLoss
  <1> QED
    BY <1>2, <1>3, TypeEnds DEF PowerLoss

LEMMA TypeStep == TypeOK /\ [Next]_vars => TypeOK'
  <1>1. ASSUME TypeOK, UNCHANGED vars PROVE TypeOK'
    BY <1>1 DEF TypeOK, vars, startVars, sessionVars, Running
  <1> QED
    BY <1>1, TypeStart, TypeList, TypeLoad, TypeTake, TypeUser, TypeWriter, TypeEnd, TypePowerLoss
    DEF Next, User, Runs, Writes

-----------------------------------------------------------------------------
LEMMA ListedCopy ==
  ASSUME TypeOK, NEW d \in Copies, NEW k \in 1..Len(todo[d])
  PROVE  todo[d][k] \in Copies
  <1>1. todo[d] \in Seq(Copies)
    BY DEF TypeOK
  <1> QED
    BY <1>1

(* Safety.  A step of a copy that touches no snapshot and ends nothing.     *)
LEMMA SessionKeeps ==
  ASSUME SessionInv, NEW c \in Copies, TypeOK',
         UNCHANGED <<snap, blackout>>,
         claimed' \subseteq claimed \cup {c}, phase[c] # "off" => claimed' = claimed,
         phase'[c] \notin {"off", "leaving", "gone"},
         \A d \in Copies \ {c} : phase'[d] = phase[d] /\ writer'[d] = writer[d] /\ todo'[d] = todo[d],
         \A i \in 1..Len(todo'[c]) : phase[todo'[c][i]] # "off" /\ todo'[c][i] \notin claimed
  PROVE  SessionInv'
  <1>1. Unwritten' /\ NeverTorn'
    BY DEF SessionInv, Unwritten, NeverTorn
  <1>2. ASSUME NEW d \in Copies, NEW i \in 1..Len(todo'[d])
        PROVE  phase[todo'[d][i]] # "off" /\ todo'[d][i] \notin claimed /\ todo'[d][i] \in Copies
    <2>1. todo'[d] \in Seq(Copies) /\ todo'[d][i] \in Copies
      BY <1>2 DEF TypeOK
    <2>2. CASE d = c
      BY <1>2, <2>1, <2>2
    <2>3. CASE d # c
      BY <1>2, <2>1, <2>3 DEF SessionInv, Listed
    <2> QED
      BY <2>2, <2>3
  <1>3. Listed'
    BY <1>2 DEF Listed
  <1>4. Cleared'
    BY DEF SessionInv, Cleared
  <1> QED
    BY <1>1, <1>3, <1>4 DEF SessionInv

(* A step that changes a snapshot, and nothing else that matters: no phase  *)
(* but to "leaving", once the snapshot and the writer are gone.             *)
LEMMA SnapshotKeeps ==
  ASSUME SessionInv, NEW c \in Copies, TypeOK',
         UNCHANGED <<claimed, todo, blackout>>,
         \A d \in Copies \ {c} : phase'[d] = phase[d] /\ writer'[d] = writer[d],
         phase[c] \notin {"off", "leaving", "gone"}, phase'[c] # "off",
         phase'[c] \in {"leaving", "gone"} => writer'[c] = Idle /\ snap'[c].seen = Missing,
         \A d \in Copies :
           /\ snap[d] = File(Missing) /\ d # c => snap'[d] = File(Missing)
           /\ d # c => snap'[d].seen = snap[d].seen
           /\ Torn \notin snap'[d].kept
  PROVE  SessionInv'
  <1>1. Unwritten' /\ NeverTorn'
    BY DEF SessionInv, Unwritten, NeverTorn
  <1>2. \A d \in Copies : phase[d] # "off" => phase'[d] # "off"
    OBVIOUS
  <1>3. Listed'
    BY <1>2, ListedCopy DEF SessionInv, Listed
  <1>4. Cleared'
    BY DEF SessionInv, Cleared
  <1> QED
    BY <1>1, <1>3, <1>4 DEF SessionInv

LEMMA SessionStart ==
  ASSUME SessionInv, TypeOK', NEW c \in Copies, NEW looks \in BOOLEAN, Start(c, looks)
  PROVE  SessionInv'
  <1>1. phase' = [phase EXCEPT ![c] = IF looks THEN "listing" ELSE "up"] /\ phase[c] = "off"
    BY DEF Start, Goes
  <1>2. phase'[c] \in {"listing", "up"} /\ \A d \in Copies \ {c} : phase'[d] = phase[d]
    BY <1>1 DEF SessionInv, TypeOK
  <1>3. UNCHANGED <<snap, blackout, todo, writer>> /\ claimed' \subseteq claimed \cup {c}
    BY DEF Start, Claims
  <1>4. todo[c] = <<>>
    BY <1>1 DEF SessionInv, TypeOK
  <1> QED
    BY <1>1, <1>2, <1>3, <1>4, SessionKeeps

LEMMA SessionList ==
  ASSUME SessionInv, TypeOK', NEW c \in Copies, List(c)
  PROVE  SessionInv'
  <1>1. PICK q \in Sorted(Abandoned(c)) : todo' = [todo EXCEPT ![c] = q]
    BY DEF List
  <1>2. /\ todo'[c] = q /\ \A d \in Copies \ {c} : todo'[d] = todo[d]
    BY <1>1 DEF SessionInv, TypeOK
  <1>3. \A d \in Abandoned(c) : phase[d] # "off" /\ d \notin claimed
    BY DEF Abandoned, SessionInv, Unwritten, File
  <1>4. \A i \in 1..Len(q) : q[i] \in Abandoned(c)
    BY ListingType DEF Abandoned
  <1>5. phase'[c] \in {"up", "loading"} /\ \A d \in Copies \ {c} : phase'[d] = phase[d]
    BY DEF SessionInv, TypeOK, List, Goes
  <1>6. UNCHANGED <<snap, blackout, claimed, writer>>
    BY DEF List
  <1> QED
    BY <1>2, <1>3, <1>4, <1>5, <1>6, SessionKeeps

LEMMA SessionLoad ==
  ASSUME SessionInv, TypeOK', NEW c \in Copies, Load(c)
  PROVE  SessionInv'
  <1>1. phase'[c] = "taking" /\ \A d \in Copies \ {c} : phase'[d] = phase[d]
    BY DEF SessionInv, TypeOK, Load, Goes
  <1>2. UNCHANGED <<snap, blackout, claimed, writer, todo>>
    BY DEF Load
  <1> QED
    BY <1>1, <1>2, SessionKeeps DEF SessionInv, Listed

LEMMA SessionTake ==
  ASSUME SessionInv, TypeOK', NEW c \in Copies, Take(c)
  PROVE  SessionInv'
  <1> DEFINE taken == Head(todo[c])
  <1>1. todo[c] \in Seq(Copies) /\ todo[c] # <<>> /\ phase[c] = "taking"
    BY DEF SessionInv, TypeOK, Take, Goes
  <1>2. taken \in Copies /\ taken = todo[c][1] /\ 1 \in 1..Len(todo[c])
    BY <1>1
  <1>3. snap' = [snap EXCEPT ![taken] = Removed(snap[taken])]
    BY DEF Take
  <1>4. \A d \in Copies : snap[d] \in Snapshots
    BY DEF SessionInv, TypeOK, Snapshots
  <1>5. ASSUME NEW d \in Copies
        PROVE  /\ snap[d] = File(Missing) => snap'[d] = File(Missing)
               /\ snap'[d].seen = snap[d].seen \/ snap'[d].seen = Missing
               /\ Torn \notin snap'[d].kept
    BY <1>3, <1>4, FileNever, FileSeen, FilesWhole DEF SessionInv, TypeOK, NeverTorn
  <1>6. phase'[c] \in {"up", "loading"} /\ \A d \in Copies \ {c} : phase'[d] = phase[d]
    BY <1>1 DEF SessionInv, TypeOK, Take, Goes
  <1>7. UNCHANGED <<blackout, claimed, writer>>
    BY DEF Take
  <1>8. Unwritten' /\ NeverTorn'
    BY <1>1, <1>5, <1>6 DEF SessionInv, Unwritten, NeverTorn
  <1>9. Cleared'
    BY <1>1, <1>5, <1>6, <1>7 DEF SessionInv, Cleared
  <1>10. ASSUME NEW d \in Copies, NEW i \in 1..Len(todo'[d])
         PROVE  \E k \in 1..Len(todo[d]) : todo'[d][i] = todo[d][k]
    <2>1. CASE d # c
      BY <1>10, <2>1 DEF SessionInv, TypeOK, Take
    <2>2. CASE d = c
      <3>1. todo'[c] \in {<<>>, Tail(todo[c])}
        BY DEF SessionInv, TypeOK, Take, Remaining
      <3>2. todo'[c] = Tail(todo[c])
        BY <1>10, <2>2, <3>1, Len(<<>>) = 0, 1..0 = {}
      <3>3. i + 1 \in 1..Len(todo[c]) /\ Tail(todo[c])[i] = todo[c][i + 1]
        BY <1>1, <1>10, <2>2, <3>2
      <3> QED
        BY <2>2, <3>2, <3>3
    <2> QED
      BY <2>1, <2>2
  <1>11. \A d \in Copies : phase[d] # "off" => phase'[d] # "off"
    BY <1>6
  <1>12. Listed'
    <2> SUFFICES ASSUME NEW d \in Copies, NEW i \in 1..Len(todo'[d])
                 PROVE  phase'[todo'[d][i]] # "off" /\ todo'[d][i] \notin claimed'
      BY DEF Listed
    <2>1. PICK k \in 1..Len(todo[d]) : todo'[d][i] = todo[d][k]
      BY <1>10
    <2>2. todo[d][k] \in Copies /\ phase[todo[d][k]] # "off" /\ todo[d][k] \notin claimed
      BY ListedCopy DEF SessionInv, Listed
    <2> QED
      BY <1>7, <1>11, <2>1, <2>2
  <1> QED
    BY <1>8, <1>9, <1>12 DEF SessionInv

LEMMA SessionUser ==
  ASSUME SessionInv, TypeOK', NEW c \in Copies,
         Quit(c) \/ SaveSession(c) \/ WriteFails(c) \/ \E place \in 1..MaxPlaces : Move(c, place)
  PROVE  SessionInv'
  <1>1. UNCHANGED <<snap, blackout, claimed, todo>>
    BY DEF Quit, SaveSession, WriteFails, Move, startVars
  <1>2. c \in Running /\ phase[c] # "leaving"
    BY DEF SessionInv, TypeOK, Cleared, Quit, SaveSession, WriteFails, Move, Goes, Running, Idle
  <1>3. \A d \in Copies \ {c} : phase'[d] = phase[d] /\ writer'[d] = writer[d]
    BY DEF SessionInv, TypeOK, Quit, SaveSession, WriteFails, Move, Goes
  <1>4. phase'[c] \in {phase[c], "quitting"}
    BY DEF SessionInv, TypeOK, Quit, SaveSession, WriteFails, Move, Goes
  <1>5. \A i \in 1..Len(todo'[c]) : phase[todo'[c][i]] # "off" /\ todo'[c][i] \notin claimed
    BY <1>1 DEF SessionInv, Listed
  <1> QED
    BY <1>1, <1>2, <1>3, <1>4, <1>5, SessionKeeps DEF Running

LEMMA SessionWrites ==
  ASSUME SessionInv, TypeOK', NEW c \in Copies,
         CloseDocument(c) \/ Write(c) \/ SyncDirectory(c) \/ Clear(c)
  PROVE  SessionInv'
  <1>1. \A d \in Copies : snap[d] \in Snapshots /\ Torn \notin snap[d].kept
    BY DEF SessionInv, TypeOK, NeverTorn, Snapshots
  <1>0. DOMAIN snap = Copies
    BY DEF SessionInv, TypeOK
  <1>2. UNCHANGED <<claimed, todo, blackout>>
    BY DEF CloseDocument, Write, SyncDirectory, Clear, startVars
  <1>3. phase[c] \notin {"off", "leaving", "gone"}
    BY DEF SessionInv, TypeOK, Cleared, CloseDocument, Write, SyncDirectory, Clear, Goes, Running, Idle
  <1>4. \A d \in Copies \ {c} : phase'[d] = phase[d] /\ writer'[d] = writer[d]
    BY DEF SessionInv, TypeOK, CloseDocument, Write, SyncDirectory, Clear, Goes
  <1>5. CASE SyncDirectory(c)
    <2>1. \A d \in Copies : snap'[d] = Settled(snap[d])
      BY <1>5 DEF SyncDirectory
    <2>2. phase' = phase
      BY <1>5 DEF SyncDirectory
    <2> QED
      BY <1>1, <1>2, <1>3, <1>4, <2>1, <2>2, FileNever, FileSeen, FilesWhole, SnapshotKeeps
  <1>6. ASSUME ~SyncDirectory(c)
        PROVE  /\ \A d \in Copies \ {c} : snap'[d] = snap[d]
               /\ Torn \notin snap'[c].kept
               /\ \/ phase'[c] = phase[c]
                  \/ phase'[c] = "leaving" /\ writer'[c] = Idle /\ snap'[c].seen = Missing
    <2>1. CASE CloseDocument(c)
      <3>1. snap' = [snap EXCEPT ![c] = Removed(snap[c])] /\ phase' = phase
        BY <2>1 DEF CloseDocument
      <3>2. Torn \notin Removed(snap[c]).kept
        BY <1>1, FilesWhole
      <3> QED
        BY <1>0, <3>1, <3>2
    <2>2. CASE Write(c)
      <3>1. writer[c].what \in 0..MaxPlaces
        BY DEF SessionInv, TypeOK
      <3>2. snap' = [snap EXCEPT ![c] = Renamed(snap[c], writer[c].what)] /\ phase' = phase
        BY <2>2 DEF Write
      <3>3. Torn \notin Renamed(snap[c], writer[c].what).kept
        BY <1>1, <3>1, FilesWhole
      <3> QED
        BY <1>0, <3>2, <3>3
    <2>3. CASE Clear(c)
      BY <1>1, <2>3, FilesWhole, FileSeen DEF Clear, Goes, Joined, SessionInv, TypeOK
    <2> QED
      BY <1>6, <2>1, <2>2, <2>3
  <1> QED
    BY <1>1, <1>2, <1>3, <1>4, <1>5, <1>6, SnapshotKeeps

LEMMA SessionEnds ==
  ASSUME SessionInv, TypeOK', NEW S \in SUBSET Running, NEW as \in {"gone", "dead"}, Ends(S, as),
         as = "gone" => \A c \in S : snap'[c].seen = Missing \/ blackout',
         \A d \in Copies :
           /\ snap[d] = File(Missing) => snap'[d] = File(Missing)
           /\ Torn \notin snap'[d].kept
           /\ snap'[d].seen = snap[d].seen \/ blackout',
         blackout => blackout'
  PROVE  SessionInv'
  <1>1. /\ \A c \in S : phase'[c] = as /\ writer'[c] = Idle /\ todo'[c] = <<>>
        /\ \A c \in Copies \ S : phase'[c] = phase[c] /\ writer'[c] = writer[c] /\ todo'[c] = todo[c]
        /\ claimed' \subseteq claimed /\ S \subseteq Copies
    BY DEF Ends, Running
  <1>2. Unwritten' /\ NeverTorn'
    BY <1>1 DEF SessionInv, Unwritten, NeverTorn
  <1>3. Cleared'
    BY <1>1 DEF SessionInv, Cleared
  <1>4. \A d \in Copies : phase[d] # "off" => phase'[d] # "off"
    BY <1>1
  <1>5. \A d \in S : 1..Len(todo'[d]) = {}
    BY <1>1, Len(<<>>) = 0, 1..0 = {}
  <1>6. Listed'
    BY <1>1, <1>4, <1>5, ListedCopy DEF SessionInv, Listed
  <1> QED
    BY <1>2, <1>3, <1>6 DEF SessionInv

LEMMA SessionEnd ==
  ASSUME SessionInv, TypeOK', Next,
         PowerLoss \/ \E c \in Copies : Exit(c) \/ Crash(c)
  PROVE  SessionInv'
  <1>1. \A d \in Copies : snap[d] \in Snapshots /\ Torn \notin snap[d].kept
    BY DEF SessionInv, TypeOK, NeverTorn, Snapshots
  <1>2. ASSUME NEW c \in Copies, Exit(c) PROVE SessionInv'
    <2>1. {c} \in SUBSET Running /\ Ends({c}, "gone") /\ UNCHANGED <<snap, blackout>>
      BY <1>2 DEF Exit, Running
    <2>2. snap[c].seen = Missing \/ blackout
      BY <1>2 DEF Exit, SessionInv, Cleared
    <2> QED
      BY <1>1, <2>1, <2>2, SessionEnds
  <1>3. ASSUME NEW c \in Copies, Crash(c) PROVE SessionInv'
    <2>1. {c} \in SUBSET Running /\ Ends({c}, "dead") /\ UNCHANGED <<snap, blackout>>
      BY <1>3 DEF Crash
    <2> QED
      BY <1>1, <2>1, SessionEnds
  <1>4. CASE PowerLoss
    <2>1. Ends(Running, "dead") /\ blackout'
      BY <1>4 DEF PowerLoss
    <2>2. \A d \in Copies : snap'[d] \in AfterPowerLoss(snap[d])
      BY <1>4 DEF PowerLoss
    <2>3. \A d \in Copies : /\ snap[d] = File(Missing) => snap'[d] = File(Missing)
                            /\ Torn \notin snap'[d].kept
      BY <1>1, <2>2, FileNever, FilesWhole
    <2> QED
      BY <2>1, <2>3, SessionEnds
  <1> QED
    BY <1>2, <1>3, <1>4

LEMMA SessionStep == SessionInv /\ [Next]_vars => SessionInv'
  <1> SUFFICES ASSUME SessionInv, [Next]_vars PROVE SessionInv'
    OBVIOUS
  <1>1. TypeOK'
    BY TypeStep DEF SessionInv
  <1>2. CASE UNCHANGED vars
    BY <1>2 DEF SessionInv, TypeOK, Unwritten, Listed, Cleared, NeverTorn, Running, vars, startVars, sessionVars
  <1>3. CASE Next
    BY <1>1, <1>3, SessionStart, SessionList, SessionLoad, SessionTake, SessionUser, SessionWrites, SessionEnd
    DEF Next, User, Runs, Writes
  <1> QED
    BY <1>2, <1>3

LEMMA SessionAlways == Spec => []SessionInv
  BY SessionInit, SessionStep, PTL DEF Spec

(* Every variable stays in its range, and a copy that ended has no thread. *)
THEOREM SessionTypeCorrect == Spec => []TypeOK
  <1>1. SessionInv => TypeOK
    BY DEF SessionInv
  <1> QED
    BY SessionAlways, <1>1, PTL

(* A snapshot is a version somebody wrote or is not there, and that of a    *)
(* copy that quit is gone and nothing brings it back, but a power loss      *)
(* (session.rs save, app.rs quit).                                          *)
THEOREM SnapshotsSound == Spec => []SnapshotSound
  <1>1. SessionInv => SnapshotSound
    BY DEF SessionInv, SnapshotSound, CleanExitStays, Cleared
  <1> QED
    BY SessionAlways, <1>1, PTL

(* Nobody takes the snapshot of a copy that holds its claim, though the     *)
(* claims are looked at when the snapshots are listed and not again         *)
(* (session.rs abandoned_snapshots).                                        *)
THEOREM NothingStolen == Spec => NeverStolen
  <1>1. ASSUME SessionInv, NEW c \in Copies, phase[c] = "taking"
        PROVE  Head(todo[c]) \notin claimed
    <2>1. todo[c] \in Seq(Copies) /\ todo[c] # <<>>
      BY <1>1 DEF SessionInv, TypeOK
    <2>2. 1 \in 1..Len(todo[c]) /\ Head(todo[c]) = todo[c][1]
      BY <2>1
    <2> QED
      BY <1>1, <2>2 DEF SessionInv, Listed
  <1>2. SessionInv => [\A c \in Copies : phase[c] = "taking" /\ phase'[c] \in {"loading", "up"}
                         => Head(todo[c]) \notin claimed]_vars
    BY <1>1
  <1> QED
    BY SessionAlways, <1>2, PTL DEF NeverStolen
=============================================================================
