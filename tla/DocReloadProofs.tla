--------------------------- MODULE DocReloadProofs ---------------------------
(***************************************************************************)
(* Theorems about DocReload, for every value of its constants: its types,  *)
(* what its helpers return, and that the document on screen is never       *)
(* closed under the audience nor taken for another file.                   *)
(***************************************************************************)
EXTENDS DocReload, TLAPS

-----------------------------------------------------------------------------
(* What the helpers return. *)

PhaseType == [at : {"idle", "debouncing", "stabilising", "opening", "backoff"},
              doc : Nat, attempt : Nat, stamp : Nat]

LEMMA StampType == ASSUME TypeOK, NEW f \in Files \cup {NoFile} PROVE Stamp(f) \in Nat
  <1>1. CASE f = NoFile
    BY <1>1 DEF Stamp
  <1>2. CASE f # NoFile
    <2>1. file[f] \in [version : Nat \ {0}, content : {"good", "bad", "empty", "gone"}]
      BY <1>2 DEF TypeOK
    <2> QED
      BY <1>2, <2>1 DEF Stamp
  <1> QED
    BY <1>1, <1>2

LEMMA PhaseTypes ==
  ASSUME NEW n \in Nat, NEW d \in Nat
  PROVE  /\ Idle \in PhaseType /\ Debouncing \in PhaseType
         /\ Stabilising(n) \in PhaseType /\ Opening(d, n) \in PhaseType
         /\ Backoff(n) \in PhaseType
  BY DEF PhaseType, Idle, Debouncing, Stabilising, Opening, Backoff, State

LEMMA PhaseNames ==
  ASSUME NEW n, NEW d
  PROVE  /\ Idle.at = "idle" /\ Debouncing.at = "debouncing"
         /\ Stabilising(n).at = "stabilising" /\ Backoff(n).at = "backoff"
         /\ Opening(d, n).at = "opening" /\ Opening(d, n).doc = d
  BY DEF Idle, Debouncing, Stabilising, Opening, Backoff, State

LEMMA InitialPhase ==
  ASSUME TypeOK, NEW f \in Files \cup {NoFile}
  PROVE  Initial(f) \in PhaseType /\ Initial(f).at # "opening"
  <1>1. Stamp(f) \in Nat
    BY StampType
  <1> QED
    BY <1>1, PhaseTypes, PhaseNames DEF Initial

(* Closing forgets the documents closed and keeps the others as they were. *)
LEMMA Closed ==
  ASSUME NEW S, Close(S)
  PROVE  /\ DOMAIN documents' = DOMAIN documents \ S
         /\ \A d \in DOMAIN documents' : documents'[d] = documents[d]
         /\ reported' = reported \ S
         /\ DOMAIN held' = Workers
         /\ \A w \in Workers : DOMAIN held'[w] = DOMAIN held[w] \ S
  <1>1. documents' = [x \in DOMAIN documents \ S |-> documents[x]]
    BY DEF Close, Without
  <1>2. held' = [w \in Workers |-> [x \in DOMAIN held[w] \ S |-> held[w][x]]]
    BY DEF Close, Without
  <1>3. reported' = reported \ S
    BY DEF Close
  <1>4. DOMAIN documents' = DOMAIN documents \ S
    BY <1>1
  <1>5. \A d \in DOMAIN documents' : documents'[d] = documents[d]
    BY <1>1, <1>4
  <1>6. DOMAIN held' = Workers
    BY <1>2
  <1>7. ASSUME NEW w \in Workers PROVE DOMAIN held'[w] = DOMAIN held[w] \ S
    <2>1. held'[w] = [x \in DOMAIN held[w] \ S |-> held[w][x]]
      BY <1>2
    <2> QED
      BY <2>1
  <1> QED
    BY <1>3, <1>4, <1>5, <1>6, <1>7

(* The part of the type that the supervisor keeps. *)
PoolType ==
  /\ DOMAIN documents \subseteq Nat \ {0} /\ reported \subseteq Nat \ {0}
  /\ \A d \in DOMAIN documents : documents[d] \in Files \cup {NoFile}
  /\ DOMAIN held = Workers
  /\ \A w \in Workers : DOMAIN held[w] \subseteq DOMAIN documents

LEMMA ClosedType == ASSUME NEW S, PoolType, Close(S) PROVE PoolType'
  <1>1. /\ DOMAIN documents' = DOMAIN documents \ S
        /\ \A d \in DOMAIN documents' : documents'[d] = documents[d]
        /\ reported' = reported \ S /\ DOMAIN held' = Workers
        /\ \A w \in Workers : DOMAIN held'[w] = DOMAIN held[w] \ S
    BY Closed
  <1> QED
    BY <1>1 DEF PoolType
LEMMA SamePoolType == ASSUME PoolType, UNCHANGED poolVars PROVE PoolType'
  BY DEF PoolType, poolVars
LEMMA TypePool == TypeOK => PoolType
  BY DEF TypeOK, PoolType

(* The rest of the type, part by part. *)
FlagType ==
  /\ coming \in BOOLEAN /\ hint \in BOOLEAN /\ unseen \in BOOLEAN
  /\ failing \in BOOLEAN /\ handling \in BOOLEAN
DiskType ==
  /\ file \in [Files -> [version : Nat \ {0}, content : {"good", "bad", "empty", "gone"}]]
  /\ watch \in {"none", "asked", "made", "on"}
  /\ writes \in 0..MaxWrites
ManagerType ==
  /\ path \in Files \cup {NoFile} /\ phase \in PhaseType
  /\ active \in Nat /\ next \in Nat /\ retired \in Nat
  /\ candidate \in Nat /\ table \in Nat /\ wanted \in Nat
  /\ shown \in [doc : Nat, file : Files \cup {NoFile}, version : Nat]
  /\ opens \in 0..MaxOpens
PipeType ==
  /\ asked \in [Workers -> SUBSET Ask] /\ answers \in [Workers -> Seq(Answer)]
  /\ events \in Seq(Answer) /\ faults \in 0..MaxFaults

LEMMA TypeParts == TypeOK <=> FlagType /\ DiskType /\ ManagerType /\ PoolType /\ PipeType
  BY Zenon DEF TypeOK, FlagType, DiskType, ManagerType, PoolType, PipeType, PhaseType

LEMMA TypeStep ==
  ASSUME FlagType', DiskType', ManagerType', PoolType', PipeType' PROVE TypeOK'
  BY Zenon DEF TypeOK, FlagType, DiskType, ManagerType, PoolType, PipeType, PhaseType

LEMMA SameFlags ==
  ASSUME FlagType, UNCHANGED <<coming, hint, unseen, failing, handling>> PROVE FlagType'
  BY Zenon DEF FlagType
LEMMA SameDisk == ASSUME DiskType, UNCHANGED <<diskVars, watchVars>> PROVE DiskType'
  BY Zenon DEF DiskType, diskVars, watchVars
LEMMA SameManager == ASSUME ManagerType, UNCHANGED <<managerVars, appVars>> PROVE ManagerType'
  BY DEF ManagerType, managerVars, appVars
LEMMA SamePipe == ASSUME PipeType, UNCHANGED <<pipeVars, pumpVars>> PROVE PipeType'
  BY DEF PipeType, pipeVars, pumpVars

-----------------------------------------------------------------------------
(* Types: the pool. *)

LEMMA TypeInit == Init => TypeOK
  <1> SUFFICES ASSUME Init PROVE TypeOK
    OBVIOUS
  <1>1. DiskType
    BY ReloadAssumption DEF Init, DiskType
  <1>2. ManagerType
    <2>1. phase \in PhaseType
      BY PhaseTypes DEF Init
    <2>2. shown \in [doc : Nat, file : Files \cup {NoFile}, version : Nat]
      BY DEF Init, Nothing
    <2> QED
      BY ReloadAssumption, <2>1, <2>2 DEF Init, ManagerType
  <1>3. PoolType
    BY DEF Init, PoolType
  <1>4. PipeType
    BY ReloadAssumption DEF Init, PipeType
  <1>5. FlagType
    BY Zenon DEF Init, FlagType
  <1> QED
    BY <1>1, <1>2, <1>3, <1>4, <1>5, TypeParts

LEMMA TypeWorkerOpens == ASSUME TypeOK, NEW w \in Workers, WorkerOpens(w) PROVE TypeOK'
  <1> USE TypeParts
  <1>1. DiskType' /\ ManagerType'
    BY SameDisk, SameManager DEF WorkerOpens
  <1>2. PICK ask \in asked[w] :
          /\ asked' = [asked EXCEPT ![w] = @ \ {ask}]
          /\ \/ held' = held
             \/ /\ ask.doc \in DOMAIN documents
                /\ held' = [held EXCEPT ![w] = [d \in DOMAIN @ \cup {ask.doc} |->
                              IF d = ask.doc THEN Stamp(ask.file) ELSE @[d]]]
          /\ \E kind \in {"good", "empty", "failed"} :
               answers' = [answers EXCEPT ![w] = Append(@,
                 [doc |-> ask.doc, file |-> ask.file, version |-> Stamp(ask.file),
                  said |-> kind])]
    <2>1. PICK ask \in asked[w] :
            LET content == Content(ask.file)
                version == Stamp(ask.file)
                opened  == content \in {"good", "empty"}
            IN  /\ asked' = [asked EXCEPT ![w] = @ \ {ask}]
                /\ held' = IF opened /\ ask.doc \in DOMAIN documents
                           THEN [held EXCEPT ![w] = [d \in DOMAIN @ \cup {ask.doc} |->
                                  IF d = ask.doc THEN version ELSE @[d]]]
                           ELSE held
                /\ answers' = [answers EXCEPT ![w] = Append(@,
                     [doc |-> ask.doc, file |-> ask.file, version |-> version,
                      said |-> IF opened THEN content ELSE "failed"])]
      BY DEF WorkerOpens
    <2>2. (IF Content(ask.file) \in {"good", "empty"} THEN Content(ask.file) ELSE "failed")
            \in {"good", "empty", "failed"}
      OBVIOUS
    <2> QED
      BY <2>1, <2>2
  <1>3. ask \in Ask /\ Stamp(ask.file) \in Nat
    <2>1. ask \in Ask
      BY DEF PipeType
    <2>2. ask.file \in Files \cup {NoFile}
      BY <2>1 DEF Ask
    <2> QED
      BY <2>1, <2>2, StampType
  <1>4. PoolType'
    <2>1. UNCHANGED <<documents, reported>>
      BY DEF WorkerOpens
    <2>2. DOMAIN held' = Workers
      BY <1>2 DEF PoolType
    <2>3. ASSUME NEW v \in Workers PROVE DOMAIN held'[v] \subseteq DOMAIN documents
      <3>1. CASE held' = held
        BY <3>1 DEF PoolType
      <3>2. CASE /\ ask.doc \in DOMAIN documents
                 /\ held' = [held EXCEPT ![w] = [d \in DOMAIN @ \cup {ask.doc} |->
                              IF d = ask.doc THEN Stamp(ask.file) ELSE @[d]]]
        <4>1. held'[v] = IF v = w THEN [d \in DOMAIN held[w] \cup {ask.doc} |->
                                          IF d = ask.doc THEN Stamp(ask.file) ELSE held[w][d]]
                                   ELSE held[v]
          BY <3>2 DEF PoolType
        <4>2. DOMAIN held[v] \subseteq DOMAIN documents
          BY DEF PoolType
        <4> QED
          BY <3>2, <4>1, <4>2
      <3> QED
        BY <1>2, <3>1, <3>2
    <2> QED
      BY <2>1, <2>2, <2>3 DEF PoolType
  <1>5. PipeType'
    <2>1. asked' \in [Workers -> SUBSET Ask]
      BY <1>2 DEF PipeType
    <2>2. answers' \in [Workers -> Seq(Answer)]
      <3>1. PICK kind \in {"good", "empty", "failed"} :
              answers' = [answers EXCEPT ![w] = Append(@,
                 [doc |-> ask.doc, file |-> ask.file, version |-> Stamp(ask.file),
                  said |-> kind])]
        BY <1>2
      <3>2. [doc |-> ask.doc, file |-> ask.file, version |-> Stamp(ask.file),
             said |-> kind] \in Answer
        BY <1>3 DEF Ask, Answer
      <3> QED
        BY <3>1, <3>2 DEF PipeType
    <2> QED
      BY <2>1, <2>2 DEF PipeType, WorkerOpens, pumpVars
  <1>6. FlagType'
    BY SameFlags DEF WorkerOpens, diskVars, managerVars, watchVars, pumpVars
  <1> QED
    BY TypeStep, <1>1, <1>4, <1>5, <1>6

LEMMA ReplacedType ==
  ASSUME TypeOK, NEW w \in Workers PROVE Replaced(w) \in [Workers -> SUBSET Ask]
  <1>1. ASSUME NEW d \in DOMAIN documents PROVE [doc |-> d, file |-> documents[d]] \in Ask
    BY DEF TypeOK, Ask
  <1>2. {[doc |-> d, file |-> documents[d]] : d \in DOMAIN documents} \in SUBSET Ask
    BY <1>1
  <1> QED
    BY <1>2 DEF Replaced, TypeOK

LEMMA TypeRespawn == ASSUME TypeOK, NEW w \in Workers, Respawn(w) PROVE TypeOK'
  <1> USE TypeParts
  <1>1. DiskType' /\ ManagerType'
    BY SameDisk, SameManager DEF Respawn
  <1>2. PoolType'
    BY DEF Respawn, PoolType
  <1>3. PipeType'
    BY ReplacedType, ReloadAssumption DEF Respawn, PipeType, pumpVars
  <1>4. FlagType'
    BY SameFlags DEF Respawn, diskVars, managerVars, watchVars, pumpVars
  <1> QED
    BY TypeStep, <1>1, <1>2, <1>3, <1>4

LEMMA FirstAnswer ==
  ASSUME TypeOK, NEW w \in Workers, answers[w] # <<>>
  PROVE  Head(answers[w]) \in Answer /\ Tail(answers[w]) \in Seq(Answer)
  BY DEF TypeOK

LEMMA TypeDrain == ASSUME TypeOK, NEW w \in Workers, Drain(w) PROVE TypeOK'
  <1> USE TypeParts
  <1>1. DiskType' /\ ManagerType'
    BY SameDisk, SameManager DEF Drain
  <1>2. Head(answers[w]) \in Answer /\ Tail(answers[w]) \in Seq(Answer)
    BY FirstAnswer DEF Drain
  <1>3. PoolType'
    BY <1>2 DEF Drain, PoolType, Answer
  <1>4. PipeType'
    <2>1. answers' \in [Workers -> Seq(Answer)]
      BY <1>2 DEF Drain, PipeType
    <2>2. events' \in Seq(Answer)
      <3>1. events' = events \/ events' = Append(events, Head(answers[w]))
        BY Zenon DEF Drain
      <3> QED
        BY <1>2, <3>1 DEF PipeType
    <2> QED
      BY <2>1, <2>2 DEF Drain, PipeType
  <1>5. FlagType'
    BY SameFlags DEF Drain, diskVars, managerVars, watchVars
  <1> QED
    BY TypeStep, <1>1, <1>3, <1>4, <1>5

-----------------------------------------------------------------------------
(* Types: the manager and the application. *)

LEMMA TypeCandidateFailed ==
  ASSUME TypeOK, NEW d, CandidateFailed(d)
  PROVE  ManagerType' /\ PoolType' /\ failing' \in BOOLEAN
  <1>1. ManagerType /\ PoolType /\ failing \in BOOLEAN
    BY Zenon, TypeParts DEF FlagType
  <1>2. PoolType'
    BY <1>1, ClosedType DEF CandidateFailed
  <1>3. phase.attempt \in Nat /\ phase \in PhaseType
    BY <1>1 DEF ManagerType, PhaseType
  <1>4. phase' = phase \/ phase' = Backoff(phase.attempt)
    BY DEF CandidateFailed
  <1>5. phase' \in PhaseType
    BY <1>3, <1>4, PhaseTypes
  <1>6. wanted' \in {0, wanted}
    BY DEF CandidateFailed
  <1>7. ManagerType'
    BY <1>1, <1>5, <1>6 DEF CandidateFailed, ManagerType
  <1>8. failing' \in BOOLEAN
    BY Zenon, <1>1 DEF CandidateFailed
  <1> QED
    BY <1>2, <1>7, <1>8

LEMMA TypeDiscard ==
  ASSUME TypeOK, NEW d, Discard(d)
  PROVE  ManagerType' /\ PoolType' /\ failing' \in BOOLEAN
  <1>1. ManagerType /\ PoolType /\ failing \in BOOLEAN
    BY Zenon, TypeParts DEF FlagType
  <1>2. PoolType'
    BY <1>1, ClosedType DEF Discard
  <1>3. ManagerType'
    BY <1>1 DEF Discard, ManagerType, managerVars
  <1>4. failing' \in BOOLEAN
    BY Zenon, <1>1 DEF Discard, managerVars
  <1> QED
    BY <1>2, <1>3, <1>4

LEMMA TypePromote ==
  ASSUME TypeOK, NEW e \in Answer, Promote(e)
  PROVE  ManagerType' /\ PoolType' /\ failing' \in BOOLEAN
  <1>1. ManagerType /\ PoolType
    BY Zenon, TypeParts
  <1>2. PoolType'
    BY <1>1, ClosedType DEF Promote
  <1>3. phase' \in PhaseType
    BY PhaseTypes DEF Promote
  <1>4. table' \in Nat
    BY <1>1 DEF Promote, ManagerType
  <1>5. shown' \in [doc : Nat, file : Files \cup {NoFile}, version : Nat]
    BY DEF Promote, Answer
  <1>6. active' \in Nat /\ wanted' = 0 /\ candidate' = 0 /\ retired' = 0
    BY DEF Promote, Answer
  <1>7. ManagerType'
    BY <1>1, <1>3, <1>4, <1>5, <1>6 DEF Promote, ManagerType
  <1>8. failing' \in BOOLEAN
    BY Zenon DEF Promote
  <1> QED
    BY <1>2, <1>7, <1>8

LEMMA TypeSame ==
  ASSUME TypeOK, UNCHANGED <<managerVars, appVars, poolVars>>
  PROVE  ManagerType' /\ PoolType' /\ failing' \in BOOLEAN
  <1>1. ManagerType /\ PoolType /\ failing \in BOOLEAN
    BY Zenon, TypeParts DEF FlagType
  <1>2. ManagerType' /\ PoolType'
    BY <1>1, SameManager, SamePoolType
  <1>3. failing' \in BOOLEAN
    BY Zenon, <1>1 DEF managerVars
  <1> QED
    BY <1>2, <1>3

(* What Handle may do with the answer at the head of the events. *)
LEMMA Handled ==
  ASSUME Handle
  PROVE  LET e == Head(events)
         IN  \/ CandidateFailed(e.doc)
             \/ Discard(e.doc) /\ (phase.at = "opening" => e.doc # phase.doc)
             \/ Promote(e) /\ phase.at = "opening" /\ e.doc = phase.doc
             \/ UNCHANGED <<managerVars, appVars, poolVars>> /\ active = e.doc
  BY Zenon DEF Handle, CandidateOpened

LEMMA FirstEvent ==
  ASSUME TypeOK, Handle
  PROVE  Head(events) \in Answer /\ events' \in Seq(Answer)
  BY DEF TypeOK, Handle

LEMMA TypeHandle == ASSUME TypeOK, Handle PROVE TypeOK'
  <1>1. FlagType /\ DiskType /\ PipeType
    BY Zenon, TypeParts
  <1>2. Head(events) \in Answer /\ events' \in Seq(Answer)
    BY FirstEvent
  <1>3. ManagerType' /\ PoolType' /\ failing' \in BOOLEAN
    BY <1>2, Handled, TypeCandidateFailed, TypeDiscard, TypePromote, TypeSame
  <1>4. DiskType'
    BY <1>1, SameDisk DEF Handle
  <1>5. PipeType'
    BY <1>1, <1>2 DEF Handle, pipeVars, PipeType
  <1>6. UNCHANGED <<coming, hint, unseen>> /\ handling' \in BOOLEAN
    BY Zenon DEF Handle, diskVars, watchVars
  <1>7. FlagType'
    BY Zenon, <1>1, <1>3, <1>6 DEF FlagType
  <1> QED
    BY <1>3, <1>4, <1>5, <1>7, TypeStep

LEMMA TypeOpenCandidate ==
  ASSUME TypeOK, NEW attempt \in Nat, OpenCandidate(attempt)
  PROVE  /\ ManagerType' /\ PoolType' /\ failing' \in BOOLEAN
         /\ asked' \in [Workers -> SUBSET Ask]
  <1>1. ManagerType /\ PoolType /\ PipeType /\ failing \in BOOLEAN
    BY Zenon, TypeParts DEF FlagType
  <1>2. /\ next + 1 \in Nat \ {0} /\ Stamp(path) \in Nat /\ candidate \in Nat
        /\ path \in Files \cup {NoFile}
    BY <1>1, StampType DEF ManagerType
  <1>3. failing' \in BOOLEAN
    BY Zenon, <1>1 DEF OpenCandidate
  <1>4. /\ next' = next + 1
        /\ UNCHANGED <<active, path, shown, retired, table, opens>>
        /\ wanted' \in {0, next + 1} /\ candidate' \in {0, Stamp(path), candidate}
        /\ phase' \in {Opening(next + 1, attempt), Backoff(attempt)}
    BY DEF OpenCandidate
  <1>5. phase' \in PhaseType
    BY <1>2, <1>4, PhaseTypes
  <1>6. ManagerType'
    <2>1. next' \in Nat /\ wanted' \in Nat /\ candidate' \in Nat
      BY <1>2, <1>4
    <2>2. ManagerType
      BY <1>1
    <2> QED
      BY <1>4, <1>5, <2>1, <2>2 DEF ManagerType
  <1>7. \/ Open(next + 1) /\ held' = held
        \/ Close({next + 1}) /\ asked' = asked
    BY Zenon DEF OpenCandidate
  <1>8. CASE Close({next + 1}) /\ asked' = asked
    BY <1>1, <1>3, <1>6, <1>8, ClosedType DEF PipeType
  <1>9. CASE Open(next + 1) /\ held' = held
    <2>1. /\ DOMAIN documents' = DOMAIN documents \cup {next + 1}
          /\ \A d \in DOMAIN documents' : documents'[d] \in {path, documents[d]}
          /\ \A d \in DOMAIN documents' : d # next + 1 => documents'[d] = documents[d]
          /\ documents'[next + 1] = path
      BY <1>9 DEF Open
    <2>2. PoolType'
      <3>1. DOMAIN documents' \subseteq Nat \ {0}
        BY <1>1, <1>2, <2>1 DEF PoolType
      <3>2. \A d \in DOMAIN documents' : documents'[d] \in Files \cup {NoFile}
        BY <1>1, <1>2, <2>1 DEF PoolType
      <3>3. reported' \subseteq Nat \ {0}
        BY <1>1, <1>9 DEF PoolType, Open
      <3>4. \A w \in Workers : DOMAIN held'[w] \subseteq DOMAIN documents'
        BY <1>1, <1>9, <2>1 DEF PoolType
      <3> QED
        BY <1>1, <1>9, <3>1, <3>2, <3>3, <3>4 DEF PoolType
    <2>3. asked' \in [Workers -> SUBSET Ask]
      <3>1. [doc |-> next + 1, file |-> path] \in Ask
        BY <1>2 DEF Ask
      <3> QED
        BY <1>1, <1>9, <3>1 DEF Open, PipeType
    <2> QED
      BY <1>3, <1>6, <2>2, <2>3
  <1> QED
    BY <1>7, <1>8, <1>9

LEMMA TypeHinted == ASSUME TypeOK, Hinted PROVE TypeOK'
  <1>1. FlagType /\ DiskType /\ ManagerType /\ PoolType /\ PipeType
    BY Zenon, TypeParts
  <1>2. FlagType'
    BY Zenon, <1>1 DEF FlagType, Hinted, diskVars, pumpVars
  <1>3. DiskType'
    BY Zenon, <1>1 DEF DiskType, Hinted, diskVars
  <1>4. ManagerType'
    BY <1>1, PhaseTypes DEF ManagerType, Hinted, appVars
  <1>5. PoolType' /\ PipeType'
    BY Zenon, <1>1, SamePoolType, SamePipe DEF Hinted
  <1> QED
    BY <1>2, <1>3, <1>4, <1>5, TypeStep

LEMMA TypeQuiet == ASSUME TypeOK, Quiet PROVE TypeOK'
  <1>1. FlagType /\ DiskType /\ ManagerType /\ PoolType /\ PipeType
    BY Zenon, TypeParts
  <1>2. FlagType'
    BY Zenon, <1>1, SameFlags DEF Quiet, diskVars, watchVars, pumpVars
  <1>3. DiskType'
    BY <1>1, SameDisk DEF Quiet
  <1>4. path \in Files \cup {NoFile}
    BY <1>1 DEF ManagerType
  <1>5. ManagerType'
    BY <1>1, <1>4, StampType, PhaseTypes DEF ManagerType, Quiet, appVars
  <1>6. PoolType' /\ PipeType'
    BY Zenon, <1>1, SamePoolType, SamePipe DEF Quiet
  <1> QED
    BY <1>2, <1>3, <1>5, <1>6, TypeStep

LEMMA TypeSettle == ASSUME TypeOK, Settle PROVE TypeOK'
  <1>1. FlagType /\ DiskType /\ ManagerType /\ PoolType /\ PipeType
    BY Zenon, TypeParts
  <1>2. UNCHANGED <<diskVars, watchVars, answers, faults, pumpVars>>
    BY Zenon DEF Settle
  <1>3. DiskType'
    BY <1>1, <1>2, SameDisk
  <1>4. Stamp(path) \in Nat
    BY <1>1, StampType DEF ManagerType
  <1>5. CASE /\ phase' \in {Backoff(1), Stabilising(Stamp(path))}
             /\ UNCHANGED <<active, next, failing, wanted, appVars, poolVars, asked>>
    <2>1. ManagerType'
      BY <1>1, <1>4, <1>5, PhaseTypes DEF ManagerType, appVars
    <2>2. PoolType'
      BY <1>1, <1>5, SamePoolType
    <2>3. PipeType'
      BY <1>1, <1>2, <1>5 DEF PipeType, pumpVars
    <2>4. FlagType'
      BY Zenon, <1>1, <1>2, <1>5, SameFlags DEF diskVars, watchVars, pumpVars
    <2> QED
      BY <1>3, <2>1, <2>2, <2>3, <2>4, TypeStep
  <1>6. CASE OpenCandidate(1)
    <2>1. /\ ManagerType' /\ PoolType' /\ failing' \in BOOLEAN
          /\ asked' \in [Workers -> SUBSET Ask]
      BY <1>4, <1>6, TypeOpenCandidate
    <2>2. PipeType'
      BY <1>1, <1>2, <2>1 DEF PipeType, pumpVars
    <2>3. FlagType'
      BY Zenon, <1>1, <1>2, <2>1 DEF FlagType, diskVars, watchVars, pumpVars
    <2> QED
      BY <1>3, <2>1, <2>2, <2>3, TypeStep
  <1>7. \/ /\ phase' \in {Backoff(1), Stabilising(Stamp(path))}
           /\ UNCHANGED <<active, next, failing, wanted, appVars, poolVars, asked>>
        \/ OpenCandidate(1)
    BY Zenon DEF Settle
  <1> QED
    BY <1>5, <1>6, <1>7

LEMMA TypeRetry == ASSUME TypeOK, Retry PROVE TypeOK'
  <1>1. FlagType /\ DiskType /\ ManagerType /\ PipeType
    BY Zenon, TypeParts
  <1>2. UNCHANGED <<diskVars, watchVars, answers, faults, pumpVars>>
    BY Zenon DEF Retry
  <1>3. phase.attempt + 1 \in Nat
    BY <1>1, <1>2 DEF ManagerType, PhaseType
  <1>4. /\ ManagerType' /\ PoolType' /\ failing' \in BOOLEAN
        /\ asked' \in [Workers -> SUBSET Ask]
    BY <1>3, TypeOpenCandidate DEF Retry
  <1>5. DiskType'
    BY <1>1, <1>2, SameDisk
  <1>6. PipeType'
    BY <1>1, <1>2, <1>4 DEF PipeType, pumpVars
  <1>7. FlagType'
    BY Zenon, <1>1, <1>2, <1>4 DEF FlagType, diskVars, watchVars, pumpVars
  <1> QED
    BY <1>4, <1>5, <1>6, <1>7, TypeStep

LEMMA TypeOpenDocument == ASSUME TypeOK, NEW f \in Files, OpenDocument(f) PROVE TypeOK'
  <1>1. FlagType /\ DiskType /\ ManagerType /\ PoolType /\ PipeType
    BY Zenon, TypeParts
  <1>2. FlagType'
    BY Zenon, <1>1 DEF FlagType, OpenDocument, pumpVars
  <1>3. DiskType'
    BY Zenon, <1>1 DEF DiskType, OpenDocument
  <1>4. Initial(f) \in PhaseType
    BY InitialPhase
  <1>5. opens' \in 0..MaxOpens
    BY <1>1, ReloadAssumption DEF ManagerType, OpenDocument
  <1>6. ManagerType'
    BY <1>1, <1>4, <1>5 DEF ManagerType, OpenDocument
  <1>7. PoolType' /\ PipeType'
    BY Zenon, <1>1, SamePoolType, SamePipe DEF OpenDocument
  <1> QED
    BY <1>2, <1>3, <1>6, <1>7, TypeStep

LEMMA TypeReload == ASSUME TypeOK, ReloadDocument PROVE TypeOK'
  <1>1. FlagType /\ DiskType /\ ManagerType /\ PoolType /\ PipeType
    BY Zenon, TypeParts
  <1>2. FlagType'
    BY Zenon, <1>1 DEF FlagType, ReloadDocument, diskVars, pumpVars
  <1>3. DiskType'
    BY Zenon, <1>1 DEF DiskType, ReloadDocument, diskVars
  <1>4. Initial(path) \in PhaseType
    BY <1>1, InitialPhase DEF ManagerType
  <1>5. opens' \in 0..MaxOpens
    BY <1>1, ReloadAssumption DEF ManagerType, ReloadDocument
  <1>6. ManagerType'
    BY <1>1, <1>4, <1>5 DEF ManagerType, ReloadDocument
  <1>7. PoolType' /\ PipeType'
    BY Zenon, <1>1, SamePoolType, SamePipe DEF ReloadDocument
  <1> QED
    BY <1>2, <1>3, <1>6, <1>7, TypeStep

LEMMA TypeCloseDocument == ASSUME TypeOK, CloseDocument PROVE TypeOK'
  <1>1. FlagType /\ DiskType /\ ManagerType /\ PoolType /\ PipeType
    BY Zenon, TypeParts
  <1>2. FlagType'
    BY Zenon, <1>1 DEF FlagType, CloseDocument, pumpVars
  <1>3. DiskType'
    BY Zenon, <1>1 DEF DiskType, CloseDocument
  <1>4. opens' \in 0..MaxOpens
    BY <1>1, ReloadAssumption DEF ManagerType, CloseDocument
  <1>5. ManagerType'
    BY <1>1, <1>4, PhaseTypes DEF ManagerType, CloseDocument, Nothing
  <1>6. PoolType'
    BY <1>1, ClosedType DEF CloseDocument
  <1>7. PipeType'
    BY Zenon, <1>1, SamePipe DEF CloseDocument
  <1> QED
    BY <1>2, <1>3, <1>5, <1>6, <1>7, TypeStep

-----------------------------------------------------------------------------
(* Types: the world. *)

LEMMA TypeWrite ==
  ASSUME TypeOK, NEW f \in Files, NEW content \in Contents, Write(f, content) PROVE TypeOK'
  <1>1. FlagType /\ DiskType /\ ManagerType /\ PoolType /\ PipeType
    BY Zenon, TypeParts
  <1>2. FlagType'
    <2>1. /\ coming' = (coming \/ (f = path /\ watch \in {"made", "on"}))
          /\ unseen' = (unseen \/ (f = path /\ watch \in {"none", "asked"}))
          /\ UNCHANGED <<hint, failing, handling>>
      BY Zenon DEF Write, managerVars, pumpVars
    <2> QED
      BY Zenon, <1>1, <2>1 DEF FlagType
  <1>3. file' \in [Files -> [version : Nat \ {0}, content : {"good", "bad", "empty", "gone"}]]
    BY <1>1, ReloadAssumption DEF DiskType, Write
  <1>4. writes' \in 0..MaxWrites
    BY <1>1, ReloadAssumption DEF DiskType, Write
  <1>5. DiskType'
    BY <1>1, <1>3, <1>4 DEF DiskType, Write
  <1>6. ManagerType' /\ PoolType' /\ PipeType'
    BY Zenon, <1>1, SameManager, SamePoolType, SamePipe DEF Write
  <1> QED
    BY <1>2, <1>5, <1>6, TypeStep

LEMMA TypeNotice == ASSUME TypeOK, Notice PROVE TypeOK'
  <1>1. FlagType /\ DiskType /\ ManagerType /\ PoolType /\ PipeType
    BY Zenon, TypeParts
  <1>2. FlagType' /\ DiskType'
    BY Zenon, <1>1 DEF FlagType, DiskType, Notice, managerVars, pumpVars
  <1>3. ManagerType' /\ PoolType' /\ PipeType'
    BY Zenon, <1>1, SameManager, SamePoolType, SamePipe DEF Notice
  <1> QED
    BY <1>2, <1>3, TypeStep

LEMMA TypeMakeWatcher == ASSUME TypeOK, MakeWatcher PROVE TypeOK'
  <1>1. FlagType /\ DiskType /\ ManagerType /\ PoolType /\ PipeType
    BY Zenon, TypeParts
  <1>2. FlagType'
    BY Zenon, <1>1, SameFlags DEF MakeWatcher, diskVars, managerVars, pumpVars
  <1>3. DiskType'
    BY <1>1 DEF DiskType, MakeWatcher, diskVars
  <1>4. faults' \in 0..MaxFaults
    BY <1>1, ReloadAssumption DEF PipeType, MakeWatcher
  <1>5. PipeType'
    BY <1>1, <1>4 DEF PipeType, MakeWatcher, pumpVars
  <1>6. ManagerType' /\ PoolType'
    BY Zenon, <1>1, SameManager, SamePoolType DEF MakeWatcher
  <1> QED
    BY <1>2, <1>3, <1>5, <1>6, TypeStep

LEMMA TypePrepared == ASSUME TypeOK, Prepared PROVE TypeOK'
  <1>1. FlagType /\ DiskType /\ ManagerType /\ PoolType /\ PipeType
    BY Zenon, TypeParts
  <1>2. FlagType'
    BY Zenon, <1>1, SameFlags DEF Prepared, diskVars, managerVars, pumpVars
  <1>3. DiskType'
    BY <1>1 DEF DiskType, Prepared, diskVars
  <1>4. ManagerType' /\ PoolType' /\ PipeType'
    BY Zenon, <1>1, SameManager, SamePoolType, SamePipe DEF Prepared
  <1> QED
    BY <1>2, <1>3, <1>4, TypeStep

LEMMA TypeStutter == ASSUME TypeOK, UNCHANGED vars PROVE TypeOK'
  <1>1. FlagType /\ DiskType /\ ManagerType /\ PoolType /\ PipeType
    BY Zenon, TypeParts
  <1>2. FlagType'
    BY Zenon, <1>1, SameFlags DEF vars, diskVars, managerVars, watchVars, pumpVars
  <1>3. DiskType' /\ ManagerType' /\ PoolType' /\ PipeType'
    BY Zenon, <1>1, SameDisk, SameManager, SamePoolType, SamePipe DEF vars
  <1> QED
    BY <1>2, <1>3, TypeStep

LEMMA TypeNext == ASSUME TypeOK, [Next]_vars PROVE TypeOK'
  BY Zenon, TypeOpenDocument, TypeReload, TypeCloseDocument, TypeWrite, TypeRespawn,
     TypeNotice, TypeMakeWatcher, TypePrepared, TypeWorkerOpens, TypeDrain, TypeHandle,
     TypeHinted, TypeQuiet, TypeSettle, TypeRetry, TypeStutter
  DEF Next, User, World, Tick

(* The types, for every run of the program. *)
THEOREM TypeCorrect == Spec => []TypeOK
  <1>1. Init => TypeOK
    BY TypeInit
  <1>2. TypeOK /\ [Next]_vars => TypeOK'
    BY TypeNext
  <1> QED
    BY <1>1, <1>2, PTL DEF Spec

-----------------------------------------------------------------------------
(* The document on screen: never closed under the audience nor taken for    *)
(* another file.                                                            *)

(* The inductive invariant. *)

(* Ids are given in order, and each message about a document is numbered    *)
(* with one that was given.                                                 *)
Numbered ==
  /\ \A d \in DOMAIN documents \cup reported : d <= next
  /\ \A w \in Workers : \A ask \in asked[w] : ask.doc <= next
  /\ \A w \in Workers : \A i \in DOMAIN answers[w] : answers[w][i].doc <= next

(* A message about a document that is open names the file it was opened on. *)
SameFile(m) == m.doc \in DOMAIN documents => m.file = documents[m.doc]
OneFile ==
  /\ \A w \in Workers : \A ask \in asked[w] : SameFile(ask)
  /\ \A w \in Workers : \A i \in DOMAIN answers[w] : SameFile(answers[w][i])
  /\ \A i \in DOMAIN events : SameFile(events[i])

(* An event is the one answer about its document, and never about the       *)
(* document on screen.                                                      *)
EventsOnce ==
  /\ \A i \in DOMAIN events : events[i].doc \in reported /\ events[i].doc # shown.doc
  /\ \A i, j \in DOMAIN events : events[i].doc = events[j].doc => i = j

(* What the manager counts as active, and what is to be retired, is what is *)
(* on screen, and that was reported.                                        *)
ScreenKnown ==
  /\ active \in {0, shown.doc} /\ retired \in {0, shown.doc}
  /\ shown.doc # 0 => shown.doc \in reported

(* The candidate being opened is open, on the manager's path. *)
CandidateHeld ==
  phase.at = "opening" => /\ phase.doc \in DOMAIN documents
                          /\ documents[phase.doc] = path

ScreenInv == Numbered /\ OneFile /\ EventsOnce /\ ScreenKnown /\ CandidateHeld
             /\ ScreenHeld /\ RightFile

HeldInv == TypeOK /\ ScreenInv

-----------------------------------------------------------------------------
(* Steps that leave what is open, what was said and what is shown alone. *)

LEMMA SameScreen ==
  ASSUME ScreenInv,
         UNCHANGED <<documents, reported, asked, answers, events, shown, next>>,
         active' \in {0, active}, retired' \in {0, shown.doc},
         phase'.at # "opening" \/ (phase' = phase /\ path' = path),
         active' # 0 => path' = path
  PROVE  ScreenInv'
  <1>1. Numbered'
    BY DEF ScreenInv, Numbered
  <1>2. OneFile'
    BY DEF ScreenInv, OneFile, SameFile
  <1>3. EventsOnce'
    BY DEF ScreenInv, EventsOnce
  <1>4. ScreenKnown'
    BY DEF ScreenInv, ScreenKnown
  <1>5. CandidateHeld'
    BY DEF ScreenInv, CandidateHeld
  <1>6. ScreenHeld' /\ RightFile'
    BY DEF ScreenInv, ScreenHeld, RightFile
  <1> QED
    BY <1>1, <1>2, <1>3, <1>4, <1>5, <1>6 DEF ScreenInv

LEMMA ScreenInit == Init => ScreenInv
  <1> SUFFICES ASSUME Init PROVE ScreenInv
    OBVIOUS
  <1>1. DOMAIN documents = {} /\ reported = {} /\ DOMAIN events = {}
    BY DEF Init
  <1>2. shown.doc = 0 /\ phase.at = "idle"
    BY PhaseNames DEF Init, Nothing
  <1>3. \A w \in Workers : asked[w] = {} /\ DOMAIN answers[w] = {}
    BY DEF Init
  <1>4. active = 0 /\ retired = 0
    BY DEF Init
  <1>5. Numbered /\ OneFile
    BY <1>1, <1>3 DEF Numbered, OneFile
  <1>6. EventsOnce /\ ScreenKnown /\ CandidateHeld
    BY <1>1, <1>2, <1>4 DEF EventsOnce, ScreenKnown, CandidateHeld
  <1>7. ScreenHeld /\ RightFile
    BY <1>2, <1>4 DEF ScreenHeld, RightFile
  <1> QED
    BY <1>5, <1>6, <1>7 DEF ScreenInv

LEMMA ScreenPhaseOnly ==
  ASSUME ScreenInv, phase'.at # "opening", UNCHANGED <<appVars, poolVars, pipeVars, pumpVars>>,
         UNCHANGED <<active, next>>
  PROVE  ScreenInv'
  <1>1. UNCHANGED <<documents, reported, asked, answers, events, shown, next, path, retired>>
    BY DEF appVars, poolVars, pipeVars, pumpVars
  <1>2. retired' \in {0, shown.doc}
    BY <1>1 DEF ScreenInv, ScreenKnown
  <1> QED
    BY <1>1, <1>2, SameScreen

LEMMA ScreenManagerSame ==
  ASSUME ScreenInv, UNCHANGED <<managerVars, appVars>>,
         UNCHANGED <<documents, reported, asked, answers, events>>
  PROVE  ScreenInv'
  <1>1. UNCHANGED <<shown, next, path, retired, active, phase>>
    BY DEF appVars, managerVars
  <1>2. retired' \in {0, shown.doc}
    BY <1>1 DEF ScreenInv, ScreenKnown
  <1> QED
    BY <1>1, <1>2, SameScreen

LEMMA ScreenHinted == ASSUME ScreenInv, Hinted PROVE ScreenInv'
  <1>1. phase'.at # "opening"
    BY PhaseNames DEF Hinted
  <1> QED
    BY <1>1, ScreenPhaseOnly DEF Hinted

LEMMA ScreenQuiet == ASSUME ScreenInv, Quiet PROVE ScreenInv'
  <1>1. phase'.at # "opening"
    BY PhaseNames DEF Quiet
  <1> QED
    BY <1>1, ScreenPhaseOnly DEF Quiet

LEMMA ScreenReload == ASSUME HeldInv, ReloadDocument PROVE ScreenInv'
  <1>1. phase'.at # "opening"
    BY InitialPhase DEF ReloadDocument, HeldInv, TypeOK
  <1>2. UNCHANGED <<documents, reported, asked, answers, events, shown, next, active, path,
                    retired>>
    BY DEF ReloadDocument, poolVars, pipeVars, pumpVars
  <1>3. retired' \in {0, shown.doc}
    BY <1>2 DEF HeldInv, ScreenInv, ScreenKnown
  <1> QED
    BY <1>1, <1>2, <1>3, SameScreen DEF HeldInv

LEMMA ScreenOpenDocument ==
  ASSUME HeldInv, NEW f \in Files, OpenDocument(f) PROVE ScreenInv'
  <1>1. phase'.at # "opening"
    BY InitialPhase DEF OpenDocument, HeldInv
  <1>2. /\ UNCHANGED <<documents, reported, asked, answers, events, shown, next>>
        /\ active' = 0 /\ retired' = active
    BY DEF OpenDocument, poolVars, pipeVars, pumpVars
  <1>3. retired' \in {0, shown.doc}
    BY <1>2 DEF HeldInv, ScreenInv, ScreenKnown
  <1> QED
    BY <1>1, <1>2, <1>3, SameScreen DEF HeldInv

-----------------------------------------------------------------------------
(* Steps of the pool. *)

LEMMA ScreenWorkerOpens ==
  ASSUME HeldInv, NEW w \in Workers, WorkerOpens(w) PROVE ScreenInv'
  <1>1. PICK ask \in asked[w] :
          /\ asked' = [asked EXCEPT ![w] = @ \ {ask}]
          /\ \E a : /\ a.doc = ask.doc /\ a.file = ask.file
                   /\ answers' = [answers EXCEPT ![w] = Append(@, a)]
    BY DEF WorkerOpens
  <1>2. PICK a : /\ a.doc = ask.doc /\ a.file = ask.file
                 /\ answers' = [answers EXCEPT ![w] = Append(@, a)]
    BY <1>1
  <1>3. UNCHANGED <<documents, reported, events, shown, next, active, retired, path, phase>>
    BY DEF WorkerOpens, managerVars, appVars, pumpVars
  <1>4. asked \in [Workers -> SUBSET Ask] /\ answers \in [Workers -> Seq(Answer)]
    BY DEF HeldInv, TypeOK
  <1>5. ASSUME NEW v \in Workers, NEW i \in DOMAIN answers'[v]
        PROVE  answers'[v][i] = a \/ (i \in DOMAIN answers[v] /\ answers'[v][i] = answers[v][i])
    BY <1>2, <1>4
  <1>6. ASSUME NEW v \in Workers PROVE asked'[v] \subseteq asked[v]
    BY <1>1, <1>4
  <1>7. ask.doc <= next /\ (ask.doc \in DOMAIN documents => ask.file = documents[ask.doc])
    BY DEF HeldInv, ScreenInv, Numbered, OneFile, SameFile
  <1>8. Numbered'
    BY <1>2, <1>3, <1>5, <1>6, <1>7 DEF HeldInv, ScreenInv, Numbered
  <1>9. OneFile'
    BY <1>2, <1>3, <1>5, <1>6, <1>7 DEF HeldInv, ScreenInv, OneFile, SameFile
  <1>10. (EventsOnce /\ ScreenKnown /\ CandidateHeld /\ ScreenHeld /\ RightFile)'
    BY <1>3 DEF HeldInv, ScreenInv, EventsOnce, ScreenKnown, CandidateHeld, ScreenHeld, RightFile
  <1> QED
    BY <1>8, <1>9, <1>10 DEF ScreenInv

LEMMA ScreenRespawn ==
  ASSUME HeldInv, NEW w \in Workers, Respawn(w) PROVE ScreenInv'
  <1>1. UNCHANGED <<documents, reported, events, shown, next, active, retired, path, phase>>
    BY DEF Respawn, managerVars, appVars, pumpVars
  <1>2. asked \in [Workers -> SUBSET Ask] /\ answers \in [Workers -> Seq(Answer)]
    BY DEF HeldInv, TypeOK
  <1>3. /\ asked' = [asked EXCEPT ![w] = {[doc |-> d, file |-> documents[d]] : d \in DOMAIN documents}]
        /\ answers' = [answers EXCEPT ![w] = <<>>]
    BY DEF Respawn, Replaced
  <1>4. ASSUME NEW v \in Workers, NEW ask \in asked'[v]
        PROVE  ask \in asked[v] \/ (ask.doc \in DOMAIN documents /\ ask.file = documents[ask.doc])
    BY <1>2, <1>3
  <1>5. ASSUME NEW v \in Workers, NEW i \in DOMAIN answers'[v]
        PROVE  i \in DOMAIN answers[v] /\ answers'[v][i] = answers[v][i]
    BY <1>2, <1>3
  <1>6. Numbered'
    BY <1>1, <1>4, <1>5 DEF HeldInv, ScreenInv, Numbered
  <1>7. OneFile'
    BY <1>1, <1>4, <1>5 DEF HeldInv, ScreenInv, OneFile, SameFile
  <1>8. (EventsOnce /\ ScreenKnown /\ CandidateHeld /\ ScreenHeld /\ RightFile)'
    BY <1>1 DEF HeldInv, ScreenInv, EventsOnce, ScreenKnown, CandidateHeld, ScreenHeld, RightFile
  <1> QED
    BY <1>6, <1>7, <1>8 DEF ScreenInv

LEMMA ScreenDrain == ASSUME HeldInv, NEW w \in Workers, Drain(w) PROVE ScreenInv'
  <1> DEFINE a == Head(answers[w])
  <1>1. a \in Answer /\ Tail(answers[w]) \in Seq(Answer)
    BY FirstAnswer DEF Drain, HeldInv
  <1>2. answers \in [Workers -> Seq(Answer)] /\ events \in Seq(Answer) /\ answers[w] # <<>>
    BY DEF HeldInv, TypeOK, Drain
  <1>3. UNCHANGED <<documents, asked, shown, next, active, retired, path, phase>>
    BY DEF Drain, managerVars, appVars
  <1>4. /\ answers' = [answers EXCEPT ![w] = Tail(@)]
        /\ \/ reported' = reported /\ events' = events
           \/ /\ a.doc \notin reported
              /\ reported' = reported \cup {a.doc} /\ events' = Append(events, a)
    BY Zenon DEF Drain
  <1>5. ASSUME NEW v \in Workers, NEW i \in DOMAIN answers'[v]
        PROVE  \E j \in DOMAIN answers[v] : answers'[v][i] = answers[v][j]
    <2>1. CASE v # w
      BY <1>2, <1>4, <2>1
    <2>2. CASE v = w
      <3>1. answers'[v] = Tail(answers[w])
        BY <1>2, <1>4, <2>2
      <3>2. i + 1 \in DOMAIN answers[w] /\ Tail(answers[w])[i] = answers[w][i + 1]
        BY <1>2, <3>1
      <3> QED
        BY <2>2, <3>1, <3>2
    <2> QED
      BY <2>1, <2>2
  <1>6. \E j \in DOMAIN answers[w] : a = answers[w][j]
    BY <1>2
  <1>7. a.doc <= next /\ SameFile(a) /\ a.doc # 0
    BY <1>1, <1>6 DEF HeldInv, ScreenInv, Numbered, OneFile, Answer
  <1> HIDE DEF a
  <1>8. Numbered'
    BY <1>3, <1>4, <1>5, <1>7 DEF HeldInv, ScreenInv, Numbered
  <1>9. OneFile'
    <2>1. ASSUME NEW i \in DOMAIN events' PROVE SameFile(events'[i])
      <3>1. events'[i] = a \/ (i \in DOMAIN events /\ events'[i] = events[i])
        <4>1. CASE events' = events
          BY <4>1
        <4>2. CASE events' = Append(events, a)
          BY <1>1, <1>2, <4>2
        <4> QED
          BY <1>4, <4>1, <4>2
      <3>2. \A j \in DOMAIN events : SameFile(events[j])
        BY DEF HeldInv, ScreenInv, OneFile
      <3> QED
        BY <1>7, <3>1, <3>2
    <2> QED
      BY <1>3, <1>5, <2>1 DEF HeldInv, ScreenInv, OneFile, SameFile
  <1>10. EventsOnce'
    <2>1. CASE reported' = reported /\ events' = events
      BY <1>3, <2>1 DEF HeldInv, ScreenInv, EventsOnce
    <2>2. CASE /\ a.doc \notin reported
               /\ reported' = reported \cup {a.doc} /\ events' = Append(events, a)
      <3>1. a.doc # shown.doc
        BY <1>7, <2>2 DEF HeldInv, ScreenInv, ScreenKnown
      <3>2. ASSUME NEW i \in DOMAIN events'
            PROVE  \/ i \in DOMAIN events /\ events'[i] = events[i]
                   \/ i = Len(events) + 1 /\ events'[i] = a
        BY <1>1, <1>2, <2>2
      <3>3. \A i \in DOMAIN events : events[i].doc \in reported
        BY DEF HeldInv, ScreenInv, EventsOnce
      <3>4. \A i, j \in DOMAIN events : events[i].doc = events[j].doc => i = j
        BY DEF HeldInv, ScreenInv, EventsOnce
      <3>5. \A i \in DOMAIN events' : events'[i].doc \in reported' /\ events'[i].doc # shown'.doc
        BY <1>3, <2>2, <3>1, <3>2 DEF HeldInv, ScreenInv, EventsOnce
      <3>6. \A i, j \in DOMAIN events' : events'[i].doc = events'[j].doc => i = j
        BY <2>2, <3>2, <3>3, <3>4
      <3> QED
        BY <3>5, <3>6 DEF EventsOnce
    <2> QED
      BY <1>4, <2>1, <2>2
  <1>11. (ScreenKnown /\ CandidateHeld /\ ScreenHeld /\ RightFile)'
    BY <1>3, <1>4 DEF HeldInv, ScreenInv, ScreenKnown, CandidateHeld, ScreenHeld, RightFile
  <1> QED
    BY <1>8, <1>9, <1>10, <1>11 DEF ScreenInv

-----------------------------------------------------------------------------
(* Steps that close documents. *)

(* Closing keeps what is numbered and what the messages name. *)
LEMMA ClosedMessages ==
  ASSUME ScreenInv, NEW S, Close(S), UNCHANGED <<asked, answers, next>>,
         \A i \in DOMAIN events' : \E j \in DOMAIN events : events'[i] = events[j]
  PROVE  Numbered' /\ OneFile'
  <1>1. /\ DOMAIN documents' \subseteq DOMAIN documents
        /\ \A d \in DOMAIN documents' : documents'[d] = documents[d]
        /\ reported' \subseteq reported
    BY Closed
  <1>2. Numbered'
    BY <1>1 DEF ScreenInv, Numbered
  <1>3. \A i \in DOMAIN events' : SameFile(events[i])'
    BY <1>1 DEF ScreenInv, OneFile, SameFile
  <1>4. OneFile'
    BY <1>1, <1>3 DEF ScreenInv, OneFile, SameFile
  <1> QED
    BY <1>2, <1>4

LEMMA ScreenCloseDocument == ASSUME HeldInv, CloseDocument PROVE ScreenInv'
  <1>1. Close({active}) /\ UNCHANGED <<asked, answers, next, events>> /\ events = <<>>
    BY DEF CloseDocument, AtRest, pipeVars, pumpVars
  <1>2. active' = 0 /\ retired' = 0 /\ shown'.doc = 0 /\ phase'.at = "idle"
    BY PhaseNames DEF CloseDocument, Nothing
  <1>3. Numbered' /\ OneFile'
    BY <1>1, ClosedMessages DEF HeldInv
  <1>4. (EventsOnce /\ ScreenKnown /\ CandidateHeld)'
    BY <1>1, <1>2 DEF EventsOnce, ScreenKnown, CandidateHeld
  <1>5. ScreenHeld' /\ RightFile'
    BY <1>2 DEF ScreenHeld, RightFile
  <1> QED
    BY <1>3, <1>4, <1>5 DEF ScreenInv

(* The events left once the first is handled are about other documents.     *)
LEMMA LaterEvents ==
  ASSUME HeldInv, Handle
  PROVE  /\ UNCHANGED <<asked, answers>>
         /\ \A i \in DOMAIN events' : \E j \in DOMAIN events : events'[i] = events[j]
         /\ \A i \in DOMAIN events' : events'[i].doc # Head(events).doc
         /\ \A i, j \in DOMAIN events' : events'[i].doc = events'[j].doc => i = j
         /\ Head(events) \in Answer /\ SameFile(Head(events))
         /\ Head(events).doc \in reported /\ Head(events).doc # shown.doc
  <1>1. events \in Seq(Answer) /\ events # <<>> /\ events' = Tail(events)
    BY DEF HeldInv, TypeOK, Handle
  <1>2. 1 \in DOMAIN events /\ Head(events) = events[1] /\ Head(events) \in Answer
    BY <1>1
  <1>3. ASSUME NEW i \in DOMAIN events'
        PROVE  i \in Nat \ {0} /\ i + 1 \in DOMAIN events /\ events'[i] = events[i + 1]
    BY <1>1
  <1>4. \A i, j \in DOMAIN events : events[i].doc = events[j].doc => i = j
    BY DEF HeldInv, ScreenInv, EventsOnce
  <1>5. ASSUME NEW i \in DOMAIN events' PROVE events'[i].doc # Head(events).doc
    <2>1. i + 1 # 1
      BY <1>3
    <2> QED
      BY <1>2, <1>3, <1>4, <2>1
  <1>6. ASSUME NEW i \in DOMAIN events', NEW j \in DOMAIN events',
               events'[i].doc = events'[j].doc
        PROVE  i = j
    <2>1. i + 1 = j + 1
      BY <1>3, <1>4, <1>6
    <2> QED
      BY <1>3, <2>1
  <1>7. SameFile(Head(events)) /\ Head(events).doc \in reported /\ Head(events).doc # shown.doc
    BY <1>2 DEF HeldInv, ScreenInv, OneFile, EventsOnce
  <1>8. UNCHANGED <<asked, answers>>
    BY DEF Handle, pipeVars
  <1> QED
    BY <1>2, <1>3, <1>5, <1>6, <1>7, <1>8

(* A candidate that is let go, for whatever reason. *)
LEMMA ScreenLetGo ==
  ASSUME HeldInv, Handle, Close({Head(events).doc}), UNCHANGED <<path, active, next, shown, retired>>,
         phase'.at # "opening" \/ (phase' = phase /\ (phase.at = "opening" => Head(events).doc # phase.doc))
  PROVE  ScreenInv'
  <1> DEFINE d == Head(events).doc
  <1>1. /\ DOMAIN documents' = DOMAIN documents \ {d}
        /\ \A e \in DOMAIN documents' : documents'[e] = documents[e]
        /\ reported' = reported \ {d}
    BY Closed
  <1>2. Numbered' /\ OneFile'
    BY LaterEvents, ClosedMessages DEF HeldInv
  <1>3. EventsOnce'
    <2>1. ASSUME NEW i \in DOMAIN events' PROVE events'[i].doc \in reported' /\ events'[i].doc # shown'.doc
      BY <1>1, LaterEvents DEF HeldInv, ScreenInv, EventsOnce
    <2> QED
      BY <2>1, LaterEvents DEF EventsOnce
  <1>4. d # shown.doc
    BY LaterEvents
  <1> HIDE DEF d
  <1>5. ScreenKnown' /\ ScreenHeld' /\ RightFile'
    BY <1>1, <1>4 DEF HeldInv, ScreenInv, ScreenKnown, ScreenHeld, RightFile
  <1>6. CandidateHeld'
    BY <1>1 DEF HeldInv, ScreenInv, CandidateHeld, d
  <1> QED
    BY <1>2, <1>3, <1>5, <1>6 DEF ScreenInv

LEMMA ScreenPromote ==
  ASSUME HeldInv, Handle, Promote(Head(events)), phase.at = "opening",
         Head(events).doc = phase.doc
  PROVE  ScreenInv'
  <1> DEFINE e == Head(events)
             S == {retired, active} \ {e.doc}
  <1>1. /\ DOMAIN documents' = DOMAIN documents \ S
        /\ \A d \in DOMAIN documents' : documents'[d] = documents[d]
        /\ reported' = reported \ S
    BY Closed DEF Promote
  <1>2. /\ phase'.at = "idle" /\ active' = e.doc /\ retired' = 0
        /\ shown'.doc = e.doc /\ shown'.file = e.file
        /\ UNCHANGED <<next, path>>
    BY PhaseNames DEF Promote
  <1>3. S \subseteq {0, shown.doc}
    BY DEF HeldInv, ScreenInv, ScreenKnown
  <1>4. e.doc \in DOMAIN documents /\ documents[e.doc] = path /\ e.file = path
    BY LaterEvents DEF HeldInv, ScreenInv, CandidateHeld, SameFile
  <1>5. e.doc \in reported /\ e.doc \notin S
    BY LaterEvents
  <1>6. Numbered' /\ OneFile'
    BY <1>2, LaterEvents, ClosedMessages DEF HeldInv, Promote
  <1>7. EventsOnce'
    <2>1. ASSUME NEW i \in DOMAIN events'
          PROVE  events'[i].doc \in reported' /\ events'[i].doc # shown'.doc
      <3>1. PICK j \in DOMAIN events : events'[i] = events[j]
        BY LaterEvents
      <3>2. events[j].doc \in reported /\ events[j].doc # shown.doc
        BY DEF HeldInv, ScreenInv, EventsOnce
      <3>3. events[j].doc # 0
        <4>1. events \in Seq(Answer)
          BY DEF HeldInv, TypeOK
        <4>2. events[j] \in Answer
          BY <4>1
        <4> QED
          BY <4>2 DEF Answer
      <3> QED
        BY <1>1, <1>2, <1>3, <3>1, <3>2, <3>3, LaterEvents
    <2> QED
      BY <2>1, LaterEvents DEF EventsOnce
  <1> HIDE DEF e, S
  <1>8. ScreenKnown' /\ CandidateHeld' /\ ScreenHeld' /\ RightFile'
    BY <1>1, <1>2, <1>4, <1>5 DEF ScreenKnown, CandidateHeld, ScreenHeld, RightFile
  <1> QED
    BY <1>6, <1>7, <1>8 DEF ScreenInv

LEMMA ScreenSaid ==
  ASSUME HeldInv, Handle, UNCHANGED <<managerVars, appVars, poolVars>> PROVE ScreenInv'
  <1>1. UNCHANGED <<documents, reported, shown, next, active, retired, path, phase, asked, answers>>
    BY LaterEvents DEF managerVars, appVars, poolVars
  <1>2. Numbered'
    BY <1>1 DEF HeldInv, ScreenInv, Numbered
  <1>3. OneFile'
    BY <1>1, LaterEvents DEF HeldInv, ScreenInv, OneFile, SameFile
  <1>4. EventsOnce'
    BY <1>1, LaterEvents DEF HeldInv, ScreenInv, EventsOnce
  <1>5. (ScreenKnown /\ CandidateHeld /\ ScreenHeld /\ RightFile)'
    BY <1>1 DEF HeldInv, ScreenInv, ScreenKnown, CandidateHeld, ScreenHeld, RightFile
  <1> QED
    BY <1>2, <1>3, <1>4, <1>5 DEF ScreenInv

LEMMA ScreenHandle == ASSUME HeldInv, Handle PROVE ScreenInv'
  <1> DEFINE e == Head(events)
  <1>1. CASE CandidateFailed(e.doc)
    <2>1. phase'.at # "opening"
      BY <1>1, PhaseNames DEF CandidateFailed
    <2> QED
      BY <1>1, <2>1, ScreenLetGo DEF CandidateFailed
  <1>2. CASE Discard(e.doc) /\ (phase.at = "opening" => e.doc # phase.doc)
    BY <1>2, ScreenLetGo DEF Discard, managerVars
  <1>3. CASE Promote(e) /\ phase.at = "opening" /\ e.doc = phase.doc
    BY <1>3, ScreenPromote
  <1>4. CASE UNCHANGED <<managerVars, appVars, poolVars>>
    BY <1>4, ScreenSaid
  <1> QED
    BY <1>1, <1>2, <1>3, <1>4, Handled

-----------------------------------------------------------------------------
(* A new candidate. *)

LEMMA ScreenOpenCandidate ==
  ASSUME HeldInv, NEW attempt \in Nat, OpenCandidate(attempt), UNCHANGED <<answers, events>>
  PROVE  ScreenInv'
  <1> DEFINE d == next + 1
  <1>0. next \in Nat /\ d \in Nat /\ d > next
    BY DEF HeldInv, TypeOK
  <1>1. next' = d /\ UNCHANGED <<active, path, shown, retired>>
    BY DEF OpenCandidate
  <1>2. d \notin reported /\ d \notin DOMAIN documents
    BY <1>0 DEF HeldInv, ScreenInv, Numbered, TypeOK
  <1>3. /\ \A n \in DOMAIN documents \cup reported : n \in Nat
        /\ \A w \in Workers : \A ask \in asked[w] : ask.doc \in Nat
        /\ \A w \in Workers : \A i \in DOMAIN answers[w] : answers[w][i].doc \in Nat
    <2>1. /\ asked \in [Workers -> SUBSET Ask] /\ answers \in [Workers -> Seq(Answer)]
          /\ DOMAIN documents \subseteq Nat /\ reported \subseteq Nat
      BY DEF HeldInv, TypeOK
    <2>2. ASSUME NEW w \in Workers, NEW i \in DOMAIN answers[w] PROVE answers[w][i].doc \in Nat
      <3>1. answers[w][i] \in Answer
        BY <2>1
      <3> QED
        BY <3>1 DEF Answer
    <2>3. ASSUME NEW w \in Workers, NEW ask \in asked[w] PROVE ask.doc \in Nat
      <3>1. ask \in Ask
        BY <2>1
      <3> QED
        BY <3>1 DEF Ask
    <2> QED
      BY <2>1, <2>2, <2>3
  <1>4. \/ Open(d) /\ phase' = Opening(d, attempt)
        \/ Close({d}) /\ phase' = Backoff(attempt) /\ asked' = asked
    BY Zenon DEF OpenCandidate
  <1>5. CASE Close({d}) /\ phase' = Backoff(attempt) /\ asked' = asked
    <2>1. DOMAIN documents' = DOMAIN documents /\ reported' = reported
      <3>1. DOMAIN documents' = DOMAIN documents \ {d} /\ reported' = reported \ {d}
        BY <1>5, Closed
      <3> QED
        BY <1>2, <3>1
    <2>2. \A x \in DOMAIN documents : documents'[x] = documents[x]
      BY <1>5, <2>1, Closed
    <2>3. phase'.at # "opening"
      BY <1>5, PhaseNames
    <2>4. Numbered'
      BY <1>0, <1>1, <1>3, <1>5, <2>1 DEF HeldInv, ScreenInv, Numbered
    <2>5. OneFile'
      BY <1>5, <2>1, <2>2 DEF HeldInv, ScreenInv, OneFile, SameFile
    <2>6. (EventsOnce /\ ScreenKnown /\ CandidateHeld /\ ScreenHeld /\ RightFile)'
      BY <1>1, <2>1, <2>2, <2>3
      DEF HeldInv, ScreenInv, EventsOnce, ScreenKnown, CandidateHeld, ScreenHeld, RightFile
    <2> QED
      BY <2>4, <2>5, <2>6 DEF ScreenInv
  <1>6. CASE Open(d) /\ phase' = Opening(d, attempt)
    <2>1. /\ DOMAIN documents' = DOMAIN documents \cup {d} /\ documents'[d] = path
          /\ \A x \in DOMAIN documents : documents'[x] = documents[x]
      BY <1>2, <1>6 DEF Open
    <2>2. reported' = reported
      BY <1>2, <1>6 DEF Open
    <2>3. ASSUME NEW w \in Workers, NEW ask \in asked'[w]
          PROVE  ask \in asked[w] \/ (ask.doc = d /\ ask.file = path)
      BY <1>6 DEF Open
    <2>4. phase'.at = "opening" /\ phase'.doc = d
      BY <1>6, PhaseNames
    <2>5. Numbered'
      BY <1>0, <1>1, <1>3, <2>1, <2>2, <2>3 DEF HeldInv, ScreenInv, Numbered
    <2>6. OneFile'
      <3>1. ASSUME NEW w \in Workers, NEW ask \in asked'[w] PROVE SameFile(ask)'
        <4>1. CASE ask.doc = d /\ ask.file = path
          BY <2>1, <4>1 DEF SameFile
        <4>2. CASE ask \in asked[w]
          <5>1. ask.doc # d
            BY <1>0, <4>2 DEF HeldInv, ScreenInv, Numbered
          <5> QED
            BY <2>1, <4>2, <5>1 DEF HeldInv, ScreenInv, OneFile, SameFile
        <4> QED
          BY <2>3, <4>1, <4>2
      <3>2. ASSUME NEW w \in Workers, NEW i \in DOMAIN answers[w] PROVE SameFile(answers[w][i])'
        <4>1. answers[w][i].doc # d
          BY <1>0, <1>3 DEF HeldInv, ScreenInv, Numbered
        <4> QED
          BY <2>1, <4>1 DEF HeldInv, ScreenInv, OneFile, SameFile
      <3>3. ASSUME NEW i \in DOMAIN events PROVE SameFile(events[i])'
        <4>1. events[i].doc # d
          BY <1>2 DEF HeldInv, ScreenInv, EventsOnce
        <4> QED
          BY <2>1, <4>1 DEF HeldInv, ScreenInv, OneFile, SameFile
      <3> QED
        BY <3>1, <3>2, <3>3 DEF OneFile
    <2>7. EventsOnce' /\ ScreenKnown'
      BY <1>1, <2>2 DEF HeldInv, ScreenInv, EventsOnce, ScreenKnown
    <2>8. CandidateHeld'
      BY <1>1, <2>1, <2>4 DEF CandidateHeld
    <2>9. ScreenHeld' /\ RightFile'
      BY <1>1, <2>1 DEF HeldInv, ScreenInv, ScreenHeld, RightFile
    <2> QED
      BY <2>5, <2>6, <2>7, <2>8, <2>9 DEF ScreenInv
  <1> QED
    BY <1>4, <1>5, <1>6

LEMMA ScreenSettle == ASSUME HeldInv, Settle PROVE ScreenInv'
  <1>1. UNCHANGED <<answers, events>>
    BY Zenon DEF Settle, pumpVars
  <1>2. CASE OpenCandidate(1)
    BY <1>1, <1>2, ScreenOpenCandidate
  <1>3. CASE /\ phase' \in {Backoff(1), Stabilising(Stamp(path))}
             /\ UNCHANGED <<active, next, appVars, poolVars, asked>>
    <2>1. phase'.at # "opening"
      BY <1>3, PhaseNames
    <2>2. UNCHANGED <<documents, reported, shown, path, retired>>
      BY <1>3 DEF appVars, poolVars
    <2>3. retired' \in {0, shown.doc}
      BY <2>2 DEF HeldInv, ScreenInv, ScreenKnown
    <2> QED
      BY <1>1, <1>3, <2>1, <2>2, <2>3, SameScreen DEF HeldInv
  <1> QED
    BY Zenon, <1>2, <1>3 DEF Settle

LEMMA ScreenRetry == ASSUME HeldInv, Retry PROVE ScreenInv'
  <1>1. UNCHANGED <<answers, events>>
    BY Zenon DEF Retry, pumpVars
  <1>2. phase.attempt + 1 \in Nat
    BY DEF HeldInv, TypeOK
  <1> QED
    BY <1>1, <1>2, ScreenOpenCandidate DEF Retry

-----------------------------------------------------------------------------
(* The theorems. *)

LEMMA ScreenWorld ==
  ASSUME HeldInv,
         \/ \E f \in Files, content \in Contents : Write(f, content)
         \/ Notice \/ MakeWatcher \/ Prepared \/ UNCHANGED vars
  PROVE  ScreenInv'
  <1>1. /\ UNCHANGED <<managerVars, appVars>>
        /\ UNCHANGED <<documents, reported, asked, answers, events>>
    BY Zenon DEF Write, Notice, MakeWatcher, Prepared, vars, poolVars, pipeVars, pumpVars
  <1> QED
    BY <1>1, ScreenManagerSame DEF HeldInv

LEMMA HeldNext == ASSUME HeldInv, [Next]_vars PROVE HeldInv'
  <1>1. TypeOK /\ ScreenInv
    BY DEF HeldInv
  <1>2. TypeOK'
    BY <1>1, TypeNext
  <1>3. ScreenInv'
    BY Zenon, <1>1, ScreenOpenDocument, ScreenReload, ScreenCloseDocument, ScreenWorld,
       ScreenRespawn, ScreenWorkerOpens, ScreenDrain, ScreenHandle, ScreenHinted,
       ScreenQuiet, ScreenSettle, ScreenRetry
    DEF Next, User, World, Tick
  <1> QED
    BY <1>2, <1>3 DEF HeldInv

LEMMA HeldCorrect == Spec => []HeldInv
  <1>1. Init => HeldInv
    BY TypeInit, ScreenInit DEF HeldInv
  <1>2. HeldInv /\ [Next]_vars => HeldInv'
    BY HeldNext
  <1> QED
    BY <1>1, <1>2, PTL DEF Spec

(* The supervisor always holds the document on screen, and on the file it   *)
(* was opened from: promotion, discarding, retiring and late answers never  *)
(* close it.                                                                *)
THEOREM ScreenNeverClosed == Spec => []ScreenHeld
  <1>1. HeldInv => ScreenHeld
    BY DEF HeldInv, ScreenInv
  <1> QED
    BY <1>1, HeldCorrect, PTL

(* What the manager counts as its active document is the file it was asked  *)
(* for: an answer about a file put down is never promoted.                  *)
THEOREM RightFileShown == Spec => []RightFile
  <1>1. HeldInv => RightFile
    BY DEF HeldInv, ScreenInv
  <1> QED
    BY <1>1, HeldCorrect, PTL

-----------------------------------------------------------------------------
(* No document is lost in the pipes, none is left open behind the           *)
(* application's back, and nothing superseded is promoted.                  *)

(* The candidate that opens is the one nothing has superseded. *)
WantedOpens == phase.at = "opening" => wanted = phase.doc

(* A document whose answer is on its way, in the pipe of w or back from it. *)
OnItsWay(w, d) == \/ \E ask \in asked[w] : ask.doc = d
                  \/ \E i \in DOMAIN answers[w] : answers[w][i].doc = d

Answering == \A d \in DOMAIN documents \ reported : \E w \in Workers : OnItsWay(w, d)

LeftInv == HeldInv /\ Answering /\ WantedOpens

LEMMA WantedNext == ASSUME HeldInv, WantedOpens, [Next]_vars PROVE WantedOpens'
  <1>1. ASSUME Handle PROVE WantedOpens'
    <2> DEFINE e == Head(events)
    <2>1. CASE CandidateFailed(e.doc)
      <3>1. phase'.at # "opening"
        BY <2>1, PhaseNames DEF CandidateFailed
      <3> QED
        BY <3>1 DEF WantedOpens
    <2>2. CASE Discard(e.doc)
      BY <2>2 DEF Discard, managerVars, WantedOpens
    <2>3. CASE Promote(e)
      BY <2>3, PhaseNames DEF Promote, WantedOpens
    <2>4. CASE UNCHANGED <<managerVars, appVars, poolVars>>
      BY <2>4 DEF managerVars, WantedOpens
    <2> QED
      BY <1>1, <2>1, <2>2, <2>3, <2>4, Handled
  <1>2. ASSUME NEW attempt, OpenCandidate(attempt) PROVE WantedOpens'
    <2>1. \/ phase' = Opening(next + 1, attempt) /\ wanted' = next + 1
          \/ phase' = Backoff(attempt)
      BY <1>2, Zenon DEF OpenCandidate
    <2> QED
      BY <2>1, PhaseNames DEF WantedOpens
  <1>3. ASSUME Tick PROVE WantedOpens'
    <2>1. \/ \E attempt : OpenCandidate(attempt)
          \/ \E stamp : phase' = Stabilising(stamp)
          \/ phase' = Backoff(1)
      BY <1>3, Zenon DEF Tick, Quiet, Settle, Retry
    <2> QED
      BY <1>2, <2>1, PhaseNames DEF WantedOpens
  <1>4. ASSUME User \/ Hinted PROVE WantedOpens'
    <2>1. TypeOK /\ path \in Files \cup {NoFile}
      BY DEF HeldInv, TypeOK
    <2>2. phase' = Idle \/ phase' = Debouncing \/ \E f \in Files \cup {NoFile} : phase' = Initial(f)
      BY <1>4, <2>1, Zenon DEF User, OpenDocument, ReloadDocument, CloseDocument, Hinted
    <2>3. phase'.at # "opening"
      BY <2>1, <2>2, InitialPhase, PhaseNames
    <2> QED
      BY <2>3 DEF WantedOpens
  <1>5. ASSUME UNCHANGED managerVars PROVE WantedOpens'
    BY <1>5 DEF managerVars, WantedOpens
  <1>6. \/ Handle \/ Tick \/ User \/ Hinted \/ UNCHANGED managerVars
    BY Zenon DEF Next, World, Write, Respawn, Notice, MakeWatcher, Prepared, WorkerOpens, Drain, vars
  <1> QED
    BY <1>1, <1>3, <1>4, <1>5, <1>6

(* What is closed is owed no answer, and the pipes stay as they were. *)
LEMMA AnsweringClosed ==
  ASSUME Answering, NEW S, Close(S), UNCHANGED <<asked, answers>>
  PROVE  Answering'
  <1>1. DOMAIN documents' \ reported' \subseteq DOMAIN documents \ reported
    BY Closed
  <1>2. \A w \in Workers : \A d : OnItsWay(w, d) <=> OnItsWay(w, d)'
    BY DEF OnItsWay
  <1> QED
    BY <1>1, <1>2 DEF Answering

LEMMA AnsweringSame ==
  ASSUME Answering, UNCHANGED <<documents, reported, asked, answers>>
  PROVE  Answering'
  BY DEF Answering, OnItsWay

LEMMA AnsweringWorkerOpens ==
  ASSUME HeldInv, Answering, NEW w \in Workers, WorkerOpens(w) PROVE Answering'
  <1>1. PICK ask \in asked[w] :
          /\ asked' = [asked EXCEPT ![w] = @ \ {ask}]
          /\ \E a : a.doc = ask.doc /\ answers' = [answers EXCEPT ![w] = Append(@, a)]
    BY DEF WorkerOpens
  <1>2. PICK a : a.doc = ask.doc /\ answers' = [answers EXCEPT ![w] = Append(@, a)]
    BY <1>1
  <1>3. UNCHANGED <<documents, reported>>
    BY DEF WorkerOpens
  <1>4. asked \in [Workers -> SUBSET Ask] /\ answers \in [Workers -> Seq(Answer)]
    BY DEF HeldInv, TypeOK
  <1>5. ASSUME NEW v \in Workers, NEW d, OnItsWay(v, d) PROVE OnItsWay(v, d)'
    <2>1. CASE v # w
      BY <1>1, <1>2, <1>4, <1>5, <2>1 DEF OnItsWay
    <2>2. CASE v = w
      <3>1. asked'[w] = asked[w] \ {ask} /\ answers'[w] = Append(answers[w], a)
        BY <1>1, <1>2, <1>4
      <3>2. /\ answers[w] \in Seq(Answer)
            /\ Len(answers[w]) + 1 \in DOMAIN answers'[w]
            /\ answers'[w][Len(answers[w]) + 1] = a
            /\ \A i \in DOMAIN answers[w] : i \in DOMAIN answers'[w] /\ answers'[w][i] = answers[w][i]
        BY <1>4, <3>1
      <3> QED
        BY <1>2, <1>5, <2>2, <3>1, <3>2 DEF OnItsWay
    <2> QED
      BY <2>1, <2>2
  <1> QED
    BY <1>3, <1>5 DEF Answering

LEMMA AnsweringRespawn ==
  ASSUME HeldInv, Answering, NEW w \in Workers, Respawn(w) PROVE Answering'
  <1>1. UNCHANGED <<documents, reported>> /\ asked \in [Workers -> SUBSET Ask]
    BY DEF Respawn, HeldInv, TypeOK
  <1>2. asked'[w] = {[doc |-> d, file |-> documents[d]] : d \in DOMAIN documents}
    BY <1>1 DEF Respawn, Replaced
  <1>3. ASSUME NEW d \in DOMAIN documents PROVE \E ask \in asked'[w] : ask.doc = d
    <2>1. [doc |-> d, file |-> documents[d]] \in asked'[w]
      BY <1>2
    <2> QED
      BY <2>1
  <1> QED
    BY <1>1, <1>3 DEF Answering, OnItsWay

LEMMA AnsweringDrain ==
  ASSUME HeldInv, Answering, NEW w \in Workers, Drain(w) PROVE Answering'
  <1> DEFINE a == Head(answers[w])
  <1>1. /\ UNCHANGED <<documents, asked>> /\ answers' = [answers EXCEPT ![w] = Tail(@)]
        /\ reported' = reported \cup {a.doc}
    BY DEF Drain
  <1>2. answers \in [Workers -> Seq(Answer)] /\ answers[w] # <<>> /\ a = answers[w][1]
    BY DEF HeldInv, TypeOK, Drain
  <1>3. ASSUME NEW v \in Workers, NEW d, d # a.doc, OnItsWay(v, d) PROVE OnItsWay(v, d)'
    <2>1. CASE v # w
      BY <1>1, <1>2, <1>3, <2>1 DEF OnItsWay
    <2>2. CASE v = w
      <3>1. answers'[w] = Tail(answers[w]) /\ answers[w] \in Seq(Answer)
        BY <1>1, <1>2
      <3>2. ASSUME NEW i \in DOMAIN answers[w], answers[w][i].doc = d
            PROVE  \E j \in DOMAIN answers'[w] : answers'[w][j].doc = d
        <4>1. i # 1
          BY <1>2, <1>3, <3>2
        <4>2. i - 1 \in DOMAIN answers'[w] /\ answers'[w][i - 1] = answers[w][i]
          BY <1>2, <3>1, <4>1
        <4> QED
          BY <3>2, <4>2
      <3> QED
        BY <1>1, <1>3, <2>2, <3>2 DEF OnItsWay
    <2> QED
      BY <2>1, <2>2
  <1> HIDE DEF a
  <1> QED
    BY <1>1, <1>3 DEF Answering

LEMMA AnsweringOpens ==
  ASSUME HeldInv, Answering, NEW d, Open(d), UNCHANGED answers PROVE Answering'
  <1>1. DOMAIN documents' = DOMAIN documents \cup {d} /\ reported' = reported \ {d}
    BY DEF Open
  <1>2. \A w \in Workers : asked'[w] = asked[w] \cup {[doc |-> d, file |-> path]}
    BY DEF Open
  <1>3. \A w \in Workers : OnItsWay(w, d)'
    <2>1. ASSUME NEW w \in Workers PROVE \E ask \in asked'[w] : ask.doc = d
      <3>1. [doc |-> d, file |-> path] \in asked'[w]
        BY <1>2
      <3> QED
        BY <3>1
    <2> QED
      BY <2>1 DEF OnItsWay
  <1>4. \A w \in Workers : \A x : OnItsWay(w, x) => OnItsWay(w, x)'
    BY <1>2 DEF OnItsWay
  <1>5. Workers # {}
    BY ReloadAssumption
  <1>6. ASSUME NEW x \in DOMAIN documents' \ reported' PROVE \E w \in Workers : OnItsWay(w, x)'
    BY <1>1, <1>3, <1>4, <1>5, <1>6 DEF Answering
  <1> QED
    BY <1>6 DEF Answering

LEMMA AnsweringTick == ASSUME HeldInv, Answering, Tick PROVE Answering'
  <1>1. UNCHANGED answers
    BY Zenon DEF Tick, Quiet, Settle, Retry, pipeVars
  <1>2. \/ \E attempt : OpenCandidate(attempt)
        \/ UNCHANGED <<poolVars, asked>>
    BY Zenon DEF Tick, Quiet, Settle, Retry, pipeVars
  <1>3. ASSUME NEW attempt, OpenCandidate(attempt) PROVE Answering'
    <2>1. Open(next + 1) \/ (Close({next + 1}) /\ UNCHANGED asked)
      BY <1>3, Zenon DEF OpenCandidate
    <2> QED
      BY <1>1, <2>1, AnsweringOpens, AnsweringClosed
  <1>4. CASE UNCHANGED <<poolVars, asked>>
    BY <1>1, <1>4, AnsweringSame DEF poolVars
  <1> QED
    BY <1>2, <1>3, <1>4

LEMMA AnsweringNext == ASSUME HeldInv, Answering, [Next]_vars PROVE Answering'
  <1>1. CASE Handle
    <2>1. UNCHANGED <<asked, answers>>
      BY <1>1 DEF Handle, pipeVars
    <2>2. (\E S : Close(S)) \/ UNCHANGED poolVars
      BY <1>1, Zenon, Handled DEF CandidateFailed, Discard, Promote
    <2> QED
      BY <2>1, <2>2, AnsweringClosed, AnsweringSame DEF poolVars
  <1>2. CASE CloseDocument
    <2>1. Close({active}) /\ UNCHANGED <<asked, answers>>
      BY <1>2, Zenon DEF CloseDocument, pipeVars
    <2> QED
      BY <2>1, AnsweringClosed
  <1>3. CASE UNCHANGED <<poolVars, asked, answers>>
    BY <1>3, AnsweringSame DEF poolVars
  <1>4. \/ Handle \/ CloseDocument \/ Tick
        \/ \E w \in Workers : WorkerOpens(w) \/ Drain(w) \/ Respawn(w)
        \/ UNCHANGED <<poolVars, asked, answers>>
    BY Zenon DEF Next, User, World, OpenDocument, ReloadDocument, Write, Notice, MakeWatcher,
                 Prepared, Hinted, pipeVars, vars
  <1> QED
    BY <1>1, <1>2, <1>3, <1>4, AnsweringTick, AnsweringWorkerOpens, AnsweringDrain, AnsweringRespawn

LEMMA LeftCorrect == Spec => []LeftInv
  <1>1. Init => Answering /\ WantedOpens
    <2> SUFFICES ASSUME Init PROVE Answering /\ WantedOpens
      OBVIOUS
    <2>1. DOMAIN documents = {} /\ phase.at # "opening"
      BY PhaseNames DEF Init
    <2> QED
      BY <2>1 DEF Answering, WantedOpens
  <1>2. HeldInv /\ Answering /\ WantedOpens /\ [Next]_vars => (Answering /\ WantedOpens)'
    BY AnsweringNext, WantedNext
  <1> QED
    BY <1>1, <1>2, HeldCorrect, PTL DEF Spec, LeftInv

(* What is left behind. *)
Leaked(d) == d = shown.doc /\ active = 0 /\ (retired = 0 \/ path' = NoFile)

LEMMA StraySame ==
  ASSUME UNCHANGED <<documents, reported, shown, events>> PROVE Stray' = Stray
  BY DEF Stray

LEMMA LeakDrain ==
  ASSUME HeldInv, NEW w \in Workers, Drain(w), NEW d \in Stray' PROVE d \in Stray
  <1> DEFINE a == Head(answers[w])
  <1>1. a \in Answer /\ events \in Seq(Answer)
    BY FirstAnswer DEF Drain, HeldInv, TypeOK
  <1>2. /\ UNCHANGED <<documents, shown>>
        /\ \/ reported' = reported /\ events' = events
           \/ reported' = reported \cup {a.doc} /\ events' = Append(events, a)
    BY Zenon DEF Drain, appVars
  <1>3. /\ d \in DOMAIN documents' \cap reported' /\ d # shown'.doc
        /\ \A i \in DOMAIN events' : events'[i].doc # d
    BY DEF Stray
  <1>4. CASE reported' = reported /\ events' = events
    BY <1>2, <1>3, <1>4 DEF Stray
  <1>5. CASE reported' = reported \cup {a.doc} /\ events' = Append(events, a)
    <2>1. /\ Len(events) + 1 \in DOMAIN events' /\ events'[Len(events) + 1] = a
          /\ \A i \in DOMAIN events : i \in DOMAIN events' /\ events'[i] = events[i]
      BY <1>1, <1>5
    <2>2. d # a.doc /\ \A i \in DOMAIN events : events[i].doc # d
      BY <1>3, <2>1
    <2> QED
      BY <1>2, <1>3, <1>5, <2>2 DEF Stray
  <1> QED
    BY <1>2, <1>4, <1>5

LEMMA LeakCloseDocument ==
  ASSUME HeldInv, CloseDocument, NEW d \in Stray', d \notin Stray PROVE Leaked(d)
  <1>1. Close({active}) /\ path' = NoFile /\ events = <<>>
    BY Zenon DEF CloseDocument, AtRest
  <1>2. d \in DOMAIN documents /\ d \in reported /\ d # active
    <2>1. DOMAIN documents' = DOMAIN documents \ {active} /\ reported' = reported \ {active}
      BY <1>1, Closed
    <2> QED
      BY <2>1 DEF Stray
  <1>3. d = shown.doc
    BY <1>1, <1>2 DEF Stray
  <1>4. active = 0
    BY <1>2, <1>3 DEF HeldInv, ScreenInv, ScreenKnown
  <1> QED
    BY <1>1, <1>3, <1>4 DEF Leaked

LEMMA LeakHandle ==
  ASSUME HeldInv, Handle, NEW d \in Stray', d \notin Stray PROVE Leaked(d)
  <1> DEFINE e == Head(events)
  <1>1. /\ d \in DOMAIN documents' \cap reported' /\ d # shown'.doc
        /\ \A i \in DOMAIN events' : events'[i].doc # d
    BY DEF Stray
  <1>2. ASSUME d # e.doc PROVE \A i \in DOMAIN events : events[i].doc # d
    <2>1. events \in Seq(Answer) /\ events # <<>> /\ events' = Tail(events)
      BY DEF HeldInv, TypeOK, Handle
    <2>2. ASSUME NEW i \in DOMAIN events, i # 1
          PROVE  i - 1 \in DOMAIN events' /\ events'[i - 1] = events[i]
      BY <2>1, <2>2
    <2>3. events[1] = e
      BY <2>1
    <2> QED
      BY <1>1, <1>2, <2>2, <2>3
  <1>3. e.doc # shown.doc /\ e.doc # 0
    BY LaterEvents DEF Answer
  <1> HIDE DEF e
  <1>4. ASSUME Close({e.doc}), UNCHANGED shown PROVE FALSE
    <2>1. d # e.doc /\ d \in DOMAIN documents /\ d \in reported
      <3>1. DOMAIN documents' = DOMAIN documents \ {e.doc} /\ reported' = reported \ {e.doc}
        BY <1>4, Closed
      <3> QED
        BY <1>1, <3>1
    <2> QED
      BY <1>1, <1>2, <1>4, <2>1 DEF Stray
  <1>5. ASSUME Promote(e) PROVE Leaked(d)
    <2>1. Close({retired, active} \ {e.doc}) /\ shown'.doc = e.doc
      BY <1>5 DEF Promote
    <2>2. d # e.doc /\ d \in DOMAIN documents /\ d \in reported /\ d # active /\ d # retired
      <3> DEFINE S == {retired, active} \ {e.doc}
      <3>1. DOMAIN documents' = DOMAIN documents \ S /\ reported' = reported \ S
        BY <2>1, Closed
      <3>2. d # e.doc /\ d \in DOMAIN documents \ S
        BY <1>1, <2>1, <3>1
      <3> QED
        BY <1>1, <3>1, <3>2
    <2>3. d = shown.doc
      BY <1>2, <2>2 DEF Stray
    <2>4. active = 0 /\ retired = 0
      BY <2>2, <2>3 DEF HeldInv, ScreenInv, ScreenKnown
    <2> QED
      BY <2>3, <2>4 DEF Leaked
  <1>6. active # e.doc
    BY <1>3 DEF HeldInv, ScreenInv, ScreenKnown
  <1>7. \/ CandidateFailed(e.doc) \/ Discard(e.doc) \/ Promote(e)
    BY <1>6, Handled DEF e
  <1>8. CASE CandidateFailed(e.doc)
    BY <1>4, <1>8 DEF CandidateFailed
  <1>9. CASE Discard(e.doc)
    BY <1>4, <1>9 DEF Discard
  <1> QED
    BY <1>5, <1>7, <1>8, <1>9

LEMMA LeakTick == ASSUME HeldInv, Tick, NEW d \in Stray' PROVE d \in Stray
  <1>1. \/ \E attempt : OpenCandidate(attempt)
        \/ UNCHANGED <<poolVars, shown>>
    BY Zenon DEF Tick, Quiet, Settle, Retry, appVars
  <1>2. UNCHANGED events
    BY Zenon DEF Tick, Quiet, Settle, Retry, pumpVars
  <1>3. CASE UNCHANGED <<poolVars, shown>>
    BY <1>2, <1>3, StraySame DEF poolVars
  <1>4. ASSUME NEW attempt, OpenCandidate(attempt) PROVE d \in Stray
    <2> DEFINE n == next + 1
    <2>1. UNCHANGED shown /\ (Open(n) \/ Close({n}))
      BY <1>4, Zenon DEF OpenCandidate
    <2>2. /\ reported' = reported \ {n}
          /\ DOMAIN documents' \subseteq DOMAIN documents \cup {n}
      BY <2>1, Closed DEF Open
    <2> HIDE DEF n
    <2> QED
      BY <1>2, <2>1, <2>2 DEF Stray
  <1> QED
    BY <1>1, <1>3, <1>4

LEMMA LeakNext == ASSUME HeldInv, [Next]_vars, NEW d \in Stray', d \notin Stray PROVE Leaked(d)
  <1>1. \/ Handle \/ CloseDocument \/ Tick
        \/ \E w \in Workers : Drain(w)
        \/ UNCHANGED <<documents, reported, shown, events>>
    BY Zenon DEF Next, User, World, OpenDocument, ReloadDocument, Write, Respawn, WorkerOpens,
                 Notice, MakeWatcher, Prepared, Hinted, appVars, poolVars, pumpVars, vars
  <1> QED
    BY <1>1, StraySame, LeakDrain, LeakCloseDocument, LeakHandle, LeakTick

(* Every open the application has not heard of is still on its way, whoever *)
(* died (supervisor.rs open, replay, reported_open); and whatever the        *)
(* application was told of and does not show is released, but for what it   *)
(* forgot to retire (app.rs run_document_actions, open_document,            *)
(* close_document).                                                         *)
THEOREM NoneStranded == Spec => NothingStranded
  <1>1. LeftInv => AnswerOwed
    BY DEF LeftInv, Answering, OnItsWay, AnswerOwed
  <1>2. HeldInv /\ [Next]_vars =>
          [\A d \in Stray' \ Stray :
             d = shown.doc /\ active = 0 /\ (retired = 0 \/ path' = NoFile)]_vars
    BY LeakNext DEF Leaked
  <1> QED
    BY <1>1, <1>2, LeftCorrect, HeldCorrect, PTL DEF Spec, NothingStranded, NoneLeaked

(* Only a candidate that no later hint, failure, open or reload has          *)
(* superseded replaces what is shown: it is the one the manager waits for   *)
(* (manager.rs on_candidate_opened).                                        *)
THEOREM NewestPromoted == Spec => PromotesWanted
  <1>1. ASSUME LeftInv, [Next]_vars, shown'.doc \notin {0, shown.doc}
        PROVE  shown'.doc = wanted
    <2>1. \/ Handle \/ CloseDocument \/ Tick \/ UNCHANGED shown
      BY <1>1, Zenon
      DEF Next, User, World, OpenDocument, ReloadDocument, Write, Respawn, WorkerOpens, Drain,
          Notice, MakeWatcher, Prepared, Hinted, appVars, vars
    <2>2. CASE Handle
      <3>1. \/ UNCHANGED shown
            \/ Promote(Head(events)) /\ phase.at = "opening" /\ Head(events).doc = phase.doc
        BY <2>2, Handled DEF CandidateFailed, Discard, appVars
      <3>2. CASE /\ Promote(Head(events)) /\ phase.at = "opening"
                 /\ Head(events).doc = phase.doc
        <4>1. shown'.doc = Head(events).doc
          BY <3>2 DEF Promote
        <4> QED
          BY <1>1, <3>2, <4>1 DEF LeftInv, WantedOpens
      <3> QED
        BY <1>1, <3>1, <3>2
    <2>3. CASE CloseDocument
      BY <1>1, <2>3 DEF CloseDocument, Nothing
    <2>4. CASE Tick
      BY <1>1, <2>4, Zenon DEF Tick, Quiet, Settle, Retry, OpenCandidate, appVars
    <2> QED
      BY <1>1, <2>1, <2>2, <2>3, <2>4
  <1>2. LeftInv /\ [Next]_vars =>
          [shown'.doc \notin {0, shown.doc} => shown'.doc = wanted]_vars
    BY <1>1
  <1> QED
    BY <1>2, LeftCorrect, PTL DEF Spec, PromotesWanted
=============================================================================
