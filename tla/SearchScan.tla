------------------------------ MODULE SearchScan ------------------------------
(***************************************************************************)
(* Searching the open document: the scan that asks for page text a chunk   *)
(* at a time, the two engines that answer it, and the document changing    *)
(* under it.                                                               *)
(*                                                                         *)
(* Source: SearchState of crates/pulpit-core/src/search.rs, the search     *)
(* half of crates/pulpit/src/app/search.rs, the document changes of        *)
(* crates/pulpit/src/app.rs that restart a scan, and the document worker's *)
(* thread of crates/pulpit/src/reader_link.rs.                             *)
(*                                                                         *)
(* The application is one event loop, so each of its handlers is a step.   *)
(* The document worker serves its asks in order; the render pool answers   *)
(* in any order.  Both may answer long after the query, or the document,   *)
(* they were asked about has been replaced.                                *)
(*                                                                         *)
(* A hit is a natural number: its place in document order, which is what   *)
(* Hit::key compares.  The cursor and the results list are not modelled.   *)
(***************************************************************************)
EXTENDS Integers, Sequences, FiniteSets

CONSTANTS
  Docs, NoDoc,     \* versions of documents the workers can hold
  Queries, NoQuery,\* NoQuery: Query::is_empty
  Invalid,         \* the queries whose regular expression does not compile
  Unsearchable,    \* the documents whose backend has no text layer
  PageCount,       \* [Docs -> Nat \ {0}]
  Text,            \* [Docs -> [Queries -> [page -> set of hits]]]
  Notes,           \* [Docs -> [Queries -> set of hits in notes and outline]]
  MaxHits,         \* MAX_HITS
  ChunkHits,       \* MAX_HITS_PER_SEARCH
  FirstChunk,      \* FIRST_CHUNK_PAGES
  MaxChunk,        \* PAGES_PER_CHUNK
  MaxInFlight,     \* MAX_CHUNKS_IN_FLIGHT
  MaxMoves,        \* bound: what the user and the file system do
  MaxFaults        \* bound: document workers that die, questions the pool loses

ASSUME SearchAssumption ==
  /\ NoDoc \notin Docs /\ NoQuery \notin Queries
  /\ Invalid \subseteq Queries /\ Unsearchable \subseteq Docs
  /\ PageCount \in [Docs -> Nat \ {0}]
  /\ \A d \in Docs : \A q \in Queries :
       /\ Notes[d][q] \subseteq Nat /\ IsFiniteSet(Notes[d][q])
       /\ \A p \in 0..(PageCount[d] - 1) : Text[d][q][p] \subseteq Nat /\ IsFiniteSet(Text[d][q][p])
  /\ MaxHits \in Nat \ {0} /\ ChunkHits \in Nat \ {0}
  /\ FirstChunk \in Nat \ {0} /\ MaxChunk \in Nat \ {0} /\ MaxInFlight \in Nat \ {0}
  /\ MaxMoves \in Nat /\ MaxFaults \in Nat

VARIABLES
  scan,       \* App::search, a SearchState
  settling,   \* search_settle_at is set
  deck,       \* the presented document
  reader,     \* the document whose shape the reader has adopted
  preopened,  \* reader_preopened: the remembered shape not yet confirmed
  coming,     \* the candidate the document manager is opening
  preparing,  \* the document whose worker is being started
  link,       \* reader_link: the document worker's two queues
  pool,       \* questions the render pool has not answered
  moves, faults

vars == <<scan, settling, deck, reader, preopened, coming, preparing, link, pool, moves, faults>>

Least(a, b) == IF a < b THEN a ELSE b

(* The first n hits of a set, in document order. *)
Lowest(hits, n) == {h \in hits : Cardinality({g \in hits : g < h}) < n}

-----------------------------------------------------------------------------
(* SearchState. *)

Scanning(s) == s.scanned < s.pages

Restart(s) ==
  LET done == IF s.query = NoQuery THEN s.pages ELSE 0
  IN  [s EXCEPT !.hits = {}, !.problem = "none", !.inFlight = {}, !.issued = 0,
                !.start = IF s.pages = 0 THEN 0 ELSE Least(s.origin, s.pages - 1),
                !.requested = done, !.scanned = done, !.gen = @ + 1]

MutantOpenAt(s, pages) ==
  [Restart([s EXCEPT !.pages = pages]) EXCEPT !.inFlight = s.inFlight]
OpenAt(s, pages) == Restart([s EXCEPT !.pages = pages])

SetQuery(s, q) == IF q = s.query THEN s ELSE Restart([s EXCEPT !.query = q])

Cleared(s) == Restart([s EXCEPT !.query = NoQuery])

MutantFinished(s) == [s EXCEPT !.requested = s.pages, !.inFlight = {}]
Finished(s) == [s EXCEPT !.requested = s.pages, !.scanned = s.pages, !.inFlight = {}]

Failed(s, gen, problem) ==
  IF gen = s.gen THEN Finished([s EXCEPT !.problem = problem]) ELSE s

(* merge_hits and absorb: repeated hits are held once, the list is cut at MAX_HITS. *)
Absorbed(s, hits) ==
  IF Cardinality(s.hits) >= MaxHits THEN s
  ELSE [s EXCEPT !.hits = Lowest(@ \cup hits, MaxHits)]

(* 1usize.checked_shl(issued.min(16)) *)
Factor[n \in 0..16] == IF n = 0 THEN 1 ELSE 2 * Factor[n - 1]

ChunkPages(issued) == Least(FirstChunk * Factor[Least(issued, 16)], MaxChunk)

(* next_request has something to ask. *)
More(s) ==
  /\ s.query # NoQuery /\ s.pages # 0
  /\ Cardinality(s.inFlight) < MaxInFlight
  /\ s.requested < s.pages
  /\ Cardinality(s.hits) < MaxHits

MutantNextChunk(s) ==
  LET from == (s.start + s.requested) % s.pages
  IN  [gen |-> s.gen, query |-> s.query, from |-> from,
       to |-> from + Least(ChunkPages(s.issued), s.pages - from)]
(* A chunk never wraps around the end of the document. *)
NextChunk(s) ==
  LET from == (s.start + s.requested) % s.pages
      size == Least(ChunkPages(s.issued), Least(s.pages - s.requested, s.pages - from))
  IN  [gen |-> s.gen, query |-> s.query, from |-> from, to |-> from + size]

Requested(s) ==
  LET c == NextChunk(s)
  IN  [s EXCEPT !.requested = @ + (c.to - c.from), !.issued = @ + 1,
                !.inFlight = @ \cup {c.from}]

(* accept: only a chunk that was out counts towards the scan. *)
Accepted(s, c) ==
  LET merged == Absorbed(s, c.hits)
      heard == IF c.from \in s.inFlight
                 THEN [merged EXCEPT !.inFlight = @ \ {c.from},
                                     !.scanned = Least(@ + (c.to - c.from), s.pages)]
                 ELSE merged
  IN  IF c.gen # s.gen THEN s
      ELSE IF c.truncated \/ Cardinality(heard.hits) >= MaxHits
             THEN Finished([heard EXCEPT !.problem = "tooMany"])
             ELSE heard

-----------------------------------------------------------------------------
(* The engines. *)

Describe == [kind |-> "Describe"]
FindText(c) == [kind |-> "FindText", chunk |-> c]

NoLink == [doc |-> NoDoc, alive |-> FALSE, asks |-> <<>>, told |-> <<>>]
NewLink(d) == [doc |-> d, alive |-> TRUE, asks |-> <<Describe>>, told |-> <<>>]

(* The answer of a document worker that holds document d.  Pages beyond its *)
(* end are cut off, and a chunk with too many hits is cut short and says    *)
(* so.                                                                      *)
Hits(d, c) ==
  LET from == Least(c.from, PageCount[d])
      to == Least(c.to, PageCount[d])
      all == UNION {Text[d][c.query][p] : p \in from..(to - 1)}
  IN  [gen |-> c.gen, from |-> from, to |-> to,
       hits |-> Lowest(all, ChunkHits), truncated |-> Cardinality(all) >= ChunkHits]

(* The answer of the render pool: it names the pages it was asked for,      *)
(* those that its document does not have too, which it reads nothing of.    *)
PoolHits(d, c) ==
  LET all == UNION {Text[d][c.query][p] : p \in c.from..(Least(c.to, PageCount[d]) - 1)}
  IN  [gen |-> c.gen, from |-> c.from, to |-> c.to,
       hits |-> Lowest(all, ChunkHits), truncated |-> Cardinality(all) >= ChunkHits]

Nothing(c) ==
  [gen |-> c.gen, from |-> c.from, to |-> c.to, hits |-> {}, truncated |-> FALSE]

MutantSuperseded(asks) ==
  \E i \in 2..Len(asks) :
    asks[i].kind = "FindText" /\ asks[i].chunk.gen >= asks[1].chunk.gen
(* superseded: a later scan is already posted behind this one's chunk. *)
Superseded(asks) ==
  \E i \in 2..Len(asks) :
    asks[i].kind = "FindText" /\ asks[i].chunk.gen > asks[1].chunk.gen

Says(answer) ==
  link' = [link EXCEPT !.asks = Tail(@), !.told = Append(@, answer)]

ServeDescribe ==
  /\ link.asks # <<>> /\ Head(link.asks).kind = "Describe"
  /\ Says([kind |-> "Described"])

(* handle(FindText).  session.request turns a refusal of the engine into an *)
(* error, so a document without a text layer is answered as a failure that  *)
(* names no request.                                                        *)
ServeFindText ==
  /\ link.asks # <<>> /\ Head(link.asks).kind = "FindText"
  /\ LET c == Head(link.asks).chunk IN
     IF Superseded(link.asks) THEN Says([kind |-> "Found", chunk |-> Nothing(c)])
     ELSE IF link.doc \in Unsearchable THEN Says([kind |-> "Refused"])
     ELSE Says([kind |-> "Found", chunk |-> Hits(link.doc, c)])

(* The worker dies or wedges under a request: the thread says so and ends. *)
ServeDies ==
  /\ link.asks # <<>>
  /\ Head(link.asks).kind = "FindText" => ~Superseded(link.asks)
  /\ faults < MaxFaults /\ faults' = faults + 1
  /\ link' = [link EXCEPT !.alive = FALSE, !.asks = <<>>, !.told = Append(@, [kind |-> "Lost"])]

Serve ==
  /\ \/ (ServeDescribe \/ ServeFindText) /\ UNCHANGED faults
     \/ ServeDies
  /\ UNCHANGED <<scan, settling, deck, reader, preopened, coming, preparing, pool, moves>>

-----------------------------------------------------------------------------
(* The application. *)

(* searchable_page_count, with r read and d presented. *)
Searchable(r, d) ==
  IF r # NoDoc THEN PageCount[r] ELSE IF d # NoDoc THEN PageCount[d] ELSE 0

(* absorb_local_hits: notes and outline of the presented document. *)
WithNotes(s, d) == IF d = NoDoc THEN s ELSE Absorbed(s, Notes[d][s.query])

(* restart_search *)
Searched(q) ==
  LET s == SetQuery(OpenAt(scan, Searchable(reader, deck)), q)
  IN  IF q = NoQuery THEN s
      ELSE IF q \in Invalid THEN Failed(s, s.gen, "invalid")
      ELSE WithNotes(s, deck)

(* rescan_search_after_document_change *)
Rescanned(r, d) ==
  LET s == OpenAt(scan, Searchable(r, d))
  IN  IF s.query = NoQuery THEN s ELSE WithNotes(s, d)

(* The one scan, and the chunks asked for, after n requests of the pump. *)
Asked(s) ==
  LET after[n \in 0..MaxInFlight] ==
        IF n = 0 THEN {[scan |-> s, chunks |-> <<>>]}
        ELSE {IF ~More(p.scan) THEN p
              ELSE [scan |-> Requested(p.scan), chunks |-> Append(p.chunks, NextChunk(p.scan))]
              : p \in after[n - 1]}
  IN  after[MaxInFlight]

(* pump_search, its delay over, from scan s: ask the document worker, the   *)
(* pool if there is none, or give up if there is nobody.                    *)
Pump(s, toLink, toPool) ==
  \E asked \in Asked(s) :
  IF toLink.alive
    THEN /\ scan' = asked.scan
         /\ link' = [toLink EXCEPT !.asks =
                       @ \o [i \in DOMAIN asked.chunks |-> FindText(asked.chunks[i])]]
         /\ pool' = toPool
  ELSE /\ link' = toLink
       /\ IF deck # NoDoc
            THEN /\ scan' = asked.scan
                 /\ pool' = toPool \cup
                      {[doc |-> deck, chunk |-> asked.chunks[i]] : i \in DOMAIN asked.chunks}
            ELSE /\ scan' = IF More(s) THEN Failed(s, s.gen, "unsupported") ELSE s
                 /\ pool' = toPool

(* The pump returns at once while the typing has not settled. *)
PumpNow(s, toLink, toPool) ==
  \/ /\ settling
     /\ scan' = s /\ link' = toLink /\ pool' = toPool
     /\ UNCHANGED settling
  \/ /\ settling' = FALSE
     /\ Pump(s, toLink, toPool)

Move == moves < MaxMoves /\ moves' = moves + 1

documents == <<deck, reader, preopened, coming, preparing>>

(* FindCommand::Type waits for the typing to settle; a toggle does not. *)
Type(q) ==
  /\ Move
  /\ scan' = Searched(q)
  /\ settling' = Scanning(scan')
  /\ UNCHANGED <<documents, link, pool, faults>>

Toggle(q) ==
  /\ Move /\ q # scan.query
  /\ scan' = Searched(q)
  /\ settling' = FALSE
  /\ UNCHANGED <<documents, link, pool, faults>>

Clear ==
  /\ Move
  /\ scan' = Cleared(scan)
  /\ UNCHANGED <<settling, documents, link, pool, faults>>

(* open_search: the next scan begins at the page in front of the reader. *)
OpenSearch(page) ==
  /\ Move
  /\ page < Searchable(reader, deck)
  /\ scan' = [scan EXCEPT !.origin = page]
  /\ UNCHANGED <<settling, documents, link, pool, faults>>

Tick ==
  /\ settling \/ More(scan)
  /\ settling' = FALSE
  /\ Pump(scan, link, pool)
  /\ UNCHANGED <<documents, moves, faults>>

Told(kind) == link.told # <<>> /\ Head(link.told).kind = kind
Heard == [link EXCEPT !.told = Tail(@)]

HandleFound ==
  /\ Told("Found")
  /\ \E s \in {Accepted(scan, Head(link.told).chunk)} : PumpNow(s, Heard, pool)
  /\ UNCHANGED <<documents, moves, faults>>

(* A failure that is not fatal touches nothing of the search. *)
HandleRefused ==
  /\ Told("Refused")
  /\ link' = Heard
  /\ UNCHANGED <<scan, settling, documents, pool, moves, faults>>

(* reader_link_died *)
HandleLost ==
  /\ Told("Lost")
  /\ link' = NoLink
  /\ reader' = NoDoc
  /\ UNCHANGED <<scan, settling, deck, preopened, coming, preparing, pool, moves, faults>>

(* Told::Described: a remembered shape it confirms is left alone. *)
HandleDescribed ==
  /\ Told("Described")
  /\ link' = Heard
  /\ preopened' = NoDoc
  /\ IF preopened = link.doc
       THEN UNCHANGED <<scan, reader>>
       ELSE /\ reader' = link.doc
            /\ scan' = Rescanned(link.doc, deck)
  /\ UNCHANGED <<settling, deck, coming, preparing, pool, moves, faults>>

(* RenderEvent::Found.  The pool says when a document cannot be searched. *)
PoolAnswers(a) ==
  /\ a \in pool
  /\ IF a.doc \in Unsearchable
       THEN /\ scan' = Failed(scan, a.chunk.gen, "unsupported")
            /\ pool' = pool \ {a}
            /\ UNCHANGED <<settling, link>>
       ELSE \E s \in {Accepted(scan, PoolHits(a.doc, a.chunk))} : PumpNow(s, link, pool \ {a})
  /\ UNCHANGED <<documents, moves, faults>>

PoolLoses(a) ==
  /\ a \in pool /\ faults < MaxFaults
  /\ faults' = faults + 1
  /\ pool' = pool \ {a}
  /\ UNCHANGED <<scan, settling, documents, link, moves>>

-----------------------------------------------------------------------------
(* The document changes. *)

(* open_document: the deck stays until the candidate is promoted. *)
OpenDocument(d) ==
  /\ Move
  /\ coming' = d /\ preparing' = d
  /\ reader' = NoDoc /\ preopened' = NoDoc /\ link' = NoLink
  /\ scan' = Cleared(scan)
  /\ UNCHANGED <<settling, deck, pool, faults>>

CloseDocument ==
  /\ Move
  /\ deck # NoDoc \/ reader # NoDoc
  /\ deck' = NoDoc /\ coming' = NoDoc /\ preparing' = NoDoc
  /\ reader' = NoDoc /\ preopened' = NoDoc /\ link' = NoLink
  /\ scan' = Cleared(scan)
  /\ UNCHANGED <<settling, pool, faults>>

(* The file is rewritten, and the document manager opens what it holds now. *)
Rebuild(d) ==
  /\ Move
  /\ deck # NoDoc /\ d # deck
  /\ coming' = d
  /\ UNCHANGED <<scan, settling, deck, reader, preopened, preparing, link, pool, faults>>

(* DocAction::Promote *)
Promote ==
  /\ coming # NoDoc
  /\ deck' = coming /\ coming' = NoDoc
  /\ scan' = Rescanned(reader, coming)
  /\ UNCHANGED <<settling, reader, preopened, preparing, link, pool, moves, faults>>

(* finish_document_prepare: the worker is up, and the reader may adopt the  *)
(* shape remembered for the file before the worker has measured it.         *)
FinishPrepare(shape) ==
  /\ preparing # NoDoc
  /\ preparing' = NoDoc
  /\ link' = NewLink(preparing)
  /\ preopened' = shape
  /\ IF shape = NoDoc THEN UNCHANGED <<reader, scan>>
     ELSE /\ reader' = shape
          /\ scan' = Rescanned(shape, deck)
  /\ UNCHANGED <<settling, deck, coming, pool, moves, faults>>

(* No document worker: it could not be started. *)
PrepareFails ==
  /\ preparing # NoDoc
  /\ preparing' = NoDoc
  /\ UNCHANGED <<scan, settling, deck, reader, preopened, coming, link, pool, moves, faults>>

-----------------------------------------------------------------------------

Init ==
  /\ scan = [query |-> NoQuery, gen |-> 0, hits |-> {}, start |-> 0, origin |-> 0,
             requested |-> 0, scanned |-> 0, issued |-> 0, pages |-> 0,
             inFlight |-> {}, problem |-> "none"]
  /\ settling = FALSE
  /\ deck = NoDoc /\ reader = NoDoc /\ preopened = NoDoc
  /\ coming = NoDoc /\ preparing = NoDoc
  /\ link = NoLink /\ pool = {}
  /\ moves = 0 /\ faults = 0

User ==
  \/ \E q \in Queries \cup {NoQuery} : Type(q) \/ Toggle(q)
  \/ Clear
  \/ \E d \in Docs : \E page \in 0..(PageCount[d] - 1) : OpenSearch(page)
  \/ \E d \in Docs : OpenDocument(d) \/ Rebuild(d)
  \/ CloseDocument

Handle == HandleDescribed \/ HandleFound \/ HandleRefused \/ HandleLost

Prepared == (\E shape \in Docs \cup {NoDoc} : FinishPrepare(shape)) \/ PrepareFails

Next ==
  \/ User \/ Tick \/ Handle \/ Serve \/ Prepared \/ Promote
  \/ \E a \in pool : PoolAnswers(a) \/ PoolLoses(a)

Spec == Init /\ [][Next]_vars

(* The tick timer runs while the application is live; the worker's thread,  *)
(* the pool and the preparation each finish what they were given.           *)
FairSpec ==
  /\ Spec
  /\ WF_vars(Tick) /\ WF_vars(Handle) /\ WF_vars(Serve)
  /\ WF_vars(Prepared) /\ WF_vars(Promote)
  /\ WF_vars(\E a \in pool : PoolAnswers(a))

-----------------------------------------------------------------------------
(* Properties. *)

Chunks ==
  [gen : Nat, query : Queries, from : Nat, to : Nat]
Answers ==
  [gen : Nat, from : Nat, to : Nat, hits : SUBSET Nat, truncated : BOOLEAN]

(* The types, and the bounds every scan keeps: what has been answered for   *)
(* has been asked for, no page is asked for beyond the end, and no more     *)
(* chunks are out than the link is meant to carry.                          *)
TypeOK ==
  /\ scan.query \in Queries \cup {NoQuery} /\ scan.gen \in Nat /\ scan.hits \subseteq Nat
  /\ scan.problem \in {"none", "invalid", "tooMany", "unsupported"}
  /\ scan.scanned <= scan.requested /\ scan.requested <= scan.pages
  /\ Cardinality(scan.inFlight) <= MaxInFlight /\ Cardinality(scan.hits) <= MaxHits
  /\ settling \in BOOLEAN
  /\ {deck, reader, preopened, coming, preparing, link.doc} \subseteq Docs \cup {NoDoc}
  /\ \A i \in DOMAIN link.asks : link.asks[i] = Describe \/ link.asks[i].chunk \in Chunks
  /\ \A i \in DOMAIN link.told :
       link.told[i].kind = "Found" =>
         /\ [link.told[i].chunk EXCEPT !.hits = {}] \in Answers
         /\ link.told[i].chunk.hits \subseteq Nat
  /\ \A a \in pool : a.doc \in Docs /\ a.chunk \in Chunks

(* No engine was lost in mid-scan, and the one asked can read text.  After  *)
(* a loss the scan may go on with another version of the file in the other  *)
(* engine, and with neither it has nobody left to wait for.                 *)
Whole == faults = 0 /\ link.doc \notin Unsearchable

AllText(d, q) == UNION {Text[d][q][p] : p \in 0..(PageCount[d] - 1)}
NotesOf(d, q) == IF d = NoDoc THEN {} ELSE Notes[d][q]

(* The documents in front of the user. *)
Shown == {deck, reader} \ {NoDoc}

Complete == scan.query # NoQuery /\ scan.pages # 0 /\ ~Scanning(scan) /\ scan.problem = "none"

(* Pages of the lost document worker's version that the version on screen,  *)
(* which the render pool reads on, does not have.                           *)
Beyond(p) == ~link.alive /\ deck # NoDoc /\ p >= PageCount[deck]

(* A scan that says it is done and has no problem has read every page of    *)
(* one document, once: its results are all the matches and only those,      *)
(* wherever it started, whatever arrived late and however often the query   *)
(* or the document changed on the way.  After an engine was lost it has     *)
(* still read every page, though perhaps not all of one version -- except   *)
(* that the pool counts as read the pages its version is too short for.     *)
FoundEverything ==
  Complete =>
    IF faults = 0
    THEN \E d \in Shown : scan.hits = AllText(d, scan.query) \cup NotesOf(deck, scan.query)
    ELSE \A p \in 0..(scan.pages - 1) :
           \/ \E d \in Docs : p < PageCount[d] /\ Text[d][scan.query][p] \subseteq scan.hits
           \/ Beyond(p)

(* While a scan runs, nothing in the list belongs to another query or to a  *)
(* document that has been put down.                                         *)
HitsFromHere ==
  faults = 0 /\ scan.query # NoQuery =>
    \A h \in scan.hits :
      h \in NotesOf(deck, scan.query) \/ \E d \in Shown : h \in AllText(d, scan.query)

(* What the list holds is what the query finds in the document: while the   *)
(* scan runs nothing else, at its end all of it.                            *)
HitsRight == HitsFromHere /\ FoundEverything

(* How many messages are on their way that answer for chunk `from` of the   *)
(* scan that runs now.                                                      *)
Owed(from) ==
  Cardinality({i \in DOMAIN link.asks : link.asks[i].kind = "FindText"
                 /\ link.asks[i].chunk.gen = scan.gen /\ link.asks[i].chunk.from = from})
  + Cardinality({i \in DOMAIN link.told : link.told[i].kind = "Found"
                 /\ link.told[i].chunk.gen = scan.gen /\ link.told[i].chunk.from = from})
  + Cardinality({a \in pool : a.chunk.gen = scan.gen /\ a.chunk.from = from})

(* The document worker has not measured its document, or nobody has heard:  *)
(* the scan may be asking about pages it does not have.                     *)
Unmeasured ==
  \/ \E i \in DOMAIN link.asks : link.asks[i].kind = "Describe"
  \/ \E i \in DOMAIN link.told : link.told[i].kind = "Described"

(* Every chunk the scan waits for is on its way exactly once, and no answer *)
(* of this scan is on its way that it does not wait for -- unless the scan  *)
(* stopped early, or will start again once the document is measured.        *)
OwedOnce ==
  Whole /\ scan.problem = "none" /\ ~Unmeasured =>
    \A from \in 0..(scan.pages - 1) :
      Owed(from) = IF from \in scan.inFlight THEN 1 ELSE 0

(* A scan ends: with every page read, or with what stopped it -- unless an  *)
(* engine that owed it an answer is gone.                                   *)
ScanEnds == Scanning(scan) ~> (~Scanning(scan) \/ ~Whole)
=============================================================================
