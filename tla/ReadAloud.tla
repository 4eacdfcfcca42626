------------------------------ MODULE ReadAloud ------------------------------
(***************************************************************************)
(* Reading a document aloud: the cursor that decides, the event loop that  *)
(* carries out what it decided, the document worker that is asked for the  *)
(* text of a page, and the speaker, whose control thread plays a sentence  *)
(* while its synthesis thread makes the next, and whose stop goes behind   *)
(* both.                                                                   *)
(*                                                                         *)
(* Source: Reading of crates/pulpit-core/src/speech/cursor.rs, Speech of   *)
(* crates/pulpit/src/speech.rs, apply_speech of app/speech.rs, Ask and     *)
(* Told::PageText of reader_link.rs, and Speaker, Player and EngineStop of *)
(* crates/pulpit-media/src/speech/.                                        *)
(*                                                                         *)
(* A sentence is a page and a number from 1; the selection is page 0.  One *)
(* voice and one rate: the key of a result is its sentence.  A poll of     *)
(* several events is several polls of one: the events of a poll are of one *)
(* utterance, and a change of the cursor always waits for the last.        *)
(* Left out: the choice of a voice and its download, and `refused`, which  *)
(* is set only when the reading ends and cleared when one starts.          *)
(***************************************************************************)
EXTENDS Naturals, Sequences, FiniteSets, SequencesExt

CONSTANTS
  Pages,          \* document.pdf_pages
  SentenceCount,  \* [0..Pages -> Nat]: sentences(text) of each, 0 a page with none
  MaxCached,      \* results kept (8 in the code)
  MaxMoves,       \* bound: keys, a change of voice, of the document
  MaxFaults       \* bound: what fails or hangs

ASSUME ReadingAssumption ==
  /\ Pages \in Nat \ {0} /\ SentenceCount \in [0..Pages -> Nat]
  /\ MaxCached \in Nat \ {0} /\ MaxMoves \in Nat /\ MaxFaults \in Nat

VARIABLES
  reading,     \* Speech::reading
  todo,        \* the actions the handler that is running has yet to carry out
  link,        \* App::reader_link: none, or to a worker that has a text layer or not
  asks,        \* the pages asked of it, unanswered
  speaker,     \* Speech::speaker is Some
  generation,  \* Speaker::generation
  commands,    \* the channel to the control thread
  events,      \* the channel from it
  control,     \* control_loop: where it is, with what in hand
  requests,    \* the channel to the synthesis thread
  ready,       \* the channel from it
  synth,       \* synth_loop
  cache,       \* the results kept
  stopping,    \* Player::stopping
  sounding,    \* Player::current is Some
  ending,      \* EngineStop::stopping
  untold,      \* for a property: the last request for text failed without saying so
  moves, faults

loop    == <<reading, todo, link, asks, untold>>
player  == <<stopping, sounding>>
synthesis == <<requests, ready, synth, cache>>
bounds  == <<moves, faults>>
vars == <<reading, todo, link, asks, speaker, generation, commands, events, control, requests, ready, synth,
          cache, stopping, sounding, ending, untold, moves, faults>>

Selection == 0
NoSentence == <<0, 0>>
Sentences == UNION {{p} \X (1..SentenceCount[p]) : p \in 0..Pages}

Act(what, page) == [what |-> what, page |-> page]

(* StopSpeaking is Speaker::stop: first the generation, then the player.   *)
StopSpeaking == <<Act("outdate", 0), Act("silence", 0)>>
Speak == <<Act("speak", 0)>>
NeedText(page) == <<Act("ask", page)>>
ShowPage(page) == <<Act("show", page)>>

------------------------------------------------------------------------------
(* The cursor: an event takes it to a state, with actions to carry out. *)

Idle == [scope |-> "none", page |-> 0, index |-> 0, loaded |-> FALSE, state |-> "idle"]

To(r, actions) == [reading |-> r, actions |-> actions]

Units(r) == IF r.loaded THEN SentenceCount[r.page] ELSE 0
Cursor(r) == <<r.page, r.index>>
Following(r) == IF r.index < Units(r) THEN <<r.page, r.index + 1>> ELSE NoSentence

Finish == To(Idle, StopSpeaking)
SpeakCurrent(r) == To([r EXCEPT !.state = "starting"], Speak)

Start(scope, page) ==
  To([scope |-> scope, page |-> page, index |-> 1, loaded |-> FALSE, state |-> "awaiting"],
     StopSpeaking \o NeedText(page))

StartSelection ==
  IF SentenceCount[Selection] = 0
  THEN Finish
  ELSE To([scope |-> "selection", page |-> Selection, index |-> 1, loaded |-> TRUE, state |-> "starting"],
          StopSpeaking \o Speak)

NextPage(r) ==
  To([r EXCEPT !.page = @ + 1, !.index = 1, !.loaded = FALSE, !.state = "awaiting"],
     ShowPage(r.page + 1) \o NeedText(r.page + 1))

PageRead(r) == IF r.scope = "document" THEN NextPage(r) ELSE Finish

TextArrived(r, page) ==
  IF r.state # "awaiting" \/ r.page # page THEN To(r, <<>>)
  ELSE IF SentenceCount[page] = 0 THEN PageRead(r)
  ELSE SpeakCurrent([r EXCEPT !.loaded = TRUE, !.index = 1])

Started(r) == To(IF r.state = "starting" THEN [r EXCEPT !.state = "speaking"] ELSE r, <<>>)

MutantAdvance(r) ==
  IF r.state \in {"idle", "paused"} THEN To(r, <<>>)
  ELSE IF r.index <= Units(r) THEN SpeakCurrent([r EXCEPT !.index = @ + 1])
  ELSE PageRead(r)
Advance(r) ==
  IF r.state \in {"idle", "paused"} THEN To(r, <<>>)
  ELSE IF r.index < Units(r) THEN SpeakCurrent([r EXCEPT !.index = @ + 1])
  ELSE PageRead(r)

EngineFailed == To(Idle, StopSpeaking)

Pause(r) ==
  IF r.state \in {"idle", "paused"} THEN To(r, <<>>) ELSE To([r EXCEPT !.state = "paused"], StopSpeaking)

Resume(r) ==
  IF r.state # "paused" THEN To(r, <<>>)
  ELSE IF r.loaded THEN SpeakCurrent(r)
  ELSE To([r EXCEPT !.state = "awaiting"], NeedText(r.page))

Stop(r) == IF r.state = "idle" THEN To(r, <<>>) ELSE To(Idle, StopSpeaking)

(* Past the last sentence a skip is what finishing is, paused or not. *)
Skip(r, forward) ==
  LET moved == [r EXCEPT !.index = IF forward THEN @ + 1 ELSE IF @ > 1 THEN @ - 1 ELSE @]
      next  == IF forward /\ r.index >= Units(r) THEN PageRead(r)
               ELSE IF r.state = "paused" THEN To(moved, <<>>) ELSE SpeakCurrent(moved)
  IN  IF ~r.loaded THEN To(r, <<>>) ELSE To(next.reading, StopSpeaking \o next.actions)

(* The two-key rule of toggle and toggle_selection. *)
Toggle(r, scope, page) ==
  CASE r.state = "idle" \/ r.scope # scope -> IF scope = "selection" THEN StartSelection ELSE Start(scope, page)
    [] r.state = "paused" -> Resume(r)
    [] OTHER -> Pause(r)

------------------------------------------------------------------------------
(* The handlers of the event loop.  A handler updates the cursor and then   *)
(* carries out its actions, the other threads running meanwhile.            *)

Free == todo = <<>>

Update(to, rest) == reading' = to.reading /\ todo' = to.actions \o rest

Move == Free /\ moves < MaxMoves /\ moves' = moves + 1 /\ UNCHANGED faults

Threads == <<speaker, generation, commands, events, control, requests, ready, synth, cache, stopping, sounding,
             ending>>

(* The selection's key is the page's; a selection needs a text layer. *)
PressToggle ==
  /\ Move
  /\ \E scope \in {"page", "document", "selection"}, page \in 1..Pages :
       /\ scope = "selection" => link = "text" /\ page = 1
       /\ Update(Toggle(reading, scope, page), <<>>)
  /\ UNCHANGED <<link, asks, untold, Threads>>

PressStop == Move /\ Update(Stop(reading), <<>>) /\ UNCHANGED <<link, asks, untold, Threads>>

PressSkip ==
  /\ Move
  /\ \E forward \in BOOLEAN : Update(Skip(reading, forward), <<>>)
  /\ UNCHANGED <<link, asks, untold, Threads>>

(* Another voice or language, and quitting: the reading ends and the        *)
(* speaker is dropped: its player stopped, its engine ended, Shutdown sent, *)
(* both threads joined.                                                     *)
Dropping == <<Act("silence", 0), Act("end", 0), Act("join", 0)>>
Reprobe ==
  /\ Move
  /\ Update(Stop(reading), IF speaker THEN Dropping ELSE <<>>)
  /\ UNCHANGED <<link, asks, untold, Threads>>

(* The document is put down, or its worker is gone: document_changed, and   *)
(* reader_link = None.                                                      *)
PutDown ==
  /\ Update(To(Idle, StopSpeaking), <<>>)
  /\ link' = "none" /\ asks' = <<>> /\ untold' = FALSE
  /\ UNCHANGED Threads

PutDocumentDown == Move /\ link # "none" /\ PutDown

WorkerLost == Free /\ asks # <<>> /\ faults < MaxFaults /\ faults' = faults + 1 /\ UNCHANGED moves /\ PutDown

LinkUp ==
  /\ Free /\ link = "none"
  /\ link' \in {"text", "textless"}
  /\ UNCHANGED <<reading, todo, asks, untold, Threads, bounds>>

(* The worker's answers, in the order of the requests. *)
Answer == Free /\ asks # <<>> /\ asks' = Tail(asks) /\ UNCHANGED <<link, Threads>>

TellText ==
  /\ Answer
  /\ link = "text" /\ Head(asks) <= Pages
  /\ Update(TextArrived(reading, Head(asks)), <<>>)
  /\ UNCHANGED <<untold, bounds>>

TellCannotSpeak ==
  /\ Answer
  /\ link = "textless"
  /\ Update(Stop(reading), <<>>)
  /\ UNCHANGED <<untold, bounds>>

(* A page that does not exist, and a text refused for its size, are         *)
(* Told::Failed, which says nothing to the reading.                         *)
TellFailed ==
  /\ Answer
  /\ link = "text"
  /\ IF Head(asks) > Pages THEN UNCHANGED faults ELSE faults < MaxFaults /\ faults' = faults + 1
  /\ untold' = TRUE
  /\ UNCHANGED <<reading, todo, moves>>

(* Speech::poll: an event of another generation is dropped unseen. *)
Meaning(event) ==
  CASE event.what = "started"  -> Started(reading)
    [] event.what = "finished" -> Advance(reading)
    [] event.what = "failed"   -> EngineFailed
MutantHeard(event) == Meaning(event)
Heard(event) == IF event.generation = generation THEN Meaning(event) ELSE To(reading, <<>>)

Poll ==
  /\ Free /\ speaker /\ events # <<>>
  /\ events' = Tail(events)
  /\ Update(Heard(Head(events)), <<>>)
  /\ UNCHANGED <<link, asks, untold, speaker, generation, commands, control, synthesis, player, ending, bounds>>

(* carry_out and apply_speech, an action at a time. *)
Carry == todo # <<>> /\ UNCHANGED <<moves>>
Done == todo' = Tail(todo) /\ UNCHANGED reading
Doing(what) == Carry /\ Head(todo).what = what

Outdate ==
  /\ Doing("outdate") /\ Done
  /\ generation' = IF speaker THEN generation + 1 ELSE generation
  /\ UNCHANGED <<link, asks, untold, speaker, commands, events, control, synthesis, player, ending, faults>>

Silenced == stopping' = TRUE /\ sounding' = FALSE
Silence ==
  /\ Doing("silence") /\ Done
  /\ IF speaker THEN Silenced ELSE UNCHANGED player
  /\ UNCHANGED <<link, asks, untold, speaker, generation, commands, events, control, synthesis, ending, faults>>

Resting == [at |-> "idle", generation |-> 0, key |-> NoSentence, next |-> NoSentence, audio |-> "none",
            raced |-> FALSE]
Waiting == [at |-> "idle", key |-> NoSentence]
Empty == [key \in Sentences |-> "none"]
Utterance ==
  [what |-> "speak", generation |-> generation, key |-> Cursor(reading), next |-> Following(reading)]

(* Speaker::send; the first starts the threads. *)
Say ==
  /\ Doing("speak") /\ Done
  /\ speaker' = TRUE /\ commands' = Append(commands, Utterance)
  /\ IF speaker THEN UNCHANGED <<control, synth>>
     ELSE control' = Resting /\ synth' = Waiting
  /\ UNCHANGED <<link, asks, untold, generation, events, requests, ready, cache, player, ending, faults>>

(* The engine would not start: the reading ends, with nothing to stop. *)
CannotSay ==
  /\ Doing("speak") /\ ~speaker
  /\ faults < MaxFaults /\ faults' = faults + 1
  /\ Update(To(Idle, <<>>), Tail(todo))
  /\ UNCHANGED <<link, asks, untold, Threads>>

(* A page past the last ends the reading, and what was to do is still done. *)
Show ==
  /\ Doing("show")
  /\ IF Head(todo).page > Pages THEN Update(Finish, Tail(todo)) ELSE Done
  /\ UNCHANGED <<link, asks, untold, Threads, faults>>

Ask ==
  /\ Doing("ask")
  /\ IF link = "none" THEN Update(Stop(reading), Tail(todo)) /\ UNCHANGED asks
     ELSE Done /\ asks' = Append(asks, Head(todo).page)
  /\ untold' = FALSE
  /\ UNCHANGED <<link, Threads, faults>>

(* EngineStop::stop, then Command::Shutdown. *)
MutantEnd ==
  /\ Doing("end") /\ Done
  /\ commands' = Append(commands, [Utterance EXCEPT !.what = "shutdown"])
  /\ UNCHANGED <<link, asks, untold, speaker, generation, events, control, synthesis, player, ending, faults>>
End ==
  /\ Doing("end") /\ Done
  /\ ending' = TRUE /\ commands' = Append(commands, [Utterance EXCEPT !.what = "shutdown"])
  /\ UNCHANGED <<link, asks, untold, speaker, generation, events, control, synthesis, player, faults>>

(* The threads are joined, and with them go their channels. *)
Join ==
  /\ Doing("join") /\ Done
  /\ control.at = "ended" /\ synth.at = "ended"
  /\ speaker' = FALSE /\ generation' = 0 /\ commands' = <<>> /\ events' = <<>>
  /\ requests' = <<>> /\ ready' = <<>> /\ cache' = Empty
  /\ stopping' = FALSE /\ ending' = FALSE
  /\ UNCHANGED <<link, asks, untold, control, synth, sounding, faults>>

CarryOn == Outdate \/ Silence \/ Say \/ Show \/ Ask \/ End \/ Join

------------------------------------------------------------------------------
(* The control thread.  What it does between two steps that matter to the  *)
(* others, the lookups and the sends, is one step with the one before.     *)

ControlAlone == UNCHANGED <<loop, speaker, generation, ending, moves>>
Stale(g) == g # generation

(* The next command: one outdated in the queue is dropped; a result that is *)
(* at hand is taken from the cache; another is asked for.                   *)
TakeCommand ==
  /\ control.at = "idle" /\ commands # <<>> /\ commands' = Tail(commands)
  /\ LET c == Head(commands)
         utterance == [Resting EXCEPT !.generation = c.generation, !.key = c.key, !.next = c.next]
     IN
       \/ /\ c.what = "shutdown"
          /\ control' = [Resting EXCEPT !.at = "ended"] /\ Silenced /\ UNCHANGED <<requests, cache>>
       \/ /\ c.what = "speak" /\ Stale(c.generation)
          /\ UNCHANGED <<control, requests, cache, player>>
       \/ /\ c.what = "speak" /\ ~Stale(c.generation) /\ cache[c.key] # "none"
          /\ control' = [utterance EXCEPT !.at = "hand", !.audio = cache[c.key]]
          /\ cache' = [cache EXCEPT ![c.key] = "none"]
          /\ UNCHANGED <<requests, player>>
       \/ /\ c.what = "speak" /\ ~Stale(c.generation) /\ cache[c.key] = "none"
          /\ control' = [utterance EXCEPT !.at = "await"]
          /\ requests' = Append(requests, c.key)
          /\ UNCHANGED <<cache, player>>
  /\ UNCHANGED <<events, ready, synth, faults>> /\ ControlAlone

(* A key is ready: results of other sentences stay in the cache. *)
HearReady ==
  /\ control.at = "await" /\ ready # <<>> /\ ready' = Tail(ready)
  /\ IF Head(ready) = control.key
     THEN /\ control' = [control EXCEPT !.at = "hand",
                           !.audio = IF cache[control.key] = "none" THEN "lost" ELSE cache[control.key]]
          /\ cache' = [cache EXCEPT ![control.key] = "none"]
     ELSE UNCHANGED <<control, cache>>
  /\ UNCHANGED <<commands, events, requests, synth, player, faults>> /\ ControlAlone

Report(what) == events' = Append(events, [generation |-> control.generation, what |-> what, key |-> control.key])

(* The next sentence is asked for; then an outdated one is not played, a    *)
(* failure is reported, and audio is announced.                             *)
Prefetch ==
  requests' = IF control.next # NoSentence /\ cache[control.next] = "none" THEN Append(requests, control.next)
              ELSE requests

CheckCurrent ==
  /\ control.at = "hand" /\ Prefetch
  /\ \/ Stale(control.generation) /\ control' = Resting /\ UNCHANGED events
     \/ ~Stale(control.generation) /\ control.audio # "pcm" /\ control' = Resting /\ Report("failed")
     \/ ~Stale(control.generation) /\ control.audio = "pcm" /\ control' = [control EXCEPT !.at = "announced"]
        /\ Report("started")
  /\ UNCHANGED <<commands, ready, synth, cache, player, faults>> /\ ControlAlone

(* Player::arm.  Raced: every stop that outdated the utterance is over.     *)
Arm ==
  /\ control.at = "announced"
  /\ stopping' = FALSE
  /\ control' = [control EXCEPT !.at = "armed",
                   !.raced = Stale(control.generation) /\ Act("silence", 0) \notin Range(todo)]
  /\ UNCHANGED <<sounding, commands, events, synthesis, faults>> /\ ControlAlone

(* Player::play spawns and registers; a stop since it was armed kills.      *)
MutantRegister ==
  /\ control.at = "armed"
  /\ control' = [control EXCEPT !.at = "playing"] /\ sounding' = TRUE
  /\ UNCHANGED <<stopping, commands, events, synthesis, faults>> /\ ControlAlone
Register ==
  /\ control.at = "armed"
  /\ IF stopping THEN control' = Resting /\ UNCHANGED sounding
     ELSE control' = [control EXCEPT !.at = "playing"] /\ sounding' = TRUE
  /\ UNCHANGED <<stopping, commands, events, synthesis, faults>> /\ ControlAlone

PlayEnds ==
  /\ control.at = "playing" /\ sounding
  /\ sounding' = FALSE /\ control' = Resting /\ Report("finished")
  /\ UNCHANGED <<stopping, commands, synthesis, faults>> /\ ControlAlone

(* The child is gone: silent when it was stopped, else a failure. *)
PlayCut ==
  /\ control.at = "playing" /\ ~sounding
  /\ control' = Resting
  /\ IF stopping THEN UNCHANGED events ELSE Report("failed")
  /\ UNCHANGED <<commands, synthesis, player, faults>> /\ ControlAlone

(* The player does not start, or dies on its own. *)
PlayFails ==
  /\ control.at = "armed" \/ sounding
  /\ faults < MaxFaults /\ faults' = faults + 1
  /\ sounding' = FALSE /\ control' = Resting /\ Report("failed")
  /\ UNCHANGED <<stopping, commands, synthesis>> /\ ControlAlone

ControlSteps == TakeCommand \/ HearReady \/ CheckCurrent \/ Arm \/ Register \/ PlayEnds \/ PlayCut

------------------------------------------------------------------------------
(* The synthesis thread. *)

SynthAlone == UNCHANGED <<loop, speaker, generation, commands, events, control, player, ending, moves>>

TakeRequest ==
  /\ synth.at = "idle" /\ requests # <<>> /\ requests' = Tail(requests)
  /\ LET key == Head(requests) IN
       IF cache[key] # "none"
       THEN ready' = Append(ready, key) /\ UNCHANGED synth
       ELSE synth' = [at |-> "busy", key |-> key] /\ UNCHANGED ready
  /\ UNCHANGED <<cache, faults>> /\ SynthAlone

Cached(c, key, result) ==
  LET kept == [c EXCEPT ![key] = result] IN
  IF Cardinality({k \in Sentences : kept[k] # "none"}) > MaxCached
  THEN [Empty EXCEPT ![key] = result]
  ELSE kept

Synthesized(result) ==
  /\ cache' = Cached(cache, synth.key, result)
  /\ ready' = Append(ready, synth.key)
  /\ synth' = Waiting
  /\ UNCHANGED requests /\ SynthAlone

(* An engine that was ended refuses; one that hangs ends only so. *)
SynthesisEnds ==
  \/ synth.at = "busy" /\ ~ending /\ Synthesized("pcm") /\ UNCHANGED faults
  \/ synth.at \in {"busy", "hung"} /\ ending /\ Synthesized("error") /\ UNCHANGED faults
SynthesisFails ==
  synth.at = "busy" /\ faults < MaxFaults /\ faults' = faults + 1 /\ Synthesized("error")
SynthesisHangs ==
  /\ synth.at = "busy" /\ faults < MaxFaults /\ faults' = faults + 1
  /\ synth' = [synth EXCEPT !.at = "hung"]
  /\ UNCHANGED <<requests, ready, cache>> /\ SynthAlone

(* The control thread is gone and its requests are done. *)
SynthLeaves ==
  /\ synth.at = "idle" /\ requests = <<>> /\ control.at = "ended"
  /\ synth' = [synth EXCEPT !.at = "ended"]
  /\ UNCHANGED <<requests, ready, cache, faults>> /\ SynthAlone

SynthSteps == TakeRequest \/ SynthesisEnds \/ SynthLeaves

------------------------------------------------------------------------------
Init ==
  /\ reading = Idle /\ todo = <<>>
  /\ link \in {"none", "text", "textless"} /\ asks = <<>> /\ untold = FALSE
  /\ speaker = FALSE /\ generation = 0 /\ commands = <<>> /\ events = <<>>
  /\ control = [Resting EXCEPT !.at = "ended"] /\ synth = [Waiting EXCEPT !.at = "ended"]
  /\ requests = <<>> /\ ready = <<>> /\ cache = Empty
  /\ stopping = FALSE /\ sounding = FALSE /\ ending = FALSE
  /\ moves = 0 /\ faults = 0

Keys == PressToggle \/ PressStop \/ PressSkip \/ Reprobe \/ PutDocumentDown
Answers == TellText \/ TellCannotSpeak \/ TellFailed
Faults == WorkerLost \/ CannotSay \/ PlayFails \/ SynthesisFails \/ SynthesisHangs

Next == Keys \/ Answers \/ LinkUp \/ Poll \/ CarryOn \/ ControlSteps \/ SynthSteps \/ Faults

Spec == Init /\ [][Next]_vars

(* The event loop carries on and polls, the document worker answers, the    *)
(* threads run, a player reaches the end of its audio and an engine that    *)
(* does not hang answers or is ended.                                       *)
Fairness ==
  /\ WF_vars(CarryOn) /\ WF_vars(Poll) /\ WF_vars(Answers)
  /\ WF_vars(ControlSteps) /\ WF_vars(SynthSteps)

FairSpec == Spec /\ Fairness

------------------------------------------------------------------------------
Talking == reading.state \in {"starting", "speaking"}

TypeOK ==
  /\ reading \in [scope : {"none", "page", "document", "selection"}, page : 0..(Pages + 1), index : Nat,
                  loaded : BOOLEAN, state : {"idle", "starting", "speaking", "paused", "awaiting"}]
  /\ (reading = Idle) = (reading.state = "idle")
  /\ reading.loaded => reading.index \in 1..SentenceCount[reading.page]
  /\ Talking => reading.loaded
  /\ \A i \in DOMAIN todo : todo[i].page \in 0..(Pages + 1)
  /\ link \in {"none", "text", "textless"}
  /\ asks \in Seq(1..(Pages + 1)) /\ (link = "none" => asks = <<>>)
  /\ speaker \in BOOLEAN /\ generation \in Nat
  /\ control.at \in {"idle", "await", "hand", "announced", "armed", "playing", "ended"}
  /\ control.key \in Sentences \union {NoSentence} /\ control.next \in Sentences \union {NoSentence}
  /\ requests \in Seq(Sentences) /\ ready \in Seq(Sentences)
  /\ synth \in [at : {"idle", "busy", "hung", "ended"}, key : Sentences \union {NoSentence}]
  /\ cache \in [Sentences -> {"none", "pcm", "error"}]
  /\ Cardinality({k \in Sentences : cache[k] # "none"}) <= MaxCached
  /\ {stopping, sounding, ending, untold} \subseteq BOOLEAN
  /\ moves \in 0..MaxMoves /\ faults \in 0..MaxFaults

(* Exactly one utterance of the current generation is under way while the   *)
(* reading talks, none otherwise, and it is of the sentence at the cursor:  *)
(* commanded, in the control thread's hand, or over and not yet heard of.   *)
(* A reading that waits for text has a request unanswered, or one that was  *)
(* refused without a word to it (reader_link.rs:684).  So an old utterance  *)
(* never moves the cursor of a new reading, no sentence is passed over that *)
(* was not heard to its end or skipped, and no reading waits for nothing.   *)
(* An utterance is told by where it is, its place there, and its sentence.  *)
Commanded ==
  {<<"commands", i, commands[i].key>> :
     i \in {n \in DOMAIN commands : commands[n].what = "speak" /\ ~Stale(commands[n].generation)}}
Over ==
  {<<"events", i, events[i].key>> :
     i \in {n \in DOMAIN events : events[n].what # "started" /\ ~Stale(events[n].generation)}}
InHand ==
  IF control.at \in {"idle", "ended"} \/ Stale(control.generation) THEN {}
  ELSE {<<"control", 0, control.key>>}
UnderWay == Commanded \union InHand \union Over

Accompanied ==
  Free =>
    /\ IF Talking THEN \E u \in UnderWay : UnderWay = {u} ELSE UnderWay = {}
    /\ \A u \in UnderWay : u[3] = Cursor(reading)
    /\ reading.state = "awaiting" => reading.page \in Range(asks) \/ untold

(* Once a stop, a pause, a skip or a closed document has been carried out,  *)
(* what is audible is the sentence at the cursor of a reading that talks,   *)
(* and nothing outlives the speaker.  Left out by name: an utterance whose  *)
(* last check passed before the stop and that was armed after it (Raced).   *)
QuietWhenStopped ==
  /\ sounding => speaker
  /\ sounding /\ Free => control.raced \/ (Talking /\ ~Stale(control.generation))

(* Every wait of the reader ends: for a sentence to begin, unless the       *)
(* engine hangs, which has no deadline; for it to end; for the text of a    *)
(* page, unless it was refused without a word; and for the speaker's        *)
(* threads when it is dropped, even if the engine hangs.                    *)
WaitsEnd ==
  /\ reading.state = "starting" ~> reading.state # "starting" \/ synth.at = "hung"
  /\ reading.state = "speaking" ~> reading.state # "speaking"
  /\ reading.state = "awaiting" ~> reading.state # "awaiting" \/ untold
  /\ ~Free ~> Free

(* The control thread that is told its result is ready finds it in the      *)
(* cache.  Does not hold: a prefetched sentence is taken without its        *)
(* notice, which answers the next request for the same sentence too early.  *)
ResultInHand ==
  control.at = "await" /\ ready # <<>> /\ Head(ready) = control.key => cache[control.key] # "none"
=============================================================================
