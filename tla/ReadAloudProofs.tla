------------------------- MODULE ReadAloudProofs -------------------------
(***************************************************************************)
(* Theorems about ReadAloud, for every document, cache and bound: its      *)
(* types, that exactly one utterance accompanies a reading that talks, and *)
(* that a stop that was carried out silences the speaker.                  *)
(*                                                                         *)
(* What the handlers of the event loop still have to carry out is one of a *)
(* few plans (Planned), in each of which whatever was under way has been   *)
(* outdated before the next sentence is said (Still); a generation is      *)
(* never ahead of the speaker's (Stamped), so one outdated stays so; and a *)
(* player is only armed after its utterance was outdated if the stop is    *)
(* still to come, unless it raced (Heeded).                                *)
(***************************************************************************)
EXTENDS ReadAloud, FiniteSetTheorems, SequenceTheorems, TLAPS

-----------------------------------------------------------------------------
(* The inductive invariant. *)

ToOutdate == Act("outdate", 0)
ToSilence == Act("silence", 0)
ToSpeak   == Act("speak", 0)
ToEnd     == Act("end", 0)
ToJoin    == Act("join", 0)

(* What a handler may still have to do: up to saying a sentence, asking for  *)
(* the text of a page, stopping, or dropping the speaker.                    *)
TalkPlans == {<<ToOutdate, ToSilence, ToSpeak>>, <<ToSilence, ToSpeak>>, <<ToSpeak>>}
AskPlans(page) ==
  {<<ToOutdate, ToSilence, Act("show", page), Act("ask", page)>>,
   <<ToSilence, Act("show", page), Act("ask", page)>>, <<Act("show", page), Act("ask", page)>>,
   <<ToOutdate, ToSilence, Act("ask", page)>>, <<ToSilence, Act("ask", page)>>,
   <<Act("ask", page)>>}
StopPlans ==
  {<<ToOutdate, ToSilence, ToOutdate, ToSilence>>, <<ToSilence, ToOutdate, ToSilence>>,
   <<ToOutdate, ToSilence>>, <<ToSilence>>}
DropPlans ==
  {<<ToOutdate, ToSilence, ToSilence, ToEnd, ToJoin>>, <<ToSilence, ToSilence, ToEnd, ToJoin>>,
   <<ToSilence, ToEnd, ToJoin>>, <<ToEnd, ToJoin>>, <<ToJoin>>}

(* The cursor that goes with each. *)
Fits(r, actions) ==
  \/ actions \in TalkPlans /\ r.state = "starting"
  \/ \E page \in 1..(Pages + 1) :
       /\ actions \in AskPlans(page)
       /\ r.state = "idle" \/ (r.state = "awaiting" /\ r.page = page)
  \/ actions \in StopPlans /\ r.state \in {"idle", "paused"}

Planned ==
  \/ Free
  \/ Fits(reading, todo)
  \/ todo \in DropPlans /\ reading.state = "idle" /\ speaker

States == {"idle", "starting", "speaking", "paused", "awaiting"}
Readings ==
  [scope : {"none", "page", "document", "selection"}, page : 0..(Pages + 1), index : Nat,
   loaded : BOOLEAN, state : States]

(* What is loaded is a page of the document, and a sentence of it.           *)
ReadingOK(r) ==
  /\ r \in Readings
  /\ (r = Idle) = (r.state = "idle")
  /\ r.loaded => r.page \in 0..Pages /\ r.index \in 1..SentenceCount[r.page]
  /\ r.state \in {"starting", "speaking"} => r.loaded
  /\ r.state # "idle" /\ ~r.loaded => r.page \in 1..(Pages + 1)

Optional == Sentences \union {NoSentence}
Commands ==
  [what : {"speak"}, generation : Nat, key : Sentences, next : Optional]
    \union [what : {"shutdown"}, generation : Nat, key : Nat \X Nat, next : Nat \X Nat]
Events == [generation : Nat, what : {"started", "finished", "failed"}, key : Sentences]
Controls ==
  [at : {"idle", "await", "hand", "announced", "armed", "playing", "ended"}, generation : Nat,
   key : Optional, next : Optional, audio : {"none", "pcm", "error", "lost"}, raced : BOOLEAN]

Filled ==
  /\ commands \in Seq(Commands) /\ events \in Seq(Events) /\ control \in Controls
  /\ control.at \notin {"idle", "ended"} => control.key \in Sentences

LoopType ==
  /\ ReadingOK(reading)
  /\ link \in {"none", "text", "textless"}
  /\ asks \in Seq(1..(Pages + 1)) /\ (link = "none" => asks = <<>>)
  /\ untold \in BOOLEAN /\ moves \in 0..MaxMoves /\ faults \in 0..MaxFaults
ThreadType ==
  /\ speaker \in BOOLEAN /\ generation \in Nat
  /\ Filled
  /\ stopping \in BOOLEAN /\ sounding \in BOOLEAN /\ ending \in BOOLEAN
SynthType ==
  /\ requests \in Seq(Sentences) /\ ready \in Seq(Sentences)
  /\ synth \in [at : {"idle", "busy", "hung", "ended"}, key : Optional]
  /\ synth.at \in {"busy", "hung"} => synth.key \in Sentences
  /\ cache \in [Sentences -> {"none", "pcm", "error"}]
  /\ Cardinality({k \in Sentences : cache[k] # "none"}) <= MaxCached

(* No generation is ahead of the speaker's. *)
Stamped ==
  /\ \A i \in DOMAIN commands : commands[i].generation <= generation
  /\ \A i \in DOMAIN events : events[i].generation <= generation
  /\ control.generation <= generation
  /\ control.at = "ended" => control.generation = 0

Unused == ~speaker => commands = <<>> /\ events = <<>> /\ control.at = "ended"

(* In mid-handler, once what was under way is outdated, nothing is. *)
Still == ~Free /\ Head(todo).what # "outdate" => UnderWay = {}

(* A stop reaches what was armed before it. *)
Hushing == ToSilence \in Range(todo)
Heeded ==
  /\ sounding => control.at = "playing"
  /\ control.at \in {"armed", "playing"} /\ ~Stale(control.generation) => ~stopping
  /\ control.at \in {"armed", "playing"} /\ Stale(control.generation) /\ ~control.raced =>
       \/ Hushing
       \/ control.at = "armed" /\ stopping
       \/ control.at = "playing" /\ ~sounding

TypeInv == LoopType /\ ThreadType /\ SynthType /\ Planned /\ Stamped /\ Unused

(* Accompanied, in the terms the proof goes by. *)
Sole == \E u : UnderWay = {u} /\ u[3] = Cursor(reading)
Company ==
  /\ Talking => Sole
  /\ ~Talking => UnderWay = {}
  /\ reading.state = "awaiting" => reading.page \in Range(asks) \/ untold

ReadInv == TypeInv /\ Still /\ (Free => Company) /\ Heeded

-----------------------------------------------------------------------------
(* Plans: the sequences of actions a handler is left with. *)

LEMMA ActIs == \A what, page : Act(what, page).what = what /\ Act(what, page).page = page
  BY DEF Act

LEMMA TwoAndOne == \A a, b, c : <<a, b>> \o <<c>> = <<a, b, c>>
<1> SUFFICES ASSUME NEW a, NEW b, NEW c PROVE <<a, b>> \o <<c>> = <<a, b, c>>
  OBVIOUS
<1> DEFINE S == {a, b, c}
           s == <<a, b>> \o <<c>>
<1>1. <<a, b>> \in Seq(S) /\ <<c>> \in Seq(S) /\ <<a, b, c>> \in Seq(S)
  OBVIOUS
<1>2. s \in Seq(S) /\ Len(s) = 3 /\ s[1] = a /\ s[2] = b /\ s[3] = c
  BY <1>1
<1>3. \A i \in 1..3 : s[i] = <<a, b, c>>[i]
  BY <1>2
<1> HIDE DEF s, S
<1>4. s = <<a, b, c>>
  BY <1>1, <1>2, <1>3, SeqEqual
<1> QED
  BY <1>4 DEF s

LEMMA TwoAndTwo == \A a, b, c, d : <<a, b>> \o <<c, d>> = <<a, b, c, d>>
<1> SUFFICES ASSUME NEW a, NEW b, NEW c, NEW d PROVE <<a, b>> \o <<c, d>> = <<a, b, c, d>>
  OBVIOUS
<1> DEFINE S == {a, b, c, d}
           s == <<a, b>> \o <<c, d>>
<1>1. <<a, b>> \in Seq(S) /\ <<c, d>> \in Seq(S) /\ <<a, b, c, d>> \in Seq(S)
  OBVIOUS
<1>2. s \in Seq(S) /\ Len(s) = 4 /\ s[1] = a /\ s[2] = b /\ s[3] = c /\ s[4] = d
  BY <1>1
<1>3. \A i \in 1..4 : s[i] = <<a, b, c, d>>[i]
  BY <1>2
<1> HIDE DEF s, S
<1>4. s = <<a, b, c, d>>
  BY <1>1, <1>2, <1>3, SeqEqual
<1> QED
  BY <1>4 DEF s

LEMMA TwoAndThree == \A a, b, c, d, e : <<a, b>> \o <<c, d, e>> = <<a, b, c, d, e>>
<1> SUFFICES ASSUME NEW a, NEW b, NEW c, NEW d, NEW e
             PROVE  <<a, b>> \o <<c, d, e>> = <<a, b, c, d, e>>
  OBVIOUS
<1> DEFINE S == {a, b, c, d, e}
           s == <<a, b>> \o <<c, d, e>>
<1>1. <<a, b>> \in Seq(S) /\ <<c, d, e>> \in Seq(S) /\ <<a, b, c, d, e>> \in Seq(S)
  OBVIOUS
<1>2. s \in Seq(S) /\ Len(s) = 5 /\ s[1] = a /\ s[2] = b /\ s[3] = c /\ s[4] = d /\ s[5] = e
  BY <1>1
<1>3. \A i \in 1..5 : s[i] = <<a, b, c, d, e>>[i]
  BY <1>2
<1> HIDE DEF s, S
<1>4. s = <<a, b, c, d, e>>
  BY <1>1, <1>2, <1>3, SeqEqual
<1> QED
  BY <1>4 DEF s

LEMMA AndNothing ==
  /\ \A a, b : <<a, b>> \o <<>> = <<a, b>>
  /\ \A a, b, c : <<>> \o <<a, b, c>> = <<a, b, c>>
  /\ \A a, b : <<a>> \o <<b>> = <<a, b>>
<1>1. ASSUME NEW a, NEW b PROVE <<a, b>> \o <<>> = <<a, b>>
  <2>1. <<a, b>> \in Seq({a, b})
    OBVIOUS
  <2> QED
    BY <2>1, ConcatEmptySeq
<1>2. ASSUME NEW a, NEW b, NEW c PROVE <<>> \o <<a, b, c>> = <<a, b, c>>
  <2>1. <<a, b, c>> \in Seq({a, b, c})
    OBVIOUS
  <2> QED
    BY <2>1, ConcatEmptySeq
<1>3. ASSUME NEW a, NEW b PROVE <<a>> \o <<b>> = <<a, b>>
  <2>1. <<a>> \in Seq({a, b}) /\ <<b>> \in Seq({a, b}) /\ <<a, b>> \in Seq({a, b})
    OBVIOUS
  <2>2. <<a>> \o <<b>> \in Seq({a, b}) /\ Len(<<a>> \o <<b>>) = 2
    BY <2>1
  <2>3. \A i \in 1..2 : (<<a>> \o <<b>>)[i] = <<a, b>>[i]
    BY <2>1
  <2> QED
    BY <2>1, <2>2, <2>3, SeqEqual
<1> QED
  BY <1>1, <1>2, <1>3

LEMMA Heads ==
  /\ \A a : Head(<<a>>) = a
  /\ \A a, b : Head(<<a, b>>) = a
  /\ \A a, b, c : Head(<<a, b, c>>) = a
  /\ \A a, b, c, d : Head(<<a, b, c, d>>) = a
  /\ \A a, b, c, d, e : Head(<<a, b, c, d, e>>) = a
  OBVIOUS

LEMMA Tails ==
  /\ \A a : Tail(<<a>>) = <<>>
  /\ \A a, b : Tail(<<a, b>>) = <<b>>
  /\ \A a, b, c : Tail(<<a, b, c>>) = <<b, c>>
  /\ \A a, b, c, d : Tail(<<a, b, c, d>>) = <<b, c, d>>
  /\ \A a, b, c, d, e : Tail(<<a, b, c, d, e>>) = <<b, c, d, e>>
  OBVIOUS

LEMMA Nonempty ==
  /\ \A a : <<a>> # <<>>
  /\ \A a, b : <<a, b>> # <<>>
  /\ \A a, b, c : <<a, b, c>> # <<>>
  /\ \A a, b, c, d : <<a, b, c, d>> # <<>>
  /\ \A a, b, c, d, e : <<a, b, c, d, e>> # <<>>
  OBVIOUS

LEMMA Apart ==
  /\ ToOutdate # ToSilence /\ ToOutdate # ToSpeak /\ ToOutdate # ToEnd /\ ToOutdate # ToJoin
  /\ ToSilence # ToSpeak /\ ToSilence # ToEnd /\ ToSilence # ToJoin /\ ToEnd # ToJoin
  /\ \A page, other : /\ Act("ask", page) # Act("show", other)
                      /\ Act("ask", page) \notin {ToOutdate, ToSilence}
                      /\ Act("show", page) \notin {ToOutdate, ToSilence}
  BY ActIs DEF ToOutdate, ToSilence, ToSpeak, ToEnd, ToJoin

(* What the cursor asks for, written out. *)
LEMMA Actions ==
  /\ StopSpeaking = <<ToOutdate, ToSilence>> /\ Speak = <<ToSpeak>>
  /\ StopSpeaking \o Speak = <<ToOutdate, ToSilence, ToSpeak>>
  /\ StopSpeaking \o StopSpeaking = <<ToOutdate, ToSilence, ToOutdate, ToSilence>>
  /\ StopSpeaking \o <<>> = <<ToOutdate, ToSilence>>
  /\ \A page : NeedText(page) = <<Act("ask", page)>>
  /\ \A page : ShowPage(page) \o NeedText(page) = <<Act("show", page), Act("ask", page)>>
  /\ \A page : StopSpeaking \o <<Act("ask", page)>> = <<ToOutdate, ToSilence, Act("ask", page)>>
  /\ \A page : StopSpeaking \o <<Act("show", page), Act("ask", page)>> =
                 <<ToOutdate, ToSilence, Act("show", page), Act("ask", page)>>
  /\ <<>> \o Dropping = <<ToSilence, ToEnd, ToJoin>>
  /\ StopSpeaking \o Dropping = <<ToOutdate, ToSilence, ToSilence, ToEnd, ToJoin>>
<1>1. StopSpeaking = <<ToOutdate, ToSilence>> /\ Speak = <<ToSpeak>>
  BY DEF StopSpeaking, Speak, ToOutdate, ToSilence, ToSpeak
<1>2. Dropping = <<ToSilence, ToEnd, ToJoin>>
  BY DEF Dropping, ToSilence, ToEnd, ToJoin
<1>3. \A page : NeedText(page) = <<Act("ask", page)>> /\ ShowPage(page) = <<Act("show", page)>>
  BY DEF NeedText, ShowPage
<1>4. StopSpeaking \o Speak = <<ToOutdate, ToSilence, ToSpeak>>
  BY <1>1, TwoAndOne
<1>5. StopSpeaking \o StopSpeaking = <<ToOutdate, ToSilence, ToOutdate, ToSilence>>
  BY <1>1, TwoAndTwo
<1>6. StopSpeaking \o <<>> = <<ToOutdate, ToSilence>>
  BY <1>1, AndNothing
<1>7. \A page : ShowPage(page) \o NeedText(page) = <<Act("show", page), Act("ask", page)>>
  BY <1>3, AndNothing
<1>8. \A page : StopSpeaking \o <<Act("ask", page)>> = <<ToOutdate, ToSilence, Act("ask", page)>>
  BY <1>1, TwoAndOne
<1>9. \A page : StopSpeaking \o <<Act("show", page), Act("ask", page)>> =
                  <<ToOutdate, ToSilence, Act("show", page), Act("ask", page)>>
  BY <1>1, TwoAndTwo
<1>10. <<>> \o Dropping = <<ToSilence, ToEnd, ToJoin>>
  BY <1>2, AndNothing
<1>11. StopSpeaking \o Dropping = <<ToOutdate, ToSilence, ToSilence, ToEnd, ToJoin>>
  BY <1>1, <1>2, TwoAndThree
<1> QED
  BY <1>1, <1>3, <1>4, <1>5, <1>6, <1>7, <1>8, <1>9, <1>10, <1>11

(* What the next action may be, and what is left after it. *)
LEMMA TalkOn ==
  ASSUME NEW t \in TalkPlans
  PROVE  /\ t # <<>> /\ Head(t) \in {ToOutdate, ToSilence, ToSpeak}
         /\ Head(t) = ToOutdate => Tail(t) \in TalkPlans /\ Head(Tail(t)) = ToSilence
         /\ Head(t) = ToSilence => Tail(t) \in TalkPlans
         /\ Head(t) = ToSpeak => Tail(t) = <<>>
<1>1. CASE t = <<ToOutdate, ToSilence, ToSpeak>>
  <2>1. t # <<>> /\ Head(t) = ToOutdate /\ Tail(t) = <<ToSilence, ToSpeak>>
    BY <1>1, Heads, Tails, Nonempty
  <2>2. Head(<<ToSilence, ToSpeak>>) = ToSilence
    BY Heads
  <2> QED
    BY <2>1, <2>2, Apart DEF TalkPlans
<1>2. CASE t = <<ToSilence, ToSpeak>>
  <2>1. t # <<>> /\ Head(t) = ToSilence /\ Tail(t) = <<ToSpeak>>
    BY <1>2, Heads, Tails, Nonempty
  <2>2. Head(<<ToSpeak>>) = ToSpeak
    BY Heads
  <2> QED
    BY <2>1, <2>2, Apart DEF TalkPlans
<1>3. CASE t = <<ToSpeak>>
  <2>1. t # <<>> /\ Head(t) = ToSpeak /\ Tail(t) = <<>>
    BY <1>3, Heads, Tails, Nonempty
  <2> QED
    BY <2>1, Apart DEF TalkPlans
<1> QED
  BY <1>1, <1>2, <1>3 DEF TalkPlans

LEMMA AskOn ==
  ASSUME NEW page, NEW t \in AskPlans(page)
  PROVE  /\ t # <<>> /\ Head(t) \in {ToOutdate, ToSilence, Act("show", page), Act("ask", page)}
         /\ Head(t) = ToOutdate => Tail(t) \in AskPlans(page) /\ Head(Tail(t)) = ToSilence
         /\ Head(t) = ToSilence => Tail(t) \in AskPlans(page)
         /\ Head(t) = Act("show", page) => Tail(t) = <<Act("ask", page)>>
         /\ Head(t) = Act("ask", page) => Tail(t) = <<>>
<1>1. CASE t = <<ToOutdate, ToSilence, Act("show", page), Act("ask", page)>>
  <2>1. t # <<>> /\ Head(t) = ToOutdate /\ Tail(t) = <<ToSilence, Act("show", page), Act("ask", page)>>
    BY <1>1, Heads, Tails, Nonempty
  <2>2. Head(<<ToSilence, Act("show", page), Act("ask", page)>>) = ToSilence
    BY Heads
  <2> QED
    BY <2>1, <2>2, Apart DEF AskPlans
<1>2. CASE t = <<ToSilence, Act("show", page), Act("ask", page)>>
  <2>1. t # <<>> /\ Head(t) = ToSilence /\ Tail(t) = <<Act("show", page), Act("ask", page)>>
    BY <1>2, Heads, Tails, Nonempty
  <2>2. Head(<<Act("show", page), Act("ask", page)>>) = Act("show", page)
    BY Heads
  <2> QED
    BY <2>1, <2>2, Apart DEF AskPlans
<1>3. CASE t = <<Act("show", page), Act("ask", page)>>
  <2>1. t # <<>> /\ Head(t) = Act("show", page) /\ Tail(t) = <<Act("ask", page)>>
    BY <1>3, Heads, Tails, Nonempty
  <2>2. Head(<<Act("ask", page)>>) = Act("ask", page)
    BY Heads
  <2> QED
    BY <2>1, <2>2, Apart DEF AskPlans
<1>4. CASE t = <<ToOutdate, ToSilence, Act("ask", page)>>
  <2>1. t # <<>> /\ Head(t) = ToOutdate /\ Tail(t) = <<ToSilence, Act("ask", page)>>
    BY <1>4, Heads, Tails, Nonempty
  <2>2. Head(<<ToSilence, Act("ask", page)>>) = ToSilence
    BY Heads
  <2> QED
    BY <2>1, <2>2, Apart DEF AskPlans
<1>5. CASE t = <<ToSilence, Act("ask", page)>>
  <2>1. t # <<>> /\ Head(t) = ToSilence /\ Tail(t) = <<Act("ask", page)>>
    BY <1>5, Heads, Tails, Nonempty
  <2>2. Head(<<Act("ask", page)>>) = Act("ask", page)
    BY Heads
  <2> QED
    BY <2>1, <2>2, Apart DEF AskPlans
<1>6. CASE t = <<Act("ask", page)>>
  <2>1. t # <<>> /\ Head(t) = Act("ask", page) /\ Tail(t) = <<>>
    BY <1>6, Heads, Tails, Nonempty
  <2> QED
    BY <2>1, Apart DEF AskPlans
<1> QED
  BY <1>1, <1>2, <1>3, <1>4, <1>5, <1>6 DEF AskPlans

LEMMA StopOn ==
  ASSUME NEW t \in StopPlans
  PROVE  /\ t # <<>> /\ Head(t) \in {ToOutdate, ToSilence}
         /\ Head(t) = ToOutdate => Tail(t) \in StopPlans /\ Head(Tail(t)) = ToSilence
         /\ Tail(t) = <<>> \/ Tail(t) \in StopPlans
<1>1. CASE t = <<ToOutdate, ToSilence, ToOutdate, ToSilence>>
  <2>1. t # <<>> /\ Head(t) = ToOutdate /\ Tail(t) = <<ToSilence, ToOutdate, ToSilence>>
    BY <1>1, Heads, Tails, Nonempty
  <2>2. Head(<<ToSilence, ToOutdate, ToSilence>>) = ToSilence
    BY Heads
  <2> QED
    BY <2>1, <2>2, Apart DEF StopPlans
<1>2. CASE t = <<ToSilence, ToOutdate, ToSilence>>
  <2>1. t # <<>> /\ Head(t) = ToSilence /\ Tail(t) = <<ToOutdate, ToSilence>>
    BY <1>2, Heads, Tails, Nonempty
  <2>2. Head(<<ToOutdate, ToSilence>>) = ToOutdate
    BY Heads
  <2> QED
    BY <2>1, <2>2, Apart DEF StopPlans
<1>3. CASE t = <<ToOutdate, ToSilence>>
  <2>1. t # <<>> /\ Head(t) = ToOutdate /\ Tail(t) = <<ToSilence>>
    BY <1>3, Heads, Tails, Nonempty
  <2>2. Head(<<ToSilence>>) = ToSilence
    BY Heads
  <2> QED
    BY <2>1, <2>2, Apart DEF StopPlans
<1>4. CASE t = <<ToSilence>>
  <2>1. t # <<>> /\ Head(t) = ToSilence /\ Tail(t) = <<>>
    BY <1>4, Heads, Tails, Nonempty
  <2> QED
    BY <2>1, Apart DEF StopPlans
<1> QED
  BY <1>1, <1>2, <1>3, <1>4 DEF StopPlans

LEMMA DropOn ==
  ASSUME NEW t \in DropPlans
  PROVE  /\ t # <<>> /\ Head(t) \in {ToOutdate, ToSilence, ToEnd, ToJoin}
         /\ Head(t) = ToOutdate => Tail(t) \in DropPlans /\ Head(Tail(t)) = ToSilence
         /\ Head(t) = ToJoin => Tail(t) = <<>>
         /\ Head(t) # ToJoin => Tail(t) \in DropPlans
<1>1. CASE t = <<ToOutdate, ToSilence, ToSilence, ToEnd, ToJoin>>
  <2>1. t # <<>> /\ Head(t) = ToOutdate /\ Tail(t) = <<ToSilence, ToSilence, ToEnd, ToJoin>>
    BY <1>1, Heads, Tails, Nonempty
  <2>2. Head(<<ToSilence, ToSilence, ToEnd, ToJoin>>) = ToSilence
    BY Heads
  <2> QED
    BY <2>1, <2>2, Apart DEF DropPlans
<1>2. CASE t = <<ToSilence, ToSilence, ToEnd, ToJoin>>
  <2>1. t # <<>> /\ Head(t) = ToSilence /\ Tail(t) = <<ToSilence, ToEnd, ToJoin>>
    BY <1>2, Heads, Tails, Nonempty
  <2>2. Head(<<ToSilence, ToEnd, ToJoin>>) = ToSilence
    BY Heads
  <2> QED
    BY <2>1, <2>2, Apart DEF DropPlans
<1>3. CASE t = <<ToSilence, ToEnd, ToJoin>>
  <2>1. t # <<>> /\ Head(t) = ToSilence /\ Tail(t) = <<ToEnd, ToJoin>>
    BY <1>3, Heads, Tails, Nonempty
  <2>2. Head(<<ToEnd, ToJoin>>) = ToEnd
    BY Heads
  <2> QED
    BY <2>1, <2>2, Apart DEF DropPlans
<1>4. CASE t = <<ToEnd, ToJoin>>
  <2>1. t # <<>> /\ Head(t) = ToEnd /\ Tail(t) = <<ToJoin>>
    BY <1>4, Heads, Tails, Nonempty
  <2>2. Head(<<ToJoin>>) = ToJoin
    BY Heads
  <2> QED
    BY <2>1, <2>2, Apart DEF DropPlans
<1>5. CASE t = <<ToJoin>>
  <2>1. t # <<>> /\ Head(t) = ToJoin /\ Tail(t) = <<>>
    BY <1>5, Heads, Tails, Nonempty
  <2> QED
    BY <2>1, Apart DEF DropPlans
<1> QED
  BY <1>1, <1>2, <1>3, <1>4, <1>5 DEF DropPlans

-----------------------------------------------------------------------------
(* The cursor: every event leaves a cursor that is well formed, with a plan  *)
(* that fits it, and outdates first what a talking reading has under way.    *)

Speaking(r) == r.state \in {"starting", "speaking"}

Leads(r, to) ==
  /\ ReadingOK(to.reading)
  /\ \/ to.actions = <<>> /\ to.reading = r
     \/ /\ to.actions # <<>> /\ Fits(to.reading, to.actions)
        /\ Head(to.actions).what # "outdate" => ~Speaking(r)

LEMMA IdleOK == ReadingOK(Idle) /\ Idle.state = "idle" /\ ~Speaking(Idle)
  BY ReadingAssumption DEF ReadingOK, Idle, Readings, States, Speaking

LEMMA FitStop ==
  ASSUME NEW r, r.state \in {"idle", "paused"}
  PROVE  /\ Fits(r, StopSpeaking) /\ Fits(r, StopSpeaking \o StopSpeaking)
         /\ StopSpeaking # <<>> /\ Head(StopSpeaking).what = "outdate"
         /\ StopSpeaking \o StopSpeaking # <<>> /\ Head(StopSpeaking \o StopSpeaking).what = "outdate"
<1>1. StopSpeaking \in StopPlans /\ StopSpeaking \o StopSpeaking \in StopPlans
  BY Actions DEF StopPlans
<1>2. ToOutdate.what = "outdate"
  BY ActIs DEF ToOutdate
<1> QED
  BY <1>1, <1>2, Actions, Heads, Nonempty DEF Fits

LEMMA FitTalk ==
  ASSUME NEW r, r.state = "starting"
  PROVE  /\ Fits(r, Speak) /\ Fits(r, StopSpeaking \o Speak) /\ Speak # <<>>
         /\ StopSpeaking \o Speak # <<>> /\ Head(StopSpeaking \o Speak).what = "outdate"
<1>1. Speak \in TalkPlans /\ StopSpeaking \o Speak \in TalkPlans
  BY Actions DEF TalkPlans
<1>2. ToOutdate.what = "outdate"
  BY ActIs DEF ToOutdate
<1> QED
  BY <1>1, <1>2, Actions, Heads, Nonempty DEF Fits

LEMMA FitAsk ==
  ASSUME NEW r, NEW page \in 1..(Pages + 1), r.state = "awaiting", r.page = page
  PROVE  /\ Fits(r, NeedText(page)) /\ Fits(r, StopSpeaking \o NeedText(page))
         /\ Fits(r, ShowPage(page) \o NeedText(page))
         /\ Fits(r, StopSpeaking \o (ShowPage(page) \o NeedText(page)))
         /\ NeedText(page) # <<>> /\ ShowPage(page) \o NeedText(page) # <<>>
         /\ StopSpeaking \o NeedText(page) # <<>>
         /\ Head(StopSpeaking \o NeedText(page)).what = "outdate"
         /\ StopSpeaking \o (ShowPage(page) \o NeedText(page)) # <<>>
         /\ Head(StopSpeaking \o (ShowPage(page) \o NeedText(page))).what = "outdate"
<1> DEFINE ask == NeedText(page)
           show == ShowPage(page) \o NeedText(page)
           stopAsk == StopSpeaking \o ask
           stopShow == StopSpeaking \o show
<1>1. /\ ask = <<Act("ask", page)>> /\ show = <<Act("show", page), Act("ask", page)>>
      /\ stopAsk = <<ToOutdate, ToSilence, Act("ask", page)>>
      /\ stopShow = <<ToOutdate, ToSilence, Act("show", page), Act("ask", page)>>
  BY Actions
<1> HIDE DEF ask, show, stopAsk, stopShow
<1>2. {ask, show, stopAsk, stopShow} \subseteq AskPlans(page)
  BY <1>1 DEF AskPlans
<1>3. ToOutdate.what = "outdate"
  BY ActIs DEF ToOutdate
<1>4. /\ ask # <<>> /\ show # <<>> /\ stopAsk # <<>> /\ stopShow # <<>>
      /\ Head(stopAsk).what = "outdate" /\ Head(stopShow).what = "outdate"
  <2>1. ask # <<>> /\ show # <<>> /\ stopAsk # <<>> /\ stopShow # <<>>
    BY <1>1, Nonempty
  <2>2. Head(stopAsk) = ToOutdate /\ Head(stopShow) = ToOutdate
    BY <1>1, Heads
  <2> QED
    BY <1>3, <2>1, <2>2
<1>5. Fits(r, ask) /\ Fits(r, show) /\ Fits(r, stopAsk) /\ Fits(r, stopShow)
  BY <1>2 DEF Fits
<1> QED
  BY <1>4, <1>5 DEF ask, show, stopAsk, stopShow

LEMMA Ends ==
  ASSUME NEW r
  PROVE  /\ Leads(r, Finish) /\ Leads(r, EngineFailed)
         /\ Finish = To(Idle, StopSpeaking) /\ EngineFailed = To(Idle, StopSpeaking)
<1>1. Fits(Idle, StopSpeaking) /\ StopSpeaking # <<>> /\ Head(StopSpeaking).what = "outdate"
  BY IdleOK, FitStop
<1> QED
  BY <1>1, IdleOK DEF Leads, Finish, EngineFailed, To

LEMMA StopLeads == ASSUME NEW r, ReadingOK(r) PROVE Leads(r, Stop(r))
<1>1. CASE r.state = "idle"
  BY <1>1 DEF Leads, Stop, To
<1>2. CASE r.state # "idle"
  BY <1>2, Ends DEF Stop
<1> QED
  BY <1>1, <1>2

LEMMA PauseLeads == ASSUME NEW r, ReadingOK(r) PROVE Leads(r, Pause(r))
<1>1. CASE r.state \in {"idle", "paused"}
  BY <1>1 DEF Leads, Pause, To
<1>2. CASE r.state \notin {"idle", "paused"}
  <2> DEFINE p == [r EXCEPT !.state = "paused"]
  <2>1. Pause(r) = To(p, StopSpeaking)
    BY <1>2 DEF Pause
  <2>2. ReadingOK(p) /\ p.state = "paused"
    BY <1>2 DEF ReadingOK, Readings, States, Idle
  <2> HIDE DEF p
  <2> QED
    BY <2>1, <2>2, FitStop DEF Leads, To
<1> QED
  BY <1>1, <1>2

LEMMA SpeakLeads ==
  ASSUME NEW r, ReadingOK(r), r.loaded
  PROVE  LET to == SpeakCurrent(r) IN
         /\ ReadingOK(to.reading) /\ to.reading.state = "starting"
         /\ to.actions = Speak /\ to.actions # <<>> /\ Fits(to.reading, to.actions)
<1> DEFINE p == [r EXCEPT !.state = "starting"]
<1>1. SpeakCurrent(r).reading = p /\ SpeakCurrent(r).actions = Speak
  BY DEF SpeakCurrent, To
<1>2. ReadingOK(p) /\ p.state = "starting"
  BY DEF ReadingOK, Readings, States, Idle
<1> HIDE DEF p
<1> QED
  BY <1>1, <1>2, FitTalk

(* A page is read: to the next one, or the end. *)
LEMMA PageReadLeads ==
  ASSUME NEW r, ReadingOK(r), r.loaded
  PROVE  LET to == PageRead(r) IN
         /\ ReadingOK(to.reading)
         /\ \/ to.reading.state = "idle" /\ to.actions = StopSpeaking
            \/ \E page \in 1..(Pages + 1) :
                 /\ to.reading.state = "awaiting" /\ to.reading.page = page
                 /\ to.actions = ShowPage(page) \o NeedText(page)
<1>1. CASE r.scope = "document"
  <2> DEFINE p == [r EXCEPT !.page = @ + 1, !.index = 1, !.loaded = FALSE, !.state = "awaiting"]
             page == r.page + 1
  <2>1. PageRead(r).reading = p /\ PageRead(r).actions = ShowPage(page) \o NeedText(page)
    BY <1>1 DEF PageRead, NextPage, To
  <2>2. page \in 1..(Pages + 1)
    BY ReadingAssumption DEF ReadingOK
  <2>3. p \in Readings /\ p.page = page /\ p.state = "awaiting" /\ p.loaded = FALSE
    <3>1. page \in 0..(Pages + 1) /\ 1 \in Nat
      BY <2>2, ReadingAssumption
    <3>2. r \in Readings
      BY DEF ReadingOK
    <3> HIDE DEF page
    <3>3. p = [r EXCEPT !.page = page, !.index = 1, !.loaded = FALSE, !.state = "awaiting"]
      BY DEF page
    <3> HIDE DEF p
    <3> QED
      BY <3>1, <3>2, <3>3 DEF Readings, States
  <2>4. ReadingOK(p)
    BY <2>2, <2>3 DEF ReadingOK, Idle
  <2> HIDE DEF p, page
  <2> QED
    BY <2>1, <2>2, <2>3, <2>4
<1>2. CASE r.scope # "document"
  BY <1>2, IdleOK DEF PageRead, Finish, To
<1> QED
  BY <1>1, <1>2

LEMMA SkipLeads == ASSUME NEW r, ReadingOK(r), NEW forward \in BOOLEAN PROVE Leads(r, Skip(r, forward))
<1> DEFINE moved == [r EXCEPT !.index = IF forward THEN @ + 1 ELSE IF @ > 1 THEN @ - 1 ELSE @]
           read == PageRead(r)
           next == IF forward /\ r.index >= Units(r) THEN read
                   ELSE IF r.state = "paused" THEN To(moved, <<>>) ELSE SpeakCurrent(moved)
<1>1. CASE ~r.loaded
  BY <1>1 DEF Skip, Leads, To
<1>2. CASE r.loaded
  <2>1. Skip(r, forward).reading = next.reading /\ Skip(r, forward).actions = StopSpeaking \o next.actions
    BY <1>2 DEF Skip, To
  <2>2. CASE forward /\ r.index >= Units(r)
    <3>1. next = read
      BY <2>2
    <3> HIDE DEF next
    <3>2. ReadingOK(read.reading)
      BY <1>2, PageReadLeads
    <3>3. CASE read.reading.state = "idle" /\ read.actions = StopSpeaking
      BY <2>1, <3>1, <3>2, <3>3, FitStop DEF Leads
    <3>4. ASSUME NEW page \in 1..(Pages + 1), read.reading.state = "awaiting",
                 read.reading.page = page, read.actions = ShowPage(page) \o NeedText(page)
          PROVE  Leads(r, Skip(r, forward))
      BY <2>1, <3>1, <3>2, <3>4, FitAsk DEF Leads
    <3> QED
      BY <1>2, <3>3, <3>4, PageReadLeads
  <2>3. CASE ~(forward /\ r.index >= Units(r))
    <3>1. Units(r) = SentenceCount[r.page] /\ SentenceCount[r.page] \in Nat /\ r.index \in 1..SentenceCount[r.page]
      BY <1>2, ReadingAssumption DEF Units, ReadingOK
    <3> DEFINE i == IF forward THEN r.index + 1 ELSE IF r.index > 1 THEN r.index - 1 ELSE r.index
    <3>2. i \in 1..SentenceCount[r.page] /\ i \in Nat
      BY <2>3, <3>1
    <3>3. moved = [r EXCEPT !.index = i]
      OBVIOUS
    <3> HIDE DEF i, moved
    <3>4. moved \in Readings /\ moved.loaded = r.loaded /\ moved.state = r.state /\ moved.page = r.page /\ moved.index = i
      BY <3>2, <3>3 DEF ReadingOK, Readings
    <3>5. r.state # "idle"
      BY <1>2 DEF ReadingOK, Idle
    <3>6. ReadingOK(moved)
      BY <1>2, <3>2, <3>4, <3>5 DEF ReadingOK, Idle
    <3>7. CASE r.state = "paused"
      <4>1. next.reading = moved /\ next.actions = <<>>
        BY <2>3, <3>7 DEF To
      <4> HIDE DEF next
      <4>2. StopSpeaking \o <<>> = StopSpeaking
        BY Actions
      <4>3. Skip(r, forward).reading = moved /\ Skip(r, forward).actions = StopSpeaking
        BY <2>1, <4>1, <4>2
      <4> QED
        BY <3>4, <3>6, <3>7, <4>3, FitStop DEF Leads
    <3>8. CASE r.state # "paused"
      <4>1. next = SpeakCurrent(moved)
        BY <2>3, <3>8
      <4> DEFINE sc == SpeakCurrent(moved)
      <4>2. ReadingOK(sc.reading) /\ sc.reading.state = "starting" /\ sc.actions = Speak
        BY <1>2, <3>4, <3>6, SpeakLeads
      <4>3. Skip(r, forward).reading = sc.reading /\ Skip(r, forward).actions = StopSpeaking \o Speak
        BY <2>1, <4>1, <4>2
      <4> HIDE DEF sc
      <4> QED
        BY <4>2, <4>3, FitTalk DEF Leads
    <3> QED
      BY <3>7, <3>8
  <2> QED
    BY <2>2, <2>3
<1> QED
  BY <1>1, <1>2

LEMMA ResumeLeads == ASSUME NEW r, ReadingOK(r) PROVE Leads(r, Resume(r))
<1>1. CASE r.state # "paused"
  BY <1>1 DEF Leads, Resume, To
<1>2. CASE r.state = "paused" /\ r.loaded
  BY <1>2, SpeakLeads DEF Leads, Resume, Speaking
<1>3. CASE r.state = "paused" /\ ~r.loaded
  <2> DEFINE p == [r EXCEPT !.state = "awaiting"]
  <2>1. Resume(r) = To(p, NeedText(r.page)) /\ r.page \in 1..(Pages + 1)
    BY <1>3 DEF Resume, ReadingOK
  <2>2. ReadingOK(p) /\ p.state = "awaiting" /\ p.page = r.page
    BY <1>3 DEF ReadingOK, Readings, States, Idle
  <2> HIDE DEF p
  <2> QED
    BY <1>3, <2>1, <2>2, FitAsk DEF Leads, To, Speaking
<1> QED
  BY <1>1, <1>2, <1>3

LEMMA StartLeads ==
  ASSUME NEW r, NEW scope \in {"page", "document"}, NEW page \in 1..Pages
  PROVE  Leads(r, Start(scope, page))
<1> DEFINE p == [scope |-> scope, page |-> page, index |-> 1, loaded |-> FALSE, state |-> "awaiting"]
<1>1. /\ Start(scope, page).reading = p
      /\ Start(scope, page).actions = StopSpeaking \o NeedText(page)
  BY DEF Start, To
<1>2. page \in 1..(Pages + 1) /\ page \in 0..(Pages + 1)
  BY ReadingAssumption
<1>3. ReadingOK(p) /\ p.state = "awaiting" /\ p.page = page
  BY <1>2 DEF ReadingOK, Readings, States, Idle
<1> HIDE DEF p
<1> QED
  <2>1. /\ Fits(p, StopSpeaking \o NeedText(page)) /\ StopSpeaking \o NeedText(page) # <<>>
        /\ Head(StopSpeaking \o NeedText(page)).what = "outdate"
    BY <1>2, <1>3, FitAsk
  <2> QED
    BY <1>1, <1>3, <2>1 DEF Leads

LEMMA SelectionLeads == ASSUME NEW r PROVE Leads(r, StartSelection)
<1>1. CASE SentenceCount[Selection] = 0
  BY <1>1, Ends DEF StartSelection
<1>2. CASE SentenceCount[Selection] # 0
  <2> DEFINE p == [scope |-> "selection", page |-> Selection, index |-> 1, loaded |-> TRUE, state |-> "starting"]
  <2>1. StartSelection = To(p, StopSpeaking \o Speak)
    BY <1>2 DEF StartSelection
  <2>2. 0 \in 0..Pages /\ 0 \in 0..(Pages + 1) /\ 1 \in 1..SentenceCount[0]
    BY <1>2, ReadingAssumption DEF Selection
  <2>3. ReadingOK(p) /\ p.state = "starting"
    BY <2>2 DEF ReadingOK, Readings, States, Idle, Selection
  <2> HIDE DEF p
  <2> QED
    BY <2>1, <2>3, FitTalk DEF Leads, To
<1> QED
  BY <1>1, <1>2

LEMMA ToggleLeads ==
  ASSUME NEW r, ReadingOK(r), NEW scope \in {"page", "document", "selection"}, NEW page \in 1..Pages
  PROVE  Leads(r, Toggle(r, scope, page))
<1>1. \/ Toggle(r, scope, page) = StartSelection
      \/ scope \in {"page", "document"} /\ Toggle(r, scope, page) = Start(scope, page)
      \/ Toggle(r, scope, page) = Resume(r) \/ Toggle(r, scope, page) = Pause(r)
  <2>1. CASE r.state = "idle" \/ r.scope # scope
    BY <2>1 DEF Toggle
  <2>2. CASE ~(r.state = "idle" \/ r.scope # scope) /\ r.state = "paused"
    BY <2>2 DEF Toggle
  <2>3. CASE ~(r.state = "idle" \/ r.scope # scope) /\ r.state # "paused"
    BY <2>3 DEF Toggle
  <2> QED
    BY <2>1, <2>2, <2>3
<1> QED
  BY <1>1, SelectionLeads, StartLeads, ResumeLeads, PauseLeads

(* An utterance heard to its end, when nothing else is under way. *)
LEMMA AdvanceLeads ==
  ASSUME NEW r, ReadingOK(r), Speaking(r)
  PROVE  LET to == Advance(r) IN
         ReadingOK(to.reading) /\ to.actions # <<>> /\ Fits(to.reading, to.actions)
<1>1. r.loaded /\ r.state \notin {"idle", "paused"}
  BY DEF ReadingOK, Speaking
<1>2. Units(r) = SentenceCount[r.page] /\ SentenceCount[r.page] \in Nat /\ r.index \in 1..SentenceCount[r.page]
  BY <1>1, ReadingAssumption DEF Units, ReadingOK
<1>3. CASE r.index < Units(r)
  <2> DEFINE p == [r EXCEPT !.index = @ + 1]
  <2>1. Advance(r) = SpeakCurrent(p)
    BY <1>1, <1>3 DEF Advance
  <2>2. r.index + 1 \in 1..SentenceCount[r.page] /\ r.index + 1 \in Nat
    BY <1>2, <1>3
  <2>3. p \in Readings /\ p.loaded = r.loaded /\ p.state = r.state /\ p.page = r.page /\ p.index = r.index + 1
    BY <2>2 DEF ReadingOK, Readings
  <2> HIDE DEF p
  <2>4. ReadingOK(p) /\ p.loaded
    BY <1>1, <2>2, <2>3 DEF ReadingOK, Idle
  <2> QED
    BY <2>1, <2>4, SpeakLeads
<1>4. CASE ~(r.index < Units(r))
  <2> DEFINE read == PageRead(r)
  <2>1. Advance(r) = read
    BY <1>1, <1>4 DEF Advance
  <2>2. ReadingOK(read.reading)
    BY <1>1, PageReadLeads
  <2> HIDE DEF read
  <2>3. CASE read.reading.state = "idle" /\ read.actions = StopSpeaking
    BY <2>1, <2>2, <2>3, FitStop
  <2>4. ASSUME NEW page \in 1..(Pages + 1), read.reading.state = "awaiting",
               read.reading.page = page, read.actions = ShowPage(page) \o NeedText(page)
        PROVE  read.actions # <<>> /\ Fits(read.reading, read.actions)
    BY <2>4, FitAsk
  <2> QED
    BY <1>1, <2>1, <2>2, <2>3, <2>4, PageReadLeads DEF read
<1> QED
  BY <1>3, <1>4

LEMMA TextLeads ==
  ASSUME NEW r, ReadingOK(r), NEW page \in 1..Pages
  PROVE  Leads(r, TextArrived(r, page))
<1>1. CASE r.state # "awaiting" \/ r.page # page
  BY <1>1 DEF TextArrived, Leads, To
<1>2. CASE r.state = "awaiting" /\ r.page = page /\ SentenceCount[page] = 0
  <2>1. TextArrived(r, page) = PageRead(r)
    BY <1>2 DEF TextArrived
  <2>2. CASE r.scope = "document"
    <3> DEFINE p == [r EXCEPT !.page = @ + 1, !.index = 1, !.loaded = FALSE, !.state = "awaiting"]
               n == page + 1
    <3>1. PageRead(r).reading = p /\ PageRead(r).actions = ShowPage(n) \o NeedText(n)
      BY <1>2, <2>2 DEF PageRead, NextPage, To
    <3>2. n \in 1..(Pages + 1)
      BY ReadingAssumption
    <3>3. p \in Readings /\ p.page = n /\ p.state = "awaiting" /\ p.loaded = FALSE
      <4>1. n \in 0..(Pages + 1) /\ 1 \in Nat
        BY <3>2, ReadingAssumption
      <4>2. r \in Readings
        BY DEF ReadingOK
      <4>3. p = [r EXCEPT !.page = n, !.index = 1, !.loaded = FALSE, !.state = "awaiting"]
        BY <1>2
      <4> HIDE DEF p, n
      <4> QED
        BY <4>1, <4>2, <4>3 DEF Readings, States
    <3>4. ReadingOK(p)
      BY <3>2, <3>3 DEF ReadingOK, Idle
    <3> HIDE DEF p, n
    <3> QED
      BY <1>2, <2>1, <3>1, <3>2, <3>3, <3>4, FitAsk DEF Leads, Speaking
  <2>3. CASE r.scope # "document"
    BY <2>1, <2>3, Ends DEF PageRead
  <2> QED
    BY <2>2, <2>3
<1>3. CASE r.state = "awaiting" /\ r.page = page /\ SentenceCount[page] # 0
  <2> DEFINE p == [r EXCEPT !.loaded = TRUE, !.index = 1]
  <2>1. TextArrived(r, page) = SpeakCurrent(p)
    BY <1>3 DEF TextArrived
  <2>2. page \in 0..Pages /\ 1 \in 1..SentenceCount[page]
    BY <1>3, ReadingAssumption
  <2>3. p \in Readings /\ p.loaded = TRUE /\ p.state = r.state /\ p.page = page /\ p.index = 1
    BY <1>3 DEF ReadingOK, Readings
  <2> HIDE DEF p
  <2>4. ReadingOK(p) /\ p.loaded
    BY <1>3, <2>2, <2>3 DEF ReadingOK, Idle
  <2> QED
    BY <1>3, <2>1, <2>4, SpeakLeads DEF Leads, Speaking
<1> QED
  BY <1>1, <1>2, <1>3

LEMMA StartedLeads ==
  ASSUME NEW r, ReadingOK(r)
  PROVE  LET to == Started(r) IN
         /\ ReadingOK(to.reading) /\ to.actions = <<>>
         /\ Cursor(to.reading) = Cursor(r) /\ Speaking(to.reading) = Speaking(r)
         /\ to.reading.state = "awaiting" <=> r.state = "awaiting"
         /\ to.reading.page = r.page
<1>1. CASE r.state = "starting"
  <2> DEFINE p == [r EXCEPT !.state = "speaking"]
  <2>1. Started(r).reading = p /\ Started(r).actions = <<>>
    BY <1>1 DEF Started, To
  <2>2. ReadingOK(p) /\ p.page = r.page /\ p.index = r.index /\ p.state = "speaking"
    BY <1>1 DEF ReadingOK, Readings, States, Idle
  <2> HIDE DEF p
  <2> QED
    BY <1>1, <2>1, <2>2 DEF Cursor, Speaking
<1>2. CASE r.state # "starting"
  BY <1>2 DEF Started, To
<1> QED
  BY <1>1, <1>2

-----------------------------------------------------------------------------
(* What is under way, as the channels move. *)

Waits == \E i \in Nat : Commanded = {<<"commands", i, Cursor(reading)>>}
Sounds == InHand = {<<"control", 0, Cursor(reading)>>}
Told == \E i \in Nat : Over = {<<"events", i, Cursor(reading)>>}

LEMMA UnderWayParts ==
  /\ \A u \in Commanded : u[1] = "commands" /\ \E i \in DOMAIN commands : u = <<"commands", i, u[3]>>
  /\ \A u \in InHand : u = <<"control", 0, u[3]>> /\ u[1] = "control"
  /\ \A u \in Over : u[1] = "events" /\ \E i \in DOMAIN events : u = <<"events", i, u[3]>>
  BY DEF Commanded, InHand, Over

LEMMA SoleCases ==
  ASSUME Filled
  PROVE  Sole <=> \/ Waits /\ InHand = {} /\ Over = {}
                  \/ Commanded = {} /\ Sounds /\ Over = {}
                  \/ Commanded = {} /\ InHand = {} /\ Told
<1>0. DOMAIN commands \subseteq Nat /\ DOMAIN events \subseteq Nat
  BY DEF Filled
<1>1. ASSUME NEW u, UnderWay = {u}, u[3] = Cursor(reading)
      PROVE  \/ Waits /\ InHand = {} /\ Over = {}
             \/ Commanded = {} /\ Sounds /\ Over = {}
             \/ Commanded = {} /\ InHand = {} /\ Told
  <2>1. Commanded \subseteq {u} /\ InHand \subseteq {u} /\ Over \subseteq {u}
    BY <1>1 DEF UnderWay
  <2>2. CASE u \in Commanded
    <3>1. u[1] = "commands" /\ \E i \in Nat : u = <<"commands", i, u[3]>>
      BY <1>0, <2>2, UnderWayParts
    <3>2. InHand = {} /\ Over = {}
      BY <2>1, <3>1, UnderWayParts
    <3>3. Commanded = {u}
      BY <2>1, <2>2
    <3> QED
      BY <1>1, <3>1, <3>2, <3>3 DEF Waits
  <2>3. CASE u \in InHand
    <3>1. u[1] = "control" /\ u = <<"control", 0, u[3]>>
      BY <2>3, UnderWayParts
    <3>2. Commanded = {} /\ Over = {}
      BY <2>1, <3>1, UnderWayParts
    <3>3. InHand = {u}
      BY <2>1, <2>3
    <3> QED
      BY <1>1, <3>1, <3>2, <3>3 DEF Sounds
  <2>4. CASE u \in Over
    <3>1. u[1] = "events" /\ \E i \in Nat : u = <<"events", i, u[3]>>
      BY <1>0, <2>4, UnderWayParts
    <3>2. InHand = {} /\ Commanded = {}
      BY <2>1, <3>1, UnderWayParts
    <3>3. Over = {u}
      BY <2>1, <2>4
    <3> QED
      BY <1>1, <3>1, <3>2, <3>3 DEF Told
  <2> QED
    BY <1>1, <2>2, <2>3, <2>4 DEF UnderWay
<1>2. ASSUME Waits, InHand = {}, Over = {} PROVE Sole
  <2>1. PICK i \in Nat : Commanded = {<<"commands", i, Cursor(reading)>>}
    BY <1>2 DEF Waits
  <2> DEFINE u == <<"commands", i, Cursor(reading)>>
  <2>2. UnderWay = {u}
    BY <1>2, <2>1 DEF UnderWay
  <2>5. u[3] = Cursor(reading)
    OBVIOUS
  <2> HIDE DEF u
  <2> QED
    BY <2>2, <2>5 DEF Sole
<1>3. ASSUME Commanded = {}, Sounds, Over = {} PROVE Sole
  <2> DEFINE u == <<"control", 0, Cursor(reading)>>
  <2>1. UnderWay = {u}
    BY <1>3 DEF UnderWay, Sounds
  <2>5. u[3] = Cursor(reading)
    OBVIOUS
  <2> HIDE DEF u
  <2> QED
    BY <2>1, <2>5 DEF Sole
<1>4. ASSUME Commanded = {}, InHand = {}, Told PROVE Sole
  <2>1. PICK i \in Nat : Over = {<<"events", i, Cursor(reading)>>}
    BY <1>4 DEF Told
  <2> DEFINE u == <<"events", i, Cursor(reading)>>
  <2>2. UnderWay = {u}
    BY <1>4, <2>1 DEF UnderWay
  <2>5. u[3] = Cursor(reading)
    OBVIOUS
  <2> HIDE DEF u
  <2> QED
    BY <2>2, <2>5 DEF Sole
<1> QED
  BY <1>1, <1>2, <1>3, <1>4 DEF Sole

LEMMA SoleThen ==
  Filled' => (Sole' <=> \/ Waits' /\ InHand' = {} /\ Over' = {}
                        \/ Commanded' = {} /\ Sounds' /\ Over' = {}
                        \/ Commanded' = {} /\ InHand' = {} /\ Told')
<1>1. Filled => (Sole <=> \/ Waits /\ InHand = {} /\ Over = {}
                          \/ Commanded = {} /\ Sounds /\ Over = {}
                          \/ Commanded = {} /\ InHand = {} /\ Told)
  BY SoleCases
<1>2. (Filled => (Sole <=> \/ Waits /\ InHand = {} /\ Over = {}
                           \/ Commanded = {} /\ Sounds /\ Over = {}
                           \/ Commanded = {} /\ InHand = {} /\ Told))'
  BY <1>1, PTL
<1> QED
  BY <1>2

LEMMA NoneCases == UnderWay = {} <=> Commanded = {} /\ InHand = {} /\ Over = {}
  BY DEF UnderWay

(* A place in a channel: its indices once the first is taken, once one is    *)
(* added.                                                                    *)
LEMMA Popped ==
  ASSUME NEW S, NEW q \in Seq(S), q # <<>>
  PROVE  /\ Head(q) = q[1] /\ Head(q) \in S /\ Tail(q) \in Seq(S) /\ 1 \in DOMAIN q
         /\ \A i \in DOMAIN Tail(q) : i \in Nat /\ i + 1 \in DOMAIN q /\ i + 1 # 1 /\ Tail(q)[i] = q[i + 1]
         /\ \A i \in DOMAIN q : i = 1 \/ \E n \in DOMAIN Tail(q) : i = n + 1
<1>1. Len(q) \in Nat /\ Len(q) > 0 /\ DOMAIN q = 1..Len(q)
  OBVIOUS
<1>2. Tail(q) \in Seq(S) /\ Len(Tail(q)) = Len(q) - 1 /\ DOMAIN Tail(q) = 1..(Len(q) - 1)
  BY HeadTailProperties
<1>3. Head(q) = q[1] /\ q[1] \in S
  BY <1>1
<1>4. \A i \in 1..(Len(q) - 1) : Tail(q)[i] = q[i + 1]
  BY HeadTailProperties
<1>5. \A i \in 1..(Len(q) - 1) : i \in Nat /\ i + 1 \in 1..Len(q) /\ i + 1 # 1
  BY <1>1
<1>6. \A i \in 1..Len(q) : i = 1 \/ (i - 1 \in 1..(Len(q) - 1) /\ i = (i - 1) + 1)
  BY <1>1
<1>7. 1 \in 1..Len(q)
  BY <1>1
<1> QED
  BY <1>1, <1>2, <1>3, <1>4, <1>5, <1>6, <1>7

LEMMA Pushed ==
  ASSUME NEW S, NEW q \in Seq(S), NEW x \in S
  PROVE  /\ Append(q, x) \in Seq(S)
         /\ DOMAIN Append(q, x) = DOMAIN q \union {Len(q) + 1}
         /\ Len(q) + 1 \in Nat /\ Len(q) + 1 \notin DOMAIN q
         /\ Append(q, x)[Len(q) + 1] = x
         /\ \A i \in DOMAIN q : Append(q, x)[i] = q[i]
<1>1. Len(q) \in Nat /\ DOMAIN q = 1..Len(q)
  OBVIOUS
<1>2. /\ Append(q, x) \in Seq(S) /\ Len(Append(q, x)) = Len(q) + 1
      /\ \A i \in 1..Len(q) : Append(q, x)[i] = q[i]
      /\ Append(q, x)[Len(q) + 1] = x
  BY AppendProperties
<1>3. DOMAIN Append(q, x) = 1..(Len(q) + 1)
  BY <1>1, <1>2
<1>4. 1..(Len(q) + 1) = 1..Len(q) \union {Len(q) + 1}
  BY <1>1
<1>5. Len(q) + 1 \in Nat /\ Len(q) + 1 \notin 1..Len(q)
  BY <1>1
<1> QED
  BY <1>1, <1>2, <1>3, <1>4, <1>5

Live(c) == c.what = "speak" /\ ~Stale(c.generation)
Final(e) == e.what # "started" /\ ~Stale(e.generation)

LEMMA CommandPopped ==
  ASSUME Filled, commands # <<>>, commands' = Tail(commands), generation' = generation,
         reading' = reading
  PROVE  /\ Commanded = {} => Commanded' = {} /\ ~Live(Head(commands))
         /\ ~Live(Head(commands)) /\ Waits => Waits'
         /\ Live(Head(commands)) /\ Waits => Commanded' = {} /\ Head(commands).key = Cursor(reading)
<1> DEFINE c == Head(commands)
           L == {n \in DOMAIN commands : commands[n].what = "speak" /\ commands[n].generation # generation}
<1>1. /\ c = commands[1] /\ 1 \in DOMAIN commands
      /\ \A i \in DOMAIN commands' : i \in Nat /\ i + 1 \in DOMAIN commands /\ i + 1 # 1 /\ commands'[i] = commands[i + 1]
      /\ \A i \in DOMAIN commands : i = 1 \/ \E n \in DOMAIN commands' : i = n + 1
  BY Popped DEF Filled
<1>2. \A i \in DOMAIN commands : Live(commands[i]) <=> <<"commands", i, commands[i].key>> \in Commanded
  BY DEF Commanded, Live
<1>3. \A u \in Commanded : \E i \in DOMAIN commands : Live(commands[i]) /\ u = <<"commands", i, commands[i].key>>
  BY DEF Commanded, Live
<1>4. \A u \in Commanded' : \E i \in DOMAIN commands' :
         u = <<"commands", i, commands'[i].key>> /\ commands'[i].what = "speak" /\ commands'[i].generation = generation
  BY DEF Commanded, Stale
<1>5. \A i \in DOMAIN commands' : commands'[i].what = "speak" /\ commands'[i].generation = generation =>
         <<"commands", i, commands'[i].key>> \in Commanded'
  BY DEF Commanded, Stale
<1>6. \A i \in DOMAIN commands' :
         commands'[i].what = "speak" /\ commands'[i].generation = generation =>
           <<"commands", i + 1, commands'[i].key>> \in Commanded
  BY <1>1, <1>2 DEF Live, Stale
<1>7. Commanded = {} => Commanded' = {} /\ ~Live(c)
  BY <1>1, <1>2, <1>4, <1>6
<1>8. ASSUME Live(c), Waits PROVE Commanded' = {} /\ c.key = Cursor(reading)
  <2>1. PICK i \in Nat : Commanded = {<<"commands", i, Cursor(reading)>>}
    BY <1>8 DEF Waits
  <2>2. <<"commands", 1, c.key>> \in Commanded
    BY <1>1, <1>2, <1>8
  <2>3. i = 1 /\ c.key = Cursor(reading)
    BY <2>1, <2>2
  <2>4. \A n \in DOMAIN commands' : ~(commands'[n].what = "speak" /\ commands'[n].generation = generation)
    BY <1>1, <1>6, <2>1, <2>3
  <2> QED
    BY <1>4, <2>3, <2>4
<1>9. ASSUME ~Live(c), Waits PROVE Waits'
  <2>1. PICK i \in Nat : Commanded = {<<"commands", i, Cursor(reading)>>}
    BY <1>9 DEF Waits
  <2>2. i \in DOMAIN commands /\ commands[i].key = Cursor(reading) /\ Live(commands[i])
    <3>1. <<"commands", i, Cursor(reading)>> \in Commanded
      BY <2>1
    <3> QED
      BY <1>3, <3>1
  <2>3. PICK n \in DOMAIN commands' : i = n + 1
    BY <1>1, <1>9, <2>2
  <2>4. <<"commands", n, Cursor(reading)>> \in Commanded'
    BY <1>1, <1>5, <2>2, <2>3 DEF Live, Stale
  <2>5. ASSUME NEW u \in Commanded' PROVE u = <<"commands", n, Cursor(reading)>>
    <3>1. PICK k \in DOMAIN commands' :
            u = <<"commands", k, commands'[k].key>> /\ commands'[k].what = "speak" /\ commands'[k].generation = generation
      BY <1>4, <2>5
    <3>2. k + 1 = i /\ commands'[k].key = Cursor(reading)
      BY <1>6, <2>1, <3>1
    <3>3. k = n
      BY <1>1, <2>3, <3>2
    <3> QED
      BY <3>1, <3>2, <3>3
  <2>6. Commanded' = {<<"commands", n, Cursor(reading)>>} /\ n \in Nat
    BY <1>1, <2>4, <2>5
  <2>7. Cursor(reading)' = Cursor(reading)
    BY DEF Cursor
  <2> QED
    BY <2>6, <2>7 DEF Waits
<1> QED
  BY <1>7, <1>8, <1>9

LEMMA EventPopped ==
  ASSUME Filled, events # <<>>, events' = Tail(events), generation' = generation
  PROVE  /\ Over = {} => Over' = {}
         /\ \A key : ~Final(Head(events)) /\ (\E i \in Nat : Over = {<<"events", i, key>>}) =>
                       \E i \in Nat : Over' = {<<"events", i, key>>}
         /\ \A key : Final(Head(events)) /\ (\E i \in Nat : Over = {<<"events", i, key>>}) => Over' = {}
         /\ Final(Head(events)) => Over # {}
<1> DEFINE c == Head(events)
<1>1. /\ c = events[1] /\ 1 \in DOMAIN events
      /\ \A i \in DOMAIN events' : i \in Nat /\ i + 1 \in DOMAIN events /\ i + 1 # 1 /\ events'[i] = events[i + 1]
      /\ \A i \in DOMAIN events : i = 1 \/ \E n \in DOMAIN events' : i = n + 1
  BY Popped DEF Filled
<1>2. \A i \in DOMAIN events : Final(events[i]) <=> <<"events", i, events[i].key>> \in Over
  BY DEF Over, Final
<1>3. \A u \in Over : \E i \in DOMAIN events : Final(events[i]) /\ u = <<"events", i, events[i].key>>
  BY DEF Over, Final
<1>4. \A u \in Over' : \E i \in DOMAIN events' :
         u = <<"events", i, events'[i].key>> /\ events'[i].what # "started" /\ events'[i].generation = generation
  BY DEF Over, Stale
<1>5. \A i \in DOMAIN events' : events'[i].what # "started" /\ events'[i].generation = generation =>
         <<"events", i, events'[i].key>> \in Over'
  BY DEF Over, Stale
<1>6. \A i \in DOMAIN events' :
         events'[i].what # "started" /\ events'[i].generation = generation =>
           <<"events", i + 1, events'[i].key>> \in Over
  BY <1>1, <1>2 DEF Final, Stale
<1>7. (Over = {} => Over' = {}) /\ (Final(c) => Over # {})
  BY <1>1, <1>2, <1>4, <1>6
<1>8. ASSUME NEW key, NEW i \in Nat, Final(c), Over = {<<"events", i, key>>} PROVE Over' = {}
  <2>1. <<"events", 1, c.key>> \in Over
    BY <1>1, <1>2, <1>8
  <2>2. i = 1
    BY <1>8, <2>1
  <2>3. \A n \in DOMAIN events' : ~(events'[n].what # "started" /\ events'[n].generation = generation)
    BY <1>1, <1>6, <1>8, <2>2
  <2> QED
    BY <1>4, <2>3
<1>9. ASSUME NEW key, NEW i \in Nat, ~Final(c), Over = {<<"events", i, key>>}
      PROVE  \E n \in Nat : Over' = {<<"events", n, key>>}
  <2>1. i \in DOMAIN events /\ events[i].key = key /\ Final(events[i])
    <3>1. <<"events", i, key>> \in Over
      BY <1>9
    <3> QED
      BY <1>3, <3>1
  <2>2. PICK n \in DOMAIN events' : i = n + 1
    BY <1>1, <1>9, <2>1
  <2>3. <<"events", n, key>> \in Over'
    BY <1>1, <1>5, <2>1, <2>2 DEF Final, Stale
  <2>4. ASSUME NEW u \in Over' PROVE u = <<"events", n, key>>
    <3>1. PICK k \in DOMAIN events' :
            u = <<"events", k, events'[k].key>> /\ events'[k].what # "started" /\ events'[k].generation = generation
      BY <1>4, <2>4
    <3>2. k + 1 = i /\ events'[k].key = key
      BY <1>6, <1>9, <3>1
    <3>3. k = n
      BY <1>1, <2>2, <3>2
    <3> QED
      BY <3>1, <3>2, <3>3
  <2> QED
    BY <1>1, <2>3, <2>4
<1> QED
  BY <1>7, <1>8, <1>9

LEMMA CommandPushed ==
  ASSUME Filled, NEW c \in Commands, commands' = Append(commands, c), generation' = generation
  PROVE  /\ c.what = "shutdown" /\ Commanded = {} => Commanded' = {}
         /\ c.what = "speak" /\ c.generation = generation /\ Commanded = {} =>
              \E i \in Nat : Commanded' = {<<"commands", i, c.key>>}
<1> DEFINE n == Len(commands) + 1
<1>1. /\ DOMAIN commands' = DOMAIN commands \union {n} /\ n \in Nat /\ n \notin DOMAIN commands
      /\ commands'[n] = c /\ \A i \in DOMAIN commands : commands'[i] = commands[i]
  BY Pushed DEF Filled
<1> HIDE DEF n
<1>2. \A i \in DOMAIN commands : Live(commands[i]) <=> <<"commands", i, commands[i].key>> \in Commanded
  BY DEF Commanded, Live
<1>3. \A u \in Commanded' : \E i \in DOMAIN commands' :
         u = <<"commands", i, commands'[i].key>> /\ commands'[i].what = "speak" /\ commands'[i].generation = generation
  BY DEF Commanded, Stale
<1>4. \A i \in DOMAIN commands' : commands'[i].what = "speak" /\ commands'[i].generation = generation =>
         <<"commands", i, commands'[i].key>> \in Commanded'
  BY DEF Commanded, Stale
<1>5. Commanded = {} => \A i \in DOMAIN commands :
                          ~(commands'[i].what = "speak" /\ commands'[i].generation = generation)
  BY <1>1, <1>2 DEF Live, Stale
<1>6. c.what = "shutdown" /\ Commanded = {} => Commanded' = {}
  BY <1>1, <1>3, <1>5
<1>7. ASSUME c.what = "speak", c.generation = generation, Commanded = {}
      PROVE  Commanded' = {<<"commands", n, c.key>>}
  <2>1. <<"commands", n, c.key>> \in Commanded'
    BY <1>1, <1>4, <1>7
  <2>2. \A u \in Commanded' : u = <<"commands", n, c.key>>
    BY <1>1, <1>3, <1>5, <1>7
  <2> QED
    BY <2>1, <2>2
<1> QED
  BY <1>1, <1>6, <1>7

LEMMA EventPushed ==
  ASSUME Filled, NEW e \in Events, events' = Append(events, e), generation' = generation
  PROVE  /\ ~Final(e) => Over' = Over
         /\ Final(e) /\ Over = {} => \E i \in Nat : Over' = {<<"events", i, e.key>>}
<1> DEFINE n == Len(events) + 1
<1>1. /\ DOMAIN events' = DOMAIN events \union {n} /\ n \in Nat /\ n \notin DOMAIN events
      /\ events'[n] = e /\ \A i \in DOMAIN events : events'[i] = events[i]
  BY Pushed DEF Filled
<1> HIDE DEF n
<1>2. \A i \in DOMAIN events : Final(events[i]) => <<"events", i, events[i].key>> \in Over
  BY DEF Over, Final
<1>3. \A u \in Over : \E i \in DOMAIN events : Final(events[i]) /\ u = <<"events", i, events[i].key>>
  BY DEF Over, Final
<1>4. \A u \in Over' : \E i \in DOMAIN events' :
         u = <<"events", i, events'[i].key>> /\ events'[i].what # "started" /\ events'[i].generation = generation
  BY DEF Over, Stale
<1>5. \A i \in DOMAIN events' : events'[i].what # "started" /\ events'[i].generation = generation =>
         <<"events", i, events'[i].key>> \in Over'
  BY DEF Over, Stale
<1>6. ASSUME ~Final(e) PROVE Over' = Over
  <2>1. \A u \in Over' : u \in Over
    BY <1>1, <1>2, <1>4, <1>6 DEF Final, Stale
  <2>2. \A u \in Over : u \in Over'
    BY <1>1, <1>3, <1>5 DEF Final, Stale
  <2> QED
    BY <2>1, <2>2
<1>7. ASSUME Final(e), Over = {} PROVE Over' = {<<"events", n, e.key>>}
  <2>1. <<"events", n, e.key>> \in Over'
    BY <1>1, <1>5, <1>7 DEF Final, Stale
  <2>2. \A i \in DOMAIN events : ~(events'[i].what # "started" /\ events'[i].generation = generation)
    BY <1>1, <1>2, <1>7 DEF Final, Stale
  <2>3. \A u \in Over' : u = <<"events", n, e.key>>
    BY <1>1, <1>4, <2>2
  <2> QED
    BY <2>1, <2>3
<1> QED
  BY <1>1, <1>6, <1>7

(* A stop outdates everything that was under way. *)
LEMMA Outdated ==
  ASSUME Filled, Stamped, generation \in Nat, generation' = generation + 1,
         commands' = commands, events' = events, control' = control
  PROVE  UnderWay' = {} /\ Stamped'
<1>1. /\ DOMAIN commands \subseteq Nat /\ DOMAIN events \subseteq Nat
      /\ \A i \in DOMAIN commands : commands[i].generation \in Nat
      /\ \A i \in DOMAIN events : events[i].generation \in Nat
      /\ control.generation \in Nat
  <2>1. \A c \in Commands : c.generation \in Nat
    BY DEF Commands
  <2>2. \A e \in Events : e.generation \in Nat
    BY DEF Events
  <2>3. \A c \in Controls : c.generation \in Nat
    BY DEF Controls
  <2> QED
    BY <2>1, <2>2, <2>3 DEF Filled
<1>2. \A g \in Nat : g <= generation => g # generation + 1 /\ g <= generation + 1
  OBVIOUS
<1>3. /\ \A i \in DOMAIN commands : commands[i].generation # generation + 1 /\ commands[i].generation <= generation + 1
      /\ \A i \in DOMAIN events : events[i].generation # generation + 1 /\ events[i].generation <= generation + 1
      /\ control.generation # generation + 1 /\ control.generation <= generation + 1
  BY <1>1, <1>2 DEF Stamped
<1>4. Commanded' = {} /\ Over' = {} /\ InHand' = {}
  BY <1>3 DEF Commanded, Over, InHand, Stale
<1>5. Stamped'
  BY <1>3 DEF Stamped
<1> QED
  BY <1>4, <1>5 DEF UnderWay

LEMMA Deserted == ASSUME TypeInv, ~speaker PROVE UnderWay = {}
<1>1. commands = <<>> /\ events = <<>> /\ control.at = "ended"
  BY DEF TypeInv, Unused
<1>2. Commanded = {} /\ Over = {} /\ InHand = {}
  BY <1>1 DEF Commanded, Over, InHand
<1> QED
  BY <1>2 DEF UnderWay

-----------------------------------------------------------------------------
(* The event loop: a handler that finds the last one's plan carried out. *)

LEMMA Talks == Talking <=> Speaking(reading)
  BY DEF Talking, Speaking

LEMMA RangeLeft ==
  ASSUME NEW S, NEW t \in Seq(S), t # <<>>
  PROVE  /\ Range(t) = Range(Tail(t)) \union {Head(t)}
<1>1. /\ Head(t) = t[1] /\ 1 \in DOMAIN t
      /\ \A i \in DOMAIN Tail(t) : i \in Nat /\ i + 1 \in DOMAIN t /\ Tail(t)[i] = t[i + 1]
      /\ \A i \in DOMAIN t : i = 1 \/ \E n \in DOMAIN Tail(t) : i = n + 1
  BY Popped
<1>2. Range(t) = {t[i] : i \in DOMAIN t} /\ Range(Tail(t)) = {Tail(t)[i] : i \in DOMAIN Tail(t)}
  BY DEF Range
<1>3. ASSUME NEW x \in Range(t) PROVE x \in Range(Tail(t)) \union {Head(t)}
  BY <1>1, <1>2, <1>3
<1>4. ASSUME NEW x \in Range(Tail(t)) \union {Head(t)} PROVE x \in Range(t)
  BY <1>1, <1>2, <1>4
<1> QED
  BY <1>3, <1>4

LEMMA RangeEmpty == Range(<<>>) = {}
  BY DEF Range

LEMMA LoopKeeps ==
  ASSUME ReadInv, Free, UNCHANGED Threads, LoopType',
         \/ todo' = <<>> /\ reading' = reading
         \/ /\ todo' # <<>>
            /\ Fits(reading', todo') \/ (todo' \in DropPlans /\ reading'.state = "idle" /\ speaker)
            /\ Head(todo').what # "outdate" => ~Speaking(reading),
         todo' = <<>> /\ reading'.state = "awaiting" => reading'.page \in Range(asks') \/ untold'
  PROVE  ReadInv'
<1>1. /\ speaker' = speaker /\ generation' = generation /\ commands' = commands /\ events' = events
      /\ control' = control /\ requests' = requests /\ ready' = ready /\ synth' = synth /\ cache' = cache
      /\ stopping' = stopping /\ sounding' = sounding /\ ending' = ending
  BY DEF Threads
<1>2. ThreadType' /\ SynthType' /\ Stamped' /\ Unused'
  BY <1>1 DEF ReadInv, TypeInv, ThreadType, Filled, SynthType, Stamped, Unused
<1>3. Planned'
  BY <1>1 DEF Planned, Free, Fits
<1>4. UnderWay' = UnderWay
  BY <1>1 DEF UnderWay, Commanded, InHand, Over, Stale
<1>5. Company
  BY DEF ReadInv
<1>6. Still'
  BY <1>4, <1>5, Talks DEF Still, Free, Company
<1>7. (Free => Company)'
  <2> SUFFICES ASSUME todo' = <<>> PROVE Company'
    BY DEF Free
  <2>1. reading' = reading
    OBVIOUS
  <2>2. (Sole => Sole') /\ Talking' = Talking
    BY <1>4, <2>1 DEF Sole, Talking, Cursor
  <2> QED
    BY <1>4, <1>5, <2>1, <2>2 DEF Company
<1>8. Heeded'
  <2>1. ~Hushing
    BY RangeEmpty DEF Hushing, Free
  <2> QED
    BY <1>1, <2>1 DEF ReadInv, Heeded, Stale
<1> QED
  BY <1>2, <1>3, <1>6, <1>7, <1>8 DEF ReadInv, TypeInv

(* The keys: where the cursor leads, on the same page of text or none. *)
LEMMA KeyKeeps ==
  ASSUME ReadInv, Free, UNCHANGED Threads, NEW to, Leads(reading, to),
         reading' = to.reading, todo' = to.actions, UNCHANGED <<link, asks, untold>>,
         moves' \in 0..MaxMoves, faults' \in 0..MaxFaults
  PROVE  ReadInv'
<1>1. LoopType'
  BY DEF ReadInv, TypeInv, LoopType, Leads, ReadingOK, Readings
<1>2. todo' = <<>> /\ reading'.state = "awaiting" => reading'.page \in Range(asks') \/ untold'
  BY ActIs DEF ReadInv, Company, Leads
<1> QED
  BY <1>1, <1>2, LoopKeeps DEF Leads

(* A plan is a sequence of actions, each about a page there may be. *)
Steps ==
  {ToOutdate, ToSilence, ToSpeak, ToEnd, ToJoin}
    \union {Act(what, page) : what \in {"show", "ask"}, page \in 1..(Pages + 1)}

LEMMA Written ==
  ASSUME NEW S
  PROVE  /\ <<>> \in Seq(S)
         /\ \A a \in S : <<a>> \in Seq(S)
         /\ \A a, b \in S : <<a, b>> \in Seq(S)
         /\ \A a, b, c \in S : <<a, b, c>> \in Seq(S)
         /\ \A a, b, c, d \in S : <<a, b, c, d>> \in Seq(S)
         /\ \A a, b, c, d, e \in S : <<a, b, c, d, e>> \in Seq(S)
  OBVIOUS

LEMMA PlansWritten ==
  /\ TalkPlans \subseteq Seq(Steps) /\ StopPlans \subseteq Seq(Steps) /\ DropPlans \subseteq Seq(Steps)
  /\ \A page \in 1..(Pages + 1) : AskPlans(page) \subseteq Seq(Steps)
<1>1. {ToOutdate, ToSilence, ToSpeak, ToEnd, ToJoin} \subseteq Steps
  BY DEF Steps
<1>2. \A page \in 1..(Pages + 1) : Act("show", page) \in Steps /\ Act("ask", page) \in Steps
  BY DEF Steps
<1>3. TalkPlans \subseteq Seq(Steps)
  BY <1>1, Written DEF TalkPlans
<1>4. StopPlans \subseteq Seq(Steps)
  BY <1>1, Written DEF StopPlans
<1>5. DropPlans \subseteq Seq(Steps)
  BY <1>1, Written DEF DropPlans
<1>6. ASSUME NEW page \in 1..(Pages + 1) PROVE AskPlans(page) \subseteq Seq(Steps)
  <2> DEFINE show == Act("show", page)
             ask == Act("ask", page)
  <2>1. show \in Steps /\ ask \in Steps
    BY <1>2
  <2>2. AskPlans(page) =
          {<<ToOutdate, ToSilence, show, ask>>, <<ToSilence, show, ask>>, <<show, ask>>,
           <<ToOutdate, ToSilence, ask>>, <<ToSilence, ask>>, <<ask>>}
    BY DEF AskPlans
  <2> HIDE DEF show, ask
  <2>3. <<ToOutdate, ToSilence, show, ask>> \in Seq(Steps) /\ <<ToSilence, show, ask>> \in Seq(Steps)
    BY <1>1, <2>1, Written
  <2>4. <<show, ask>> \in Seq(Steps) /\ <<ToOutdate, ToSilence, ask>> \in Seq(Steps)
    BY <1>1, <2>1, Written
  <2>5. <<ToSilence, ask>> \in Seq(Steps) /\ <<ask>> \in Seq(Steps)
    BY <1>1, <2>1, Written
  <2> QED
    BY <2>2, <2>3, <2>4, <2>5
<1> QED
  BY <1>3, <1>4, <1>5, <1>6

LEMMA FitsWritten ==
  ASSUME NEW r, NEW t, Fits(r, t)
  PROVE  t \in Seq(Steps) /\ t \o <<>> = t
<1>1. t \in Seq(Steps)
  BY PlansWritten DEF Fits
<1> QED
  BY <1>1, ConcatEmptySeq

LEMMA TodoWritten ==
  ASSUME Planned
  PROVE  /\ todo \in Seq(Steps)
         /\ \A i \in DOMAIN todo : todo[i].page \in 0..(Pages + 1)
<1>1. todo \in Seq(Steps)
  BY FitsWritten, PlansWritten, Written DEF Planned, Free
<1>2. \A x \in Steps : x.page \in 0..(Pages + 1)
  BY ActIs, ReadingAssumption DEF Steps, ToOutdate, ToSilence, ToSpeak, ToEnd, ToJoin
<1> QED
  BY <1>1, <1>2

LEMMA LeadsWritten ==
  ASSUME NEW r, NEW to, Leads(r, to)
  PROVE  to.actions \o <<>> = to.actions
  BY FitsWritten DEF Leads

LEMMA MoveBound == ASSUME LoopType, Move PROVE moves' \in 0..MaxMoves /\ faults' \in 0..MaxFaults /\ Free
  BY ReadingAssumption DEF LoopType, Move

LEMMA ToggleKeeps == ASSUME ReadInv, PressToggle PROVE ReadInv'
<1>1. /\ Move /\ UNCHANGED Threads /\ UNCHANGED <<link, asks, untold>>
      /\ \E scope \in {"page", "document", "selection"}, page \in 1..Pages :
           Update(Toggle(reading, scope, page), <<>>)
  BY DEF PressToggle
<1>2. PICK scope \in {"page", "document", "selection"}, page \in 1..Pages :
        Update(Toggle(reading, scope, page), <<>>)
  BY <1>1
<1> DEFINE to == Toggle(reading, scope, page)
<1>3. Leads(reading, to)
  BY ToggleLeads DEF ReadInv, TypeInv, LoopType
<1>4. reading' = to.reading /\ todo' = to.actions
  BY <1>2, <1>3, LeadsWritten DEF Update
<1> HIDE DEF to
<1> QED
  BY <1>1, <1>3, <1>4, MoveBound, KeyKeeps DEF ReadInv, TypeInv

LEMMA StopKeeps == ASSUME ReadInv, PressStop PROVE ReadInv'
<1>1. /\ Move /\ UNCHANGED Threads /\ UNCHANGED <<link, asks, untold>> /\ Update(Stop(reading), <<>>)
  BY DEF PressStop
<1> DEFINE to == Stop(reading)
<1>3. Leads(reading, to)
  BY StopLeads DEF ReadInv, TypeInv, LoopType
<1>4. reading' = to.reading /\ todo' = to.actions
  BY <1>1, <1>3, LeadsWritten DEF Update
<1> HIDE DEF to
<1> QED
  BY <1>1, <1>3, <1>4, MoveBound, KeyKeeps DEF ReadInv, TypeInv

LEMMA SkipKeeps == ASSUME ReadInv, PressSkip PROVE ReadInv'
<1>1. /\ Move /\ UNCHANGED Threads /\ UNCHANGED <<link, asks, untold>>
      /\ \E forward \in BOOLEAN : Update(Skip(reading, forward), <<>>)
  BY DEF PressSkip
<1>2. PICK forward \in BOOLEAN : Update(Skip(reading, forward), <<>>)
  BY <1>1
<1> DEFINE to == Skip(reading, forward)
<1>3. Leads(reading, to)
  BY SkipLeads DEF ReadInv, TypeInv, LoopType
<1>4. reading' = to.reading /\ todo' = to.actions
  BY <1>2, <1>3, LeadsWritten DEF Update
<1> HIDE DEF to
<1> QED
  BY <1>1, <1>3, <1>4, MoveBound, KeyKeeps DEF ReadInv, TypeInv

(* Stop, with more to do after it. *)
LEMMA StopIs ==
  ASSUME NEW r, ReadingOK(r)
  PROVE  /\ Stop(r).reading = Idle
         /\ r.state = "idle" => Stop(r).actions = <<>>
         /\ r.state # "idle" => Stop(r).actions = StopSpeaking
<1>1. CASE r.state = "idle"
  <2>1. r = Idle
    BY <1>1 DEF ReadingOK
  <2> QED
    BY <1>1, <2>1 DEF Stop, To
<1>2. CASE r.state # "idle"
  BY <1>2 DEF Stop, To
<1> QED
  BY <1>1, <1>2

LEMMA ReprobeKeeps == ASSUME ReadInv, Reprobe PROVE ReadInv'
<1>1. /\ Move /\ UNCHANGED Threads /\ UNCHANGED <<link, asks, untold>>
      /\ Update(Stop(reading), IF speaker THEN Dropping ELSE <<>>)
  BY DEF Reprobe
<1>2. ReadingOK(reading)
  BY DEF ReadInv, TypeInv, LoopType
<1>3. CASE ~speaker
  <2> DEFINE to == Stop(reading)
  <2>1. Leads(reading, to)
    BY <1>2, StopLeads
  <2>2. reading' = to.reading /\ todo' = to.actions
    BY <1>1, <1>3, <2>1, LeadsWritten DEF Update
  <2> HIDE DEF to
  <2> QED
    BY <1>1, <2>1, <2>2, MoveBound, KeyKeeps DEF ReadInv, TypeInv
<1>4. CASE speaker
  <2>1. reading' = Idle /\ todo' = Stop(reading).actions \o Dropping
    BY <1>1, <1>2, <1>4, StopIs DEF Update
  <2>2. \/ reading.state = "idle" /\ todo' = <<ToSilence, ToEnd, ToJoin>>
        \/ todo' = <<ToOutdate, ToSilence, ToSilence, ToEnd, ToJoin>>
    BY <1>2, <2>1, StopIs, Actions
  <2>3. todo' # <<>> /\ todo' \in DropPlans
    BY <2>2, Nonempty DEF DropPlans
  <2>4. Head(todo').what # "outdate" => ~Speaking(reading)
    BY <2>2, Heads, ActIs DEF ToOutdate, Speaking
  <2>5. LoopType' /\ reading'.state = "idle" /\ Free
    BY <1>1, <2>1, IdleOK, MoveBound
       DEF ReadInv, TypeInv, LoopType, ReadingOK, Readings
  <2> QED
    BY <1>1, <1>4, <2>3, <2>4, <2>5, LoopKeeps
<1> QED
  BY <1>3, <1>4

LEMMA PutDownKeeps ==
  ASSUME ReadInv, Free, PutDown, moves' \in 0..MaxMoves, faults' \in 0..MaxFaults
  PROVE  ReadInv'
<1>1. /\ reading' = Idle /\ todo' = StopSpeaking \o <<>> /\ link' = "none" /\ asks' = <<>> /\ untold' = FALSE
      /\ UNCHANGED Threads
  BY DEF PutDown, Update, To
<1>2. todo' = StopSpeaking
  BY <1>1, Actions
<1>3. todo' # <<>> /\ Fits(reading', todo') /\ Head(todo').what = "outdate"
  BY <1>1, <1>2, IdleOK, FitStop
<1>4. LoopType'
  <2>1. <<>> \in Seq(1..(Pages + 1))
    OBVIOUS
  <2> QED
    BY <1>1, <2>1, IdleOK DEF LoopType, ReadingOK, Readings
<1> QED
  BY <1>1, <1>3, <1>4, LoopKeeps

LEMMA PutDocumentDownKeeps == ASSUME ReadInv, PutDocumentDown \/ WorkerLost PROVE ReadInv'
<1>1. Free /\ PutDown
  BY DEF PutDocumentDown, WorkerLost, Move
<1>2. moves' \in 0..MaxMoves /\ faults' \in 0..MaxFaults
  BY ReadingAssumption DEF PutDocumentDown, WorkerLost, Move, ReadInv, TypeInv, LoopType
<1> QED
  BY <1>1, <1>2, PutDownKeeps

-----------------------------------------------------------------------------
(* The answers of the document worker, and of the speaker. *)

LEMMA LinkUpKeeps == ASSUME ReadInv, LinkUp PROVE ReadInv'
<1>1. /\ Free /\ link = "none" /\ link' \in {"none", "text", "textless"}
      /\ UNCHANGED <<reading, todo, asks, untold, moves, faults>> /\ UNCHANGED Threads
  BY DEF LinkUp, bounds, Threads
<1>2. LoopType'
  BY <1>1 DEF ReadInv, TypeInv, LoopType, ReadingOK, Readings
<1>3. todo' = <<>> /\ reading' = reading
  BY <1>1 DEF Free
<1>4. reading'.state = "awaiting" => reading'.page \in Range(asks') \/ untold'
  BY <1>1 DEF ReadInv, Company
<1> QED
  BY <1>1, <1>2, <1>3, <1>4, LoopKeeps

(* The first of the pages asked for, and the rest. *)
LEMMA Asked ==
  ASSUME LoopType, asks # <<>>
  PROVE  /\ Head(asks) \in 1..(Pages + 1) /\ Tail(asks) \in Seq(1..(Pages + 1))
         /\ Range(asks) = Range(Tail(asks)) \union {Head(asks)}
         /\ link # "none"
  BY Popped, RangeLeft DEF LoopType

LEMMA TellTextKeeps == ASSUME ReadInv, TellText PROVE ReadInv'
<1> DEFINE page == Head(asks)
           to == TextArrived(reading, page)
<1>1. /\ Free /\ asks # <<>> /\ asks' = Tail(asks) /\ UNCHANGED Threads
      /\ UNCHANGED <<link, untold, moves, faults>> /\ page <= Pages /\ Update(to, <<>>)
  BY DEF TellText, Answer, bounds
<1>2. ReadingOK(reading) /\ LoopType /\ Company
  BY <1>1 DEF ReadInv, TypeInv, LoopType
<1>3. page \in 1..(Pages + 1)
  BY <1>1, <1>2, Asked
<1>4. page \in 1..Pages
  BY <1>1, <1>3, ReadingAssumption
<1>5. Leads(reading, to)
  BY <1>2, <1>4, TextLeads
<1>6. reading' = to.reading /\ todo' = to.actions
  BY <1>1, <1>5, LeadsWritten DEF Update
<1>7. reading.state = "awaiting" /\ reading.page = page => to.actions # <<>>
  <2> SUFFICES ASSUME reading.state = "awaiting", reading.page = page PROVE to.actions # <<>>
    OBVIOUS
  <2>1. CASE SentenceCount[page] # 0
    BY <2>1, Actions, Nonempty DEF TextArrived, SpeakCurrent, To
  <2>2. CASE SentenceCount[page] = 0 /\ reading.scope = "document"
    <3>1. to = NextPage(reading)
      BY <2>2 DEF TextArrived, PageRead
    <3>2. to.actions = ShowPage(reading.page + 1) \o NeedText(reading.page + 1)
      BY <3>1 DEF NextPage, To
    <3> HIDE DEF to
    <3>3. to.actions = <<Act("show", reading.page + 1), Act("ask", reading.page + 1)>>
      BY <3>2, Actions
    <3> QED
      BY <3>3, Nonempty
  <2>3. CASE SentenceCount[page] = 0 /\ reading.scope # "document"
    <3>1. to = To(Idle, StopSpeaking)
      BY <2>3, Ends DEF TextArrived, PageRead
    <3> HIDE DEF to
    <3> QED
      BY <3>1, Actions, Nonempty DEF To
  <2> QED
    BY <2>1, <2>2, <2>3
<1> HIDE DEF to, page
<1>8. LoopType'
  BY <1>1, <1>2, <1>5, <1>6, Asked DEF LoopType, Leads, ReadingOK, Readings
<1>9. todo' = <<>> /\ reading'.state = "awaiting" => reading'.page \in Range(asks') \/ untold'
  BY <1>1, <1>2, <1>5, <1>6, <1>7, Asked DEF Company, Leads, page
<1> QED
  BY <1>1, <1>5, <1>6, <1>8, <1>9, LoopKeeps DEF Leads

LEMMA TellCannotSpeakKeeps == ASSUME ReadInv, TellCannotSpeak PROVE ReadInv'
<1> DEFINE to == Stop(reading)
<1>1. /\ Free /\ asks # <<>> /\ asks' = Tail(asks) /\ UNCHANGED Threads
      /\ UNCHANGED <<link, untold, moves, faults>> /\ Update(to, <<>>)
  BY DEF TellCannotSpeak, Answer, bounds
<1>2. ReadingOK(reading) /\ LoopType
  BY <1>1 DEF ReadInv, TypeInv, LoopType
<1>3. Leads(reading, to) /\ to.reading = Idle
  BY <1>2, StopLeads, StopIs
<1>4. reading' = to.reading /\ todo' = to.actions
  BY <1>1, <1>3, LeadsWritten DEF Update
<1> HIDE DEF to
<1>5. LoopType'
  BY <1>1, <1>2, <1>3, <1>4, Asked DEF LoopType, Leads, ReadingOK, Readings
<1>6. reading'.state # "awaiting"
  BY <1>3, <1>4, IdleOK
<1> QED
  BY <1>1, <1>3, <1>4, <1>5, <1>6, LoopKeeps DEF Leads

LEMMA TellFailedKeeps == ASSUME ReadInv, TellFailed PROVE ReadInv'
<1>1. /\ Free /\ asks # <<>> /\ asks' = Tail(asks) /\ UNCHANGED Threads
      /\ UNCHANGED <<link, reading, todo, moves>> /\ untold' = TRUE
      /\ faults' = faults \/ (faults < MaxFaults /\ faults' = faults + 1)
  BY DEF TellFailed, Answer
<1>2. LoopType
  BY DEF ReadInv, TypeInv
<1>3. faults' \in 0..MaxFaults
  BY <1>1, <1>2, ReadingAssumption DEF LoopType
<1>4. LoopType'
  BY <1>1, <1>2, <1>3, Asked DEF LoopType, ReadingOK, Readings
<1>5. todo' = <<>> /\ reading' = reading /\ untold'
  BY <1>1 DEF Free
<1> QED
  BY <1>1, <1>4, <1>5, LoopKeeps

LEMMA PollKeeps == ASSUME ReadInv, Poll PROVE ReadInv'
<1> DEFINE e == Head(events)
           to == Heard(e)
<1>1. /\ Free /\ speaker /\ events # <<>> /\ events' = Tail(events) /\ Update(to, <<>>)
      /\ link' = link /\ asks' = asks /\ untold' = untold /\ speaker' = speaker
      /\ generation' = generation /\ commands' = commands /\ control' = control
      /\ requests' = requests /\ ready' = ready /\ synth' = synth /\ cache' = cache
      /\ stopping' = stopping /\ sounding' = sounding /\ ending' = ending
      /\ moves' = moves /\ faults' = faults
  BY DEF Poll, synthesis, player, bounds
<1>2. ReadingOK(reading) /\ LoopType /\ ThreadType /\ Filled /\ Company /\ Stamped /\ Unused
  BY <1>1 DEF ReadInv, TypeInv, LoopType, ThreadType
<1>3. e \in Events /\ events' \in Seq(Events)
  BY <1>1, <1>2, Popped DEF Filled
<1>4. Commanded' = Commanded /\ InHand' = InHand
  BY <1>1 DEF Commanded, InHand, Stale
<1>5. Stamped'
  <2>1. \A i \in DOMAIN events' : i + 1 \in DOMAIN events /\ events'[i] = events[i + 1]
    BY <1>1, <1>2, Popped DEF Filled
  <2> QED
    BY <1>1, <1>2, <2>1 DEF Stamped
<1>6. /\ ThreadType' /\ Unused'
  BY <1>1, <1>2, <1>3 DEF ThreadType, Filled, Unused
<1>7. SynthType'
  BY <1>1 DEF ReadInv, TypeInv, SynthType
<1>8. ~Hushing
  BY <1>1, RangeEmpty DEF Hushing, Free
<1>9. Heeded'
  BY <1>1, <1>8 DEF ReadInv, Heeded, Stale
(* Something is left to carry out only when nothing is left under way.       *)
<1>10. ASSUME ReadingOK(reading'), todo' = <<>>, Company' PROVE ReadInv'
  <2>1. LoopType'
    BY <1>1, <1>2, <1>10 DEF LoopType, ReadingOK, Readings
  <2>2. Planned' /\ Still'
    BY <1>10 DEF Planned, Free, Still
  <2> QED
    BY <1>5, <1>6, <1>7, <1>9, <1>10, <2>1, <2>2 DEF ReadInv, TypeInv
<1>11. ASSUME ReadingOK(reading'), todo' # <<>>, Fits(reading', todo'), UnderWay' = {} PROVE ReadInv'
  <2>1. LoopType'
    BY <1>1, <1>2, <1>11 DEF LoopType, ReadingOK, Readings
  <2>2. Planned'
    BY <1>11 DEF Planned, Fits
  <2>3. Still' /\ ~Free'
    BY <1>11 DEF Free, Still
  <2> QED
    BY <1>5, <1>6, <1>7, <1>9, <2>1, <2>2, <2>3 DEF ReadInv, TypeInv
<1>12. CASE ~Final(e)
  <2>1. /\ UnderWay = {} => UnderWay' = {}
        /\ Cursor(reading)' = Cursor(reading) /\ Sole => Sole'
    <3>1. Over = {} => Over' = {}
      BY <1>1, <1>2, EventPopped
    <3>2. ASSUME Cursor(reading)' = Cursor(reading), Sole PROVE Sole'
      <4>1. Waits /\ Cursor(reading)' = Cursor(reading) => Waits'
        BY <1>4 DEF Waits
      <4>2. Sounds /\ Cursor(reading)' = Cursor(reading) => Sounds'
        BY <1>4 DEF Sounds
      <4>3. Told /\ Cursor(reading)' = Cursor(reading) => Told'
        BY <1>1, <1>2, <1>12, EventPopped DEF Told
      <4>4. Filled'
        BY <1>6 DEF ThreadType
      <4> QED
        BY <1>2, <1>4, <3>1, <3>2, <4>1, <4>2, <4>3, <4>4, SoleCases, SoleThen
    <3> QED
      BY <1>4, <3>1, <3>2 DEF UnderWay
  <2>2. CASE e.generation # generation
    <3>1. to = To(reading, <<>>)
      BY <2>2 DEF Heard
    <3>2. reading' = reading /\ todo' = <<>>
      BY <1>1, <3>1, AndNothing DEF Update, To
    <3>3. Company'
      BY <1>1, <1>2, <2>1, <3>2 DEF Company, Talking, Cursor
    <3> QED
      BY <1>2, <1>10, <3>2, <3>3
  <2>3. CASE e.generation = generation
    <3>1. e.what = "started"
      BY <1>12, <2>3 DEF Final, Stale
    <3>2. to = Started(reading)
      BY <2>3, <3>1 DEF Heard, Meaning
    <3>3. /\ ReadingOK(to.reading) /\ to.actions = <<>>
          /\ Cursor(to.reading) = Cursor(reading) /\ Speaking(to.reading) = Speaking(reading)
          /\ to.reading.state = "awaiting" <=> reading.state = "awaiting"
          /\ to.reading.page = reading.page
      BY <1>2, <3>2, StartedLeads
    <3>4. reading' = to.reading /\ todo' = <<>>
      BY <1>1, <3>3 DEF Update
    <3>5. Cursor(reading)' = Cursor(reading) /\ Talking' = Talking
      BY <3>3, <3>4 DEF Cursor, Talking, Speaking
    <3>6. Company'
      BY <1>1, <1>2, <2>1, <3>3, <3>4, <3>5 DEF Company
    <3> HIDE DEF to
    <3> QED
      BY <1>10, <3>3, <3>4, <3>6
  <2> QED
    BY <2>2, <2>3
<1>13. CASE Final(e)
  <2>1. e.what \in {"finished", "failed"} /\ e.generation = generation
    BY <1>3, <1>13 DEF Final, Stale, Events
  <2>2. Over # {}
    BY <1>1, <1>2, <1>13, EventPopped
  <2>3. Talking /\ Sole
    BY <1>2, <2>2, NoneCases DEF Company
  <2>4. Commanded = {} /\ InHand = {} /\ Told
    BY <1>2, <2>2, <2>3, SoleCases
  <2>5. UnderWay' = {}
    <3>1. Over' = {}
      BY <1>1, <1>2, <1>13, <2>4, EventPopped DEF Told
    <3> QED
      BY <1>4, <2>4, <3>1 DEF UnderWay
  <2>6. ReadingOK(to.reading) /\ to.actions # <<>> /\ Fits(to.reading, to.actions)
    <3>1. CASE e.what = "finished"
      <4>1. to = Advance(reading)
        BY <2>1, <3>1 DEF Heard, Meaning
      <4> QED
        BY <1>2, <2>3, <4>1, Talks, AdvanceLeads
    <3>2. CASE e.what = "failed"
      <4>1. to = To(Idle, StopSpeaking)
        BY <2>1, <3>2, Ends DEF Heard, Meaning
      <4> QED
        BY <4>1, IdleOK, FitStop DEF To
    <3> QED
      BY <2>1, <3>1, <3>2
  <2>7. reading' = to.reading /\ todo' = to.actions
    BY <1>1, <2>6, FitsWritten DEF Update
  <2> HIDE DEF to
  <2> QED
    BY <1>11, <2>5, <2>6, <2>7
<1> QED
  BY <1>12, <1>13

-----------------------------------------------------------------------------
(* A handler carries out its plan, an action at a time. *)

(* What the plan says of the action it begins with. *)
LEMMA PlanOn ==
  ASSUME TypeInv, ~Free
  PROVE  /\ Head(todo) \in {ToOutdate, ToSilence, ToSpeak, ToEnd, ToJoin} \/
              \E page \in 1..(Pages + 1) : /\ Head(todo) \in {Act("show", page), Act("ask", page)}
                                           /\ todo \in AskPlans(page)
         /\ Range(todo) = Range(Tail(todo)) \union {Head(todo)}
         /\ todo \in Seq(Steps) /\ Tail(todo) \in Seq(Steps)
         /\ Head(todo) = ToOutdate => Tail(todo) # <<>> /\ Head(Tail(todo)) = ToSilence
         /\ Head(todo) \in {ToOutdate, ToSilence, ToEnd} =>
              \/ Tail(todo) = <<>> /\ reading.state \in {"idle", "paused"}
              \/ Fits(reading, Tail(todo))
              \/ Tail(todo) \in DropPlans /\ reading.state = "idle" /\ speaker
         /\ Head(todo) = ToSpeak => reading.state = "starting" /\ Tail(todo) = <<>>
         /\ Head(todo) \in {ToEnd, ToJoin} => reading.state = "idle" /\ speaker
         /\ Head(todo) = ToEnd => Tail(todo) \in DropPlans
         /\ Head(todo) = ToJoin => Tail(todo) = <<>>
<1>1. todo \in Seq(Steps) /\ todo # <<>>
  BY TodoWritten DEF TypeInv, Free
<1>2. Range(todo) = Range(Tail(todo)) \union {Head(todo)} /\ Tail(todo) \in Seq(Steps)
  BY <1>1, RangeLeft, Popped
<1>3. CASE todo \in TalkPlans /\ reading.state = "starting"
  <2>1. /\ Head(todo) \in {ToOutdate, ToSilence, ToSpeak}
        /\ Head(todo) = ToOutdate => Tail(todo) \in TalkPlans /\ Head(Tail(todo)) = ToSilence
        /\ Head(todo) = ToSilence => Tail(todo) \in TalkPlans
        /\ Head(todo) = ToSpeak => Tail(todo) = <<>>
    BY <1>3, TalkOn
  <2>2. Tail(todo) \in TalkPlans => Fits(reading, Tail(todo)) /\ Tail(todo) # <<>>
    BY <1>3, TalkOn DEF Fits
  <2>3. ToSpeak \notin {ToOutdate, ToSilence, ToEnd, ToJoin} /\ {ToOutdate, ToSilence} \cap {ToEnd, ToJoin} = {}
    BY Apart, ActIs DEF ToSpeak, ToEnd, ToJoin
  <2>4. Head(todo) \notin {ToEnd, ToJoin}
    BY <2>1, <2>3
  <2>5. Head(todo) \in {ToOutdate, ToSilence, ToEnd} => Fits(reading, Tail(todo))
    BY <2>1, <2>2, <2>3
  <2> QED
    BY <1>1, <1>2, <1>3, <2>1, <2>2, <2>4, <2>5
<1>4. ASSUME NEW page \in 1..(Pages + 1), todo \in AskPlans(page),
             reading.state = "idle" \/ (reading.state = "awaiting" /\ reading.page = page)
      PROVE  /\ Head(todo) \in {ToOutdate, ToSilence, Act("show", page), Act("ask", page)}
             /\ Head(todo) \in {ToOutdate, ToSilence} => Fits(reading, Tail(todo)) /\ Tail(todo) # <<>>
             /\ Head(todo) = ToOutdate => Head(Tail(todo)) = ToSilence
  <2>1. /\ Head(todo) \in {ToOutdate, ToSilence, Act("show", page), Act("ask", page)}
        /\ Head(todo) = ToOutdate => Tail(todo) \in AskPlans(page) /\ Head(Tail(todo)) = ToSilence
        /\ Head(todo) = ToSilence => Tail(todo) \in AskPlans(page)
    BY <1>4, AskOn
  <2>2. Tail(todo) \in AskPlans(page) => Fits(reading, Tail(todo)) /\ Tail(todo) # <<>>
    BY <1>4, AskOn DEF Fits
  <2> QED
    BY <2>1, <2>2
<1>5. CASE todo \in StopPlans /\ reading.state \in {"idle", "paused"}
  <2>1. /\ Head(todo) \in {ToOutdate, ToSilence}
        /\ Head(todo) = ToOutdate => Tail(todo) \in StopPlans /\ Head(Tail(todo)) = ToSilence
        /\ Tail(todo) = <<>> \/ Tail(todo) \in StopPlans
    BY <1>5, StopOn
  <2>2. Tail(todo) \in StopPlans => Fits(reading, Tail(todo)) /\ Tail(todo) # <<>>
    BY <1>5, StopOn DEF Fits
  <2> QED
    BY <1>1, <1>2, <1>5, <2>1, <2>2, Apart
<1>6. CASE todo \in DropPlans /\ reading.state = "idle" /\ speaker
  <2>1. /\ Head(todo) \in {ToOutdate, ToSilence, ToEnd, ToJoin}
        /\ Head(todo) = ToOutdate => Tail(todo) \in DropPlans /\ Head(Tail(todo)) = ToSilence
        /\ Head(todo) = ToJoin => Tail(todo) = <<>>
        /\ Head(todo) # ToJoin => Tail(todo) \in DropPlans
    BY <1>6, DropOn
  <2>2. Tail(todo) \in DropPlans => Tail(todo) # <<>>
    BY DropOn
  <2>3. ToJoin \notin {ToOutdate, ToSilence, ToEnd} /\ ToSpeak \notin {ToOutdate, ToSilence, ToEnd, ToJoin}
    BY Apart, ActIs DEF ToSpeak, ToEnd, ToJoin
  <2>4. ToEnd # ToJoin /\ Head(todo) # ToSpeak
    BY <2>1, <2>3
  <2>5. Head(todo) \in {ToOutdate, ToSilence, ToEnd} => Tail(todo) \in DropPlans
    BY <2>1, <2>3
  <2> QED
    BY <1>1, <1>2, <1>6, <2>1, <2>2, <2>4, <2>5
<1>7. \/ todo \in TalkPlans /\ reading.state = "starting"
      \/ \E page \in 1..(Pages + 1) :
           /\ todo \in AskPlans(page)
           /\ reading.state = "idle" \/ (reading.state = "awaiting" /\ reading.page = page)
      \/ todo \in StopPlans /\ reading.state \in {"idle", "paused"}
      \/ todo \in DropPlans /\ reading.state = "idle" /\ speaker
  BY DEF TypeInv, Planned, Fits
<1>8. ASSUME NEW page \in 1..(Pages + 1), todo \in AskPlans(page),
             reading.state = "idle" \/ (reading.state = "awaiting" /\ reading.page = page)
      PROVE  /\ Head(todo) \in {ToOutdate, ToSilence, ToSpeak, ToEnd, ToJoin} \/
                  \E p \in 1..(Pages + 1) : /\ Head(todo) \in {Act("show", p), Act("ask", p)}
                                            /\ todo \in AskPlans(p)
             /\ Head(todo) = ToOutdate => Tail(todo) # <<>> /\ Head(Tail(todo)) = ToSilence
             /\ Head(todo) \in {ToOutdate, ToSilence, ToEnd} => Fits(reading, Tail(todo))
             /\ Head(todo) \notin {ToSpeak, ToEnd, ToJoin}
  <2>1. /\ Act("show", page) \notin {ToSpeak, ToEnd, ToJoin} /\ Act("ask", page) \notin {ToSpeak, ToEnd, ToJoin}
    BY ActIs DEF ToSpeak, ToEnd, ToJoin
  <2>2. /\ ToOutdate \notin {ToSpeak, ToEnd, ToJoin} /\ ToSilence \notin {ToSpeak, ToEnd, ToJoin}
    BY Apart
  <2> QED
    BY <1>4, <1>8, <2>1, <2>2
<1> QED
  BY <1>1, <1>2, <1>3, <1>5, <1>6, <1>7, <1>8

(* A step that leaves the loop's own state alone but for its plan. *)
LEMMA DoneKeeps ==
  ASSUME TypeInv, ~Free, reading' = reading, todo' = Tail(todo),
         UNCHANGED <<link, asks, untold, moves>>, faults' \in 0..MaxFaults,
         Head(todo) \in {ToOutdate, ToSilence, ToEnd}, speaker' = speaker
  PROVE  LoopType' /\ Planned' /\ (todo' = <<>> => ~Talking' /\ reading'.state # "awaiting")
<1>1. LoopType'
  BY DEF TypeInv, LoopType, ReadingOK, Readings
<1>2. \/ todo' = <<>> /\ reading.state \in {"idle", "paused"}
      \/ Fits(reading, todo')
      \/ todo' \in DropPlans /\ reading.state = "idle" /\ speaker
  BY PlanOn
<1>3. \A page : \A t : t \in AskPlans(page) => t # <<>>
  BY AskOn
<1>4. todo' # <<>> \/ reading.state \in {"idle", "paused"}
  BY <1>2, <1>3, TalkOn, StopOn, DropOn DEF Fits
<1>5. Planned'
  BY <1>2 DEF Planned, Free, Fits
<1> QED
  BY <1>1, <1>4, <1>5 DEF Talking

LEMMA OutdateKeeps == ASSUME ReadInv, Outdate PROVE ReadInv'
<1>1. /\ ~Free /\ Head(todo).what = "outdate" /\ todo' = Tail(todo) /\ reading' = reading
      /\ generation' = (IF speaker THEN generation + 1 ELSE generation)
      /\ link' = link /\ asks' = asks /\ untold' = untold /\ speaker' = speaker
      /\ commands' = commands /\ events' = events /\ control' = control
      /\ requests' = requests /\ ready' = ready /\ synth' = synth /\ cache' = cache
      /\ stopping' = stopping /\ sounding' = sounding /\ ending' = ending
      /\ moves' = moves /\ faults' = faults
  BY DEF Outdate, Doing, Carry, Done, Free, synthesis, player
<1>2. TypeInv /\ LoopType /\ ThreadType /\ Filled /\ Stamped /\ Unused /\ generation \in Nat
  BY DEF ReadInv, TypeInv, ThreadType
<1>3. Head(todo) = ToOutdate
  <2>1. \A page : Act("show", page).what # "outdate" /\ Act("ask", page).what # "outdate"
    BY ActIs
  <2>2. /\ ToSilence.what # "outdate" /\ ToSpeak.what # "outdate" /\ ToEnd.what # "outdate"
        /\ ToJoin.what # "outdate"
    BY ActIs DEF ToSilence, ToSpeak, ToEnd, ToJoin
  <2> QED
    BY <1>1, <1>2, <2>1, <2>2, PlanOn
<1>4. todo' # <<>> /\ Head(todo') = ToSilence /\ todo' \in Seq(Steps)
  BY <1>1, <1>2, <1>3, PlanOn
<1>5. ToSilence \in Range(todo')
  BY <1>4, RangeLeft
<1>6. LoopType' /\ Planned'
  BY <1>1, <1>2, <1>3, DoneKeeps DEF LoopType
<1>7. UnderWay' = {} /\ Stamped'
  <2>1. CASE speaker
    BY <1>1, <1>2, <2>1, Outdated
  <2>2. CASE ~speaker
    <3>1. UnderWay' = UnderWay
      BY <1>1, <2>2 DEF UnderWay, Commanded, InHand, Over, Stale
    <3>2. Stamped'
      BY <1>1, <1>2, <2>2 DEF Stamped
    <3> QED
      BY <1>2, <2>2, <3>1, <3>2, Deserted
  <2> QED
    BY <2>1, <2>2
<1>8. ThreadType' /\ SynthType' /\ Unused'
  BY <1>1, <1>2 DEF TypeInv, ThreadType, Filled, SynthType, Unused
<1>9. Heeded'
  <2>1. InHand' = {}
    BY <1>7 DEF UnderWay
  <2>2. control.at \in {"armed", "playing"} => (Stale(control.generation))'
    BY <1>1, <2>1 DEF InHand
  <2> QED
    BY <1>1, <1>5, <2>2 DEF ReadInv, Heeded, Hushing
<1>10. Still' /\ ~Free'
  BY <1>4, <1>7 DEF Still, Free
<1> QED
  BY <1>6, <1>7, <1>8, <1>9, <1>10 DEF ReadInv, TypeInv

LEMMA SilenceKeeps == ASSUME ReadInv, Silence PROVE ReadInv'
<1>1. /\ ~Free /\ Head(todo).what = "silence" /\ todo' = Tail(todo) /\ reading' = reading
      /\ stopping' = (IF speaker THEN TRUE ELSE stopping)
      /\ sounding' = (IF speaker THEN FALSE ELSE sounding)
      /\ link' = link /\ asks' = asks /\ untold' = untold /\ speaker' = speaker
      /\ generation' = generation
      /\ commands' = commands /\ events' = events /\ control' = control
      /\ requests' = requests /\ ready' = ready /\ synth' = synth /\ cache' = cache
      /\ ending' = ending /\ moves' = moves /\ faults' = faults
  BY DEF Silence, Doing, Carry, Done, Free, Silenced, synthesis, player
<1>2. TypeInv /\ LoopType /\ ThreadType /\ Filled /\ Stamped /\ Unused /\ generation \in Nat
  BY DEF ReadInv, TypeInv, ThreadType
<1>3. Head(todo) = ToSilence
  <2>1. \A page : Act("show", page).what # "silence" /\ Act("ask", page).what # "silence"
    BY ActIs
  <2>2. /\ ToOutdate.what # "silence" /\ ToSpeak.what # "silence" /\ ToEnd.what # "silence"
        /\ ToJoin.what # "silence"
    BY ActIs DEF ToOutdate, ToSpeak, ToEnd, ToJoin
  <2> QED
    BY <1>1, <1>2, <2>1, <2>2, PlanOn
<1>4. LoopType' /\ Planned' /\ (todo' = <<>> => ~Talking' /\ reading'.state # "awaiting")
  BY <1>1, <1>2, <1>3, DoneKeeps DEF LoopType
<1>5. UnderWay' = UnderWay /\ UnderWay = {}
  <2>1. UnderWay' = UnderWay
    BY <1>1 DEF UnderWay, Commanded, InHand, Over, Stale
  <2> QED
    BY <1>1, <2>1 DEF ReadInv, Still
<1>6. ThreadType' /\ SynthType' /\ Stamped' /\ Unused'
  BY <1>1, <1>2 DEF TypeInv, ThreadType, Filled, SynthType, Stamped, Unused
<1>7. Heeded'
  <2>1. InHand' = {} /\ InHand = {}
    BY <1>5 DEF UnderWay
  <2>2. control.at \in {"armed", "playing"} => (Stale(control.generation))'
    BY <1>1, <2>1 DEF InHand
  <2>3. ~speaker => control.at = "ended"
    BY <1>2 DEF Unused
  <2> QED
    BY <1>1, <2>2, <2>3 DEF ReadInv, Heeded
<1>8. Still' /\ (Free => Company)'
  BY <1>4, <1>5 DEF Still, Free, Company
<1> QED
  BY <1>4, <1>6, <1>7, <1>8 DEF ReadInv, TypeInv

LEMMA CarriedOn ==
  ASSUME TypeInv', UnderWay' = {}, Heeded',
         todo' = <<>> => ~Talking' /\ (reading'.state = "awaiting" => reading'.page \in Range(asks') \/ untold')
  PROVE  ReadInv'
<1>1. Still' /\ (Free => Company)'
  BY DEF Still, Free, Company
<1> QED
  BY <1>1 DEF ReadInv

(* What is neither armed nor played needs no silencing.                      *)
LEMMA StillHeeded ==
  ASSUME Heeded, control' = control, generation' = generation, stopping' = stopping,
         sounding' = sounding,
         Hushing => Hushing'
  PROVE  Heeded'
  BY DEF Heeded, Stale

LEMMA SentenceAt ==
  ASSUME NEW r, ReadingOK(r), r.loaded
  PROVE  Cursor(r) \in Sentences /\ Following(r) \in Optional
<1>1. r.page \in 0..Pages /\ r.index \in 1..SentenceCount[r.page] /\ SentenceCount[r.page] \in Nat
  BY ReadingAssumption DEF ReadingOK
<1>2. \A i \in 1..SentenceCount[r.page] : <<r.page, i>> \in Sentences
  BY <1>1 DEF Sentences
<1>3. r.index < SentenceCount[r.page] => r.index + 1 \in 1..SentenceCount[r.page]
  BY <1>1
<1> QED
  BY <1>1, <1>2, <1>3 DEF Cursor, Following, Units, Optional

LEMMA PageOn ==
  ASSUME TypeInv, ~Free, Head(todo).what \in {"show", "ask"}
  PROVE  \E page \in 1..(Pages + 1) :
           /\ Head(todo) \in {Act("show", page), Act("ask", page)}
           /\ Head(todo) = Act("show", page) => Tail(todo) = <<Act("ask", page)>>
           /\ Head(todo) = Act("ask", page) => Tail(todo) = <<>>
           /\ reading.state = "idle" \/ (reading.state = "awaiting" /\ reading.page = page)
<1>1. /\ ToOutdate.what = "outdate" /\ ToSilence.what = "silence" /\ ToSpeak.what = "speak"
      /\ ToEnd.what = "end" /\ ToJoin.what = "join"
  BY ActIs DEF ToOutdate, ToSilence, ToSpeak, ToEnd, ToJoin
<1>2. Head(todo) \notin {ToOutdate, ToSilence, ToSpeak, ToEnd, ToJoin}
  BY <1>1
<1>3. todo \notin TalkPlans /\ todo \notin StopPlans /\ todo \notin DropPlans
  BY <1>2, TalkOn, StopOn, DropOn
<1>4. PICK page \in 1..(Pages + 1) :
        todo \in AskPlans(page) /\ (reading.state = "idle" \/ (reading.state = "awaiting" /\ reading.page = page))
  BY <1>3 DEF TypeInv, Planned, Fits
<1>5. /\ Head(todo) \in {ToOutdate, ToSilence, Act("show", page), Act("ask", page)}
      /\ Head(todo) = Act("show", page) => Tail(todo) = <<Act("ask", page)>>
      /\ Head(todo) = Act("ask", page) => Tail(todo) = <<>>
  BY <1>4, AskOn
<1> QED
  BY <1>2, <1>4, <1>5

LEMMA SayKeeps == ASSUME ReadInv, Say PROVE ReadInv'
<1>1. /\ ~Free /\ Head(todo).what = "speak" /\ todo' = Tail(todo) /\ reading' = reading
      /\ speaker' = TRUE /\ commands' = Append(commands, Utterance)
      /\ speaker => control' = control /\ synth' = synth
      /\ ~speaker => control' = Resting /\ synth' = Waiting
      /\ link' = link /\ asks' = asks /\ untold' = untold
      /\ generation' = generation /\ events' = events
      /\ requests' = requests /\ ready' = ready /\ cache' = cache
      /\ stopping' = stopping /\ sounding' = sounding /\ ending' = ending
      /\ moves' = moves /\ faults' = faults
  BY DEF Say, Doing, Carry, Done, Free, player
<1>2. TypeInv /\ LoopType /\ ThreadType /\ Filled /\ Stamped /\ Unused /\ generation \in Nat
  BY DEF ReadInv, TypeInv, ThreadType
<1>3. Head(todo) = ToSpeak
  <2>1. \A page : Act("show", page).what # "speak" /\ Act("ask", page).what # "speak"
    BY ActIs
  <2>2. /\ ToOutdate.what # "speak" /\ ToSilence.what # "speak" /\ ToEnd.what # "speak"
        /\ ToJoin.what # "speak"
    BY ActIs DEF ToOutdate, ToSilence, ToEnd, ToJoin
  <2> QED
    BY <1>1, <1>2, <2>1, <2>2, PlanOn
<1>4. reading.state = "starting" /\ todo' = <<>> /\ ~Hushing
  <2>1. reading.state = "starting" /\ todo' = <<>> /\ Range(todo) = Range(Tail(todo)) \union {Head(todo)}
    BY <1>1, <1>2, <1>3, PlanOn
  <2> QED
    BY <1>1, <1>3, <2>1, RangeEmpty, Apart DEF Hushing
<1>5. reading.loaded /\ ReadingOK(reading)
  BY <1>2, <1>4 DEF LoopType, ReadingOK
<1>6. Utterance \in Commands /\ Utterance.what = "speak" /\ Utterance.generation = generation
      /\ Utterance.key = Cursor(reading)
  BY <1>2, <1>5, SentenceAt DEF Utterance, Commands
<1>7. UnderWay = {}
  BY <1>1, <1>3, ActIs DEF ReadInv, Still, ToSpeak
<1>8. LoopType' /\ Planned'
  BY <1>1, <1>2, <1>4 DEF LoopType, ReadingOK, Readings, Planned, Free
<1>9. control' \in Controls /\ (control'.at \notin {"idle", "ended"} => control'.key \in Sentences)
      /\ (control'.at = "ended" => control'.generation = 0) /\ control'.generation <= generation
  <2>1. Resting \in Controls /\ Resting.at = "idle" /\ Resting.generation = 0
    BY DEF Controls, Resting, Optional
  <2>2. 0 <= generation
    BY <1>2
  <2>3. CASE speaker
    BY <1>1, <1>2, <2>3 DEF Filled, Stamped
  <2>4. CASE ~speaker
    BY <1>1, <2>1, <2>2, <2>4
  <2> QED
    BY <2>3, <2>4
<1>10. /\ commands' \in Seq(Commands) /\ \A i \in DOMAIN commands' : commands'[i].generation <= generation
  <2>1. /\ Append(commands, Utterance) \in Seq(Commands)
        /\ DOMAIN Append(commands, Utterance) = DOMAIN commands \union {Len(commands) + 1}
        /\ Append(commands, Utterance)[Len(commands) + 1] = Utterance
        /\ \A i \in DOMAIN commands : Append(commands, Utterance)[i] = commands[i]
    BY <1>2, <1>6, Pushed DEF Filled
  <2> QED
    BY <1>1, <1>2, <1>6, <2>1 DEF Stamped
<1>11. ThreadType' /\ SynthType' /\ Stamped' /\ Unused'
  <2>1. ThreadType'
    BY <1>1, <1>2, <1>9, <1>10 DEF ThreadType, Filled
  <2>2. SynthType'
    BY <1>1, <1>2 DEF TypeInv, SynthType, Waiting, Optional
  <2>3. Stamped'
    BY <1>1, <1>2, <1>9, <1>10 DEF Stamped
  <2> QED
    BY <1>1, <2>1, <2>2, <2>3 DEF Unused
<1>12. Sole'
  <2>1. Commanded = {} /\ InHand = {} /\ Over = {}
    BY <1>7, NoneCases
  <2>2. \E i \in Nat : Commanded' = {<<"commands", i, Cursor(reading)>>}
    BY <1>1, <1>2, <1>6, <2>1, CommandPushed
  <2>3. Waits'
    BY <1>1, <2>2 DEF Waits, Cursor
  <2>4. InHand' = {} /\ Over' = {}
    BY <1>1, <2>1 DEF InHand, Over, Stale, Resting
  <2> QED
    BY <1>11, <2>3, <2>4, SoleThen DEF ThreadType
<1>13. Heeded'
  <2>1. CASE speaker
    BY <1>1, <1>4, <2>1, StillHeeded DEF ReadInv
  <2>2. CASE ~speaker
    BY <1>1, <1>2, <2>2 DEF ReadInv, Heeded, Unused, Resting
  <2> QED
    BY <2>1, <2>2
<1>14. Still' /\ Company'
  <2>1. Talking' /\ reading'.state # "awaiting"
    BY <1>1, <1>4 DEF Talking
  <2> QED
    BY <1>4, <1>12, <2>1 DEF Still, Free, Company
<1> QED
  BY <1>8, <1>11, <1>13, <1>14 DEF ReadInv, TypeInv

LEMMA CannotSayKeeps == ASSUME ReadInv, CannotSay PROVE ReadInv'
<1>1. /\ ~Free /\ Head(todo).what = "speak" /\ todo' = <<>> \o Tail(todo) /\ reading' = Idle
      /\ ~speaker /\ faults < MaxFaults /\ faults' = faults + 1
      /\ link' = link /\ asks' = asks /\ untold' = untold /\ moves' = moves
      /\ speaker' = speaker /\ generation' = generation /\ commands' = commands /\ events' = events
      /\ control' = control /\ requests' = requests /\ ready' = ready /\ synth' = synth /\ cache' = cache
      /\ stopping' = stopping /\ sounding' = sounding /\ ending' = ending
  BY DEF CannotSay, Doing, Carry, Free, Update, To, Threads
<1>2. TypeInv /\ LoopType /\ ThreadType /\ Filled /\ Stamped /\ Unused
  BY DEF ReadInv, TypeInv, ThreadType
<1>3. Head(todo) = ToSpeak
  <2>1. \A page : Act("show", page).what # "speak" /\ Act("ask", page).what # "speak"
    BY ActIs
  <2>2. /\ ToOutdate.what # "speak" /\ ToSilence.what # "speak" /\ ToEnd.what # "speak"
        /\ ToJoin.what # "speak"
    BY ActIs DEF ToOutdate, ToSilence, ToEnd, ToJoin
  <2> QED
    BY <1>1, <1>2, <2>1, <2>2, PlanOn
<1>4. todo' = <<>>
  <2>1. Tail(todo) = <<>>
    BY <1>1, <1>2, <1>3, PlanOn
  <2>2. <<>> \o <<>> = <<>>
    OBVIOUS
  <2> QED
    BY <1>1, <2>1, <2>2
<1>5. LoopType' /\ Planned'
  BY <1>1, <1>2, <1>4, IdleOK, ReadingAssumption DEF LoopType, ReadingOK, Readings, Planned, Free
<1>6. ThreadType' /\ SynthType' /\ Stamped' /\ Unused'
  BY <1>1, <1>2 DEF TypeInv, ThreadType, Filled, SynthType, Stamped, Unused
<1>7. UnderWay' = {}
  <2>1. UnderWay' = UnderWay
    BY <1>1 DEF UnderWay, Commanded, InHand, Over, Stale
  <2> QED
    BY <1>1, <1>2, <2>1, Deserted
<1>8. Heeded'
  BY <1>1, <1>2 DEF ReadInv, Heeded, Unused
<1>9. ~Talking' /\ reading'.state # "awaiting"
  BY <1>1, IdleOK DEF Talking
<1> QED
  BY <1>5, <1>6, <1>7, <1>8, <1>9, CarriedOn DEF TypeInv

(* A step of the loop that leaves the threads alone, nothing under way.      *)
LEMMA LoopCarries ==
  ASSUME ReadInv, ~Free, Head(todo).what # "outdate", UNCHANGED Threads, LoopType', Planned',
         Hushing => Hushing',
         todo' = <<>> => ~Talking' /\ (reading'.state = "awaiting" => reading'.page \in Range(asks') \/ untold')
  PROVE  ReadInv'
<1>1. /\ speaker' = speaker /\ generation' = generation /\ commands' = commands /\ events' = events
      /\ control' = control /\ requests' = requests /\ ready' = ready /\ synth' = synth /\ cache' = cache
      /\ stopping' = stopping /\ sounding' = sounding /\ ending' = ending
  BY DEF Threads
<1>2. ThreadType' /\ SynthType' /\ Stamped' /\ Unused'
  BY <1>1 DEF ReadInv, TypeInv, ThreadType, Filled, SynthType, Stamped, Unused
<1>3. UnderWay' = {}
  <2>1. UnderWay' = UnderWay
    BY <1>1 DEF UnderWay, Commanded, InHand, Over, Stale
  <2> QED
    BY <2>1 DEF ReadInv, Still
<1>4. Heeded'
  BY <1>1, StillHeeded DEF ReadInv
<1> QED
  BY <1>2, <1>3, <1>4, CarriedOn DEF TypeInv

LEMMA ShowKeeps == ASSUME ReadInv, Show PROVE ReadInv'
<1>1. /\ ~Free /\ Head(todo).what = "show"
      /\ \/ reading' = Finish.reading /\ todo' = Finish.actions \o Tail(todo)
         \/ reading' = reading /\ todo' = Tail(todo)
      /\ link' = link /\ asks' = asks /\ untold' = untold /\ UNCHANGED Threads /\ moves' = moves /\ faults' = faults
  BY DEF Show, Doing, Carry, Done, Free, Update
<1>2. TypeInv /\ LoopType
  BY DEF ReadInv, TypeInv
<1>3. PICK page \in 1..(Pages + 1) :
        /\ Head(todo) \in {Act("show", page), Act("ask", page)}
        /\ Head(todo) = Act("show", page) => Tail(todo) = <<Act("ask", page)>>
        /\ reading.state = "idle" \/ (reading.state = "awaiting" /\ reading.page = page)
  BY <1>1, <1>2, PageOn
<1>4. Head(todo) = Act("show", page) /\ Tail(todo) = <<Act("ask", page)>>
  BY <1>1, <1>3, ActIs
<1>5. ~Hushing
  <2>1. Range(todo) = Range(Tail(todo)) \union {Head(todo)}
    BY <1>1, <1>2, PlanOn
  <2>2. Range(<<Act("ask", page)>>) = {Act("ask", page)}
    <3> DEFINE a == Act("ask", page)
    <3>1. <<a>> \in Seq({a}) /\ <<a>> # <<>> /\ Head(<<a>>) = a /\ Tail(<<a>>) = <<>>
      OBVIOUS
    <3> HIDE DEF a
    <3>2. Range(<<a>>) = {a}
      BY <3>1, RangeLeft, RangeEmpty
    <3> QED
      BY <3>2 DEF a
  <2> QED
    BY <1>4, <2>1, <2>2, Apart DEF Hushing
<1>6. CASE reading' = Finish.reading /\ todo' = Finish.actions \o Tail(todo)
  <2>1. reading' = Idle /\ todo' = <<ToOutdate, ToSilence, Act("ask", page)>>
    <3>1. Finish.reading = Idle /\ Finish.actions = StopSpeaking
      BY DEF Finish, To
    <3>2. StopSpeaking \o <<Act("ask", page)>> = <<ToOutdate, ToSilence, Act("ask", page)>>
      BY Actions
    <3> QED
      BY <1>4, <1>6, <3>1, <3>2
  <2>2. todo' # <<>> /\ todo' \in AskPlans(page)
    BY <2>1, Nonempty DEF AskPlans
  <2>3. Planned'
    BY <2>1, <2>2, IdleOK DEF Planned, Fits
  <2>4. LoopType'
    BY <1>1, <1>2, <2>1, IdleOK DEF LoopType, ReadingOK, Readings
  <2> QED
    BY <1>1, <1>5, <2>2, <2>3, <2>4, LoopCarries
<1>7. CASE reading' = reading /\ todo' = Tail(todo)
  <2>1. todo' # <<>> /\ todo' \in AskPlans(page)
    BY <1>4, <1>7, Nonempty DEF AskPlans
  <2>2. Planned'
    BY <1>3, <1>7, <2>1 DEF Planned, Fits
  <2>3. LoopType'
    BY <1>1, <1>2, <1>7 DEF LoopType, ReadingOK, Readings
  <2> QED
    BY <1>1, <1>5, <2>1, <2>2, <2>3, LoopCarries
<1> QED
  BY <1>1, <1>6, <1>7

LEMMA AskKeeps == ASSUME ReadInv, Ask PROVE ReadInv'
<1>1. /\ ~Free /\ Head(todo).what = "ask"
      /\ link = "none" => /\ reading' = Stop(reading).reading /\ todo' = Stop(reading).actions \o Tail(todo)
                          /\ asks' = asks
      /\ link # "none" => reading' = reading /\ todo' = Tail(todo) /\ asks' = Append(asks, Head(todo).page)
      /\ link' = link /\ untold' = FALSE /\ UNCHANGED Threads /\ moves' = moves /\ faults' = faults
  BY DEF Ask, Doing, Carry, Done, Free, Update
<1>2. TypeInv /\ LoopType /\ ReadingOK(reading)
  BY DEF ReadInv, TypeInv, LoopType
<1>3. PICK page \in 1..(Pages + 1) :
        /\ Head(todo) \in {Act("show", page), Act("ask", page)}
        /\ Head(todo) = Act("ask", page) => Tail(todo) = <<>>
        /\ reading.state = "idle" \/ (reading.state = "awaiting" /\ reading.page = page)
  BY <1>1, <1>2, PageOn
<1>4. Head(todo) = Act("ask", page) /\ Tail(todo) = <<>> /\ Head(todo).page = page
  BY <1>1, <1>3, ActIs
<1>5. ~Hushing
  <2>1. Range(todo) = Range(Tail(todo)) \union {Head(todo)}
    BY <1>1, <1>2, PlanOn
  <2> QED
    BY <1>4, <2>1, RangeEmpty, Apart DEF Hushing
<1>6. CASE link = "none"
  <2> DEFINE to == Stop(reading)
  <2>1. Leads(reading, to) /\ to.reading = Idle
    BY <1>2, StopLeads, StopIs
  <2>2. reading' = Idle /\ todo' = to.actions
    BY <1>1, <1>4, <1>6, <2>1, LeadsWritten
  <2>3. LoopType'
    BY <1>1, <1>2, <1>6, <2>2, IdleOK DEF LoopType, ReadingOK, Readings
  <2>4. Planned'
    BY <2>1, <2>2 DEF Leads, Planned, Free, Fits
  <2>5. ~Talking' /\ reading'.state # "awaiting"
    BY <2>2, IdleOK DEF Talking
  <2> QED
    BY <1>1, <1>5, <2>3, <2>4, <2>5, LoopCarries
<1>7. CASE link # "none"
  <2>1. asks' \in Seq(1..(Pages + 1)) /\ page \in Range(asks')
    <3>1. /\ Append(asks, page) \in Seq(1..(Pages + 1))
          /\ Len(asks) + 1 \in DOMAIN Append(asks, page) /\ Append(asks, page)[Len(asks) + 1] = page
      BY <1>2, Pushed DEF LoopType
    <3> QED
      BY <1>1, <1>4, <1>7, <3>1 DEF Range
  <2>2. LoopType'
    BY <1>1, <1>2, <1>7, <2>1 DEF LoopType, ReadingOK, Readings
  <2>3. Planned' /\ todo' = <<>>
    BY <1>1, <1>4, <1>7 DEF Planned, Free
  <2>4. ~Talking' /\ (reading'.state = "awaiting" => reading'.page \in Range(asks'))
    BY <1>1, <1>3, <1>7, <2>1 DEF Talking
  <2> QED
    BY <1>1, <1>5, <2>2, <2>3, <2>4, LoopCarries
<1> QED
  BY <1>6, <1>7

LEMMA EndKeeps == ASSUME ReadInv, End PROVE ReadInv'
<1> DEFINE c == [Utterance EXCEPT !.what = "shutdown"]
<1>1. /\ ~Free /\ Head(todo).what = "end" /\ todo' = Tail(todo) /\ reading' = reading
      /\ ending' = TRUE /\ commands' = Append(commands, c)
      /\ link' = link /\ asks' = asks /\ untold' = untold /\ speaker' = speaker
      /\ generation' = generation /\ events' = events /\ control' = control
      /\ requests' = requests /\ ready' = ready /\ synth' = synth /\ cache' = cache
      /\ stopping' = stopping /\ sounding' = sounding /\ moves' = moves /\ faults' = faults
  BY DEF End, Doing, Carry, Done, Free, synthesis, player
<1>2. TypeInv /\ LoopType /\ ThreadType /\ Filled /\ Stamped /\ Unused /\ generation \in Nat
  BY DEF ReadInv, TypeInv, ThreadType
<1>3. Head(todo) = ToEnd
  <2>1. \A page : Act("show", page).what # "end" /\ Act("ask", page).what # "end"
    BY ActIs
  <2>2. /\ ToOutdate.what # "end" /\ ToSilence.what # "end" /\ ToSpeak.what # "end" /\ ToJoin.what # "end"
    BY ActIs DEF ToOutdate, ToSilence, ToSpeak, ToJoin
  <2> QED
    BY <1>1, <1>2, <2>1, <2>2, PlanOn
<1>4. reading.state = "idle" /\ speaker /\ todo' \in DropPlans
  BY <1>1, <1>2, <1>3, PlanOn
<1>5. reading = Idle /\ ReadingOK(reading)
  BY <1>2, <1>4 DEF LoopType, ReadingOK
<1>6. c \in Commands /\ c.what = "shutdown" /\ c.generation = generation
  BY <1>2, <1>5 DEF Utterance, Commands, Cursor, Following, Units, Idle, NoSentence
<1> HIDE DEF c
<1>7. UnderWay = {}
  BY <1>1 DEF ReadInv, Still
<1>8. LoopType' /\ Planned'
  BY <1>1, <1>2, <1>4 DEF LoopType, ReadingOK, Readings, Planned
<1>9. /\ commands' \in Seq(Commands) /\ \A i \in DOMAIN commands' : commands'[i].generation <= generation
  <2>1. /\ Append(commands, c) \in Seq(Commands)
        /\ DOMAIN Append(commands, c) = DOMAIN commands \union {Len(commands) + 1}
        /\ Append(commands, c)[Len(commands) + 1] = c
        /\ \A i \in DOMAIN commands : Append(commands, c)[i] = commands[i]
    BY <1>2, <1>6, Pushed DEF Filled
  <2> QED
    BY <1>1, <1>2, <1>6, <2>1 DEF Stamped
<1>10. ThreadType' /\ SynthType' /\ Stamped' /\ Unused'
  BY <1>1, <1>2, <1>4, <1>9 DEF TypeInv, ThreadType, Filled, SynthType, Stamped, Unused
<1>11. UnderWay' = {}
  <2>1. Commanded = {} /\ InHand = {} /\ Over = {}
    BY <1>7, NoneCases
  <2>2. Commanded' = {}
    BY <1>1, <1>2, <1>6, <2>1, CommandPushed
  <2>3. InHand' = {} /\ Over' = {}
    BY <1>1, <2>1 DEF InHand, Over, Stale
  <2> QED
    BY <2>2, <2>3 DEF UnderWay
<1>12. Hushing => Hushing'
  <2>1. Range(todo) = Range(Tail(todo)) \union {Head(todo)}
    BY <1>1, <1>2, PlanOn
  <2> QED
    BY <1>1, <1>3, <2>1, Apart DEF Hushing
<1>13. Heeded'
  BY <1>1, <1>12, StillHeeded DEF ReadInv
<1>14. todo' # <<>>
  BY <1>4, DropOn
<1> QED
  BY <1>8, <1>10, <1>11, <1>13, <1>14, CarriedOn DEF TypeInv

LEMMA JoinKeeps == ASSUME ReadInv, Join PROVE ReadInv'
<1>1. /\ ~Free /\ Head(todo).what = "join" /\ todo' = Tail(todo) /\ reading' = reading
      /\ control.at = "ended" /\ synth.at = "ended"
      /\ speaker' = FALSE /\ generation' = 0 /\ commands' = <<>> /\ events' = <<>>
      /\ requests' = <<>> /\ ready' = <<>> /\ cache' = Empty
      /\ stopping' = FALSE /\ ending' = FALSE
      /\ link' = link /\ asks' = asks /\ untold' = untold
      /\ control' = control /\ synth' = synth /\ sounding' = sounding /\ moves' = moves /\ faults' = faults
  BY DEF Join, Doing, Carry, Done, Free
<1>2. TypeInv /\ LoopType /\ ThreadType /\ Filled /\ Stamped /\ SynthType
  BY DEF ReadInv, TypeInv, ThreadType
<1>3. Head(todo) = ToJoin
  <2>1. \A page : Act("show", page).what # "join" /\ Act("ask", page).what # "join"
    BY ActIs
  <2>2. /\ ToOutdate.what # "join" /\ ToSilence.what # "join" /\ ToSpeak.what # "join" /\ ToEnd.what # "join"
    BY ActIs DEF ToOutdate, ToSilence, ToSpeak, ToEnd
  <2> QED
    BY <1>1, <1>2, <2>1, <2>2, PlanOn
<1>4. reading.state = "idle" /\ todo' = <<>>
  BY <1>1, <1>2, <1>3, PlanOn
<1>5. LoopType' /\ Planned'
  BY <1>1, <1>2, <1>4 DEF LoopType, ReadingOK, Readings, Planned, Free
<1>6. commands' \in Seq(Commands) /\ events' \in Seq(Events) /\ DOMAIN commands' = {} /\ DOMAIN events' = {}
  BY <1>1
<1>7. ThreadType' /\ Stamped' /\ Unused'
  <2>1. control.generation = 0 /\ 0 <= 0
    BY <1>1, <1>2 DEF Stamped
  <2>2. ThreadType'
    BY <1>1, <1>2, <1>6 DEF ThreadType, Filled
  <2>3. Stamped'
    BY <1>1, <1>6, <2>1 DEF Stamped
  <2>4. Unused'
    BY <1>1 DEF Unused
  <2> QED
    BY <2>2, <2>3, <2>4
<1>8. SynthType'
  <2>1. {k \in Sentences : Empty[k] # "none"} = {} /\ Empty \in [Sentences -> {"none", "pcm", "error"}]
    BY DEF Empty
  <2>2. Cardinality({}) = 0 /\ 0 <= MaxCached
    BY FS_EmptySet, ReadingAssumption
  <2> QED
    <3>1. requests' \in Seq(Sentences) /\ ready' \in Seq(Sentences)
      BY <1>1
    <3>2. Cardinality({k \in Sentences : cache'[k] # "none"}) <= MaxCached
      BY <1>1, <2>1, <2>2
    <3> QED
      BY <1>1, <1>2, <2>1, <3>1, <3>2 DEF SynthType
<1>9. UnderWay' = {}
  <2>1. Commanded' = {} /\ Over' = {} /\ InHand' = {}
    BY <1>1, <1>6 DEF Commanded, Over, InHand
  <2> QED
    BY <2>1 DEF UnderWay
<1>10. Heeded'
  BY <1>1 DEF ReadInv, Heeded
<1>11. ~Talking' /\ reading'.state # "awaiting"
  BY <1>1, <1>4 DEF Talking
<1> QED
  BY <1>5, <1>7, <1>8, <1>9, <1>10, <1>11, CarriedOn DEF TypeInv
-----------------------------------------------------------------------------
(* The results kept. *)

LEMMA SentencesFinite == IsFiniteSet(Sentences)
<1> DEFINE OfPage == [p \in 0..Pages |-> {p} \X (1..SentenceCount[p])]
           All == {{p} \X (1..SentenceCount[p]) : p \in 0..Pages}
<1>1. IsFiniteSet(0..Pages)
  BY FS_Interval, ReadingAssumption
<1>2. OfPage \in Surjection(0..Pages, All)
  BY DEF Surjection
<1>3. IsFiniteSet(All)
  BY <1>1, <1>2, FS_Surjection
<1>4. ASSUME NEW p \in 0..Pages PROVE IsFiniteSet({p} \X (1..SentenceCount[p]))
  <2>1. SentenceCount[p] \in Int /\ 1 \in Int
    BY ReadingAssumption
  <2>2. IsFiniteSet({p}) /\ IsFiniteSet(1..SentenceCount[p])
    BY <2>1, FS_Singleton, FS_Interval
  <2> QED
    BY <2>2, FS_Product
<1>5. \A T \in All : IsFiniteSet(T)
  BY <1>4
<1>6. Sentences = UNION All
  BY DEF Sentences
<1> HIDE DEF All
<1> QED
  BY <1>3, <1>5, <1>6, FS_UNION

Results == [Sentences -> {"none", "pcm", "error"}]
Kept(c) == {k \in Sentences : c[k] # "none"}

LEMMA KeptFinite == ASSUME NEW c PROVE IsFiniteSet(Kept(c)) /\ Cardinality(Kept(c)) \in Nat
<1>1. Kept(c) \in SUBSET Sentences
  BY DEF Kept
<1> QED
  BY <1>1, SentencesFinite, FS_Subset, FS_CardinalityType

(* A result taken leaves no more of them. *)
LEMMA Taken ==
  ASSUME NEW c \in Results, Cardinality(Kept(c)) <= MaxCached, NEW key \in Sentences
  PROVE  [c EXCEPT ![key] = "none"] \in Results /\ Cardinality(Kept([c EXCEPT ![key] = "none"])) <= MaxCached
<1> DEFINE d == [c EXCEPT ![key] = "none"]
<1>1. d \in Results /\ Kept(d) \in SUBSET Kept(c)
  BY DEF Results, Kept
<1> HIDE DEF d
<1>2. Cardinality(Kept(d)) <= Cardinality(Kept(c)) /\ Cardinality(Kept(d)) \in Nat /\ Cardinality(Kept(c)) \in Nat
  BY <1>1, KeptFinite, FS_Subset
<1>3. Cardinality(Kept(d)) <= MaxCached
  BY <1>2, ReadingAssumption
<1> QED
  BY <1>1, <1>3 DEF d

(* One more at the limit drops all the others. *)
LEMMA CachedBounded ==
  ASSUME NEW c \in Results, NEW key \in Sentences, NEW result \in {"pcm", "error"}
  PROVE  Cached(c, key, result) \in Results /\ Cardinality(Kept(Cached(c, key, result))) <= MaxCached
<1> DEFINE kept == [c EXCEPT ![key] = result]
           alone == [Empty EXCEPT ![key] = result]
<1>1. kept \in Results /\ alone \in Results
  BY DEF Results, Empty
<1>2. Kept(alone) \in SUBSET {key}
  BY DEF Kept, Empty
<1>3. Cardinality(Kept(alone)) <= MaxCached
  <2>1. IsFiniteSet({key}) /\ Cardinality({key}) = 1
    BY FS_Singleton
  <2>2. Cardinality(Kept(alone)) <= 1 /\ Cardinality(Kept(alone)) \in Nat
    BY <1>2, <2>1, FS_Subset, FS_CardinalityType
  <2> QED
    BY <2>2, ReadingAssumption
<1>4. Cached(c, key, result) = IF Cardinality(Kept(kept)) > MaxCached THEN alone ELSE kept
  BY DEF Cached, Kept
<1> HIDE DEF kept, alone
<1>5. Cardinality(Kept(kept)) \in Nat
  BY KeptFinite
<1>6. Cardinality(Kept(kept)) > MaxCached \/ Cardinality(Kept(kept)) <= MaxCached
  BY <1>5, ReadingAssumption
<1> QED
  BY <1>1, <1>3, <1>4, <1>5, <1>6, ReadingAssumption

LEMMA SynthIs ==
  SynthType <=>
    /\ requests \in Seq(Sentences) /\ ready \in Seq(Sentences)
    /\ synth \in [at : {"idle", "busy", "hung", "ended"}, key : Optional]
    /\ synth.at \in {"busy", "hung"} => synth.key \in Sentences
    /\ cache \in Results /\ Cardinality(Kept(cache)) <= MaxCached
  BY DEF SynthType, Results, Kept

-----------------------------------------------------------------------------
(* The control thread hands the utterance on, or is done with it. *)

LEMMA HandKept ==
  ASSUME commands' = commands, events' = events, generation' = generation, reading' = reading,
         InHand' = InHand
  PROVE  (UnderWay = {} => UnderWay' = {}) /\ (Sole => Sole')
<1>1. UnderWay' = UnderWay
  BY DEF UnderWay, Commanded, Over, Stale
<1> QED
  BY <1>1 DEF Sole, Cursor

LEMMA HandStill ==
  ASSUME control.at \notin {"idle", "ended"}, control'.at \notin {"idle", "ended"},
         control'.generation = control.generation, control'.key = control.key, generation' = generation
  PROVE  InHand' = InHand
  BY DEF InHand, Stale

LEMMA ReportIs ==
  ASSUME Filled, Stamped, generation \in Nat, generation' = generation,
         control.at \notin {"idle", "ended"},
         NEW what \in {"started", "finished", "failed"}, Report(what)
  PROVE  LET e == [generation |-> control.generation, what |-> what, key |-> control.key] IN
         /\ e \in Events /\ events' = Append(events, e) /\ events' \in Seq(Events)
         /\ \A i \in DOMAIN events' : events'[i].generation <= generation'
<1> DEFINE e == [generation |-> control.generation, what |-> what, key |-> control.key]
<1>1. control.generation \in Nat /\ control.key \in Sentences
  BY DEF Filled, Controls
<1>2. e \in Events /\ events' = Append(events, e) /\ e.generation = control.generation
  BY <1>1 DEF Events, Report
<1> HIDE DEF e
<1>3. /\ Append(events, e) \in Seq(Events)
      /\ DOMAIN Append(events, e) = DOMAIN events \union {Len(events) + 1}
      /\ Append(events, e)[Len(events) + 1] = e
      /\ \A i \in DOMAIN events : Append(events, e)[i] = events[i]
  BY <1>2, Pushed DEF Filled
<1>4. \A i \in DOMAIN events' : events'[i].generation <= generation
  BY <1>2, <1>3 DEF Stamped
<1> QED
  BY <1>2, <1>3, <1>4 DEF e

LEMMA HandReported ==
  ASSUME Filled, Filled', Stamped, generation \in Nat, commands' = commands,
         generation' = generation,
         reading' = reading, control.at \notin {"idle", "ended"}, InHand' = {},
         NEW what \in {"finished", "failed"}, Report(what)
  PROVE  (UnderWay = {} => UnderWay' = {}) /\ (Sole => Sole')
<1> DEFINE e == [generation |-> control.generation, what |-> what, key |-> control.key]
<1>1. e \in Events /\ events' = Append(events, e) /\ e.key = control.key /\ (Final(e) <=> ~Stale(control.generation))
  BY ReportIs DEF Final
<1> HIDE DEF e
<1>2. Commanded' = Commanded
  BY DEF Commanded, Stale
<1>3. CASE Stale(control.generation)
  <2>1. InHand = {} /\ Over' = Over
    BY <1>1, <1>3, EventPushed DEF InHand
  <2>2. UnderWay' = UnderWay
    BY <1>2, <2>1 DEF UnderWay
  <2> QED
    BY <2>2 DEF Sole, Cursor
<1>4. CASE ~Stale(control.generation)
  <2>1. InHand = {<<"control", 0, control.key>>}
    BY <1>4 DEF InHand
  <2>2. UnderWay # {}
    BY <2>1 DEF UnderWay
  <2>3. ASSUME Sole PROVE Sole'
    <3>1. Commanded = {} /\ Sounds /\ Over = {}
      BY <2>1, <2>3, SoleCases
    <3>2. control.key = Cursor(reading)
      <4>1. <<"control", 0, control.key>> = <<"control", 0, Cursor(reading)>>
        BY <2>1, <3>1 DEF Sounds
      <4> QED
        BY <4>1
    <3>3. \E i \in Nat : Over' = {<<"events", i, Cursor(reading)>>}
      BY <1>1, <1>4, <3>1, <3>2, EventPushed
    <3>4. Told'
      BY <3>3 DEF Told, Cursor
    <3> QED
      BY <1>2, <3>1, <3>4, SoleThen
  <2> QED
    BY <2>2, <2>3
<1> QED
  BY <1>3, <1>4

(* A step of the speaker's threads: the loop is where it was. *)
LEMMA ThreadsKeep ==
  ASSUME ReadInv, UNCHANGED loop, speaker' = speaker, moves' = moves, faults' \in 0..MaxFaults,
         ThreadType', SynthType', Stamped', Unused', Heeded',
         UnderWay = {} => UnderWay' = {}, Sole => Sole'
  PROVE  ReadInv'
<1>1. reading' = reading /\ todo' = todo /\ link' = link /\ asks' = asks /\ untold' = untold
  BY DEF loop
<1>2. LoopType' /\ Planned'
  BY <1>1 DEF ReadInv, TypeInv, LoopType, ReadingOK, Readings, Planned, Free, Fits
<1>3. Still'
  BY <1>1 DEF ReadInv, Still, Free
<1>4. (Free => Company)'
  BY <1>1 DEF ReadInv, Free, Company, Talking
<1> QED
  BY <1>2, <1>3, <1>4 DEF ReadInv, TypeInv

LEMMA ControlKeeps ==
  ASSUME ReadInv, ControlAlone, faults' \in 0..MaxFaults, control.at # "ended",
         Filled', stopping' \in BOOLEAN, sounding' \in BOOLEAN, SynthType', Stamped', Heeded',
         UnderWay = {} => UnderWay' = {}, Sole => Sole'
  PROVE  ReadInv'
<1>1. UNCHANGED loop /\ speaker' = speaker /\ generation' = generation /\ ending' = ending /\ moves' = moves
  BY DEF ControlAlone
<1>2. ThreadType'
  BY <1>1 DEF ReadInv, TypeInv, ThreadType
<1>3. Unused'
  BY <1>1 DEF ReadInv, TypeInv, Unused
<1> QED
  BY <1>1, <1>2, <1>3, ThreadsKeep

LEMMA LoopStill ==
  ASSUME ReadInv, ControlAlone
  PROVE  /\ reading' = reading /\ todo' = todo /\ generation' = generation /\ (Hushing' <=> Hushing)
         /\ TypeInv /\ LoopType /\ ThreadType /\ SynthType /\ Filled /\ Stamped /\ Heeded
         /\ generation \in Nat /\ stopping \in BOOLEAN /\ sounding \in BOOLEAN /\ faults \in 0..MaxFaults
  BY DEF ReadInv, TypeInv, ThreadType, LoopType, ControlAlone, loop, Hushing

LEMMA RestingIs == Resting \in Controls /\ Resting.at = "idle" /\ Resting.generation = 0
  BY DEF Resting, Controls, Optional
LEMMA TakeCommandKeeps == ASSUME ReadInv, TakeCommand PROVE ReadInv'
<1> DEFINE c == Head(commands)
           utterance == [Resting EXCEPT !.generation = c.generation, !.key = c.key, !.next = c.next]
<1>1. /\ control.at = "idle" /\ commands # <<>> /\ commands' = Tail(commands)
      /\ events' = events /\ ready' = ready /\ synth' = synth /\ faults' = faults /\ ControlAlone
  BY DEF TakeCommand
<1>2. \/ /\ c.what = "shutdown" /\ control' = [Resting EXCEPT !.at = "ended"] /\ Silenced
         /\ requests' = requests /\ cache' = cache
      \/ /\ c.what = "speak" /\ Stale(c.generation)
         /\ control' = control /\ requests' = requests /\ cache' = cache /\ UNCHANGED player
      \/ /\ c.what = "speak" /\ ~Stale(c.generation) /\ cache[c.key] # "none"
         /\ control' = [utterance EXCEPT !.at = "hand", !.audio = cache[c.key]]
         /\ cache' = [cache EXCEPT ![c.key] = "none"] /\ requests' = requests /\ UNCHANGED player
      \/ /\ c.what = "speak" /\ ~Stale(c.generation) /\ cache[c.key] = "none"
         /\ control' = [utterance EXCEPT !.at = "await"]
         /\ requests' = Append(requests, c.key) /\ cache' = cache /\ UNCHANGED player
  BY DEF TakeCommand
<1>3. /\ reading' = reading /\ todo' = todo /\ generation' = generation
      /\ LoopType /\ ThreadType /\ SynthType /\ Filled /\ Stamped /\ Heeded
      /\ generation \in Nat /\ stopping \in BOOLEAN /\ sounding \in BOOLEAN /\ faults \in 0..MaxFaults
  BY <1>1, LoopStill
<1>4. c \in Commands /\ commands' \in Seq(Commands) /\ c.generation <= generation
      /\ \A i \in DOMAIN commands' : commands'[i].generation <= generation
  <2>1. /\ c = commands[1] /\ c \in Commands /\ Tail(commands) \in Seq(Commands) /\ 1 \in DOMAIN commands
        /\ \A i \in DOMAIN Tail(commands) : i + 1 \in DOMAIN commands /\ Tail(commands)[i] = commands[i + 1]
    BY <1>1, <1>3, Popped DEF Filled
  <2> QED
    BY <1>1, <1>3, <2>1 DEF Stamped
<1>5. /\ Commanded = {} => Commanded' = {} /\ ~Live(c)
      /\ ~Live(c) /\ Waits => Waits'
      /\ Live(c) /\ Waits => Commanded' = {} /\ c.key = Cursor(reading)
  BY <1>1, <1>3, CommandPopped
<1>6. InHand = {} /\ Over' = Over /\ ~sounding
  BY <1>1, <1>3 DEF InHand, Over, Stale, Heeded
(* A command that is let go leaves the others as they were.                  *)
<1>7. ASSUME ~Live(c), InHand' = {}, Filled' PROVE (UnderWay = {} => UnderWay' = {}) /\ (Sole => Sole')
  <2>1. UnderWay = {} => UnderWay' = {}
    BY <1>5, <1>6, <1>7 DEF UnderWay
  <2>2. Told => Told'
    BY <1>3, <1>6 DEF Told, Cursor
  <2>3. ASSUME Sole PROVE Sole'
    <3>1. ~Sounds
      BY <1>6 DEF Sounds
    <3>2. (Waits /\ Over = {}) \/ (Commanded = {} /\ Told)
      BY <1>3, <2>3, <3>1, SoleCases
    <3> QED
      BY <1>5, <1>6, <1>7, <2>2, <3>2, SoleThen
  <2> QED
    BY <2>1, <2>3
(* One that is taken was commanded, and is in hand.                          *)
<1>8. ASSUME Live(c), InHand' = {<<"control", 0, c.key>>}, Filled'
      PROVE  (UnderWay = {} => UnderWay' = {}) /\ (Sole => Sole')
  <2>1. UnderWay # {}
    BY <1>5, <1>8 DEF UnderWay
  <2>2. ASSUME Sole PROVE Sole'
    <3>1. Waits /\ Over = {}
      BY <1>3, <1>5, <1>6, <1>8, <2>2, SoleCases DEF Sounds
    <3>2. Commanded' = {} /\ Over' = {} /\ c.key = Cursor(reading)
      BY <1>5, <1>6, <1>8, <3>1
    <3>3. Sounds'
      BY <1>3, <1>8, <3>2 DEF Sounds, Cursor
    <3> QED
      BY <1>8, <3>2, <3>3, SoleThen
  <2> QED
    BY <2>1, <2>2
<1>9. CASE c.what = "shutdown" /\ control' = [Resting EXCEPT !.at = "ended"] /\ Silenced
           /\ requests' = requests /\ cache' = cache
  <2>1. control' \in Controls /\ control'.at = "ended" /\ control'.generation = 0 /\ stopping' = TRUE /\ sounding' = FALSE
    BY <1>9 DEF Controls, Resting, Optional, Silenced
  <2>2. Filled' /\ InHand' = {}
    BY <1>1, <1>3, <1>4, <2>1 DEF Filled, InHand
  <2>3. Stamped'
    <3>1. 0 <= generation
      BY <1>3
    <3> QED
      BY <1>1, <1>3, <1>4, <2>1, <3>1 DEF Stamped
  <2>4. Heeded'
    BY <2>1 DEF Heeded
  <2>5. SynthType'
    BY <1>1, <1>3, <1>9 DEF SynthType
  <2>6. ~Live(c)
    BY <1>9 DEF Live
  <2> QED
    BY <1>1, <1>3, <1>7, <2>1, <2>2, <2>3, <2>4, <2>5, <2>6, ControlKeeps
<1>10. CASE c.what = "speak" /\ Stale(c.generation)
            /\ control' = control /\ requests' = requests /\ cache' = cache /\ UNCHANGED player
  <2>1. Filled' /\ InHand' = {}
    BY <1>1, <1>3, <1>4, <1>10 DEF Filled, InHand
  <2>2. Stamped'
    BY <1>1, <1>3, <1>4, <1>10 DEF Stamped
  <2>3. stopping' = stopping /\ sounding' = sounding
    BY <1>10 DEF player
  <2>4. Heeded'
    BY <1>1, <1>6, <1>10, <2>3 DEF Heeded
  <2>5. SynthType'
    BY <1>1, <1>3, <1>10 DEF SynthType
  <2>6. ~Live(c)
    BY <1>10 DEF Live
  <2> QED
    BY <1>1, <1>3, <1>7, <2>1, <2>2, <2>3, <2>4, <2>5, <2>6, ControlKeeps
<1>11. ASSUME c.what = "speak", ~Stale(c.generation), UNCHANGED player, SynthType',
              NEW at \in {"hand", "await"}, NEW audio \in {"none", "pcm", "error"},
              control' = [utterance EXCEPT !.at = at, !.audio = audio]
       PROVE  ReadInv'
  <2>1. c.key \in Sentences /\ c.next \in Optional /\ c.generation \in Nat
    BY <1>4, <1>11 DEF Commands
  <2>2. control' \in Controls /\ control'.at = at /\ control'.key = c.key /\ control'.generation = c.generation
    BY <1>11, <2>1 DEF Controls, Resting, Optional
  <2>3. Filled' /\ InHand' = {<<"control", 0, c.key>>}
    BY <1>1, <1>3, <1>4, <1>11, <2>1, <2>2 DEF Filled, InHand, Stale
  <2>4. Stamped'
    BY <1>1, <1>3, <1>4, <1>11, <2>2 DEF Stamped
  <2>5. stopping' = stopping /\ sounding' = sounding
    BY <1>11 DEF player
  <2>6. Heeded'
    BY <1>6, <1>11, <2>2, <2>5 DEF Heeded
  <2>7. Live(c)
    BY <1>11 DEF Live
  <2> QED
    BY <1>1, <1>3, <1>8, <1>11, <2>3, <2>4, <2>5, <2>6, <2>7, ControlKeeps
<1>12. CASE c.what = "speak" /\ ~Stale(c.generation) /\ cache[c.key] # "none"
            /\ control' = [utterance EXCEPT !.at = "hand", !.audio = cache[c.key]]
            /\ cache' = [cache EXCEPT ![c.key] = "none"] /\ requests' = requests /\ UNCHANGED player
  <2>1. c.key \in Sentences
    BY <1>4, <1>12 DEF Commands
  <2>2. cache[c.key] \in {"none", "pcm", "error"}
    BY <1>3, <2>1 DEF SynthType
  <2>3. cache' \in Results /\ Cardinality(Kept(cache')) <= MaxCached
    BY <1>3, <1>12, <2>1, Taken, SynthIs
  <2>4. SynthType'
    BY <1>1, <1>3, <1>12, <2>3 DEF SynthType, Results, Kept
  <2> QED
    BY <1>11, <1>12, <2>2, <2>4
<1>13. CASE c.what = "speak" /\ ~Stale(c.generation) /\ cache[c.key] = "none"
            /\ control' = [utterance EXCEPT !.at = "await"]
            /\ requests' = Append(requests, c.key) /\ cache' = cache /\ UNCHANGED player
  <2>1. c.key \in Sentences
    BY <1>4, <1>13 DEF Commands
  <2>2. requests' \in Seq(Sentences)
    BY <1>3, <1>13, <2>1 DEF SynthType
  <2>3. SynthType'
    BY <1>1, <1>3, <1>13, <2>2 DEF SynthType
  <2>4. control' = [utterance EXCEPT !.at = "await", !.audio = "none"]
    <3>1. utterance.audio = "none"
          /\ DOMAIN utterance = {"at", "generation", "key", "next", "audio", "raced"}
      BY DEF Resting
    <3> HIDE DEF utterance
    <3>2. [utterance EXCEPT !.at = "await"] = [utterance EXCEPT !.at = "await", !.audio = "none"]
      BY <3>1
    <3> QED
      BY <1>13, <3>2
  <2> QED
    BY <1>11, <1>13, <2>3, <2>4
<1> QED
  BY <1>2, <1>9, <1>10, <1>12, <1>13

LEMMA HearReadyKeeps == ASSUME ReadInv, HearReady PROVE ReadInv'
<1>1. /\ control.at = "await" /\ ready # <<>> /\ ready' = Tail(ready)
      /\ \/ /\ control' = [control EXCEPT !.at = "hand",
                             !.audio = IF cache[control.key] = "none" THEN "lost" ELSE cache[control.key]]
            /\ cache' = [cache EXCEPT ![control.key] = "none"]
         \/ control' = control /\ cache' = cache
      /\ commands' = commands /\ events' = events /\ requests' = requests /\ synth' = synth
      /\ stopping' = stopping /\ sounding' = sounding /\ faults' = faults /\ ControlAlone
  BY DEF HearReady, player
<1>2. /\ reading' = reading /\ todo' = todo /\ generation' = generation
      /\ LoopType /\ ThreadType /\ SynthType /\ Filled /\ Stamped /\ Heeded
      /\ generation \in Nat /\ stopping \in BOOLEAN /\ sounding \in BOOLEAN /\ faults \in 0..MaxFaults
  BY <1>1, LoopStill
<1>3. control.key \in Sentences /\ control \in Controls
  BY <1>1, <1>2 DEF Filled
<1>4. cache[control.key] \in {"none", "pcm", "error"}
  BY <1>2, <1>3 DEF SynthType
<1>5. /\ control' \in Controls /\ control'.at \in {"await", "hand"} /\ control'.key = control.key
      /\ control'.generation = control.generation
  BY <1>1, <1>3, <1>4 DEF Controls
<1>6. cache' \in Results /\ Cardinality(Kept(cache')) <= MaxCached
  <2>1. cache \in Results /\ Cardinality(Kept(cache)) <= MaxCached
    BY <1>2, SynthIs
  <2> DEFINE taken == [cache EXCEPT ![control.key] = "none"]
  <2>2. taken \in Results /\ Cardinality(Kept(taken)) <= MaxCached
    BY <1>3, <2>1, Taken
  <2>3. cache' = taken \/ cache' = cache
    BY <1>1
  <2> HIDE DEF taken
  <2> QED
    BY <2>1, <2>2, <2>3
<1>7. ready' \in Seq(Sentences)
  BY <1>1, <1>2, Popped DEF SynthType
<1>8. SynthType'
  BY <1>1, <1>2, <1>6, <1>7 DEF SynthType, Results, Kept
<1>9. Filled' /\ Stamped' /\ InHand' = InHand
  <2>1. Filled' /\ Stamped'
    BY <1>1, <1>2, <1>3, <1>5 DEF Filled, Stamped
  <2> QED
    BY <1>1, <1>2, <1>5, <2>1, HandStill
<1>10. Heeded'
  BY <1>1, <1>2, <1>5 DEF Heeded
<1>11. (UnderWay = {} => UnderWay' = {}) /\ (Sole => Sole')
  BY <1>1, <1>2, <1>9, HandKept
<1> QED
  BY <1>1, <1>2, <1>8, <1>9, <1>10, <1>11, ControlKeeps

LEMMA CheckCurrentKeeps == ASSUME ReadInv, CheckCurrent PROVE ReadInv'
<1>1. /\ control.at = "hand"
      /\ requests' = requests \/ (control.next # NoSentence /\ requests' = Append(requests, control.next))
      /\ \/ Stale(control.generation) /\ control' = Resting /\ events' = events
         \/ ~Stale(control.generation) /\ control' = Resting /\ Report("failed")
         \/ ~Stale(control.generation) /\ control' = [control EXCEPT !.at = "announced"] /\ Report("started")
      /\ commands' = commands /\ ready' = ready /\ synth' = synth /\ cache' = cache
      /\ stopping' = stopping /\ sounding' = sounding /\ faults' = faults /\ ControlAlone
  BY DEF CheckCurrent, Prefetch, player
<1>2. /\ reading' = reading /\ todo' = todo /\ generation' = generation
      /\ LoopType /\ ThreadType /\ SynthType /\ Filled /\ Stamped /\ Heeded
      /\ generation \in Nat /\ stopping \in BOOLEAN /\ sounding \in BOOLEAN /\ faults \in 0..MaxFaults
  BY <1>1, LoopStill
<1>3. control.key \in Sentences /\ control \in Controls /\ control.next \in Optional
  BY <1>1, <1>2 DEF Filled, Controls
<1>4. requests' \in Seq(Sentences)
  BY <1>1, <1>2, <1>3 DEF SynthType, Optional
<1>5. SynthType'
  BY <1>1, <1>2, <1>4 DEF SynthType
<1>6. 0 <= generation /\ ~sounding
  BY <1>1, <1>2 DEF Heeded
<1>7. CASE Stale(control.generation) /\ control' = Resting /\ events' = events
  <2>1. Filled' /\ Stamped' /\ Heeded'
    BY <1>1, <1>2, <1>6, <1>7, RestingIs DEF Filled, Stamped, Heeded
  <2>2. InHand = {} /\ InHand' = {}
    BY <1>7, RestingIs DEF InHand
  <2>3. (UnderWay = {} => UnderWay' = {}) /\ (Sole => Sole')
    BY <1>1, <1>2, <1>7, <2>2, HandKept
  <2> QED
    BY <1>1, <1>2, <1>5, <2>1, <2>3, ControlKeeps
<1>8. CASE ~Stale(control.generation) /\ control' = Resting /\ Report("failed")
  <2>1. events' \in Seq(Events) /\ \A i \in DOMAIN events' : events'[i].generation <= generation'
    BY <1>1, <1>2, <1>8, ReportIs
  <2>2. Filled' /\ Stamped' /\ Heeded' /\ InHand' = {}
    BY <1>1, <1>2, <1>6, <1>8, <2>1, RestingIs DEF Filled, Stamped, Heeded, InHand
  <2>3. (UnderWay = {} => UnderWay' = {}) /\ (Sole => Sole')
    BY <1>1, <1>2, <1>8, <2>2, HandReported
  <2> QED
    BY <1>1, <1>2, <1>5, <2>2, <2>3, ControlKeeps
<1>9. CASE ~Stale(control.generation) /\ control' = [control EXCEPT !.at = "announced"] /\ Report("started")
  <2>1. events' \in Seq(Events) /\ \A i \in DOMAIN events' : events'[i].generation <= generation'
    BY <1>1, <1>2, <1>9, ReportIs
  <2>2. /\ control' \in Controls /\ control'.at = "announced" /\ control'.key = control.key
        /\ control'.generation = control.generation
    BY <1>3, <1>9 DEF Controls
  <2>3. Filled' /\ Stamped' /\ Heeded'
    BY <1>1, <1>2, <1>3, <1>6, <2>1, <2>2 DEF Filled, Stamped, Heeded
  <2>4. InHand' = InHand
    BY <1>1, <1>2, <2>2, HandStill
  <2>5. Over' = Over
    <3> DEFINE e == [generation |-> control.generation, what |-> "started", key |-> control.key]
    <3>1. e \in Events /\ events' = Append(events, e) /\ ~Final(e)
      BY <1>1, <1>2, <1>9, ReportIs DEF Final
    <3> HIDE DEF e
    <3> QED
      BY <1>2, <3>1, EventPushed
  <2>6. UnderWay' = UnderWay
    BY <1>1, <1>2, <2>4, <2>5 DEF UnderWay, Commanded, Stale
  <2>7. Sole => Sole'
    BY <1>2, <2>6 DEF Sole, Cursor
  <2> QED
    BY <1>1, <1>2, <1>5, <2>3, <2>6, <2>7, ControlKeeps
<1> QED
  BY <1>1, <1>7, <1>8, <1>9

LEMMA ArmKeeps == ASSUME ReadInv, Arm PROVE ReadInv'
<1>1. /\ control.at = "announced" /\ stopping' = FALSE /\ sounding' = sounding
      /\ control' = [control EXCEPT !.at = "armed", !.raced = Stale(control.generation) /\ ~Hushing]
      /\ commands' = commands /\ events' = events /\ faults' = faults /\ ControlAlone
      /\ requests' = requests /\ ready' = ready /\ synth' = synth /\ cache' = cache
  BY DEF Arm, synthesis, Hushing, ToSilence
<1>2. /\ reading' = reading /\ todo' = todo /\ generation' = generation /\ (Hushing' <=> Hushing)
      /\ LoopType /\ ThreadType /\ SynthType /\ Filled /\ Stamped /\ Heeded
      /\ generation \in Nat /\ stopping \in BOOLEAN /\ sounding \in BOOLEAN /\ faults \in 0..MaxFaults
  BY <1>1, LoopStill
<1>3. control.key \in Sentences /\ control \in Controls
  BY <1>1, <1>2 DEF Filled
<1>4. (Stale(control.generation) /\ ~Hushing) \in BOOLEAN
  BY DEF Stale, Hushing
<1>5. /\ control' \in Controls /\ control'.at = "armed" /\ control'.key = control.key
      /\ control'.generation = control.generation
      /\ control'.raced = (Stale(control.generation) /\ ~Hushing)
  BY <1>1, <1>3, <1>4 DEF Controls
<1>6. SynthType'
  BY <1>1, <1>2 DEF SynthType
<1>7. Filled' /\ Stamped'
  BY <1>1, <1>2, <1>3, <1>5 DEF Filled, Stamped
<1>8. InHand' = InHand
  BY <1>1, <1>2, <1>5, HandStill
<1>9. Heeded'
  <2>1. ~sounding'
    BY <1>1, <1>2 DEF Heeded
  <2>2. (Stale(control.generation))' <=> Stale(control.generation)
    BY <1>2, <1>5 DEF Stale
  <2> QED
    BY <1>1, <1>2, <1>5, <2>1, <2>2 DEF Heeded
<1>10. (UnderWay = {} => UnderWay' = {}) /\ (Sole => Sole')
  BY <1>1, <1>2, <1>8, HandKept
<1> QED
  BY <1>1, <1>2, <1>6, <1>7, <1>9, <1>10, ControlKeeps

LEMMA RegisterKeeps == ASSUME ReadInv, Register PROVE ReadInv'
<1>1. /\ control.at = "armed" /\ stopping' = stopping
      /\ \/ stopping /\ control' = Resting /\ sounding' = sounding
         \/ ~stopping /\ control' = [control EXCEPT !.at = "playing"] /\ sounding' = TRUE
      /\ commands' = commands /\ events' = events /\ faults' = faults /\ ControlAlone
      /\ requests' = requests /\ ready' = ready /\ synth' = synth /\ cache' = cache
  BY DEF Register, synthesis
<1>2. /\ reading' = reading /\ todo' = todo /\ generation' = generation /\ (Hushing' <=> Hushing)
      /\ LoopType /\ ThreadType /\ SynthType /\ Filled /\ Stamped /\ Heeded
      /\ generation \in Nat /\ stopping \in BOOLEAN /\ sounding \in BOOLEAN /\ faults \in 0..MaxFaults
  BY <1>1, LoopStill
<1>3. control.key \in Sentences /\ control \in Controls
  BY <1>1, <1>2 DEF Filled
<1>4. SynthType'
  BY <1>1, <1>2 DEF SynthType
<1>5. CASE stopping /\ control' = Resting /\ sounding' = sounding
  <2>1. 0 <= generation
    BY <1>2
  <2>2. Filled' /\ Stamped'
    BY <1>1, <1>2, <1>5, <2>1, RestingIs DEF Filled, Stamped
  <2>3. ~sounding /\ Stale(control.generation)
    BY <1>1, <1>2, <1>5 DEF Heeded
  <2>4. Heeded'
    BY <1>5, <2>3, RestingIs DEF Heeded
  <2>5. InHand = {} /\ InHand' = {}
    BY <1>5, <2>3, RestingIs DEF InHand
  <2>6. (UnderWay = {} => UnderWay' = {}) /\ (Sole => Sole')
    BY <1>1, <1>2, <2>5, HandKept
  <2> QED
    BY <1>1, <1>2, <1>4, <1>5, <2>2, <2>4, <2>6, ControlKeeps
<1>6. CASE ~stopping /\ control' = [control EXCEPT !.at = "playing"] /\ sounding' = TRUE
  <2>1. /\ control' \in Controls /\ control'.at = "playing" /\ control'.key = control.key
        /\ control'.generation = control.generation /\ control'.raced = control.raced
    BY <1>3, <1>6 DEF Controls
  <2>2. Filled' /\ Stamped'
    BY <1>1, <1>2, <1>3, <2>1 DEF Filled, Stamped
  <2>3. InHand' = InHand
    BY <1>1, <1>2, <2>1, HandStill
  <2>4. Heeded'
    <3>1. (Stale(control.generation))' <=> Stale(control.generation)
      BY <1>2, <2>1 DEF Stale
    <3> QED
      BY <1>1, <1>2, <1>6, <2>1, <3>1 DEF Heeded
  <2>5. (UnderWay = {} => UnderWay' = {}) /\ (Sole => Sole')
    BY <1>1, <1>2, <2>3, HandKept
  <2> QED
    BY <1>1, <1>2, <1>4, <1>6, <2>2, <2>4, <2>5, ControlKeeps
<1> QED
  BY <1>1, <1>5, <1>6

(* The control thread is done with an utterance that was armed or played.    *)
LEMMA PlayedKeeps ==
  ASSUME ReadInv, ControlAlone, control.at \in {"armed", "playing"}, control' = Resting,
         commands' = commands, UNCHANGED synthesis, stopping' = stopping, sounding' = FALSE,
         faults' \in 0..MaxFaults,
         \/ Report("finished") \/ Report("failed")
         \/ events' = events /\ Stale(control.generation)
  PROVE  ReadInv'
<1>2. /\ reading' = reading /\ todo' = todo /\ generation' = generation
      /\ LoopType /\ ThreadType /\ SynthType /\ Filled /\ Stamped /\ Heeded
      /\ generation \in Nat /\ stopping \in BOOLEAN /\ sounding \in BOOLEAN
  BY LoopStill
<1>3. SynthType'
  BY <1>2 DEF SynthType, synthesis
<1>4. events' \in Seq(Events) /\ \A i \in DOMAIN events' : events'[i].generation <= generation'
  <2>1. CASE events' = events
    BY <1>2, <2>1 DEF Filled, Stamped
  <2>2. CASE Report("finished") \/ Report("failed")
    BY <1>2, <2>2, ReportIs
  <2> QED
    BY <2>1, <2>2
<1>5. 0 <= generation
  BY <1>2
<1>6. Filled' /\ Stamped'
  BY <1>2, <1>4, <1>5, RestingIs DEF Filled, Stamped
<1>7. Heeded' /\ InHand' = {}
  BY RestingIs DEF Heeded, InHand
<1>8. (UnderWay = {} => UnderWay' = {}) /\ (Sole => Sole')
  <2>1. CASE events' = events /\ Stale(control.generation)
    <3>1. InHand = {}
      BY <2>1 DEF InHand
    <3> QED
      BY <1>2, <1>7, <2>1, <3>1, HandKept
  <2>2. CASE Report("finished") \/ Report("failed")
    BY <1>2, <1>6, <1>7, <2>2, HandReported
  <2> QED
    BY <2>1, <2>2
<1> QED
  BY <1>2, <1>3, <1>6, <1>7, <1>8, ControlKeeps

LEMMA PlayKeeps == ASSUME ReadInv, PlayEnds \/ PlayCut \/ PlayFails PROVE ReadInv'
<1>1. Heeded /\ faults \in 0..MaxFaults
  BY DEF ReadInv, TypeInv, LoopType
<1>2. CASE PlayEnds
  <2>1. /\ control.at \in {"armed", "playing"} /\ control' = Resting /\ commands' = commands
        /\ UNCHANGED synthesis /\ stopping' = stopping /\ sounding' = FALSE /\ faults' = faults
        /\ ControlAlone /\ Report("finished")
    BY <1>2 DEF PlayEnds
  <2> QED
    BY <1>1, <2>1, PlayedKeeps
<1>3. CASE PlayCut
  <2>1. /\ control.at = "playing" /\ ~sounding /\ control' = Resting /\ commands' = commands
        /\ UNCHANGED synthesis /\ stopping' = stopping /\ sounding' = sounding /\ faults' = faults
        /\ ControlAlone /\ ((stopping /\ events' = events) \/ Report("failed"))
    BY <1>3 DEF PlayCut, player
  <2>2. stopping => Stale(control.generation)
    BY <1>1, <2>1 DEF Heeded
  <2>3. sounding' = FALSE
    BY <2>1 DEF ReadInv, TypeInv, ThreadType
  <2> QED
    BY <1>1, <2>1, <2>2, <2>3, PlayedKeeps
<1>4. CASE PlayFails
  <2>1. /\ control' = Resting /\ commands' = commands
        /\ UNCHANGED synthesis /\ stopping' = stopping /\ sounding' = FALSE
        /\ faults < MaxFaults /\ faults' = faults + 1 /\ ControlAlone /\ Report("failed")
    BY <1>4 DEF PlayFails
  <2>2. control.at \in {"armed", "playing"}
    BY <1>1, <1>4 DEF Heeded, PlayFails
  <2>3. faults' \in 0..MaxFaults
    BY <1>1, <2>1, ReadingAssumption
  <2> QED
    BY <1>4, <2>1, <2>2, <2>3, PlayedKeeps DEF PlayFails
<1> QED
  BY <1>2, <1>3, <1>4

-----------------------------------------------------------------------------
(* The synthesis thread touches nothing but its channels and the results. *)

LEMMA SynthKeeps ==
  ASSUME ReadInv, SynthAlone, SynthType', faults' \in 0..MaxFaults
  PROVE  ReadInv'
<1>1. /\ UNCHANGED loop /\ speaker' = speaker /\ generation' = generation /\ commands' = commands
      /\ events' = events /\ control' = control /\ stopping' = stopping /\ sounding' = sounding
      /\ ending' = ending /\ moves' = moves
  BY DEF SynthAlone, player
<1>2. reading' = reading /\ todo' = todo
  BY <1>1 DEF loop
<1>3. ThreadType' /\ Stamped' /\ Unused'
  BY <1>1 DEF ReadInv, TypeInv, ThreadType, Filled, Stamped, Unused
<1>4. Heeded'
  BY <1>1, <1>2, StillHeeded DEF ReadInv, Hushing
<1>5. InHand' = InHand
  BY <1>1 DEF InHand, Stale
<1>6. (UnderWay = {} => UnderWay' = {}) /\ (Sole => Sole')
  BY <1>1, <1>2, <1>5, HandKept
<1> QED
  BY <1>1, <1>3, <1>4, <1>6, ThreadsKeep

LEMMA SynthesizedKeeps ==
  ASSUME ReadInv, NEW result \in {"pcm", "error"}, synth.at \in {"busy", "hung"},
         Synthesized(result),
         faults' \in 0..MaxFaults
  PROVE  ReadInv'
<1>1. /\ cache' = Cached(cache, synth.key, result) /\ ready' = Append(ready, synth.key) /\ synth' = Waiting
      /\ requests' = requests /\ SynthAlone
  BY DEF Synthesized
<1>2. SynthType /\ synth.key \in Sentences
  BY DEF ReadInv, TypeInv, SynthType
<1>3. cache' \in Results /\ Cardinality(Kept(cache')) <= MaxCached
  BY <1>1, <1>2, CachedBounded, SynthIs
<1>4. ready' \in Seq(Sentences) /\ requests' \in Seq(Sentences)
  BY <1>1, <1>2 DEF SynthType
<1>5. SynthType'
  BY <1>1, <1>3, <1>4 DEF SynthType, Results, Kept, Waiting, Optional
<1> QED
  BY <1>1, <1>5, SynthKeeps

LEMMA SynthStepsKeep ==
  ASSUME ReadInv, SynthSteps \/ SynthesisFails \/ SynthesisHangs
  PROVE  ReadInv'
<1>1. SynthType /\ faults \in 0..MaxFaults
  BY DEF ReadInv, TypeInv, LoopType
<1>2. CASE TakeRequest
  <2>1. /\ requests # <<>> /\ requests' = Tail(requests) /\ cache' = cache /\ faults' = faults /\ SynthAlone
        /\ \/ ready' = Append(ready, Head(requests)) /\ synth' = synth
           \/ synth' = [at |-> "busy", key |-> Head(requests)] /\ ready' = ready
    BY <1>2 DEF TakeRequest
  <2>2. Head(requests) \in Sentences /\ requests' \in Seq(Sentences)
    BY <1>1, <2>1, Popped DEF SynthType
  <2>3. SynthType'
    <3>1. ready' \in Seq(Sentences)
      <4>1. ready \in Seq(Sentences)
        BY <1>1 DEF SynthType
      <4>2. Append(ready, Head(requests)) \in Seq(Sentences)
        BY <2>2, <4>1, Pushed
      <4> QED
        BY <2>1, <4>1, <4>2
    <3>2. synth' \in [at : {"idle", "busy", "hung", "ended"}, key : Optional]
          /\ (synth'.at \in {"busy", "hung"} => synth'.key \in Sentences)
      BY <1>1, <2>1, <2>2 DEF SynthType, Optional
    <3>3. cache' \in Results /\ Cardinality(Kept(cache')) <= MaxCached
      BY <1>1, <2>1, SynthIs
    <3> QED
      BY <2>2, <3>1, <3>2, <3>3 DEF SynthType, Results, Kept
  <2> QED
    BY <1>1, <2>1, <2>3, SynthKeeps
<1>3. CASE SynthesisEnds
  BY <1>1, <1>3, SynthesizedKeeps DEF SynthesisEnds
<1>4. CASE SynthLeaves
  <2>1. SynthType' /\ SynthAlone /\ faults' = faults
    BY <1>1, <1>4 DEF SynthLeaves, SynthType
  <2> QED
    BY <1>1, <2>1, SynthKeeps
<1>5. faults < MaxFaults /\ faults' = faults + 1 => faults' \in 0..MaxFaults
  BY <1>1, ReadingAssumption
<1>6. CASE SynthesisFails
  BY <1>1, <1>5, <1>6, SynthesizedKeeps DEF SynthesisFails
<1>7. CASE SynthesisHangs
  <2>1. SynthType' /\ SynthAlone /\ faults' \in 0..MaxFaults
    BY <1>1, <1>5, <1>7 DEF SynthesisHangs, SynthType
  <2> QED
    BY <2>1, SynthKeeps
<1> QED
  BY <1>2, <1>3, <1>4, <1>6, <1>7 DEF SynthSteps
-----------------------------------------------------------------------------
(* The theorems. *)

LEMMA InitKeeps == Init => ReadInv
<1> SUFFICES ASSUME Init PROVE ReadInv
  OBVIOUS
<1>1. LoopType
  <2>1. <<>> \in Seq(1..(Pages + 1))
    OBVIOUS
  <2>2. 0 \in 0..MaxMoves /\ 0 \in 0..MaxFaults
    BY ReadingAssumption
  <2>3. /\ reading = Idle /\ link \in {"none", "text", "textless"} /\ asks = <<>> /\ untold = FALSE
        /\ moves = 0 /\ faults = 0
    BY DEF Init
  <2> QED
    BY <2>1, <2>2, <2>3, IdleOK DEF LoopType
<1>2. Filled /\ ThreadType
  <2>1. control \in Controls /\ control.at = "ended"
    BY DEF Init, Resting, Controls, Optional
  <2>2. commands \in Seq(Commands) /\ events \in Seq(Events)
    BY DEF Init
  <2>3. Filled
    BY <2>1, <2>2 DEF Filled
  <2> QED
    BY <2>3 DEF Init, ThreadType
<1>3. SynthType
  <2>1. {k \in Sentences : Empty[k] # "none"} = {} /\ Empty \in [Sentences -> {"none", "pcm", "error"}]
    BY DEF Empty
  <2>2. Cardinality({}) = 0 /\ 0 <= MaxCached
    BY FS_EmptySet, ReadingAssumption
  <2>3. synth \in [at : {"idle", "busy", "hung", "ended"}, key : Optional] /\ synth.at = "ended"
    BY DEF Init, Waiting, Optional
  <2>4. requests \in Seq(Sentences) /\ ready \in Seq(Sentences)
    BY DEF Init
  <2>5. cache = Empty
    BY DEF Init
  <2> QED
    BY <2>1, <2>2, <2>3, <2>4, <2>5 DEF SynthType
<1>4. Free /\ Planned
  BY DEF Init, Free, Planned
<1>5. Stamped /\ Unused
  BY DEF Init, Stamped, Unused, Resting
<1>6. Still
  BY <1>4 DEF Still
<1>7. UnderWay = {}
  <2>1. Commanded = {} /\ Over = {} /\ InHand = {}
    BY DEF Init, Commanded, Over, InHand, Resting
  <2> QED
    BY <2>1 DEF UnderWay
<1>8. Company
  BY <1>7, IdleOK DEF Init, Company, Talking
<1>9. Heeded
  BY DEF Init, Heeded, Resting
<1> QED
  BY <1>1, <1>2, <1>3, <1>4, <1>5, <1>6, <1>8, <1>9 DEF ReadInv, TypeInv

LEMMA StutterKeeps == ASSUME ReadInv, UNCHANGED vars PROVE ReadInv'
<1>1. /\ UNCHANGED loop /\ speaker' = speaker /\ generation' = generation /\ commands' = commands
      /\ events' = events /\ control' = control /\ UNCHANGED player /\ ending' = ending /\ moves' = moves
      /\ requests' = requests /\ ready' = ready /\ synth' = synth /\ cache' = cache /\ faults' = faults
  BY DEF vars, loop, player
<1>2. SynthAlone
  BY <1>1 DEF SynthAlone
<1>3. SynthType' /\ faults' \in 0..MaxFaults
  BY <1>1 DEF ReadInv, TypeInv, SynthType, LoopType
<1> QED
  BY <1>2, <1>3, SynthKeeps

LEMMA NextKeeps == ReadInv /\ [Next]_vars => ReadInv'
<1> SUFFICES ASSUME ReadInv, [Next]_vars PROVE ReadInv'
  OBVIOUS
<1>1. CASE UNCHANGED vars
  BY <1>1, StutterKeeps
<1>2. CASE Keys
  BY <1>2, ToggleKeeps, StopKeeps, SkipKeeps, ReprobeKeeps, PutDocumentDownKeeps DEF Keys
<1>3. CASE Answers
  BY <1>3, TellTextKeeps, TellCannotSpeakKeeps, TellFailedKeeps DEF Answers
<1>4. CASE LinkUp
  BY <1>4, LinkUpKeeps
<1>5. CASE Poll
  BY <1>5, PollKeeps
<1>6. CASE CarryOn
  BY <1>6, OutdateKeeps, SilenceKeeps, SayKeeps, ShowKeeps, AskKeeps, EndKeeps, JoinKeeps
     DEF CarryOn
<1>7. CASE ControlSteps
  BY <1>7, TakeCommandKeeps, HearReadyKeeps, CheckCurrentKeeps, ArmKeeps, RegisterKeeps, PlayKeeps
     DEF ControlSteps
<1>8. CASE SynthSteps
  BY <1>8, SynthStepsKeep
<1>9. CASE Faults
  BY <1>9, PutDocumentDownKeeps, CannotSayKeeps, PlayKeeps, SynthStepsKeep DEF Faults
<1> QED
  BY <1>1, <1>2, <1>3, <1>4, <1>5, <1>6, <1>7, <1>8, <1>9 DEF Next

LEMMA ReadingKept == Spec => []ReadInv
  BY InitKeeps, NextKeeps, PTL DEF Spec

(* The types of the model hold in every state: the cursor is on a sentence   *)
(* of a page it has loaded, what is left to do is about pages there may be,  *)
(* no more results are kept than the cache has room for.                     *)
THEOREM ReadTypeCorrect == Spec => []TypeOK
<1>1. ReadInv => TypeOK
  <2> SUFFICES ASSUME ReadInv PROVE TypeOK
    OBVIOUS
  <2>1. LoopType /\ ThreadType /\ SynthType /\ Planned /\ Filled
    BY DEF ReadInv, TypeInv, ThreadType
  <2>2. /\ reading \in [scope : {"none", "page", "document", "selection"}, page : 0..(Pages + 1), index : Nat,
                        loaded : BOOLEAN, state : {"idle", "starting", "speaking", "paused", "awaiting"}]
        /\ (reading = Idle) = (reading.state = "idle")
        /\ reading.loaded => reading.index \in 1..SentenceCount[reading.page]
        /\ Talking => reading.loaded
    BY <2>1 DEF LoopType, ReadingOK, Readings, States, Talking
  <2>3. \A i \in DOMAIN todo : todo[i].page \in 0..(Pages + 1)
    BY <2>1, TodoWritten
  <2>4. /\ link \in {"none", "text", "textless"}
        /\ asks \in Seq(1..(Pages + 1)) /\ (link = "none" => asks = <<>>)
        /\ speaker \in BOOLEAN /\ generation \in Nat
        /\ {stopping, sounding, ending, untold} \subseteq BOOLEAN
        /\ moves \in 0..MaxMoves /\ faults \in 0..MaxFaults
    BY <2>1 DEF LoopType, ThreadType
  <2>5. /\ control.at \in {"idle", "await", "hand", "announced", "armed", "playing", "ended"}
        /\ control.key \in Sentences \union {NoSentence} /\ control.next \in Sentences \union {NoSentence}
    BY <2>1 DEF Filled, Controls, Optional
  <2>6. /\ requests \in Seq(Sentences) /\ ready \in Seq(Sentences)
        /\ synth \in [at : {"idle", "busy", "hung", "ended"}, key : Sentences \union {NoSentence}]
        /\ cache \in [Sentences -> {"none", "pcm", "error"}]
        /\ Cardinality({k \in Sentences : cache[k] # "none"}) <= MaxCached
    BY <2>1 DEF SynthType, Optional
  <2> QED
    BY <2>2, <2>3, <2>4, <2>5, <2>6 DEF TypeOK
<1> QED
  BY <1>1, ReadingKept, PTL

(* Once a handler is done, a reading that talks has exactly one utterance    *)
(* under way, of the sentence at its cursor, any other none; and one that    *)
(* waits for a page's text has asked for it, or was refused without a word:  *)
(* apply_speech, Speech::poll and the generations of Speaker, whatever the   *)
(* order in which the threads run.                                           *)
THEOREM OneVoice == Spec => []Accompanied
<1>1. ReadInv => Accompanied
  <2> SUFFICES ASSUME ReadInv, Free
               PROVE  /\ IF Talking THEN \E u \in UnderWay : UnderWay = {u} ELSE UnderWay = {}
                      /\ \A u \in UnderWay : u[3] = Cursor(reading)
                      /\ reading.state = "awaiting" => reading.page \in Range(asks) \/ untold
    BY DEF Accompanied
  <2>1. Company
    BY DEF ReadInv
  <2>2. CASE Talking
    <3>1. PICK u : UnderWay = {u} /\ u[3] = Cursor(reading)
      BY <2>1, <2>2 DEF Company, Sole
    <3>2. \E w \in UnderWay : UnderWay = {w}
      BY <3>1
    <3>3. \A w \in UnderWay : w[3] = Cursor(reading)
      BY <3>1
    <3> QED
      BY <2>1, <2>2, <3>2, <3>3 DEF Company
  <2>3. CASE ~Talking
    BY <2>1, <2>3 DEF Company
  <2> QED
    BY <2>2, <2>3
<1> QED
  BY <1>1, ReadingKept, PTL

(* A stop, pause or skip that was carried out is heard: what still sounds is *)
(* the sentence at the cursor of a reading that talks, or an utterance that  *)
(* raced the stop between its last check and Player::arm.                    *)
THEOREM StopsAreHeard == Spec => []QuietWhenStopped
<1>1. ReadInv => QuietWhenStopped
  <2> SUFFICES ASSUME ReadInv, sounding
               PROVE  /\ speaker
                      /\ Free => control.raced \/ (Talking /\ ~Stale(control.generation))
    BY DEF QuietWhenStopped
  <2>1. Heeded /\ Unused
    BY DEF ReadInv, TypeInv
  <2>2. control.at = "playing"
    BY <2>1 DEF Heeded
  <2>3. speaker
    BY <2>1, <2>2 DEF Unused
  <2>4. ASSUME Free, ~control.raced PROVE Talking /\ ~Stale(control.generation)
    <3>1. ~Hushing
      BY <2>4, RangeEmpty DEF Hushing, Free
    <3>2. ~Stale(control.generation)
      BY <2>1, <2>2, <2>4, <3>1 DEF Heeded
    <3>3. UnderWay # {}
      BY <2>2, <3>2 DEF UnderWay, InHand
    <3>4. Talking
      BY <2>4, <3>3 DEF ReadInv, Company
    <3> QED
      BY <3>2, <3>4
  <2> QED
    BY <2>3, <2>4
<1> QED
  BY <1>1, ReadingKept, PTL
=============================================================================
