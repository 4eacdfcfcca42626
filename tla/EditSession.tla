----------------------------- MODULE EditSession -----------------------------
(***************************************************************************)
(* Editing a document: the reader that posts mutations without waiting for *)
(* their answers, the thread and the worker process that apply them one at *)
(* a time under an optimistic revision check, the form events that may     *)
(* move the revision on their own, the undo history, and the journal that  *)
(* survives a crash and is offered to the next run.                        *)
(*                                                                         *)
(* Source: crates/pulpit/src/app.rs, app/reader_forms.rs, reader.rs,       *)
(* reader_link.rs, reader_journal.rs, form_flow.rs and                     *)
(* crates/pulpit-render/src/document/{mod,worker,session}.rs.              *)
(*                                                                         *)
(* A mark is <<m, n>>: its name, the m-th that was given (no worker gives  *)
(* one twice, nor one that another gave), and the stroke it is.  The form  *)
(* is one field, holding the number of the event that filled it.  The      *)
(* application is one event loop, and a pump of answers is not interleaved *)
(* with the user.  Describing, searching and drawing pages share the link  *)
(* and change nothing here.                                                *)
(***************************************************************************)
EXTENDS Naturals, FiniteSets, SequencesExt

CONSTANTS
  Files, NoFile,
  Paper,       \* the one file there is at first
  MaxEntries,  \* reader_journal::MAX_ENTRIES
  MaxActs,     \* bound: strokes, erasures, undos, form events and saves
  MaxOpens,    \* bound: documents opened
  MaxFaults    \* bound: crashes, workers lost, refusals, failed writes

ASSUME EditAssumption ==
  /\ Paper \in Files /\ NoFile \notin Files
  /\ MaxEntries \in Nat /\ MaxActs \in Nat /\ MaxOpens \in Nat /\ MaxFaults \in Nat

VARIABLES
  disk,      \* the files: version, 0 for none, and content
  worker,    \* the worker process and the document it holds
  serving,   \* the thread of the link runs
  asks,      \* ReaderLink::asks
  told,      \* ReaderLink::told
  open,      \* the file the reader has open
  reader,    \* revision, undo and redo stacks, history_epoch
  pending,   \* App::reader_pending
  deferred,  \* FormFlow::deferred
  events,    \* FormFlow::events_in_flight
  pumping,   \* pump_reader has more answers to handle
  journal,   \* App::reader_journal
  own,       \* this process's journal file
  left,      \* the journal files of processes that are gone
  offer,     \* App::reader_recovery
  log,       \* history: the edits the reader has been told of since the last save
  skew,      \* history: what has moved the revision behind the reader's back
  promise,   \* history: what the restore the user accepted is to bring back
  acts, opens, faults

docVars == <<disk, worker, serving>>
linkVars == <<asks, told>>
queueVars == <<pending, deferred, events, pumping>>
journalVars == <<journal, own, left, offer, log>>
historyVars == <<skew, promise>>
countVars == <<acts, opens, faults>>
vars == <<docVars, linkVars, open, reader, queueVars, journalVars, historyVars, countVars>>

------------------------------------------------------------------------------
(* Operations: the commands of a transaction and the undo operations. *)
NoMark == <<0, 0>>
Create(n) == [k |-> "create", id |-> NoMark, val |-> n]
Delete(i) == [k |-> "delete", id |-> i, val |-> 0]
Restore(i) == [k |-> "restore", id |-> i, val |-> 0]
SetField(v) == [k |-> "set", id |-> NoMark, val |-> v]

Marks == Nat \X (0..MaxActs)
Ops == [k : {"create", "delete", "restore", "set"}, id : Marks, val : 0..MaxActs]

(* Whether a document that holds these marks takes the operation. *)
Takes(marks, op) == op.k = "delete" => op.id \in marks

(* apply_one and apply_undo_operation, where the next mark is named m. *)
MarksAfter(marks, m, op) ==
  CASE op.k = "create" -> marks \cup {<<m, op.val>>}
    [] op.k = "delete" -> marks \ {op.id}
    [] op.k = "restore" -> marks \cup {op.id}
    [] OTHER -> marks

FieldAfter(field, op) == IF op.k = "set" THEN op.val ELSE field

UndoOf(field, m, op) ==
  CASE op.k = "create" -> Delete(<<m, op.val>>)
    [] op.k = "delete" -> Restore(op.id)
    [] op.k = "restore" -> Delete(op.id)
    [] OTHER -> SetField(field)

(* The worker and its document, with one more operation applied. *)
Done(w, op) ==
  [w EXCEPT !.rev = @ + 1,
            !.marks = MarksAfter(@, w.named + 1, op),
            !.field = FieldAfter(@, op),
            !.named = IF op.k = "create" THEN @ + 1 ELSE @]

------------------------------------------------------------------------------
(* What the reader posts. *)
NoJournal == [of |-> NoFile, v |-> 0, entries |-> <<>>]
Off == [on |-> FALSE, file |-> FALSE, written |-> 0, full |-> FALSE]
Fresh == [rev |-> 0, undo |-> <<>>, redo |-> <<>>, epoch |-> 0]
NoPromise == [made |-> FALSE, names |-> FALSE, marks |-> {}, field |-> 0]

(* The epoch that owns no slot of either stack: u64::MAX. *)
NoEpoch == MaxActs + 1

MutantMayCommitOut(ev) == FALSE

(* a_commit_may_be_in_flight *)
MayCommitOut(ev) == \E i \in DOMAIN ev : ev[i]

(* expected_revision: every mutation in flight is taken to succeed. *)
MutantExpected(rev, p) == rev
Expected(rev, p) == rev + Len(p)

Desk == [p |-> pending, d |-> deferred, a |-> asks]
PutDesk(s) == pending' = s.p /\ deferred' = s.d /\ asks' = s.a

(* commit_to_document: behind a form event that may commit it waits. *)
Commit(s, rev, ev, op) ==
  IF MayCommitOut(ev) THEN [s EXCEPT !.d = Append(@, op)]
  ELSE IF serving
  THEN [s EXCEPT !.p = Append(@, [kind |-> "edit", op |-> op, epoch |-> NoEpoch]),
                 !.a = Append(@, [k |-> "apply", exp |-> Expected(rev, s.p), op |-> op])]
  ELSE s

(* send_undo: it does not wait, and is pending whether the link took it or not. *)
SendUndo(s, rev, kind, epoch, op) ==
  IF open = NoFile THEN s ELSE
  [s EXCEPT !.p = Append(@, [kind |-> kind, op |-> op, epoch |-> epoch]),
            !.a = IF serving
                  THEN Append(@, [k |-> "undo", exp |-> Expected(rev, s.p), op |-> op])
                  ELSE @]

(* Edits posted one behind the other: commands of the user, and, in a replay, *)
(* the undo operations of a journal.                                        *)
Post(s, rev, ev, e) ==
  IF e.via = "applied" THEN Commit(s, rev, ev, e.op)
  ELSE SendUndo(s, rev, "undo", NoEpoch, e.op)

PostAll(s, rev, ev, es) ==
  LET after[i \in 0..Len(es)] ==
        IF i = 0 THEN s ELSE Post(after[i - 1], rev, ev, es[i])
  IN after[Len(es)]

(* released_commits, at the end of a pump. *)
MutantReleased(s, rev, ev) == s
Released(s, rev, ev) ==
  IF pumping' \/ MayCommitOut(ev) THEN s
  ELSE PostAll([s EXCEPT !.d = <<>>], rev, ev,
               [i \in DOMAIN s.d |-> [via |-> "applied", op |-> s.d[i]]])

------------------------------------------------------------------------------
(* The user.  No message is handled inside a pump. *)
UserActs ==
  /\ open # NoFile /\ ~pumping /\ acts < MaxActs
  /\ acts' = acts + 1
  /\ promise' = NoPromise

(* The marks the reader knows the name of. *)
Known ==
  worker.marks \ {told[i].undo.id : i \in {j \in DOMAIN told : /\ told[j].k = "applied"
                                                              /\ told[j].undo.k = "delete"}}

PostsTransaction(op) ==
  /\ PutDesk(Commit(Desk, reader.rev, events, op))
  /\ UNCHANGED <<docVars, told, open, reader, events, pumping, journalVars, skew, opens, faults>>

Draw == UserActs /\ PostsTransaction(Create(acts + 1))

Erase == UserActs /\ \E i \in Known : PostsTransaction(Delete(i))

(* An undo or a redo leaves its stack when it is sent. *)
TakeBack(kind) ==
  /\ UserActs
  /\ reader[kind] # <<>>
  /\ reader' = [reader EXCEPT ![kind] = Front(@)]
  /\ PutDesk(SendUndo(Desk, reader.rev, kind, reader.epoch, Last(reader[kind])))
  /\ UNCHANGED <<docVars, told, open, events, pumping, journalVars, skew, opens, faults>>

Undo == TakeBack("undo")
Redo == TakeBack("redo")

(* ask_form_event_on: may is can_change_the_document, FALSE for the event   *)
(* that takes the focus away and so commits what was typed.                 *)
FormEvent(may) ==
  /\ UserActs
  /\ IF serving THEN /\ asks' = Append(asks, [k |-> "form", may |-> may, val |-> acts + 1])
                     /\ events' = Append(events, may)
     ELSE UNCHANGED <<asks, events>>
  /\ UNCHANGED <<docVars, told, open, reader, pending, deferred, pumping, journalVars, skew,
                 opens, faults>>

(* save_document_to: never over the document that is open. *)
SaveAs(f) ==
  /\ UserActs
  /\ f # open
  /\ asks' = IF serving THEN Append(asks, [k |-> "save", to |-> f]) ELSE asks
  /\ UNCHANGED <<docVars, told, open, reader, queueVars, journalVars, skew, opens, faults>>

------------------------------------------------------------------------------
(* Opening, closing, crashing. *)
ForgetEdits ==
  /\ asks' = <<>> /\ told' = <<>> /\ serving' = FALSE
  /\ reader' = Fresh /\ pending' = <<>> /\ deferred' = <<>> /\ events' = <<>>
  /\ pumping' = FALSE /\ skew' = {} /\ promise' = NoPromise

(* RecoveredJournal::applies_to *)
AppliesTo(j, f) == j.of = f /\ j.v = disk[f].v /\ j.entries # <<>>

(* A new worker, a journal begun in place of whatever this process's was,   *)
(* and the offer of one a process that is gone left for this very file.     *)
Open(f) ==
  /\ ~pumping /\ opens < MaxOpens /\ disk[f].v > 0
  /\ opens' = opens + 1
  /\ asks' = <<>> /\ told' = <<>> /\ serving' = TRUE
  /\ worker' = [alive |-> TRUE, named |-> worker.named, rev |-> 0,
                marks |-> disk[f].marks, field |-> disk[f].field]
  /\ open' = f
  /\ reader' = Fresh /\ pending' = <<>> /\ deferred' = <<>> /\ events' = <<>>
  /\ skew' = {} /\ promise' = NoPromise /\ log' = <<>>
  /\ LET found == {j \in left : AppliesTo(j, f)} IN
       IF found = {} THEN offer' = NoJournal ELSE offer' \in found
  /\ \/ /\ journal' = [on |-> TRUE, file |-> TRUE, written |-> 0, full |-> FALSE]
        /\ own' = [of |-> f, v |-> disk[f].v, entries |-> <<>>]
        /\ UNCHANGED faults
     \/ /\ faults < MaxFaults /\ faults' = faults + 1
        /\ journal' = Off
        /\ own' \in {own, NoJournal}
  /\ UNCHANGED <<disk, pumping, left, acts>>

(* close_document and quit: the journal goes with the document. *)
PutAway ==
  /\ open # NoFile /\ ~pumping
  /\ open' = NoFile /\ journal' = Off /\ offer' = NoJournal /\ log' = <<>>
  /\ own' = NoJournal
  /\ ForgetEdits
  /\ UNCHANGED <<disk, worker, left, countVars>>

(* The application dies and is started again: another process, another     *)
(* journal file.                                                           *)
Crash ==
  /\ faults < MaxFaults /\ faults' = faults + 1
  /\ open' = NoFile /\ journal' = Off /\ offer' = NoJournal /\ log' = <<>>
  /\ left' = IF own = NoJournal THEN left ELSE left \cup {own}
  /\ own' = NoJournal
  /\ ForgetEdits
  /\ UNCHANGED <<disk, worker, acts, opens>>

(* RecoveredJournal::in_order: a stable sort by revision. *)
Sorts(entries, p) ==
  /\ \A i, j \in DOMAIN entries : p[i] = p[j] => i = j
  /\ \A i, j \in DOMAIN entries :
       i < j => \/ entries[p[i]].rev < entries[p[j]].rev
                \/ entries[p[i]].rev = entries[p[j]].rev /\ p[i] < p[j]

InOrder(entries) ==
  LET p == CHOOSE q \in [DOMAIN entries -> DOMAIN entries] : Sorts(entries, q)
  IN [i \in DOMAIN entries |-> entries[p[i]]]

(* What a journal makes of a document, its edits applied one after the      *)
(* other with nothing in between.                                          *)
Brought(w, entries) ==
  LET after[i \in 0..Len(entries)] ==
        IF i = 0 THEN w ELSE Done(after[i - 1], entries[i].op)
  IN after[Len(entries)]

NamesOwnMarks(entries) ==
  \E i \in DOMAIN entries : /\ entries[i].op.k \in {"delete", "restore"}
                            /\ entries[i].op.id \notin worker.marks

(* restore_reader_edits: every entry is posted, and the file is gone before *)
(* the first is answered.                                                   *)
RestoreEdits ==
  /\ ~pumping /\ offer # NoJournal
  /\ PutDesk(PostAll(Desk, reader.rev, events, InOrder(offer.entries)))
  /\ left' = left \ {offer} /\ offer' = NoJournal
  /\ promise' =
       IF pending = <<>> /\ events = <<>> /\ reader.rev = 0
       THEN LET to == Brought(worker, InOrder(offer.entries)) IN
            [made |-> TRUE, names |-> NamesOwnMarks(offer.entries),
             marks |-> to.marks, field |-> to.field]
       ELSE NoPromise
  /\ UNCHANGED <<docVars, told, open, reader, events, pumping, journal, own, log, skew, countVars>>

DiscardEdits ==
  /\ ~pumping /\ offer # NoJournal
  /\ left' = left \ {offer} /\ offer' = NoJournal
  /\ UNCHANGED <<docVars, linkVars, open, reader, queueVars, journal, own, log, historyVars,
                 countVars>>

------------------------------------------------------------------------------
(* The thread of the link and the worker: one request at a time, in order. *)
Answers(t) ==
  /\ asks' = Tail(asks) /\ told' = Append(told, t)
  /\ UNCHANGED <<serving, open, reader, queueVars, journalVars, acts, opens>>

Asked(kinds) == serving /\ asks # <<>> /\ Head(asks).k \in kinds

RefuseAs(why) ==
  /\ Answers([k |-> "refused", op |-> Head(asks).op, was |-> Head(asks).k, why |-> why,
              behind |-> skew])
  /\ skew' = skew \cup {"refusal"}
  /\ UNCHANGED <<disk, worker>>

(* check_revision *)
Checked(a) == a.exp = worker.rev

ServeEdit ==
  /\ Asked({"apply", "undo"}) /\ worker.alive
  /\ LET a == Head(asks) IN
       /\ Checked(a) /\ Takes(worker.marks, a.op)
       /\ worker' = Done(worker, a.op)
       /\ Answers([k |-> "applied", rev |-> worker.rev + 1, did |-> a.op,
                   undo |-> UndoOf(worker.field, worker.named + 1, a.op)])
  /\ UNCHANGED <<disk, historyVars, faults>>

ServeConflict ==
  /\ Asked({"apply", "undo"}) /\ worker.alive
  /\ ~Checked(Head(asks))
  /\ RefuseAs("conflict")
  /\ UNCHANGED <<promise, faults>>

ServeMissing ==
  /\ Asked({"apply", "undo"}) /\ worker.alive
  /\ Checked(Head(asks)) /\ ~Takes(worker.marks, Head(asks).op)
  /\ RefuseAs("missing")
  /\ UNCHANGED <<promise, faults>>

(* A stroke the engine will not have: precheck, or the library. *)
ServeInvalid ==
  /\ Asked({"apply"}) /\ worker.alive
  /\ faults < MaxFaults /\ faults' = faults + 1
  /\ Checked(Head(asks)) /\ Head(asks).op.k = "create"
  /\ RefuseAs("invalid")
  /\ promise' = NoPromise

(* form_event: a value is committed, named or not, or nothing happens. *)
ServeForm ==
  /\ Asked({"form"}) /\ worker.alive
  /\ \/ /\ Answers([k |-> "form", commits |-> FALSE])
        /\ UNCHANGED <<worker, skew>>
     \/ /\ \E named \in BOOLEAN :
             Answers([k |-> "form", commits |-> TRUE, named |-> named, rev |-> worker.rev + 1,
                      was |-> worker.field, val |-> Head(asks).val])
        /\ worker' = [worker EXCEPT !.rev = @ + 1, !.field = Head(asks).val]
        /\ skew' = IF Head(asks).may THEN skew ELSE skew \cup {"quiet commit"}
  /\ UNCHANGED <<disk, promise, faults>>

(* save_as: the copy is whole, or it is not there. *)
ServeSave ==
  /\ Asked({"save"}) /\ worker.alive
  /\ LET f == Head(asks).to IN
       \/ /\ disk' = [disk EXCEPT ![f] = [v |-> @.v + 1, marks |-> worker.marks,
                                          field |-> worker.field]]
          /\ Answers([k |-> "saved", to |-> f])
          /\ UNCHANGED faults
       \/ /\ faults < MaxFaults /\ faults' = faults + 1
          /\ Answers([k |-> "failed"])
          /\ UNCHANGED disk
  /\ UNCHANGED <<worker, historyVars>>

WorkerDies ==
  /\ serving /\ worker.alive
  /\ faults < MaxFaults /\ faults' = faults + 1
  /\ worker' = [worker EXCEPT !.alive = FALSE]
  /\ promise' = NoPromise
  /\ UNCHANGED <<disk, serving, linkVars, open, reader, queueVars, journalVars, skew, acts, opens>>

(* The session is lost at the next request: a fatal answer, and the thread *)
(* ends with whatever was posted behind it.                                *)
ServeLost ==
  /\ serving /\ asks # <<>> /\ ~worker.alive
  /\ told' = Append(told, [k |-> "gone"])
  /\ asks' = <<>> /\ serving' = FALSE
  /\ UNCHANGED <<disk, worker, open, reader, queueVars, journalVars, historyVars, countVars>>

------------------------------------------------------------------------------
(* pump_reader. *)
TakeAnswer(kind) ==
  /\ open # NoFile /\ told # <<>> /\ Head(told).k = kind
  /\ told' = Tail(told)
  /\ pumping' \in (IF told' = <<>> THEN {FALSE} ELSE BOOLEAN)
  /\ UNCHANGED <<disk, worker, serving, left, offer, acts, opens>>

(* What moved the revision is forgotten when nothing is left in flight. *)
Settle == skew' = IF asks' = <<>> /\ told' = <<>> /\ pending' = <<>> THEN {} ELSE skew

(* App::journal over Journal::append *)
MutantJournalled(entry) ==
  IF journal.on /\ journal.file
  THEN /\ journal' = [journal EXCEPT !.written = @ + 1]
       /\ own' = [own EXCEPT !.entries = Append(@, entry)]
       /\ UNCHANGED faults
  ELSE UNCHANGED <<journal, own, faults>>

Journalled(entry) ==
  CASE ~journal.on -> UNCHANGED <<journal, own, faults>>
    [] journal.on /\ journal.written >= MaxEntries ->
         journal' = [journal EXCEPT !.full = TRUE] /\ UNCHANGED <<own, faults>>
    [] journal.on /\ journal.written < MaxEntries /\ ~journal.file ->
         journal' = Off /\ UNCHANGED <<own, faults>>
    [] OTHER ->
         \/ /\ journal' = [journal EXCEPT !.written = @ + 1]
            /\ own' = [own EXCEPT !.entries = Append(@, entry)]
            /\ UNCHANGED faults
         \/ /\ faults < MaxFaults /\ faults' = faults + 1
            /\ journal' = Off /\ UNCHANGED own

(* ReaderSession::applied *)
Adopt(kind, t) ==
  CASE kind = "edit" -> [rev |-> t.rev, undo |-> Append(reader.undo, t.undo), redo |-> <<>>,
                         epoch |-> reader.epoch + 1]
    [] kind = "undo" -> [reader EXCEPT !.rev = t.rev, !.redo = Append(@, t.undo)]
    [] OTHER -> [reader EXCEPT !.rev = t.rev, !.undo = Append(@, t.undo)]

(* The entry records what was asked for; with nothing pending, the inverse. *)
MutantEntryFor(t) ==
  [rev |-> t.rev, via |-> IF Head(pending).kind = "edit" THEN "applied" ELSE "reversed",
   op |-> IF Head(pending).kind = "edit" THEN Head(pending).op ELSE t.undo]

EntryFor(t) ==
  IF pending = <<>> THEN [rev |-> t.rev, via |-> "reversed", op |-> t.undo]
  ELSE [rev |-> t.rev, via |-> IF Head(pending).kind = "edit" THEN "applied" ELSE "reversed",
        op |-> Head(pending).op]

TakeApplied ==
  /\ TakeAnswer("applied")
  /\ LET t == Head(told)
         kind == IF pending = <<>> THEN "edit" ELSE Head(pending).kind
     IN /\ reader' = Adopt(kind, t)
        /\ Journalled(EntryFor(t))
        /\ log' = Append(log, [rev |-> t.rev, op |-> t.did])
        /\ PutDesk(Released([Desk EXCEPT !.p = IF @ = <<>> THEN @ ELSE Tail(@)], t.rev, events))
  /\ Settle
  /\ UNCHANGED <<open, events, promise>>

(* EditFailed: the answer of one mutation, whose operation goes back on the *)
(* stack it was taken from if the history is still the one it was taken in. *)
PutBack(p) ==
  IF p.epoch # reader.epoch \/ p.kind = "edit" THEN reader
  ELSE [reader EXCEPT ![p.kind] = Append(@, p.op)]

TakeRefused ==
  /\ TakeAnswer("refused")
  /\ reader' = IF pending = <<>> THEN reader ELSE PutBack(Head(pending))
  /\ PutDesk(Released([Desk EXCEPT !.p = IF @ = <<>> THEN @ ELSE Tail(@)], reader.rev, events))
  /\ Settle
  /\ UNCHANGED <<open, events, promise, journal, own, log, faults>>

(* FormChanged and FormRefused: a commit is an edit like any other. *)
TakeForm ==
  /\ TakeAnswer("form")
  /\ events' = Tail(events)
  /\ LET t == Head(told)
         rev == IF t.commits THEN t.rev ELSE reader.rev
     IN /\ IF t.commits /\ t.named
           THEN /\ reader' = [rev |-> rev, undo |-> Append(reader.undo, SetField(t.was)),
                              redo |-> <<>>, epoch |-> reader.epoch + 1]
                /\ Journalled([rev |-> rev, via |-> "applied", op |-> SetField(t.val)])
                /\ log' = Append(log, [rev |-> rev, op |-> SetField(t.val)])
           ELSE /\ reader' = [reader EXCEPT !.rev = rev]
                /\ UNCHANGED <<journal, own, log, faults>>
        /\ PutDesk(Released(Desk, rev, events'))
  /\ Settle
  /\ UNCHANGED <<open, promise>>

(* Saved: Journal::finish, over the copy; its file may not be made again,   *)
(* or the copy not be fingerprinted.                                        *)
TakeSaved ==
  /\ TakeAnswer("saved")
  /\ LET f == Head(told).to IN
       \/ /\ journal.on
          /\ journal' = [on |-> TRUE, file |-> TRUE, written |-> 0, full |-> FALSE]
          /\ own' = [of |-> f, v |-> disk[f].v, entries |-> <<>>]
          /\ UNCHANGED faults
       \/ /\ journal.on
          /\ faults < MaxFaults /\ faults' = faults + 1
          /\ \/ /\ journal' = [on |-> TRUE, file |-> FALSE, written |-> 0, full |-> FALSE]
                /\ own' = NoJournal
             \/ /\ own # NoJournal
                /\ journal' = [on |-> TRUE, file |-> TRUE, written |-> 0, full |-> FALSE]
                /\ own' = [own EXCEPT !.entries = <<>>]
       \/ /\ ~journal.on
          /\ UNCHANGED <<journal, own, faults>>
  /\ log' = <<>>
  /\ PutDesk(Released(Desk, reader.rev, events))
  /\ Settle
  /\ UNCHANGED <<open, reader, events, promise>>

(* Failed: it does not say what it answers, and retires nothing. *)
TakeFailed ==
  /\ TakeAnswer("failed")
  /\ PutDesk(Released(Desk, reader.rev, events))
  /\ Settle
  /\ UNCHANGED <<open, reader, events, promise, journal, own, log, faults>>

(* reader_link_died: the reader closes; the journal is left as it is. *)
TakeGone ==
  /\ open # NoFile /\ told # <<>> /\ Head(told).k = "gone"
  /\ open' = NoFile
  /\ ForgetEdits
  /\ UNCHANGED <<disk, worker, journalVars, countVars>>

------------------------------------------------------------------------------
Init ==
  /\ disk = [f \in Files |-> IF f = Paper THEN [v |-> 1, marks |-> {NoMark}, field |-> 0]
                             ELSE [v |-> 0, marks |-> {}, field |-> 0]]
  /\ worker = [alive |-> FALSE, named |-> 0, rev |-> 0, marks |-> {}, field |-> 0]
  /\ serving = FALSE /\ asks = <<>> /\ told = <<>>
  /\ open = NoFile /\ reader = Fresh
  /\ pending = <<>> /\ deferred = <<>> /\ events = <<>> /\ pumping = FALSE
  /\ journal = Off /\ own = NoJournal /\ left = {} /\ offer = NoJournal /\ log = <<>>
  /\ skew = {} /\ promise = NoPromise
  /\ acts = 0 /\ opens = 0 /\ faults = 0

Serve == ServeEdit \/ ServeConflict \/ ServeMissing \/ ServeInvalid \/ ServeForm \/ ServeSave
         \/ ServeLost

Pump == TakeApplied \/ TakeRefused \/ TakeForm \/ TakeSaved \/ TakeFailed \/ TakeGone

User ==
  \/ Draw \/ Erase \/ Undo \/ Redo
  \/ \E may \in BOOLEAN : FormEvent(may)
  \/ \E f \in Files : SaveAs(f) \/ Open(f)
  \/ PutAway \/ RestoreEdits \/ DiscardEdits

Next == User \/ Serve \/ Pump \/ WorkerDies \/ Crash

Spec == Init /\ [][Next]_vars

(* The thread of the link and the application's ticks go on; the user, the *)
(* crashes and the losses need not come.                                   *)
Fairness == WF_vars(Serve) /\ WF_vars(Pump)

FairSpec == Spec /\ Fairness

------------------------------------------------------------------------------
(* Properties. *)
Edits == [rev : Nat, op : Ops]

(* Every variable stays in its range, and the queues hold what they should. *)
TypeOK ==
  /\ \A f \in Files : disk[f].v \in 0..(MaxActs + 1) /\ disk[f].marks \subseteq Marks
  /\ worker.marks \subseteq Marks /\ worker.named \in Nat /\ worker.alive \in BOOLEAN
  /\ open \in Files \cup {NoFile} /\ serving \in BOOLEAN /\ pumping \in BOOLEAN
  /\ \A i \in DOMAIN pending : pending[i].op \in Ops /\ pending[i].kind \in {"edit", "undo", "redo"}
  /\ deferred \in Seq(Ops) /\ events \in Seq(BOOLEAN)
  /\ reader.undo \in Seq(Ops) /\ reader.redo \in Seq(Ops)
  /\ journal.written \in 0..MaxEntries
  /\ own.entries # <<>> => Len(own.entries) = journal.written \/ ~journal.on
  /\ log \in Seq(Edits)
  /\ skew \subseteq {"refusal", "quiet commit"}

(* Answers carry no name: the queue of edits in flight says whose each is.  *)
(* What the link has told and been asked, in order, holds the answers owed: *)
(* its n-th mutation, answered or not, is the n-th of those pending, and    *)
(* there are as many form events as the reader waits for.  Once the thread  *)
(* has ended what it had not read is owed nothing, and the fatal answer     *)
(* clears the queues.                                                       *)
Said == told \o asks
IsEdit(m) == m.k \in {"applied", "refused", "apply", "undo"}
OpOf(m) == IF m.k = "applied" THEN m.did ELSE m.op
EditsSaid == {i \in DOMAIN Said : IsEdit(Said[i])}
FormsSaid == {i \in DOMAIN Said : Said[i].k = "form"}
UpTo(S, i) == Cardinality({j \in S : j <= i})

PairedAnswers ==
  /\ \A i \in EditsSaid : /\ UpTo(EditsSaid, i) \in DOMAIN pending
                         /\ pending[UpTo(EditsSaid, i)].op = OpOf(Said[i])
  /\ serving => /\ Cardinality(EditsSaid) = Len(pending)
                /\ Cardinality(FormsSaid) = Len(events)

Idle == asks = <<>> /\ told = <<>> /\ pending = <<>> /\ deferred = <<>> /\ ~pumping

(* A transaction names the revision it will meet: it is refused for a       *)
(* conflict only behind a refusal, or behind a commit of an event that was  *)
(* not supposed to commit (app.rs expected_revision, form_flow.rs).         *)
ConflictHasCause ==
  \A i \in DOMAIN told :
    told[i].k = "refused" /\ told[i].why = "conflict" /\ told[i].was = "apply"
      => told[i].behind # {}

(* Each answer is taken for that of its own edit, and no edit is refused for *)
(* a rival it did not have.                                                 *)
AnswersTrue == PairedAnswers /\ ConflictHasCause

(* A journal that names no mark of its own run comes back whole: once all   *)
(* its edits are answered the document is what the journal makes of it, none *)
(* refused and none applied where it was not meant (app.rs                  *)
(* restore_reader_edits).                                                   *)
RestoredWhole ==
  promise.made /\ ~promise.names /\ Idle /\ open # NoFile
    => worker.marks = promise.marks /\ worker.field = promise.field

(* The journal does what it promises: see DurableEdits. *)
Entry(e) == [rev |-> e.rev, op |-> e.op]
Kept == [i \in DOMAIN own.entries |-> Entry(own.entries[i])]
Covered == journal.on /\ ~journal.full

Durable == INSTANCE DurableEdits WITH log <- log, kept <- Kept, covered <- Covered

JournalKeepsUp == Durable!Spec

(* Every mutation is answered, or the reader learns that none will be.      *)
AnswersCome == (pending # <<>> \/ deferred # <<>>) ~> (pending = <<>> /\ deferred = <<>>)
=============================================================================
