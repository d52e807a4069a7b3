---------------------------- MODULE DraftEditing ----------------------------
(***************************************************************************)
(* One draft, one of its rich-text blocks, and the sessions that have it   *)
(* open in the content editor with real-time collaboration off (the        *)
(* default): each session is a browser (assets/js/rich_text.js and the     *)
(* RichText hook of app.js), its LiveView process (ContentEditorLive and   *)
(* its Session hooks) and the line between them.  The processes share the  *)
(* record, whose saves are judged by an optimistic lock, and the advisory  *)
(* field lock with its takeover.                                           *)
(*                                                                         *)
(* A document is the set of edits it shows: every message that carries one *)
(* carries it whole, so what matters is which edits it lacks.              *)
(***************************************************************************)
EXTENDS Naturals, Sequences, FiniteSets

CONSTANTS
    Sessions,    \* the people who have the draft open, one tab each
    Nobody,      \* no holder, no requester
    MaxEdits,    \* how many edits they type in all
    MaxEvents    \* how many times, in all, somebody types, asks for a held
                 \* field or presses Save, or a line drops

ASSUME SessionsAssumption == Nobody \notin Sessions
ASSUME BoundsAssumption == MaxEdits \in Nat /\ MaxEvents \in Nat

\* The edits, numbered in the order they are typed in.
Edits == 1..MaxEdits

VARIABLES
    record,     \* the row: its lock_version and the block's text
    browser,    \* the hook's state on each page
    line,       \* "up" or "down", per session
    wire,       \* what the browser pushed and the process has not handled
    server,     \* each session's LiveView process
    lock,       \* the block's field lock: its holder, the requester waiting for
                \* it, and for each whether the process it means is gone
    typed,      \* the edits each author made
    everSaved,  \* the edits some save wrote
    told,       \* the edits whose author was told they are not saved
    remounted,  \* the edits a rejoin dropped by remounting the block's host
    events      \* those counted by MaxEvents

pageVars == <<browser, line, wire>>
ledgerVars == <<typed, told, remounted>>
vars == <<record, browser, line, wire, server, lock, typed, everSaved,
          told, remounted, events>>

\* An edit waits for the autosave timer; or a Save that was refused has cancelled
\* it (still :pending in the code); or the last autosave was refused.
Unsettled == {"pending", "held", "error"}

SaveStates == {"saved", "unsaved"} \union Unsettled

Body(text) == [kind |-> "body", text |-> text]
\* The text is what the block showed when it answered; only the properties about
\* takeovers read it.
BodyFlushed(text) == [kind |-> "flushed", text |-> text]
SaveEvent == [kind |-> "save", text |-> {}]

Message == [kind : {"body", "flushed", "save"}, text : SUBSET Edits]

(***************************************************************************)
(* A fresh LiveView process: the form, the rich-text bodies and the lock   *)
(* basis all come from the row, and no editor host was remounted yet.      *)
(***************************************************************************)
Mounted(row) ==
    [alive |-> TRUE, rec |-> row.ver, form |-> row.ver, text |-> row.text,
     state |-> "saved", conflict |-> FALSE, flushing |-> FALSE,
     asked |-> FALSE, focus |-> FALSE, gen |-> 0]

(***************************************************************************)
(* A fresh RichText host: the editor shows the rendered content.  The      *)
(* version it remembers matters only while the line is down; it is 0 while *)
(* the line is up.                                                         *)
(***************************************************************************)
FreshHost(text, gen, locked) ==
    [text |-> text, pending |-> FALSE, edited |-> FALSE,
     version |-> 0, gen |-> gen, locked |-> locked]

HeldFrom(s) == lock.holder \notin {Nobody, s}

Init ==
    /\ record = [ver |-> 0, text |-> {}]
    /\ browser = [s \in Sessions |-> FreshHost({}, 0, FALSE)]
    /\ line = [s \in Sessions |-> "up"]
    /\ wire = [s \in Sessions |-> <<>>]
    /\ server = [s \in Sessions |-> Mounted(record)]
    /\ lock = [holder |-> Nobody, gone |-> FALSE, taker |-> Nobody, takerGone |-> FALSE]
    /\ typed = [s \in Sessions |-> {}]
    /\ everSaved = {} /\ told = {} /\ remounted = {}
    /\ events = 0

(***************************************************************************)
(* The browser.                                                            *)
(***************************************************************************)

Counted == events < MaxEvents /\ events' = events + 1

\* onUpdate: the document changes and the 300 ms debounce starts over.  The
\* block must look editable; nobody types between asking for the lock and its
\* answer, or in the instant a remount is on its way (both named in README).
Type(s, e) ==
    /\ e = Cardinality(UNION {typed[t] : t \in Sessions}) + 1
    /\ Counted
    /\ ~browser[s].locked
    /\ line[s] = "up" => lock.taker # s /\ server[s].gen = browser[s].gen
    /\ typed' = [typed EXCEPT ![s] = @ \union {e}]
    /\ browser' = [browser EXCEPT ![s].text = @ \union {e}, ![s].pending = TRUE, ![s].edited = TRUE]
    /\ UNCHANGED <<record, line, wire, server, lock, everSaved, told,
                   remounted>>

\* What pushBody sends: the whole document, or nothing over a dropped line.
Pushed(s, more) ==
    IF line[s] = "up" THEN [wire EXCEPT ![s] = @ \o more] ELSE wire

Settled(b) == [b EXCEPT !.pending = FALSE]

\* The debounce fires.
PushBody(s) ==
    /\ browser[s].pending
    /\ wire' = Pushed(s, <<Body(browser[s].text)>>)
    /\ browser' = [browser EXCEPT ![s] = Settled(@)]
    /\ UNCHANGED <<record, line, server, lock, ledgerVars, everSaved,
                   events>>

\* The pending push, sent ahead of whatever the browser sends next.
PendingBody(s) ==
    IF browser[s].pending THEN <<Body(browser[s].text)>> ELSE <<>>

FlushedHost(s) == IF browser[s].pending THEN Settled(browser[s]) ELSE browser[s]

\* Save: the mousedown settles the debounce, then the click's event follows
\* on the same channel.  The button is disabled during a conflict.
PressSave(s) ==
    /\ line[s] = "up" /\ ~server[s].conflict
    /\ wire' = Pushed(s, PendingBody(s) \o <<SaveEvent>>)
    /\ browser' = [browser EXCEPT ![s] = FlushedHost(s)]
    /\ Counted
    /\ UNCHANGED <<record, line, server, lock, ledgerVars, everSaved>>

\* Mutant: the block answers before its debounce has pushed.
HearFlush_AnswersFirst(s) ==
    /\ line[s] = "up" /\ server[s].asked
    /\ wire' = Pushed(s, <<BodyFlushed(browser[s].text)>>)
    /\ server' = [server EXCEPT ![s].asked = FALSE]
    /\ UNCHANGED <<record, browser, line, lock, ledgerVars, everSaved, events>>

\* flush_body: the holder's block hands over what its debounce still keeps,
\* then answers.
HearFlush(s) ==
    /\ line[s] = "up" /\ server[s].asked
    /\ wire' = Pushed(s, PendingBody(s) \o <<BodyFlushed(browser[s].text)>>)
    /\ browser' = [browser EXCEPT ![s] = FlushedHost(s)]
    /\ server' = [server EXCEPT ![s].asked = FALSE]
    /\ UNCHANGED <<record, line, lock, ledgerVars, everSaved, events>>

\* The process's last render reaches the page: the lock on the host, or a new
\* host when the editor generation moved.
Patch(s) ==
    LET shown == [browser[s] EXCEPT !.locked = HeldFrom(s)]
        fresh == FreshHost(server[s].text, server[s].gen, HeldFrom(s))
        next == IF server[s].gen = browser[s].gen THEN shown ELSE fresh
    IN  /\ line[s] = "up" /\ server[s].alive
        /\ next # browser[s]
        /\ browser' = [browser EXCEPT ![s] = next]
        /\ UNCHANGED <<record, line, wire, server, lock, ledgerVars,
                       everSaved, events>>

(***************************************************************************)
(* The process: saving.                                                    *)
(***************************************************************************)

Others(s) == Sessions \ {s}

\* submit through the optimistic lock, judged on the version it is given: the
\* row takes the session's text, or the session is told it changed elsewhere.
Submitted(s, basis) ==
    IF basis = record.ver
    THEN [row |-> [ver |-> record.ver + 1, text |-> server[s].text],
          proc |-> [server[s] EXCEPT !.rec = record.ver + 1, !.form = record.ver + 1,
                                     !.state = "saved"],
          wrote |-> server[s].text, lost |-> {}]
    ELSE [row |-> record,
          proc |-> [server[s] EXCEPT !.conflict = TRUE, !.state = "unsaved"],
          wrote |-> {}, lost |-> server[s].text]

\* A submission refused for another reason than a stale row (a validation, the
\* database): nothing is written and no conflict raised, and the process is left
\* in the save state after.
Refused(s, after) ==
    [row |-> record, proc |-> [server[s] EXCEPT !.state = after],
     wrote |-> {}, lost |-> {}]

\* What may come of a submission.
Submissions(s, basis, after) == {Submitted(s, basis), Refused(s, after)}

\* {:record_saved, _} from another session: adopt the row as the lock's basis
\* when nothing is in flight here; the form and the bodies stay as they are.
Adopted(p, row) ==
    IF p.alive /\ p.state = "saved" THEN [p EXCEPT !.rec = row.ver] ELSE p

\* What a submission leaves behind.  The others hear of a save at once: one that
\* heard of it after its own next edit behaves as if the edit had come first.
Recorded(s, done) ==
    /\ record' = done.row
    /\ everSaved' = everSaved \union done.wrote
    /\ told' = told \union (done.lost \ (everSaved \union done.wrote))

Processes(s, done) ==
    [t \in Sessions |-> IF t = s THEN done.proc
                        ELSE IF done.row = record THEN server[t]
                        ELSE Adopted(server[t], done.row)]

\* The autosave timer: the throwaway form is built on @record.  A refused one is
\* not retried until the next edit.
Autosave(s) ==
    /\ server[s].alive /\ server[s].state = "pending"
    /\ \E done \in Submissions(s, server[s].rec, "error") :
         server' = Processes(s, done) /\ Recorded(s, done)
    /\ UNCHANGED <<pageVars, lock, typed, remounted, events>>

\* Mutant: a reload leaves a state that the save indicator does not know.
Reloaded_Unknown(p, row) ==
    [p EXCEPT !.rec = row.ver, !.form = row.ver, !.text = row.text,
              !.state = "clean", !.conflict = FALSE, !.gen = @ + 1]

\* reload_latest: everything from the row, and a new generation of hosts.
Reloaded(p, row) ==
    [p EXCEPT !.rec = row.ver, !.form = row.ver, !.text = row.text,
              !.state = "saved", !.conflict = FALSE, !.gen = @ + 1]

\* The author discards what the conflict refused.  The click comes after the
\* debounce of anything typed before it.
ReloadConflict(s) ==
    /\ line[s] = "up" /\ wire[s] = <<>> /\ server[s].conflict
    /\ ~browser[s].pending
    /\ server' = [server EXCEPT ![s] = Reloaded(@, record)]
    /\ told' = told \union (browser[s].text \ everSaved)
    /\ UNCHANGED <<record, pageVars, lock, typed, everSaved, remounted,
                   events>>

(***************************************************************************)
(* The field lock.                                                         *)
(***************************************************************************)

\* acquire: a free field, the holder's own, or the one of a tab that is gone.
Acquired(s) ==
    IF lock.holder = Nobody \/ (lock.holder = s /\ lock.gone)
    THEN [lock EXCEPT !.holder = s, !.gone = FALSE] ELSE lock

Focus(s) ==
    /\ line[s] = "up" /\ wire[s] = <<>> /\ ~server[s].focus
    /\ server' = [server EXCEPT ![s].focus = TRUE]
    /\ lock' = Acquired(s)
    /\ UNCHANGED <<record, pageVars, ledgerVars, everSaved, events>>

\* Blur lets go of a field this very process holds.
Blur(s) ==
    /\ line[s] = "up" /\ wire[s] = <<>> /\ server[s].focus
    /\ server' = [server EXCEPT ![s].focus = FALSE]
    /\ lock' = IF lock.holder = s /\ ~lock.gone THEN [lock EXCEPT !.holder = Nobody]
               ELSE lock
    /\ UNCHANGED <<record, pageVars, ledgerVars, everSaved, events>>

\* Fifteen idle minutes, or the grace after the holder's tab went, end a hold.
\* A takeover in flight stays in flight.
HoldEnds ==
    /\ lock.holder # Nobody
    /\ lock' = [lock EXCEPT !.holder = Nobody, !.gone = FALSE]
    /\ UNCHANGED <<record, pageVars, server, ledgerVars, everSaved, events>>

\* The dialog's takeover: at once when the field is free or its tab gone, by
\* replacing an earlier asker, or by asking the holder to flush.
Takeover(s) ==
    /\ line[s] = "up" /\ wire[s] = <<>>
    /\ browser[s].locked /\ ~browser[s].pending
    /\ Counted
    /\ lock.holder # s /\ (lock.taker # s \/ lock.takerGone)
    /\ IF lock.holder = Nobody \/ lock.gone
       THEN lock' = [lock EXCEPT !.holder = s, !.gone = FALSE] /\ UNCHANGED server
       ELSE /\ lock' = [lock EXCEPT !.taker = s, !.takerGone = FALSE]
            /\ server' = IF lock.taker # Nobody THEN server
                         ELSE [server EXCEPT ![lock.holder].flushing = TRUE,
                                             ![lock.holder].asked = TRUE]
    /\ UNCHANGED <<record, pageVars, ledgerVars, everSaved>>

\* transfer: the requester gets the field; one with nothing in flight reloads
\* the row it finds.
Transferred(procs) ==
    IF lock.taker # Nobody /\ ~lock.takerGone /\ procs[lock.taker].state = "saved"
    THEN [procs EXCEPT ![lock.taker] = Reloaded(@, record')] ELSE procs

Granted ==
    IF lock.taker = Nobody THEN lock
    ELSE [holder |-> lock.taker, gone |-> lock.takerGone,
          taker |-> Nobody, takerGone |-> FALSE]

\* The holder did not answer within the lock's flush timeout.
FlushTimeout ==
    /\ lock.taker # Nobody
    /\ lock' = Granted
    /\ record' = record
    /\ server' = Transferred(server)
    /\ UNCHANGED <<pageVars, ledgerVars, everSaved, events>>

\* finish_flush: try to persist a pending autosave, then answer the lock whatever
\* came of it.
FinishFlush(s) ==
    /\ IF server[s].state \in {"pending", "held"}
       THEN \E done \in Submissions(s, server[s].rec, "error") :
              /\ Recorded(s, done)
              /\ server' = Transferred(
                   [Processes(s, done) EXCEPT ![s].flushing = FALSE])
       ELSE /\ UNCHANGED <<record, everSaved, told>>
            /\ server' = Transferred([server EXCEPT ![s].flushing = FALSE])
    /\ lock' = Granted

\* The client did not answer within 700 ms.
FlushFallback(s) ==
    /\ server[s].alive /\ server[s].flushing
    /\ FinishFlush(s)
    /\ UNCHANGED <<pageVars, typed, remounted, events>>

(***************************************************************************)
(* The process: what the browser pushed, in the order it pushed it.        *)
(***************************************************************************)

\* rich_text_body: the body replaces the one held here and the draft is dirty;
\* a keystroke takes back a lock that lapsed.
ReceiveBody(s, text) ==
    /\ server' = [server EXCEPT ![s].text = text, ![s].state = "pending"]
    /\ lock' = IF server[s].focus /\ lock.holder = Nobody THEN Acquired(s) ELSE lock
    /\ UNCHANGED <<record, everSaved, told>>

\* body_flushed, unless the fallback already answered.
ReceiveFlushed(s) ==
    IF server[s].flushing THEN FinishFlush(s)
    ELSE UNCHANGED <<record, server, lock, everSaved, told>>

\* save: cancels the autosave timer and submits the live form, whose basis is the
\* row it was built from; a refused one tells the author what to correct.
ReceiveSave(s) ==
    LET after == IF server[s].state = "pending" THEN "held" ELSE server[s].state
    IN  /\ \E done \in Submissions(s, server[s].form, after) :
              server' = Processes(s, done) /\ Recorded(s, done)
        /\ UNCHANGED lock

Receive(s) ==
    /\ line[s] = "up" /\ server[s].alive /\ wire[s] # <<>>
    /\ wire' = [wire EXCEPT ![s] = Tail(@)]
    /\ \/ Head(wire[s]).kind = "body" /\ ReceiveBody(s, Head(wire[s]).text)
       \/ Head(wire[s]).kind = "flushed" /\ ReceiveFlushed(s)
       \/ Head(wire[s]).kind = "save" /\ ReceiveSave(s)
    /\ UNCHANGED <<browser, line, typed, remounted, events>>

(***************************************************************************)
(* The line.                                                               *)
(***************************************************************************)

\* What was on its way is gone; the host keeps the version it showed while the
\* line was up, and the process may outlive its line for a while.
Drop(s) ==
    /\ line[s] = "up"
    /\ line' = [line EXCEPT ![s] = "down"]
    /\ wire' = [wire EXCEPT ![s] = <<>>]
    /\ server' = [server EXCEPT ![s].asked = FALSE]
    /\ browser' = [browser EXCEPT ![s].version = server[s].rec]
    /\ Counted
    /\ UNCHANGED <<record, lock, ledgerVars, everSaved>>

\* The process dies with its edits; the lock starts its holder's grace.
ProcessGone(s) ==
    /\ line[s] = "down" /\ server[s].alive
    /\ server' = [server EXCEPT ![s] = [Mounted(record) EXCEPT !.alive = FALSE]]
    /\ lock' = [lock EXCEPT !.gone = @ \/ lock.holder = s,
                            !.takerGone = @ \/ lock.taker = s]
    /\ UNCHANGED <<record, pageVars, ledgerVars, everSaved, events>>

\* Mutant: the saved words win without a word to the author.
KeptHost_Silently(s) ==
    IF record.ver = browser[s].version
    THEN /\ browser' = [browser EXCEPT ![s] =
                [Settled(@) EXCEPT !.version = 0, !.locked = HeldFrom(s)]]
         /\ wire' = [wire EXCEPT ![s] =
                IF browser[s].edited THEN <<Body(browser[s].text)>> ELSE @]
         /\ UNCHANGED <<told, remounted>>
    ELSE /\ browser' = [browser EXCEPT ![s] =
                FreshHost(record.text, @.gen, HeldFrom(s))]
         /\ UNCHANGED <<told, wire, remounted>>

\* Mutant: only a debounce that was still running is pushed after a rejoin.
KeptHost_PendingOnly(s) ==
    IF record.ver = browser[s].version
    THEN /\ browser' = [browser EXCEPT ![s] =
                [Settled(@) EXCEPT !.version = 0, !.locked = HeldFrom(s)]]
         /\ wire' = [wire EXCEPT ![s] = PendingBody(s)]
         /\ UNCHANGED <<told, remounted>>
    ELSE /\ browser' = [browser EXCEPT ![s] =
                FreshHost(record.text, @.gen, HeldFrom(s))]
         /\ told' = IF browser[s].edited THEN told \union (browser[s].text \ everSaved)
                    ELSE told
         /\ UNCHANGED <<wire, remounted>>

\* onReconnected, on a host that outlived the drop: the version is the one last
\* heard, so the words go up again; or it moved, and the saved ones win, aloud.
KeptHost(s) ==
    IF record.ver = browser[s].version
    THEN /\ browser' = [browser EXCEPT ![s] =
                [Settled(@) EXCEPT !.version = 0, !.locked = HeldFrom(s)]]
         /\ wire' = [wire EXCEPT ![s] =
                IF browser[s].edited THEN <<Body(browser[s].text)>> ELSE @]
         /\ UNCHANGED <<told, remounted>>
    ELSE /\ browser' = [browser EXCEPT ![s] =
                FreshHost(record.text, @.gen, HeldFrom(s))]
         /\ told' = IF browser[s].edited THEN told \union (browser[s].text \ everSaved)
                    ELSE told
         /\ UNCHANGED <<wire, remounted>>

\* A host of a later generation has no counterpart in a fresh mount, whose
\* generation is 0: it is replaced, with the words in it.
ReplacedHost(s) ==
    /\ browser' = [browser EXCEPT ![s] = FreshHost(record.text, 0, HeldFrom(s))]
    /\ remounted' = remounted \union (browser[s].text \ (everSaved \union told))
    /\ UNCHANGED <<wire, told>>

\* The line is back: a new process mounts from the database.
Rejoin(s) ==
    /\ line[s] = "down" /\ ~server[s].alive
    /\ line' = [line EXCEPT ![s] = "up"]
    /\ server' = [server EXCEPT ![s] = Mounted(record)]
    /\ IF browser[s].gen = 0 THEN KeptHost(s) ELSE ReplacedHost(s)
    /\ UNCHANGED <<record, lock, typed, everSaved, events>>

(***************************************************************************)
(* The specification.                                                      *)
(***************************************************************************)

SessionStep(s) ==
    \/ \E e \in Edits : Type(s, e)
    \/ PushBody(s) \/ PressSave(s) \/ HearFlush(s) \/ Patch(s)
    \/ Receive(s) \/ Autosave(s) \/ FlushFallback(s)
    \/ ReloadConflict(s) \/ Focus(s) \/ Blur(s) \/ Takeover(s)
    \/ Drop(s) \/ ProcessGone(s) \/ Rejoin(s)

Next == HoldEnds \/ FlushTimeout \/ \E s \in Sessions : SessionStep(s)

Spec == Init /\ [][Next]_vars

(***************************************************************************)
(* Timers fire, a process handles its mailbox, a page its patches, and a   *)
(* page whose line dropped rejoins (liveness.js revives it).  Nothing is   *)
(* assumed of people.                                                      *)
(***************************************************************************)
Fairness ==
    \A s \in Sessions :
        /\ WF_vars(PushBody(s)) /\ WF_vars(Receive(s)) /\ WF_vars(Autosave(s))
        /\ WF_vars(ProcessGone(s)) /\ WF_vars(Rejoin(s))

FairSpec == Spec /\ Fairness

(***************************************************************************)
(* Properties.                                                             *)
(***************************************************************************)

\* Every variable keeps its type.
TypeOK ==
    /\ record \in [ver : Nat, text : SUBSET Edits]
    /\ browser \in [Sessions -> [text : SUBSET Edits, pending : BOOLEAN,
                                 edited : BOOLEAN, version : Nat, gen : Nat, locked : BOOLEAN]]
    /\ line \in [Sessions -> {"up", "down"}]
    /\ wire \in [Sessions -> Seq(Message)]
    /\ server \in [Sessions -> [alive : BOOLEAN, rec : Nat, form : Nat,
                                text : SUBSET Edits, state : SaveStates,
                                conflict : BOOLEAN, flushing : BOOLEAN,
                                asked : BOOLEAN, focus : BOOLEAN, gen : Nat]]
    /\ lock \in [holder : Sessions \union {Nobody}, gone : BOOLEAN,
                 taker : Sessions \union {Nobody}, takerGone : BOOLEAN]
    /\ typed \in [Sessions -> SUBSET Edits]
    /\ everSaved \in SUBSET Edits /\ told \in SUBSET Edits /\ remounted \in SUBSET Edits
    /\ events \in 0..MaxEvents

\* What an author typed was saved, or is still in the author's editor, or the
\* author was told: whatever dropped, flushed, lapsed or was taken over, and
\* whoever saved meanwhile.  The comment over onReconnected (assets/js/rich_text.js)
\* says this of a dropped line; a host that a rejoin replaced because its editor
\* generation had moved is the only way to lose words in silence.
OnlyRemountsLose ==
    \A s \in Sessions :
        typed[s] \subseteq everSaved \union told \union remounted \union browser[s].text

\* The holder's page answers the flush, and the field goes to who asked for it.
AnsweredTakeover(s) ==
    /\ lock.taker # Nobody /\ lock.holder = s /\ lock'.holder = lock.taker
    /\ wire[s] # <<>> /\ Head(wire[s]).kind = "flushed" /\ wire'[s] = Tail(wire[s])
    /\ server[s].flushing /\ ~server'[s].flushing

\* What the holder is told of an answered takeover is true ({:lock_taken, _, _, _}
\* in content_editor/session.ex): where the note says that the changes are saved,
\* everything its block showed when it answered was written, or refused aloud
\* before; where it says that they are still in the form, they are.
TakeoverNoteIsTrue ==
    [][\A s \in Sessions : AnsweredTakeover(s) =>
         Head(wire[s]).text \subseteq everSaved' \union told' \union
             (IF server'[s].state = "saved" THEN {} ELSE server'[s].text)]_vars

\* The text of a session that saw a peer's save and keeps typing is never
\* written over it: a write keeps every edit that the row holds, unless its
\* author has the row's own text before the eyes.  The comment over
\* refresh_saved_record (content_editor_live.ex) rests on it.
NoSilentOverwrite == [][record.text \subseteq record'.text]_vars

\* The author's save was refused for what the form says, which holds the edit.
ShownUnsaved(s, e) == server[s].state \in {"error", "held"} /\ e \in server[s].text

\* Every edit ends: saved, refused aloud as a conflict, dropped with a replaced
\* host, or for ever in a form whose save state or flash says why it is not saved.
EveryEditSettles ==
    \A s \in Sessions, e \in Edits :
        e \in typed[s] ~> \/ e \in everSaved \union told \union remounted
                          \/ []ShownUnsaved(s, e)
=============================================================================
