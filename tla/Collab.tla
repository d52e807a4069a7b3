------------------------------- MODULE Collab -------------------------------
(***************************************************************************)
(* One block of a document edited in real time: the pages that share its   *)
(* Y.Doc (assets/js/collab.js, mountCollab of rich_text.js), their         *)
(* channels (KilnCMSWeb.CollabChannel) and the room's server               *)
(* (KilnCMS.Collab.DocServer).                                             *)
(*                                                                         *)
(* A Yjs document is the set of operations it has; merging is union.  The  *)
(* stored HTML enters as one operation, the seed.  Phoenix's channels are  *)
(* the environment: ordered, rejoined after every loss, and what a page    *)
(* could not push is among what it sends back when it rejoins.             *)
(***************************************************************************)
EXTENDS Naturals, Sequences, FiniteSets

CONSTANTS
    Peers,      \* the pages
    MaxWords,   \* how many words are typed
    MaxTrouble  \* how often a connection closes under an open page, a join is
                \* refused, a record's write is skipped, or the room's server dies

ASSUME TroubleAssumption == MaxTrouble \in Nat

VARIABLES
    page,       \* each page: its document, its channel, what whenReady gave
    session,    \* the number of each page's channel process, 0 when it has none
    up, down,   \* the frames on their way, per page
    room,       \* the DocServer
    saved,      \* what the database has: the checkpoint, and the record's blocks
    words,      \* the words typed
    strays,     \* the seeds that were not in a room whose next page was told it
                \* is first, and those of pages a refusal left alone
    abandoned,  \* what closed with a page whose connection was down
    crashed,    \* whether a room's server died without terminate
    joins, trouble

collabVars == <<page, session, up, down, room, saved, words, strays, abandoned,
                crashed, joins, trouble>>

Seed(p) == <<"seed", p>>
Word(n) == <<"word", n>>
Ops == {Seed(p) : p \in Peers} \union {Word(n) : n \in 1..MaxWords}
Seeds(ops) == {op \in ops : op[1] = "seed"}

\* acquireDoc has not run, or release has.
NoPage == [state |-> "closed", doc |-> {}, ready |-> "no"]
Unborn == [NoPage EXCEPT !.state = "unborn"]
IsOpen(p) == page[p].state \in {"joining", "joined"}
Mounted(p) == IsOpen(p) /\ page[p].ready # "no"

\* dirty is dirty?, what the checkpoint lacks; unwritten is materialize_dirty?.
NoRoom == [alive |-> FALSE, doc |-> {}, clients |-> {}, dirty |-> FALSE, unwritten |-> FALSE]

Update(ops) == [kind |-> "update", ops |-> ops, peers |-> 0]
JoinOk(ops, peers) == [kind |-> "ok", ops |-> ops, peers |-> peers]
Frames == [kind : {"update", "ok"}, ops : SUBSET Ops, peers : Nat]

CollabInit ==
    /\ page = [p \in Peers |-> Unborn]
    /\ session = [p \in Peers |-> 0]
    /\ up = [p \in Peers |-> <<>>] /\ down = [p \in Peers |-> <<>>]
    /\ room = NoRoom
    /\ saved = [checkpoint |-> {}, record |-> {}]
    /\ words = {} /\ strays = {} /\ abandoned = {}
    /\ crashed = FALSE
    /\ joins = 0 /\ trouble = 0

Troubled == trouble < MaxTrouble /\ trouble' = trouble + 1

(***************************************************************************)
(* The page.                                                               *)
(***************************************************************************)

\* acquireDoc: a new document, and a join.
Acquire(p) ==
    /\ page[p].state = "unborn"
    /\ page' = [page EXCEPT ![p].state = "joining"]
    /\ UNCHANGED <<session, up, down, room, saved, words, strays, abandoned, crashed, joins, trouble>>

\* whenReady resolves once; the hook that waited for it mounts its editor, and
\* seeds an empty fragment when it was told it is first.
Ready(p, pg, first) ==
    IF pg.ready # "no" THEN pg
    ELSE [pg EXCEPT !.ready = IF first THEN "first" ELSE "later",
                    !.doc = IF first /\ @ = {} THEN {Seed(p)} ELSE @]

Sent(p, ops) == IF ops = {} THEN up ELSE [up EXCEPT ![p] = Append(@, Update(ops))]

\* Mutant: the page takes the room's state and gives nothing back.
HearJoin_TakesOnly(p) ==
    LET frame == Head(down[p])
        merged == [page[p] EXCEPT !.state = "joined", !.doc = @ \union frame.ops]
    IN  /\ IsOpen(p) /\ down[p] # <<>> /\ frame.kind = "ok"
        /\ page' = [page EXCEPT ![p] = Ready(p, merged, frame.peers = 1)]
        /\ down' = [down EXCEPT ![p] = Tail(@)]
        /\ UNCHANGED <<up, session, room, saved, words, strays, abandoned, crashed, joins, trouble>>

\* The join's ok: the room's state is merged in, and what the room lacks goes
\* back, a seed just made included.
HearJoin(p) ==
    LET frame == Head(down[p])
        merged == [page[p] EXCEPT !.state = "joined", !.doc = @ \union frame.ops]
        ready == Ready(p, merged, frame.peers = 1)
    IN  /\ IsOpen(p) /\ down[p] # <<>> /\ frame.kind = "ok"
        /\ page' = [page EXCEPT ![p] = ready]
        /\ up' = Sent(p, ready.doc \ frame.ops)
        /\ down' = [down EXCEPT ![p] = Tail(@)]
        /\ UNCHANGED <<session, room, saved, words, strays, abandoned, crashed, joins, trouble>>

\* A peer's update.
HearUpdate(p) ==
    /\ IsOpen(p) /\ down[p] # <<>> /\ Head(down[p]).kind = "update"
    /\ page' = [page EXCEPT ![p].doc = @ \union Head(down[p]).ops]
    /\ down' = [down EXCEPT ![p] = Tail(@)]
    /\ UNCHANGED <<session, up, room, saved, words, strays, abandoned, crashed, joins, trouble>>

\* A word is typed: pushLocal sends what did not come from the room.
TypeWord(p) ==
    LET word == Word(Cardinality(words) + 1)
    IN  /\ Mounted(p) /\ word \in Ops
        /\ words' = words \union {word}
        /\ page' = [page EXCEPT ![p].doc = @ \union {word}]
        /\ up' = IF page[p].state = "joined" THEN Sent(p, {word}) ELSE up
        /\ UNCHANGED <<session, down, room, saved, strays, abandoned, crashed, joins, trouble>>

\* release, over a channel that is joined: what was pushed arrives first.
Release(p) ==
    /\ page[p].state = "joined"
    /\ page' = [page EXCEPT ![p] = NoPage]
    /\ down' = [down EXCEPT ![p] = <<>>]
    /\ UNCHANGED <<session, up, room, saved, words, strays, abandoned, crashed, joins, trouble>>

\* The page is closed before its channel is joined (again).
CloseOffline(p) ==
    /\ page[p].state = "joining"
    /\ abandoned' = abandoned \union page[p].doc
    /\ page' = [page EXCEPT ![p] = NoPage]
    /\ session' = [session EXCEPT ![p] = 0]
    /\ down' = [down EXCEPT ![p] = <<>>]
    /\ UNCHANGED <<up, room, saved, words, strays, crashed, joins, trouble>>

(***************************************************************************)
(* The channel.                                                            *)
(***************************************************************************)

\* ensure_server and the lazy restore.
LiveRoom ==
    IF room.alive THEN room ELSE [NoRoom EXCEPT !.alive = TRUE, !.doc = saved.checkpoint]

\* The page's own seed, and those of the other pages, that the room never saw.
LeftBehind(p, doc) == Seeds(UNION {page[q].doc : q \in Peers}) \ doc

\* join: authorised, attached, answered with the state and the number of clients.
Join(p) ==
    LET doc == LiveRoom.doc
        clients == LiveRoom.clients \union {joins + 1}
        first == Cardinality(clients) = 1
    IN  /\ page[p].state = "joining" /\ session[p] = 0
        /\ joins' = joins + 1
        /\ session' = [session EXCEPT ![p] = joins + 1]
        /\ room' = [LiveRoom EXCEPT !.clients = clients]
        /\ down' = [down EXCEPT ![p] = <<JoinOk(doc, Cardinality(clients))>>]
        /\ strays' = IF first THEN strays \union LeftBehind(p, doc) ELSE strays
        /\ UNCHANGED <<page, up, saved, words, abandoned, crashed, trouble>>

\* Mutant: a page that is told to come back later seeds all the same.
JoinRefused_AnyReason(p, reason) ==
    /\ page[p].state = "joining" /\ session[p] = 0
    /\ Troubled
    /\ page' = [page EXCEPT ![p] = Ready(p, @, TRUE)]
    /\ strays' = IF reason = "over budget" THEN strays ELSE strays \union Seeds(page'[p].doc)
    /\ UNCHANGED <<session, up, down, room, saved, words, abandoned, crashed, joins>>

\* A refusal: "over budget" is waited out, any other leaves the page a lone
\* editor.  phoenix.js joins again in either case.
JoinRefused(p, reason) ==
    /\ page[p].state = "joining" /\ session[p] = 0
    /\ Troubled
    /\ IF reason = "over budget" THEN UNCHANGED <<page, strays>>
       ELSE /\ page' = [page EXCEPT ![p] = Ready(p, @, TRUE)]
            /\ strays' = strays \union Seeds(page'[p].doc)
    /\ UNCHANGED <<session, up, down, room, saved, words, abandoned, crashed, joins>>

\* apply_update and mark_dirty, which leaves a room alone whose checkpoint is due.
Merged(ops) ==
    [room EXCEPT !.doc = @ \union ops, !.dirty = TRUE, !.unwritten = @ \/ ~room.dirty]

\* A frame: applied and relayed; or the server it was attached to is gone, and
\* the channel crashes.
Receive(p) ==
    LET frame == Head(up[p])
        heard == {q \in Peers \ {p} : session[q] # 0 /\ IsOpen(q)}
    IN  /\ session[p] # 0 /\ up[p] # <<>>
        /\ IF session[p] \in room.clients
           THEN /\ room' = Merged(frame.ops)
                /\ up' = [up EXCEPT ![p] = Tail(@)]
                /\ down' = [q \in Peers |-> IF q \in heard THEN Append(down[q], frame)
                                            ELSE down[q]]
                /\ UNCHANGED <<page, session>>
           ELSE /\ up' = [up EXCEPT ![p] = <<>>] /\ down' = [down EXCEPT ![p] = <<>>]
                /\ session' = [session EXCEPT ![p] = 0]
                /\ page' = IF IsOpen(p) THEN [page EXCEPT ![p].state = "joining"] ELSE page
                /\ UNCHANGED room
        /\ UNCHANGED <<saved, words, strays, abandoned, crashed, joins, trouble>>

\* The connection closes: the line failed, or a frame was over budget, or the
\* periodic check refused the room.  What was on it is lost.
Close(p) ==
    /\ IsOpen(p) /\ session[p] # 0 /\ Troubled
    /\ session' = [session EXCEPT ![p] = 0]
    /\ page' = [page EXCEPT ![p].state = "joining"]
    /\ up' = [up EXCEPT ![p] = <<>>] /\ down' = [down EXCEPT ![p] = <<>>]
    /\ UNCHANGED <<room, saved, words, strays, abandoned, crashed, joins>>

\* The channel of a released page has read its frames.
ChannelEnds(p) ==
    /\ ~IsOpen(p) /\ session[p] # 0 /\ up[p] = <<>>
    /\ session' = [session EXCEPT ![p] = 0]
    /\ UNCHANGED <<page, up, down, room, saved, words, strays, abandoned, crashed, joins, trouble>>

(***************************************************************************)
(* The room.                                                               *)
(***************************************************************************)

\* The merged text is written into the record, when the room says it changed.
Materialized(r) == IF r.unwritten THEN [saved EXCEPT !.record = r.doc] ELSE saved

\* Or write_back skips it: the document is gone or no draft, or another save came
\* between.  The room takes it for written.
Skipped == room.unwritten /\ Troubled

\* A client's process is gone; with the last one the room writes the record.
ClientDown(client) ==
    LET left == room.clients \ {client}
    IN  /\ room.alive /\ client \in room.clients
        /\ client \notin {session[p] : p \in Peers}
        /\ room' = [room EXCEPT !.clients = left, !.unwritten = @ /\ left # {}]
        /\ \/ /\ saved' = IF left = {} THEN Materialized(room) ELSE saved
              /\ UNCHANGED trouble
           \/ left = {} /\ Skipped /\ UNCHANGED saved
        /\ UNCHANGED <<page, session, up, down, words, strays, abandoned, crashed, joins>>

Persisted(r, s) == IF r.dirty THEN [s EXCEPT !.checkpoint = r.doc] ELSE s

Checkpoint ==
    /\ room.alive /\ room.dirty
    /\ saved' = Persisted(room, saved)
    /\ room' = [room EXCEPT !.dirty = FALSE]
    /\ UNCHANGED <<page, session, up, down, words, strays, abandoned, crashed, joins, trouble>>

\* Idle without clients: terminate persists and materializes.
IdleStop ==
    /\ room.alive /\ room.clients = {}
    /\ \/ saved' = Persisted(room, Materialized(room)) /\ UNCHANGED trouble
       \/ saved' = Persisted(room, saved) /\ Skipped
    /\ room' = NoRoom
    /\ UNCHANGED <<page, session, up, down, words, strays, abandoned, crashed, joins>>

\* The process dies as it is: killed, or the checkpoint's write raised, and then
\* terminate's.
RoomDies ==
    /\ room.alive /\ Troubled
    /\ room' = NoRoom /\ crashed' = TRUE
    /\ UNCHANGED <<page, session, up, down, saved, words, strays, abandoned, joins>>

CollabNext ==
    \/ \E p \in Peers :
          \/ Acquire(p) \/ HearJoin(p) \/ HearUpdate(p) \/ TypeWord(p)
          \/ Release(p) \/ CloseOffline(p)
          \/ Join(p) \/ Receive(p) \/ Close(p) \/ ChannelEnds(p)
          \/ \E reason \in {"over budget", "unavailable"} : JoinRefused(p, reason)
    \/ \E client \in 1..joins : ClientDown(client)
    \/ Checkpoint \/ IdleStop \/ RoomDies

CollabSpec == CollabInit /\ [][CollabNext]_collabVars

\* Frames arrive, joins are answered and retried.
CollabFairness ==
    \A p \in Peers :
        /\ WF_collabVars(HearJoin(p)) /\ WF_collabVars(HearUpdate(p))
        /\ WF_collabVars(Join(p)) /\ WF_collabVars(Receive(p))

(***************************************************************************)
(* Properties.                                                             *)
(***************************************************************************)

CollabTypeOK ==
    /\ page \in [Peers -> [state : {"unborn", "joining", "joined", "closed"},
                           doc : SUBSET Ops, ready : {"no", "first", "later"}]]
    /\ session \in [Peers -> 0..joins]
    /\ up \in [Peers -> Seq(Frames)] /\ down \in [Peers -> Seq(Frames)]
    /\ room \in [alive : BOOLEAN, doc : SUBSET Ops, clients : SUBSET (1..joins),
                 dirty : BOOLEAN, unwritten : BOOLEAN]
    /\ saved \in [checkpoint : SUBSET Ops, record : SUBSET Ops]
    /\ words \subseteq Ops /\ strays \subseteq Ops /\ abandoned \subseteq Ops
    /\ crashed \in BOOLEAN /\ joins \in Nat /\ trouble \in 0..MaxTrouble

\* The stored text is in the room once.  Two pages seed it only when the first
\* one's seed is elsewhere: it was on a connection that closed, in a room that
\* died, or made by a page that a refusal other than "over budget" left alone.
SeededOnce ==
    \/ crashed
    \/ \A ops \in {room.doc, saved.checkpoint, saved.record} :
          Cardinality(Seeds(ops) \ strays) <= 1

\* A word is in a page that is open, on its way, in the room, or in the
\* database, which may be in the checkpoint alone, unless a page was closed while
\* its connection was down or the room's server died.
KeepsWords ==
    \A word \in words \ abandoned :
        \/ crashed
        \/ \E p \in Peers : word \in page[p].doc \/ \E i \in 1..Len(up[p]) : word \in up[p][i].ops
        \/ word \in room.doc \union saved.checkpoint \union saved.record

\* A word ends in the room, for a page that stays open.
WordsReachTheRoom ==
    \A p \in Peers, n \in 1..MaxWords :
        Word(n) \in page[p].doc ~> (Word(n) \in room.doc \/ ~IsOpen(p) \/ crashed)
=============================================================================
