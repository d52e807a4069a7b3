----------------------------- MODULE SyncMirror -----------------------------
(***************************************************************************)
(* A consumer mirroring a site's public content through the SDK's sync()   *)
(* (clients/js/src/client.ts) and GET /api/sync (KilnCMS.Firing.Sync).     *)
(*                                                                         *)
(* Editors publish, edit and withdraw documents while the pages of a poll  *)
(* are read.  A write's version carries the time at which it was inserted, *)
(* and shows when its transaction commits.  A document's artifact is fired *)
(* later, by a job.  The consumer stores the cursor a finished call gives  *)
(* it and applies the items in order.                                      *)
(***************************************************************************)
EXTENDS Naturals, FiniteSets

CONSTANTS
    MaxDoc,       \* documents are 1..MaxDoc, in keyset order
    Lag,          \* the commit lag, in ticks
    Limit,        \* items per page
    Retries,      \* 503s a call rides out per page
    MaxWrites,    \* how many writes editors make
    MaxTime,      \* the last tick
    MaxRotations, \* how often the server's secret is rotated
    MaxFailures   \* how often a request or a fire is lost, or the database away

ASSUME SyncAssumption ==
    /\ MaxDoc \in Nat /\ Limit \in Nat \ {0} /\ Retries \in Nat
    /\ MaxTime \in Nat /\ Lag \in 1..MaxTime
    /\ MaxWrites \in Nat /\ MaxRotations \in Nat /\ MaxFailures \in Nat

VARIABLES
    clock,      \* the time
    public,     \* what an anonymous reader may read now: a body, or Hidden
    fired,      \* the stored artifact of each document, or None
    firing,     \* the documents with a fire queued
    overdue,    \* those whose old artifact was left longer than the lag
    writing,    \* the writes inserted and not committed
    versions,   \* the times of each document's committed versions
    writes,     \* how many writes were made
    exposed,    \* the documents the sync API handed out (SyncExposure)
    mirror,     \* the consumer's copy
    stored,     \* the cursor the consumer keeps, or NoCursor
    call,       \* the sync() in progress
    rotations, failures

serverVars == <<public, fired, firing, overdue, writing, versions, writes>>
clientVars == <<mirror, stored, call>>
syncVars == <<clock, serverVars, exposed, clientVars, rotations, failures>>

Docs == 1..MaxDoc
Hidden == 0        \* nothing public, and no copy of it
None == 0          \* no artifact
Bodies == 1..(MaxWrites + 1)

(***************************************************************************)
(* Positions.  An initial one keeps when its snapshot began; a delta's     *)
(* until is 0 until its first page fixes it.                               *)
(***************************************************************************)
Initial(started, after) == [kind |-> "initial", since |-> started, until |-> 0, after |-> after]
Delta(since, until, after) == [kind |-> "delta", since |-> since, until |-> until, after |-> after]
NoCursor == [kind |-> "none", since |-> 0, until |-> 0, after |-> 0]

Position == [kind : {"none", "initial", "delta"}, since : 0..MaxTime,
             until : 0..MaxTime, after : 0..MaxDoc]

\* Mutant: a window that ends now.
Lagged_Now(at) == at

Lagged(at) == at - Lag

Untouched == [sent |-> FALSE, body |-> Hidden]
Upsert(body) == [sent |-> TRUE, body |-> body]
Tombstone == [sent |-> TRUE, body |-> Hidden]
Changes == [Docs -> [sent : BOOLEAN, body : {Hidden} \union Bodies]]

Idle == [busy |-> FALSE, position |-> NoCursor, changes |-> [d \in Docs |-> Untouched],
         attempt |-> 0]

NotWriting == [busy |-> FALSE, at |-> 0, body |-> Hidden]

\* A site whose documents are published and fired, or not published yet.
SyncInit ==
    /\ clock = Lag
    /\ public \in [Docs -> {Hidden, 1}]
    /\ fired = public
    /\ firing = {} /\ overdue = {}
    /\ writing = [d \in Docs |-> NotWriting]
    /\ versions = [d \in Docs |-> {0}]
    /\ writes = 0 /\ exposed = {} /\ rotations = 0 /\ failures = 0
    /\ mirror = [d \in Docs |-> Hidden]
    /\ stored = NoCursor
    /\ call = Idle

(***************************************************************************)
(* The site.                                                               *)
(***************************************************************************)

\* The documents with an old artifact at a time when a window may have closed
\* over their last version.
FallsDue(now) ==
    {d \in firing : fired[d] # None /\ \A at \in versions[d] : at + Lag <= now}

\* The lag covers every transaction, and no job: a fire may come at any time.
Tick ==
    /\ clock < MaxTime
    /\ \A d \in Docs : writing[d].busy => clock + 1 < writing[d].at + Lag
    /\ clock' = clock + 1
    /\ overdue' = overdue \union FallsDue(clock + 1)
    /\ UNCHANGED <<public, fired, firing, writing, versions, writes, exposed, clientVars,
                   rotations, failures>>

\* A version row is inserted: the document will show the body, or nothing.
BeginWrite(d, body) ==
    /\ writes < MaxWrites /\ clock + Lag < MaxTime
    /\ ~writing[d].busy
    /\ body = Hidden => public[d] # Hidden
    /\ writing' = [writing EXCEPT ![d] = [busy |-> TRUE, at |-> clock, body |-> body]]
    /\ writes' = writes + 1
    /\ UNCHANGED <<clock, public, fired, firing, overdue, versions, exposed, clientVars,
                   rotations, failures>>

\* Mutant: an edit of a live document that queues no fire.
CommitWrite_FiresOnce(d) ==
    LET body == writing[d].body
    IN  /\ writing[d].busy
        /\ writing' = [writing EXCEPT ![d] = NotWriting]
        /\ versions' = [versions EXCEPT ![d] = @ \union {writing[d].at}]
        /\ public' = [public EXCEPT ![d] = body]
        /\ fired' = IF body = Hidden THEN [fired EXCEPT ![d] = None] ELSE fired
        /\ overdue' = overdue \ {d}
        /\ firing' = IF body = Hidden \/ public[d] # Hidden THEN firing ELSE firing \union {d}
        /\ UNCHANGED <<clock, writes, exposed, clientVars, rotations, failures>>

\* The transaction commits: a withdrawal purges the artifacts, a publish or an
\* edit of a live document queues a fire and leaves the old artifact in place.
CommitWrite(d) ==
    LET body == writing[d].body
    IN  /\ writing[d].busy
        /\ writing' = [writing EXCEPT ![d] = NotWriting]
        /\ versions' = [versions EXCEPT ![d] = @ \union {writing[d].at}]
        /\ public' = [public EXCEPT ![d] = body]
        /\ fired' = IF body = Hidden THEN [fired EXCEPT ![d] = None] ELSE fired
        /\ overdue' = overdue \ {d}
        /\ firing' = IF body = Hidden THEN firing ELSE firing \union {d}
        /\ UNCHANGED <<clock, writes, exposed, clientVars, rotations, failures>>

\* FireWorker: fire what is published now, or purge what no longer is.
Fire(d) ==
    /\ d \in firing
    /\ firing' = firing \ {d}
    /\ fired' = [fired EXCEPT ![d] = public[d]]
    /\ UNCHANGED <<clock, public, overdue, writing, versions, writes, exposed, clientVars,
                   rotations, failures>>

Failed == failures < MaxFailures /\ failures' = failures + 1

\* A fire is given up: its three attempts failed, or its job could not be
\* inserted.  An old artifact stays until the next write.
FireFails(d) ==
    /\ d \in firing
    /\ Failed
    /\ firing' = firing \ {d}
    /\ overdue' = IF fired[d] = None THEN overdue ELSE overdue \union {d}
    /\ UNCHANGED <<clock, public, fired, writing, versions, writes, exposed, clientVars,
                   rotations>>

\* The secret that signs cursors is rotated: the stored one is refused with a
\* 400, and so is the one a call is paging with.
Rotate ==
    /\ rotations < MaxRotations /\ stored # NoCursor
    /\ rotations' = rotations + 1
    /\ stored' = NoCursor
    /\ call' = Idle
    /\ UNCHANGED <<clock, serverVars, exposed, mirror, failures>>

(***************************************************************************)
(* One page.                                                               *)
(***************************************************************************)

Visible == {d \in Docs : public[d] # Hidden}

\* The documents with a committed version in (since, until].
Changed(since, until) ==
    {d \in Docs : \E at \in versions[d] : since < at /\ at <= until}

\* A delta's first page fixes the end of its window.
Windowed(p) ==
    IF p.kind = "delta" /\ p.until = 0 THEN Delta(p.since, Lagged(clock), p.after) ELSE p

Unsettled(p) == p.kind = "delta" /\ p.until <= p.since

\* What is left to send, and the page taken from it: its first Limit rows.
Remaining(p) ==
    {d \in IF p.kind = "initial" THEN Visible ELSE Changed(p.since, p.until) : d > p.after}

Pages(p) ==
    {rows \in SUBSET Remaining(p) :
        /\ \A d \in rows : \A e \in Remaining(p) : e < d => e \in rows
        /\ Cardinality(rows) <= Limit
        /\ Cardinality(rows) < Limit => rows = Remaining(p)}

\* More is claimed when the page is full.
More(rows) == Cardinality(rows) >= Limit

\* The position after the last page.
Final(p) ==
    IF p.kind = "initial" THEN Delta(Lagged(p.since), 0, 0) ELSE Delta(p.until, 0, 0)

\* Current state decides: visible now is an upsert, else a tombstone if the sync
\* API ever disclosed it.
Item(d) ==
    IF d \in Visible THEN Upsert(fired[d])
    ELSE IF d \in exposed THEN Tombstone ELSE Untouched

Compiling(rows) == {d \in rows \intersect Visible : fired[d] = None}

(***************************************************************************)
(* One sync().                                                             *)
(***************************************************************************)

\* Without a cursor the snapshot starts now.
Poll ==
    /\ ~call.busy
    /\ call' = [Idle EXCEPT !.busy = TRUE,
                            !.position = IF stored = NoCursor THEN Initial(clock, 0) ELSE stored]
    /\ UNCHANGED <<clock, serverVars, exposed, mirror, stored, rotations, failures>>

\* Mutant: a snapshot that deletes nothing.
Applied_KeepsGhosts(changes, whole) ==
    [d \in Docs |-> IF changes[d].sent THEN changes[d].body ELSE mirror[d]]

\* The items of a finished call, applied in order; after a snapshot the consumer
\* deletes what it did not send.
Applied(changes, whole) ==
    [d \in Docs |-> IF changes[d].sent THEN changes[d].body
                    ELSE IF whole THEN Hidden ELSE mirror[d]]

Finish(changes, next) ==
    /\ mirror' = Applied(changes, call.position.kind = "initial")
    /\ stored' = next
    /\ call' = Idle

\* A page is answered, its disclosures recorded, and the call goes on or ends.
PageServed ==
    LET p == Windowed(call.position)
    IN  /\ call.busy /\ ~Unsettled(p)
        /\ \E rows \in Pages(p) :
              LET changes == [d \in Docs |-> IF d \in rows /\ Item(d).sent THEN Item(d)
                                             ELSE call.changes[d]]
              IN  /\ Compiling(rows) = {}
                  /\ exposed' = exposed \union (rows \intersect Visible)
                  /\ \/ /\ More(rows)
                        /\ \E last \in rows :
                              /\ \A d \in rows : d <= last
                              /\ call' = [busy |-> TRUE, changes |-> changes, attempt |-> 0,
                                          position |-> [p EXCEPT !.after = last]]
                        /\ UNCHANGED <<mirror, stored>>
                     \/ ~More(rows) /\ Finish(changes, Final(p))
        /\ UNCHANGED <<clock, serverVars, rotations, failures>>

\* Nothing can be settled yet: an empty page, and the position stays.
PageEmpty ==
    /\ call.busy /\ Unsettled(Windowed(call.position))
    /\ Finish(call.changes, Delta(call.position.since, 0, 0))
    /\ UNCHANGED <<clock, serverVars, exposed, rotations, failures>>

\* A 503 is waited out up to Retries times, then the call fails with its items.
Retried == call' = IF call.attempt < Retries THEN [call EXCEPT !.attempt = @ + 1] ELSE Idle

\* A document without its artifact: the page is refused whole, and every
\* missing fire of it queued.
PageCompiling ==
    LET p == Windowed(call.position)
    IN  /\ call.busy /\ ~Unsettled(p)
        /\ \E rows \in Pages(p) : /\ Compiling(rows) # {}
                                 /\ firing' = firing \union Compiling(rows)
        /\ Retried
        /\ UNCHANGED <<clock, public, fired, overdue, writing, versions, writes, exposed,
                       mirror, stored, rotations, failures>>

\* The database is away: a 503 of its own.
PageUnavailable ==
    /\ call.busy
    /\ Failed
    /\ Retried
    /\ UNCHANGED <<clock, serverVars, exposed, mirror, stored, rotations>>

\* A request or its answer is lost, after the page was served or before: the
\* call fails at once.
PageLost ==
    LET p == Windowed(call.position)
    IN  /\ call.busy
        /\ \/ exposed' = exposed
           \/ /\ ~Unsettled(p)
              /\ \E rows \in Pages(p) :
                    /\ Compiling(rows) = {}
                    /\ exposed' = exposed \union (rows \intersect Visible)
        /\ Failed
        /\ call' = Idle
        /\ UNCHANGED <<clock, serverVars, mirror, stored, rotations>>

SyncNext ==
    \/ Tick \/ Rotate \/ Poll \/ PageServed \/ PageEmpty \/ PageCompiling
    \/ PageUnavailable \/ PageLost
    \/ \E d \in Docs : CommitWrite(d) \/ Fire(d) \/ FireFails(d)
    \/ \E d \in Docs : \E body \in {Hidden, writes + 2} : BeginWrite(d, body)

SyncSpec == SyncInit /\ [][SyncNext]_syncVars

(***************************************************************************)
(* Transactions commit, jobs run, time passes, the consumer polls and is   *)
(* answered, and the database is not away for ever.                        *)
(***************************************************************************)
SyncFairness ==
    /\ WF_syncVars(Tick) /\ WF_syncVars(Poll)
    /\ WF_syncVars(PageEmpty) /\ WF_syncVars(PageCompiling) /\ SF_syncVars(PageServed)
    /\ \A d \in Docs : WF_syncVars(CommitWrite(d)) /\ WF_syncVars(Fire(d))

(***************************************************************************)
(* Properties.                                                             *)
(***************************************************************************)

SyncTypeOK ==
    /\ clock \in 0..MaxTime
    /\ public \in [Docs -> {Hidden} \union Bodies]
    /\ fired \in [Docs -> {None} \union Bodies]
    /\ firing \in SUBSET Docs /\ overdue \in SUBSET Docs
    /\ writing \in [Docs -> [busy : BOOLEAN, at : 0..MaxTime, body : {Hidden} \union Bodies]]
    /\ versions \in [Docs -> SUBSET (0..MaxTime)]
    /\ writes \in 0..MaxWrites
    /\ exposed \in SUBSET Docs
    /\ mirror \in [Docs -> {Hidden} \union Bodies]
    /\ stored \in Position
    /\ call \in [busy : BOOLEAN, position : Position, changes : Changes, attempt : 0..Retries]
    /\ rotations \in 0..MaxRotations /\ failures \in 0..MaxFailures

\* The documents the stored cursor says nothing more will be said about.
Behind(d) ==
    /\ stored.kind = "delta"
    /\ \A at \in versions[d] : at <= stored.since
    /\ writing[d].busy => writing[d].at > stored.since

\* A copy is what an anonymous reader may read: it is there if and only if the
\* document is public, and its body is the public one unless the document's fire
\* came later than the lag.
Shows(d, copy) ==
    /\ copy # Hidden <=> public[d] # Hidden
    /\ d \notin overdue => copy = public[d]

\* No hole and no ghost: whatever failed, was refused, retried or raced the
\* pages of a poll, the mirror is right about every document that was not
\* written since the cursor it keeps.
MirrorTrue == \A d \in Docs : Behind(d) => Shows(d, mirror[d])

\* A consumer that keeps polling ends with the site as it is, but for bodies
\* whose fire was late.
MirrorCatchesUp == <>[](\A d \in Docs : Shows(d, mirror[d]))
=============================================================================
