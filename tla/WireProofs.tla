------------------------------ MODULE WireProofs ------------------------------
(***************************************************************************)
(* The code that talks to the server: that a mirror kept by sync() is true *)
(* and the caller of any other SDK method is told what happened; that a    *)
(* room keeps the words of its pages and that a page's notices are of its  *)
(* line.                                                                   *)
(***************************************************************************)
EXTENDS SyncMirror, ClientCalls, Collab, LineWatch, FiniteSetTheorems, SequenceTheorems, TLAPS

-----------------------------------------------------------------------------
(* Types.  Subtracting the lag stays in the naturals because the clock and *)
(* the beginning of a snapshot are never before the first lag.             *)

TypeInv ==
    /\ SyncTypeOK
    /\ clock >= Lag
    /\ stored = NoCursor \/ stored.kind = "delta"
    /\ call.busy => call.position.kind # "none"
    /\ call.position.kind = "initial" => call.position.since >= Lag

CallState == [busy : BOOLEAN, position : Position, changes : Changes, attempt : 0..Retries]

LEMMA IdleType ==
    /\ Idle \in CallState /\ ~Idle.busy
    /\ Idle.position = NoCursor
    /\ \A d \in Docs : Idle.changes[d] = Untouched
    /\ ~Untouched.sent /\ Untouched.body = Hidden
    /\ NoCursor \in Position /\ NoCursor.kind = "none"
<1>1. NoCursor \in Position /\ NoCursor.kind = "none"
  BY SyncAssumption DEF NoCursor, Position
<1>2. [d \in Docs |-> Untouched] \in Changes
  BY DEF Changes, Untouched, Hidden, Bodies
<1>3. Idle \in CallState
  BY <1>1, <1>2, SyncAssumption DEF Idle, CallState
<1>4. (\A d \in Docs : Idle.changes[d] = Untouched) /\ ~Untouched.sent /\ Untouched.body = Hidden
  BY DEF Idle, Untouched
<1> QED BY <1>1, <1>3, <1>4 DEF Idle

\* The position a page is read at.
LEMMA WindowedType ==
    ASSUME TypeInv
    PROVE  /\ Windowed(call.position) \in Position
           /\ Windowed(call.position).kind = call.position.kind
           /\ Windowed(call.position).since = call.position.since
           /\ Windowed(call.position).after = call.position.after
           /\ Lagged(clock) \in 0..MaxTime
<1>1. call.position \in Position /\ clock \in 0..MaxTime
  BY DEF TypeInv, SyncTypeOK
<1>2. Lagged(clock) \in 0..MaxTime
  BY <1>1, SyncAssumption DEF TypeInv, Lagged
<1> QED BY <1>1, <1>2, SyncAssumption DEF Windowed, Delta, Position

\* The cursor a finished call keeps.
LEMMA FinalType ==
    ASSUME TypeInv, call.busy, call.position.kind # "none"
    PROVE  /\ Final(Windowed(call.position)) \in Position
           /\ Final(Windowed(call.position)).kind = "delta"
<1> DEFINE p == Windowed(call.position)
<1>1. p \in Position /\ p.kind = call.position.kind /\ p.since = call.position.since
  BY WindowedType
<1>2. CASE p.kind = "initial"
  <2>1. p.since - Lag \in 0..MaxTime
    BY <1>1, <1>2, SyncAssumption DEF TypeInv, Position
  <2> QED BY <1>2, <2>1, SyncAssumption DEF Final, Delta, Lagged, Position
<1>3. CASE p.kind # "initial"
  <2>1. p.until \in 0..MaxTime
    BY <1>1 DEF Position
  <2> QED BY <1>3, <2>1, SyncAssumption DEF Final, Delta, Position
<1> QED BY <1>2, <1>3

LEMMA AppliedType ==
    ASSUME TypeInv, NEW changes \in Changes, NEW whole \in BOOLEAN
    PROVE  Applied(changes, whole) \in [Docs -> {Hidden} \union Bodies]
BY DEF TypeInv, SyncTypeOK, Applied, Changes

LEMMA InitTypeInv == SyncInit => TypeInv
<1> SUFFICES ASSUME SyncInit PROVE TypeInv
  OBVIOUS
<1>1. public \in [Docs -> {Hidden} \union Bodies] /\ fired \in [Docs -> {None} \union Bodies]
  BY SyncAssumption DEF SyncInit, Hidden, None, Bodies
<1>2. NotWriting \in [busy : BOOLEAN, at : 0..MaxTime, body : {Hidden} \union Bodies]
  BY SyncAssumption DEF NotWriting, Hidden, Bodies
<1>3. [d \in Docs |-> {0}] \in [Docs -> SUBSET (0..MaxTime)]
  BY SyncAssumption
<1>4. SyncTypeOK
  BY <1>1, <1>2, <1>3, IdleType, SyncAssumption DEF SyncInit, SyncTypeOK, CallState, Hidden, Bodies
<1> QED BY <1>4, IdleType, SyncAssumption DEF SyncInit, TypeInv

LEMMA NextTypeInv == TypeInv /\ [SyncNext]_syncVars => TypeInv'
<1> SUFFICES ASSUME TypeInv, [SyncNext]_syncVars PROVE TypeInv'
  OBVIOUS
<1> DEFINE Site == /\ public' \in [Docs -> {Hidden} \union Bodies]
                   /\ fired' \in [Docs -> {None} \union Bodies]
                   /\ firing' \in SUBSET Docs /\ overdue' \in SUBSET Docs
                   /\ writing' \in [Docs -> [busy : BOOLEAN, at : 0..MaxTime,
                                             body : {Hidden} \union Bodies]]
                   /\ versions' \in [Docs -> SUBSET (0..MaxTime)]
                   /\ writes' \in 0..MaxWrites
           Client == /\ mirror' \in [Docs -> {Hidden} \union Bodies]
                     /\ stored' \in Position /\ (stored' = NoCursor \/ stored'.kind = "delta")
                     /\ call' \in CallState
                     /\ call'.busy => call'.position.kind # "none"
                     /\ call'.position.kind = "initial" => call'.position.since >= Lag
<1>1. UNCHANGED serverVars => Site
  BY DEF TypeInv, SyncTypeOK, serverVars
<1>2. UNCHANGED clientVars => Client
  BY DEF TypeInv, SyncTypeOK, clientVars, CallState
<1>3. ASSUME Site, Client, clock' \in 0..MaxTime, clock' >= Lag, exposed' \in SUBSET Docs,
             rotations' \in 0..MaxRotations, failures' \in 0..MaxFailures
      PROVE  TypeInv'
  BY <1>3 DEF TypeInv, SyncTypeOK, CallState
<1>4. /\ clock \in 0..MaxTime /\ clock >= Lag /\ exposed \in SUBSET Docs
      /\ rotations \in 0..MaxRotations /\ failures \in 0..MaxFailures
  BY DEF TypeInv, SyncTypeOK
<1>5. ASSUME NEW changes \in Changes, NEW next \in Position, next.kind = "delta",
             Finish(changes, next)
      PROVE  Client
  BY <1>5, AppliedType, IdleType DEF Finish, TypeInv
<1>6. ASSUME Retried, UNCHANGED <<mirror, stored>>
      PROVE  Client
  <2>1. call \in CallState /\ call.attempt \in 0..Retries
    BY DEF TypeInv, SyncTypeOK, CallState
  <2>2. CASE call.attempt < Retries
    BY <1>6, <2>1, <2>2, SyncAssumption DEF Retried, TypeInv, SyncTypeOK, CallState
  <2>3. CASE ~(call.attempt < Retries)
    BY <1>6, <2>3, IdleType DEF Retried, TypeInv, SyncTypeOK
  <2> QED BY <2>2, <2>3
<1>7. CASE Tick
  <2>1. Site
    BY <1>7 DEF Tick, FallsDue, TypeInv, SyncTypeOK
  <2> QED BY <1>2, <1>3, <1>4, <1>7, <2>1, SyncAssumption DEF Tick
<1>8. ASSUME NEW d \in Docs, NEW body \in {Hidden, writes + 2}, BeginWrite(d, body)
      PROVE  TypeInv'
  <2>1. body \in {Hidden} \union Bodies /\ writes' \in 0..MaxWrites
    BY <1>8, SyncAssumption DEF BeginWrite, TypeInv, SyncTypeOK, Bodies
  <2>2. Site
    BY <1>4, <1>8, <2>1, SyncAssumption DEF BeginWrite, TypeInv, SyncTypeOK
  <2> QED BY <1>2, <1>3, <1>4, <1>8, <2>2 DEF BeginWrite
<1>9. ASSUME NEW d \in Docs, CommitWrite(d)
      PROVE  TypeInv'
  <2>1. writing[d] \in [busy : BOOLEAN, at : 0..MaxTime, body : {Hidden} \union Bodies]
    BY DEF TypeInv, SyncTypeOK
  <2>2. NotWriting \in [busy : BOOLEAN, at : 0..MaxTime, body : {Hidden} \union Bodies]
    BY SyncAssumption DEF NotWriting, Hidden, Bodies
  <2>3. Site
    BY <1>9, <2>1, <2>2 DEF CommitWrite, TypeInv, SyncTypeOK
  <2> QED BY <1>2, <1>3, <1>4, <1>9, <2>3 DEF CommitWrite
<1>10. ASSUME NEW d \in Docs, Fire(d)
       PROVE  TypeInv'
  <2>1. Site
    BY <1>10 DEF Fire, TypeInv, SyncTypeOK, Hidden, None
  <2> QED BY <1>2, <1>3, <1>4, <1>10, <2>1 DEF Fire
<1>19. ASSUME NEW d \in Docs, FireFails(d)
       PROVE  TypeInv'
  <2>1. Site
    BY <1>19 DEF FireFails, TypeInv, SyncTypeOK
  <2> QED BY <1>2, <1>3, <1>4, <1>19, <2>1, SyncAssumption DEF FireFails, Failed
<1>11. CASE Rotate
  <2>1. Client
    BY <1>11, IdleType DEF Rotate, TypeInv, SyncTypeOK
  <2> QED BY <1>1, <1>3, <1>4, <1>11, <2>1, SyncAssumption DEF Rotate
<1>12. CASE Poll
  <2> DEFINE from == IF stored = NoCursor THEN Initial(clock, 0) ELSE stored
  <2>1. /\ from \in Position /\ from.kind \in {"initial", "delta"}
        /\ from.kind = "initial" => from.since >= Lag
    BY <1>4, SyncAssumption DEF Initial, Position, TypeInv, SyncTypeOK
  <2>2. call' = [Idle EXCEPT !.busy = TRUE, !.position = from]
    BY <1>12 DEF Poll
  <2>3. call' \in CallState /\ call'.position = from
    BY <2>1, <2>2, IdleType DEF CallState
  <2>4. Client
    BY <1>12, <2>1, <2>3 DEF Poll, TypeInv, SyncTypeOK
  <2> QED BY <1>1, <1>3, <1>4, <1>12, <2>4 DEF Poll
<1>13. CASE PageServed
  <2> DEFINE p == Windowed(call.position)
             Collected(rows) == [d \in Docs |-> IF d \in rows /\ Item(d).sent THEN Item(d)
                                                ELSE call.changes[d]]
  <2>1. p \in Position /\ p.kind = call.position.kind /\ p.since = call.position.since
    BY WindowedType
  <2>2. ~p.kind = "none" /\ (p.kind = "initial" => p.since >= Lag)
    BY <1>13, <2>1 DEF PageServed, TypeInv
  <2>3. \A rows : Collected(rows) \in Changes
    BY DEF Changes, Item, Upsert, Tombstone, Untouched, TypeInv, SyncTypeOK, Hidden, None
  <2>4. PICK rows \in Pages(p) :
          /\ exposed' = exposed \union (rows \intersect Visible)
          /\ \/ \E last \in rows :
                  /\ call' = [busy |-> TRUE, changes |-> Collected(rows), attempt |-> 0,
                              position |-> [p EXCEPT !.after = last]]
                  /\ UNCHANGED <<mirror, stored>>
             \/ Finish(Collected(rows), Final(p))
    BY <1>13 DEF PageServed
  <2>5. rows \in SUBSET Docs
    BY <2>4 DEF Pages, Remaining, Visible, Changed
  <2>6. ASSUME NEW last \in rows,
               call' = [busy |-> TRUE, changes |-> Collected(rows), attempt |-> 0,
                        position |-> [p EXCEPT !.after = last]],
               UNCHANGED <<mirror, stored>>
        PROVE  Client
    <3>1. last \in 0..MaxDoc
      BY <2>5, SyncAssumption DEF Docs
    <3>2. [p EXCEPT !.after = last] \in Position
      BY <2>1, <3>1 DEF Position
    <3>3. /\ [p EXCEPT !.after = last].kind = p.kind
          /\ [p EXCEPT !.after = last].since = p.since
      BY <2>1 DEF Position
    <3>4. Collected(rows) \in Changes
      BY <2>3
    <3> HIDE DEF Collected, p
    <3>5. call' \in CallState /\ call'.position = [p EXCEPT !.after = last]
      BY <2>6, <3>2, <3>4, SyncAssumption DEF CallState
    <3> QED BY <2>2, <2>6, <3>3, <3>5 DEF TypeInv, SyncTypeOK
  <2>7. ASSUME Finish(Collected(rows), Final(p))
        PROVE  Client
    BY <1>5, <1>13, <2>2, <2>3, <2>7, FinalType DEF PageServed, TypeInv
  <2>8. Client
    BY <2>4, <2>6, <2>7
  <2>9. exposed' \in SUBSET Docs
    BY <1>4, <2>4, <2>5
  <2> QED BY <1>1, <1>3, <1>4, <1>13, <2>8, <2>9 DEF PageServed
<1>14. CASE PageEmpty
  <2>1. call.changes \in Changes /\ Delta(call.position.since, 0, 0) \in Position
    BY SyncAssumption DEF TypeInv, SyncTypeOK, Delta, Position
  <2>2. Client
    BY <1>5, <1>14, <2>1 DEF PageEmpty, Delta
  <2> QED BY <1>1, <1>3, <1>4, <1>14, <2>2 DEF PageEmpty
<1>15. CASE PageCompiling
  <2>1. Site
    BY <1>15 DEF PageCompiling, Compiling, Visible, TypeInv, SyncTypeOK
  <2> QED BY <1>3, <1>4, <1>6, <1>15, <2>1 DEF PageCompiling
<1>16. CASE PageUnavailable
  BY <1>1, <1>3, <1>4, <1>6, <1>16, SyncAssumption DEF PageUnavailable, Failed
<1>17. CASE PageLost
  <2>1. Client
    BY <1>17, IdleType DEF PageLost, TypeInv, SyncTypeOK
  <2>2. exposed' \in SUBSET Docs
    BY <1>4, <1>17 DEF PageLost, Visible
  <2> QED BY <1>1, <1>3, <1>4, <1>17, <2>1, <2>2, SyncAssumption DEF PageLost, Failed
<1>18. CASE UNCHANGED syncVars
  BY <1>1, <1>2, <1>3, <1>4, <1>18 DEF syncVars, serverVars, clientVars
<1> QED BY <1>7, <1>8, <1>9, <1>10, <1>11, <1>12, <1>13, <1>14, <1>15, <1>16, <1>17, <1>18,
           <1>19
        DEF SyncNext

\* Every variable keeps its type: the clock, the site's documents and versions,
\* the cursor the consumer keeps and the call it is in.
THEOREM SyncTypes == SyncSpec => []SyncTypeOK
<1>1. TypeInv => SyncTypeOK
  BY DEF TypeInv
<1> QED BY <1>1, InitTypeInv, NextTypeInv, PTL DEF SyncSpec

-----------------------------------------------------------------------------
(* The mirror.  A document is quiet after t when every version of it is of *)
(* t or before and no write of it that began by t is uncommitted.  For a t *)
(* that the lag has passed, a document that is quiet now was quiet before  *)
(* and shows what it showed then: that is what the lag buys.               *)

QuietAfter(d, t) ==
    /\ \A at \in versions[d] : at <= t
    /\ writing[d].busy => writing[d].at > t

\* A transaction ends within the lag.
WritesEnd ==
    \A d \in Docs : writing[d].busy => clock < writing[d].at + Lag

\* An artifact that is not what is public has its fire queued, and is of a
\* version younger than the lag, unless the fire is overdue.
FiresFollow ==
    \A d \in Docs :
        d \notin overdue /\ fired[d] # None =>
            /\ fired[d] # public[d] => d \in firing
            /\ d \in firing => \E at \in versions[d] : clock < at + Lag

\* A change that tells a consumer of a document what is public.
TellsOf(d, change) == change.sent /\ Shows(d, change.body)

\* The cursor that is kept starts a window, one that the lag has passed.
CursorSettled ==
    stored.kind = "delta" => stored.until = 0 /\ stored.after = 0 /\ stored.since + Lag <= clock

\* What the consumer has, or was just sent, the sync API disclosed.
CopiesDisclosed ==
    \A d \in Docs :
        /\ mirror[d] # Hidden => d \in exposed
        /\ call.changes[d].sent /\ call.changes[d].body # Hidden => d \in exposed

\* A snapshot in progress: what the pages up to after sent.
SnapshotSent ==
    call.busy /\ call.position.kind = "initial" =>
        /\ call.position.since <= clock
        /\ \A d \in Docs : call.changes[d] # Untouched => d <= call.position.after
        /\ \A d \in Docs :
              d <= call.position.after /\ QuietAfter(d, call.position.since - Lag) =>
                  IF public[d] # Hidden THEN TellsOf(d, call.changes[d])
                  ELSE call.changes[d] = Untouched

\* What a delta says of a document that has a version in its window.
SaidOf(d) ==
    IF public[d] # Hidden THEN TellsOf(d, call.changes[d])
    ELSE call.changes[d] = Tombstone \/ (call.changes[d] = Untouched /\ d \notin exposed)

\* A delta in progress: it goes on from the cursor kept, its window is one that
\* the lag has passed, and the pages up to after said what changed in it.
DeltaSaid ==
    call.busy /\ call.position.kind = "delta" =>
        /\ stored.kind = "delta" /\ call.position.since = stored.since
        /\ call.position.until = 0 => call.position.after = 0
        /\ call.position.until # 0 => /\ call.position.since < call.position.until
                                      /\ call.position.until + Lag <= clock
        /\ \A d \in Docs :
              call.changes[d] # Untouched =>
                  /\ d <= call.position.after
                  /\ d \in Changed(call.position.since, call.position.until)
        /\ \A d \in Docs :
              /\ d <= call.position.after
              /\ d \in Changed(call.position.since, call.position.until)
              /\ QuietAfter(d, call.position.until)
              => SaidOf(d)

MirrorInv ==
    /\ TypeInv
    /\ WritesEnd
    /\ FiresFollow
    /\ CursorSettled
    /\ CopiesDisclosed
    /\ SnapshotSent
    /\ DeltaSaid
    /\ MirrorTrue

\* The facts of the types that the steps below use.
LEMMA Shapes ==
    ASSUME TypeInv
    PROVE  /\ clock \in Nat /\ Lag \in Nat /\ Lag >= 1
           /\ \A d \in Docs : /\ d \in Nat /\ d >= 1
                              /\ versions[d] \in SUBSET Nat
                              /\ writing[d].at \in Nat
           /\ stored.since \in Nat /\ stored.until \in Nat /\ stored.after \in Nat
           /\ call.position.since \in Nat /\ call.position.until \in Nat
           /\ call.position.after \in Nat
BY SyncAssumption DEF TypeInv, SyncTypeOK, Position, Docs

\* In terms of quiet documents, what MirrorTrue says.
LEMMA MirrorOfQuiet ==
    MirrorTrue <=> (stored.kind = "delta" =>
                      \A d \in Docs : QuietAfter(d, stored.since) => Shows(d, mirror[d]))
BY DEF MirrorTrue, Behind, QuietAfter

\* The site's steps leave what is quiet after a settled time as it was.
SiteStep ==
    /\ UNCHANGED <<exposed, clientVars>>
    /\ clock' >= clock
    /\ \A d \in Docs :
         /\ versions[d] \subseteq versions'[d]
         /\ \A at \in versions'[d] \ versions[d] : clock < at + Lag
         /\ \A t \in Nat : t + Lag <= clock /\ QuietAfter(d, t)' =>
                             /\ QuietAfter(d, t) /\ public'[d] = public[d]
                             /\ d \in overdue => d \in overdue'

\* What a copy shows it goes on showing while the document stays what it is.
LEMMA StillShows ==
    ASSUME NEW d, NEW copy, Shows(d, copy), public'[d] = public[d], d \in overdue => d \in overdue'
    PROVE  Shows(d, copy)'
BY DEF Shows

LEMMA SiteStepKeepsMirror ==
    ASSUME MirrorInv, TypeInv', SiteStep
    PROVE  CursorSettled' /\ CopiesDisclosed' /\ SnapshotSent' /\ DeltaSaid' /\ MirrorTrue'
<1> USE DEF MirrorInv
<1>1. /\ exposed' = exposed /\ mirror' = mirror /\ stored' = stored /\ call' = call
      /\ clock' >= clock /\ clock' \in Nat
  BY Shapes, SyncAssumption DEF SiteStep, clientVars, TypeInv, SyncTypeOK
<1>2. ASSUME NEW d \in Docs, NEW t \in Nat, t + Lag <= clock, QuietAfter(d, t)'
      PROVE  /\ QuietAfter(d, t) /\ public'[d] = public[d]
             /\ \A copy : Shows(d, copy) => Shows(d, copy)'
  BY <1>2, StillShows DEF SiteStep
<1>3. CursorSettled'
  BY <1>1, Shapes DEF CursorSettled
<1>4. CopiesDisclosed'
  BY <1>1 DEF CopiesDisclosed
<1>5. SnapshotSent'
  <2> SUFFICES ASSUME call.busy, call.position.kind = "initial"
               PROVE  SnapshotSent'
    BY <1>1 DEF SnapshotSent
  <2>1. call.position.since - Lag \in Nat /\ (call.position.since - Lag) + Lag <= clock
    BY Shapes DEF SnapshotSent, TypeInv
  <2>2. ASSUME NEW d \in Docs, d <= call.position.after,
               QuietAfter(d, call.position.since - Lag)'
        PROVE  IF public'[d] # Hidden THEN TellsOf(d, call.changes[d])'
               ELSE call.changes[d] = Untouched
    BY <1>1, <1>2, <2>1, <2>2 DEF SnapshotSent, TellsOf
  <2> QED BY <1>1, <2>2, Shapes DEF SnapshotSent
<1>6. DeltaSaid'
  <2> DEFINE since == call.position.since
             until == call.position.until
             after == call.position.after
  <2> SUFFICES ASSUME call.busy, call.position.kind = "delta"
               PROVE  DeltaSaid'
    BY <1>1 DEF DeltaSaid
  <2>1. /\ stored.kind = "delta" /\ since = stored.since
        /\ until = 0 => after = 0
        /\ until # 0 => since < until /\ until + Lag <= clock
    BY DEF DeltaSaid
  <2>2. \A d \in Docs : call.changes[d] # Untouched => d <= after /\ d \in Changed(since, until)'
    BY <1>1 DEF DeltaSaid, SiteStep, Changed
  <2>3. ASSUME NEW d \in Docs, d <= after, d \in Changed(since, until)', QuietAfter(d, until)'
        PROVE  SaidOf(d)'
    <3>1. until \in Nat /\ until + Lag <= clock
      BY <2>1, <2>3, Shapes
    <3>2. /\ QuietAfter(d, until) /\ public'[d] = public[d]
          /\ \A copy : Shows(d, copy) => Shows(d, copy)'
      BY <1>1, <1>2, <2>3, <3>1
    <3>3. PICK at \in versions'[d] : since < at /\ at <= until
      BY <2>3, <1>1 DEF Changed
    <3>4. at \in versions[d]
      BY <3>1, <3>3, Shapes, SyncAssumption DEF SiteStep, TypeInv, SyncTypeOK
    <3>5. d \in Changed(since, until)
      BY <3>3, <3>4 DEF Changed
    <3>6. SaidOf(d)
      BY <2>3, <3>2, <3>5 DEF DeltaSaid
    <3> QED BY <1>1, <3>2, <3>6 DEF SaidOf, TellsOf
  <2> QED BY <1>1, <2>1, <2>2, <2>3, Shapes DEF DeltaSaid
<1>7. MirrorTrue'
  <2> SUFFICES ASSUME stored.kind = "delta", NEW d \in Docs, Behind(d)'
               PROVE  Shows(d, mirror[d])'
    BY <1>1 DEF MirrorTrue, Behind
  <2>1. stored.since \in Nat /\ stored.since + Lag <= clock
    BY Shapes DEF CursorSettled
  <2>2. QuietAfter(d, stored.since)'
    BY <1>1 DEF Behind, QuietAfter
  <2>3. /\ QuietAfter(d, stored.since)
        /\ \A copy : Shows(d, copy) => Shows(d, copy)'
    BY <1>1, <1>2, <2>1, <2>2
  <2>4. Shows(d, mirror[d])
    BY <2>3, MirrorOfQuiet
  <2> QED BY <1>1, <2>3, <2>4
<1> QED BY <1>3, <1>4, <1>5, <1>6, <1>7

LEMMA TickStep ==
    ASSUME MirrorInv, TypeInv', Tick
    PROVE  MirrorInv'
<1>1. /\ clock' = clock + 1
      /\ \A d \in Docs : writing[d].busy => clock + 1 < writing[d].at + Lag
      /\ overdue' = overdue \union FallsDue(clock + 1)
      /\ UNCHANGED <<public, fired, firing, writing, versions>>
      /\ UNCHANGED <<exposed, clientVars>>
  BY DEF Tick
<1>2. WritesEnd' /\ FiresFollow'
  <2>1. \A d \in Docs : versions[d] \subseteq Nat
    BY Shapes DEF MirrorInv
  <2>2. ASSUME NEW d \in Docs, d \in firing, d \notin FallsDue(clock + 1), fired[d] # None
        PROVE  \E at \in versions[d] : clock + 1 < at + Lag
    <3>1. PICK at \in versions[d] : ~(at + Lag <= clock + 1)
      BY <2>2 DEF FallsDue
    <3>2. at \in Nat /\ Lag \in Nat /\ clock \in Nat
      BY <2>1, Shapes DEF MirrorInv
    <3> QED BY <3>1, <3>2
  <2>3. WritesEnd'
    BY <1>1 DEF MirrorInv, WritesEnd
  <2> QED BY <1>1, <2>2, <2>3 DEF MirrorInv, FiresFollow
<1>3. SiteStep
  BY <1>1, Shapes DEF SiteStep, QuietAfter, MirrorInv
<1> QED BY <1>2, <1>3, SiteStepKeepsMirror DEF MirrorInv

LEMMA BeginWriteStep ==
    ASSUME MirrorInv, TypeInv', NEW d \in Docs, NEW body, BeginWrite(d, body)
    PROVE  MirrorInv'
<1>1. /\ writing' = [writing EXCEPT ![d] = [busy |-> TRUE, at |-> clock, body |-> body]]
      /\ ~writing[d].busy
      /\ UNCHANGED <<clock, public, fired, firing, overdue, versions>>
      /\ UNCHANGED <<exposed, clientVars>>
  BY DEF BeginWrite
<1>2. \A e \in Docs : e # d => writing'[e] = writing[e]
  BY <1>1 DEF MirrorInv, TypeInv, SyncTypeOK
<1>3. writing'[d].at = clock
  BY <1>1 DEF MirrorInv, TypeInv, SyncTypeOK
<1>4. WritesEnd' /\ FiresFollow'
  <2>1. WritesEnd'
    BY <1>1, <1>2, <1>3, Shapes DEF MirrorInv, WritesEnd
  <2>2. FiresFollow'
    BY <1>1 DEF MirrorInv, FiresFollow
  <2> QED BY <2>1, <2>2
<1>5. SiteStep
  <2>1. \A e \in Docs : \A t \in Nat : QuietAfter(e, t)' => QuietAfter(e, t)
    BY <1>1, <1>2 DEF QuietAfter
  <2> QED BY <1>1, <2>1, Shapes DEF SiteStep, MirrorInv
<1> QED BY <1>4, <1>5, SiteStepKeepsMirror DEF MirrorInv

LEMMA CommitWriteStep ==
    ASSUME MirrorInv, TypeInv', NEW d \in Docs, CommitWrite(d)
    PROVE  MirrorInv'
<1>1. /\ writing[d].busy
      /\ writing' = [writing EXCEPT ![d] = NotWriting]
      /\ versions' = [versions EXCEPT ![d] = @ \union {writing[d].at}]
      /\ public' = [public EXCEPT ![d] = writing[d].body]
      /\ fired' = IF writing[d].body = Hidden THEN [fired EXCEPT ![d] = None] ELSE fired
      /\ firing' = IF writing[d].body = Hidden THEN firing ELSE firing \union {d}
      /\ overdue' = overdue \ {d}
      /\ UNCHANGED <<clock, exposed>> /\ UNCHANGED clientVars
  BY DEF CommitWrite
<1>2. \A e \in Docs :
        e # d => /\ writing'[e] = writing[e] /\ versions'[e] = versions[e]
                 /\ public'[e] = public[e] /\ fired'[e] = fired[e]
                 /\ e \in firing' <=> e \in firing
                 /\ e \in overdue' <=> e \in overdue
  BY <1>1 DEF MirrorInv, TypeInv, SyncTypeOK
<1>3. /\ ~writing'[d].busy /\ versions'[d] = versions[d] \union {writing[d].at}
      /\ public'[d] = writing[d].body
      /\ writing[d].body = Hidden => fired'[d] = None
      /\ writing[d].body # Hidden => d \in firing'
  BY <1>1 DEF MirrorInv, TypeInv, SyncTypeOK, NotWriting
<1>4. clock < writing[d].at + Lag
  BY <1>1 DEF MirrorInv, WritesEnd
<1>5. WritesEnd'
  BY <1>1, <1>2, <1>3 DEF MirrorInv, WritesEnd
<1>6. FiresFollow'
  <2> SUFFICES ASSUME NEW e \in Docs
               PROVE  e \notin overdue' /\ fired'[e] # None =>
                        /\ fired'[e] # public'[e] => e \in firing'
                        /\ e \in firing' => \E at \in versions'[e] : clock' < at + Lag
    BY DEF FiresFollow
  <2>1. CASE e = d
    BY <1>1, <1>3, <1>4, <2>1 DEF Hidden, None
  <2>2. CASE e # d
    BY <1>1, <1>2, <2>2 DEF MirrorInv, FiresFollow
  <2> QED BY <2>1, <2>2
<1>7. SiteStep
  <2>1. \A e \in Docs : \A at \in versions'[e] \ versions[e] : clock < at + Lag
    BY <1>2, <1>3, <1>4
  <2>2. ASSUME NEW e \in Docs, NEW t \in Nat, t + Lag <= clock, QuietAfter(e, t)'
        PROVE  /\ QuietAfter(e, t) /\ public'[e] = public[e]
               /\ e \in overdue => e \in overdue'
    <3>1. CASE e = d
      <4>1. writing[d].at <= t
        BY <1>3, <2>2, <3>1 DEF QuietAfter
      <4> QED BY <1>4, <2>2, <4>1, Shapes DEF MirrorInv
    <3>2. CASE e # d
      BY <1>2, <2>2, <3>2 DEF QuietAfter
    <3> QED BY <3>1, <3>2
  <2>3. \A e \in Docs : versions[e] \subseteq versions'[e]
    BY <1>2, <1>3
  <2> QED BY <1>1, <2>1, <2>2, <2>3, Shapes DEF SiteStep, MirrorInv
<1> QED BY <1>5, <1>6, <1>7, SiteStepKeepsMirror DEF MirrorInv

LEMMA FireStep ==
    ASSUME MirrorInv, TypeInv', NEW d \in Docs, Fire(d)
    PROVE  MirrorInv'
<1>1. /\ firing' = firing \ {d}
      /\ fired' = [fired EXCEPT ![d] = public[d]]
      /\ UNCHANGED <<clock, public, overdue, writing, versions>>
      /\ UNCHANGED <<exposed, clientVars>>
  BY DEF Fire
<1>2. /\ fired'[d] = public[d]
      /\ \A e \in Docs : e # d => fired'[e] = fired[e]
  BY <1>1 DEF MirrorInv, TypeInv, SyncTypeOK
<1>3. WritesEnd' /\ FiresFollow'
  BY <1>1, <1>2 DEF MirrorInv, WritesEnd, FiresFollow
<1>4. SiteStep
  BY <1>1, Shapes DEF SiteStep, QuietAfter, MirrorInv
<1> QED BY <1>3, <1>4, SiteStepKeepsMirror DEF MirrorInv

LEMMA FireFailsStep ==
    ASSUME MirrorInv, TypeInv', NEW d \in Docs, FireFails(d)
    PROVE  MirrorInv'
<1>1. /\ firing' = firing \ {d} /\ overdue \subseteq overdue'
      /\ fired[d] = None \/ d \in overdue'
      /\ UNCHANGED <<clock, public, fired, writing, versions>>
      /\ UNCHANGED <<exposed, clientVars>>
  BY DEF FireFails
<1>2. WritesEnd' /\ FiresFollow'
  BY <1>1 DEF MirrorInv, WritesEnd, FiresFollow
<1>3. SiteStep
  BY <1>1, Shapes DEF SiteStep, QuietAfter, MirrorInv
<1> QED BY <1>2, <1>3, SiteStepKeepsMirror DEF MirrorInv

\* The consumer's steps leave the site as it is, but for the fires a refused
\* page queues; what they disclose is public.
ClientStep ==
    /\ UNCHANGED <<clock, public, fired, overdue, writing, versions>>
    /\ firing \subseteq firing' /\ \A d \in firing' \ firing : fired[d] = None
    /\ exposed \subseteq exposed' /\ \A d \in exposed' \ exposed : public[d] # Hidden

LEMMA ClientStepKeepsSite ==
    ASSUME MirrorInv, ClientStep
    PROVE  WritesEnd' /\ FiresFollow'
BY DEF MirrorInv, ClientStep, WritesEnd, FiresFollow

\* A call that ends without a word, or was never begun.
LEMMA NoCall ==
    ASSUME MirrorInv, ClientStep, UNCHANGED mirror, stored' \in {stored, NoCursor}, call' = Idle
    PROVE  CursorSettled' /\ CopiesDisclosed' /\ SnapshotSent' /\ DeltaSaid' /\ MirrorTrue'
<1>1. CursorSettled'
  BY IdleType DEF MirrorInv, ClientStep, CursorSettled
<1>2. CopiesDisclosed'
  BY IdleType DEF MirrorInv, ClientStep, CopiesDisclosed
<1>3. SnapshotSent' /\ DeltaSaid'
  BY IdleType DEF SnapshotSent, DeltaSaid
<1>4. MirrorTrue'
  BY IdleType DEF MirrorInv, ClientStep, MirrorTrue, Behind, Shows
<1> QED BY <1>1, <1>2, <1>3, <1>4

\* A call that waits and asks for the same page again.
LEMMA SameCall ==
    ASSUME MirrorInv, ClientStep, UNCHANGED <<mirror, stored, exposed>>,
           call' = [call EXCEPT !.attempt = @ + 1]
    PROVE  CursorSettled' /\ CopiesDisclosed' /\ SnapshotSent' /\ DeltaSaid' /\ MirrorTrue'
<1>1. call'.busy = call.busy /\ call'.position = call.position /\ call'.changes = call.changes
  BY DEF MirrorInv, TypeInv, SyncTypeOK
<1>2. CursorSettled' /\ CopiesDisclosed' /\ MirrorTrue'
  BY <1>1 DEF MirrorInv, ClientStep, CursorSettled, CopiesDisclosed, MirrorTrue, Behind, Shows
<1>3. SnapshotSent'
  BY <1>1 DEF MirrorInv, ClientStep, SnapshotSent, QuietAfter, TellsOf, Shows
<1>4. DeltaSaid'
  BY <1>1 DEF MirrorInv, ClientStep, DeltaSaid, QuietAfter, Changed, SaidOf, TellsOf, Shows
<1> QED BY <1>2, <1>3, <1>4

LEMMA RotateStep ==
    ASSUME MirrorInv, TypeInv', Rotate
    PROVE  MirrorInv'
<1>1. ClientStep /\ UNCHANGED mirror /\ stored' \in {stored, NoCursor} /\ call' = Idle
  BY DEF Rotate, serverVars, ClientStep
<1> QED BY <1>1, NoCall, ClientStepKeepsSite DEF MirrorInv

LEMMA PollStep ==
    ASSUME MirrorInv, TypeInv', Poll
    PROVE  MirrorInv'
<1> DEFINE from == IF stored = NoCursor THEN Initial(clock, 0) ELSE stored
<1>1. /\ ClientStep /\ UNCHANGED <<mirror, stored, exposed>>
      /\ UNCHANGED <<clock, public, overdue, writing, versions>>
      /\ call' = [Idle EXCEPT !.busy = TRUE, !.position = from]
  BY DEF Poll, serverVars, ClientStep
<1>2. call'.position = from /\ call'.changes = Idle.changes
  BY <1>1, IdleType DEF CallState
<1>3. CursorSettled' /\ CopiesDisclosed' /\ MirrorTrue'
  BY <1>1, <1>2, IdleType DEF MirrorInv, CursorSettled, CopiesDisclosed, MirrorTrue, Behind, Shows
<1>4. SnapshotSent'
  <2> SUFFICES ASSUME from.kind = "initial"
               PROVE  SnapshotSent'
    BY <1>2 DEF SnapshotSent
  <2>1. from = Initial(clock, 0)
    BY DEF MirrorInv, TypeInv
  <2>2. from.since = clock /\ from.after = 0
    BY <2>1 DEF Initial
  <2> QED BY <1>1, <1>2, <2>2, IdleType, Shapes DEF SnapshotSent, MirrorInv
<1>5. DeltaSaid'
  <2> SUFFICES ASSUME from.kind = "delta"
               PROVE  DeltaSaid'
    BY <1>2 DEF DeltaSaid
  <2>1. from = stored /\ stored.kind = "delta"
    BY DEF Initial
  <2>2. from.until = 0 /\ from.after = 0
    BY <2>1 DEF MirrorInv, CursorSettled
  <2> QED BY <1>1, <1>2, <2>1, <2>2, IdleType, Shapes DEF DeltaSaid, MirrorInv
<1> QED BY <1>1, <1>3, <1>4, <1>5, ClientStepKeepsSite DEF MirrorInv

LEMMA PageUnavailableStep ==
    ASSUME MirrorInv, TypeInv', PageUnavailable
    PROVE  MirrorInv'
<1>1. ClientStep /\ UNCHANGED <<mirror, stored, exposed>>
  BY DEF PageUnavailable, serverVars, ClientStep
<1>2. call' = [call EXCEPT !.attempt = @ + 1] \/ call' = Idle
  BY DEF PageUnavailable, Retried
<1> QED BY <1>1, <1>2, NoCall, SameCall, ClientStepKeepsSite DEF MirrorInv

LEMMA PageCompilingStep ==
    ASSUME MirrorInv, TypeInv', PageCompiling
    PROVE  MirrorInv'
<1>1. firing \subseteq firing' /\ \A d \in firing' \ firing : fired[d] = None
  BY DEF PageCompiling, Compiling
<1>2. ClientStep /\ UNCHANGED <<mirror, stored, exposed>>
  BY <1>1 DEF PageCompiling, ClientStep
<1>3. call' = [call EXCEPT !.attempt = @ + 1] \/ call' = Idle
  BY DEF PageCompiling, Retried
<1> QED BY <1>2, <1>3, NoCall, SameCall, ClientStepKeepsSite DEF MirrorInv

LEMMA PageLostStep ==
    ASSUME MirrorInv, TypeInv', PageLost
    PROVE  MirrorInv'
<1>1. ClientStep /\ UNCHANGED <<mirror, stored>>
  BY DEF PageLost, serverVars, ClientStep, Visible
<1>2. call' = Idle
  BY DEF PageLost
<1> QED BY <1>1, <1>2, NoCall, ClientStepKeepsSite DEF MirrorInv

LEMMA PageEmptyStep ==
    ASSUME MirrorInv, TypeInv', PageEmpty
    PROVE  MirrorInv'
<1>1. /\ call.busy /\ call.position.kind = "delta"
      /\ Windowed(call.position).until <= call.position.since
      /\ ClientStep
      /\ UNCHANGED <<public, overdue, versions, writing, exposed>>
  BY WindowedType DEF PageEmpty, Unsettled, MirrorInv, serverVars, ClientStep
<1>2. /\ stored.kind = "delta" /\ call.position.since = stored.since
      /\ call.position.until = 0 /\ call.position.after = 0
  BY <1>1, Shapes DEF MirrorInv, DeltaSaid, Windowed
<1>3. \A d \in Docs : call.changes[d] = Untouched /\ ~call.changes[d].sent
  BY <1>1, <1>2, Shapes, IdleType DEF MirrorInv, DeltaSaid
<1>4. /\ call' = Idle
      /\ stored' = Delta(stored.since, 0, 0)
      /\ mirror' = Applied(call.changes, FALSE)
  BY <1>1, <1>2 DEF PageEmpty, Finish
<1>5. \A d \in Docs : mirror'[d] = mirror[d]
  BY <1>3, <1>4 DEF Applied
<1>6. stored'.kind = "delta" /\ stored'.since = stored.since
      /\ stored'.until = 0 /\ stored'.after = 0
  BY <1>4 DEF Delta
<1>7. CursorSettled' /\ CopiesDisclosed'
  BY <1>1, <1>2, <1>4, <1>5, <1>6, IdleType
     DEF MirrorInv, ClientStep, CursorSettled, CopiesDisclosed
<1>8. SnapshotSent' /\ DeltaSaid'
  BY <1>4, IdleType DEF SnapshotSent, DeltaSaid
<1>9. MirrorTrue'
  BY <1>1, <1>2, <1>5, <1>6 DEF MirrorInv, MirrorTrue, Behind, Shows
<1> QED BY <1>1, <1>7, <1>8, <1>9, ClientStepKeepsSite DEF MirrorInv

\* The artifact of a public document that is quiet after a settled time shows it.
LEMMA FreshItem ==
    ASSUME MirrorInv, NEW d \in Docs, NEW t \in Nat, t + Lag <= clock, QuietAfter(d, t),
           fired[d] # None, public[d] # Hidden
    PROVE  TellsOf(d, Upsert(fired[d]))
<1>1. d \notin overdue => fired[d] = public[d]
  BY Shapes DEF MirrorInv, FiresFollow, QuietAfter
<1>2. Upsert(fired[d]).sent /\ Upsert(fired[d]).body = fired[d]
  BY DEF Upsert
<1> QED BY <1>1, <1>2 DEF TellsOf, Shows, None, Hidden

\* The page that is served to a call: the window it is read in, what it sends,
\* and what the call has collected with it.
Collected(rows) ==
    [d \in Docs |-> IF d \in rows /\ Item(d).sent THEN Item(d) ELSE call.changes[d]]

\* The time after which the finished call answers for a document.
AnsweredFor(p) == IF p.kind = "initial" THEN p.since - Lag ELSE p.until

\* What the pages up to this one went over.
Covered(p, rows, d) == d <= p.after \/ d \in rows \/ d \notin Remaining(p)

PageOf(p, rows) ==
    /\ call.busy /\ p = Windowed(call.position) /\ ~Unsettled(p)
    /\ rows \in Pages(p) /\ Compiling(rows) = {}
    /\ exposed' = exposed \union (rows \intersect Visible)

LEMMA PageWindow ==
    ASSUME MirrorInv, NEW p, NEW rows, PageOf(p, rows)
    PROVE  /\ p \in Position /\ p.kind = call.position.kind /\ p.since = call.position.since
           /\ p.after = call.position.after /\ p.kind \in {"initial", "delta"}
           /\ AnsweredFor(p) \in Nat /\ AnsweredFor(p) + Lag <= clock
           /\ p.kind = "delta" => /\ p.since < p.until /\ p.until \in Nat
                                  /\ stored.kind = "delta" /\ p.since = stored.since
                                  /\ call.position.until # 0 => p.until = call.position.until
                                  /\ call.position.until = 0 => p.after = 0
<1>1. p \in Position /\ p.kind = call.position.kind /\ p.since = call.position.since
      /\ p.after = call.position.after
  BY WindowedType DEF PageOf, MirrorInv
<1>2. p.kind \in {"initial", "delta"}
  BY <1>1 DEF PageOf, MirrorInv, TypeInv, Position
<1>3. CASE p.kind = "initial"
  BY <1>1, <1>2, <1>3, Shapes DEF PageOf, MirrorInv, TypeInv, SnapshotSent, AnsweredFor
<1>4. CASE p.kind = "delta"
  <2>1. p.since < p.until /\ p.until \in Nat
    BY <1>1, <1>4, Shapes DEF PageOf, Unsettled, Position
  <2>2. /\ call.position.until = 0 => p.until = clock - Lag
        /\ call.position.until # 0 => p.until = call.position.until
    BY <1>1, <1>4 DEF PageOf, Windowed, Delta, Lagged
  <2>3. p.until + Lag <= clock
    BY <1>1, <1>4, <2>2, Shapes DEF PageOf, MirrorInv, DeltaSaid
  <2>4. /\ stored.kind = "delta" /\ p.since = stored.since
        /\ call.position.until = 0 => p.after = 0
    BY <1>1, <1>4 DEF PageOf, MirrorInv, DeltaSaid
  <2> QED BY <1>1, <1>2, <1>4, <2>1, <2>2, <2>3, <2>4 DEF AnsweredFor
<1> QED BY <1>2, <1>3, <1>4

\* What the page sends, row by row.
LEMMA PageRows ==
    ASSUME MirrorInv, NEW p, NEW rows, PageOf(p, rows), NEW d \in Docs
    PROVE  /\ d \in rows => d > p.after /\ d \in Remaining(p)
           /\ d \in rows /\ public[d] # Hidden =>
                /\ Collected(rows)[d] = Upsert(fired[d]) /\ fired[d] # None
                /\ d \in exposed'
           /\ d \in rows /\ public[d] = Hidden =>
                \/ Collected(rows)[d] = Tombstone
                \/ d \notin exposed /\ Collected(rows)[d] = call.changes[d]
           /\ d \notin rows => Collected(rows)[d] = call.changes[d]
<1>1. d \in rows => d \in Remaining(p)
  BY DEF PageOf, Pages
<1>2. Item(d) = IF public[d] # Hidden THEN Upsert(fired[d])
                ELSE IF d \in exposed THEN Tombstone ELSE Untouched
  BY DEF Item, Visible
<1>3. d \in rows /\ public[d] # Hidden => fired[d] # None /\ d \in exposed'
  BY DEF PageOf, Compiling, Visible
<1>4. Collected(rows)[d] = IF d \in rows /\ Item(d).sent THEN Item(d) ELSE call.changes[d]
  BY DEF Collected
<1>5. Upsert(fired[d]).sent /\ Tombstone.sent /\ ~Untouched.sent
  BY DEF Upsert, Tombstone, Untouched
<1>6. d \in rows => d > p.after
  <2>1. p.after \in Nat
    BY PageWindow DEF Position, Docs
  <2> QED BY <1>1, <2>1 DEF Remaining
<1> QED BY <1>1, <1>2, <1>3, <1>4, <1>5, <1>6

\* What the pages of a snapshot went over is in what it collected.
LEMMA SnapshotCovers ==
    ASSUME MirrorInv, NEW p, NEW rows, PageOf(p, rows), p.kind = "initial",
           NEW d \in Docs, Covered(p, rows, d), QuietAfter(d, AnsweredFor(p))
    PROVE  IF public[d] # Hidden THEN TellsOf(d, Collected(rows)[d])
           ELSE Collected(rows)[d] = Untouched
<1>1. /\ call.busy /\ call.position.kind = "initial" /\ call.position.after = p.after
      /\ AnsweredFor(p) = call.position.since - Lag
      /\ AnsweredFor(p) \in Nat /\ AnsweredFor(p) + Lag <= clock
  BY PageWindow DEF PageOf, AnsweredFor
<1>2. CASE d <= p.after
  <2>1. d \notin rows
    BY <1>2, PageRows, PageWindow, Shapes DEF Position, MirrorInv
  <2> QED BY <1>1, <1>2, <2>1, PageRows DEF MirrorInv, SnapshotSent
<1>3. CASE d \in rows
  <2>1. public[d] # Hidden
    BY <1>3, PageRows DEF Remaining, Visible
  <2> QED BY <1>1, <1>3, <2>1, PageRows, FreshItem
<1>4. CASE ~(d <= p.after) /\ d \notin rows
  <2>1. public[d] = Hidden
    BY <1>1, <1>4, Shapes DEF Covered, Remaining, Visible, MirrorInv
  <2>2. call.changes[d] = Untouched
    BY <1>1, <1>4 DEF MirrorInv, SnapshotSent
  <2> QED BY <1>4, <2>1, <2>2, PageRows
<1> QED BY <1>2, <1>3, <1>4

\* What a delta collected, it collected of documents changed in its window.
LEMMA DeltaCollects ==
    ASSUME MirrorInv, NEW p, NEW rows, PageOf(p, rows), p.kind = "delta",
           NEW d \in Docs, Collected(rows)[d] # Untouched
    PROVE  (d <= p.after \/ d \in rows) /\ d \in Changed(p.since, p.until)
<1>1. CASE d \in rows
  BY <1>1, PageRows DEF Remaining
<1>2. CASE d \notin rows
  <2>1. call.changes[d] # Untouched
    BY <1>2, PageRows
  <2>2. d <= p.after /\ d \in Changed(call.position.since, call.position.until)
    BY <2>1, PageWindow DEF MirrorInv, DeltaSaid, PageOf
  <2>3. call.position.until # 0
    BY <2>2, PageWindow, Shapes DEF MirrorInv
  <2> QED BY <2>2, <2>3, PageWindow
<1> QED BY <1>1, <1>2

\* What the pages of a delta went over, it says.
LEMMA DeltaCovers ==
    ASSUME MirrorInv, NEW p, NEW rows, PageOf(p, rows), p.kind = "delta",
           NEW d \in Docs, Covered(p, rows, d), d \in Changed(p.since, p.until),
           QuietAfter(d, p.until)
    PROVE  IF public[d] # Hidden THEN TellsOf(d, Collected(rows)[d])
           ELSE \/ Collected(rows)[d] = Tombstone
                \/ Collected(rows)[d] = Untouched /\ d \notin exposed'
<1>1. p.until \in Nat /\ p.until + Lag <= clock
  BY PageWindow DEF AnsweredFor
<1>2. CASE d \in rows
  <2>1. CASE public[d] # Hidden
    BY <1>1, <1>2, <2>1, PageRows, FreshItem
  <2>2. CASE public[d] = Hidden
    <3>1. call.changes[d] = Untouched
      <4>1. ~(d <= p.after)
        BY <1>2, PageRows, PageWindow, Shapes DEF Position, MirrorInv
      <4> QED BY <4>1, PageWindow DEF MirrorInv, DeltaSaid, PageOf
    <3>2. d \notin exposed => d \notin exposed'
      BY <2>2 DEF PageOf, Visible
    <3> QED BY <1>2, <2>2, <3>1, <3>2, PageRows
  <2> QED BY <2>1, <2>2
<1>3. CASE d \notin rows
  <2>1. d <= p.after
    BY <1>3, PageWindow, Shapes DEF Covered, Remaining, MirrorInv, Position
  <2>2. call.position.until # 0
    BY <2>1, PageWindow, Shapes DEF MirrorInv
  <2>3. SaidOf(d)
    BY <2>1, <2>2, PageWindow DEF MirrorInv, DeltaSaid, PageOf
  <2>4. d \notin exposed /\ public[d] = Hidden => d \notin exposed'
    BY DEF PageOf, Visible
  <2> QED BY <1>3, <2>3, <2>4, PageRows DEF SaidOf
<1> QED BY <1>2, <1>3

\* A page that is full: the call goes on after its last row.
LEMMA PageGoesOn ==
    ASSUME MirrorInv, NEW p, NEW rows, PageOf(p, rows), NEW last \in rows,
           \A d \in rows : d <= last,
           UNCHANGED <<clock, public, overdue, versions, writing, mirror, stored>>,
           call' = [busy |-> TRUE, changes |-> Collected(rows), attempt |-> 0,
                    position |-> [p EXCEPT !.after = last]]
    PROVE  SnapshotSent' /\ DeltaSaid'
<1>1. last \in Docs /\ last > p.after /\ p.after \in Nat /\ p.until \in Nat /\ p.since \in Nat
  <2>1. rows \in SUBSET Docs
    BY DEF PageOf, Pages, Remaining, Visible, Changed
  <2> QED BY <2>1, PageRows, PageWindow, SyncAssumption DEF Position
<1>2. /\ call'.busy /\ call'.changes = Collected(rows)
      /\ call'.position.kind = p.kind /\ call'.position.since = p.since
      /\ call'.position.until = p.until /\ call'.position.after = last
  BY PageWindow DEF Position
<1>3. \A d \in Docs : d <= last => Covered(p, rows, d)
  <2> SUFFICES ASSUME NEW d \in Docs, d <= last, d \in Remaining(p)
               PROVE  d \in rows
    BY DEF Covered
  <2>1. CASE d = last
    BY <2>1
  <2>2. CASE d < last
    BY <2>2 DEF PageOf, Pages
  <2> QED BY <1>1, <2>1, <2>2, Shapes DEF MirrorInv
<1>4. \A d \in Docs : d <= p.after \/ d \in rows => d <= last
  BY <1>1, Shapes DEF MirrorInv
<1>5. SnapshotSent'
  <2> SUFFICES ASSUME p.kind = "initial" PROVE SnapshotSent'
    BY <1>2 DEF SnapshotSent
  <2>1. AnsweredFor(p) = p.since - Lag /\ p.since <= clock
    BY PageWindow DEF AnsweredFor, PageOf, MirrorInv, SnapshotSent
  <2>2. ASSUME NEW d \in Docs, Collected(rows)[d] # Untouched
        PROVE  d <= last
    <3>1. CASE d \in rows
      BY <3>1
    <3>2. CASE d \notin rows
      <4>1. call.changes[d] # Untouched
        BY <2>2, <3>2, PageRows
      <4>2. d <= p.after
        BY <4>1, PageWindow DEF MirrorInv, SnapshotSent, PageOf
      <4> QED BY <1>4, <4>2
    <3> QED BY <3>1, <3>2
  <2>3. ASSUME NEW d \in Docs, d <= last, QuietAfter(d, p.since - Lag)'
        PROVE  IF public'[d] # Hidden THEN TellsOf(d, call.changes[d])'
               ELSE call'.changes[d] = Untouched
    <3>1. QuietAfter(d, AnsweredFor(p))
      BY <2>1, <2>3 DEF QuietAfter
    <3>2. IF public[d] # Hidden THEN TellsOf(d, Collected(rows)[d])
          ELSE Collected(rows)[d] = Untouched
      BY <1>3, <2>3, <3>1, SnapshotCovers
    <3> QED BY <1>2, <3>2 DEF TellsOf, Shows
  <2> QED BY <1>2, <2>1, <2>2, <2>3 DEF SnapshotSent
<1>6. DeltaSaid'
  <2> SUFFICES ASSUME p.kind = "delta" PROVE DeltaSaid'
    BY <1>2 DEF DeltaSaid
  <2>1. /\ stored'.kind = "delta" /\ p.since = stored'.since
        /\ p.until # 0 /\ p.since < p.until /\ p.until + Lag <= clock'
    BY <1>1, PageWindow DEF AnsweredFor
  <2>2. \A d \in Docs :
          Collected(rows)[d] # Untouched => d <= last /\ d \in Changed(p.since, p.until)'
    BY <1>4, DeltaCollects DEF Changed
  <2>3. ASSUME NEW d \in Docs, d <= last, d \in Changed(p.since, p.until)', QuietAfter(d, p.until)'
        PROVE  SaidOf(d)'
    <3>1. d \in Changed(p.since, p.until) /\ QuietAfter(d, p.until)
      BY <2>3 DEF Changed, QuietAfter
    <3>2. public' = public /\ call'.changes[d] = Collected(rows)[d]
      BY <1>2
    <3>3. IF public[d] # Hidden THEN TellsOf(d, Collected(rows)[d])
          ELSE \/ Collected(rows)[d] = Tombstone
               \/ Collected(rows)[d] = Untouched /\ d \notin exposed'
      BY <1>3, <2>3, <3>1, DeltaCovers
    <3> QED BY <3>2, <3>3 DEF SaidOf, TellsOf, Shows
  <2> QED BY <1>2, <2>1, <2>2, <2>3 DEF DeltaSaid
<1> QED BY <1>5, <1>6

\* The last page: the mirror takes what the call collected.
LEMMA PageEndsCall ==
    ASSUME MirrorInv, TypeInv', NEW p, NEW rows, PageOf(p, rows), ~More(rows),
           UNCHANGED <<clock, public, overdue, versions, writing>>,
           Finish(Collected(rows), Final(p))
    PROVE  CursorSettled' /\ MirrorTrue'
<1>1. /\ stored' = Final(p)
      /\ mirror' = Applied(Collected(rows), p.kind = "initial")
  BY PageWindow DEF Finish, PageOf
<1>2. /\ stored'.kind = "delta" /\ stored'.since = AnsweredFor(p)
      /\ stored'.until = 0 /\ stored'.after = 0
  BY <1>1, PageWindow DEF Final, AnsweredFor, Delta, Lagged
<1>3. \A d \in Docs : Covered(p, rows, d)
  <2>1. IsFiniteSet(Docs)
    BY FS_Interval, SyncAssumption DEF Docs
  <2>2. rows \in SUBSET Docs
    BY DEF PageOf, Pages, Remaining, Visible, Changed
  <2>3. Cardinality(rows) \in Nat
    BY <2>1, <2>2, FS_Subset, FS_CardinalityType
  <2>4. Cardinality(rows) < Limit
    BY <2>3, SyncAssumption DEF More
  <2>5. rows = Remaining(p)
    BY <2>4 DEF PageOf, Pages
  <2> QED BY <2>5 DEF Covered
<1>4. ASSUME NEW d \in Docs, QuietAfter(d, AnsweredFor(p))
      PROVE  Shows(d, mirror'[d])
  <2>1. mirror'[d] = IF Collected(rows)[d].sent THEN Collected(rows)[d].body
                     ELSE IF p.kind = "initial" THEN Hidden ELSE mirror[d]
    BY <1>1 DEF Applied
  <2>2. /\ Tombstone.sent /\ Tombstone.body = Hidden /\ ~Untouched.sent
        /\ public[d] = Hidden => Shows(d, Hidden)
    BY DEF Tombstone, Untouched, Shows
  <2>3. CASE p.kind = "initial"
    <3>1. IF public[d] # Hidden THEN TellsOf(d, Collected(rows)[d])
          ELSE Collected(rows)[d] = Untouched
      BY <1>3, <1>4, <2>3, SnapshotCovers
    <3> QED BY <2>1, <2>3, <2>2, <3>1 DEF TellsOf
  <2>4. CASE p.kind = "delta" /\ d \in Changed(p.since, p.until)
    <3>1. /\ mirror[d] # Hidden => d \in exposed
          /\ exposed \subseteq exposed'
      BY DEF MirrorInv, CopiesDisclosed, PageOf
    <3>2. QuietAfter(d, p.until)
      BY <1>4, <2>4 DEF AnsweredFor
    <3>3. IF public[d] # Hidden THEN TellsOf(d, Collected(rows)[d])
          ELSE \/ Collected(rows)[d] = Tombstone
               \/ Collected(rows)[d] = Untouched /\ d \notin exposed'
      BY <1>3, <2>4, <3>2, DeltaCovers
    <3> QED BY <2>1, <2>4, <2>2, <3>1, <3>3 DEF TellsOf
  <2>5. CASE p.kind = "delta" /\ d \notin Changed(p.since, p.until)
    <3>1. Collected(rows)[d] = Untouched
      BY <2>5, DeltaCollects
    <3>2. QuietAfter(d, p.since)
      BY <1>4, <2>5, PageWindow, Shapes DEF QuietAfter, Changed, AnsweredFor, MirrorInv, Position
    <3>3. Shows(d, mirror[d])
      BY <2>5, <3>2, PageWindow, MirrorOfQuiet DEF MirrorInv
    <3> QED BY <2>1, <2>5, <3>1, <3>3 DEF Untouched
  <2> QED BY <2>3, <2>4, <2>5, PageWindow
<1>5. MirrorTrue'
  <2> SUFFICES ASSUME NEW d \in Docs, Behind(d)'
               PROVE  Shows(d, mirror[d])'
    BY DEF MirrorTrue
  <2>1. QuietAfter(d, AnsweredFor(p))
    BY <1>2 DEF Behind, QuietAfter
  <2> QED BY <1>4, <2>1 DEF Shows
<1> QED BY <1>2, <1>5, PageWindow DEF CursorSettled

\* What a page sends, and what the mirror makes of it, is disclosed.
LEMMA PageDiscloses ==
    ASSUME MirrorInv, NEW p, NEW rows, PageOf(p, rows), NEW d \in Docs
    PROVE  /\ exposed \subseteq exposed'
           /\ Collected(rows)[d].sent /\ Collected(rows)[d].body # Hidden => d \in exposed'
<1>1. exposed \subseteq exposed'
  BY DEF PageOf
<1>2. call.changes[d].sent /\ call.changes[d].body # Hidden => d \in exposed
  BY DEF MirrorInv, CopiesDisclosed
<1>3. Tombstone.body = Hidden
  BY DEF Tombstone
<1> QED BY <1>1, <1>2, <1>3, PageRows

LEMMA PageServedStep ==
    ASSUME MirrorInv, TypeInv', PageServed
    PROVE  MirrorInv'
<1> DEFINE p == Windowed(call.position)
<1>1. PICK rows \in Pages(p) :
        /\ PageOf(p, rows)
        /\ \/ \E last \in rows :
                /\ \A d \in rows : d <= last
                /\ call' = [busy |-> TRUE, changes |-> Collected(rows), attempt |-> 0,
                            position |-> [p EXCEPT !.after = last]]
                /\ UNCHANGED <<mirror, stored>>
           \/ ~More(rows) /\ Finish(Collected(rows), Final(p))
  BY DEF PageServed, PageOf, Collected
<1>2. UNCHANGED <<clock, public, fired, firing, overdue, writing, versions>>
  BY DEF PageServed, serverVars
<1>3. WritesEnd' /\ FiresFollow'
  BY <1>2 DEF MirrorInv, WritesEnd, FiresFollow
<1>4. ASSUME NEW last \in rows, \A d \in rows : d <= last,
             call' = [busy |-> TRUE, changes |-> Collected(rows), attempt |-> 0,
                      position |-> [p EXCEPT !.after = last]],
             UNCHANGED <<mirror, stored>>
      PROVE  MirrorInv'
  <2>1. SnapshotSent' /\ DeltaSaid'
    BY <1>1, <1>2, <1>4, PageGoesOn
  <2>2. CopiesDisclosed'
    BY <1>1, <1>4, PageDiscloses DEF MirrorInv, CopiesDisclosed
  <2>3. CursorSettled' /\ MirrorTrue'
    BY <1>2, <1>4 DEF MirrorInv, CursorSettled, MirrorTrue, Behind, Shows
  <2> QED BY <1>3, <2>1, <2>2, <2>3 DEF MirrorInv
<1>5. ASSUME ~More(rows), Finish(Collected(rows), Final(p))
      PROVE  MirrorInv'
  <2>1. CursorSettled' /\ MirrorTrue'
    BY <1>1, <1>2, <1>5, PageEndsCall
  <2>2. call' = Idle /\ mirror' = Applied(Collected(rows), call.position.kind = "initial")
    BY <1>5 DEF Finish
  <2>3. CopiesDisclosed'
    BY <1>1, <2>2, PageDiscloses, IdleType DEF MirrorInv, CopiesDisclosed, Applied
  <2>4. SnapshotSent' /\ DeltaSaid'
    BY <2>2, IdleType DEF SnapshotSent, DeltaSaid
  <2> QED BY <1>3, <2>1, <2>3, <2>4 DEF MirrorInv
<1> QED BY <1>1, <1>4, <1>5

LEMMA InitMirrorInv == SyncInit => MirrorInv
<1> SUFFICES ASSUME SyncInit PROVE MirrorInv
  OBVIOUS
<1>1. TypeInv
  BY InitTypeInv
<1>2. /\ stored = NoCursor /\ call = Idle /\ fired = public /\ firing = {}
      /\ \A d \in Docs : mirror[d] = Hidden /\ ~writing[d].busy
  BY DEF SyncInit, NotWriting
<1>3. WritesEnd /\ FiresFollow
  BY <1>2 DEF WritesEnd, FiresFollow
<1>4. CursorSettled /\ CopiesDisclosed /\ SnapshotSent /\ DeltaSaid /\ MirrorTrue
  BY <1>2, IdleType
     DEF CursorSettled, CopiesDisclosed, SnapshotSent, DeltaSaid, MirrorTrue, Behind
<1> QED BY <1>1, <1>3, <1>4 DEF MirrorInv

LEMMA NextMirrorInv ==
    MirrorInv /\ [SyncNext]_syncVars => MirrorInv'
<1> SUFFICES ASSUME MirrorInv, [SyncNext]_syncVars PROVE MirrorInv'
  OBVIOUS
<1>1. TypeInv'
  BY NextTypeInv DEF MirrorInv
<1>2. CASE UNCHANGED syncVars
  <2>1. SiteStep /\ UNCHANGED <<clock, fired, firing, overdue, public, versions, writing>>
    BY <1>2, Shapes DEF SiteStep, QuietAfter, MirrorInv, syncVars, serverVars
  <2>2. WritesEnd' /\ FiresFollow'
    BY <2>1 DEF MirrorInv, WritesEnd, FiresFollow
  <2> QED BY <1>1, <2>1, <2>2, SiteStepKeepsMirror DEF MirrorInv
<1>3. ASSUME NEW d \in Docs, CommitWrite(d) \/ Fire(d) \/ FireFails(d)
      PROVE  MirrorInv'
  BY <1>1, <1>3, CommitWriteStep, FireStep, FireFailsStep
<1>4. ASSUME NEW d \in Docs, NEW body, BeginWrite(d, body) PROVE MirrorInv'
  BY <1>1, <1>4, BeginWriteStep
<1> QED BY <1>1, <1>2, <1>3, <1>4, TickStep, RotateStep, PollStep, PageServedStep, PageEmptyStep,
           PageCompilingStep, PageUnavailableStep, PageLostStep DEF SyncNext

\* A consumer of the sync API never has a hole or a ghost among the documents
\* that its cursor says nothing more will be said about, nor an old body unless
\* the document's fire came later than the lag: whatever pages, 503s, lost
\* answers, failed fires and rotations the calls went through, and whatever was
\* written meanwhile.
THEOREM MirrorIsTrue == SyncSpec => []MirrorTrue
<1>1. MirrorInv => MirrorTrue
  BY DEF MirrorInv
<1>2. SyncInit => MirrorInv
  BY InitMirrorInv
<1>3. MirrorInv /\ [SyncNext]_syncVars => MirrorInv'
  BY NextMirrorInv
<1> QED BY <1>1, <1>2, <1>3, PTL DEF SyncSpec
-----------------------------------------------------------------------------
(* A call of the SDK: that its caller is told what happened.               *)

Legs == {"read", "write", "bucket"}

\* What the proofs need to know of a method.
Sound(op) ==
    /\ Len(op.legs) \in 1..MaxLegs
    /\ \A l \in 1..Len(op.legs) : op.legs[l] \in Legs
    /\ op.retries \in 0..1
    /\ op.retries = 1 => \A l \in 1..Len(op.legs) : op.legs[l] = "read"
    /\ op.empty \in {"value", "raw", "empty_response"}

LEMMA MethodSound ==
    ASSUME NEW name, NEW kind \in Legs
    PROVE  /\ Sound(Method(name, <<kind>>))
           /\ Sound([Method(name, <<kind>>) EXCEPT !.verdict = TRUE])
           /\ Sound([Method(name, <<kind>>) EXCEPT !.errors = TRUE])
           /\ Sound([Method(name, <<kind>>) EXCEPT !.keyed = TRUE, !.empty = "raw"])
           /\ Sound([Method(name, <<kind>>) EXCEPT !.keyed = TRUE, !.empty = "empty_response"])
           /\ kind = "read" => Sound([Method(name, <<kind>>) EXCEPT !.retries = 1])
BY DEF Method, Sound, MaxLegs, Legs

LEMMA MethodsSound == \A op \in Methods : Sound(op)
<1>1. Sound(DirectUpload)
  BY DEF DirectUpload, Method, Sound, MaxLegs, Legs
<1>2. "read" \in Legs /\ "write" \in Legs
  BY DEF Legs
<1>3. /\ Sound(DeliveryRead) /\ Sound(ContentAsOf) /\ Sound(Preview) /\ Sound(MintPreview)
      /\ Sound(Schema) /\ Sound(SiteRead) /\ Sound(SubmitForm) /\ Sound(RevisionRead)
      /\ Sound(RestoreRevision) /\ Sound(ReleaseRead)
  BY <1>2, MethodSound DEF DeliveryRead, ContentAsOf, Preview, MintPreview, Schema, SiteRead,
     SubmitForm, RevisionRead, RestoreRevision, ReleaseRead
<1>4. /\ Sound(Artifact) /\ Sound(ResolvePath) /\ Sound(MediaWrite) /\ Sound(ContentWrite)
      /\ Sound(GraphQL)
  BY <1>2, MethodSound DEF Artifact, ResolvePath, MediaWrite, ContentWrite, GraphQL
<1> QED BY <1>1, <1>3, <1>4 DEF Methods

\* The refusals below 500: the server did not do what the leg asked.
RefusedKinds == {"auth", "not_found", "validation", "conflict", "rate_limit", "verdict"}

LEMMA ErrorClasses ==
    ASSUME NEW status \in Statuses
    PROVE  /\ ErrorClass(status) \in Outcomes \ {"value", "config"}
           /\ ErrorClass(status) \in RefusedKinds => status \in 400..499
BY DEF Statuses, ErrorClass, Outcomes, KilnErrors, RefusedKinds

-----------------------------------------------------------------------------
(***************************************************************************)
(* The inductive invariant.                                                *)
(***************************************************************************)

\* Before the call nothing was asked.
NothingYet ==
    phase = "idle" =>
        /\ operation = NoOperation /\ leg = 1 /\ attempts = 0
        /\ request = "none" /\ outcome = "none"
        /\ \A l \in 1..MaxLegs : sent[l] = 0 /\ performed[l] = 0

\* A call is of a method, at one of its legs.
AtALeg == phase # "idle" => operation \in Methods /\ leg \in 1..Len(operation.legs)

\* The legs before it were asked, and their writes done, once; those after it
\* were not asked.
EarlierLegs ==
    phase # "idle" =>
        \A l \in 1..MaxLegs : l < leg =>
            /\ sent[l] >= 1
            /\ Writes(operation.legs[l]) => sent[l] = 1 /\ performed[l] = 1
LaterLegs == \A l \in 1..MaxLegs : l > leg => sent[l] = 0 /\ performed[l] = 0

\* The leg it is at left once per attempt, and only a method that reads retries.
Attempted ==
    phase # "idle" =>
        /\ attempts <= operation.retries
        /\ phase = "ready" => request = "none" /\ sent[leg] = attempts
        /\ phase = "waiting" => request = "none" /\ sent[leg] = attempts + 1
                                /\ attempts < operation.retries
        /\ phase = "fetching" => request # "none" /\ sent[leg] = attempts + 1
        /\ phase = "done" => sent[leg] <= attempts + 1
        /\ phase # "done" => outcome = "none"

\* What the server has done of it.
Done ==
    phase # "idle" =>
        /\ ~Writes(Leg) => performed[leg] = 0
        /\ phase = "ready" /\ Writes(Leg) => performed[leg] = 0
        /\ phase = "fetching" /\ Writes(Leg) =>
              /\ request = "sent" => performed[leg] = 0
              /\ request = "answered" /\ answer = 200 => performed[leg] = 1
              /\ request = "answered" /\ answer \in 400..499 => performed[leg] = 0

\* What the caller was told of it, by an answer that was read.
Outcome ==
    /\ outcome \in RefusedKinds => request = "none" /\ performed[leg] = 0
    /\ outcome = "value" => /\ request = "none"
                            /\ leg = Len(operation.legs) /\ sent[leg] >= 1
                            /\ Writes(Leg) => performed[leg] = 1
    /\ outcome = "config" => request = "none" /\ leg = 1 /\ sent[1] = 0

CallsInv ==
    /\ CallsTypeOK
    /\ NothingYet /\ AtALeg /\ EarlierLegs /\ LaterLegs /\ Attempted /\ Done /\ Outcome

-----------------------------------------------------------------------------
(***************************************************************************)
(* It is inductive: one step per action.                                   *)
(***************************************************************************)

LEMMA CallsStarts ==
    ASSUME CallsInit
    PROVE  CallsInv
<1>1. /\ sent \in [1..MaxLegs -> Nat] /\ performed \in [1..MaxLegs -> Nat]
      /\ leg \in 1..MaxLegs /\ attempts \in 0..1 /\ failing \in 0..MaxFailing
  BY FailingAssumption DEF CallsInit, MaxLegs
<1>2. answer \in Statuses /\ outcome \in Outcomes
  BY DEF CallsInit, Statuses, Outcomes
<1>3. CallsTypeOK
  BY <1>1, <1>2 DEF CallsInit, CallsTypeOK
<1> QED
  BY <1>3 DEF CallsInit, CallsInv, NothingYet, AtALeg, EarlierLegs, LaterLegs, Attempted, Done,
     Outcome, MaxLegs, RefusedKinds

\* A call at a leg is of a sound method, and a leg that writes has no retry.
LEMMA LegSound ==
    ASSUME CallsInv, phase # "idle"
    PROVE  /\ Sound(operation) /\ leg \in 1..Len(operation.legs) /\ Leg \in Legs
           /\ Writes(Leg) => operation.retries = 0
           /\ Len(operation.legs) \in 1..MaxLegs
BY MethodsSound DEF CallsInv, AtALeg, Sound, Leg, Legs, Writes, MaxLegs

\* The step Call.
LEMMA CallKeeps ==
    ASSUME CallsInv, NEW op \in Methods, NEW whose \in {"caller", "request"},
           Call(op, whose)
    PROVE  CallsInv'
<1>1. Sound(op)
  BY MethodsSound
<1>2. /\ phase = "idle" /\ operation' = op /\ leg' = 1 /\ attempts' = 0 /\ request' = "none"
      /\ sent' = sent /\ performed' = performed /\ attempts = 0 /\ leg = 1
      /\ \A l \in 1..MaxLegs : sent[l] = 0 /\ performed[l] = 0
      /\ phase' \in {"ready", "done"} /\ outcome' \in {"none", "config"}
      /\ outcome' = "config" <=> phase' = "done"
  BY DEF Call, Told, CallsInv, NothingYet, CallsTypeOK
<1>3. CallsTypeOK'
  BY <1>2 DEF Call, Told, CallsInv, CallsTypeOK, Outcomes, KilnErrors
<1>4. NothingYet' /\ AtALeg' /\ EarlierLegs' /\ LaterLegs' /\ Attempted' /\ Done'
  BY <1>1, <1>2, FailingAssumption DEF NothingYet, AtALeg, EarlierLegs, LaterLegs, Attempted, Done, Sound, MaxLegs
<1>5. Outcome'
  BY <1>2 DEF CallsInv, NothingYet, Outcome, MaxLegs, RefusedKinds
<1> QED BY <1>3, <1>4, <1>5 DEF CallsInv

\* The step Send.
LEMMA SendKeeps ==
    ASSUME CallsInv, Send
    PROVE  CallsInv'
<1>1. /\ Sound(operation) /\ leg \in 1..Len(operation.legs)
      /\ Writes(Leg) => operation.retries = 0
      /\ Len(operation.legs) \in 1..MaxLegs
  BY LegSound DEF Send
<1>2. CallsTypeOK'
  BY DEF Send, Told, CallsInv, CallsTypeOK, Outcomes, KilnErrors
<1>3. CASE aborted
  BY <1>1, <1>2, <1>3 DEF Send, Told, CallsInv, CallsTypeOK, NothingYet, AtALeg, EarlierLegs,
     LaterLegs, Attempted, Done, Outcome, Sound, MaxLegs, RefusedKinds, Leg
<1>4. CASE ~aborted
  <2>1. /\ phase' = "fetching" /\ request' = "sent" /\ outcome' = outcome
        /\ sent' = [sent EXCEPT ![leg] = @ + 1]
        /\ leg' = leg /\ operation' = operation /\ attempts' = attempts
        /\ performed' = performed /\ phase = "ready"
    BY <1>4 DEF Send
  <2>2. /\ sent'[leg] = sent[leg] + 1
        /\ \A l \in 1..MaxLegs : l # leg => sent'[l] = sent[l]
    BY <1>1, <2>1 DEF CallsInv, CallsTypeOK
  <2> QED
    BY <1>1, <1>2, <2>1, <2>2 DEF CallsInv, CallsTypeOK, NothingYet, AtALeg, EarlierLegs,
       LaterLegs, Attempted, Done, Outcome, MaxLegs, RefusedKinds, Leg
<1> QED BY <1>3, <1>4

\* The step Serve.
LEMMA ServeKeeps ==
    ASSUME CallsInv, NEW status \in Statuses, Serve(status)
    PROVE  CallsInv'
<1>1. phase # "idle"
  BY DEF Serve, CallsInv, NothingYet
<1>2. /\ Sound(operation) /\ leg \in 1..Len(operation.legs)
      /\ Writes(Leg) => operation.retries = 0
      /\ Len(operation.legs) \in 1..MaxLegs
  BY <1>1, LegSound
<1>3. /\ request = "sent" /\ request' = "answered" /\ answer' = status /\ phase' = phase
      /\ operation' = operation /\ leg' = leg /\ attempts' = attempts /\ sent' = sent
      /\ outcome' = outcome /\ aborted' = aborted /\ scope' = scope /\ hasKey' = hasKey
      /\ failing' = failing \/ (failing < MaxFailing /\ failing' = failing + 1)
  BY DEF Serve, Fails
<1> DEFINE deed == IF Writes(Leg) THEN 1 ELSE 0
<1>d. deed \in 0..1 /\ (Writes(Leg) => deed = 1) /\ (~Writes(Leg) => deed = 0)
  OBVIOUS
<1>e. \/ status \notin 400..499 /\ performed' = [performed EXCEPT ![leg] = @ + deed]
      \/ status # 200 /\ performed' = performed
  BY DEF Serve
<1> HIDE DEF deed
<1>t. performed \in [1..MaxLegs -> Nat] /\ leg \in 1..MaxLegs /\ attempts \in 0..1
  BY DEF CallsInv, CallsTypeOK
<1>4. /\ \A l \in 1..MaxLegs : l # leg => performed'[l] = performed[l]
      /\ performed'[leg] \in {performed[leg], performed[leg] + deed}
      /\ status = 200 => performed'[leg] = performed[leg] + deed
      /\ status \in 400..499 => performed'[leg] = performed[leg]
      /\ performed' \in [1..MaxLegs -> Nat]
  <2>1. CASE status # 200 /\ performed' = performed
    BY <1>t, <1>d, <2>1
  <2>2. CASE status \notin 400..499 /\ performed' = [performed EXCEPT ![leg] = @ + deed]
    <3>1. \A l \in 1..MaxLegs : l # leg => performed'[l] = performed[l]
      BY <1>t, <2>2
    <3>2. performed'[leg] = performed[leg] + deed
      BY <1>t, <2>2
    <3>3. performed[leg] + deed \in Nat
      BY <1>t, <1>d DEF MaxLegs
    <3>4. performed' \in [1..MaxLegs -> Nat]
      BY <1>t, <3>3, <2>2
    <3> QED BY <2>2, <3>1, <3>2, <3>4
  <2> QED BY <1>e, <2>1, <2>2
<1>5. CallsTypeOK'
  <2>1. failing' \in 0..MaxFailing
    BY <1>3, FailingAssumption DEF CallsInv, CallsTypeOK
  <2> QED BY <1>3, <1>4, <2>1 DEF CallsInv, CallsTypeOK
<1>6. NothingYet' /\ AtALeg' /\ EarlierLegs' /\ LaterLegs' /\ Attempted'
  <2>1. NothingYet' /\ AtALeg' /\ Attempted'
    BY <1>1, <1>3 DEF CallsInv, NothingYet, AtALeg, Attempted
  <2>2. EarlierLegs' /\ LaterLegs'
    BY <1>1, <1>3, <1>4, <1>t DEF CallsInv, EarlierLegs, LaterLegs, MaxLegs
  <2> QED BY <2>1, <2>2
<1>8. Outcome'
  BY <1>3 DEF CallsInv, Outcome
<1>7. Done'
  BY <1>1, <1>2, <1>3, <1>4, <1>d, <1>t DEF CallsInv, Attempted, Done, Leg
<1> QED BY <1>5, <1>6, <1>7, <1>8 DEF CallsInv

\* The step Abort.
LEMMA AbortKeeps ==
    ASSUME CallsInv, Abort
    PROVE  CallsInv'
<1>1. phase # "idle"
  BY DEF Abort
<1>2. /\ operation' = operation /\ leg' = leg /\ attempts' = attempts /\ request' = request
      /\ answer' = answer /\ sent' = sent /\ performed' = performed
      /\ \/ phase' = phase /\ outcome' = outcome
         \/ phase' = "done" /\ outcome' \in {"abort", "server"} /\ phase \in {"fetching", "waiting"}
  BY DEF Abort, Told
<1>3. CallsTypeOK'
  BY FailingAssumption DEF Abort, Told, Fails, CallsInv, CallsTypeOK, Outcomes, KilnErrors
<1>4. NothingYet' /\ AtALeg' /\ EarlierLegs' /\ LaterLegs' /\ Attempted'
  BY <1>1, <1>2 DEF CallsInv, CallsTypeOK, NothingYet, AtALeg, EarlierLegs, LaterLegs, Attempted
<1>5. Done'
  BY <1>1, <1>2 DEF CallsInv, Done, Leg
<1>6. Outcome'
  BY <1>1, <1>2 DEF CallsInv, Outcome, RefusedKinds, Leg
<1> QED BY <1>3, <1>4, <1>5, <1>6 DEF CallsInv

\* The step LineFails.
LEMMA LineFailsKeeps ==
    ASSUME CallsInv, LineFails
    PROVE  CallsInv'
<1>1. phase = "fetching"
  BY DEF LineFails
<1>2. /\ operation' = operation /\ leg' = leg /\ attempts' = attempts /\ request' = request
      /\ answer' = answer /\ sent' = sent /\ performed' = performed
      /\ phase' = "done" /\ outcome' \in {"raw", "network"}
  BY DEF LineFails, Told
<1>3. CallsTypeOK'
  BY FailingAssumption DEF LineFails, Told, Fails, CallsInv, CallsTypeOK, Outcomes, KilnErrors
<1> QED
  BY <1>1, <1>2, <1>3 DEF CallsInv, CallsTypeOK, NothingYet, AtALeg, EarlierLegs, LaterLegs,
     Attempted, Done, Outcome, MaxLegs, RefusedKinds, Leg

\* What an answer that was read changes: the leg, the attempts, the phase and
\* what the caller is told.
Reported ==
    /\ leg' \in 1..MaxLegs /\ attempts' \in 0..1
    /\ phase' \in {"ready", "waiting", "done"} /\ outcome' \in Outcomes
    /\ NothingYet' /\ AtALeg' /\ EarlierLegs' /\ LaterLegs' /\ Attempted' /\ Done' /\ Outcome'

\* A call at the head of an answer.
HeadIsThere ==
    /\ phase = "fetching" /\ request = "answered" /\ request' = "none"
    /\ UNCHANGED <<operation, answer, sent, performed>>

LEMMA FetchingFacts ==
    ASSUME CallsInv, HeadIsThere
    PROVE  /\ operation \in Methods /\ Sound(operation)
           /\ leg \in 1..Len(operation.legs) /\ leg \in 1..MaxLegs
           /\ Len(operation.legs) \in 1..MaxLegs /\ Leg \in Legs
           /\ attempts \in 0..1 /\ attempts <= operation.retries
           /\ Writes(Leg) => operation.retries = 0
           /\ sent \in [1..MaxLegs -> Nat] /\ sent[leg] = attempts + 1
           /\ performed \in [1..MaxLegs -> Nat]
           /\ ~Writes(Leg) => performed[leg] = 0
           /\ Writes(Leg) => /\ answer = 200 => performed[leg] = 1
                             /\ answer \in 400..499 => performed[leg] = 0
           /\ answer \in Statuses /\ outcome = "none"
<1>1. phase # "idle"
  BY DEF HeadIsThere
<1>2. /\ Sound(operation) /\ leg \in 1..Len(operation.legs) /\ Leg \in Legs
      /\ Writes(Leg) => operation.retries = 0
      /\ Len(operation.legs) \in 1..MaxLegs
  BY <1>1, LegSound
<1>3. operation \in Methods
  BY <1>1 DEF CallsInv, AtALeg
<1>4. /\ leg \in 1..MaxLegs /\ attempts \in 0..1 /\ answer \in Statuses
      /\ sent \in [1..MaxLegs -> Nat] /\ performed \in [1..MaxLegs -> Nat]
  BY DEF CallsInv, CallsTypeOK
<1>5. sent[leg] = attempts + 1 /\ attempts <= operation.retries /\ outcome = "none"
  BY <1>1 DEF HeadIsThere, CallsInv, Attempted
<1>6. /\ ~Writes(Leg) => performed[leg] = 0
      /\ Writes(Leg) => /\ answer = 200 => performed[leg] = 1
                        /\ answer \in 400..499 => performed[leg] = 0
  BY <1>1 DEF HeadIsThere, CallsInv, Done
<1> QED BY <1>2, <1>3, <1>4, <1>5, <1>6

\* A whole 2xx: the next leg, which was not asked before, or the value.
LEMMA SucceededReports ==
    ASSUME CallsInv, HeadIsThere, answer = 200, Succeeded
    PROVE  Reported
<1>1. /\ operation \in Methods /\ Sound(operation)
      /\ leg \in 1..Len(operation.legs) /\ leg \in 1..MaxLegs
      /\ Len(operation.legs) \in 1..MaxLegs /\ Leg \in Legs
      /\ attempts \in 0..1 /\ attempts <= operation.retries
      /\ Writes(Leg) => operation.retries = 0
      /\ sent \in [1..MaxLegs -> Nat] /\ sent[leg] = attempts + 1
      /\ performed \in [1..MaxLegs -> Nat]
      /\ Writes(Leg) => performed[leg] = 1
      /\ outcome = "none"
  BY FetchingFacts
<1>2. /\ request' = "none" /\ operation' = operation /\ sent' = sent /\ performed' = performed
      /\ answer' = answer /\ phase # "idle"
  BY DEF HeadIsThere
<1>3. CASE leg < Len(operation.legs)
  <2>1. leg' = leg + 1 /\ phase' = "ready" /\ attempts' = 0 /\ outcome' = "none"
    BY <1>1, <1>3 DEF Succeeded
  <2> DEFINE n == Len(operation.legs)
  <2>n. n \in 1..3 /\ leg \in 1..n /\ leg < n
    BY <1>1, <1>3 DEF MaxLegs
  <2> HIDE DEF n
  <2>m. leg + 1 \in 1..3 /\ leg + 1 \in 1..n
    BY <2>n
  <2>2. leg' \in 1..MaxLegs /\ leg' \in 1..Len(operation.legs)
    BY <2>1, <2>m DEF MaxLegs, n
  <2>3. sent[leg'] = 0 /\ performed[leg'] = 0
    BY <1>1, <2>1, <2>2 DEF CallsInv, LaterLegs, MaxLegs
  <2>4. EarlierLegs'
    <3>1. Writes(operation.legs[leg]) => sent[leg] = 1 /\ performed[leg] = 1
      BY <1>1 DEF Leg
    <3>2. \A l \in 1..MaxLegs : l < leg + 1 => l < leg \/ l = leg
      BY <1>1 DEF MaxLegs
    <3> QED BY <1>1, <1>2, <2>1, <3>1, <3>2 DEF CallsInv, EarlierLegs
  <2>5. LaterLegs'
    BY <1>1, <1>2, <2>1 DEF CallsInv, LaterLegs, MaxLegs
  <2>6. NothingYet' /\ AtALeg' /\ Attempted' /\ Done' /\ Outcome'
    BY <1>1, <1>2, <2>1, <2>2, <2>3 DEF NothingYet, AtALeg, Attempted, Done, Outcome, RefusedKinds,
       Sound
  <2> QED BY <2>1, <2>2, <2>4, <2>5, <2>6 DEF Reported, Outcomes
<1>4. CASE ~(leg < Len(operation.legs))
  <2>1. /\ leg' = leg /\ attempts' = attempts /\ phase' = "done"
        /\ outcome' \in {"value", "raw", "empty_response", "graphql"}
    BY <1>1, <1>4 DEF Succeeded, Told, Sound
  <2>2. leg = Len(operation.legs)
    BY <1>1, <1>4 DEF MaxLegs
  <2>3. NothingYet' /\ AtALeg' /\ EarlierLegs' /\ LaterLegs'
    BY <1>1, <1>2, <2>1 DEF CallsInv, NothingYet, AtALeg, EarlierLegs, LaterLegs
  <2>4. Attempted' /\ Done'
    BY <1>1, <1>2, <2>1 DEF CallsInv, Attempted, Done, Leg
  <2>5. Outcome'
    BY <1>1, <1>2, <2>1, <2>2 DEF Outcome, RefusedKinds, Leg
  <2>6. outcome' \in Outcomes
    BY <2>1 DEF Outcomes, KilnErrors
  <2> QED BY <1>1, <2>1, <2>3, <2>4, <2>5, <2>6 DEF Reported
<1> QED BY <1>3, <1>4

\* A refusal: a leg that reads waits once; else the caller is told, and below 500
\* the server had done nothing.
LEMMA RefusalReports ==
    ASSUME CallsInv, HeadIsThere, answer # 200, NEW bodyRead \in BOOLEAN, Refusal(bodyRead)
    PROVE  Reported
<1>1. /\ operation \in Methods /\ Sound(operation)
      /\ leg \in 1..Len(operation.legs) /\ leg \in 1..MaxLegs
      /\ attempts \in 0..1 /\ attempts <= operation.retries
      /\ sent \in [1..MaxLegs -> Nat] /\ sent[leg] = attempts + 1
      /\ performed \in [1..MaxLegs -> Nat]
      /\ ~Writes(Leg) => performed[leg] = 0
      /\ answer \in 400..499 => performed[leg] = 0
      /\ outcome = "none" /\ answer \in Statuses
  BY FetchingFacts
<1>2. /\ request' = "none" /\ operation' = operation /\ sent' = sent /\ performed' = performed
      /\ answer' = answer /\ phase # "idle" /\ leg' = leg /\ attempts' = attempts
  BY DEF HeadIsThere, Refusal
<1>3. CASE answer = 503 /\ attempts < operation.retries
  <2>1. phase' = "waiting" /\ outcome' = "none"
    BY <1>1, <1>3 DEF Refusal
  <2>2. NothingYet' /\ AtALeg' /\ EarlierLegs' /\ LaterLegs' /\ Attempted'
    BY <1>1, <1>2, <1>3, <2>1 DEF CallsInv, NothingYet, AtALeg, EarlierLegs, LaterLegs, Attempted
  <2>3. Done' /\ Outcome'
    BY <1>1, <1>2, <2>1 DEF Done, Outcome, RefusedKinds, Leg
  <2> QED BY <1>1, <1>2, <2>1, <2>2, <2>3 DEF Reported, Outcomes
<1>4. CASE ~(answer = 503 /\ attempts < operation.retries)
  <2>1. /\ phase' = "done"
        /\ \/ outcome' = "verdict" /\ answer = 404
           \/ outcome' \in {"graphql", "http"}
           \/ outcome' = ErrorClass(answer)
    BY <1>4 DEF Refusal, Told
  <2>2. /\ outcome' \in Outcomes \ {"value", "config"}
        /\ outcome' \in RefusedKinds => answer \in 400..499
    <3>1. CASE outcome' = ErrorClass(answer)
      BY <1>1, <3>1, ErrorClasses
    <3>2. CASE outcome' = "verdict" /\ answer = 404
      BY <3>2 DEF Outcomes
    <3>3. CASE outcome' \in {"graphql", "http"}
      BY <3>3 DEF Outcomes, KilnErrors, RefusedKinds
    <3> QED BY <2>1, <3>1, <3>2, <3>3
  <2>3. NothingYet' /\ AtALeg' /\ EarlierLegs' /\ LaterLegs'
    BY <1>1, <1>2, <2>1 DEF CallsInv, NothingYet, AtALeg, EarlierLegs, LaterLegs
  <2>4. Attempted' /\ Done'
    BY <1>1, <1>2, <2>1 DEF CallsInv, Attempted, Done, Leg
  <2>5. Outcome'
    BY <1>1, <1>2, <2>2 DEF Outcome
  <2> QED BY <1>1, <1>2, <2>1, <2>2, <2>3, <2>4, <2>5 DEF Reported
<1> QED BY <1>3, <1>4

\* A report of an answer keeps the invariant: the rest of the state keeps its type.
LEMMA ReportKeeps ==
    ASSUME CallsInv, Reported, HeadIsThere, aborted' \in BOOLEAN, failing' \in 0..MaxFailing,
           hasKey' = hasKey, scope' = scope
    PROVE  CallsInv'
<1>1. CallsTypeOK'
  BY DEF Reported, HeadIsThere, CallsInv, CallsTypeOK
<1> QED BY <1>1 DEF CallsInv, Reported

\* The step Answered.
LEMMA AnsweredKeeps ==
    ASSUME CallsInv, Answered
    PROVE  CallsInv'
<1>1. HeadIsThere
  BY DEF Answered, HeadIsThere
<1>2. Reported
  BY <1>1, SucceededReports, RefusalReports DEF Answered
<1>3. /\ aborted' \in BOOLEAN /\ failing' \in 0..MaxFailing
      /\ hasKey' = hasKey /\ scope' = scope
  BY DEF Answered, CallsInv, CallsTypeOK
<1> QED BY <1>1, <1>2, <1>3, ReportKeeps

\* The step BodyCut.
LEMMA BodyCutKeeps ==
    ASSUME CallsInv, NEW bySignal \in BOOLEAN, BodyCut(bySignal)
    PROVE  CallsInv'
<1>1. HeadIsThere
  BY DEF BodyCut, HeadIsThere
<1>2. /\ aborted' \in BOOLEAN /\ failing' \in 0..MaxFailing
      /\ hasKey' = hasKey /\ scope' = scope
  BY FailingAssumption DEF BodyCut, Fails, CallsInv, CallsTypeOK
<1>3. CASE answer # 200
  <2>1. Refusal(FALSE)
    BY <1>3 DEF BodyCut
  <2> QED BY <1>1, <1>2, <1>3, <2>1, RefusalReports, ReportKeeps
<1>4. CASE answer = 200 /\ Leg = "bucket"
  <2>1. Succeeded
    BY <1>4 DEF BodyCut
  <2> QED BY <1>1, <1>2, <1>4, <2>1, SucceededReports, ReportKeeps
<1>5. CASE answer = 200 /\ Leg # "bucket"
  <2>1. /\ phase' = "done" /\ outcome' \in {"abort", "raw"} /\ leg' = leg
        /\ attempts' = attempts
    BY <1>5 DEF BodyCut, Told
  <2>2. /\ operation \in Methods
        /\ leg \in 1..Len(operation.legs) /\ leg \in 1..MaxLegs
        /\ attempts \in 0..1 /\ attempts <= operation.retries
        /\ sent[leg] = attempts + 1
        /\ ~Writes(Leg) => performed[leg] = 0
    BY <1>1, FetchingFacts
  <2>3. NothingYet' /\ AtALeg' /\ EarlierLegs' /\ LaterLegs'
    BY <1>1, <2>1 DEF HeadIsThere, CallsInv, NothingYet, AtALeg, EarlierLegs, LaterLegs
  <2>4. Attempted' /\ Outcome'
    BY <1>1, <2>1, <2>2 DEF HeadIsThere, Attempted, Outcome, RefusedKinds
  <2>6. Done'
    BY <1>1, <2>1, <2>2 DEF HeadIsThere, Done, Leg
  <2>5. Reported
    BY <2>1, <2>2, <2>3, <2>4, <2>6 DEF Reported, Outcomes
  <2> QED BY <1>1, <1>2, <2>5, ReportKeeps
<1> QED BY <1>3, <1>4, <1>5

\* The step Waited.
LEMMA WaitedKeeps ==
    ASSUME CallsInv, Waited
    PROVE  CallsInv'
<1>1. phase = "waiting"
  BY DEF Waited
<1>2. /\ Sound(operation) /\ leg \in 1..Len(operation.legs)
      /\ Writes(Leg) => operation.retries = 0
      /\ leg \in 1..MaxLegs /\ attempts \in 0..1
  BY <1>1, LegSound DEF CallsInv, CallsTypeOK
<1>3. /\ operation' = operation /\ leg' = leg /\ request' = request /\ answer' = answer
      /\ sent' = sent /\ performed' = performed
      /\ \/ phase' = "done" /\ outcome' = "server" /\ attempts' = attempts
         \/ phase' = "ready" /\ outcome' = outcome /\ attempts' = attempts + 1
  BY DEF Waited, Told
<1>4. /\ request = "none" /\ sent[leg] = attempts + 1 /\ attempts < operation.retries
      /\ operation.retries \in 0..1 /\ outcome = "none"
  BY <1>1, <1>2 DEF CallsInv, Attempted, Sound
<1>5. CallsTypeOK'
  <2>1. attempts' \in 0..1
    BY <1>2, <1>3, <1>4
  <2>2. aborted' \in BOOLEAN /\ outcome' \in Outcomes
    BY <1>3 DEF Waited, CallsInv, CallsTypeOK, Outcomes, KilnErrors
  <2> QED BY <1>3, <2>1, <2>2 DEF Waited, CallsInv, CallsTypeOK
<1>6. NothingYet' /\ AtALeg' /\ EarlierLegs' /\ LaterLegs'
  BY <1>1, <1>3 DEF CallsInv, NothingYet, AtALeg, EarlierLegs, LaterLegs
<1>7. Attempted'
  BY <1>1, <1>2, <1>3, <1>4 DEF Attempted
<1>8. ~Writes(Leg) /\ performed[leg] = 0
  BY <1>1, <1>2, <1>4 DEF CallsInv, Done
<1>9. Done' /\ Outcome'
  BY <1>3, <1>4, <1>8 DEF Done, Outcome, RefusedKinds, Leg
<1> QED BY <1>5, <1>6, <1>7, <1>9 DEF CallsInv

LEMMA StepKeeps ==
    ASSUME CallsInv, [CallsNext]_callVars
    PROVE  CallsInv'
<1>1. CASE CallsNext
  BY <1>1, CallKeeps, SendKeeps, AbortKeeps, LineFailsKeeps, AnsweredKeeps, WaitedKeeps,
     ServeKeeps, BodyCutKeeps DEF CallsNext
<1>2. CASE UNCHANGED callVars
  BY <1>2 DEF callVars, CallsInv, CallsTypeOK, NothingYet, AtALeg, EarlierLegs, LaterLegs,
     Attempted, Done, Outcome, Leg
<1> QED BY <1>1, <1>2

\* The invariant says what the callers are told.
LEMMA InvTells ==
    ASSUME CallsInv
    PROVE  ToldWhatHappened
<1> DEFINE legs == 1..Len(operation.legs)
           writeLegs == {l \in legs : Writes(operation.legs[l])}
<1>1. CASE phase = "idle"
  <2>1. operation.legs = << >> /\ outcome = "none"
    BY <1>1 DEF CallsInv, NothingYet, NoOperation, Method
  <2>2. legs = {}
    BY <2>1
  <2> QED BY <2>1, <2>2 DEF ToldWhatHappened
<1>2. CASE phase # "idle"
  <2>1. /\ Sound(operation) /\ leg \in 1..Len(operation.legs) /\ Leg \in Legs
        /\ Writes(Leg) => operation.retries = 0
        /\ Len(operation.legs) \in 1..MaxLegs
    BY <1>2, LegSound
  <2>n. \A n \in 1..MaxLegs : 1..n \subseteq 1..MaxLegs
    BY DEF MaxLegs
  <2>2. legs \subseteq 1..MaxLegs
    BY <2>1, <2>n
  <2>3. \A l \in legs : l < leg \/ l = leg \/ l > leg
    BY <2>1
  <2>4. \A l \in writeLegs : sent[l] <= 1
    <3>1. CASE Writes(Leg)
      <4>1. attempts = 0 /\ sent[leg] <= 1
        BY <1>2, <2>1, <3>1 DEF CallsInv, CallsTypeOK, Attempted, Sound
      <4> QED BY <1>2, <2>2, <2>3, <4>1 DEF CallsInv, EarlierLegs, LaterLegs
    <3>2. CASE ~Writes(Leg)
      BY <1>2, <2>2, <2>3, <3>2 DEF CallsInv, EarlierLegs, LaterLegs, Leg
    <3> QED BY <3>1, <3>2
  <2>5. outcome = "value" => /\ \A l \in legs : sent[l] >= 1
                             /\ \A l \in writeLegs : performed[l] = 1
    <3> SUFFICES ASSUME outcome = "value"
                 PROVE  /\ \A l \in legs : sent[l] >= 1
                        /\ \A l \in writeLegs : performed[l] = 1
      OBVIOUS
    <3>1. \A l \in legs : l < leg \/ l = leg
      BY <2>1, <2>3 DEF CallsInv, Outcome, MaxLegs
    <3>2. sent[leg] >= 1 /\ (Writes(operation.legs[leg]) => performed[leg] = 1)
      BY DEF CallsInv, Outcome, Leg
    <3> QED BY <1>2, <2>2, <3>1, <3>2 DEF CallsInv, EarlierLegs
  <2>6. outcome \in {"auth", "not_found", "validation", "conflict", "rate_limit", "verdict"} =>
            performed[leg] = 0 /\ \A l \in legs : l > leg => sent[l] = 0
    BY <2>2 DEF CallsInv, Outcome, LaterLegs, RefusedKinds
  <2>7. outcome = "config" => \A l \in legs : sent[l] = 0
    <3> SUFFICES ASSUME outcome = "config"
                 PROVE  \A l \in legs : sent[l] = 0
      OBVIOUS
    <3>1. leg = 1 /\ sent[1] = 0
      BY DEF CallsInv, Outcome
    <3>2. \A l \in legs : l = 1 \/ l > leg
      BY <3>1, <2>1 DEF MaxLegs
    <3> QED BY <2>2, <3>1, <3>2 DEF CallsInv, LaterLegs
  <2> QED BY <2>4, <2>5, <2>6, <2>7 DEF ToldWhatHappened
<1> QED BY <1>1, <1>2

-----------------------------------------------------------------------------
(***************************************************************************)
(* The theorems.                                                           *)
(***************************************************************************)

\* Whatever is lost, cut off, retried or aborted, a call stays of the kind
\* described above.
THEOREM CallsInvariant == CallsSpec => []CallsInv
<1>1. CallsInit => CallsInv
  BY CallsStarts
<1>2. CallsInv /\ [CallsNext]_callVars => CallsInv'
  BY StepKeeps
<1> QED BY <1>1, <1>2, PTL DEF CallsSpec

\* The caller of the SDK is told what happened to its call.
THEOREM CallersTold == CallsSpec => []ToldWhatHappened
<1>1. CallsInv => ToldWhatHappened
  BY InvTells
<1> QED BY <1>1, CallsInvariant, PTL

(***************************************************************************)
(* Frames: the operations on a line, and the answers to joins among them.  *)
(***************************************************************************)

OpsOf(frames) == UNION {frames[i].ops : i \in 1..Len(frames)}
OksOf(frames) == {frames[i] : i \in {j \in 1..Len(frames) : frames[j].kind = "ok"}}

LEMMA NoFrames == OpsOf(<< >>) = {} /\ OksOf(<< >>) = {}
BY DEF OpsOf, OksOf

LEMMA OneFrame ==
    ASSUME NEW f \in Frames
    PROVE  /\ << f >> \in Seq(Frames) /\ OpsOf(<< f >>) = f.ops
           /\ OksOf(<< f >>) \subseteq {f}
<1>1. << f >> \in Seq(Frames) /\ Len(<< f >>) = 1 /\ << f >>[1] = f
  OBVIOUS
<1>2. 1..1 = {1}
  OBVIOUS
<1> QED BY <1>1, <1>2 DEF OpsOf, OksOf

LEMMA AppendedFrame ==
    ASSUME NEW s \in Seq(Frames), NEW f \in Frames
    PROVE  /\ Append(s, f) \in Seq(Frames) /\ Append(s, f) # << >>
           /\ OpsOf(Append(s, f)) = OpsOf(s) \union f.ops
           /\ f.kind # "ok" => OksOf(Append(s, f)) = OksOf(s)
<1> DEFINE t == Append(s, f)
<1>1. /\ t \in Seq(Frames) /\ Len(t) = Len(s) + 1 /\ t[Len(s) + 1] = f /\ Len(s) \in Nat
      /\ \A i \in 1..Len(s) : t[i] = s[i]
      /\ t # << >>
  BY AppendProperties, LenProperties, EmptySeq
<1>2. 1..Len(t) = (1..Len(s)) \union {Len(s) + 1}
  BY <1>1
<1> HIDE DEF t
<1>3. OpsOf(t) = OpsOf(s) \union f.ops
  BY <1>1, <1>2 DEF OpsOf
<1>4. f.kind # "ok" => OksOf(t) = OksOf(s)
  BY <1>1, <1>2 DEF OksOf
<1> QED BY <1>1, <1>3, <1>4 DEF t

LEMMA FirstFrame ==
    ASSUME NEW s \in Seq(Frames), s # << >>
    PROVE  /\ Head(s) \in Frames /\ Tail(s) \in Seq(Frames)
           /\ OpsOf(s) = Head(s).ops \union OpsOf(Tail(s))
           /\ OksOf(Tail(s)) \subseteq OksOf(s)
           /\ Head(s).kind = "ok" => Head(s) \in OksOf(s)
<1> DEFINE t == Tail(s)
<1>1. /\ t \in Seq(Frames) /\ Len(t) = Len(s) - 1 /\ Len(s) \in Nat \ {0} /\ Head(s) = s[1]
      /\ \A i \in 1..Len(t) : t[i] = s[i + 1]
      /\ Head(s) \in Frames
  BY HeadTailProperties, LenProperties, EmptySeq
<1> HIDE DEF t
<1>2. \A i \in 1..Len(t) : i + 1 \in 1..Len(s)
  BY <1>1
<1>3. \A i \in 1..Len(s) : i = 1 \/ (i - 1 \in 1..Len(t) /\ (i - 1) + 1 = i)
  BY <1>1
<1>4. 1 \in 1..Len(s)
  BY <1>1
<1>5. OpsOf(s) = Head(s).ops \union OpsOf(t)
  <2>1. ASSUME NEW x \in OpsOf(s)
        PROVE  x \in Head(s).ops \union OpsOf(t)
    <3>1. PICK i \in 1..Len(s) : x \in s[i].ops
      BY DEF OpsOf
    <3>2. CASE i = 1
      BY <1>1, <3>1, <3>2
    <3>3. CASE i # 1
      <4>1. i - 1 \in 1..Len(t) /\ t[i - 1] = s[i]
        BY <1>1, <1>3, <3>3
      <4> QED BY <3>1, <4>1 DEF OpsOf
    <3> QED BY <3>2, <3>3
  <2>2. Head(s).ops \subseteq OpsOf(s)
    BY <1>1, <1>4 DEF OpsOf
  <2>3. OpsOf(t) \subseteq OpsOf(s)
    BY <1>1, <1>2 DEF OpsOf
  <2> QED BY <2>1, <2>2, <2>3
<1>6. OksOf(t) \subseteq OksOf(s)
  BY <1>1, <1>2 DEF OksOf
<1>7. Head(s).kind = "ok" => Head(s) \in OksOf(s)
  BY <1>1, <1>4 DEF OksOf
<1> QED BY <1>1, <1>5, <1>6, <1>7 DEF t

\* All the operations there are on the pages' side, in the room and in the
\* checkpoint.
Around ==
    (UNION {page[p].doc \union OpsOf(up[p]) : p \in Peers}) \union room.doc \union saved.checkpoint

\* A page whose join was the first of its room; one that will seed if it is.
Leads(p) == \E frame \in OksOf(down[p]) : frame.peers = 1
Seeding(p) == page[p].ready = "no" /\ \E frame \in OksOf(down[p]) : frame.peers = 1 /\ frame.ops = {}

-----------------------------------------------------------------------------
(***************************************************************************)
(* The inductive invariant of the room.                                    *)
(***************************************************************************)

\* Frames are on a channel that has a process, and no answer goes up; a page that was never opened, or
\* was closed, hears nothing and keeps nothing; one that waits for its join has
\* nothing on its way.
LinesHaveEnds ==
    \A p \in Peers :
        /\ down[p] # << >> => session[p] # 0 /\ IsOpen(p)
        /\ up[p] # << >> => session[p] # 0
        /\ OksOf(up[p]) = {}
        /\ page[p].state = "joined" => session[p] # 0
        /\ page[p].state = "joining" => up[p] = << >>
        /\ ~IsOpen(p) => page[p].doc = {}
        /\ page[p].state = "unborn" => session[p] = 0

\* A channel's process is a client of the room, which is alive.
Attached ==
    /\ ~room.alive => room = NoRoom
    /\ ~crashed => \A p \in Peers : session[p] # 0 => session[p] \in room.clients

\* What the room has is what it was restored from and all it was told; what it
\* has not written is marked.
RoomKeeps ==
    ~crashed =>
        /\ room.alive => saved.checkpoint \subseteq room.doc /\ saved.record \subseteq room.doc
        /\ room.alive /\ ~room.dirty => room.doc \subseteq saved.checkpoint
        /\ ~room.alive => saved.record \subseteq saved.checkpoint

\* What a page was sent is in the room; what an open page sent is in the page;
\* what a page that is joined has is in the room or on its way.
PagesMatch ==
    ~crashed =>
        \A p \in Peers :
            /\ OpsOf(down[p]) \subseteq room.doc
            /\ IsOpen(p) => OpsOf(up[p]) \subseteq page[p].doc
            /\ page[p].state = "joined" => page[p].doc \subseteq room.doc \union OpsOf(up[p])

\* Every word that was not abandoned is around.
WordsAround == ~crashed => words \ abandoned \subseteq Around

\* At most one seed that is no stray is around; before the first page of a room
\* seeds it, none is; and a room has one first page.
OneSeed ==
    ~crashed =>
        /\ \A s, t \in Seeds(Around) \ strays : s = t
        /\ \A p \in Peers : Seeding(p) => Seeds(Around) \subseteq strays
        /\ \A p, q \in Peers : Leads(p) /\ Leads(q) => p = q

CollabInv ==
    /\ CollabTypeOK
    /\ LinesHaveEnds /\ Attached /\ RoomKeeps /\ PagesMatch /\ WordsAround /\ OneSeed

-----------------------------------------------------------------------------
(***************************************************************************)
(* Types.                                                                  *)
(***************************************************************************)

PageRecords == [state : {"unborn", "joining", "joined", "closed"}, doc : SUBSET Ops,
          ready : {"no", "first", "later"}]
Rooms == [alive : BOOLEAN, doc : SUBSET Ops, clients : SUBSET (1..joins), dirty : BOOLEAN,
          unwritten : BOOLEAN]

\* A room's first state, empty or restored, and the rooms of a later state.
LEMMA RoomTypes ==
    ASSUME CollabTypeOK
    PROVE  /\ NoRoom \in Rooms /\ LiveRoom \in Rooms
           /\ joins \in Nat /\ 1..joins \subseteq 1..(joins + 1)
<1>1. /\ joins \in Nat /\ room \in Rooms /\ saved.checkpoint \in SUBSET Ops
  BY DEF CollabTypeOK, Rooms
<1>2. NoRoom \in Rooms
  BY DEF NoRoom, Rooms
<1>3. [NoRoom EXCEPT !.alive = TRUE, !.doc = saved.checkpoint] \in Rooms
  BY <1>1 DEF NoRoom, Rooms
<1>4. LiveRoom \in Rooms
  BY <1>1, <1>3 DEF LiveRoom
<1> QED BY <1>1, <1>2, <1>4

LEMMA SeedsAreOps ==
    /\ \A p \in Peers : Seed(p) \in Ops
    /\ \A ops : Seeds(ops) \subseteq ops
BY DEF Ops, Seeds

\* What whenReady makes of a page.
LEMMA ReadyPage ==
    ASSUME NEW p \in Peers, NEW pg \in PageRecords, NEW first \in BOOLEAN
    PROVE  /\ Ready(p, pg, first) \in PageRecords
           /\ Ready(p, pg, first).state = pg.state
           /\ Ready(p, pg, first).ready # "no"
           /\ \/ Ready(p, pg, first).doc = pg.doc
              \/ /\ pg.ready = "no" /\ first /\ pg.doc = {}
                 /\ Ready(p, pg, first).doc = {Seed(p)}
BY SeedsAreOps DEF Ready, PageRecords

LEMMA SentTypes ==
    ASSUME NEW p \in Peers, NEW ops \in SUBSET Ops, up \in [Peers -> Seq(Frames)]
    PROVE  /\ Sent(p, ops) \in [Peers -> Seq(Frames)]
           /\ \A q \in Peers : q # p => Sent(p, ops)[q] = up[q]
           /\ OpsOf(Sent(p, ops)[p]) = OpsOf(up[p]) \union ops
           /\ OksOf(Sent(p, ops)[p]) = OksOf(up[p])
<1>1. CASE ops = {}
  BY <1>1 DEF Sent
<1>2. CASE ops # {}
  <2> DEFINE f == Update(ops)
  <2>1. f \in Frames /\ f.ops = ops /\ f.kind # "ok"
    BY DEF Update, Frames
  <2>2. Sent(p, ops) = [up EXCEPT ![p] = Append(up[p], f)]
    BY <1>2 DEF Sent
  <2> HIDE DEF f
  <2>3. up[p] \in Seq(Frames)
    OBVIOUS
  <2>4. /\ Append(up[p], f) \in Seq(Frames)
        /\ OpsOf(Append(up[p], f)) = OpsOf(up[p]) \union ops
        /\ OksOf(Append(up[p], f)) = OksOf(up[p])
    BY <2>1, <2>3, AppendedFrame
  <2>5. Sent(p, ops)[p] = Append(up[p], f)
    BY <2>2
  <2> QED BY <2>2, <2>4, <2>5
<1> QED BY <1>1, <1>2

LEMMA CollabStarts ==
    ASSUME CollabInit
    PROVE  CollabInv
<1>1. CollabTypeOK
  <2>1. page \in [Peers -> PageRecords]
    BY DEF CollabInit, Unborn, NoPage, PageRecords
  <2>2. << >> \in Seq(Frames)
    BY EmptySeq
  <2>3. up \in [Peers -> Seq(Frames)] /\ down \in [Peers -> Seq(Frames)]
    BY <2>2 DEF CollabInit
  <2>4. session \in [Peers -> 0..joins]
    BY DEF CollabInit
  <2>5. room \in Rooms /\ saved \in [checkpoint : SUBSET Ops, record : SUBSET Ops]
    BY DEF CollabInit, NoRoom, Rooms
  <2>6. /\ words \subseteq Ops /\ strays \subseteq Ops /\ abandoned \subseteq Ops
        /\ joins \in Nat /\ trouble \in 0..MaxTrouble
    BY TroubleAssumption DEF CollabInit
  <2>7. crashed \in BOOLEAN
    BY DEF CollabInit
  <2> QED BY <2>1, <2>3, <2>4, <2>5, <2>6, <2>7 DEF CollabTypeOK, PageRecords, Rooms
<1>2. \A p \in Peers : /\ down[p] = << >> /\ up[p] = << >> /\ session[p] = 0
                       /\ page[p].state = "unborn" /\ page[p].doc = {} /\ ~IsOpen(p)
  BY DEF CollabInit, Unborn, NoPage, IsOpen
<1>3. /\ room = NoRoom /\ ~room.alive /\ room.doc = {} /\ saved.record = {}
      /\ saved.checkpoint = {} /\ words = {}
  BY DEF CollabInit, NoRoom
<1>4. LinesHaveEnds /\ Attached /\ RoomKeeps
  BY <1>2, <1>3, NoFrames DEF LinesHaveEnds, Attached, RoomKeeps
<1>5. PagesMatch /\ WordsAround
  BY <1>2, <1>3, NoFrames DEF PagesMatch, WordsAround
<1>6. Around = {} /\ Seeds(Around) = {}
  BY <1>2, <1>3, NoFrames DEF Around, Seeds
<1>7. \A p \in Peers : ~Leads(p)
  BY <1>2, NoFrames DEF Leads
<1>8. OneSeed
  BY <1>6, <1>7 DEF OneSeed
<1> QED BY <1>1, <1>4, <1>5, <1>8 DEF CollabInv

LEMMA TypeShape ==
    CollabTypeOK <=>
        /\ page \in [Peers -> PageRecords] /\ session \in [Peers -> 0..joins]
        /\ up \in [Peers -> Seq(Frames)] /\ down \in [Peers -> Seq(Frames)]
        /\ room \in Rooms /\ saved \in [checkpoint : SUBSET Ops, record : SUBSET Ops]
        /\ words \subseteq Ops /\ strays \subseteq Ops /\ abandoned \subseteq Ops
        /\ crashed \in BOOLEAN /\ joins \in Nat /\ trouble \in 0..MaxTrouble
BY DEF CollabTypeOK, PageRecords, Rooms

LEMMA PageTypes ==
    ASSUME CollabTypeOK, NEW p \in Peers
    PROVE  /\ page[p] \in PageRecords /\ page[p].doc \in SUBSET Ops
           /\ \A q \in Peers : page[q].doc \in SUBSET Ops
           /\ \A pg \in PageRecords : [page EXCEPT ![p] = pg] \in [Peers -> PageRecords]
           /\ \A state \in {"unborn", "joining", "joined", "closed"} :
                 [page EXCEPT ![p].state = state] \in [Peers -> PageRecords]
           /\ \A doc \in SUBSET Ops : [page EXCEPT ![p].doc = doc] \in [Peers -> PageRecords]
           /\ NoPage \in PageRecords
<1>1. page \in [Peers -> PageRecords]
  BY TypeShape
<1>2. page[p] \in PageRecords /\ page[p].doc \in SUBSET Ops /\ \A q \in Peers : page[q].doc \in SUBSET Ops
  BY <1>1 DEF PageRecords
<1>3. \A state \in {"unborn", "joining", "joined", "closed"} :
          [page EXCEPT ![p].state = state] \in [Peers -> PageRecords]
  BY <1>1 DEF PageRecords
<1>4. \A doc \in SUBSET Ops : [page EXCEPT ![p].doc = doc] \in [Peers -> PageRecords]
  BY <1>1 DEF PageRecords
<1>5. NoPage \in PageRecords
  BY DEF NoPage, PageRecords
<1>6. \A pg \in PageRecords : [page EXCEPT ![p] = pg] \in [Peers -> PageRecords]
  BY <1>1
<1> QED BY <1>2, <1>3, <1>4, <1>5, <1>6

LEMMA LineTypes ==
    ASSUME CollabTypeOK, NEW p \in Peers
    PROVE  /\ up[p] \in Seq(Frames) /\ down[p] \in Seq(Frames)
           /\ \A s \in Seq(Frames) : /\ [up EXCEPT ![p] = s] \in [Peers -> Seq(Frames)]
                                     /\ [down EXCEPT ![p] = s] \in [Peers -> Seq(Frames)]
           /\ << >> \in Seq(Frames)
           /\ up[p] # << >> => Head(up[p]) \in Frames /\ Tail(up[p]) \in Seq(Frames)
           /\ down[p] # << >> => Head(down[p]) \in Frames /\ Tail(down[p]) \in Seq(Frames)
           /\ \A n \in 0..joins : [session EXCEPT ![p] = n] \in [Peers -> 0..joins]
<1>1. /\ up \in [Peers -> Seq(Frames)] /\ down \in [Peers -> Seq(Frames)]
      /\ session \in [Peers -> 0..joins]
  BY TypeShape
<1>2. up[p] \in Seq(Frames) /\ down[p] \in Seq(Frames) /\ << >> \in Seq(Frames)
  BY <1>1, EmptySeq
<1>3. /\ up[p] # << >> => Head(up[p]) \in Frames /\ Tail(up[p]) \in Seq(Frames)
      /\ down[p] # << >> => Head(down[p]) \in Frames /\ Tail(down[p]) \in Seq(Frames)
  BY <1>2, FirstFrame
<1>4. \A s \in Seq(Frames) : /\ [up EXCEPT ![p] = s] \in [Peers -> Seq(Frames)]
                             /\ [down EXCEPT ![p] = s] \in [Peers -> Seq(Frames)]
  BY <1>1
<1>5. \A n \in 0..joins : [session EXCEPT ![p] = n] \in [Peers -> 0..joins]
  BY <1>1
<1> QED BY <1>2, <1>3, <1>4, <1>5

\* The steps of a page, of a channel, and of the room.
PageStep(p) ==
    Acquire(p) \/ HearJoin(p) \/ HearUpdate(p) \/ TypeWord(p) \/ Release(p) \/ CloseOffline(p)
ChannelStep(p) ==
    \/ Join(p) \/ Receive(p) \/ Close(p) \/ ChannelEnds(p)
    \/ \E reason \in {"over budget", "unavailable"} : JoinRefused(p, reason)
RoomStep ==
    \/ \E client \in 1..joins : ClientDown(client)
    \/ Checkpoint \/ IdleStop \/ RoomDies

LEMMA PageStepTypes ==
    ASSUME CollabTypeOK, NEW p \in Peers, PageStep(p)
    PROVE  CollabTypeOK'
<1>s. /\ page \in [Peers -> PageRecords] /\ session \in [Peers -> 0..joins]
      /\ up \in [Peers -> Seq(Frames)] /\ down \in [Peers -> Seq(Frames)]
      /\ room \in Rooms /\ saved \in [checkpoint : SUBSET Ops, record : SUBSET Ops]
      /\ words \subseteq Ops /\ strays \subseteq Ops /\ abandoned \subseteq Ops
      /\ crashed \in BOOLEAN /\ joins \in Nat /\ trouble \in 0..MaxTrouble
  BY TypeShape
<1>r. joins' = joins => Rooms' = Rooms
  BY DEF Rooms
<1>q. ASSUME /\ page' \in [Peers -> PageRecords] /\ session' \in [Peers -> 0..joins]
             /\ up' \in [Peers -> Seq(Frames)] /\ down' \in [Peers -> Seq(Frames)]
             /\ words' \subseteq Ops /\ abandoned' \subseteq Ops
             /\ UNCHANGED <<room, saved, strays, crashed, joins, trouble>>
      PROVE  CollabTypeOK'
  BY <1>s, <1>r, <1>q DEF CollabTypeOK, PageRecords, Rooms
<1>1. CASE Acquire(p)
  <2>1. page' \in [Peers -> PageRecords]
    BY <1>1, PageTypes DEF Acquire
  <2> QED BY <1>1, <1>s, <1>q, <2>1 DEF Acquire
<1>2. CASE HearJoin(p)
  <2> DEFINE frame == Head(down[p])
             merged == [page[p] EXCEPT !.state = "joined", !.doc = @ \union frame.ops]
             first == frame.peers = 1
             ready == Ready(p, merged, first)
             gap == ready.doc \ frame.ops
  <2>1. frame \in Frames /\ Tail(down[p]) \in Seq(Frames)
    BY <1>2, LineTypes DEF HearJoin
  <2>2. merged \in PageRecords
    BY <2>1, PageTypes DEF PageRecords, Frames
  <2>f. first \in BOOLEAN
    OBVIOUS
  <2>4. /\ page' = [page EXCEPT ![p] = ready] /\ up' = Sent(p, gap)
        /\ down' = [down EXCEPT ![p] = Tail(down[p])]
        /\ UNCHANGED <<session, room, saved, words, strays, abandoned, crashed, joins, trouble>>
    BY <1>2 DEF HearJoin
  <2> HIDE DEF merged, frame, first
  <2>3. ready \in PageRecords /\ gap \in SUBSET Ops
    BY <2>2, <2>f, ReadyPage DEF PageRecords
  <2> HIDE DEF ready, gap
  <2>5. page' \in [Peers -> PageRecords] /\ down' \in [Peers -> Seq(Frames)]
    BY <2>1, <2>3, <2>4, PageTypes, LineTypes
  <2>6. up' \in [Peers -> Seq(Frames)]
    BY <1>s, <2>3, <2>4, SentTypes
  <2> QED BY <1>s, <1>q, <2>4, <2>5, <2>6
<1>3. CASE HearUpdate(p)
  <2> DEFINE frame == Head(down[p])
  <2>1. frame \in Frames /\ Tail(down[p]) \in Seq(Frames)
    BY <1>3, LineTypes DEF HearUpdate
  <2>2. /\ page' = [page EXCEPT ![p].doc = page[p].doc \union frame.ops]
        /\ down' = [down EXCEPT ![p] = Tail(down[p])]
        /\ UNCHANGED <<session, up, room, saved, words, strays, abandoned, crashed, joins, trouble>>
    BY <1>3 DEF HearUpdate
  <2>3. page[p].doc \union frame.ops \in SUBSET Ops
    BY <2>1, PageTypes DEF Frames
  <2> HIDE DEF frame
  <2>4. page' \in [Peers -> PageRecords] /\ down' \in [Peers -> Seq(Frames)]
    BY <2>1, <2>2, <2>3, PageTypes, LineTypes
  <2> QED BY <1>s, <1>q, <2>2, <2>4
<1>4. CASE TypeWord(p)
  <2> DEFINE word == Word(Cardinality(words) + 1)
             one == {word}
  <2>1. /\ word \in Ops /\ words' = words \union {word}
        /\ page' = [page EXCEPT ![p].doc = page[p].doc \union {word}]
        /\ up' = Sent(p, one) \/ up' = up
        /\ UNCHANGED <<session, down, room, saved, strays, abandoned, crashed, joins, trouble>>
    BY <1>4 DEF TypeWord
  <2>2. page[p].doc \union {word} \in SUBSET Ops /\ one \in SUBSET Ops
    BY <2>1, PageTypes
  <2> HIDE DEF word, one
  <2>3. page' \in [Peers -> PageRecords]
    BY <2>1, <2>2, PageTypes
  <2>4. up' \in [Peers -> Seq(Frames)]
    <3>1. Sent(p, one) \in [Peers -> Seq(Frames)]
      BY <1>s, <2>2, SentTypes
    <3>2. up' = Sent(p, one) \/ up' = up
      BY <2>1
    <3> QED BY <1>s, <3>1, <3>2
  <2> QED BY <1>s, <1>q, <2>1, <2>3, <2>4
<1>5. CASE Release(p)
  <2>1. page' \in [Peers -> PageRecords] /\ down' \in [Peers -> Seq(Frames)]
    BY <1>5, PageTypes, LineTypes DEF Release
  <2> QED BY <1>5, <1>s, <1>q, <2>1 DEF Release
<1>6. CASE CloseOffline(p)
  <2>1. page' \in [Peers -> PageRecords] /\ down' \in [Peers -> Seq(Frames)]
    BY <1>6, PageTypes, LineTypes DEF CloseOffline
  <2>2. session' \in [Peers -> 0..joins]
    BY <1>6, <1>s, LineTypes DEF CloseOffline
  <2>3. abandoned' \subseteq Ops
    BY <1>6, <1>s, PageTypes DEF CloseOffline
  <2> QED BY <1>6, <1>s, <1>q, <2>1, <2>2, <2>3 DEF CloseOffline
<1> QED BY <1>1, <1>2, <1>3, <1>4, <1>5, <1>6 DEF PageStep

LEMMA ChannelStepTypes ==
    ASSUME CollabTypeOK, NEW p \in Peers, ChannelStep(p)
    PROVE  CollabTypeOK'
<1>s. /\ page \in [Peers -> PageRecords] /\ session \in [Peers -> 0..joins]
      /\ up \in [Peers -> Seq(Frames)] /\ down \in [Peers -> Seq(Frames)]
      /\ room \in Rooms /\ saved \in [checkpoint : SUBSET Ops, record : SUBSET Ops]
      /\ words \subseteq Ops /\ strays \subseteq Ops /\ abandoned \subseteq Ops
      /\ crashed \in BOOLEAN /\ joins \in Nat /\ trouble \in 0..MaxTrouble
  BY TypeShape
<1>q. ASSUME /\ page' \in [Peers -> PageRecords] /\ session' \in [Peers -> 0..joins]
             /\ up' \in [Peers -> Seq(Frames)] /\ down' \in [Peers -> Seq(Frames)]
             /\ room' \in Rooms /\ strays' \subseteq Ops /\ trouble' \in 0..MaxTrouble
             /\ UNCHANGED <<saved, words, abandoned, crashed, joins>>
      PROVE  CollabTypeOK'
  BY <1>s, <1>q DEF CollabTypeOK, PageRecords, Rooms
<1>j. joins \in Nat
  BY <1>s
<1>t. Troubled => trouble' \in 0..MaxTrouble
  <2>1. trouble \in 0..MaxTrouble
    BY <1>s
  <2> QED BY <2>1, TroubleAssumption DEF Troubled
<1>l. [page EXCEPT ![p].state = "joining"] \in [Peers -> PageRecords]
  BY PageTypes
<1>e. /\ [up EXCEPT ![p] = << >>] \in [Peers -> Seq(Frames)]
      /\ [down EXCEPT ![p] = << >>] \in [Peers -> Seq(Frames)]
      /\ [session EXCEPT ![p] = 0] \in [Peers -> 0..joins]
  <2>1. 0 \in 0..joins
    BY <1>j
  <2> QED BY <2>1, LineTypes
<1>1. CASE Join(p)
  <2> DEFINE doc == LiveRoom.doc
             clients == LiveRoom.clients \union {joins + 1}
             reply == JoinOk(doc, Cardinality(clients))
  <2>1. LiveRoom \in Rooms
    BY RoomTypes
  <2>a. doc \in SUBSET Ops /\ LiveRoom.clients \subseteq 1..joins
    BY <2>1 DEF Rooms
  <2>2. /\ doc \in SUBSET Ops /\ LiveRoom.clients \subseteq 1..joins
        /\ clients \in SUBSET (1..(joins + 1))
    BY <2>a, <1>j
  <2>3. Cardinality(clients) \in Nat
    <3>1. IsFiniteSet(1..(joins + 1))
      <4>1. 1 \in Int /\ joins + 1 \in Int
        BY <1>j
      <4> QED BY <4>1, FS_Interval
    <3>2. IsFiniteSet(clients)
      BY <2>2, <3>1, FS_Subset
    <3> QED BY <3>2, FS_CardinalityType
  <2>4. reply \in Frames
    BY <2>2, <2>3 DEF JoinOk, Frames
  <2>5. /\ joins' = joins + 1 /\ session' = [session EXCEPT ![p] = joins + 1]
        /\ room' = [LiveRoom EXCEPT !.clients = clients]
        /\ down' = [down EXCEPT ![p] = << reply >>]
        /\ strays' = strays \/ strays' = strays \union LeftBehind(p, doc)
        /\ UNCHANGED <<page, up, saved, words, abandoned, crashed, trouble>>
    BY <1>1 DEF Join
  <2> HIDE DEF doc, clients, reply
  <2>6. room' \in Rooms'
    BY <2>1, <2>2, <2>5 DEF Rooms
  <2>7. session' \in [Peers -> 0..joins']
    <3>1. session \in [Peers -> 0..(joins + 1)] /\ joins + 1 \in 0..(joins + 1)
      BY <1>s, <1>j
    <3>2. session' = [session EXCEPT ![p] = joins + 1] /\ joins' = joins + 1
      BY <2>5
    <3> QED BY <3>1, <3>2
  <2>8. down' \in [Peers -> Seq(Frames)]
    BY <1>s, <2>4, <2>5, OneFrame
  <2>9. strays' \subseteq Ops
    <3>1. \A q \in Peers : page[q].doc \subseteq Ops
      BY PageTypes
    <3>2. LeftBehind(p, doc) \subseteq Ops
      BY <3>1 DEF LeftBehind, Seeds
    <3> QED BY <1>s, <2>5, <3>2
  <2>10. joins' \in Nat
    <3>1. joins' = joins + 1
      BY <2>5
    <3> QED BY <1>j, <3>1
  <2> QED BY <1>s, <2>5, <2>6, <2>7, <2>8, <2>9, <2>10 DEF CollabTypeOK, PageRecords, Rooms
<1>2. CASE Receive(p)
  <2> DEFINE frame == Head(up[p])
             heard == {q \in Peers \ {p} : session[q] # 0 /\ IsOpen(q)}
  <2>1. frame \in Frames /\ Tail(up[p]) \in Seq(Frames) /\ << >> \in Seq(Frames)
    BY <1>2, LineTypes DEF Receive
  <2>2. CASE session[p] \in room.clients
    <3>1. /\ room' = [room EXCEPT !.doc = room.doc \union frame.ops, !.dirty = TRUE,
                                  !.unwritten = room.unwritten \/ ~room.dirty]
          /\ up' = [up EXCEPT ![p] = Tail(up[p])]
          /\ down' = [q \in Peers |-> IF q \in heard THEN Append(down[q], frame) ELSE down[q]]
          /\ UNCHANGED <<page, session, saved, words, strays, abandoned, crashed, joins, trouble>>
      BY <1>2, <2>2 DEF Receive, Merged
    <3> HIDE DEF frame, heard
    <3>2. room' \in Rooms
      BY <1>s, <2>1, <3>1 DEF Rooms, Frames
    <3>3. up' \in [Peers -> Seq(Frames)]
      BY <1>s, <2>1, <3>1
    <3>4. \A q \in Peers : Append(down[q], frame) \in Seq(Frames)
      BY <1>s, <2>1, AppendedFrame
    <3>5. down' \in [Peers -> Seq(Frames)]
      BY <1>s, <3>1, <3>4
    <3> QED BY <1>s, <1>q, <3>1, <3>2, <3>3, <3>5
  <2>3. CASE session[p] \notin room.clients
    <3>1. /\ up' = [up EXCEPT ![p] = << >>] /\ down' = [down EXCEPT ![p] = << >>]
          /\ session' = [session EXCEPT ![p] = 0]
          /\ page' = page \/ page' = [page EXCEPT ![p].state = "joining"]
          /\ UNCHANGED <<room, saved, words, strays, abandoned, crashed, joins, trouble>>
      BY <1>2, <2>3 DEF Receive
    <3>2. page' \in [Peers -> PageRecords]
      BY <1>s, <1>l, <3>1
    <3>3. /\ up' \in [Peers -> Seq(Frames)] /\ down' \in [Peers -> Seq(Frames)]
          /\ session' \in [Peers -> 0..joins]
      BY <1>e, <3>1
    <3> QED BY <1>s, <1>q, <3>1, <3>2, <3>3
  <2> QED BY <2>2, <2>3
<1>3. CASE Close(p)
  <2>1. /\ page' \in [Peers -> PageRecords]
        /\ up' \in [Peers -> Seq(Frames)] /\ down' \in [Peers -> Seq(Frames)]
        /\ session' \in [Peers -> 0..joins]
    BY <1>3, <1>l, <1>e DEF Close
  <2>2. trouble' \in 0..MaxTrouble
    BY <1>3, <1>t DEF Close
  <2> QED BY <1>3, <1>s, <1>q, <2>1, <2>2 DEF Close
<1>4. CASE ChannelEnds(p)
  <2>1. session' \in [Peers -> 0..joins]
    BY <1>4, <1>e DEF ChannelEnds
  <2> QED BY <1>4, <1>s, <1>q, <2>1 DEF ChannelEnds
<1>5. ASSUME NEW reason \in {"over budget", "unavailable"}, JoinRefused(p, reason)
      PROVE  CollabTypeOK'
  <2> DEFINE lone == Ready(p, page[p], TRUE)
  <2>1. lone \in PageRecords
    BY PageTypes, ReadyPage
  <2>2. /\ trouble' \in 0..MaxTrouble
        /\ UNCHANGED <<session, up, down, room, saved, words, abandoned, crashed, joins>>
    BY <1>5, <1>t DEF JoinRefused
  <2>3. \/ page' = page /\ strays' = strays
        \/ page' = [page EXCEPT ![p] = lone] /\ strays' = strays \union Seeds(page'[p].doc)
    BY <1>5 DEF JoinRefused
  <2> HIDE DEF lone
  <2>4. page' \in [Peers -> PageRecords]
    BY <1>s, <2>1, <2>3
  <2>5. page'[p].doc \subseteq Ops
    BY <2>4 DEF PageRecords
  <2>6. strays' \subseteq Ops
    BY <1>s, <2>3, <2>5 DEF Seeds
  <2> QED BY <1>s, <1>q, <2>2, <2>4, <2>6
<1> QED BY <1>1, <1>2, <1>3, <1>4, <1>5 DEF ChannelStep

LEMMA RoomStepTypes ==
    ASSUME CollabTypeOK, RoomStep
    PROVE  CollabTypeOK'
<1>s. /\ page \in [Peers -> PageRecords] /\ session \in [Peers -> 0..joins]
      /\ up \in [Peers -> Seq(Frames)] /\ down \in [Peers -> Seq(Frames)]
      /\ room \in Rooms /\ saved \in [checkpoint : SUBSET Ops, record : SUBSET Ops]
      /\ words \subseteq Ops /\ strays \subseteq Ops /\ abandoned \subseteq Ops
      /\ crashed \in BOOLEAN /\ joins \in Nat /\ trouble \in 0..MaxTrouble
  BY TypeShape
<1>q. ASSUME /\ room' \in Rooms /\ saved' \in [checkpoint : SUBSET Ops, record : SUBSET Ops]
             /\ crashed' \in BOOLEAN /\ trouble' \in 0..MaxTrouble
             /\ UNCHANGED <<page, session, up, down, words, strays, abandoned, joins>>
      PROVE  CollabTypeOK'
  BY <1>s, <1>q DEF CollabTypeOK, PageRecords, Rooms
<1>n. NoRoom \in Rooms
  BY RoomTypes
<1>w. /\ Materialized(room) \in [checkpoint : SUBSET Ops, record : SUBSET Ops]
      /\ \A s \in [checkpoint : SUBSET Ops, record : SUBSET Ops] :
            Persisted(room, s) \in [checkpoint : SUBSET Ops, record : SUBSET Ops]
  BY <1>s DEF Materialized, Persisted, Rooms
<1>t. trouble' = trouble \/ Troubled => trouble' \in 0..MaxTrouble
  <2>1. trouble \in 0..MaxTrouble
    BY <1>s
  <2> QED BY <2>1, TroubleAssumption DEF Troubled
<1>1. ASSUME NEW client \in 1..joins, ClientDown(client)
      PROVE  CollabTypeOK'
  <2>1. room' \in Rooms
    BY <1>1, <1>s DEF ClientDown, Rooms
  <2>2. /\ saved' \in {saved, Materialized(room)}
        /\ trouble' = trouble \/ Troubled
        /\ UNCHANGED <<page, session, up, down, words, strays, abandoned, crashed, joins>>
    BY <1>1 DEF ClientDown, Skipped
  <2>3. saved' \in [checkpoint : SUBSET Ops, record : SUBSET Ops] /\ crashed' \in BOOLEAN
    BY <1>s, <1>w, <2>2
  <2>4. trouble' \in 0..MaxTrouble
    BY <1>t, <2>2
  <2> QED BY <1>q, <2>1, <2>2, <2>3, <2>4
<1>2. CASE Checkpoint
  <2>1. room' \in Rooms
    BY <1>2, <1>s DEF Checkpoint, Rooms
  <2> QED BY <1>2, <1>s, <1>q, <1>w, <2>1 DEF Checkpoint
<1>3. CASE IdleStop
  <2>1. /\ saved' \in {Persisted(room, saved), Persisted(room, Materialized(room))}
        /\ trouble' = trouble \/ Troubled
        /\ room' = NoRoom
        /\ UNCHANGED <<page, session, up, down, words, strays, abandoned, crashed, joins>>
    BY <1>3 DEF IdleStop, Skipped
  <2>2. saved' \in [checkpoint : SUBSET Ops, record : SUBSET Ops] /\ crashed' \in BOOLEAN
    BY <1>s, <1>w, <2>1
  <2>3. room' \in Rooms
    BY <1>n, <2>1
  <2>4. trouble' \in 0..MaxTrouble
    BY <1>t, <2>1
  <2> QED BY <1>q, <2>1, <2>2, <2>3, <2>4
<1>4. CASE RoomDies
  <2>1. trouble' \in 0..MaxTrouble /\ crashed' \in BOOLEAN
    <3>1. trouble \in 0..MaxTrouble
      BY <1>s
    <3> QED BY <1>4, <3>1, TroubleAssumption DEF RoomDies, Troubled
  <2> QED BY <1>4, <1>s, <1>q, <1>n, <2>1 DEF RoomDies
<1> QED BY <1>1, <1>2, <1>3, <1>4 DEF RoomStep

-----------------------------------------------------------------------------
(***************************************************************************)
(* The room's invariant is inductive.                                      *)
(***************************************************************************)

\* What is around still is, but for what was abandoned: so are the words.
LEMMA WordsKept ==
    ASSUME WordsAround, ~crashed' => ~crashed, abandoned \subseteq abandoned',
           ~crashed' => Around \ abandoned' \subseteq Around',
           words' \subseteq words \union Around'
    PROVE  WordsAround'
BY DEF WordsAround

\* A step that brings no seed but strays, and no answer to a join, keeps the
\* seed one.
LEMMA SeedsKept ==
    ASSUME OneSeed, ~crashed' => ~crashed, strays \subseteq strays', NEW new,
           ~crashed' => Around' \subseteq Around \union new,
           Seeds(new) \subseteq strays',
           \A q \in Peers : OksOf(down'[q]) \subseteq OksOf(down[q]),
           \A q \in Peers : page'[q].ready = "no" => page[q].ready = "no" \/ OksOf(down'[q]) = {}
    PROVE  OneSeed'
<1> SUFFICES ASSUME ~crashed'
             PROVE  /\ \A s, t \in Seeds(Around') \ strays' : s = t
                    /\ \A p \in Peers : Seeding(p)' => Seeds(Around') \subseteq strays'
                    /\ \A p, q \in Peers : Leads(p)' /\ Leads(q)' => p = q
  BY DEF OneSeed
<1>1. /\ \A s, t \in Seeds(Around) \ strays : s = t
      /\ \A p \in Peers : Seeding(p) => Seeds(Around) \subseteq strays
      /\ \A p, q \in Peers : Leads(p) /\ Leads(q) => p = q
  BY DEF OneSeed
<1>2. Seeds(Around') \subseteq Seeds(Around) \union Seeds(new)
  BY DEF Seeds
<1>3. Seeds(Around') \ strays' \subseteq Seeds(Around) \ strays
  BY <1>2
<1>4. \A p \in Peers : Leads(p)' => Leads(p)
  BY DEF Leads
<1>5. \A p \in Peers : Seeding(p)' => Seeding(p)
  BY DEF Seeding
<1> QED BY <1>1, <1>2, <1>3, <1>4, <1>5

\* What is around, of each page, of the room and of the checkpoint.
LEMMA InAround ==
    ASSUME NEW x
    PROVE  x \in Around <=> \/ \E q \in Peers : x \in page[q].doc \/ x \in OpsOf(up[q])
                           \/ x \in room.doc \/ x \in saved.checkpoint
<1>1. x \in UNION {page[p].doc \union OpsOf(up[p]) : p \in Peers} <=>
          \E q \in Peers : x \in page[q].doc \union OpsOf(up[q])
  OBVIOUS
<1> QED BY <1>1 DEF Around

LEMMA InAroundNext ==
    ASSUME NEW x
    PROVE  x \in Around' <=> \/ \E q \in Peers : x \in page'[q].doc \/ x \in OpsOf(up'[q])
                            \/ x \in room'.doc \/ x \in saved'.checkpoint
<1>1. x \in UNION {page'[p].doc \union OpsOf(up'[p]) : p \in Peers} <=>
          \E q \in Peers : x \in page'[q].doc \union OpsOf(up'[q])
  OBVIOUS
<1> QED BY <1>1 DEF Around

LEMMA AroundGrows ==
    ASSUME NEW new,
           \A q \in Peers : page'[q].doc \union OpsOf(up'[q]) \subseteq Around \union new,
           room'.doc \union saved'.checkpoint \subseteq Around \union new
    PROVE  Around' \subseteq Around \union new
<1> SUFFICES ASSUME NEW x \in Around'
             PROVE  x \in Around \union new
  OBVIOUS
<1>1. \/ \E q \in Peers : x \in page'[q].doc \/ x \in OpsOf(up'[q])
      \/ x \in room'.doc \/ x \in saved'.checkpoint
  BY InAroundNext
<1>2. ASSUME NEW q \in Peers, x \in page'[q].doc \/ x \in OpsOf(up'[q])
      PROVE  x \in Around \union new
  BY <1>2
<1> QED BY <1>1, <1>2

LEMMA AroundStays ==
    ASSUME NEW gone,
           \A q \in Peers : page[q].doc \union OpsOf(up[q]) \subseteq Around' \union gone,
           room.doc \union saved.checkpoint \subseteq Around' \union gone
    PROVE  Around \ gone \subseteq Around'
<1> SUFFICES ASSUME NEW x \in Around, x \notin gone
             PROVE  x \in Around'
  OBVIOUS
<1>1. \/ \E q \in Peers : x \in page[q].doc \/ x \in OpsOf(up[q])
      \/ x \in room.doc \/ x \in saved.checkpoint
  BY InAround
<1>2. ASSUME NEW q \in Peers, x \in page[q].doc \/ x \in OpsOf(up[q])
      PROVE  x \in Around'
  BY <1>2
<1> QED BY <1>1, <1>2

LEMMA PartsAround ==
    /\ room.doc \subseteq Around /\ saved.checkpoint \subseteq Around
    /\ \A q \in Peers : page[q].doc \subseteq Around /\ OpsOf(up[q]) \subseteq Around
BY InAround

LEMMA PartsAroundNext ==
    /\ room'.doc \subseteq Around' /\ saved'.checkpoint \subseteq Around'
    /\ \A q \in Peers : page'[q].doc \subseteq Around' /\ OpsOf(up'[q]) \subseteq Around'
BY InAroundNext

\* The step Acquire.
LEMMA AcquireKeeps ==
    ASSUME CollabInv, CollabTypeOK', NEW p \in Peers, Acquire(p)
    PROVE  CollabInv'
<1>0. /\ CollabTypeOK /\ LinesHaveEnds /\ Attached /\ RoomKeeps /\ PagesMatch /\ WordsAround
      /\ OneSeed
  BY DEF CollabInv
<1>1. /\ page' = [page EXCEPT ![p].state = "joining"] /\ page[p].state = "unborn"
      /\ UNCHANGED <<session, up, down, room, saved, words, strays, abandoned, crashed, joins>>
  BY DEF Acquire
<1>2. /\ page'[p].state = "joining" /\ page'[p].doc = page[p].doc /\ page'[p].ready = page[p].ready
      /\ \A q \in Peers : q # p => page'[q] = page[q]
  BY <1>0, <1>1, TypeShape DEF PageRecords
<1>3. /\ session[p] = 0 /\ up[p] = << >> /\ down[p] = << >> /\ page[p].doc = {}
  BY <1>0, <1>1 DEF LinesHaveEnds, IsOpen
<1>4. LinesHaveEnds'
  BY <1>0, <1>1, <1>2, <1>3 DEF LinesHaveEnds, IsOpen
<1>5. Attached' /\ RoomKeeps'
  BY <1>0, <1>1 DEF Attached, RoomKeeps
<1>6. PagesMatch'
  BY <1>0, <1>1, <1>2, <1>3, NoFrames DEF PagesMatch, IsOpen
<1>7. Around' = Around
  BY <1>1, <1>2 DEF Around
<1>8. WordsAround'
  BY <1>0, <1>1, <1>7 DEF WordsAround
<1>9. OneSeed'
  BY <1>0, <1>1, <1>2, <1>7 DEF OneSeed, Leads, Seeding
<1> QED BY <1>4, <1>5, <1>6, <1>8, <1>9 DEF CollabInv

\* The step HearUpdate.
LEMMA HearUpdateKeeps ==
    ASSUME CollabInv, CollabTypeOK', NEW p \in Peers, HearUpdate(p)
    PROVE  CollabInv'
<1>0. /\ CollabTypeOK /\ LinesHaveEnds /\ Attached /\ RoomKeeps /\ PagesMatch /\ WordsAround
      /\ OneSeed
  BY DEF CollabInv
<1> DEFINE ops == Head(down[p]).ops
<1>1. /\ page' = [page EXCEPT ![p].doc = page[p].doc \union ops] /\ IsOpen(p) /\ down[p] # << >>
      /\ down' = [down EXCEPT ![p] = Tail(down[p])]
      /\ UNCHANGED <<session, up, room, saved, words, strays, abandoned, crashed, joins>>
  BY DEF HearUpdate
<1>2. /\ page'[p].state = page[p].state /\ page'[p].doc = page[p].doc \union ops
      /\ page'[p].ready = page[p].ready /\ down'[p] = Tail(down[p])
      /\ \A q \in Peers : q # p => page'[q] = page[q] /\ down'[q] = down[q]
  BY <1>0, <1>1, TypeShape DEF PageRecords
<1>3. down[p] \in Seq(Frames)
  BY <1>0, LineTypes
<1>4. /\ OpsOf(down[p]) = ops \union OpsOf(down'[p]) /\ OksOf(down'[p]) \subseteq OksOf(down[p])
  BY <1>1, <1>2, <1>3, FirstFrame
<1>5. session[p] # 0
  BY <1>0, <1>1 DEF LinesHaveEnds
<1> HIDE DEF ops
<1>6. LinesHaveEnds'
  BY <1>0, <1>1, <1>2, <1>5 DEF LinesHaveEnds, IsOpen
<1>7. Attached' /\ RoomKeeps'
  BY <1>0, <1>1 DEF Attached, RoomKeeps
<1>8. ~crashed => ops \subseteq room.doc
  BY <1>0, <1>4 DEF PagesMatch
<1>9. PagesMatch'
  BY <1>0, <1>1, <1>2, <1>4, <1>8 DEF PagesMatch, IsOpen
<1>10. ~crashed => Around' \subseteq Around \union {}
  <2>1. ASSUME ~crashed
        PROVE  \A q \in Peers : page'[q].doc \union OpsOf(up'[q]) \subseteq Around \union {}
    BY <1>1, <1>2, <1>8, <2>1, PartsAround
  <2>2. room'.doc \union saved'.checkpoint \subseteq Around \union {}
    BY <1>1, PartsAround
  <2> QED BY <2>1, <2>2, AroundGrows
<1>11. Around \subseteq Around'
  <2>1. \A q \in Peers : page[q].doc \union OpsOf(up[q]) \subseteq Around' \union {}
    BY <1>1, <1>2, PartsAroundNext
  <2>2. room.doc \union saved.checkpoint \subseteq Around' \union {}
    BY <1>1, PartsAroundNext
  <2> QED BY <2>1, <2>2, AroundStays
<1>12. WordsAround'
  BY <1>0, <1>1, <1>11, WordsKept
<1>13. OneSeed'
  <2>1. Seeds({}) \subseteq strays'
    BY DEF Seeds
  <2>2. \A q \in Peers : /\ OksOf(down'[q]) \subseteq OksOf(down[q])
                         /\ page'[q].ready = "no" => page[q].ready = "no" \/ OksOf(down'[q]) = {}
    BY <1>2, <1>4
  <2> QED BY <1>0, <1>1, <1>10, <2>1, <2>2, SeedsKept
<1> QED BY <1>6, <1>7, <1>9, <1>12, <1>13 DEF CollabInv

\* The step TypeWord.
LEMMA TypeWordKeeps ==
    ASSUME CollabInv, CollabTypeOK', NEW p \in Peers, TypeWord(p)
    PROVE  CollabInv'
<1>0. /\ CollabTypeOK /\ LinesHaveEnds /\ Attached /\ RoomKeeps /\ PagesMatch /\ WordsAround
      /\ OneSeed
  BY DEF CollabInv
<1> DEFINE word == Word(Cardinality(words) + 1)
           one == {word}
<1>1. /\ word \in Ops /\ words' = words \union one /\ IsOpen(p)
      /\ page' = [page EXCEPT ![p].doc = page[p].doc \union one]
      /\ up' = IF page[p].state = "joined" THEN Sent(p, one) ELSE up
      /\ UNCHANGED <<session, down, room, saved, strays, abandoned, crashed, joins>>
  BY DEF TypeWord, Mounted
<1>2. one \subseteq Ops /\ Seeds(one) = {}
  BY <1>1 DEF Seeds, Word
<1> HIDE DEF word, one
<1>3. /\ page'[p].state = page[p].state /\ page'[p].doc = page[p].doc \union one
      /\ page'[p].ready = page[p].ready
      /\ \A q \in Peers : q # p => page'[q] = page[q]
  BY <1>0, <1>1, TypeShape DEF PageRecords
<1>4. up \in [Peers -> Seq(Frames)]
  BY <1>0, TypeShape
<1>5. /\ \A q \in Peers : q # p => up'[q] = up[q]
      /\ page[p].state = "joined" => OpsOf(up'[p]) = OpsOf(up[p]) \union one
      /\ page[p].state # "joined" => up'[p] = up[p]
      /\ OksOf(up'[p]) = OksOf(up[p])
  <2>1. /\ \A q \in Peers : q # p => Sent(p, one)[q] = up[q]
        /\ OpsOf(Sent(p, one)[p]) = OpsOf(up[p]) \union one
        /\ OksOf(Sent(p, one)[p]) = OksOf(up[p])
    BY <1>2, <1>4, SentTypes
  <2>2. CASE page[p].state = "joined"
    <3>1. up' = Sent(p, one)
      BY <1>1, <2>2
    <3> QED BY <2>1, <2>2, <3>1
  <2>3. CASE page[p].state # "joined"
    BY <1>1, <2>3
  <2> QED BY <2>2, <2>3
<1>6. LinesHaveEnds'
  <2>1. ASSUME NEW q \in Peers
        PROVE  /\ down'[q] # << >> => session'[q] # 0 /\ IsOpen(q)'
               /\ up'[q] # << >> => session'[q] # 0
               /\ OksOf(up'[q]) = {}
               /\ page'[q].state = "joined" => session'[q] # 0
               /\ page'[q].state = "joining" => up'[q] = << >>
               /\ ~IsOpen(q)' => page'[q].doc = {}
               /\ page'[q].state = "unborn" => session'[q] = 0
    <3>1. CASE q = p
      BY <1>0, <1>1, <1>3, <1>5, <3>1 DEF LinesHaveEnds, IsOpen
    <3>2. CASE q # p
      BY <1>0, <1>1, <1>3, <1>5, <3>2 DEF LinesHaveEnds, IsOpen
    <3> QED BY <3>1, <3>2
  <2> QED BY <2>1 DEF LinesHaveEnds
<1>7. Attached' /\ RoomKeeps'
  BY <1>0, <1>1 DEF Attached, RoomKeeps
<1>8. PagesMatch'
  <2>1. ASSUME ~crashed', NEW q \in Peers
        PROVE  /\ OpsOf(down'[q]) \subseteq room'.doc
               /\ IsOpen(q)' => OpsOf(up'[q]) \subseteq page'[q].doc
               /\ page'[q].state = "joined" => page'[q].doc \subseteq room'.doc \union OpsOf(up'[q])
    <3>1. CASE q = p
      BY <1>0, <1>1, <1>3, <1>5, <2>1, <3>1 DEF PagesMatch, IsOpen
    <3>2. CASE q # p
      BY <1>0, <1>1, <1>3, <1>5, <2>1, <3>2 DEF PagesMatch, IsOpen
    <3> QED BY <3>1, <3>2
  <2> QED BY <2>1 DEF PagesMatch
<1>9. Around' \subseteq Around \union one
  <2>1. \A q \in Peers : page'[q].doc \union OpsOf(up'[q]) \subseteq Around \union one
    BY <1>3, <1>5, PartsAround
  <2>2. room'.doc \union saved'.checkpoint \subseteq Around \union one
    BY <1>1, PartsAround
  <2> QED BY <2>1, <2>2, AroundGrows
<1>10. Around \subseteq Around'
  <2>1. \A q \in Peers : page[q].doc \union OpsOf(up[q]) \subseteq Around' \union {}
    BY <1>3, <1>5, PartsAroundNext
  <2>2. room.doc \union saved.checkpoint \subseteq Around' \union {}
    BY <1>1, PartsAroundNext
  <2> QED BY <2>1, <2>2, AroundStays
<1>11. WordsAround'
  <2>1. one \subseteq Around'
    BY <1>3, PartsAroundNext
  <2> QED BY <1>0, <1>1, <1>10, <2>1, WordsKept
<1>12. OneSeed'
  <2>1. \A q \in Peers : /\ OksOf(down'[q]) \subseteq OksOf(down[q])
                         /\ page'[q].ready = "no" => page[q].ready = "no" \/ OksOf(down'[q]) = {}
    BY <1>1, <1>3
  <2> QED BY <1>0, <1>1, <1>2, <1>9, <2>1, SeedsKept
<1> QED BY <1>6, <1>7, <1>8, <1>11, <1>12 DEF CollabInv

\* The step Release.
LEMMA ReleaseKeeps ==
    ASSUME CollabInv, CollabTypeOK', NEW p \in Peers, Release(p)
    PROVE  CollabInv'
<1>0. /\ CollabTypeOK /\ LinesHaveEnds /\ Attached /\ RoomKeeps /\ PagesMatch /\ WordsAround
      /\ OneSeed
  BY DEF CollabInv
<1>1. /\ page[p].state = "joined" /\ page' = [page EXCEPT ![p] = NoPage]
      /\ down' = [down EXCEPT ![p] = << >>]
      /\ UNCHANGED <<session, up, room, saved, words, strays, abandoned, crashed, joins>>
  BY DEF Release
<1>2. /\ page'[p].state = "closed" /\ page'[p].doc = {} /\ down'[p] = << >>
      /\ \A q \in Peers : q # p => page'[q] = page[q] /\ down'[q] = down[q]
  BY <1>0, <1>1, TypeShape DEF NoPage
<1>3. LinesHaveEnds'
  BY <1>0, <1>1, <1>2 DEF LinesHaveEnds, IsOpen
<1>4. Attached' /\ RoomKeeps'
  BY <1>0, <1>1 DEF Attached, RoomKeeps
<1>5. PagesMatch'
  BY <1>0, <1>1, <1>2, NoFrames DEF PagesMatch, IsOpen
<1>6. Around' \subseteq Around \union {}
  <2>1. \A q \in Peers : page'[q].doc \union OpsOf(up'[q]) \subseteq Around \union {}
    BY <1>1, <1>2, PartsAround
  <2>2. room'.doc \union saved'.checkpoint \subseteq Around \union {}
    BY <1>1, PartsAround
  <2> QED BY <2>1, <2>2, AroundGrows
<1>7. ~crashed => Around \ {} \subseteq Around'
  <2> SUFFICES ASSUME ~crashed
               PROVE  Around \ {} \subseteq Around'
    OBVIOUS
  <2>1. page[p].doc \subseteq Around'
    BY <1>0, <1>1, PartsAroundNext DEF PagesMatch
  <2>2. \A q \in Peers : page[q].doc \union OpsOf(up[q]) \subseteq Around' \union {}
    BY <1>1, <1>2, <2>1, PartsAroundNext
  <2>3. room.doc \union saved.checkpoint \subseteq Around' \union {}
    BY <1>1, PartsAroundNext
  <2> QED BY <2>2, <2>3, AroundStays
<1>8. WordsAround'
  BY <1>0, <1>1, <1>7, WordsKept
<1>9. OneSeed'
  <2>1. Seeds({}) \subseteq strays'
    BY DEF Seeds
  <2>2. \A q \in Peers : /\ OksOf(down'[q]) \subseteq OksOf(down[q])
                         /\ page'[q].ready = "no" => page[q].ready = "no" \/ OksOf(down'[q]) = {}
    BY <1>2, NoFrames
  <2> QED BY <1>0, <1>1, <1>6, <2>1, <2>2, SeedsKept
<1> QED BY <1>3, <1>4, <1>5, <1>8, <1>9 DEF CollabInv

\* The step CloseOffline.
LEMMA CloseOfflineKeeps ==
    ASSUME CollabInv, CollabTypeOK', NEW p \in Peers, CloseOffline(p)
    PROVE  CollabInv'
<1>0. /\ CollabTypeOK /\ LinesHaveEnds /\ Attached /\ RoomKeeps /\ PagesMatch /\ WordsAround
      /\ OneSeed
  BY DEF CollabInv
<1>1. /\ page[p].state = "joining" /\ page' = [page EXCEPT ![p] = NoPage]
      /\ abandoned' = abandoned \union page[p].doc
      /\ session' = [session EXCEPT ![p] = 0] /\ down' = [down EXCEPT ![p] = << >>]
      /\ UNCHANGED <<up, room, saved, words, strays, crashed, joins>>
  BY DEF CloseOffline
<1>2. /\ page'[p].state = "closed" /\ page'[p].doc = {} /\ down'[p] = << >> /\ session'[p] = 0
      /\ \A q \in Peers : q # p => /\ page'[q] = page[q] /\ down'[q] = down[q]
                                   /\ session'[q] = session[q]
  BY <1>0, <1>1, TypeShape DEF NoPage
<1>3. up[p] = << >>
  BY <1>0, <1>1 DEF LinesHaveEnds
<1>4. LinesHaveEnds'
  BY <1>0, <1>1, <1>2, <1>3 DEF LinesHaveEnds, IsOpen
<1>5. Attached' /\ RoomKeeps'
  BY <1>0, <1>1, <1>2 DEF Attached, RoomKeeps
<1>6. PagesMatch'
  BY <1>0, <1>1, <1>2, NoFrames DEF PagesMatch, IsOpen
<1>7. Around' \subseteq Around \union {}
  <2>1. \A q \in Peers : page'[q].doc \union OpsOf(up'[q]) \subseteq Around \union {}
    BY <1>1, <1>2, PartsAround
  <2>2. room'.doc \union saved'.checkpoint \subseteq Around \union {}
    BY <1>1, PartsAround
  <2> QED BY <2>1, <2>2, AroundGrows
<1>8. Around \ abandoned' \subseteq Around'
  <2>2. \A q \in Peers : page[q].doc \union OpsOf(up[q]) \subseteq Around' \union abandoned'
    BY <1>1, <1>2, PartsAroundNext
  <2>3. room.doc \union saved.checkpoint \subseteq Around' \union abandoned'
    BY <1>1, PartsAroundNext
  <2> QED BY <2>2, <2>3, AroundStays
<1>9. WordsAround'
  BY <1>0, <1>1, <1>8, WordsKept
<1>10. OneSeed'
  <2>1. Seeds({}) \subseteq strays'
    BY DEF Seeds
  <2>2. \A q \in Peers : /\ OksOf(down'[q]) \subseteq OksOf(down[q])
                         /\ page'[q].ready = "no" => page[q].ready = "no" \/ OksOf(down'[q]) = {}
    BY <1>2, NoFrames
  <2> QED BY <1>0, <1>1, <1>7, <2>1, <2>2, SeedsKept
<1> QED BY <1>4, <1>5, <1>6, <1>9, <1>10 DEF CollabInv

\* The step HearJoin: what the room lacks goes back, and the first page of a
\* room seeds an empty document.
LEMMA HearJoinKeeps ==
    ASSUME CollabInv, CollabTypeOK', NEW p \in Peers, HearJoin(p)
    PROVE  CollabInv'
<1>0. /\ CollabTypeOK /\ LinesHaveEnds /\ Attached /\ RoomKeeps /\ PagesMatch /\ WordsAround
      /\ OneSeed
  BY DEF CollabInv
<1> DEFINE frame == Head(down[p])
           merged == [page[p] EXCEPT !.state = "joined", !.doc = @ \union frame.ops]
           first == frame.peers = 1
           ready == Ready(p, merged, first)
           gap == ready.doc \ frame.ops
           seed == {Seed(p)}
<1>1. /\ IsOpen(p) /\ down[p] # << >> /\ frame.kind = "ok"
      /\ page' = [page EXCEPT ![p] = ready] /\ up' = Sent(p, gap)
      /\ down' = [down EXCEPT ![p] = Tail(down[p])]
      /\ UNCHANGED <<session, room, saved, words, strays, abandoned, crashed, joins>>
  BY DEF HearJoin
<1>2. down[p] \in Seq(Frames) /\ page[p] \in PageRecords /\ up \in [Peers -> Seq(Frames)]
  BY <1>0, LineTypes, PageTypes, TypeShape
<1>3. /\ frame \in Frames /\ OpsOf(down[p]) = frame.ops \union OpsOf(Tail(down[p]))
      /\ OksOf(Tail(down[p])) \subseteq OksOf(down[p]) /\ frame \in OksOf(down[p])
  BY <1>1, <1>2, FirstFrame
<1>4. /\ merged \in PageRecords /\ merged.state = "joined" /\ merged.ready = page[p].ready
      /\ merged.doc = page[p].doc \union frame.ops
  BY <1>2, <1>3 DEF PageRecords, Frames
<1>5. first \in BOOLEAN
  OBVIOUS
<1>6. (first => frame.peers = 1) /\ gap \subseteq ready.doc /\ gap \union frame.ops = ready.doc \union frame.ops
  OBVIOUS
<1> HIDE DEF merged, first
<1>7. /\ ready \in PageRecords /\ ready.state = "joined" /\ ready.ready # "no"
      /\ \/ ready.doc = page[p].doc \union frame.ops
         \/ /\ page[p].ready = "no" /\ first /\ page[p].doc \union frame.ops = {}
            /\ ready.doc = seed
  BY <1>4, <1>5, ReadyPage
<1>8. gap \in SUBSET Ops
  BY <1>7 DEF PageRecords
<1> HIDE DEF ready, gap, seed, frame
<1>9. /\ page'[p] = ready /\ down'[p] = Tail(down[p])
      /\ \A q \in Peers : q # p => page'[q] = page[q] /\ down'[q] = down[q]
  BY <1>0, <1>1, TypeShape
<1>10. /\ \A q \in Peers : q # p => up'[q] = up[q]
       /\ OpsOf(up'[p]) = OpsOf(up[p]) \union gap
       /\ OksOf(up'[p]) = OksOf(up[p])
  BY <1>1, <1>2, <1>8, SentTypes
<1>11. session[p] # 0
  BY <1>0, <1>1 DEF LinesHaveEnds
<1>12. LinesHaveEnds'
  <2>1. ASSUME NEW q \in Peers
        PROVE  /\ down'[q] # << >> => session'[q] # 0 /\ IsOpen(q)'
               /\ up'[q] # << >> => session'[q] # 0
               /\ OksOf(up'[q]) = {}
               /\ page'[q].state = "joined" => session'[q] # 0
               /\ page'[q].state = "joining" => up'[q] = << >>
               /\ ~IsOpen(q)' => page'[q].doc = {}
               /\ page'[q].state = "unborn" => session'[q] = 0
    <3>1. CASE q = p
      BY <1>0, <1>1, <1>7, <1>9, <1>10, <1>11, <3>1 DEF LinesHaveEnds, IsOpen
    <3>2. CASE q # p
      BY <1>0, <1>1, <1>9, <1>10, <3>2 DEF LinesHaveEnds, IsOpen
    <3> QED BY <3>1, <3>2
  <2> QED BY <2>1 DEF LinesHaveEnds
<1>13. Attached' /\ RoomKeeps'
  BY <1>0, <1>1 DEF Attached, RoomKeeps
<1>14. ~crashed => frame.ops \subseteq room.doc /\ OpsOf(up[p]) \subseteq ready.doc
  BY <1>0, <1>1, <1>3, <1>7 DEF PagesMatch
<1>15. PagesMatch'
  <2>1. ASSUME ~crashed', NEW q \in Peers
        PROVE  /\ OpsOf(down'[q]) \subseteq room'.doc
               /\ IsOpen(q)' => OpsOf(up'[q]) \subseteq page'[q].doc
               /\ page'[q].state = "joined" => page'[q].doc \subseteq room'.doc \union OpsOf(up'[q])
    <3>1. CASE q = p
      <4>1. OpsOf(down'[p]) \subseteq room'.doc
        BY <1>0, <1>1, <1>3, <1>9, <2>1 DEF PagesMatch
      <4>2. OpsOf(up'[p]) \subseteq page'[p].doc
        BY <1>1, <1>6, <1>9, <1>10, <1>14, <2>1
      <4>3. page'[p].doc \subseteq room'.doc \union OpsOf(up'[p])
        BY <1>1, <1>6, <1>9, <1>10, <1>14, <2>1
      <4> QED BY <3>1, <4>1, <4>2, <4>3
    <3>2. CASE q # p
      BY <1>0, <1>1, <1>9, <1>10, <2>1, <3>2 DEF PagesMatch, IsOpen
    <3> QED BY <3>1, <3>2
  <2> QED BY <2>1 DEF PagesMatch
<1>16. ~crashed => Around' \subseteq Around \union ready.doc
  <2> SUFFICES ASSUME ~crashed
               PROVE  Around' \subseteq Around \union ready.doc
    OBVIOUS
  <2>1. \A q \in Peers : page'[q].doc \union OpsOf(up'[q]) \subseteq Around \union ready.doc
    BY <1>6, <1>9, <1>10, PartsAround
  <2>2. room'.doc \union saved'.checkpoint \subseteq Around \union ready.doc
    BY <1>1, PartsAround
  <2> QED BY <2>1, <2>2, AroundGrows
<1>17. Around \subseteq Around'
  <2>1. page[p].doc \subseteq ready.doc
    BY <1>7
  <2>2. \A q \in Peers : page[q].doc \union OpsOf(up[q]) \subseteq Around' \union {}
    BY <1>9, <1>10, <2>1, PartsAroundNext
  <2>3. room.doc \union saved.checkpoint \subseteq Around' \union {}
    BY <1>1, PartsAroundNext
  <2> QED BY <2>2, <2>3, AroundStays
<1>18. WordsAround'
  BY <1>0, <1>1, <1>17, WordsKept
<1>19. OneSeed'
  <2>1. CASE ready.doc = page[p].doc \union frame.ops
    <3>1. ~crashed => Around' \subseteq Around \union {}
      BY <1>14, <1>16, <2>1, PartsAround
    <3>2. Seeds({}) \subseteq strays'
      BY DEF Seeds
    <3>3. \A q \in Peers : /\ OksOf(down'[q]) \subseteq OksOf(down[q])
                           /\ page'[q].ready = "no" => page[q].ready = "no" \/ OksOf(down'[q]) = {}
      BY <1>3, <1>7, <1>9
    <3> QED BY <1>0, <1>1, <3>1, <3>2, <3>3, SeedsKept
  <2>2. CASE /\ page[p].ready = "no" /\ first /\ page[p].doc \union frame.ops = {}
             /\ ready.doc = seed
    <3> SUFFICES ASSUME ~crashed
                 PROVE  OneSeed'
      BY <1>1 DEF OneSeed
    <3>1. Leads(p) /\ Seeding(p)
      BY <1>3, <1>6, <2>2 DEF Leads, Seeding
    <3>2. Seeds(Around) \subseteq strays /\ \A q \in Peers : Leads(q) => q = p
      BY <1>0, <3>1 DEF OneSeed
    <3>3. Seeds(Around') \subseteq Seeds(Around) \union seed
      BY <1>16, <2>2 DEF Seeds
    <3>4. \A s, t \in Seeds(Around') \ strays' : s = t
      BY <1>1, <3>2, <3>3 DEF seed
    <3>5. \A q \in Peers : Leads(q)' => q = p
      BY <1>3, <1>9, <3>2 DEF Leads
    <3>6. \A q \in Peers : ~Seeding(q)'
      <4>1. \A q \in Peers : Seeding(q)' => Leads(q)'
        BY DEF Seeding, Leads
      <4>2. ~Seeding(p)'
        BY <1>7, <1>9 DEF Seeding
      <4> QED BY <3>5, <4>1, <4>2
    <3> QED BY <3>4, <3>5, <3>6 DEF OneSeed
  <2> QED BY <1>7, <2>1, <2>2
<1> QED BY <1>12, <1>13, <1>15, <1>18, <1>19 DEF CollabInv

\* The room a join finds: the one that is alive, or what the checkpoint has.
LEMMA LiveRoomIs ==
    ASSUME CollabInv
    PROVE  /\ LiveRoom.alive
           /\ room.alive => LiveRoom = room
           /\ ~room.alive => /\ LiveRoom.doc = saved.checkpoint /\ LiveRoom.clients = {}
                             /\ ~LiveRoom.dirty /\ room.doc = {} /\ room.clients = {}
<1>1. ~room.alive => room = NoRoom
  BY DEF CollabInv, Attached
<1>2. ~room.alive => LiveRoom = [NoRoom EXCEPT !.alive = TRUE, !.doc = saved.checkpoint]
  BY DEF LiveRoom
<1>3. room.alive => LiveRoom = room
  BY DEF LiveRoom
<1>4. CASE room.alive
  BY <1>3, <1>4
<1>5. CASE ~room.alive
  <2>1. /\ LiveRoom.alive /\ LiveRoom.doc = saved.checkpoint /\ LiveRoom.clients = {}
        /\ ~LiveRoom.dirty
    BY <1>2, <1>5 DEF NoRoom
  <2>2. room.doc = {} /\ room.clients = {}
    BY <1>1, <1>5 DEF NoRoom
  <2> QED BY <1>5, <2>1, <2>2
<1> QED BY <1>4, <1>5

\* The only client of a room came in by the join that was numbered last.
LEMMA FirstOfTheRoom ==
    ASSUME CollabInv, NEW n, n = joins + 1, Cardinality(LiveRoom.clients \union {n}) = 1
    PROVE  LiveRoom.clients = {}
<1>1. joins \in Nat /\ LiveRoom \in Rooms
  BY RoomTypes DEF CollabInv
<1>2. LiveRoom.clients \subseteq 1..joins
  BY <1>1 DEF Rooms
<1>3. IsFiniteSet(1..joins)
  BY <1>1, FS_Interval
<1>4. IsFiniteSet(LiveRoom.clients)
  BY <1>2, <1>3, FS_Subset
<1>5. n \notin LiveRoom.clients
  BY <1>1, <1>2
<1> DEFINE k == Cardinality(LiveRoom.clients)
<1>6. k \in Nat /\ k + 1 = 1
  BY <1>4, <1>5, FS_CardinalityType, FS_AddElement
<1>7. k = 0
  BY <1>6
<1> QED BY <1>4, <1>7, FS_EmptySet

\* The step Join.
LEMMA JoinKeeps ==
    ASSUME CollabInv, CollabTypeOK', NEW p \in Peers, Join(p)
    PROVE  CollabInv'
<1>0. /\ CollabTypeOK /\ LinesHaveEnds /\ Attached /\ RoomKeeps /\ PagesMatch /\ WordsAround
      /\ OneSeed
  BY DEF CollabInv
<1> DEFINE doc == LiveRoom.doc
           n == joins + 1
           clients == LiveRoom.clients \union {n}
           size == Cardinality(clients)
           reply == JoinOk(doc, size)
           left == LeftBehind(p, doc)
<1>1. /\ page[p].state = "joining" /\ session[p] = 0
      /\ joins' = n /\ session' = [session EXCEPT ![p] = n]
      /\ room' = [LiveRoom EXCEPT !.clients = clients]
      /\ down' = [down EXCEPT ![p] = << reply >>]
      /\ strays' = IF size = 1 THEN strays \union left ELSE strays
      /\ UNCHANGED <<page, up, saved, words, abandoned, crashed>>
  BY DEF Join
<1>2. LiveRoom \in Rooms /\ joins \in Nat
  BY <1>0, RoomTypes
<1>3. /\ LiveRoom.alive
      /\ room.alive => LiveRoom = room
      /\ ~room.alive => /\ LiveRoom.doc = saved.checkpoint /\ LiveRoom.clients = {}
                        /\ ~LiveRoom.dirty /\ room.doc = {} /\ room.clients = {}
  BY LiveRoomIs
<1>4. /\ room'.alive /\ room'.doc = doc /\ room'.clients = clients /\ room'.dirty = LiveRoom.dirty
  BY <1>1, <1>2, <1>3 DEF Rooms
<1>5. n # 0 /\ n \in clients
  BY <1>2
<1>6. reply.ops = doc /\ reply.peers = size /\ reply.kind = "ok"
  BY DEF JoinOk
<1>7. size \in Nat
  <2>1. clients \in SUBSET (1..(joins + 1))
    <3>1. LiveRoom.clients \subseteq 1..joins
      BY <1>2 DEF Rooms
    <3> QED BY <1>2, <3>1
  <2>2. IsFiniteSet(1..(joins + 1))
    <3>1. 1 \in Int /\ joins + 1 \in Int
      BY <1>2
    <3> QED BY <3>1, FS_Interval
  <2> QED BY <2>1, <2>2, FS_Subset, FS_CardinalityType
<1>8. reply \in Frames
  BY <1>2, <1>6, <1>7 DEF Rooms, Frames, JoinOk
<1>9. OpsOf(<< reply >>) = doc /\ OksOf(<< reply >>) \subseteq {reply} /\ << reply >> # << >>
  BY <1>6, <1>8, OneFrame
<1>10. size = 1 => LiveRoom.clients = {}
  BY FirstOfTheRoom
<1>11. left = Seeds(UNION {page[q].doc : q \in Peers}) \ doc
  BY DEF LeftBehind
<1> HIDE DEF doc, n, clients, size, reply, left
<1>12. /\ session'[p] = n /\ down'[p] = << reply >>
       /\ \A q \in Peers : q # p => session'[q] = session[q] /\ down'[q] = down[q]
  BY <1>0, <1>1, TypeShape
<1>13. LinesHaveEnds'
  BY <1>0, <1>1, <1>5, <1>12 DEF LinesHaveEnds, IsOpen
<1>14. Attached'
  <2>1. clients = LiveRoom.clients \union {n} /\ (room.alive => LiveRoom.clients = room.clients)
    BY <1>3 DEF clients
  <2>2. ~crashed => \A q \in Peers : q # p /\ session[q] # 0 => session[q] \in clients
    BY <1>0, <1>3, <2>1 DEF Attached
  <2> QED BY <1>1, <1>4, <1>5, <1>12, <2>2 DEF Attached
<1>15. ~crashed => room.doc \subseteq doc /\ saved.checkpoint \subseteq doc /\ doc \subseteq Around
  BY <1>0, <1>3, PartsAround DEF RoomKeeps, doc
<1>16. RoomKeeps'
  BY <1>0, <1>1, <1>3, <1>4 DEF RoomKeeps, doc
<1>17. PagesMatch'
  <2> SUFFICES ASSUME ~crashed
               PROVE  PagesMatch'
    BY <1>1 DEF PagesMatch
  <2> QED BY <1>0, <1>1, <1>4, <1>9, <1>12, <1>15 DEF PagesMatch, IsOpen
<1>18. ~crashed => Around' \subseteq Around \union {}
  <2> SUFFICES ASSUME ~crashed
               PROVE  Around' \subseteq Around \union {}
    OBVIOUS
  <2>1. \A q \in Peers : page'[q].doc \union OpsOf(up'[q]) \subseteq Around \union {}
    BY <1>1, PartsAround
  <2>2. room'.doc \union saved'.checkpoint \subseteq Around \union {}
    BY <1>1, <1>4, <1>15, PartsAround
  <2> QED BY <2>1, <2>2, AroundGrows
<1>19. ~crashed => Around \ {} \subseteq Around'
  <2> SUFFICES ASSUME ~crashed
               PROVE  Around \ {} \subseteq Around'
    OBVIOUS
  <2>1. \A q \in Peers : page[q].doc \union OpsOf(up[q]) \subseteq Around' \union {}
    BY <1>1, PartsAroundNext
  <2>2. room.doc \union saved.checkpoint \subseteq Around' \union {}
    BY <1>1, <1>4, <1>15, PartsAroundNext
  <2> QED BY <2>1, <2>2, AroundStays
<1>20. WordsAround'
  BY <1>0, <1>1, <1>19, WordsKept
<1>21. OneSeed'
  <2> SUFFICES ASSUME ~crashed
               PROVE  OneSeed'
    BY <1>1 DEF OneSeed
  <2>1. Seeds(Around') \subseteq Seeds(Around) /\ strays \subseteq strays'
    BY <1>1, <1>18 DEF Seeds
  <2>2. \A s, t \in Seeds(Around') \ strays' : s = t
    BY <1>0, <2>1 DEF OneSeed
  <2>3. CASE size = 1
    <3>1. room.clients = {}
      BY <1>3, <1>10, <2>3
    <3>2. \A q \in Peers : session[q] = 0 /\ up[q] = << >> /\ down[q] = << >>
      BY <1>0, <3>1 DEF Attached, LinesHaveEnds
    <3>3. \A q \in Peers : Leads(q)' => q = p
      BY <1>12, <3>2, NoFrames DEF Leads
    <3>4. \A q \in Peers : Seeding(q)' => q = p /\ doc = {}
      <4>1. \A q \in Peers : Seeding(q)' => Leads(q)'
        BY DEF Seeding, Leads
      <4>2. Seeding(p)' => doc = {}
        BY <1>6, <1>9, <1>12 DEF Seeding
      <4> QED BY <3>3, <4>1, <4>2
    <3>5. doc = {} => Seeds(Around') \subseteq strays'
      <4> SUFFICES ASSUME doc = {}, NEW s \in Seeds(Around')
                   PROVE  s \in strays'
        OBVIOUS
      <4>1. s \in Around' /\ s[1] = "seed"
        BY DEF Seeds
      <4>2. room'.doc = {} /\ saved'.checkpoint = {}
        BY <1>1, <1>4, <1>15
      <4>3. \A q \in Peers : OpsOf(up'[q]) = {}
        BY <1>1, <3>2, NoFrames
      <4>4. PICK q \in Peers : s \in page[q].doc
        BY <1>1, <4>1, <4>2, <4>3, InAroundNext
      <4>5. s \in left
        BY <1>11, <4>1, <4>4 DEF Seeds
      <4> QED BY <1>1, <2>3, <4>5
    <3> QED BY <2>2, <3>3, <3>4, <3>5 DEF OneSeed
  <2>4. CASE size # 1
    <3>1. ~Leads(p)'
      BY <1>6, <1>9, <1>12, <2>4 DEF Leads
    <3>2. \A q \in Peers : Leads(q)' => Leads(q) /\ q # p
      BY <1>12, <3>1 DEF Leads
    <3>3. \A q \in Peers : Seeding(q)' => Seeding(q)
      <4>1. \A q \in Peers : Seeding(q)' => Leads(q)'
        BY DEF Seeding, Leads
      <4> QED BY <1>1, <1>12, <3>2, <4>1 DEF Seeding
    <3> QED BY <1>0, <2>1, <2>2, <3>2, <3>3 DEF OneSeed
  <2> QED BY <2>3, <2>4
<1> QED BY <1>13, <1>14, <1>16, <1>17, <1>20, <1>21 DEF CollabInv

\* The step JoinRefused: a page left alone seeds a stray.
LEMMA JoinRefusedKeeps ==
    ASSUME CollabInv, CollabTypeOK', NEW p \in Peers, NEW reason, JoinRefused(p, reason)
    PROVE  CollabInv'
<1>0. /\ CollabTypeOK /\ LinesHaveEnds /\ Attached /\ RoomKeeps /\ PagesMatch /\ WordsAround
      /\ OneSeed
  BY DEF CollabInv
<1> DEFINE lone == Ready(p, page[p], TRUE)
<1>1. /\ page[p].state = "joining" /\ session[p] = 0
      /\ UNCHANGED <<session, up, down, room, saved, words, abandoned, crashed, joins>>
      /\ \/ page' = page /\ strays' = strays
         \/ page' = [page EXCEPT ![p] = lone] /\ strays' = strays \union Seeds(page'[p].doc)
  BY DEF JoinRefused
<1>2. page[p] \in PageRecords
  BY <1>0, PageTypes
<1>3. /\ lone.state = page[p].state /\ page[p].doc \subseteq lone.doc
      /\ lone.ready = "no" => page[p].ready = "no"
  BY <1>2, ReadyPage
<1> HIDE DEF lone
<1>4. CASE page' = page /\ strays' = strays
  <2>1. Around' = Around
    BY <1>1, <1>4 DEF Around
  <2>2. LinesHaveEnds' /\ Attached' /\ RoomKeeps' /\ PagesMatch'
    BY <1>0, <1>1, <1>4 DEF LinesHaveEnds, Attached, RoomKeeps, PagesMatch, IsOpen
  <2>3. WordsAround' /\ OneSeed'
    BY <1>0, <1>1, <1>4, <2>1 DEF WordsAround, OneSeed, Leads, Seeding
  <2> QED BY <2>2, <2>3 DEF CollabInv
<1>5. CASE page' = [page EXCEPT ![p] = lone] /\ strays' = strays \union Seeds(page'[p].doc)
  <2>1. /\ page'[p] = lone
        /\ \A q \in Peers : q # p => page'[q] = page[q]
    BY <1>0, <1>5, TypeShape
  <2>2. up[p] = << >> /\ down[p] = << >>
    BY <1>0, <1>1 DEF LinesHaveEnds
  <2>3. LinesHaveEnds'
    BY <1>0, <1>1, <1>3, <2>1 DEF LinesHaveEnds, IsOpen
  <2>4. Attached' /\ RoomKeeps'
    BY <1>0, <1>1 DEF Attached, RoomKeeps
  <2>5. PagesMatch'
    BY <1>0, <1>1, <1>3, <2>1, <2>2, NoFrames DEF PagesMatch, IsOpen
  <2>6. Around' \subseteq Around \union lone.doc
    <3>1. \A q \in Peers : page'[q].doc \union OpsOf(up'[q]) \subseteq Around \union lone.doc
      BY <1>1, <2>1, PartsAround
    <3>2. room'.doc \union saved'.checkpoint \subseteq Around \union lone.doc
      BY <1>1, PartsAround
    <3> QED BY <3>1, <3>2, AroundGrows
  <2>7. Around \ {} \subseteq Around'
    <3>1. \A q \in Peers : page[q].doc \union OpsOf(up[q]) \subseteq Around' \union {}
      BY <1>1, <1>3, <2>1, PartsAroundNext
    <3>2. room.doc \union saved.checkpoint \subseteq Around' \union {}
      BY <1>1, PartsAroundNext
    <3> QED BY <3>1, <3>2, AroundStays
  <2>8. WordsAround'
    BY <1>0, <1>1, <2>7, WordsKept
  <2>9. OneSeed'
    <3>1. Seeds(lone.doc) \subseteq strays' /\ strays \subseteq strays'
      BY <1>5, <2>1
    <3>2. \A q \in Peers : /\ OksOf(down'[q]) \subseteq OksOf(down[q])
                           /\ page'[q].ready = "no" => page[q].ready = "no" \/ OksOf(down'[q]) = {}
      BY <1>1, <1>3, <2>1
    <3> QED BY <1>0, <1>1, <2>6, <3>1, <3>2, SeedsKept
  <2> QED BY <2>3, <2>4, <2>5, <2>8, <2>9 DEF CollabInv
<1> QED BY <1>1, <1>4, <1>5

\* The step Receive.
LEMMA ReceiveKeeps ==
    ASSUME CollabInv, CollabTypeOK', NEW p \in Peers, Receive(p)
    PROVE  CollabInv'
<1>0. /\ CollabTypeOK /\ LinesHaveEnds /\ Attached /\ RoomKeeps /\ PagesMatch /\ WordsAround
      /\ OneSeed
  BY DEF CollabInv
<1> DEFINE frame == Head(up[p])
           heard == {q \in Peers \ {p} : session[q] # 0 /\ IsOpen(q)}
<1>1. /\ session[p] # 0 /\ up[p] # << >>
      /\ UNCHANGED <<saved, words, strays, abandoned, crashed, joins>>
  BY DEF Receive
<1>2. CASE session[p] \in room.clients
  <2>1. /\ room' = [room EXCEPT !.doc = room.doc \union frame.ops, !.dirty = TRUE,
                                !.unwritten = room.unwritten \/ ~room.dirty]
        /\ up' = [up EXCEPT ![p] = Tail(up[p])]
        /\ down' = [q \in Peers |-> IF q \in heard THEN Append(down[q], frame) ELSE down[q]]
        /\ UNCHANGED <<page, session>>
    BY <1>2 DEF Receive, Merged
  <2>2. /\ up[p] \in Seq(Frames) /\ room \in Rooms
        /\ up \in [Peers -> Seq(Frames)] /\ down \in [Peers -> Seq(Frames)]
    BY <1>0, LineTypes, TypeShape
  <2>3. /\ frame \in Frames /\ OpsOf(up[p]) = frame.ops \union OpsOf(Tail(up[p]))
        /\ OksOf(Tail(up[p])) \subseteq OksOf(up[p])
        /\ frame.kind = "ok" => frame \in OksOf(up[p])
    BY <1>1, <2>2, FirstFrame
  <2>4. OksOf(up[p]) = {} /\ frame.kind # "ok"
    BY <1>0, <2>3 DEF LinesHaveEnds
  <2> HIDE DEF frame
  <2>5. /\ up'[p] = Tail(up[p])
        /\ \A q \in Peers : q # p => up'[q] = up[q]
    BY <2>1, <2>2
  <2>6. \A q \in Peers :
           \/ down'[q] = down[q]
           \/ /\ session[q] # 0 /\ IsOpen(q) /\ OpsOf(down'[q]) = OpsOf(down[q]) \union frame.ops
              /\ OksOf(down'[q]) = OksOf(down[q])
    <3> SUFFICES ASSUME NEW q \in Peers, q \in heard
                 PROVE  /\ session[q] # 0 /\ IsOpen(q)
                        /\ OpsOf(down'[q]) = OpsOf(down[q]) \union frame.ops
                        /\ OksOf(down'[q]) = OksOf(down[q])
      BY <2>1
    <3>1. down'[q] = Append(down[q], frame) /\ down[q] \in Seq(Frames)
      BY <2>1, <2>2
    <3> QED BY <2>3, <2>4, <3>1, AppendedFrame
  <2> HIDE DEF heard
  <2>7. room.alive
    BY <1>0, <1>2 DEF Attached, NoRoom
  <2>8. /\ room'.alive = room.alive /\ room'.clients = room.clients
        /\ room'.doc = room.doc \union frame.ops /\ room'.dirty
    BY <2>1, <2>2 DEF Rooms
  <2>9. LinesHaveEnds'
    <3>1. ASSUME NEW q \in Peers
          PROVE  /\ down'[q] # << >> => session'[q] # 0 /\ IsOpen(q)'
                 /\ up'[q] # << >> => session'[q] # 0
                 /\ OksOf(up'[q]) = {}
                 /\ page'[q].state = "joining" => up'[q] = << >>
      <4>1. CASE q = p
        BY <1>0, <1>1, <2>1, <2>3, <2>4, <2>5, <2>6, <4>1 DEF LinesHaveEnds, IsOpen
      <4>2. CASE q # p
        BY <1>0, <2>1, <2>5, <2>6, <4>2 DEF LinesHaveEnds, IsOpen
      <4> QED BY <4>1, <4>2
    <3> QED BY <1>0, <2>1, <3>1 DEF LinesHaveEnds, IsOpen
  <2>10. Attached' /\ RoomKeeps'
    BY <1>0, <1>1, <2>1, <2>7, <2>8 DEF Attached, RoomKeeps
  <2>11. PagesMatch'
    <3>1. ASSUME ~crashed, NEW q \in Peers
          PROVE  /\ OpsOf(down'[q]) \subseteq room'.doc
                 /\ IsOpen(q)' => OpsOf(up'[q]) \subseteq page'[q].doc
                 /\ page'[q].state = "joined" =>
                       page'[q].doc \subseteq room'.doc \union OpsOf(up'[q])
      <4>1. OpsOf(down'[q]) \subseteq room'.doc
        BY <1>0, <2>6, <2>8, <3>1 DEF PagesMatch
      <4>2. OpsOf(up'[q]) \subseteq OpsOf(up[q])
        BY <2>3, <2>5
      <4>3. room.doc \union OpsOf(up[q]) \subseteq room'.doc \union OpsOf(up'[q])
        BY <2>3, <2>5, <2>8
      <4> QED BY <1>0, <2>1, <3>1, <4>1, <4>2, <4>3 DEF PagesMatch, IsOpen
    <3> QED BY <1>1, <3>1 DEF PagesMatch
  <2>12. frame.ops \subseteq Around /\ frame.ops \subseteq Around'
    BY <2>3, <2>8, PartsAround, PartsAroundNext
  <2>13. Around' \subseteq Around \union {}
    <3>1. \A q \in Peers : page'[q].doc \union OpsOf(up'[q]) \subseteq Around \union {}
      BY <2>1, <2>3, <2>5, PartsAround
    <3>2. room'.doc \union saved'.checkpoint \subseteq Around \union {}
      BY <1>1, <2>8, <2>12, PartsAround
    <3> QED BY <3>1, <3>2, AroundGrows
  <2>14. Around \ {} \subseteq Around'
    <3>1. \A q \in Peers : page[q].doc \union OpsOf(up[q]) \subseteq Around' \union {}
      BY <2>1, <2>3, <2>5, <2>12, PartsAroundNext
    <3>2. room.doc \union saved.checkpoint \subseteq Around' \union {}
      BY <1>1, <2>8, PartsAroundNext
    <3> QED BY <3>1, <3>2, AroundStays
  <2>15. WordsAround'
    BY <1>0, <1>1, <2>14, WordsKept
  <2>16. OneSeed'
    <3>1. Seeds({}) \subseteq strays'
      BY DEF Seeds
    <3>2. \A q \in Peers : /\ OksOf(down'[q]) \subseteq OksOf(down[q])
                           /\ page'[q].ready = "no" => page[q].ready = "no" \/ OksOf(down'[q]) = {}
      BY <2>1, <2>6
    <3> QED BY <1>0, <1>1, <2>13, <3>1, <3>2, SeedsKept
  <2> QED BY <2>9, <2>10, <2>11, <2>15, <2>16 DEF CollabInv
<1>3. CASE session[p] \notin room.clients
  <2>1. crashed /\ crashed'
    BY <1>0, <1>1, <1>3 DEF Attached
  <2>2. /\ up' = [up EXCEPT ![p] = << >>] /\ down' = [down EXCEPT ![p] = << >>]
        /\ session' = [session EXCEPT ![p] = 0] /\ room' = room
        /\ page' = IF IsOpen(p) THEN [page EXCEPT ![p].state = "joining"] ELSE page
    BY <1>3 DEF Receive
  <2>3. /\ up'[p] = << >> /\ down'[p] = << >> /\ session'[p] = 0
        /\ page'[p].doc = page[p].doc
        /\ IF IsOpen(p) THEN page'[p].state = "joining" ELSE page'[p].state = page[p].state
        /\ \A q \in Peers : q # p => /\ up'[q] = up[q] /\ down'[q] = down[q]
                                     /\ session'[q] = session[q] /\ page'[q] = page[q]
    BY <1>0, <2>2, TypeShape DEF PageRecords
  <2>4. LinesHaveEnds'
    BY <1>0, <2>3, NoFrames DEF LinesHaveEnds, IsOpen
  <2>5. Attached' /\ RoomKeeps' /\ PagesMatch' /\ WordsAround' /\ OneSeed'
    BY <1>0, <2>1, <2>2 DEF Attached, RoomKeeps, PagesMatch, WordsAround, OneSeed
  <2> QED BY <2>4, <2>5 DEF CollabInv
<1> QED BY <1>2, <1>3

\* The step Close: what was on the connection is still in the page.
LEMMA CloseKeeps ==
    ASSUME CollabInv, CollabTypeOK', NEW p \in Peers, Close(p)
    PROVE  CollabInv'
<1>0. /\ CollabTypeOK /\ LinesHaveEnds /\ Attached /\ RoomKeeps /\ PagesMatch /\ WordsAround
      /\ OneSeed
  BY DEF CollabInv
<1>1. /\ IsOpen(p) /\ session[p] # 0
      /\ session' = [session EXCEPT ![p] = 0]
      /\ page' = [page EXCEPT ![p].state = "joining"]
      /\ up' = [up EXCEPT ![p] = << >>] /\ down' = [down EXCEPT ![p] = << >>]
      /\ UNCHANGED <<room, saved, words, strays, abandoned, crashed, joins>>
  BY DEF Close
<1>2. /\ up'[p] = << >> /\ down'[p] = << >> /\ session'[p] = 0
      /\ page'[p].doc = page[p].doc /\ page'[p].state = "joining" /\ page'[p].ready = page[p].ready
      /\ \A q \in Peers : q # p => /\ up'[q] = up[q] /\ down'[q] = down[q]
                                   /\ session'[q] = session[q] /\ page'[q] = page[q]
  BY <1>0, <1>1, TypeShape DEF PageRecords
<1>3. LinesHaveEnds'
  BY <1>0, <1>2, NoFrames DEF LinesHaveEnds, IsOpen
<1>4. Attached' /\ RoomKeeps'
  BY <1>0, <1>1, <1>2 DEF Attached, RoomKeeps
<1>5. PagesMatch'
  BY <1>0, <1>1, <1>2, NoFrames DEF PagesMatch, IsOpen
<1>6. Around' \subseteq Around \union {}
  <2>1. \A q \in Peers : page'[q].doc \union OpsOf(up'[q]) \subseteq Around \union {}
    BY <1>2, NoFrames, PartsAround
  <2>2. room'.doc \union saved'.checkpoint \subseteq Around \union {}
    BY <1>1, PartsAround
  <2> QED BY <2>1, <2>2, AroundGrows
<1>7. ~crashed => Around \ {} \subseteq Around'
  <2> SUFFICES ASSUME ~crashed
               PROVE  Around \ {} \subseteq Around'
    OBVIOUS
  <2>1. OpsOf(up[p]) \subseteq page'[p].doc
    BY <1>0, <1>1, <1>2 DEF PagesMatch
  <2>2. \A q \in Peers : page[q].doc \union OpsOf(up[q]) \subseteq Around' \union {}
    BY <1>2, <2>1, PartsAroundNext
  <2>3. room.doc \union saved.checkpoint \subseteq Around' \union {}
    BY <1>1, PartsAroundNext
  <2> QED BY <2>2, <2>3, AroundStays
<1>8. WordsAround'
  BY <1>0, <1>1, <1>7, WordsKept
<1>9. OneSeed'
  <2>1. Seeds({}) \subseteq strays'
    BY DEF Seeds
  <2>2. \A q \in Peers : /\ OksOf(down'[q]) \subseteq OksOf(down[q])
                         /\ page'[q].ready = "no" => page[q].ready = "no" \/ OksOf(down'[q]) = {}
    BY <1>2, NoFrames
  <2> QED BY <1>0, <1>1, <1>6, <2>1, <2>2, SeedsKept
<1> QED BY <1>3, <1>4, <1>5, <1>8, <1>9 DEF CollabInv

\* The step ChannelEnds.
LEMMA ChannelEndsKeeps ==
    ASSUME CollabInv, CollabTypeOK', NEW p \in Peers, ChannelEnds(p)
    PROVE  CollabInv'
<1>0. /\ CollabTypeOK /\ LinesHaveEnds /\ Attached /\ RoomKeeps /\ PagesMatch /\ WordsAround
      /\ OneSeed
  BY DEF CollabInv
<1>1. /\ ~IsOpen(p) /\ up[p] = << >> /\ session' = [session EXCEPT ![p] = 0]
      /\ UNCHANGED <<page, up, down, room, saved, words, strays, abandoned, crashed, joins>>
  BY DEF ChannelEnds
<1>2. /\ session'[p] = 0
      /\ \A q \in Peers : q # p => session'[q] = session[q]
  BY <1>0, <1>1, TypeShape
<1>3. LinesHaveEnds'
  BY <1>0, <1>1, <1>2 DEF LinesHaveEnds, IsOpen
<1>4. Attached' /\ RoomKeeps' /\ PagesMatch'
  BY <1>0, <1>1, <1>2 DEF Attached, RoomKeeps, PagesMatch, IsOpen
<1>5. Around' = Around
  BY <1>1 DEF Around
<1>6. WordsAround' /\ OneSeed'
  BY <1>0, <1>1, <1>5 DEF WordsAround, OneSeed, Leads, Seeding
<1> QED BY <1>3, <1>4, <1>6 DEF CollabInv

\* The steps of the room: it writes what it has, and ends when nobody is in it.
LEMMA RoomStepKeeps ==
    ASSUME CollabInv, CollabTypeOK', RoomStep
    PROVE  CollabInv'
<1>0. /\ CollabTypeOK /\ LinesHaveEnds /\ Attached /\ RoomKeeps /\ PagesMatch /\ WordsAround
      /\ OneSeed
  BY DEF CollabInv
<1>t. /\ room \in Rooms /\ saved \in [checkpoint : SUBSET Ops, record : SUBSET Ops]
  BY <1>0, TypeShape
<1>m. /\ Materialized(room).checkpoint = saved.checkpoint
      /\ Materialized(room).record \in {room.doc, saved.record}
  BY <1>t DEF Materialized
<1>a. ASSUME /\ UNCHANGED <<page, session, up, down, words, strays, abandoned, joins>>
             /\ crashed' = crashed /\ (~crashed => Around' = Around)
             /\ Attached' /\ RoomKeeps' /\ PagesMatch'
      PROVE  CollabInv'
  <2>1. LinesHaveEnds'
    BY <1>0, <1>a DEF LinesHaveEnds, IsOpen
  <2>2. WordsAround' /\ OneSeed'
    BY <1>0, <1>a DEF WordsAround, OneSeed, Leads, Seeding
  <2> QED BY <1>a, <2>1, <2>2 DEF CollabInv
<1>1. ASSUME NEW client \in 1..joins, ClientDown(client)
      PROVE  CollabInv'
  <2>1. /\ room.alive /\ client \notin {session[p] : p \in Peers}
        /\ room' = [room EXCEPT !.clients = room.clients \ {client},
                                !.unwritten = @ /\ room.clients \ {client} # {}]
        /\ saved' = Materialized(room) \/ saved' = saved
        /\ UNCHANGED <<page, session, up, down, words, strays, abandoned, crashed, joins>>
    BY <1>1 DEF ClientDown
  <2>2. /\ room'.alive /\ room'.doc = room.doc /\ room'.dirty = room.dirty
        /\ room'.clients = room.clients \ {client}
    BY <1>t, <2>1 DEF Rooms
  <2>3. saved'.checkpoint = saved.checkpoint /\ saved'.record \in {room.doc, saved.record}
    BY <1>m, <2>1
  <2>4. Around' = Around
    BY <2>1, <2>2, <2>3 DEF Around
  <2>5. Attached' /\ RoomKeeps' /\ PagesMatch'
    BY <1>0, <2>1, <2>2, <2>3 DEF Attached, RoomKeeps, PagesMatch, IsOpen
  <2> QED BY <1>a, <2>1, <2>4, <2>5
<1>2. CASE Checkpoint
  <2>1. /\ room.alive /\ saved' = [saved EXCEPT !.checkpoint = room.doc]
        /\ room' = [room EXCEPT !.dirty = FALSE]
        /\ UNCHANGED <<page, session, up, down, words, strays, abandoned, crashed, joins>>
    BY <1>2 DEF Checkpoint, Persisted
  <2>2. /\ room'.alive /\ room'.doc = room.doc /\ room'.clients = room.clients
        /\ saved'.checkpoint = room.doc /\ saved'.record = saved.record
    BY <1>t, <2>1 DEF Rooms
  <2>3. ~crashed => saved.checkpoint \union room.doc = room.doc
    BY <1>0, <2>1 DEF RoomKeeps
  <2>4. ~crashed => Around' = Around
    BY <2>1, <2>2, <2>3 DEF Around
  <2>5. Attached' /\ RoomKeeps' /\ PagesMatch'
    BY <1>0, <2>1, <2>2 DEF Attached, RoomKeeps, PagesMatch, IsOpen
  <2> QED BY <1>a, <2>1, <2>4, <2>5
<1>3. CASE IdleStop
  <2>1. /\ room.alive /\ room.clients = {} /\ room' = NoRoom
        /\ saved' \in {Persisted(room, saved), Persisted(room, Materialized(room))}
        /\ UNCHANGED <<page, session, up, down, words, strays, abandoned, crashed, joins>>
    BY <1>3 DEF IdleStop
  <2>2. Materialized(room) \in [checkpoint : SUBSET Ops, record : SUBSET Ops]
    BY <1>t DEF Materialized, Rooms
  <2>3. /\ saved'.checkpoint = IF room.dirty THEN room.doc ELSE saved.checkpoint
        /\ saved'.record \in {room.doc, saved.record}
    <3>1. ASSUME NEW r \in [checkpoint : SUBSET Ops, record : SUBSET Ops]
          PROVE  /\ Persisted(room, r).checkpoint
                       = IF room.dirty THEN room.doc ELSE r.checkpoint
                 /\ Persisted(room, r).record = r.record
      BY DEF Persisted
    <3>2. CASE saved' = Persisted(room, saved)
      BY <1>t, <3>1, <3>2
    <3>3. CASE saved' = Persisted(room, Materialized(room))
      BY <1>m, <2>2, <3>1, <3>3
    <3> QED BY <2>1, <3>2, <3>3
  <2>4. ~room'.alive /\ room'.doc = {} /\ room' = NoRoom
    BY <2>1 DEF NoRoom
  <2>5. ~crashed => saved'.checkpoint = room.doc /\ saved.checkpoint \subseteq room.doc
    BY <1>0, <2>1, <2>3 DEF RoomKeeps
  <2>6. ~crashed => Around' = Around
    BY <2>1, <2>4, <2>5 DEF Around
  <2>7. ~crashed => \A p \in Peers : session[p] = 0 /\ down[p] = << >> /\ page[p].state # "joined"
    BY <1>0, <2>1 DEF Attached, LinesHaveEnds
  <2>8. Attached'
    <3>1. NoRoom = NoRoom'
      BY DEF NoRoom
    <3> QED BY <2>1, <2>4, <2>7, <3>1 DEF Attached
  <2>9. RoomKeeps'
    BY <1>0, <2>1, <2>3, <2>4, <2>5 DEF RoomKeeps
  <2>10. PagesMatch'
    BY <1>0, <2>1, <2>7, NoFrames DEF PagesMatch, IsOpen
  <2> QED BY <1>a, <2>1, <2>6, <2>8, <2>9, <2>10
<1>4. CASE RoomDies
  <2>1. /\ crashed' /\ room' = NoRoom /\ NoRoom' = NoRoom
        /\ UNCHANGED <<page, session, up, down, saved, words, strays, abandoned, joins>>
    BY <1>4 DEF RoomDies, NoRoom
  <2>2. LinesHaveEnds'
    BY <1>0, <2>1 DEF LinesHaveEnds, IsOpen
  <2>3. Attached' /\ RoomKeeps' /\ PagesMatch' /\ WordsAround' /\ OneSeed'
    BY <2>1 DEF Attached, RoomKeeps, PagesMatch, WordsAround, OneSeed
  <2> QED BY <2>2, <2>3 DEF CollabInv
<1> QED BY <1>1, <1>2, <1>3, <1>4 DEF RoomStep

LEMMA CollabStepKeeps ==
    ASSUME CollabInv, [CollabNext]_collabVars
    PROVE  CollabInv'
<1>0. CollabTypeOK
  BY DEF CollabInv
<1>1. ASSUME NEW p \in Peers, PageStep(p)
      PROVE  CollabInv'
  <2>1. CollabTypeOK'
    BY <1>0, <1>1, PageStepTypes
  <2> QED BY <1>1, <2>1, AcquireKeeps, HearJoinKeeps, HearUpdateKeeps, TypeWordKeeps,
             ReleaseKeeps, CloseOfflineKeeps DEF PageStep
<1>2. ASSUME NEW p \in Peers, ChannelStep(p)
      PROVE  CollabInv'
  <2>1. CollabTypeOK'
    BY <1>0, <1>2, ChannelStepTypes
  <2> QED BY <1>2, <2>1, JoinKeeps, ReceiveKeeps, CloseKeeps, ChannelEndsKeeps, JoinRefusedKeeps
          DEF ChannelStep
<1>3. CASE RoomStep
  <2>1. CollabTypeOK'
    BY <1>0, <1>3, RoomStepTypes
  <2> QED BY <1>3, <2>1, RoomStepKeeps
<1>4. CASE UNCHANGED collabVars
  <2>1. Around' = Around
    BY <1>4 DEF collabVars, Around
  <2>2. CollabTypeOK'
    BY <1>0, <1>4 DEF collabVars, CollabTypeOK
  <2>3. LinesHaveEnds' /\ Attached' /\ RoomKeeps' /\ PagesMatch' /\ WordsAround' /\ OneSeed'
    BY <1>4, <2>1 DEF CollabInv, collabVars, LinesHaveEnds, Attached, RoomKeeps, PagesMatch,
       WordsAround, OneSeed, Leads, Seeding, IsOpen
  <2> QED BY <2>2, <2>3 DEF CollabInv
<1> QED BY <1>1, <1>2, <1>3, <1>4 DEF CollabNext, PageStep, ChannelStep, RoomStep

LEMMA RecordAround ==
    ASSUME CollabInv, ~crashed
    PROVE  saved.record \subseteq Around
BY PartsAround DEF CollabInv, RoomKeeps

LEMMA InvSeedsOnce ==
    ASSUME CollabInv
    PROVE  SeededOnce
<1> SUFFICES ASSUME ~crashed, NEW ops \in {room.doc, saved.checkpoint, saved.record}
             PROVE  Cardinality(Seeds(ops) \ strays) <= 1
  BY DEF SeededOnce
<1>1. ops \subseteq Around
  BY PartsAround, RecordAround
<1> DEFINE T == Seeds(ops) \ strays
<1>2. \A s, t \in T : s = t
  BY <1>1 DEF CollabInv, OneSeed, Seeds
<1> HIDE DEF T
<1>3. T = {} \/ \E s : T = {s}
  BY <1>2
<1>4. Cardinality(T) = 0 \/ Cardinality(T) = 1
  BY <1>3, FS_EmptySet, FS_Singleton
<1> QED BY <1>4 DEF T

LEMMA InvKeepsWords ==
    ASSUME CollabInv
    PROVE  KeepsWords
<1> SUFFICES ASSUME ~crashed, NEW word \in words \ abandoned
             PROVE  \/ \E p \in Peers : word \in page[p].doc
                                        \/ \E i \in 1..Len(up[p]) : word \in up[p][i].ops
                    \/ word \in room.doc \union saved.checkpoint \union saved.record
  BY DEF KeepsWords
<1>1. word \in Around
  BY DEF CollabInv, WordsAround
<1>2. \/ \E q \in Peers : word \in page[q].doc \/ word \in OpsOf(up[q])
      \/ word \in room.doc \/ word \in saved.checkpoint
  BY <1>1, InAround
<1> QED BY <1>2 DEF OpsOf

-----------------------------------------------------------------------------
(***************************************************************************)
(* The theorems about the room.                                            *)
(***************************************************************************)

\* Whatever the pages, the lines and the room's server do, the room stays of the
\* kind described above.
THEOREM RoomInvariant == CollabSpec => []CollabInv
<1>1. CollabInit => CollabInv
  BY CollabStarts
<1>2. CollabInv /\ [CollabNext]_collabVars => CollabInv'
  BY CollabStepKeeps
<1> QED BY <1>1, <1>2, PTL DEF CollabSpec

\* The stored text enters a room once, but for the stray seeds, and a word typed
\* in a page is in an open page, on its way, in the room or in the database,
\* unless the room's server died or the page was closed offline.
THEOREM RoomKeepsItsText == CollabSpec => [](SeededOnce /\ KeepsWords)
<1>1. CollabInv => SeededOnce /\ KeepsWords
  BY InvSeedsOnce, InvKeepsWords
<1> QED BY <1>1, RoomInvariant, PTL

-----------------------------------------------------------------------------
(***************************************************************************)
(* The watch over a line, and the words about it.                          *)
(***************************************************************************)

Watches == [heard : 0..(Quiet + 1), asked : 0..(Ask + 1), waiting : BOOLEAN,
            revived : 0..(Revive + 1), lateIn : 0..Late]
Sockets == [wire : Wires, clean : BOOLEAN]
Views == {"joined", "old"} \union Troubles
Notices == [trouble : Troubles \union {NoTrouble}, age : 0..Grace,
            shown : Troubles \union {NoTrouble}]
Tickers == [saved : BOOLEAN, fresh : 0..Fade, says : {"offline", "server", "fresh", "stamp"}]

LEMMA LineShape ==
    LineTypeOK <=>
        /\ socket \in Sockets /\ view \in Views /\ front \in BOOLEAN /\ late \in BOOLEAN
        /\ watch \in Watches /\ notice \in Notices /\ ticker \in Tickers /\ breaks \in 0..MaxBreaks
BY DEF LineTypeOK, Sockets, Views, Watches, Notices, Tickers

\* A line that is written off as deliberate is closed; on one that is open and in
\* front, a question is out, or the silence is not as old as the last question,
\* which is not old enough for the next.
Listening ==
    /\ socket.clean => socket.wire = "closed"
    /\ socket.wire = "open" /\ front =>
          /\ watch.waiting => watch.heard <= Ask
          /\ ~watch.waiting => watch.heard = 0 \/ (watch.heard <= watch.asked /\ watch.asked < Ask)

LineInv == LineTypeOK /\ Listening /\ NoticesAreCurrent

\* What the steps of the watch make of one.
LEMMA WatchTypes ==
    ASSUME NEW w \in Watches, NEW inFront \in BOOLEAN
    PROVE  /\ ForgetTheAsk(w) \in Watches /\ Asked(w, inFront) \in Watches
           /\ ForgetTheAsk(w).heard = 0 /\ ForgetTheAsk(w).asked = Ask
           /\ ~ForgetTheAsk(w).waiting /\ ForgetTheAsk(w).revived = w.revived
           /\ Asked(w, inFront).heard = w.heard /\ Asked(w, inFront).revived = w.revived
           /\ IF inFront /\ ~w.waiting /\ w.asked >= Ask
              THEN Asked(w, inFront).waiting /\ Asked(w, inFront).asked = 0
              ELSE Asked(w, inFront) = w
<1>1. /\ 0 \in 0..(Quiet + 1) /\ 0 \in 0..(Ask + 1) /\ Ask \in 0..(Ask + 1)
      /\ 0 \in 0..(Revive + 1)
  BY LineAssumption
<1>2. /\ ForgetTheAsk(w) \in Watches
      /\ ForgetTheAsk(w).heard = 0 /\ ForgetTheAsk(w).asked = Ask
      /\ ~ForgetTheAsk(w).waiting /\ ForgetTheAsk(w).revived = w.revived
  BY <1>1 DEF ForgetTheAsk, Watches
<1>3. CASE inFront /\ ~w.waiting /\ w.asked >= Ask
  <2>1. Asked(w, inFront) = [w EXCEPT !.asked = 0, !.waiting = TRUE]
    BY <1>3 DEF Asked, Ago
  <2>2. /\ Asked(w, inFront) \in Watches /\ Asked(w, inFront).heard = w.heard
        /\ Asked(w, inFront).revived = w.revived
        /\ Asked(w, inFront).waiting /\ Asked(w, inFront).asked = 0
    BY <1>1, <2>1 DEF Watches
  <2> QED BY <1>2, <1>3, <2>2
<1>4. CASE ~(inFront /\ ~w.waiting /\ w.asked >= Ask)
  <2>1. Asked(w, inFront) = w
    BY <1>4 DEF Asked, Ago
  <2> QED BY <1>2, <1>4, <2>1
<1> QED BY <1>3, <1>4

LEMMA SaidTypes ==
    ASSUME NEW w \in Watches, NEW mark \in {"now", "never", "soon"}
    PROVE  /\ Said(w, mark) \in Watches
           /\ Said(w, mark).heard = w.heard /\ Said(w, mark).asked = w.asked
           /\ Said(w, mark).waiting = w.waiting /\ Said(w, mark).revived = w.revived
<1>1. 0 \in 0..Late /\ Late \in 0..Late
  BY LineAssumption
<1>2. Said(w, mark) \in {w, [w EXCEPT !.lateIn = Late], [w EXCEPT !.lateIn = 0]}
  BY DEF Said, Off
<1>3. CASE Said(w, mark) = w
  BY <1>3
<1>4. CASE Said(w, mark) = [w EXCEPT !.lateIn = Late]
  BY <1>1, <1>4 DEF Watches
<1>5. CASE Said(w, mark) = [w EXCEPT !.lateIn = 0]
  BY <1>1, <1>5 DEF Watches
<1> QED BY <1>2, <1>3, <1>4, <1>5

\* The watch after what it heard.
Heard(w, inFront) ==
    IF ~Connected(socket.wire) \/ socket.clean THEN ForgetTheAsk(w) ELSE Asked(w, inFront)

LEMMA HeardTypes ==
    ASSUME NEW w \in Watches, NEW inFront \in BOOLEAN
    PROVE  /\ Heard(w, inFront) \in Watches
           /\ Heard(w, inFront).revived = w.revived
           /\ Heard(w, inFront).heard \in {0, w.heard}
BY WatchTypes DEF Heard

\* Watching the line leaves it and the view alone, or takes down a line in front
\* that was quiet for too long.
LEMMA WatchingTheLine ==
    ASSUME socket \in Sockets, view \in Views, late \in BOOLEAN,
           NEW w \in Watches, NEW inFront \in BOOLEAN, NEW ranOut \in BOOLEAN,
           WatchTheLine(w, inFront, ranOut)
    PROVE  /\ late' \in BOOLEAN /\ watch' \in Watches
           /\ \/ /\ socket' = socket /\ view' = view
                 /\ watch'.revived = w.revived
                 /\ watch'.heard = Heard(w, inFront).heard
                 /\ watch'.asked = Heard(w, inFront).asked
                 /\ watch'.waiting = Heard(w, inFront).waiting
              \/ /\ inFront /\ Connected(socket.wire) /\ ~socket.clean
                 /\ Heard(w, inFront).heard > Quiet
                 /\ socket' = [wire |-> "closed", clean |-> FALSE]
                 /\ view' \in {"client", IF view = "joined" THEN "old" ELSE view}
<1> DEFINE heard == Heard(w, inFront)
           mark == Mark(heard, inFront)
           said == Said(heard, mark)
<1>1. /\ heard \in Watches /\ heard.revived = w.revived
  BY HeardTypes
<1>2. mark \in {"now", "never", "soon"}
  BY DEF Mark
<1>3. /\ said \in Watches /\ said.revived = heard.revived /\ said.heard = heard.heard
      /\ said.asked = heard.asked /\ said.waiting = heard.waiting
  <2> HIDE DEF heard, mark
  <2> QED BY <1>1, <1>2, SaidTypes
<1>4. /\ late' = (mark = "now" \/ (mark = "soon" /\ (late \/ ranOut)))
      /\ IF Reviving(said, mark)
         THEN /\ watch' = [ForgetTheAsk(said) EXCEPT !.revived = 0]
              /\ socket' = [wire |-> "closed", clean |-> FALSE]
              /\ view' \in {"client", IF view = "joined" THEN "old" ELSE view}
         ELSE watch' = said /\ UNCHANGED <<socket, view>>
  BY DEF WatchTheLine, Heard
<1>5. late' \in BOOLEAN
  BY <1>4
<1>6. CASE ~Reviving(said, mark)
  <2>1. watch' = said /\ socket' = socket /\ view' = view
    BY <1>4, <1>6
  <2> HIDE DEF said, heard
  <2>2. /\ watch' \in Watches /\ watch'.revived = w.revived /\ watch'.heard = heard.heard
        /\ watch'.asked = heard.asked /\ watch'.waiting = heard.waiting
    BY <1>1, <1>3, <2>1
  <2> QED BY <1>5, <2>1, <2>2 DEF heard
<1>7. CASE Reviving(said, mark)
  <2>1. mark = "now"
    BY <1>7 DEF Reviving
  <2>2. /\ inFront /\ Connected(socket.wire) /\ ~socket.clean /\ heard.heard > Quiet
    BY <2>1 DEF Mark
  <2>3. watch' \in Watches
    <3> HIDE DEF said
    <3>1. ForgetTheAsk(said) \in Watches
      BY <1>3, WatchTypes
    <3>2. 0 \in 0..(Revive + 1)
      BY LineAssumption
    <3>3. watch' = [ForgetTheAsk(said) EXCEPT !.revived = 0]
      BY <1>4, <1>7
    <3> QED BY <3>1, <3>2, <3>3 DEF Watches
  <2> QED BY <1>4, <1>5, <1>7, <2>2, <2>3
<1> QED BY <1>6, <1>7

\* A step of the notices shows the trouble it was given, or none.
LEMMA NoticeTypes ==
    ASSUME notice \in Notices, NEW t \in Troubles \union {NoTrouble}
    PROVE  /\ Checked(t) \in Notices
           /\ Checked(t).shown \in {NoTrouble, t}
           /\ Graced(Checked(t), t) \in Notices
           /\ Graced(Checked(t), t).shown \in {NoTrouble, t}
<1>1. Grace \in Nat /\ 0 \in 0..Grace
  BY LineAssumption
<1>2. ASSUME NEW age \in 0..Grace
      PROVE  /\ Noticed(t, age) \in Notices
             /\ Noticed(t, age).shown \in {NoTrouble, t}
             /\ Noticed(t, age).age = age
  BY <1>2 DEF Noticed, Notices
<1>3. notice.age \in 0..Grace
  BY DEF Notices
<1>4. /\ Checked(t) \in Notices
      /\ Checked(t).shown \in {NoTrouble, t}
  BY <1>1, <1>2, <1>3 DEF Checked
<1>5. Checked(t).age \in 0..Grace
  BY <1>4 DEF Notices
<1>6. LET age == Checked(t).age
      IN  (IF age >= Grace THEN age ELSE age + 1) \in 0..Grace
  BY <1>1, <1>5
<1>7. /\ Graced(Checked(t), t) \in Notices
      /\ Graced(Checked(t), t).shown \in {NoTrouble, t}
  BY <1>1, <1>2, <1>6 DEF Graced
<1> QED BY <1>4, <1>7

LEMMA TroubleTypes ==
    ASSUME NEW v \in Views
    PROVE  TroubleOf(v) \in Troubles \union {NoTrouble}
BY DEF TroubleOf, Views

\* Painting the save line changes its words alone.
LEMMA PaintTypes ==
    ASSUME NEW t \in Tickers, NEW marked \in BOOLEAN, NEW v \in Views
    PROVE  Painted(t, marked, v) \in Tickers
<1>1. Painted(t, marked, v) \in
        {[t EXCEPT !.says = "offline"], [t EXCEPT !.says = "fresh"],
         [t EXCEPT !.says = "stamp"], [t EXCEPT !.says = t.says]}
  BY DEF Painted, Tickers
<1>2. /\ [t EXCEPT !.says = "offline"] \in Tickers /\ [t EXCEPT !.says = "fresh"] \in Tickers
      /\ [t EXCEPT !.says = "stamp"] \in Tickers /\ [t EXCEPT !.says = t.says] \in Tickers
  BY DEF Tickers
<1> QED BY <1>1, <1>2

LEMMA LineShapeNext ==
    ASSUME socket' \in Sockets, view' \in Views, front' \in BOOLEAN, late' \in BOOLEAN,
           watch' \in Watches, notice' \in Notices, ticker' \in Tickers, breaks' \in 0..MaxBreaks
    PROVE  LineTypeOK'
BY DEF LineTypeOK, Sockets, Views, Watches, Notices, Tickers

LEMMA CountedTypes ==
    ASSUME breaks \in 0..MaxBreaks, Counted \/ breaks' = breaks
    PROVE  breaks' \in 0..MaxBreaks
BY LineAssumption DEF Counted

\* What the ages of the watch come to after a second; a line in front that is
\* open was not silent for longer than a question takes.
LEMMA SecondOnTheWatch ==
    ASSUME LineInv, ~(watch.waiting /\ socket.wire = "open"),
           NEW aged, aged = [watch EXCEPT !.heard = Older(@, Quiet), !.asked = Older(@, Ask),
                                          !.revived = Older(@, Revive),
                                          !.lateIn = IF @ = Off THEN Off ELSE @ - 1]
    PROVE  /\ aged \in Watches /\ aged.revived # 0
           /\ socket.wire = "open" /\ front =>
                 /\ ~Heard(aged, front).waiting => Heard(aged, front).asked < Ask
                 /\ ~Heard(aged, front).waiting =>
                       Heard(aged, front).heard <= Heard(aged, front).asked
                 /\ Heard(aged, front).heard <= Ask
<1>1. /\ watch \in Watches /\ socket \in Sockets /\ front \in BOOLEAN
  BY LineShape DEF LineInv
<1>2. /\ Quiet \in Nat /\ Ask \in Nat \ {0} /\ Revive \in Nat \ {0} /\ Late \in Nat
      /\ Ask <= Quiet
  BY LineAssumption
<1>3. /\ watch.heard \in 0..(Quiet + 1) /\ watch.asked \in 0..(Ask + 1)
      /\ watch.waiting \in BOOLEAN /\ watch.revived \in 0..(Revive + 1)
      /\ watch.lateIn \in 0..Late
  BY <1>1 DEF Watches
<1>4. /\ Older(watch.heard, Quiet) \in 0..(Quiet + 1)
      /\ Older(watch.asked, Ask) \in 0..(Ask + 1)
      /\ Older(watch.revived, Revive) \in 1..(Revive + 1)
      /\ (IF watch.lateIn = Off THEN Off ELSE watch.lateIn - 1) \in 0..Late
  BY <1>2, <1>3 DEF Older, Off
<1>5. /\ aged.heard = Older(watch.heard, Quiet) /\ aged.asked = Older(watch.asked, Ask)
      /\ aged.waiting = watch.waiting /\ aged.revived = Older(watch.revived, Revive)
      /\ aged.lateIn = IF watch.lateIn = Off THEN Off ELSE watch.lateIn - 1
  BY <1>1 DEF Watches
<1>6. aged \in Watches /\ aged.revived # 0
  <2>1. aged = [heard |-> aged.heard, asked |-> aged.asked, waiting |-> aged.waiting,
                revived |-> aged.revived, lateIn |-> aged.lateIn]
    BY <1>1 DEF Watches
  <2>2. aged.revived # 0
    BY <1>4, <1>5
  <2>3. /\ aged.heard \in 0..(Quiet + 1) /\ aged.asked \in 0..(Ask + 1)
        /\ aged.waiting \in BOOLEAN /\ aged.revived \in 0..(Revive + 1)
        /\ aged.lateIn \in 0..Late
    BY <1>3, <1>4, <1>5
  <2> HIDE DEF Watches
  <2>4. aged \in [heard : 0..(Quiet + 1), asked : 0..(Ask + 1), waiting : BOOLEAN,
                  revived : 0..(Revive + 1), lateIn : 0..Late]
    BY <2>1, <2>3
  <2> QED BY <2>2, <2>4 DEF Watches
<1>7. ASSUME socket.wire = "open", front
      PROVE  /\ ~Heard(aged, front).waiting => Heard(aged, front).asked < Ask
             /\ ~Heard(aged, front).waiting =>
                   Heard(aged, front).heard <= Heard(aged, front).asked
             /\ Heard(aged, front).heard <= Ask
  <2>1. ~watch.waiting /\ ~socket.clean /\ Connected(socket.wire)
    BY <1>7 DEF LineInv, Listening, Connected
  <2>2. watch.heard = 0 \/ (watch.heard <= watch.asked /\ watch.asked < Ask)
    BY <1>7, <2>1 DEF LineInv, Listening
  <2>3. Heard(aged, front) = Asked(aged, front)
    BY <2>1 DEF Heard
  <2>4. /\ aged.heard <= Ask
        /\ aged.asked < Ask => aged.heard <= aged.asked
    BY <1>2, <1>3, <1>5, <2>2 DEF Older
  <2>5. /\ Asked(aged, front).heard = aged.heard
        /\ IF front /\ ~aged.waiting /\ aged.asked >= Ask
           THEN Asked(aged, front).waiting /\ Asked(aged, front).asked = 0
           ELSE Asked(aged, front) = aged
    BY <1>1, <1>6, WatchTypes
  <2>6. aged.asked \in Nat /\ ~aged.waiting
    BY <1>4, <1>5, <2>1
  <2>7. CASE aged.asked >= Ask
    <3>1. Asked(aged, front).waiting
      BY <1>7, <2>5, <2>6, <2>7
    <3> QED BY <2>3, <2>4, <2>5, <3>1
  <2>8. CASE aged.asked < Ask
    <3>1. Asked(aged, front) = aged
      <4>1. ~(aged.asked >= Ask)
        BY <1>2, <2>6, <2>8
      <4> QED BY <2>5, <4>1
    <3> QED BY <2>3, <2>4, <2>8, <3>1
  <2>9. aged.asked >= Ask \/ aged.asked < Ask
    BY <1>2, <2>6
  <2> QED BY <2>7, <2>8, <2>9
<1> QED BY <1>6, <1>7

\* A second takes down a line only when it was cut without a goodbye.
LEMMA SecondRevives ==
    ASSUME LineInv, Second
    PROVE  /\ LineInv'
           /\ watch'.revived = 0 => socket.wire = "dead"
<1> DEFINE aged == [watch EXCEPT !.heard = Older(@, Quiet), !.asked = Older(@, Ask),
                                 !.revived = Older(@, Revive),
                                 !.lateIn = IF @ = Off THEN Off ELSE @ - 1]
           faded == IF ticker.fresh = Off THEN ticker ELSE [ticker EXCEPT !.fresh = @ - 1]
<1>1. /\ socket \in Sockets /\ view \in Views /\ front \in BOOLEAN /\ late \in BOOLEAN
      /\ watch \in Watches /\ notice \in Notices /\ ticker \in Tickers /\ breaks \in 0..MaxBreaks
  BY LineShape DEF LineInv
<1>2. /\ ~(watch.waiting /\ socket.wire = "open")
      /\ WatchTheLine(aged, front, watch.lateIn = 1)
      /\ notice' = Graced(Checked(TroubleOf(view')), TroubleOf(view'))
      /\ ticker' = Painted(faded, late', view')
      /\ UNCHANGED <<front, breaks>>
  BY DEF Second
<1> HIDE DEF aged
<1>3. /\ aged \in Watches /\ aged.revived # 0
      /\ socket.wire = "open" /\ front =>
            /\ ~Heard(aged, front).waiting => Heard(aged, front).asked < Ask
            /\ ~Heard(aged, front).waiting =>
                  Heard(aged, front).heard <= Heard(aged, front).asked
            /\ Heard(aged, front).heard <= Ask
  BY <1>2, SecondOnTheWatch DEF aged
<1>4. /\ late' \in BOOLEAN /\ watch' \in Watches
      /\ \/ /\ socket' = socket /\ view' = view
            /\ watch'.revived = aged.revived
            /\ watch'.heard = Heard(aged, front).heard
            /\ watch'.asked = Heard(aged, front).asked
            /\ watch'.waiting = Heard(aged, front).waiting
         \/ /\ front /\ Connected(socket.wire) /\ ~socket.clean
            /\ Heard(aged, front).heard > Quiet
            /\ socket' = [wire |-> "closed", clean |-> FALSE]
            /\ view' \in {"client", IF view = "joined" THEN "old" ELSE view}
  <2> DEFINE ranOut == watch.lateIn = 1
  <2>1. ranOut \in BOOLEAN
    OBVIOUS
  <2>2. WatchTheLine(aged, front, ranOut)
    BY <1>2
  <2> HIDE DEF ranOut
  <2> QED BY <1>1, <1>3, <2>1, <2>2, WatchingTheLine
<1>5. view' \in Views /\ socket' \in Sockets
  <2>1. /\ "client" \in Views /\ "old" \in Views
        /\ [wire |-> "closed", clean |-> FALSE] \in Sockets
    BY DEF Views, Troubles, Sockets, Wires
  <2> QED BY <1>1, <1>4, <2>1
<1>6. notice' \in Notices /\ notice'.shown \in {NoTrouble, TroubleOf(view')}
  BY <1>1, <1>2, <1>5, NoticeTypes, TroubleTypes
<1>7. ticker' \in Tickers
  <2>1. faded \in Tickers
    <3>1. ticker.fresh \in 0..Fade /\ Fade \in Nat
      BY <1>1, LineAssumption DEF Tickers
    <3>2. ticker.fresh # Off => ticker.fresh - 1 \in 0..Fade
      BY <3>1 DEF Off
    <3> QED BY <1>1, <3>2 DEF Tickers
  <2> HIDE DEF faded
  <2> QED BY <1>2, <1>4, <1>5, <2>1, PaintTypes
<1>8. LineTypeOK'
  BY <1>1, <1>2, <1>4, <1>5, <1>6, <1>7, LineShapeNext
<1>9. CASE socket' = socket /\ view' = view /\ watch'.revived = aged.revived
           /\ watch'.heard = Heard(aged, front).heard /\ watch'.asked = Heard(aged, front).asked
           /\ watch'.waiting = Heard(aged, front).waiting
  <2>1. watch'.revived # 0
    BY <1>3, <1>9
  <2>2. Listening'
    BY <1>2, <1>3, <1>9 DEF LineInv, Listening
  <2>3. NoticesAreCurrent'
    BY <1>6, <1>9 DEF LineInv, NoticesAreCurrent
  <2> QED BY <1>8, <2>1, <2>2, <2>3 DEF LineInv
<1>10. CASE /\ front /\ Connected(socket.wire) /\ ~socket.clean
            /\ Heard(aged, front).heard > Quiet
            /\ socket' = [wire |-> "closed", clean |-> FALSE]
            /\ view' \in {"client", IF view = "joined" THEN "old" ELSE view}
  <2>1. socket.wire # "open"
    <3>1. Heard(aged, front) \in Watches
      BY <1>1, <1>3, HeardTypes
    <3>2. Quiet \in Nat /\ Ask \in Nat /\ Ask <= Quiet
      BY LineAssumption
    <3>3. Heard(aged, front).heard \in Nat
      BY <3>1, <3>2 DEF Watches
    <3>4. Heard(aged, front).heard > Quiet
      BY <1>10
    <3>5. ~(Heard(aged, front).heard <= Ask)
      BY <3>2, <3>3, <3>4
    <3> QED BY <1>3, <1>10, <3>5
  <2>2. socket.wire = "dead"
    BY <1>10, <2>1 DEF Connected
  <2>3. Listening' /\ NoticesAreCurrent'
    BY <1>6, <1>10 DEF Listening, NoticesAreCurrent
  <2> QED BY <1>8, <2>2, <2>3 DEF LineInv
<1> QED BY <1>4, <1>9, <1>10

\* A tab that goes away or comes back takes no line down: what it heard before
\* does not count, or it is not in front to ask.
LEMMA ComeBackLine ==
    ASSUME LineInv, ComeBack
    PROVE  LineInv' /\ watch'.revived = watch.revived
<1> DEFINE w == ForgetTheAsk(watch)
<1>1. /\ socket \in Sockets /\ view \in Views /\ front \in BOOLEAN /\ late \in BOOLEAN
      /\ watch \in Watches /\ notice \in Notices /\ ticker \in Tickers /\ breaks \in 0..MaxBreaks
  BY LineShape DEF LineInv
<1>2. /\ w \in Watches /\ w.heard = 0 /\ w.revived = watch.revived
      /\ ~w.waiting /\ w.asked = Ask
  BY <1>1, WatchTypes
<1>3. /\ front' = TRUE /\ notice' = notice /\ ticker' = ticker
      /\ WatchTheLine(w, TRUE, FALSE) /\ (Counted \/ breaks' = breaks)
  BY DEF ComeBack
<1> HIDE DEF w
<1>4. /\ late' \in BOOLEAN /\ watch' \in Watches
      /\ \/ /\ socket' = socket /\ view' = view
            /\ watch'.revived = w.revived
            /\ watch'.heard = Heard(w, TRUE).heard
            /\ watch'.asked = Heard(w, TRUE).asked
            /\ watch'.waiting = Heard(w, TRUE).waiting
         \/ Heard(w, TRUE).heard > Quiet
  BY <1>1, <1>2, <1>3, WatchingTheLine
<1>5. Heard(w, TRUE).heard = 0
  BY <1>2, HeardTypes
<1>6. /\ socket' = socket /\ view' = view /\ watch'.revived = watch.revived
      /\ watch'.heard = 0
  <2> DEFINE silence == Heard(w, TRUE).heard
  <2>1. silence = 0
    BY <1>5
  <2> HIDE DEF silence
  <2>2. ~(silence > Quiet)
    BY <2>1, LineAssumption
  <2> QED BY <1>2, <1>4, <1>5, <2>2 DEF silence
<1>7. breaks' \in 0..MaxBreaks
  BY <1>1, <1>3, CountedTypes
<1>8. LineTypeOK'
  BY <1>1, <1>3, <1>4, <1>6, <1>7, LineShapeNext
<1>9. Listening' /\ NoticesAreCurrent'
  BY <1>3, <1>6, LineAssumption DEF LineInv, Listening, NoticesAreCurrent
<1> QED BY <1>6, <1>8, <1>9 DEF LineInv

LEMMA GoAwayLine ==
    ASSUME LineInv, GoAway
    PROVE  LineInv' /\ watch'.revived = watch.revived
<1>1. /\ socket \in Sockets /\ view \in Views /\ front \in BOOLEAN /\ late \in BOOLEAN
      /\ watch \in Watches /\ notice \in Notices /\ ticker \in Tickers /\ breaks \in 0..MaxBreaks
  BY LineShape DEF LineInv
<1>2. /\ front' = FALSE /\ notice' = notice /\ ticker' = ticker
      /\ WatchTheLine(watch, FALSE, FALSE) /\ Counted
  BY DEF GoAway
<1>3. /\ late' \in BOOLEAN /\ watch' \in Watches
      /\ socket' = socket /\ view' = view /\ watch'.revived = watch.revived
  BY <1>1, <1>2, WatchingTheLine
<1>4. breaks' \in 0..MaxBreaks
  BY <1>1, <1>2, CountedTypes
<1>5. LineTypeOK'
  BY <1>1, <1>2, <1>3, <1>4, LineShapeNext
<1>6. Listening' /\ NoticesAreCurrent'
  BY <1>2, <1>3 DEF LineInv, Listening, NoticesAreCurrent
<1> QED BY <1>3, <1>5, <1>6 DEF LineInv

\* What the server says on the line ends its silence.
LEMMA HearingTypes ==
    ASSUME watch \in Watches
    PROVE  LET heard == [watch EXCEPT !.heard = 0]
               answered == [watch EXCEPT !.waiting = FALSE, !.heard = 0]
           IN  /\ heard \in Watches /\ heard.heard = 0 /\ heard.revived = watch.revived
               /\ answered \in Watches /\ answered.heard = 0
               /\ answered.revived = watch.revived
<1>1. 0 \in 0..(Quiet + 1)
  BY LineAssumption
<1> QED BY <1>1 DEF Watches

LEMMA HearingLine ==
    ASSUME LineInv, Answer \/ SaveLands \/ ViewJoins \/ ViewRefused
    PROVE  LineInv' /\ watch'.revived = watch.revived
<1>1. /\ socket \in Sockets /\ view \in Views /\ front \in BOOLEAN /\ late \in BOOLEAN
      /\ watch \in Watches /\ notice \in Notices /\ ticker \in Tickers /\ breaks \in 0..MaxBreaks
  BY LineShape DEF LineInv
<1>2. /\ watch' \in Watches /\ watch'.heard = 0 /\ watch'.revived = watch.revived
  BY <1>1, HearingTypes DEF Answer, SaveLands, ViewJoins, ViewRefused
<1>3. socket' = socket /\ front' = front /\ late' = late
  BY DEF Answer, SaveLands, ViewJoins, ViewRefused
<1>4. Listening'
  BY <1>2, <1>3, LineAssumption DEF LineInv, Listening
<1>5. breaks' \in 0..MaxBreaks
  BY <1>1, CountedTypes DEF Answer, SaveLands, ViewJoins, ViewRefused
<1>6. CASE Answer
  <2>1. view' = view /\ notice' = notice /\ ticker' = ticker
    BY <1>6 DEF Answer
  <2>2. LineTypeOK'
    BY <1>1, <1>2, <1>3, <1>5, <2>1, LineShapeNext
  <2> QED BY <1>2, <1>3, <1>4, <2>1, <2>2 DEF LineInv, NoticesAreCurrent
<1>7. CASE SaveLands
  <2> DEFINE stamped == [ticker EXCEPT !.saved = TRUE, !.fresh = Fade]
  <2>1. stamped \in Tickers
    <3>1. Fade \in 0..Fade
      BY LineAssumption
    <3> QED BY <1>1, <3>1 DEF Tickers
  <2> HIDE DEF stamped
  <2>2. Painted(stamped, late, view) \in Tickers
    BY <1>1, <2>1, PaintTypes
  <2>3. view' = view /\ notice' = notice /\ ticker' \in Tickers
    BY <1>7, <2>2 DEF SaveLands, stamped
  <2>4. LineTypeOK'
    BY <1>1, <1>2, <1>3, <1>5, <2>3, LineShapeNext
  <2> QED BY <1>2, <1>3, <1>4, <2>3, <2>4 DEF LineInv, NoticesAreCurrent
<1>8. CASE ViewJoins
  <2> DEFINE stamped == [ticker EXCEPT !.saved = TRUE]
  <2>1. stamped \in Tickers /\ "joined" \in Views
    BY <1>1 DEF Tickers, Views
  <2> HIDE DEF stamped
  <2>2. Painted(stamped, late, "joined") \in Tickers
    BY <1>1, <2>1, PaintTypes
  <2>3. view' = "joined" /\ ticker' \in Tickers
    BY <1>8, <2>2 DEF ViewJoins, stamped
  <2>4. notice' \in Notices /\ notice'.shown = NoTrouble
    BY <1>1, <1>8, NoticeTypes DEF ViewJoins
  <2>5. LineTypeOK'
    BY <1>1, <1>2, <1>3, <1>5, <2>1, <2>3, <2>4, LineShapeNext
  <2>6. NoticesAreCurrent'
    BY <2>3, <2>4 DEF NoticesAreCurrent
  <2> QED BY <1>2, <1>4, <2>5, <2>6 DEF LineInv
<1>9. CASE ViewRefused
  <2>1. view' = "server" /\ ticker' = ticker
    BY <1>9 DEF ViewRefused
  <2>2. "server" \in Views /\ "server" \in Troubles
    BY DEF Views, Troubles
  <2>3. notice' \in Notices /\ notice'.shown \in {NoTrouble, "server"}
    BY <1>1, <1>9, <2>2, NoticeTypes DEF ViewRefused
  <2>4. LineTypeOK'
    BY <1>1, <1>2, <1>3, <1>5, <2>1, <2>2, <2>3, LineShapeNext
  <2>5. NoticesAreCurrent'
    BY <2>1, <2>2, <2>3 DEF NoticesAreCurrent, TroubleOf
  <2> QED BY <1>2, <1>4, <2>4, <2>5 DEF LineInv
<1> QED BY <1>6, <1>7, <1>8, <1>9

\* What befalls the line leaves the watch alone, or has it forget the ask.
LEMMA EnvironmentLine ==
    ASSUME LineInv, Cut \/ Closed \/ Freeze \/ Thaw \/ Reconnect
    PROVE  LineInv' /\ watch'.revived = watch.revived
<1>1. /\ socket \in Sockets /\ view \in Views /\ front \in BOOLEAN /\ late \in BOOLEAN
      /\ watch \in Watches /\ notice \in Notices /\ ticker \in Tickers /\ breaks \in 0..MaxBreaks
  BY LineShape DEF LineInv
<1>2. front' = front /\ late' = late /\ ticker' = ticker
  BY DEF Cut, Closed, Freeze, Thaw, Reconnect
<1>3. breaks' \in 0..MaxBreaks
  BY <1>1, CountedTypes DEF Cut, Closed, Freeze, Thaw, Reconnect
<1>4. socket' \in Sockets
  <2>1. /\ [socket EXCEPT !.wire = "dead"] \in Sockets
        /\ [socket EXCEPT !.clean = FALSE] \in Sockets
        /\ [socket EXCEPT !.wire = "open"] \in Sockets
        /\ [wire |-> "closed", clean |-> FALSE] \in Sockets
        /\ [wire |-> "closed", clean |-> TRUE] \in Sockets
    BY <1>1 DEF Sockets, Wires
  <2> QED BY <2>1 DEF Cut, Closed, Freeze, Thaw, Reconnect
<1>5. "client" \in Views /\ "old" \in Views /\ "client" \in Troubles
  BY DEF Views, Troubles
<1>6. CASE Cut \/ Thaw
  <2>1. view' = view /\ watch' = watch /\ notice' = notice
    BY <1>6 DEF Cut, Thaw
  <2>2. LineTypeOK'
    BY <1>1, <1>2, <1>3, <1>4, <2>1, LineShapeNext
  <2>3. socket'.wire # "open" /\ (socket'.clean => socket'.wire = "closed")
    BY <1>1, <1>6 DEF Cut, Thaw, Sockets, LineInv, Listening
  <2>4. Listening' /\ NoticesAreCurrent'
    BY <2>1, <2>3 DEF LineInv, Listening, NoticesAreCurrent
  <2> QED BY <2>1, <2>2, <2>4 DEF LineInv
<1>7. CASE Closed
  <2>1. /\ view' = "client" /\ watch' = watch /\ notice' = Checked("client")
        /\ socket' = [wire |-> "closed", clean |-> FALSE]
    BY <1>7 DEF Closed
  <2>2. notice' \in Notices /\ notice'.shown \in {NoTrouble, "client"}
    BY <1>1, <1>5, <2>1, NoticeTypes
  <2>3. LineTypeOK'
    BY <1>1, <1>2, <1>3, <1>4, <1>5, <2>1, <2>2, LineShapeNext
  <2>4. Listening' /\ NoticesAreCurrent'
    BY <1>5, <2>1, <2>2 DEF Listening, NoticesAreCurrent, TroubleOf
  <2> QED BY <2>1, <2>3, <2>4 DEF LineInv
<1>8. CASE Freeze
  <2>1. /\ view' = (IF view = "joined" THEN "old" ELSE view)
        /\ watch' = watch /\ notice' = notice
        /\ socket' = [wire |-> "closed", clean |-> TRUE]
    BY <1>8 DEF Freeze
  <2>2. view' \in Views
    BY <1>1, <1>5, <2>1
  <2>3. LineTypeOK'
    BY <1>1, <1>2, <1>3, <1>4, <2>1, <2>2, LineShapeNext
  <2>4. TroubleOf(view') = TroubleOf(view)
    BY <2>1 DEF TroubleOf, Troubles
  <2>5. Listening' /\ NoticesAreCurrent'
    BY <2>1, <2>4 DEF LineInv, Listening, NoticesAreCurrent
  <2> QED BY <2>1, <2>3, <2>5 DEF LineInv
<1>9. CASE Reconnect
  <2>1. /\ view' = (IF view \in {"joined", "old"} THEN "client" ELSE view)
        /\ watch' = ForgetTheAsk(watch) /\ notice' = Checked(TroubleOf(view'))
        /\ socket' = [wire |-> "open", clean |-> FALSE]
    BY <1>9 DEF Reconnect
  <2>2. view' \in Views /\ view' # "old"
    BY <1>1, <1>5, <2>1
  <2>3. notice' \in Notices /\ notice'.shown \in {NoTrouble, TroubleOf(view')}
    BY <1>1, <2>1, <2>2, NoticeTypes, TroubleTypes
  <2>4. watch' \in Watches /\ watch'.heard = 0 /\ watch'.revived = watch.revived
    BY <1>1, <2>1, WatchTypes
  <2>5. LineTypeOK'
    BY <1>1, <1>2, <1>3, <1>4, <2>2, <2>3, <2>4, LineShapeNext
  <2>6. Listening' /\ NoticesAreCurrent'
    BY <2>1, <2>2, <2>3, <2>4, LineAssumption DEF Listening, NoticesAreCurrent
  <2> QED BY <2>4, <2>5, <2>6 DEF LineInv
<1> QED BY <1>6, <1>7, <1>8, <1>9

LEMMA FreshWatchTypes ==
    /\ FreshWatch \in Watches /\ FreshWatch.heard = 0 /\ FreshWatch.revived # 0
<1>1. /\ 0 \in 0..(Quiet + 1) /\ Ask \in 0..(Ask + 1) /\ Revive \in 0..(Revive + 1)
      /\ 0 \in 0..Late /\ Revive # 0
  BY LineAssumption
<1> QED BY <1>1 DEF FreshWatch, Watches, Off

\* Pressing "Try again" reloads the page or builds the line again.
LEMMA TryAgainLine ==
    ASSUME LineInv, TryAgain
    PROVE  LineInv' /\ (watch'.revived = watch.revived \/ watch'.revived # 0)
<1>1. /\ socket \in Sockets /\ view \in Views /\ front \in BOOLEAN /\ late \in BOOLEAN
      /\ watch \in Watches /\ notice \in Notices /\ ticker \in Tickers /\ breaks \in 0..MaxBreaks
  BY LineShape DEF LineInv
<1>2. front' = front /\ breaks' = breaks /\ socket' = [wire |-> "closed", clean |-> FALSE]
  BY DEF TryAgain
<1>3. socket' \in Sockets
  BY <1>2 DEF Sockets, Wires
<1>4. Listening'
  BY <1>2 DEF Listening
<1>5. CASE view = "server"
  <2>1. /\ view' = "client" /\ watch' = FreshWatch /\ late' = FALSE
        /\ notice' = [trouble |-> "client", age |-> 0, shown |-> NoTrouble]
        /\ ticker' = [ticker EXCEPT !.fresh = Off, !.says = "server"]
    BY <1>5 DEF TryAgain
  <2>2. view' \in Views
    BY <2>1 DEF Views, Troubles
  <2>3. notice' \in Notices
    BY <2>1, LineAssumption DEF Notices, Troubles
  <2>4. ticker' \in Tickers
    <3>1. 0 \in 0..Fade
      BY LineAssumption
    <3> QED BY <1>1, <2>1, <3>1 DEF Tickers, Off
  <2>5. LineTypeOK'
    BY <1>1, <1>2, <1>3, <2>1, <2>2, <2>3, <2>4, FreshWatchTypes, LineShapeNext
  <2>6. NoticesAreCurrent'
    BY <1>2, <2>1 DEF NoticesAreCurrent
  <2> QED BY <1>4, <2>1, <2>5, <2>6, FreshWatchTypes DEF LineInv
<1>6. CASE view # "server"
  <2>1. view' = view /\ watch' = watch /\ late' = late /\ notice' = notice /\ ticker' = ticker
    BY <1>6 DEF TryAgain
  <2>2. LineTypeOK'
    BY <1>1, <1>2, <1>3, <2>1, LineShapeNext
  <2>3. NoticesAreCurrent'
    BY <1>2, <2>1 DEF LineInv, NoticesAreCurrent
  <2> QED BY <1>4, <2>1, <2>2, <2>3 DEF LineInv
<1> QED BY <1>5, <1>6

LEMMA LineInitInv == LineInit => LineInv
<1> SUFFICES ASSUME LineInit PROVE LineInv
  OBVIOUS
<1>1. /\ socket = [wire |-> "open", clean |-> FALSE] /\ view = "joined" /\ front = TRUE
      /\ watch = FreshWatch /\ late = FALSE /\ breaks = 0
      /\ notice = [trouble |-> NoTrouble, age |-> 0, shown |-> NoTrouble]
      /\ ticker = [saved |-> FALSE, fresh |-> Off, says |-> "server"]
  BY DEF LineInit
<1>2. socket \in Sockets /\ view \in Views /\ front \in BOOLEAN /\ late \in BOOLEAN
  BY <1>1 DEF Sockets, Wires, Views
<1>3. breaks \in 0..MaxBreaks
  BY <1>1, LineAssumption
<1>4. notice \in Notices
  BY <1>1, LineAssumption DEF Notices
<1>5. ticker \in Tickers
  BY <1>1, LineAssumption DEF Tickers, Off
<1>6. LineTypeOK
  BY <1>1, <1>2, <1>3, <1>4, <1>5, FreshWatchTypes, LineShape
<1>7. Listening
  BY <1>1, FreshWatchTypes, LineAssumption DEF Listening
<1>8. NoticesAreCurrent
  BY <1>1 DEF NoticesAreCurrent
<1> QED BY <1>6, <1>7, <1>8 DEF LineInv

LEMMA LineStep ==
    ASSUME LineInv, [LineNext]_lineVars
    PROVE  /\ LineInv'
           /\ watch'.revived = 0 /\ watch.revived # 0 => socket.wire = "dead"
<1>1. CASE Second
  BY <1>1, SecondRevives
<1>2. CASE Answer \/ SaveLands \/ ViewJoins \/ ViewRefused
  BY <1>2, HearingLine
<1>3. CASE ComeBack
  BY <1>3, ComeBackLine
<1>4. CASE GoAway
  BY <1>4, GoAwayLine
<1>5. CASE TryAgain
  BY <1>5, TryAgainLine
<1>6. CASE Cut \/ Closed \/ Freeze \/ Thaw \/ Reconnect
  BY <1>6, EnvironmentLine
<1>7. CASE UNCHANGED lineVars
  BY <1>7 DEF lineVars, LineInv, LineTypeOK, Listening, NoticesAreCurrent
<1> QED BY <1>1, <1>2, <1>3, <1>4, <1>5, <1>6, <1>7 DEF LineNext

\* The invariant of the line: what the watch keeps is of its shape, a line in
\* front that is open was asked or heard lately, and what the page says is so.
THEOREM LineInvariant == LineSpec => []LineInv
<1>1. LineInv /\ [LineNext]_lineVars => LineInv'
  BY LineStep
<1> QED BY <1>1, LineInitInv, PTL DEF LineSpec

\* The page shows the notice of the trouble it is in and of no other, and a view
\* that reads joined on a line that is up was joined on it, however the line was
\* cut, frozen, rebuilt or refused.
THEOREM PageSaysWhatIsSo == LineSpec => []NoticesAreCurrent
<1>1. LineInv => NoticesAreCurrent
  BY DEF LineInv
<1> QED BY <1>1, LineInvariant, PTL

\* A line that answers is never called quiet and taken down: the watch takes
\* down only one that was cut without a goodbye.
THEOREM LineLeftAlone == LineSpec => LiveLineLeftAlone
<1>1. LineInv /\ [LineNext]_lineVars
        => [watch'.revived = 0 /\ watch.revived # 0 => socket.wire = "dead"]_lineVars
  BY LineStep
<1> QED BY <1>1, LineInvariant, PTL DEF LineSpec, LiveLineLeftAlone
===============================================================================
