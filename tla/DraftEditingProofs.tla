------------------------ MODULE DraftEditingProofs -------------------------
(***************************************************************************)
(* Theorems about DraftEditing, for any number of sessions, edits and      *)
(* events.                                                                 *)
(***************************************************************************)
EXTENDS DraftEditing, SequenceTheorems, TLAPS

-----------------------------------------------------------------------------
(* What follows the edits on their way from a page to the row.             *)

Kept == everSaved \union told

NoBody(ms) == \A i \in DOMAIN ms : ms[i].kind # "body"

\* After its first k messages, the process that holds text will hold x.
Reaches(x, ms, k, text) ==
    \/ x \subseteq text /\ \A j \in 1..k : ms[j].kind # "body"
    \/ \E i \in 1..k : /\ ms[i].kind = "body" /\ x \subseteq ms[i].text
                       /\ \A j \in (i + 1)..k : ms[j].kind # "body"

\* One session: its host b, its line l, its messages ms, its process
\* p, its author's edits, whether it waits for the field, and what was kept of
\* all edits or dropped.
Fine(b, l, ms, p, mine, asks, kept, dropped) ==
    /\ l = "up" => p.alive
    /\ l # "up" => ms = <<>>
    /\ p.state \notin Unsettled => p.text \subseteq kept
    /\ ~b.edited => b.text \subseteq kept
    /\ mine \subseteq kept \union dropped \union b.text
    /\ l = "up" /\ ~b.pending => Reaches(b.text \ kept, ms, Len(ms), p.text)
    /\ \A i \in DOMAIN ms :
         ms[i].kind = "flushed" => Reaches(ms[i].text \ kept, ms, i, p.text)
    /\ l = "up" /\ p.gen # b.gen =>
         b.text \subseteq kept /\ ~b.pending /\ NoBody(ms) /\ p.state \notin Unsettled
    /\ asks => p.alive /\ (l = "up" => ~b.pending /\ NoBody(ms))

Asks(s) == lock.taker = s /\ ~lock.takerGone

SessionInv(s) ==
    Fine(browser[s], line[s], wire[s], server[s], typed[s], Asks(s), Kept, remounted)

EditsInv ==
    /\ TypeOK
    /\ record.text \subseteq everSaved
    /\ \A s \in Sessions : SessionInv(s)

-----------------------------------------------------------------------------
(* Types.                                                                  *)

Row == [ver : Nat, text : SUBSET Edits]

HostState == [text : SUBSET Edits, pending : BOOLEAN, edited : BOOLEAN,
              version : Nat, gen : Nat, locked : BOOLEAN]

ProcessState == [alive : BOOLEAN, rec : Nat, form : Nat, text : SUBSET Edits,
                 state : SaveStates, conflict : BOOLEAN, flushing : BOOLEAN,
                 asked : BOOLEAN, focus : BOOLEAN, gen : Nat]

LEMMA MessageTypes ==
    ASSUME NEW x \in SUBSET Edits
    PROVE  /\ Body(x) \in Message /\ Body(x).kind = "body" /\ Body(x).text = x
           /\ BodyFlushed(x) \in Message
           /\ BodyFlushed(x).kind = "flushed" /\ BodyFlushed(x).text = x
           /\ SaveEvent \in Message /\ SaveEvent.kind = "save"
BY DEF Message, Body, BodyFlushed, SaveEvent

LEMMA MountedType ==
    ASSUME NEW row \in Row
    PROVE  /\ Mounted(row) \in ProcessState
           /\ [Mounted(row) EXCEPT !.alive = FALSE] \in ProcessState
           /\ Mounted(row).alive /\ Mounted(row).text = row.text
           /\ Mounted(row).state = "saved" /\ Mounted(row).gen = 0
           /\ ~[Mounted(row) EXCEPT !.alive = FALSE].alive
           /\ [Mounted(row) EXCEPT !.alive = FALSE].text = row.text
           /\ [Mounted(row) EXCEPT !.alive = FALSE].state = "saved"
BY DEF Mounted, ProcessState, Row, SaveStates, Unsettled

LEMMA FreshType ==
    ASSUME NEW text \in SUBSET Edits, NEW gen \in Nat, NEW locked \in BOOLEAN
    PROVE  /\ FreshHost(text, gen, locked) \in HostState
           /\ FreshHost(text, gen, locked).text = text
           /\ ~FreshHost(text, gen, locked).pending
           /\ ~FreshHost(text, gen, locked).edited
           /\ FreshHost(text, gen, locked).gen = gen
BY DEF FreshHost, HostState

LEMMA ReloadedType ==
    ASSUME NEW p \in ProcessState, NEW row \in Row
    PROVE  /\ Reloaded(p, row) \in ProcessState
           /\ Reloaded(p, row).alive = p.alive
           /\ Reloaded(p, row).text = row.text
           /\ Reloaded(p, row).state = "saved"
<1> DEFINE q == Reloaded(p, row)
<1>1. q = [p EXCEPT !.rec = row.ver, !.form = row.ver, !.text = row.text,
                    !.state = "saved", !.conflict = FALSE, !.gen = p.gen + 1]
  BY DEF Reloaded
<1>2. row.ver \in Nat /\ row.text \in SUBSET Edits /\ p.gen + 1 \in Nat /\ "saved" \in SaveStates
  BY DEF Row, ProcessState, SaveStates
<1> QED BY <1>1, <1>2 DEF ProcessState

LEMMA SettledType ==
    ASSUME NEW b \in HostState
    PROVE  /\ Settled(b) \in HostState /\ ~Settled(b).pending
           /\ Settled(b).text = b.text /\ Settled(b).edited = b.edited
           /\ Settled(b).gen = b.gen /\ Settled(b).version = b.version
           /\ Settled(b).locked = b.locked
BY DEF Settled, HostState

-----------------------------------------------------------------------------
(* Messages.                                                               *)

LEMMA ReachesFewer ==
    ASSUME NEW x, NEW y, NEW ms, NEW k, NEW text,
           Reaches(x, ms, k, text), y \subseteq x
    PROVE  Reaches(y, ms, k, text)
BY DEF Reaches

LEMMA ReachesMore ==
    ASSUME NEW ms \in Seq(Message), NEW m \in Message, NEW x, NEW text,
           NEW k \in 0..Len(ms), Reaches(x, ms, k, text)
    PROVE  Reaches(x, ms \o <<m>>, k, text)
<1>1. \A i \in 1..k : (ms \o <<m>>)[i] = ms[i]
  BY ConcatProperties
<1> QED BY <1>1 DEF Reaches

LEMMA ReachesPast ==
    ASSUME NEW ms \in Seq(Message), NEW m \in Message, NEW x, NEW text,
           Reaches(x, ms, Len(ms), text), m.kind # "body"
    PROVE  Reaches(x, ms \o <<m>>, Len(ms) + 1, text)
<1>1. /\ \A i \in 1..Len(ms) : (ms \o <<m>>)[i] = ms[i]
      /\ (ms \o <<m>>)[Len(ms) + 1] = m
      /\ Len(ms) \in Nat
  BY ConcatProperties, LenProperties
<1> QED BY <1>1 DEF Reaches

LEMMA ReachesNew ==
    ASSUME NEW ms \in Seq(Message), NEW m \in Message, NEW x, NEW text,
           m.kind = "body", x \subseteq m.text
    PROVE  Reaches(x, ms \o <<m>>, Len(ms) + 1, text)
<1>1. (ms \o <<m>>)[Len(ms) + 1] = m /\ Len(ms) \in Nat
  BY ConcatProperties, LenProperties
<1> QED BY <1>1 DEF Reaches

\* The process handles its first message.
LEMMA ReachesNext ==
    ASSUME NEW ms \in Seq(Message), ms # <<>>, NEW x, NEW text, NEW k \in 1..Len(ms),
           Reaches(x, ms, k, text)
    PROVE  Reaches(x, Tail(ms), k - 1,
                   IF Head(ms).kind = "body" THEN Head(ms).text ELSE text)
<1> DEFINE now == IF Head(ms).kind = "body" THEN Head(ms).text ELSE text
<1>1. /\ Head(ms) = ms[1] /\ Len(ms) \in Nat
      /\ \A i \in 1..(Len(ms) - 1) : Tail(ms)[i] = ms[i + 1]
  BY HeadTailProperties, LenProperties
<1>2. CASE x \subseteq text /\ \A j \in 1..k : ms[j].kind # "body"
  BY <1>1, <1>2 DEF Reaches
<1>3. CASE \E i \in 1..k : /\ ms[i].kind = "body" /\ x \subseteq ms[i].text
                           /\ \A j \in (i + 1)..k : ms[j].kind # "body"
  <2>1. PICK i \in 1..k : /\ ms[i].kind = "body" /\ x \subseteq ms[i].text
                          /\ \A j \in (i + 1)..k : ms[j].kind # "body"
    BY <1>3
  <2>2. CASE i = 1
    <3>1. x \subseteq now
      BY <1>1, <2>1, <2>2
    <3>2. \A j \in 1..(k - 1) : Tail(ms)[j].kind # "body"
      BY <1>1, <2>1, <2>2
    <3> QED BY <3>1, <3>2 DEF Reaches
  <2>3. CASE i # 1
    <3>1. i - 1 \in 1..(k - 1) /\ Tail(ms)[i - 1] = ms[i]
      BY <1>1, <2>3
    <3>2. \A j \in i..(k - 1) : Tail(ms)[j].kind # "body"
      BY <1>1, <2>1, <2>3
    <3> QED BY <2>1, <3>1, <3>2 DEF Reaches
  <2> QED BY <2>2, <2>3
<1> QED BY <1>2, <1>3 DEF Reaches

-----------------------------------------------------------------------------
(* What one session may go through.                                        *)

\* A process may change in what does not concern the edits, save, or be told.
Same(p, q) ==
    /\ q.text = p.text /\ q.alive = p.alive /\ q.gen = p.gen
    /\ q.state \in Unsettled => p.state \in Unsettled

LEMMA FineFrame ==
    ASSUME NEW b \in HostState, NEW l, NEW ms \in Seq(Message),
           NEW p \in ProcessState, NEW q \in ProcessState, NEW mine,
           NEW asks \in BOOLEAN, NEW asks2 \in BOOLEAN,
           NEW kept, NEW kept2, NEW dropped, NEW dropped2,
           Fine(b, l, ms, p, mine, asks, kept, dropped),
           Same(p, q), q.state \notin Unsettled => q.text \subseteq kept2,
           asks2 => asks, kept \subseteq kept2, dropped \subseteq dropped2
    PROVE  Fine(b, l, ms, q, mine, asks2, kept2, dropped2)
<1>1. l = "up" /\ ~b.pending => Reaches(b.text \ kept2, ms, Len(ms), q.text)
  <2>1. b.text \ kept2 \subseteq b.text \ kept
    OBVIOUS
  <2> QED BY <2>1, ReachesFewer DEF Fine, Same
<1>2. ASSUME NEW i \in DOMAIN ms, ms[i].kind = "flushed"
      PROVE  Reaches(ms[i].text \ kept2, ms, i, q.text)
  <2>1. ms[i].text \ kept2 \subseteq ms[i].text \ kept
    OBVIOUS
  <2>2. Reaches(ms[i].text \ kept, ms, i, p.text) /\ p.text = q.text
    BY <1>2 DEF Fine, Same
  <2>3. Reaches(ms[i].text \ kept2, ms, i, p.text)
    BY <2>1, <2>2, ReachesFewer
  <2> QED BY <2>2, <2>3
<1> QED BY <1>1, <1>2 DEF Fine, Same

\* What a page showed with nothing on its way is what its process has, or kept.
LEMMA NothingAwaited ==
    ASSUME NEW x, NEW ms \in Seq(Message), NEW k \in 0..Len(ms), NEW text, NEW kept,
           NoBody(ms), Reaches(x \ kept, ms, k, text), text \subseteq kept
    PROVE  x \subseteq kept
<1>1. \A i \in 1..k : ms[i].kind # "body"
  BY LenProperties DEF NoBody
<1> QED BY <1>1 DEF Reaches

LEMMA ReachedAnyway ==
    ASSUME NEW x, NEW ms \in Seq(Message), NEW k \in 0..Len(ms), NEW text, NEW kept,
           NoBody(ms), x \subseteq kept
    PROVE  Reaches(x \ kept, ms, k, text)
<1>1. \A i \in 1..k : ms[i].kind # "body"
  BY LenProperties DEF NoBody
<1> QED BY <1>1 DEF Reaches

\* A reload under a page with nothing on its way.
LEMMA FineReload ==
    ASSUME NEW b \in HostState, NEW l, NEW ms \in Seq(Message),
           NEW p \in ProcessState, NEW q \in ProcessState, NEW mine,
           NEW asks \in BOOLEAN, NEW asks2 \in BOOLEAN, NEW kept, NEW dropped,
           Fine(b, l, ms, p, mine, asks, kept, dropped),
           l = "up" => ~b.pending /\ NoBody(ms) /\ b.text \subseteq kept,
           l = "up" => \A i \in DOMAIN ms : ms[i].kind = "flushed" => ms[i].text \subseteq kept,
           q.text \subseteq kept, q.state = "saved", q.alive = p.alive, asks2 => asks
    PROVE  Fine(b, l, ms, q, mine, asks2, kept, dropped)
<1>1. Len(ms) \in 0..Len(ms) /\ DOMAIN ms = 1..Len(ms) /\ Len(ms) \in Nat
  BY LenProperties
<1>2. l = "up" => Reaches(b.text \ kept, ms, Len(ms), q.text)
  BY <1>1, ReachedAnyway
<1>3. ASSUME NEW i \in DOMAIN ms, ms[i].kind = "flushed"
      PROVE  Reaches(ms[i].text \ kept, ms, i, q.text)
  <2>1. l = "up" /\ i \in 0..Len(ms)
    BY <1>1 DEF Fine
  <2> QED BY <1>3, <2>1, ReachedAnyway
<1> QED BY <1>2, <1>3 DEF Fine, Unsettled

\* The field's next holder reloads: it has had nothing to send since it asked.
LEMMA FineTransfer ==
    ASSUME NEW b \in HostState, NEW l, NEW ms \in Seq(Message),
           NEW p \in ProcessState, NEW q \in ProcessState, NEW mine,
           NEW asks2 \in BOOLEAN, NEW kept, NEW dropped,
           Fine(b, l, ms, p, mine, TRUE, kept, dropped), p.state = "saved",
           q.text \subseteq kept, q.state = "saved", q.alive = p.alive
    PROVE  Fine(b, l, ms, q, mine, asks2, kept, dropped)
<1>1. Len(ms) \in 0..Len(ms) /\ DOMAIN ms = 1..Len(ms) /\ Len(ms) \in Nat
  BY LenProperties
<1>2. p.text \subseteq kept /\ (l = "up" => ~b.pending /\ NoBody(ms))
  BY DEF Fine, Unsettled
<1>3. l = "up" => b.text \subseteq kept
  <2> SUFFICES ASSUME l = "up" PROVE b.text \subseteq kept
    OBVIOUS
  <2>1. Reaches(b.text \ kept, ms, Len(ms), p.text)
    BY <1>2 DEF Fine
  <2> QED BY <1>1, <1>2, <2>1, NothingAwaited
<1>4. ASSUME l = "up", NEW i \in DOMAIN ms, ms[i].kind = "flushed"
      PROVE  ms[i].text \subseteq kept
  <2>1. Reaches(ms[i].text \ kept, ms, i, p.text) /\ i \in 0..Len(ms)
    BY <1>1, <1>4 DEF Fine
  <2> QED BY <1>2, <1>4, <2>1, NothingAwaited
<1> QED BY <1>2, <1>3, <1>4, FineReload

\* The debounce's document goes out.
LEMMA FinePushBody ==
    ASSUME NEW b \in HostState, NEW ms \in Seq(Message),
           NEW p \in ProcessState, NEW mine, NEW asks \in BOOLEAN,
           NEW kept, NEW dropped,
           Fine(b, "up", ms, p, mine, asks, kept, dropped), b.pending
    PROVE  Fine(Settled(b), "up", ms \o <<Body(b.text)>>, p, mine, asks, kept, dropped)
<1> DEFINE more == ms \o <<Body(b.text)>>
<1>1. /\ Body(b.text) \in Message /\ Body(b.text).kind = "body" /\ Body(b.text).text = b.text
  BY MessageTypes DEF HostState
<1>2. /\ more \in Seq(Message) /\ Len(more) = Len(ms) + 1 /\ Len(ms) \in Nat
      /\ \A i \in 1..Len(ms) : more[i] = ms[i]
      /\ more[Len(ms) + 1] = Body(b.text)
      /\ DOMAIN more = 1..Len(more) /\ DOMAIN ms = 1..Len(ms)
  BY <1>1, ConcatProperties, LenProperties
<1>3. Reaches(b.text \ kept, more, Len(more), p.text)
  <2>1. b.text \ kept \subseteq Body(b.text).text
    BY <1>1
  <2> QED BY <1>1, <1>2, <2>1, ReachesNew
<1>4. ASSUME NEW i \in DOMAIN more, more[i].kind = "flushed"
      PROVE  Reaches(more[i].text \ kept, more, i, p.text)
  <2>1. i \in 1..Len(ms) /\ more[i] = ms[i]
    BY <1>1, <1>2, <1>4
  <2>2. Reaches(ms[i].text \ kept, ms, i, p.text) /\ i \in 0..Len(ms)
    BY <1>2, <1>4, <2>1 DEF Fine
  <2>3. Reaches(ms[i].text \ kept, more, i, p.text)
    BY <1>1, <2>2, ReachesMore
  <2> QED BY <2>1, <2>3
<1> HIDE DEF more
<1>5. /\ Settled(b).text = b.text /\ Settled(b).gen = b.gen /\ ~Settled(b).pending
      /\ Settled(b).edited = b.edited
  BY SettledType
<1> QED BY <1>3, <1>4, <1>5 DEF Fine, more

\* Save, or the answer to a flush, after everything the page had to send.
LEMMA FinePushOther ==
    ASSUME NEW b \in HostState, NEW ms \in Seq(Message), NEW m \in Message,
           NEW p \in ProcessState, NEW mine, NEW asks \in BOOLEAN,
           NEW kept, NEW dropped,
           Fine(b, "up", ms, p, mine, asks, kept, dropped), ~b.pending,
           m.kind # "body", m.kind = "flushed" => m.text = b.text
    PROVE  Fine(b, "up", ms \o <<m>>, p, mine, asks, kept, dropped)
<1> DEFINE more == ms \o <<m>>
<1>1. /\ more \in Seq(Message) /\ Len(more) = Len(ms) + 1 /\ Len(ms) \in Nat
      /\ \A i \in 1..Len(ms) : more[i] = ms[i]
      /\ more[Len(ms) + 1] = m
      /\ DOMAIN more = 1..Len(more) /\ DOMAIN ms = 1..Len(ms)
  BY ConcatProperties, LenProperties
<1>2. Reaches(b.text \ kept, more, Len(more), p.text)
  <2>1. Reaches(b.text \ kept, ms, Len(ms), p.text)
    BY DEF Fine
  <2> QED BY <1>1, <2>1, ReachesPast
<1>3. ASSUME NEW i \in DOMAIN more, more[i].kind = "flushed"
      PROVE  Reaches(more[i].text \ kept, more, i, p.text)
  <2>1. CASE i = Len(ms) + 1
    BY <1>1, <1>2, <1>3, <2>1
  <2>2. CASE i \in 1..Len(ms)
    <3>1. Reaches(ms[i].text \ kept, ms, i, p.text) /\ i \in 0..Len(ms)
      BY <1>1, <1>3, <2>2 DEF Fine
    <3>2. Reaches(ms[i].text \ kept, more, i, p.text)
      BY <3>1, ReachesMore
    <3>3. more[i] = ms[i]
      BY <1>1, <2>2
    <3> HIDE DEF more
    <3> QED BY <3>2, <3>3
  <2>3. i = Len(ms) + 1 \/ i \in 1..Len(ms)
    BY <1>1
  <2> QED BY <2>1, <2>2, <2>3
<1>4. NoBody(ms) => NoBody(more)
  BY <1>1 DEF NoBody
<1> HIDE DEF more
<1> QED BY <1>2, <1>3, <1>4 DEF Fine, more

\* A body is handled.
LEMMA FineReceiveBody ==
    ASSUME NEW b \in HostState, NEW ms \in Seq(Message), ms # <<>>,
           NEW p \in ProcessState, NEW q \in ProcessState, NEW mine,
           NEW asks \in BOOLEAN, NEW kept, NEW dropped,
           Fine(b, "up", ms, p, mine, asks, kept, dropped),
           Head(ms).kind = "body", q.text = Head(ms).text, q.state = "pending",
           q.alive = p.alive, q.gen = p.gen
    PROVE  Fine(b, "up", Tail(ms), q, mine, asks, kept, dropped)
<1>1. /\ Head(ms) = ms[1] /\ Len(ms) \in Nat \ {0}
      /\ Tail(ms) \in Seq(Message) /\ Len(Tail(ms)) = Len(ms) - 1
      /\ \A i \in 1..(Len(ms) - 1) : Tail(ms)[i] = ms[i + 1]
      /\ DOMAIN Tail(ms) = 1..(Len(ms) - 1) /\ DOMAIN ms = 1..Len(ms)
  BY HeadTailProperties, LenProperties, EmptySeq
<1>2. \A x, k : k \in 1..Len(ms) /\ Reaches(x, ms, k, p.text)
                  => Reaches(x, Tail(ms), k - 1, q.text)
  BY ReachesNext
<1>3. ~NoBody(ms)
  BY <1>1 DEF NoBody
<1>4. ~b.pending => Reaches(b.text \ kept, Tail(ms), Len(Tail(ms)), q.text)
  BY <1>1, <1>2 DEF Fine
<1>5. ASSUME NEW i \in DOMAIN Tail(ms), Tail(ms)[i].kind = "flushed"
      PROVE  Reaches(Tail(ms)[i].text \ kept, Tail(ms), i, q.text)
  <2>1. i + 1 \in DOMAIN ms /\ ms[i + 1] = Tail(ms)[i] /\ (i + 1) - 1 = i
    BY <1>1
  <2>2. Reaches(ms[i + 1].text \ kept, ms, i + 1, p.text)
    BY <1>5, <2>1 DEF Fine
  <2>3. Reaches(ms[i + 1].text \ kept, Tail(ms), (i + 1) - 1, q.text)
    BY <1>1, <1>2, <2>1, <2>2
  <2> QED BY <2>1, <2>3
<1> QED BY <1>3, <1>4, <1>5 DEF Fine, Unsettled

\* Any other message is: the process still holds what it held.
LEMMA FineReceiveOther ==
    ASSUME NEW b \in HostState, NEW ms \in Seq(Message), ms # <<>>,
           NEW p \in ProcessState, NEW mine,
           NEW asks \in BOOLEAN, NEW kept, NEW dropped,
           Fine(b, "up", ms, p, mine, asks, kept, dropped), Head(ms).kind # "body"
    PROVE  Fine(b, "up", Tail(ms), p, mine, asks, kept, dropped)
<1>1. /\ Head(ms) = ms[1] /\ Len(ms) \in Nat \ {0}
      /\ Tail(ms) \in Seq(Message) /\ Len(Tail(ms)) = Len(ms) - 1
      /\ \A i \in 1..(Len(ms) - 1) : Tail(ms)[i] = ms[i + 1]
      /\ DOMAIN Tail(ms) = 1..(Len(ms) - 1) /\ DOMAIN ms = 1..Len(ms)
  BY HeadTailProperties, LenProperties, EmptySeq
<1>2. \A x, k : k \in 1..Len(ms) /\ Reaches(x, ms, k, p.text)
                  => Reaches(x, Tail(ms), k - 1, p.text)
  BY ReachesNext
<1>3. NoBody(ms) => NoBody(Tail(ms))
  BY <1>1 DEF NoBody
<1>4. ~b.pending => Reaches(b.text \ kept, Tail(ms), Len(Tail(ms)), p.text)
  BY <1>1, <1>2 DEF Fine
<1>5. ASSUME NEW i \in DOMAIN Tail(ms), Tail(ms)[i].kind = "flushed"
      PROVE  Reaches(Tail(ms)[i].text \ kept, Tail(ms), i, p.text)
  <2>1. i + 1 \in DOMAIN ms /\ ms[i + 1] = Tail(ms)[i] /\ (i + 1) - 1 = i
    BY <1>1
  <2>2. Reaches(ms[i + 1].text \ kept, ms, i + 1, p.text)
    BY <1>5, <2>1 DEF Fine
  <2>3. Reaches(ms[i + 1].text \ kept, Tail(ms), (i + 1) - 1, p.text)
    BY <1>1, <1>2, <2>1, <2>2
  <2> QED BY <2>1, <2>3
<1> QED BY <1>3, <1>4, <1>5 DEF Fine

\* A patch that brings a new host, after a reload.
LEMMA FineFresh ==
    ASSUME NEW b \in HostState, NEW c \in HostState, NEW ms \in Seq(Message),
           NEW p \in ProcessState, NEW mine, NEW asks \in BOOLEAN,
           NEW kept, NEW dropped,
           Fine(b, "up", ms, p, mine, asks, kept, dropped), p.gen # b.gen,
           c.text = p.text, ~c.pending, c.gen = p.gen
    PROVE  Fine(c, "up", ms, p, mine, asks, kept, dropped)
<1>1. p.text \subseteq kept /\ NoBody(ms) /\ Len(ms) \in 0..Len(ms)
  BY LenProperties DEF Fine
<1>2. Reaches(c.text \ kept, ms, Len(ms), p.text)
  BY <1>1, ReachedAnyway
<1> QED BY <1>1, <1>2 DEF Fine

\* The line is back under the host that was there: its words go up again.
LEMMA FineResent ==
    ASSUME NEW b \in HostState, NEW c \in HostState, NEW ms, NEW p \in ProcessState,
           NEW q \in ProcessState, NEW mine, NEW asks \in BOOLEAN, NEW kept, NEW dropped,
           Fine(b, "down", ms, p, mine, asks, kept, dropped), ~p.alive,
           c.text = b.text, c.edited = b.edited, c.gen = q.gen,
           q.alive, q.text \subseteq kept
    PROVE  Fine(c, "up", IF b.edited THEN <<Body(b.text)>> ELSE ms, q, mine, asks, kept, dropped)
<1>1. ms = <<>> /\ ~asks /\ (~b.edited => b.text \subseteq kept)
  BY DEF Fine
<1>2. mine \subseteq kept \union dropped \union c.text
  BY DEF Fine
<1>3. CASE b.edited
  <2> DEFINE sent == <<Body(b.text)>>
  <2>1. /\ Body(b.text) \in Message /\ Body(b.text).kind = "body" /\ Body(b.text).text = b.text
    BY MessageTypes DEF HostState
  <2>2. Len(sent) = 1 /\ DOMAIN sent = 1..1 /\ sent[1] = Body(b.text)
    BY <2>1
  <2>3. Reaches(c.text \ kept, sent, Len(sent), q.text)
    BY <2>1, <2>2 DEF Reaches
  <2>4. \A i \in DOMAIN sent : sent[i].kind # "flushed"
    BY <2>1, <2>2
  <2> HIDE DEF sent
  <2>5. Fine(c, "up", sent, q, mine, asks, kept, dropped)
    BY <1>1, <1>2, <1>3, <2>3, <2>4 DEF Fine
  <2> QED BY <1>3, <2>5 DEF sent
<1>4. CASE ~b.edited
  <2>1. Len(<<>>) = 0 /\ DOMAIN <<>> = {}
    OBVIOUS
  <2>2. Reaches(c.text \ kept, <<>>, Len(<<>>), q.text)
    BY <1>1, <1>4, <2>1 DEF Reaches
  <2> QED BY <1>1, <1>2, <1>4, <2>1, <2>2 DEF Fine
<1> QED BY <1>3, <1>4

\* The line is back under a new host: the words of the old one are kept, the
\* author's to know, or dropped.
LEMMA FineReplaced ==
    ASSUME NEW b \in HostState, NEW c \in HostState, NEW ms, NEW p \in ProcessState,
           NEW q \in ProcessState, NEW mine, NEW asks \in BOOLEAN,
           NEW kept, NEW dropped, NEW kept2, NEW dropped2,
           Fine(b, "down", ms, p, mine, asks, kept, dropped), ~p.alive,
           kept \subseteq kept2, dropped \subseteq dropped2,
           b.text \subseteq kept2 \union dropped2,
           c.text \subseteq kept2, ~c.pending, c.gen = q.gen,
           q.alive, q.text \subseteq kept2
    PROVE  Fine(c, "up", ms, q, mine, asks, kept2, dropped2)
<1>1. ms = <<>> /\ ~asks /\ mine \subseteq kept2 \union dropped2
  BY DEF Fine
<1>2. Len(<<>>) = 0 /\ DOMAIN <<>> = {}
  OBVIOUS
<1>3. Reaches(c.text \ kept2, <<>>, Len(<<>>), q.text)
  BY <1>2 DEF Reaches
<1> QED BY <1>1, <1>2, <1>3 DEF Fine

-----------------------------------------------------------------------------
(* What the steps are made of.                                             *)

LEMMA TypeParts ==
    ASSUME TypeOK, NEW s \in Sessions
    PROVE  /\ record \in Row /\ record.text \in SUBSET Edits /\ record.ver \in Nat
           /\ browser \in [Sessions -> HostState] /\ browser[s] \in HostState
           /\ browser[s].text \in SUBSET Edits /\ browser[s].gen \in Nat
           /\ wire \in [Sessions -> Seq(Message)] /\ wire[s] \in Seq(Message)
           /\ server \in [Sessions -> ProcessState] /\ server[s] \in ProcessState
           /\ server[s].text \in SUBSET Edits /\ server[s].gen \in Nat
           /\ server[s].rec \in Nat /\ server[s].form \in Nat
           /\ HeldFrom(s) \in BOOLEAN /\ Asks(s) \in BOOLEAN
BY DEF TypeOK, Row, HostState, ProcessState, HeldFrom, Asks

\* The save state that a refused submission may leave behind.
Leaves(s, after) ==
    after \in SaveStates /\ (after \in Unsettled <=> server[s].state \in Unsettled)

\* A submission writes the text it was given, or tells its author, or leaves the
\* text unsettled as it was.
LEMMA SubmittedFacts ==
    ASSUME TypeOK, NEW s \in Sessions, NEW basis \in Nat, NEW after, Leaves(s, after),
           NEW done \in Submissions(s, basis, after)
    PROVE  /\ done.row \in Row /\ done.proc \in ProcessState
           /\ done.wrote \in SUBSET Edits /\ done.lost \in SUBSET Edits
           /\ Same(server[s], done.proc)
           /\ done.proc.flushing = server[s].flushing
           /\ done.proc.state \notin Unsettled /\ server[s].state \in Unsettled
                => server[s].text \subseteq done.wrote \union done.lost
           /\ done.row.text \subseteq record.text \union done.wrote
<1>1. /\ record \in Row /\ server[s] \in ProcessState
      /\ record.ver + 1 \in Nat /\ server[s].text \in SUBSET Edits
  BY TypeParts DEF Row
<1>2. CASE done = Submitted(s, basis) /\ basis = record.ver
  <2> DEFINE proc == [server[s] EXCEPT !.rec = record.ver + 1, !.form = record.ver + 1,
                                       !.state = "saved"]
  <2>1. done = [row |-> [ver |-> record.ver + 1, text |-> server[s].text], proc |-> proc,
                wrote |-> server[s].text, lost |-> {}]
    BY <1>2 DEF Submitted
  <2>2. /\ proc \in ProcessState /\ proc.text = server[s].text /\ proc.alive = server[s].alive
        /\ proc.gen = server[s].gen /\ proc.state \notin Unsettled
        /\ proc.flushing = server[s].flushing
    BY <1>1 DEF ProcessState, SaveStates, Unsettled
  <2> HIDE DEF proc
  <2>3. /\ done.row = [ver |-> record.ver + 1, text |-> server[s].text] /\ done.proc = proc
        /\ done.wrote = server[s].text /\ done.lost = {}
    BY <2>1
  <2>4. done.row \in Row /\ done.row.text = server[s].text
    BY <1>1, <2>3 DEF Row
  <2> QED BY <1>1, <2>2, <2>3, <2>4 DEF Same
<1>3. CASE done = Submitted(s, basis) /\ basis # record.ver
  <2> DEFINE proc == [server[s] EXCEPT !.conflict = TRUE, !.state = "unsaved"]
  <2>1. done = [row |-> record, proc |-> proc, wrote |-> {}, lost |-> server[s].text]
    BY <1>3 DEF Submitted
  <2>2. /\ proc \in ProcessState /\ proc.text = server[s].text /\ proc.alive = server[s].alive
        /\ proc.gen = server[s].gen /\ proc.state \notin Unsettled
        /\ proc.flushing = server[s].flushing
    BY <1>1 DEF ProcessState, SaveStates, Unsettled
  <2> HIDE DEF proc
  <2>3. /\ done.row = record /\ done.proc = proc
        /\ done.wrote = {} /\ done.lost = server[s].text
    BY <2>1
  <2> QED BY <1>1, <2>2, <2>3 DEF Same
<1>4. CASE done = Refused(s, after)
  <2> DEFINE proc == [server[s] EXCEPT !.state = after]
  <2>1. done = [row |-> record, proc |-> proc, wrote |-> {}, lost |-> {}]
    BY <1>4 DEF Refused
  <2>2. /\ proc \in ProcessState /\ proc.text = server[s].text /\ proc.alive = server[s].alive
        /\ proc.gen = server[s].gen /\ proc.state = after
        /\ proc.flushing = server[s].flushing
    BY <1>1 DEF ProcessState, Leaves
  <2> HIDE DEF proc
  <2>3. /\ done.row = record /\ done.proc = proc
        /\ done.wrote = {} /\ done.lost = {}
    BY <2>1
  <2> QED BY <1>1, <2>2, <2>3 DEF Same, Leaves
<1> QED BY <1>2, <1>3, <1>4 DEF Submissions

\* The other processes adopt the version at most.
LEMMA ProcessesFacts ==
    ASSUME TypeOK, NEW s \in Sessions, NEW basis \in Nat, NEW after,
           Leaves(s, after), NEW done \in Submissions(s, basis, after)
    PROVE  /\ Processes(s, done) \in [Sessions -> ProcessState]
           /\ Processes(s, done)[s] = done.proc
           /\ \A t \in Sessions \ {s} : /\ Same(server[t], Processes(s, done)[t])
                                       /\ Processes(s, done)[t].state = server[t].state
<1>1. done.row \in Row /\ done.proc \in ProcessState
  BY SubmittedFacts
<1>2. Processes(s, done)[s] = done.proc
  BY DEF Processes
<1>3. ASSUME NEW t \in Sessions \ {s}
      PROVE  /\ Processes(s, done)[t] \in ProcessState
             /\ Same(server[t], Processes(s, done)[t])
             /\ Processes(s, done)[t].state = server[t].state
  <2>1. server[t] \in ProcessState /\ done.row.ver \in Nat
    BY <1>1, TypeParts DEF Row
  <2>2. \/ Processes(s, done)[t] = server[t]
        \/ Processes(s, done)[t] = [server[t] EXCEPT !.rec = done.row.ver]
    BY DEF Processes, Adopted
  <2>3. [server[t] EXCEPT !.rec = done.row.ver] \in ProcessState
    BY <2>1 DEF ProcessState
  <2>4. Same(server[t], [server[t] EXCEPT !.rec = done.row.ver])
    BY <2>1 DEF ProcessState, Same
  <2>5. [server[t] EXCEPT !.rec = done.row.ver].state = server[t].state
    BY <2>1 DEF ProcessState
  <2>6. Same(server[t], server[t])
    BY DEF Same
  <2> QED BY <2>1, <2>2, <2>3, <2>4, <2>5, <2>6
<1>4. DOMAIN Processes(s, done) = Sessions
  BY DEF Processes
<1>5. \A t \in Sessions : Processes(s, done)[t] \in ProcessState
  BY <1>1, <1>2, <1>3
<1>6. Processes(s, done) = [t \in Sessions |-> Processes(s, done)[t]]
  BY DEF Processes
<1> QED BY <1>2, <1>3, <1>5, <1>6

\* The ledger of a submission.
LEMMA RecordedFacts ==
    ASSUME TypeOK, record.text \subseteq everSaved, NEW s \in Sessions, NEW basis \in Nat, NEW after,
           Leaves(s, after), NEW done \in Submissions(s, basis, after), Recorded(s, done)
    PROVE  /\ record' \in Row /\ record'.text \subseteq everSaved'
           /\ everSaved' \in SUBSET Edits /\ told' \in SUBSET Edits
           /\ Kept \subseteq Kept'
           /\ done.proc.state \notin Unsettled /\ server[s].state \in Unsettled
                => server[s].text \subseteq Kept'
<1>1. /\ done.row \in Row
      /\ done.wrote \in SUBSET Edits /\ done.lost \in SUBSET Edits
      /\ done.proc.state \notin Unsettled /\ server[s].state \in Unsettled
           => server[s].text \subseteq done.wrote \union done.lost
      /\ done.row.text \subseteq record.text \union done.wrote
  BY SubmittedFacts
<1>2. /\ record' = done.row
      /\ everSaved' = everSaved \union done.wrote
      /\ told' = told \union (done.lost \ (everSaved \union done.wrote))
  BY DEF Recorded
<1>3. everSaved \in SUBSET Edits /\ told \in SUBSET Edits
  BY DEF TypeOK
<1> QED BY <1>1, <1>2, <1>3 DEF Kept

\* The grant reloads the field's next holder, if it has nothing in flight.
LEMMA TransferredFacts ==
    ASSUME NEW procs \in [Sessions -> ProcessState], record' \in Row
    PROVE  /\ Transferred(procs) \in [Sessions -> ProcessState]
           /\ \A t \in Sessions :
                \/ Transferred(procs)[t] = procs[t]
                \/ /\ Asks(t) /\ procs[t].state = "saved"
                   /\ Transferred(procs)[t] = Reloaded(procs[t], record')
<1> DEFINE next == lock.taker
           reload == next # Nobody /\ ~lock.takerGone /\ procs[next].state = "saved"
<1>1. CASE ~reload
  BY <1>1 DEF Transferred
<1>2. CASE reload
  <2>1. Transferred(procs) = [procs EXCEPT ![next] = Reloaded(procs[next], record')]
    BY <1>2 DEF Transferred
  <2>2. next \in Sessions => Reloaded(procs[next], record') \in ProcessState
    BY ReloadedType
  <2> QED BY <1>2, <2>1, <2>2 DEF Asks
<1> QED BY <1>1, <1>2

-----------------------------------------------------------------------------
(* Type correctness, and that the row holds only what was saved.           *)

RowInv == TypeOK /\ record.text \subseteq everSaved

LEMMA InitRow == Init => RowInv
<1> SUFFICES ASSUME Init PROVE RowInv
  OBVIOUS
<1>1. record = [ver |-> 0, text |-> {}] /\ record \in Row /\ record.text = {}
  BY DEF Init, Row
<1>2. server \in [Sessions -> ProcessState]
  BY <1>1, MountedType DEF Init
<1>3. FreshHost({}, 0, FALSE) \in HostState
  BY FreshType
<1>4. browser \in [Sessions -> HostState]
  BY <1>3 DEF Init
<1>5. wire \in [Sessions -> Seq(Message)]
  BY EmptySeq DEF Init
<1>6. lock \in [holder : Sessions \union {Nobody}, gone : BOOLEAN,
                 taker : Sessions \union {Nobody}, takerGone : BOOLEAN]
  BY DEF Init
<1>7. typed \in [Sessions -> SUBSET Edits] /\ line \in [Sessions -> {"up", "down"}]
  BY DEF Init
<1>8. events \in 0..MaxEvents
  BY BoundsAssumption DEF Init
<1> QED
  BY <1>1, <1>2, <1>4, <1>5, <1>6, <1>7, <1>8
  DEF Init, RowInv, TypeOK, Row, HostState, ProcessState

\* What the browser appends to its messages.
LEMMA PushedType ==
    ASSUME TypeOK, NEW s \in Sessions, NEW more \in Seq(Message)
    PROVE  Pushed(s, more) \in [Sessions -> Seq(Message)]
<1>1. wire \in [Sessions -> Seq(Message)] /\ wire[s] \o more \in Seq(Message)
  BY TypeParts, ConcatProperties
<1> QED BY <1>1 DEF Pushed

LEMMA PendingBodyType ==
    ASSUME TypeOK, NEW s \in Sessions
    PROVE  PendingBody(s) \in Seq(Message) /\ FlushedHost(s) \in HostState
<1>1. browser[s] \in HostState /\ browser[s].text \in SUBSET Edits
  BY TypeParts
<1>2. Body(browser[s].text) \in Message
  BY <1>1, MessageTypes
<1> QED BY <1>1, <1>2, EmptySeq, SettledType DEF PendingBody, FlushedHost

LEMMA CountedType ==
    ASSUME TypeOK, Counted
    PROVE  events' \in 0..MaxEvents
BY BoundsAssumption DEF TypeOK, Counted

LockState == [holder : Sessions \union {Nobody}, gone : BOOLEAN,
              taker : Sessions \union {Nobody}, takerGone : BOOLEAN]

\* The page's own steps.
LEMMA PageTypes ==
    ASSUME RowInv, NEW s \in Sessions,
           \/ \E e \in Edits : Type(s, e)
           \/ PushBody(s) \/ PressSave(s) \/ HearFlush(s) \/ Patch(s) \/ Drop(s)
    PROVE  RowInv'
<1>1. /\ record \in Row /\ browser \in [Sessions -> HostState]
      /\ browser[s] \in HostState /\ wire \in [Sessions -> Seq(Message)]
      /\ server \in [Sessions -> ProcessState] /\ server[s] \in ProcessState
      /\ lock \in LockState /\ HeldFrom(s) \in BOOLEAN
      /\ server[s].rec \in Nat /\ server[s].text \in SUBSET Edits
      /\ browser[s].text \in SUBSET Edits /\ server[s].gen \in Nat
  BY TypeParts DEF RowInv, TypeOK, LockState
<1>2. /\ Body(browser[s].text) \in Message /\ BodyFlushed(browser[s].text) \in Message
      /\ SaveEvent \in Message /\ PendingBody(s) \in Seq(Message) /\ FlushedHost(s) \in HostState
  BY <1>1, MessageTypes, PendingBodyType DEF RowInv
<1>3. CASE \E e \in Edits : Type(s, e)
  <2>1. PICK e \in Edits : Type(s, e)
    BY <1>3
  <2> DEFINE b == [browser[s] EXCEPT !.text = @ \union {e}, !.pending = TRUE, !.edited = TRUE]
  <2>2. b \in HostState
    BY <1>1 DEF HostState
  <2>3. browser' = [browser EXCEPT ![s] = b]
    BY <2>1, <1>1 DEF Type
  <2> HIDE DEF b
  <2>4. browser' \in [Sessions -> HostState]
    BY <1>1, <2>2, <2>3
  <2>5. typed' \in [Sessions -> SUBSET Edits]
    BY <2>1 DEF RowInv, TypeOK, Type
  <2>6. events' \in 0..MaxEvents
    BY <2>1, CountedType DEF RowInv, Type
  <2> QED BY <2>1, <2>4, <2>5, <2>6 DEF RowInv, TypeOK, Type, HostState
<1>4. CASE PushBody(s)
  <2>1. browser' \in [Sessions -> HostState]
    BY <1>1, <1>4, SettledType DEF PushBody
  <2>2. <<Body(browser[s].text)>> \in Seq(Message)
    BY <1>2
  <2>3. wire' \in [Sessions -> Seq(Message)]
    BY <1>4, <2>2, PushedType DEF PushBody, RowInv
  <2> QED BY <1>4, <2>1, <2>3 DEF RowInv, TypeOK, PushBody, HostState, ledgerVars
<1>5. CASE PressSave(s)
  <2>1. browser' \in [Sessions -> HostState]
    BY <1>1, <1>2, <1>5 DEF PressSave
  <2>2. PendingBody(s) \o <<SaveEvent>> \in Seq(Message)
    BY <1>2, ConcatProperties
  <2>3. wire' \in [Sessions -> Seq(Message)]
    BY <1>5, <2>2, PushedType DEF PressSave, RowInv
  <2>4. events' \in 0..MaxEvents
    BY <1>5, CountedType DEF RowInv, PressSave
  <2> QED BY <1>5, <2>1, <2>3, <2>4 DEF RowInv, TypeOK, PressSave, HostState, ledgerVars
<1>6. CASE HearFlush(s)
  <2>1. browser' \in [Sessions -> HostState]
    BY <1>1, <1>2, <1>6 DEF HearFlush
  <2>2. PendingBody(s) \o <<BodyFlushed(browser[s].text)>> \in Seq(Message)
    BY <1>2, ConcatProperties
  <2>3. wire' \in [Sessions -> Seq(Message)]
    BY <1>6, <2>2, PushedType DEF HearFlush, RowInv
  <2>4. [server[s] EXCEPT !.asked = FALSE] \in ProcessState
    BY <1>1 DEF ProcessState
  <2>5. server' \in [Sessions -> ProcessState]
    BY <1>1, <1>6, <2>4 DEF HearFlush
  <2> QED BY <1>6, <2>1, <2>3, <2>5
          DEF RowInv, TypeOK, HearFlush, HostState, ProcessState, ledgerVars
<1>7. CASE Patch(s)
  <2>1. [browser[s] EXCEPT !.locked = HeldFrom(s)] \in HostState
    BY <1>1 DEF HostState
  <2>2. FreshHost(server[s].text, server[s].gen, HeldFrom(s)) \in HostState
    BY <1>1, FreshType
  <2>3. browser' \in [Sessions -> HostState]
    BY <1>1, <1>7, <2>1, <2>2 DEF Patch
  <2> QED BY <1>7, <2>3 DEF RowInv, TypeOK, Patch, HostState, ledgerVars
<1>8. CASE Drop(s)
  <2>1. [browser[s] EXCEPT !.version = server[s].rec] \in HostState
    BY <1>1 DEF HostState
  <2>2. browser' \in [Sessions -> HostState]
    BY <1>1, <1>8, <2>1 DEF Drop
  <2>3. [server[s] EXCEPT !.asked = FALSE] \in ProcessState
    BY <1>1 DEF ProcessState
  <2>4. server' \in [Sessions -> ProcessState]
    BY <1>1, <1>8, <2>3 DEF Drop
  <2>5. wire' \in [Sessions -> Seq(Message)] /\ line' \in [Sessions -> {"up", "down"}]
    BY <1>1, <1>8, EmptySeq DEF Drop, RowInv, TypeOK
  <2>6. events' \in 0..MaxEvents
    BY <1>8, CountedType DEF RowInv, Drop
  <2> QED BY <1>8, <2>2, <2>4, <2>5, <2>6
          DEF RowInv, TypeOK, Drop, HostState, ProcessState, ledgerVars
<1>9. QED BY <1>3, <1>4, <1>5, <1>6, <1>7, <1>8

\* The field lock's steps.
LEMMA LockTypes ==
    ASSUME RowInv, NEW s \in Sessions, Focus(s) \/ Blur(s) \/ Takeover(s) \/ HoldEnds
    PROVE  RowInv'
<1>1. /\ server \in [Sessions -> ProcessState] /\ server[s] \in ProcessState
      /\ lock \in LockState
  BY TypeParts DEF RowInv, TypeOK, LockState
<1>2. CASE Focus(s)
  <2>1. [server[s] EXCEPT !.focus = TRUE] \in ProcessState
    BY <1>1 DEF ProcessState
  <2>2. server' \in [Sessions -> ProcessState]
    BY <1>1, <1>2, <2>1 DEF Focus
  <2>3. lock' \in LockState
    BY <1>1, <1>2 DEF Focus, Acquired, LockState
  <2> QED BY <1>2, <2>2, <2>3 DEF RowInv, TypeOK, Focus, ProcessState, LockState, pageVars, ledgerVars
<1>3. CASE Blur(s)
  <2>1. [server[s] EXCEPT !.focus = FALSE] \in ProcessState
    BY <1>1 DEF ProcessState
  <2>2. server' \in [Sessions -> ProcessState]
    BY <1>1, <1>3, <2>1 DEF Blur
  <2>3. lock' \in LockState
    BY <1>1, <1>3 DEF Blur, LockState
  <2> QED BY <1>3, <2>2, <2>3 DEF RowInv, TypeOK, Blur, ProcessState, LockState, pageVars, ledgerVars
<1>4. CASE Takeover(s)
  <2>1. ASSUME NEW t \in Sessions
        PROVE  [server[t] EXCEPT !.flushing = TRUE, !.asked = TRUE] \in ProcessState
    BY <1>1 DEF ProcessState
  <2>2. \/ server' = server
        \/ /\ lock.holder \in Sessions
           /\ server' = [server EXCEPT ![lock.holder] =
                                     [server[lock.holder] EXCEPT !.flushing = TRUE, !.asked = TRUE]]
    <3>1. CASE lock.holder = Nobody \/ lock.gone \/ lock.taker # Nobody
      BY <1>4, <3>1 DEF Takeover
    <3>2. CASE ~(lock.holder = Nobody \/ lock.gone \/ lock.taker # Nobody)
      <4>1. lock.holder \in Sessions
        BY <1>1, <3>2 DEF LockState
      <4>2. server' = [server EXCEPT ![lock.holder].flushing = TRUE, ![lock.holder].asked = TRUE]
        BY <1>4, <3>2 DEF Takeover
      <4> QED BY <1>1, <4>1, <4>2
    <3> QED BY <3>1, <3>2
  <2>3. server' \in [Sessions -> ProcessState]
    BY <1>1, <2>1, <2>2
  <2>4. lock' \in LockState
    BY <1>1, <1>4 DEF Takeover, LockState
  <2>5. events' \in 0..MaxEvents
    BY <1>4, CountedType DEF RowInv, Takeover
  <2> QED BY <1>4, <2>3, <2>4, <2>5
          DEF RowInv, TypeOK, Takeover, ProcessState, LockState, pageVars, ledgerVars
<1>5. CASE HoldEnds
  <2>1. lock' \in LockState
    BY <1>1, <1>5 DEF HoldEnds, LockState
  <2> QED BY <1>5, <2>1 DEF RowInv, TypeOK, HoldEnds, LockState, pageVars, ledgerVars
<1> QED BY <1>2, <1>3, <1>4, <1>5

\* A grant.
LEMMA GrantedType ==
    ASSUME TypeOK
    PROVE  Granted \in LockState
BY DEF TypeOK, Granted, LockState

\* Answering the flush, at once or by the fallback.
LEMMA FinishTypes ==
    ASSUME RowInv, NEW s \in Sessions, FinishFlush(s)
    PROVE  /\ record' \in Row /\ record'.text \subseteq everSaved'
           /\ server' \in [Sessions -> ProcessState] /\ lock' \in LockState
           /\ everSaved' \in SUBSET Edits /\ told' \in SUBSET Edits
<1> DEFINE asked == [server EXCEPT ![s].flushing = FALSE]
<1>1. /\ record \in Row /\ server \in [Sessions -> ProcessState]
      /\ server[s] \in ProcessState /\ server[s].rec \in Nat
      /\ everSaved \in SUBSET Edits /\ told \in SUBSET Edits /\ TypeOK
  BY TypeParts DEF RowInv, TypeOK
<1>2. lock' \in LockState
  BY GrantedType DEF RowInv, FinishFlush
<1>3. CASE server[s].state \in {"pending", "held"}
  <2>0. PICK done \in Submissions(s, server[s].rec, "error") :
           /\ Recorded(s, done)
           /\ server' = Transferred([Processes(s, done) EXCEPT ![s].flushing = FALSE])
    BY <1>3 DEF FinishFlush
  <2> DEFINE saved == [Processes(s, done) EXCEPT ![s].flushing = FALSE]
  <2>9. Leaves(s, "error")
    BY <1>3 DEF Leaves, SaveStates, Unsettled
  <2>1. Recorded(s, done) /\ server' = Transferred(saved)
    BY <2>0
  <2>2. Processes(s, done) \in [Sessions -> ProcessState]
    BY <1>1, <2>9, ProcessesFacts
  <2>3. [Processes(s, done)[s] EXCEPT !.flushing = FALSE] \in ProcessState
    BY <2>2 DEF ProcessState
  <2>4. saved \in [Sessions -> ProcessState]
    BY <2>2, <2>3
  <2>5. /\ record' \in Row /\ record'.text \subseteq everSaved'
        /\ everSaved' \in SUBSET Edits /\ told' \in SUBSET Edits
    BY <1>1, <2>1, <2>9, RecordedFacts DEF RowInv
  <2> HIDE DEF saved
  <2>6. Transferred(saved) \in [Sessions -> ProcessState]
    BY <2>4, <2>5, TransferredFacts
  <2> QED BY <1>2, <2>1, <2>5, <2>6
<1>4. CASE server[s].state \notin {"pending", "held"}
  <2>1. UNCHANGED <<record, everSaved, told>> /\ server' = Transferred(asked)
    BY <1>4 DEF FinishFlush
  <2>2. [server[s] EXCEPT !.flushing = FALSE] \in ProcessState
    BY <1>1 DEF ProcessState
  <2>3. asked \in [Sessions -> ProcessState]
    BY <1>1, <2>2
  <2> HIDE DEF asked
  <2>4. Transferred(asked) \in [Sessions -> ProcessState]
    BY <1>1, <2>1, <2>3, TransferredFacts
  <2> QED BY <1>1, <1>2, <2>1, <2>4 DEF RowInv
<1> QED BY <1>3, <1>4

\* The process's steps, and what the line does to it.
LEMMA ProcessTypes ==
    ASSUME RowInv, NEW s \in Sessions,
           \/ Receive(s) \/ Autosave(s) \/ FlushFallback(s) \/ ReloadConflict(s)
           \/ ProcessGone(s) \/ Rejoin(s)
    PROVE  RowInv'
<1>1. /\ record \in Row /\ record.text \in SUBSET Edits
      /\ browser \in [Sessions -> HostState] /\ browser[s] \in HostState
      /\ browser[s].gen \in Nat /\ browser[s].text \in SUBSET Edits
      /\ wire \in [Sessions -> Seq(Message)] /\ wire[s] \in Seq(Message)
      /\ server \in [Sessions -> ProcessState] /\ server[s] \in ProcessState
      /\ server[s].rec \in Nat /\ server[s].form \in Nat
      /\ lock \in LockState /\ HeldFrom(s) \in BOOLEAN
      /\ everSaved \in SUBSET Edits /\ told \in SUBSET Edits /\ TypeOK
  BY TypeParts DEF RowInv, TypeOK, LockState
<1>2. CASE Receive(s)
  <2>1. Tail(wire[s]) \in Seq(Message) /\ Head(wire[s]) \in Message
    BY <1>1, <1>2, HeadTailProperties DEF Receive
  <2>2. wire' \in [Sessions -> Seq(Message)]
    BY <1>1, <1>2, <2>1 DEF Receive
  <2>3. /\ record' \in Row /\ record'.text \subseteq everSaved'
        /\ server' \in [Sessions -> ProcessState] /\ lock' \in LockState
        /\ everSaved' \in SUBSET Edits /\ told' \in SUBSET Edits
    <3>1. CASE ReceiveBody(s, Head(wire[s]).text)
      <4>1. Head(wire[s]).text \in SUBSET Edits /\ "pending" \in SaveStates
        BY <2>1 DEF Message, SaveStates, Unsettled
      <4>2. [server[s] EXCEPT !.text = Head(wire[s]).text, !.state = "pending"] \in ProcessState
        BY <1>1, <4>1 DEF ProcessState
      <4>3. server' \in [Sessions -> ProcessState]
        BY <1>1, <3>1, <4>2 DEF ReceiveBody
      <4>4. lock' \in LockState
        BY <1>1, <3>1 DEF ReceiveBody, Acquired, LockState
      <4> QED BY <1>1, <3>1, <4>3, <4>4 DEF ReceiveBody, RowInv
    <3>2. CASE ReceiveFlushed(s)
      BY <1>1, <3>2, FinishTypes DEF ReceiveFlushed, RowInv
    <3>3. CASE ReceiveSave(s)
      <4> DEFINE after == IF server[s].state = "pending" THEN "held" ELSE server[s].state
      <4>1. PICK done \in Submissions(s, server[s].form, after) :
               Recorded(s, done) /\ server' = Processes(s, done) /\ lock' = lock
        BY <3>3 DEF ReceiveSave
      <4>4. Leaves(s, after)
        BY <1>1 DEF Leaves, SaveStates, Unsettled, ProcessState
      <4> HIDE DEF after
      <4>2. Processes(s, done) \in [Sessions -> ProcessState]
        BY <1>1, <4>4, ProcessesFacts
      <4>3. /\ record' \in Row /\ record'.text \subseteq everSaved'
            /\ everSaved' \in SUBSET Edits /\ told' \in SUBSET Edits
        BY <1>1, <4>1, <4>4, RecordedFacts DEF RowInv
      <4> QED BY <1>1, <4>1, <4>2, <4>3
    <3> QED BY <1>2, <3>1, <3>2, <3>3 DEF Receive
  <2> QED BY <1>2, <2>2, <2>3
          DEF RowInv, TypeOK, Receive, Row, HostState, ProcessState, LockState
<1>3. CASE Autosave(s)
  <2>1. PICK done \in Submissions(s, server[s].rec, "error") :
           Recorded(s, done) /\ server' = Processes(s, done)
    BY <1>3 DEF Autosave
  <2>4. Leaves(s, "error")
    BY <1>3 DEF Autosave, Leaves, SaveStates, Unsettled
  <2>2. Processes(s, done) \in [Sessions -> ProcessState]
    BY <1>1, <2>4, ProcessesFacts
  <2>3. /\ record' \in Row /\ record'.text \subseteq everSaved'
        /\ everSaved' \in SUBSET Edits /\ told' \in SUBSET Edits
    BY <1>1, <2>1, <2>4, RecordedFacts DEF RowInv
  <2> QED BY <1>3, <2>1, <2>2, <2>3
          DEF RowInv, TypeOK, Autosave, Row, HostState, ProcessState, pageVars
<1>4. CASE FlushFallback(s)
  <2>1. /\ record' \in Row /\ record'.text \subseteq everSaved'
        /\ server' \in [Sessions -> ProcessState] /\ lock' \in LockState
        /\ everSaved' \in SUBSET Edits /\ told' \in SUBSET Edits
    BY <1>4, FinishTypes DEF FlushFallback
  <2> QED BY <1>4, <2>1
          DEF RowInv, TypeOK, FlushFallback, Row, HostState, ProcessState, LockState, pageVars
<1>5. CASE ReloadConflict(s)
  <2>1. server' \in [Sessions -> ProcessState]
    BY <1>1, <1>5, ReloadedType DEF ReloadConflict
  <2>2. told' \in SUBSET Edits
    BY <1>1, <1>5 DEF ReloadConflict
  <2> QED BY <1>5, <2>1, <2>2
          DEF RowInv, TypeOK, ReloadConflict, HostState, ProcessState, pageVars
<1>6. CASE ProcessGone(s)
  <2>1. server' \in [Sessions -> ProcessState]
    BY <1>1, <1>6, MountedType DEF ProcessGone
  <2>2. lock' \in LockState
    BY <1>1, <1>6 DEF ProcessGone, LockState
  <2> QED BY <1>6, <2>1, <2>2
          DEF RowInv, TypeOK, ProcessGone, HostState, ProcessState, LockState, pageVars, ledgerVars
<1>7. CASE Rejoin(s)
  <2>1. server' \in [Sessions -> ProcessState]
    BY <1>1, <1>7, MountedType DEF Rejoin
  <2>2. line' \in [Sessions -> {"up", "down"}]
    BY <1>1, <1>7 DEF Rejoin, TypeOK
  <2>3. /\ browser' \in [Sessions -> HostState] /\ wire' \in [Sessions -> Seq(Message)]
        /\ told' \in SUBSET Edits /\ remounted' \in SUBSET Edits
    <3>1. /\ FreshHost(record.text, browser[s].gen, HeldFrom(s)) \in HostState
          /\ FreshHost(record.text, 0, HeldFrom(s)) \in HostState
      BY <1>1, FreshType
    <3>2. [Settled(browser[s]) EXCEPT !.version = 0, !.locked = HeldFrom(s)] \in HostState
      BY <1>1, SettledType DEF HostState
    <3>3. Body(browser[s].text) \in Message /\ <<Body(browser[s].text)>> \in Seq(Message)
      BY <1>1, MessageTypes
    <3>4. CASE KeptHost(s) /\ record.ver = browser[s].version
      <4>1. browser' \in [Sessions -> HostState]
        BY <1>1, <3>2, <3>4 DEF KeptHost
      <4>2. wire' \in [Sessions -> Seq(Message)]
        BY <1>1, <3>3, <3>4 DEF KeptHost
      <4> QED BY <1>1, <3>4, <4>1, <4>2 DEF KeptHost, TypeOK
    <3>5. CASE KeptHost(s) /\ record.ver # browser[s].version
      <4>1. browser' \in [Sessions -> HostState]
        BY <1>1, <3>1, <3>5 DEF KeptHost
      <4> QED BY <1>1, <3>5, <4>1 DEF KeptHost, TypeOK
    <3>6. CASE ReplacedHost(s)
      <4>1. browser' \in [Sessions -> HostState]
        BY <1>1, <3>1, <3>6 DEF ReplacedHost
      <4> QED BY <1>1, <3>6, <4>1 DEF ReplacedHost, TypeOK
    <3> QED BY <1>7, <3>4, <3>5, <3>6 DEF Rejoin
  <2> QED BY <1>7, <2>1, <2>2, <2>3
          DEF RowInv, TypeOK, Rejoin, HostState, ProcessState
<1>8. QED BY <1>2, <1>3, <1>4, <1>5, <1>6, <1>7

LEMMA TimeoutTypes ==
    ASSUME RowInv, FlushTimeout
    PROVE  RowInv'
<1>1. /\ record \in Row /\ server \in [Sessions -> ProcessState] /\ lock' \in LockState
  BY GrantedType DEF RowInv, TypeOK, Row, ProcessState, FlushTimeout
<1>2. server' \in [Sessions -> ProcessState]
  BY <1>1, TransferredFacts DEF FlushTimeout
<1> QED BY <1>1, <1>2
        DEF RowInv, TypeOK, FlushTimeout, Row, HostState, ProcessState, LockState, pageVars, ledgerVars

LEMMA NextRow == RowInv /\ [Next]_vars => RowInv'
<1> SUFFICES ASSUME RowInv, [Next]_vars PROVE RowInv'
  OBVIOUS
<1>1. CASE HoldEnds \/ FlushTimeout
  <2>1. CASE HoldEnds
    <3>1. lock.holder \in Sessions
      BY <2>1 DEF HoldEnds, RowInv, TypeOK
    <3> QED BY <2>1, <3>1, LockTypes
  <2> QED BY <1>1, <2>1, TimeoutTypes
<1>2. ASSUME NEW s \in Sessions, SessionStep(s) PROVE RowInv'
  BY <1>2, PageTypes, LockTypes, ProcessTypes DEF SessionStep
<1>3. CASE UNCHANGED vars
  BY <1>3 DEF RowInv, TypeOK, vars, pageVars, ledgerVars
<1> QED BY <1>1, <1>2, <1>3 DEF Next

LEMMA RowHolds == Spec => []RowInv
BY InitRow, NextRow, PTL DEF Spec

\* Every variable keeps its type, whatever drops, times out or is taken over.
THEOREM TypeCorrect == Spec => []TypeOK
<1>1. RowInv => TypeOK
  BY DEF RowInv
<1> QED BY <1>1, RowHolds, PTL

-----------------------------------------------------------------------------
(* Every session stays fine.                                               *)

LEMMA InitEdits == Init => EditsInv
<1> SUFFICES ASSUME Init, NEW s \in Sessions PROVE SessionInv(s)
  BY InitRow DEF EditsInv, RowInv
<1>1. /\ record = [ver |-> 0, text |-> {}] /\ record \in Row /\ record.text = {}
      /\ browser[s] = FreshHost({}, 0, FALSE) /\ line[s] = "up" /\ wire[s] = <<>>
      /\ server[s] = Mounted(record) /\ typed[s] = {} /\ lock.taker = Nobody
  BY DEF Init, Row
<1>2. /\ server[s].alive /\ server[s].text = {} /\ server[s].gen = 0
  BY <1>1, MountedType
<1>3. /\ browser[s].text = {} /\ browser[s].gen = 0
  <2>1. {} \in SUBSET Edits /\ 0 \in Nat /\ FALSE \in BOOLEAN
    OBVIOUS
  <2>2. FreshHost({}, 0, FALSE).text = {} /\ FreshHost({}, 0, FALSE).gen = 0
    BY <2>1, FreshType
  <2> QED BY <1>1, <2>2
<1>4. ~Asks(s)
  BY <1>1, SessionsAssumption DEF Asks
<1>5. Len(<<>>) = 0 /\ DOMAIN <<>> = {}
  OBVIOUS
<1>6. Reaches(browser[s].text \ Kept, <<>>, Len(<<>>), server[s].text)
  BY <1>2, <1>3, <1>5 DEF Reaches
<1> QED BY <1>1, <1>2, <1>3, <1>4, <1>5, <1>6 DEF SessionInv, Fine

\* A session that a step concerns at most through its process and the ledger.
LEMMA SessionFrame ==
    ASSUME EditsInv, TypeOK', NEW t \in Sessions,
           Kept \subseteq Kept', remounted \subseteq remounted',
           browser'[t] = browser[t], line'[t] = line[t], wire'[t] = wire[t],
           typed'[t] = typed[t], Same(server[t], server'[t]),
           server'[t].state \notin Unsettled => server'[t].text \subseteq Kept',
           Asks(t)' => Asks(t)
    PROVE  SessionInv(t)'
<1>1. /\ browser[t] \in HostState /\ wire[t] \in Seq(Message)
      /\ server[t] \in ProcessState /\ Asks(t) \in BOOLEAN
  BY TypeParts DEF EditsInv
<1>2. server'[t] \in ProcessState /\ Asks(t)' \in BOOLEAN
  BY DEF TypeOK, ProcessState, Asks
<1>3. Fine(browser[t], line[t], wire[t], server[t], typed[t], Asks(t), Kept, remounted)
  BY DEF EditsInv, SessionInv
<1>4. Fine(browser[t], line[t], wire[t], server'[t], typed[t], Asks(t)', Kept', remounted')
  BY <1>1, <1>2, <1>3, FineFrame
<1> QED BY <1>4 DEF SessionInv

\* The same, of a session whose process the step leaves alone too.
LEMMA SessionUntouched ==
    ASSUME EditsInv, TypeOK', NEW t \in Sessions,
           Kept \subseteq Kept', remounted \subseteq remounted',
           browser'[t] = browser[t], line'[t] = line[t], wire'[t] = wire[t],
           typed'[t] = typed[t], server'[t] = server[t], Asks(t)' => Asks(t)
    PROVE  SessionInv(t)'
<1>1. server[t].state \notin Unsettled => server[t].text \subseteq Kept
  BY DEF EditsInv, SessionInv, Fine
<1> QED BY <1>1, SessionFrame DEF Same

\* What a step's own session was.
LEMMA OwnSession ==
    ASSUME EditsInv, NEW s \in Sessions
    PROVE  /\ browser[s] \in HostState /\ wire[s] \in Seq(Message)
           /\ server[s] \in ProcessState /\ Asks(s) \in BOOLEAN
           /\ line[s] \in {"up", "down"}
           /\ Fine(browser[s], line[s], wire[s], server[s], typed[s], Asks(s),
                   Kept, remounted)
           /\ browser \in [Sessions -> HostState] /\ server \in [Sessions -> ProcessState]
           /\ wire \in [Sessions -> Seq(Message)] /\ typed \in [Sessions -> SUBSET Edits]
           /\ line \in [Sessions -> {"up", "down"}]
BY TypeParts DEF EditsInv, SessionInv, TypeOK

\* Typing: the host is editable and no reload is on its way to it.
LEMMA TypeKeeps ==
    ASSUME EditsInv, TypeOK', NEW s \in Sessions, NEW e \in Edits, Type(s, e),
           NEW t \in Sessions
    PROVE  SessionInv(t)'
<1>1. /\ browser \in [Sessions -> HostState] /\ browser[s] \in HostState
      /\ typed \in [Sessions -> SUBSET Edits] /\ server[s] \in ProcessState
      /\ Fine(browser[s], line[s], wire[s], server[s], typed[s], Asks(s), Kept, remounted)
      /\ Asks(s) \in BOOLEAN
  BY OwnSession
<1>2. UNCHANGED <<line, wire, server, lock, everSaved, told, remounted>>
  BY DEF Type
<1>3. Kept' = Kept /\ Asks(t)' = Asks(t)
  BY <1>2 DEF Kept, Asks
<1>4. browser' = [browser EXCEPT ![s] = [browser[s] EXCEPT !.text = browser[s].text \union {e},
                                                      !.pending = TRUE, !.edited = TRUE]]
  BY <1>1 DEF Type
<1>5. typed' = [typed EXCEPT ![s] = typed[s] \union {e}]
  BY <1>1 DEF Type
<1>6. CASE t = s
  <2> DEFINE c == browser'[s]
  <2>1. c = [browser[s] EXCEPT !.text = browser[s].text \union {e}, !.pending = TRUE, !.edited = TRUE]
    BY <1>1, <1>4
  <2>2. /\ c \in HostState /\ c.text = browser[s].text \union {e} /\ c.pending
        /\ c.edited /\ c.gen = browser[s].gen
    <3>1. browser[s].text \union {e} \in SUBSET Edits
      BY <1>1 DEF HostState
    <3> HIDE DEF c
    <3> QED BY <1>1, <2>1, <3>1 DEF HostState
  <2>3. line[s] = "up" => ~Asks(s) /\ server[s].gen = browser[s].gen
    BY DEF Type, Asks
  <2> HIDE DEF c
  <2>4. Fine(c, line[s], wire[s], server[s], typed[s] \union {e}, Asks(s), Kept, remounted)
    BY <1>1, <2>2, <2>3 DEF Fine
  <2>5. typed'[s] = typed[s] \union {e}
    BY <1>1, <1>5
  <2> QED BY <1>2, <1>3, <1>6, <2>4, <2>5 DEF SessionInv, c
<1>7. CASE t # s
  <2>1. browser'[t] = browser[t] /\ typed'[t] = typed[t]
    BY <1>1, <1>4, <1>5, <1>7
  <2> QED BY <1>2, <1>3, <2>1, SessionUntouched
<1> QED BY <1>6, <1>7

LEMMA PushKeeps ==
    ASSUME EditsInv, TypeOK', NEW s \in Sessions, PushBody(s), NEW t \in Sessions
    PROVE  SessionInv(t)'
<1>1. /\ browser \in [Sessions -> HostState] /\ browser[s] \in HostState
      /\ wire \in [Sessions -> Seq(Message)] /\ wire[s] \in Seq(Message)
      /\ server[s] \in ProcessState /\ Asks(s) \in BOOLEAN
      /\ Fine(browser[s], line[s], wire[s], server[s], typed[s], Asks(s), Kept, remounted)
  BY OwnSession
<1>2. UNCHANGED <<line, server, lock, typed, everSaved, told, remounted>>
  BY DEF PushBody, ledgerVars
<1>3. Kept' = Kept /\ Asks(t)' = Asks(t)
  BY <1>2 DEF Kept, Asks
<1>4. /\ browser[s].pending /\ browser' = [browser EXCEPT ![s] = Settled(browser[s])]
      /\ wire' = Pushed(s, <<Body(browser[s].text)>>)
  BY <1>1 DEF PushBody
<1>5. CASE t = s /\ line[s] = "up"
  <2>1. /\ browser'[s] = Settled(browser[s])
        /\ wire'[s] = wire[s] \o <<Body(browser[s].text)>>
    BY <1>1, <1>4, <1>5 DEF Pushed
  <2>2. Fine(Settled(browser[s]), "up", wire[s] \o <<Body(browser[s].text)>>, server[s],
             typed[s], Asks(s), Kept, remounted)
    BY <1>1, <1>4, <1>5, FinePushBody
  <2> QED BY <1>2, <1>3, <1>5, <2>1, <2>2 DEF SessionInv
<1>6. CASE t = s /\ line[s] # "up"
  <2>1. browser'[s] = Settled(browser[s]) /\ wire'[s] = wire[s]
    BY <1>1, <1>4, <1>6 DEF Pushed
  <2>2. /\ Settled(browser[s]).text = browser[s].text
        /\ Settled(browser[s]).edited = browser[s].edited
    BY <1>1, SettledType
  <2>3. Fine(Settled(browser[s]), line[s], wire[s], server[s], typed[s], Asks(s), Kept, remounted)
    BY <1>1, <1>6, <2>2 DEF Fine
  <2> QED BY <1>2, <1>3, <1>6, <2>1, <2>3 DEF SessionInv
<1>7. CASE t # s
  <2>1. browser'[t] = browser[t] /\ wire'[t] = wire[t]
    BY <1>1, <1>4, <1>7 DEF Pushed
  <2> QED BY <1>2, <1>3, <2>1, SessionUntouched
<1> QED BY <1>5, <1>6, <1>7

\* The pending body, if there is one, and then another message.
LEMMA FlushedIsFine ==
    ASSUME EditsInv, NEW s \in Sessions, NEW m \in Message, line[s] = "up",
           m.kind # "body", m.kind = "flushed" => m.text = browser[s].text
    PROVE  Fine(FlushedHost(s), "up", wire[s] \o (PendingBody(s) \o <<m>>), server[s],
                typed[s], Asks(s), Kept, remounted)
<1>1. /\ browser[s] \in HostState /\ wire[s] \in Seq(Message)
      /\ server[s] \in ProcessState /\ Asks(s) \in BOOLEAN
      /\ Fine(browser[s], "up", wire[s], server[s], typed[s], Asks(s), Kept, remounted)
  BY OwnSession
<1>2. CASE browser[s].pending
  <2> DEFINE b == Settled(browser[s])
             ms == wire[s] \o <<Body(browser[s].text)>>
  <2>1. FlushedHost(s) = b /\ PendingBody(s) = <<Body(browser[s].text)>>
    BY <1>2 DEF FlushedHost, PendingBody
  <2>2. Body(browser[s].text) \in Message /\ <<m>> \in Seq(Message)
    BY <1>1, MessageTypes DEF HostState
  <2>3. <<Body(browser[s].text)>> \in Seq(Message)
    BY <2>2
  <2>4. ms \in Seq(Message)
    BY <1>1, <2>3, ConcatProperties
  <2>5. wire[s] \o (PendingBody(s) \o <<m>>) = ms \o <<m>>
    BY <1>1, <2>1, <2>2, <2>3, ConcatAssociative
  <2>6. Fine(b, "up", ms, server[s], typed[s], Asks(s), Kept, remounted)
    BY <1>1, <1>2, FinePushBody
  <2>7. b \in HostState /\ ~b.pending /\ b.text = browser[s].text
    BY <1>1, SettledType
  <2> HIDE DEF b, ms
  <2>8. Fine(b, "up", ms \o <<m>>, server[s], typed[s], Asks(s), Kept, remounted)
    BY <1>1, <2>4, <2>6, <2>7, FinePushOther
  <2> QED BY <2>1, <2>5, <2>8
<1>3. CASE ~browser[s].pending
  <2>1. FlushedHost(s) = browser[s] /\ PendingBody(s) = <<>>
    BY <1>3 DEF FlushedHost, PendingBody
  <2>2. PendingBody(s) \o <<m>> = <<m>>
    BY <2>1
  <2>3. Fine(browser[s], "up", wire[s] \o <<m>>, server[s], typed[s], Asks(s), Kept, remounted)
    BY <1>1, <1>3, FinePushOther
  <2> QED BY <2>1, <2>2, <2>3
<1> QED BY <1>2, <1>3

LEMMA PressKeeps ==
    ASSUME EditsInv, TypeOK', NEW s \in Sessions, PressSave(s), NEW t \in Sessions
    PROVE  SessionInv(t)'
<1>1. browser \in [Sessions -> HostState] /\ wire \in [Sessions -> Seq(Message)]
  BY OwnSession
<1>2. /\ line[s] = "up" /\ wire' = Pushed(s, PendingBody(s) \o <<SaveEvent>>)
      /\ browser' = [browser EXCEPT ![s] = FlushedHost(s)]
      /\ UNCHANGED <<line, server, lock, typed, everSaved, told, remounted>>
  BY DEF PressSave, ledgerVars
<1>3. Kept' = Kept /\ Asks(t)' = Asks(t)
  BY <1>2 DEF Kept, Asks
<1>4. CASE t = s
  <2>1. /\ browser'[s] = FlushedHost(s)
        /\ wire'[s] = wire[s] \o (PendingBody(s) \o <<SaveEvent>>)
    BY <1>1, <1>2 DEF Pushed
  <2>2. SaveEvent \in Message /\ SaveEvent.kind = "save"
    BY MessageTypes
  <2>3. Fine(FlushedHost(s), "up", wire[s] \o (PendingBody(s) \o <<SaveEvent>>), server[s],
             typed[s], Asks(s), Kept, remounted)
    BY <1>2, <2>2, FlushedIsFine
  <2> QED BY <1>2, <1>3, <1>4, <2>1, <2>3 DEF SessionInv
<1>5. CASE t # s
  <2>1. browser'[t] = browser[t] /\ wire'[t] = wire[t]
    BY <1>1, <1>2, <1>5 DEF Pushed
  <2> QED BY <1>2, <1>3, <2>1, SessionUntouched
<1> QED BY <1>4, <1>5

LEMMA HearKeeps ==
    ASSUME EditsInv, TypeOK', NEW s \in Sessions, HearFlush(s), NEW t \in Sessions
    PROVE  SessionInv(t)'
<1> DEFINE m == BodyFlushed(browser[s].text)
<1>1. /\ browser \in [Sessions -> HostState] /\ wire \in [Sessions -> Seq(Message)]
      /\ server \in [Sessions -> ProcessState] /\ server[s] \in ProcessState
      /\ browser[s].text \in SUBSET Edits /\ Asks(s) \in BOOLEAN
  BY OwnSession, TypeParts DEF EditsInv
<1>2. /\ line[s] = "up" /\ wire' = Pushed(s, PendingBody(s) \o <<m>>)
      /\ browser' = [browser EXCEPT ![s] = FlushedHost(s)]
      /\ server' = [server EXCEPT ![s] = [server[s] EXCEPT !.asked = FALSE]]
      /\ UNCHANGED <<line, lock, typed, everSaved, told, remounted>>
  BY <1>1 DEF HearFlush, ledgerVars
<1>3. Kept' = Kept /\ Asks(t)' = Asks(t)
  BY <1>2 DEF Kept, Asks
<1>4. m \in Message /\ m.kind = "flushed" /\ m.text = browser[s].text
  BY <1>1, MessageTypes
<1> HIDE DEF m
<1>5. CASE t = s
  <2>1. /\ browser'[s] = FlushedHost(s) /\ wire'[s] = wire[s] \o (PendingBody(s) \o <<m>>)
        /\ server'[s] = [server[s] EXCEPT !.asked = FALSE]
    BY <1>1, <1>2 DEF Pushed
  <2>2. Fine(FlushedHost(s), "up", wire[s] \o (PendingBody(s) \o <<m>>), server[s],
             typed[s], Asks(s), Kept, remounted)
    BY <1>2, <1>4, FlushedIsFine
  <2>3. /\ server'[s].text = server[s].text /\ server'[s].alive = server[s].alive
        /\ server'[s].gen = server[s].gen /\ server'[s].state = server[s].state
    BY <1>1, <2>1 DEF ProcessState
  <2>4. Fine(FlushedHost(s), "up", wire[s] \o (PendingBody(s) \o <<m>>), server'[s],
             typed[s], Asks(s), Kept, remounted)
    BY <2>2, <2>3 DEF Fine
  <2> QED BY <1>2, <1>3, <1>5, <2>1, <2>4 DEF SessionInv
<1>6. CASE t # s
  <2>1. browser'[t] = browser[t] /\ wire'[t] = wire[t] /\ server'[t] = server[t]
    BY <1>1, <1>2, <1>6 DEF Pushed
  <2> QED BY <1>2, <1>3, <2>1, SessionUntouched
<1> QED BY <1>5, <1>6

LEMMA PatchKeeps ==
    ASSUME EditsInv, TypeOK', NEW s \in Sessions, Patch(s), NEW t \in Sessions
    PROVE  SessionInv(t)'
<1>1. /\ browser \in [Sessions -> HostState] /\ browser[s] \in HostState
      /\ wire[s] \in Seq(Message) /\ server[s] \in ProcessState /\ Asks(s) \in BOOLEAN
      /\ Fine(browser[s], line[s], wire[s], server[s], typed[s], Asks(s), Kept, remounted)
      /\ server[s].text \in SUBSET Edits /\ server[s].gen \in Nat /\ HeldFrom(s) \in BOOLEAN
  BY OwnSession, TypeParts DEF EditsInv
<1>2. /\ line[s] = "up"
      /\ UNCHANGED <<line, wire, server, lock, typed, everSaved, told, remounted>>
  BY DEF Patch, ledgerVars
<1>3. Kept' = Kept /\ Asks(t)' = Asks(t)
  BY <1>2 DEF Kept, Asks
<1>4. CASE t = s /\ server[s].gen = browser[s].gen
  <2>1. browser'[s] = [browser[s] EXCEPT !.locked = HeldFrom(s)]
    BY <1>1, <1>4 DEF Patch
  <2>2. /\ browser'[s].text = browser[s].text /\ browser'[s].pending = browser[s].pending
        /\ browser'[s].edited = browser[s].edited /\ browser'[s].gen = browser[s].gen
    BY <1>1, <2>1 DEF HostState
  <2>3. Fine(browser'[s], line[s], wire[s], server[s], typed[s], Asks(s), Kept, remounted)
    BY <1>1, <2>2 DEF Fine
  <2> QED BY <1>2, <1>3, <1>4, <2>3 DEF SessionInv
<1>5. CASE t = s /\ server[s].gen # browser[s].gen
  <2> DEFINE c == FreshHost(server[s].text, server[s].gen, HeldFrom(s))
  <2>1. browser'[s] = c
    BY <1>1, <1>5 DEF Patch
  <2>2. /\ c \in HostState /\ c.text = server[s].text /\ ~c.pending /\ c.gen = server[s].gen
    BY <1>1, FreshType
  <2> HIDE DEF c
  <2>3. Fine(c, "up", wire[s], server[s], typed[s], Asks(s), Kept, remounted)
    BY <1>1, <1>2, <1>5, <2>2, FineFresh
  <2> QED BY <1>2, <1>3, <1>5, <2>1, <2>3 DEF SessionInv
<1>6. CASE t # s
  <2>1. browser'[t] = browser[t]
    BY <1>1, <1>6 DEF Patch
  <2> QED BY <1>2, <1>3, <2>1, SessionUntouched
<1> QED BY <1>4, <1>5, <1>6

LEMMA LockKeeps ==
    ASSUME EditsInv, TypeOK', NEW s \in Sessions,
           Focus(s) \/ Blur(s) \/ Takeover(s) \/ HoldEnds, NEW t \in Sessions
    PROVE  SessionInv(t)'
<1>1. /\ server \in [Sessions -> ProcessState] /\ server[t] \in ProcessState
      /\ wire[t] \in Seq(Message) /\ browser[t] \in HostState
      /\ lock \in LockState
      /\ Fine(browser[t], line[t], wire[t], server[t], typed[t], Asks(t), Kept, remounted)
  BY OwnSession DEF EditsInv, TypeOK, LockState
<1>2. UNCHANGED <<browser, line, wire, typed, everSaved, told, remounted>>
  BY DEF Focus, Blur, Takeover, HoldEnds, pageVars, ledgerVars
<1>3. Kept' = Kept
  BY <1>2 DEF Kept
<1>4. Same(server[t], server'[t]) /\ server'[t].state = server[t].state
  <2>1. CASE Focus(s)
    <3>1. \/ server'[t] = server[t]
          \/ server'[t] = [server[t] EXCEPT !.focus = TRUE]
      BY <1>1, <2>1 DEF Focus
    <3> QED BY <1>1, <3>1 DEF ProcessState, Same
  <2>2. CASE Blur(s)
    <3>1. \/ server'[t] = server[t]
          \/ server'[t] = [server[t] EXCEPT !.focus = FALSE]
      BY <1>1, <2>2 DEF Blur
    <3> QED BY <1>1, <3>1 DEF ProcessState, Same
  <2>3. CASE Takeover(s)
    <3>1. \/ server' = server
          \/ server' = [server EXCEPT ![lock.holder].flushing = TRUE, ![lock.holder].asked = TRUE]
      BY <2>3 DEF Takeover
    <3>2. \/ server'[t] = server[t]
          \/ server'[t] = [server[t] EXCEPT !.flushing = TRUE, !.asked = TRUE]
      BY <1>1, <3>1
    <3> QED BY <1>1, <3>2 DEF ProcessState, Same
  <2>4. CASE HoldEnds
    BY <2>4 DEF HoldEnds, Same
  <2> QED BY <2>1, <2>2, <2>3, <2>4
<1>5. CASE Takeover(s) /\ t = s
  <2>1. line[s] = "up" /\ wire[s] = <<>> /\ ~browser[s].pending
    BY <1>5 DEF Takeover
  <2>2. NoBody(wire[s])
    BY <2>1 DEF NoBody
  <2>3. Fine(browser[s], line[s], wire[s], server'[s], typed[s], Asks(s)', Kept, remounted)
    BY <1>1, <1>4, <1>5, <2>1, <2>2 DEF Fine, Same
  <2> QED BY <1>2, <1>3, <1>5, <2>3 DEF SessionInv
<1>6. CASE ~(Takeover(s) /\ t = s)
  <2>1. Asks(t)' => Asks(t)
    <3>1. CASE Focus(s)
      BY <1>1, <3>1 DEF Focus, Acquired, Asks, LockState
    <3>2. CASE Blur(s)
      BY <1>1, <3>2 DEF Blur, Asks, LockState
    <3>3. CASE Takeover(s)
      BY <1>1, <1>6, <3>3 DEF Takeover, Asks, LockState
    <3>4. CASE HoldEnds
      BY <1>1, <3>4 DEF HoldEnds, Asks, LockState
    <3> QED BY <3>1, <3>2, <3>3, <3>4
  <2>2. server'[t].state \notin Unsettled => server'[t].text \subseteq Kept'
    BY <1>1, <1>3, <1>4 DEF Fine, Same
  <2> QED BY <1>2, <1>3, <1>4, <2>1, <2>2, SessionFrame
<1> QED BY <1>5, <1>6

\* What was on the line is lost with it; the page keeps what it shows.
LEMMA DropKeeps ==
    ASSUME EditsInv, TypeOK', NEW s \in Sessions, Drop(s), NEW t \in Sessions
    PROVE  SessionInv(t)'
<1>1. /\ browser \in [Sessions -> HostState] /\ browser[s] \in HostState
      /\ wire \in [Sessions -> Seq(Message)] /\ line \in [Sessions -> {"up", "down"}]
      /\ server \in [Sessions -> ProcessState] /\ server[s] \in ProcessState
      /\ Fine(browser[s], line[s], wire[s], server[s], typed[s], Asks(s), Kept, remounted)
  BY OwnSession
<1>2. UNCHANGED <<lock, typed, everSaved, told, remounted>>
  BY DEF Drop, ledgerVars
<1>3. Kept' = Kept /\ Asks(t)' = Asks(t)
  BY <1>2 DEF Kept, Asks
<1>4. CASE t = s
  <2>1. /\ browser'[s] = [browser[s] EXCEPT !.version = server[s].rec]
        /\ server'[s] = [server[s] EXCEPT !.asked = FALSE]
        /\ line'[s] = "down" /\ wire'[s] = <<>>
    BY <1>1 DEF Drop
  <2>2. /\ browser'[s].text = browser[s].text /\ browser'[s].edited = browser[s].edited
    BY <1>1, <2>1 DEF HostState
  <2>3. /\ server'[s].text = server[s].text /\ server'[s].alive = server[s].alive
        /\ server'[s].state = server[s].state
    BY <1>1, <2>1 DEF ProcessState
  <2>4. Fine(browser'[s], "down", <<>>, server'[s], typed[s], Asks(s), Kept, remounted)
    BY <1>1, <2>2, <2>3 DEF Fine
  <2> QED BY <1>2, <1>3, <1>4, <2>1, <2>4 DEF SessionInv
<1>5. CASE t # s
  <2>1. /\ browser'[t] = browser[t] /\ wire'[t] = wire[t] /\ line'[t] = line[t]
        /\ server'[t] = server[t]
    BY <1>1, <1>5 DEF Drop
  <2> QED BY <1>2, <1>3, <2>1, SessionUntouched
<1> QED BY <1>4, <1>5

LEMMA GoneKeeps ==
    ASSUME EditsInv, TypeOK', NEW s \in Sessions, ProcessGone(s), NEW t \in Sessions
    PROVE  SessionInv(t)'
<1>1. /\ server \in [Sessions -> ProcessState] /\ lock \in LockState /\ record \in Row
      /\ Fine(browser[s], line[s], wire[s], server[s], typed[s], Asks(s), Kept, remounted)
      /\ record.text \subseteq Kept
  BY OwnSession, TypeParts DEF EditsInv, TypeOK, LockState, Kept
<1>2. /\ UNCHANGED <<browser, line, wire, typed, everSaved, told, remounted>> /\ line[s] = "down"
  BY DEF ProcessGone, pageVars, ledgerVars
<1>3. Kept' = Kept
  BY <1>2 DEF Kept
<1>4. (Asks(t)' => Asks(t)) /\ ~Asks(s)'
  BY <1>1, SessionsAssumption DEF ProcessGone, Asks, LockState
<1>5. CASE t = s
  <2>1. server'[s] = [Mounted(record) EXCEPT !.alive = FALSE]
    BY <1>1 DEF ProcessGone
  <2>2. server'[s].text = record.text
    BY <1>1, <2>1, MountedType
  <2>3. Fine(browser[s], line[s], wire[s], server'[s], typed[s], Asks(s)', Kept, remounted)
    BY <1>1, <1>2, <1>4, <2>2 DEF Fine
  <2> QED BY <1>2, <1>3, <1>5, <2>3 DEF SessionInv
<1>6. CASE t # s
  <2>1. server'[t] = server[t]
    BY <1>1, <1>6 DEF ProcessGone
  <2> QED BY <1>2, <1>3, <1>4, <2>1, SessionUntouched
<1> QED BY <1>5, <1>6

LEMMA RejoinKeeps ==
    ASSUME EditsInv, TypeOK', NEW s \in Sessions, Rejoin(s), NEW t \in Sessions
    PROVE  SessionInv(t)'
<1> DEFINE b == browser[s]
           p == server[s]
           q == Mounted(record)
<1>1. /\ browser \in [Sessions -> HostState] /\ b \in HostState
      /\ wire \in [Sessions -> Seq(Message)] /\ line \in [Sessions -> {"up", "down"}]
      /\ server \in [Sessions -> ProcessState] /\ p \in ProcessState /\ Asks(s) \in BOOLEAN
      /\ Fine(b, line[s], wire[s], p, typed[s], Asks(s), Kept, remounted)
      /\ record \in Row /\ record.text \subseteq everSaved /\ record.text \in SUBSET Edits
      /\ b.gen \in Nat /\ HeldFrom(s) \in BOOLEAN
  BY OwnSession, TypeParts DEF EditsInv
<1>2. /\ line[s] = "down" /\ ~p.alive /\ line' = [line EXCEPT ![s] = "up"]
      /\ server' = [server EXCEPT ![s] = q]
      /\ UNCHANGED <<lock, typed, everSaved>>
  BY DEF Rejoin
<1>3. Asks(t)' = Asks(t)
  BY <1>2 DEF Asks
<1>4. /\ q \in ProcessState /\ q.alive /\ q.text = record.text /\ q.gen = 0
  BY <1>1, MountedType
<1>5. line'[s] = "up" /\ server'[s] = q
  BY <1>1, <1>2
<1> DEFINE fresh(gen) == FreshHost(record.text, gen, HeldFrom(s))
<1>6. \A gen \in Nat : /\ fresh(gen) \in HostState /\ fresh(gen).text = record.text
                       /\ ~fresh(gen).pending /\ fresh(gen).gen = gen
  BY <1>1, FreshType
<1> HIDE DEF q, fresh
<1>7. CASE b.gen = 0 /\ record.ver = b.version
  <2>1. KeptHost(s)
    BY <1>7 DEF Rejoin
  <2>2. /\ browser' = [browser EXCEPT ![s] = [Settled(b) EXCEPT !.version = 0, !.locked = HeldFrom(s)]]
        /\ wire' = [wire EXCEPT ![s] = IF b.edited THEN <<Body(b.text)>> ELSE wire[s]]
        /\ UNCHANGED <<told, remounted>>
    BY <1>1, <1>7, <2>1 DEF KeptHost
  <2>3. Kept' = Kept
    BY <1>2, <2>2 DEF Kept
  <2>4. CASE t = s
    <3> DEFINE c == [Settled(b) EXCEPT !.version = 0, !.locked = HeldFrom(s)]
               ms == IF b.edited THEN <<Body(b.text)>> ELSE wire[s]
    <3>1. browser'[s] = c /\ wire'[s] = ms
      BY <1>1, <2>2
    <3>2. c \in HostState /\ c.text = b.text /\ c.edited = b.edited /\ c.gen = q.gen
      <4>1. Settled(b) \in HostState /\ Settled(b).text = b.text
            /\ Settled(b).edited = b.edited /\ Settled(b).gen = b.gen
        BY <1>1, SettledType
      <4> QED BY <1>1, <1>4, <1>7, <4>1 DEF HostState
    <3>3. q.text \subseteq Kept
      BY <1>1, <1>4 DEF Kept
    <3> HIDE DEF c
    <3>4. Fine(b, "down", wire[s], p, typed[s], Asks(s), Kept, remounted)
      BY <1>1, <1>2
    <3>5. Fine(c, "up", ms, q, typed[s], Asks(s), Kept, remounted)
      BY <1>1, <1>2, <1>4, <3>2, <3>3, <3>4, FineResent
    <3> HIDE DEF ms
    <3> QED BY <1>2, <1>3, <1>5, <2>2, <2>3, <2>4, <3>1, <3>5 DEF SessionInv
  <2>5. CASE t # s
    <3>1. /\ browser'[t] = browser[t] /\ wire'[t] = wire[t] /\ line'[t] = line[t]
          /\ server'[t] = server[t]
      BY <1>1, <1>2, <2>2, <2>5
    <3> QED BY <1>2, <1>3, <2>2, <2>3, <3>1, SessionUntouched
  <2> QED BY <2>4, <2>5
<1>8. CASE ~(b.gen = 0 /\ record.ver = b.version)
  <2>1. /\ browser' = [browser EXCEPT ![s] = fresh(0)] /\ wire' = wire
        /\ everSaved' = everSaved /\ told \subseteq told' /\ remounted \subseteq remounted'
        /\ b.text \subseteq Kept' \union remounted'
    <3>1. CASE b.gen = 0
      <4>1. KeptHost(s)
        BY <3>1 DEF Rejoin
      <4>2. /\ browser' = [browser EXCEPT ![s] = FreshHost(record.text, b.gen, HeldFrom(s))]
            /\ told' = IF b.edited THEN told \union (b.text \ everSaved) ELSE told
            /\ UNCHANGED <<wire, remounted>>
        BY <1>1, <1>8, <3>1, <4>1 DEF KeptHost
      <4>3. ~b.edited => b.text \subseteq Kept
        BY <1>1 DEF Fine
      <4> QED BY <1>2, <3>1, <4>2, <4>3 DEF Kept, fresh
    <3>2. CASE b.gen # 0
      <4>1. ReplacedHost(s)
        BY <3>2 DEF Rejoin
      <4> QED BY <1>2, <4>1 DEF ReplacedHost, Kept, fresh
    <3> QED BY <3>1, <3>2
  <2>2. Kept \subseteq Kept'
    BY <2>1 DEF Kept
  <2>3. CASE t = s
    <3> DEFINE c == fresh(0)
    <3>1. /\ c \in HostState /\ c.text = record.text /\ ~c.pending /\ c.gen = q.gen
      BY <1>4, <1>6
    <3>2. /\ c.text \subseteq Kept' /\ q.text \subseteq Kept'
      BY <1>1, <1>4, <2>1, <3>1 DEF Kept
    <3>3. browser'[s] = c /\ wire'[s] = wire[s]
      BY <1>1, <2>1
    <3> HIDE DEF c
    <3>4. Fine(b, "down", wire[s], p, typed[s], Asks(s), Kept, remounted)
      BY <1>1, <1>2
    <3>5. Fine(c, "up", wire[s], q, typed[s], Asks(s), Kept', remounted')
      BY <1>1, <1>2, <1>4, <2>1, <2>2, <3>1, <3>2, <3>4, FineReplaced
    <3> QED BY <1>2, <1>3, <1>5, <2>3, <3>3, <3>5 DEF SessionInv
  <2>4. CASE t # s
    <3>1. /\ browser'[t] = browser[t] /\ wire'[t] = wire[t] /\ line'[t] = line[t]
          /\ server'[t] = server[t]
      BY <1>1, <1>2, <2>1, <2>4
    <3> QED BY <1>2, <1>3, <2>1, <2>2, <3>1, SessionUntouched
  <2> QED BY <2>3, <2>4
<1> QED BY <1>7, <1>8

\* A session as a submission by s leaves it, whatever its messages ms are by then.
LEMMA SubmissionKeeps ==
    ASSUME EditsInv, NEW s \in Sessions, NEW basis \in Nat, NEW after,
           Leaves(s, after), NEW done \in Submissions(s, basis, after), Recorded(s, done), UNCHANGED remounted,
           NEW t \in Sessions, NEW ms \in Seq(Message), NEW q \in ProcessState,
           Same(Processes(s, done)[t], q), q.state = Processes(s, done)[t].state,
           Fine(browser[t], line[t], ms, server[t], typed[t], Asks(t), Kept, remounted)
    PROVE  Fine(browser[t], line[t], ms, q, typed[t], Asks(t), Kept', remounted)
<1>1. /\ browser[t] \in HostState /\ server[t] \in ProcessState /\ Asks(t) \in BOOLEAN
      /\ TypeOK /\ record.text \subseteq everSaved
  BY OwnSession DEF EditsInv
<1>2. /\ Kept \subseteq Kept'
      /\ done.proc.state \notin Unsettled /\ server[s].state \in Unsettled
           => server[s].text \subseteq Kept'
  BY <1>1, RecordedFacts
<1>3. Same(server[t], q) /\ (q.state \notin Unsettled => q.text \subseteq Kept')
  <2>1. CASE t = s
    <3>1. Same(server[s], done.proc) /\ Processes(s, done)[s] = done.proc
      BY <1>1, SubmittedFacts, ProcessesFacts
    <3>2. server[s].state \notin Unsettled => server[s].text \subseteq Kept
      BY <2>1 DEF Fine
    <3> QED BY <1>2, <2>1, <3>1, <3>2 DEF Same
  <2>2. CASE t # s
    <3>1. /\ Same(server[t], Processes(s, done)[t])
          /\ Processes(s, done)[t].state = server[t].state
      BY <1>1, <2>2, ProcessesFacts
    <3>2. server[t].state \notin Unsettled => server[t].text \subseteq Kept
      BY DEF Fine
    <3> QED BY <1>2, <3>1, <3>2 DEF Same
  <2> QED BY <2>1, <2>2
<1> QED BY <1>1, <1>2, <1>3, FineFrame

\* A session as a grant leaves it.
LEMMA GrantKeeps ==
    ASSUME TypeOK, NEW procs \in [Sessions -> ProcessState], record' \in Row,
           NEW t \in Sessions, NEW ms \in Seq(Message), NEW kept, record'.text \subseteq kept,
           server' = Transferred(procs), lock' = Granted,
           Fine(browser[t], line[t], ms, procs[t], typed[t], Asks(t), kept, remounted)
    PROVE  Fine(browser[t], line[t], ms, server'[t], typed[t], Asks(t)', kept, remounted)
<1>1. /\ browser[t] \in HostState /\ procs[t] \in ProcessState /\ Asks(t) \in BOOLEAN
      /\ server'[t] \in ProcessState
  BY TypeParts, TransferredFacts
<1>2. Asks(t)' = FALSE
  BY SessionsAssumption DEF Granted, Asks
<1>3. CASE server'[t] = procs[t]
  BY <1>2, <1>3 DEF Fine
<1>4. CASE Asks(t) /\ procs[t].state = "saved" /\ server'[t] = Reloaded(procs[t], record')
  <2>1. /\ server'[t].text = record'.text /\ server'[t].state = "saved"
        /\ server'[t].alive = procs[t].alive
    BY <1>1, <1>4, ReloadedType
  <2>2. Fine(browser[t], line[t], ms, procs[t], typed[t], TRUE, kept, remounted)
    BY <1>4
  <2>3. Fine(browser[t], line[t], ms, server'[t], typed[t], FALSE, kept, remounted)
    BY <1>1, <1>4, <2>1, <2>2, FineTransfer
  <2> QED BY <1>2, <2>3
<1> QED BY <1>3, <1>4, TransferredFacts

\* Answering the flush: the pending edits are submitted, then the field is granted.
LEMMA FinishKeeps ==
    ASSUME EditsInv, NEW s \in Sessions, FinishFlush(s), UNCHANGED remounted,
           NEW t \in Sessions, NEW ms \in Seq(Message),
           Fine(browser[t], line[t], ms, server[t], typed[t], Asks(t), Kept, remounted)
    PROVE  Fine(browser[t], line[t], ms, server'[t], typed[t], Asks(t)', Kept', remounted)
<1> DEFINE asked == [server EXCEPT ![s].flushing = FALSE]
<1>1. /\ TypeOK /\ record.text \subseteq everSaved /\ record \in Row /\ RowInv
      /\ server \in [Sessions -> ProcessState] /\ server[s].rec \in Nat
      /\ server[t] \in ProcessState /\ lock' = Granted
  BY TypeParts DEF EditsInv, RowInv, FinishFlush
<1>2. record' \in Row /\ record'.text \subseteq everSaved'
  BY <1>1, FinishTypes
<1>3. record'.text \subseteq Kept'
  BY <1>2 DEF Kept
<1>4. CASE server[s].state \in {"pending", "held"}
  <2>0. PICK done \in Submissions(s, server[s].rec, "error") :
           /\ Recorded(s, done)
           /\ server' = Transferred([Processes(s, done) EXCEPT ![s].flushing = FALSE])
    BY <1>4 DEF FinishFlush
  <2> DEFINE saved == [Processes(s, done) EXCEPT ![s].flushing = FALSE]
  <2>9. Leaves(s, "error")
    BY <1>4 DEF Leaves, SaveStates, Unsettled
  <2>1. Recorded(s, done) /\ server' = Transferred(saved)
    BY <2>0
  <2>2. Processes(s, done) \in [Sessions -> ProcessState]
    BY <1>1, <2>9, ProcessesFacts
  <2>3. ASSUME NEW u \in Sessions
        PROVE  /\ saved[u] \in ProcessState /\ Same(Processes(s, done)[u], saved[u])
               /\ saved[u].state = Processes(s, done)[u].state
    <3>1. \/ saved[u] = Processes(s, done)[u]
          \/ saved[u] = [Processes(s, done)[u] EXCEPT !.flushing = FALSE]
      BY <2>2
    <3>2. Processes(s, done)[u] \in ProcessState
      BY <2>2
    <3> HIDE DEF saved
    <3> QED BY <3>1, <3>2 DEF ProcessState, Same
  <2>4. saved \in [Sessions -> ProcessState]
    <3>1. saved = [u \in Sessions |-> saved[u]]
      BY <2>2
    <3> HIDE DEF saved
    <3> QED BY <2>3, <3>1
  <2> HIDE DEF saved
  <2>5. Fine(browser[t], line[t], ms, saved[t], typed[t], Asks(t), Kept', remounted)
    BY <1>1, <2>1, <2>3, <2>9, SubmissionKeeps
  <2> QED BY <1>1, <1>2, <1>3, <2>1, <2>4, <2>5, GrantKeeps
<1>5. CASE server[s].state \notin {"pending", "held"}
  <2>1. UNCHANGED <<record, everSaved, told>> /\ server' = Transferred(asked)
    BY <1>5 DEF FinishFlush
  <2>2. [server[s] EXCEPT !.flushing = FALSE] \in ProcessState
    BY <1>1 DEF ProcessState
  <2>3. asked \in [Sessions -> ProcessState]
    BY <1>1, <2>2
  <2>4. asked[t] = server[t] \/ asked[t] = [server[t] EXCEPT !.flushing = FALSE]
    BY <1>1
  <2> HIDE DEF asked
  <2>5. /\ asked[t].text = server[t].text /\ asked[t].alive = server[t].alive
        /\ asked[t].gen = server[t].gen /\ asked[t].state = server[t].state
    BY <1>1, <2>4 DEF ProcessState
  <2>6. Kept' = Kept
    BY <2>1 DEF Kept
  <2>7. Fine(browser[t], line[t], ms, asked[t], typed[t], Asks(t), Kept', remounted)
    BY <2>5, <2>6 DEF Fine
  <2> QED BY <1>1, <1>2, <1>3, <2>1, <2>3, <2>7, GrantKeeps
<1> QED BY <1>4, <1>5

LEMMA TimeoutKeeps ==
    ASSUME EditsInv, TypeOK', FlushTimeout, NEW t \in Sessions
    PROVE  SessionInv(t)'
<1>1. /\ TypeOK /\ record \in Row /\ server \in [Sessions -> ProcessState]
      /\ wire[t] \in Seq(Message) /\ record.text \subseteq Kept
      /\ Fine(browser[t], line[t], wire[t], server[t], typed[t], Asks(t), Kept, remounted)
  BY OwnSession, TypeParts DEF EditsInv, Kept
<1>2. /\ lock' = Granted /\ record' = record /\ server' = Transferred(server)
      /\ UNCHANGED <<browser, line, wire, typed, everSaved, told, remounted>>
  BY DEF FlushTimeout, pageVars, ledgerVars
<1>3. Fine(browser[t], line[t], wire[t], server'[t], typed[t], Asks(t)', Kept, remounted)
  BY <1>1, <1>2, GrantKeeps
<1> QED BY <1>2, <1>3 DEF SessionInv, Kept

LEMMA FallbackKeeps ==
    ASSUME EditsInv, TypeOK', NEW s \in Sessions, FlushFallback(s), NEW t \in Sessions
    PROVE  SessionInv(t)'
<1>1. /\ wire[t] \in Seq(Message)
      /\ Fine(browser[t], line[t], wire[t], server[t], typed[t], Asks(t), Kept, remounted)
  BY OwnSession
<1>2. FinishFlush(s) /\ UNCHANGED <<browser, line, wire, typed, remounted>>
  BY DEF FlushFallback, pageVars
<1>3. Fine(browser[t], line[t], wire[t], server'[t], typed[t], Asks(t)', Kept', remounted)
  BY <1>1, <1>2, FinishKeeps
<1> QED BY <1>2, <1>3 DEF SessionInv

LEMMA AutosaveKeeps ==
    ASSUME EditsInv, TypeOK', NEW s \in Sessions, Autosave(s), NEW t \in Sessions
    PROVE  SessionInv(t)'
<1>1. /\ wire[t] \in Seq(Message) /\ server[s].rec \in Nat /\ TypeOK
      /\ Fine(browser[t], line[t], wire[t], server[t], typed[t], Asks(t), Kept, remounted)
  BY OwnSession, TypeParts DEF EditsInv
<1>2. PICK done \in Submissions(s, server[s].rec, "error") :
         Recorded(s, done) /\ server' = Processes(s, done)
  BY DEF Autosave
<1>6. UNCHANGED <<browser, line, wire, lock, typed, remounted>>
  BY DEF Autosave, pageVars
<1>7. Leaves(s, "error")
  BY DEF Autosave, Leaves, SaveStates, Unsettled
<1>3. Asks(t)' = Asks(t)
  BY <1>6 DEF Asks
<1>4. server'[t] \in ProcessState /\ Same(Processes(s, done)[t], server'[t])
      /\ server'[t].state = Processes(s, done)[t].state
  BY <1>2 DEF TypeOK, ProcessState, Same
<1>5. Fine(browser[t], line[t], wire[t], server'[t], typed[t], Asks(t), Kept', remounted)
  BY <1>1, <1>2, <1>4, <1>6, <1>7, SubmissionKeeps
<1> QED BY <1>2, <1>3, <1>5, <1>6 DEF SessionInv

\* The author discards what the conflict refused, and knows it.
LEMMA DiscardKeeps ==
    ASSUME EditsInv, TypeOK', NEW s \in Sessions, ReloadConflict(s), NEW t \in Sessions
    PROVE  SessionInv(t)'
<1>1. /\ server \in [Sessions -> ProcessState] /\ server[s] \in ProcessState
      /\ browser[s] \in HostState /\ wire[s] \in Seq(Message) /\ Asks(s) \in BOOLEAN
      /\ Fine(browser[s], line[s], wire[s], server[s], typed[s], Asks(s), Kept, remounted)
      /\ record \in Row /\ record.text \subseteq everSaved
  BY OwnSession, TypeParts DEF EditsInv
<1>2. /\ line[s] = "up" /\ wire[s] = <<>> /\ ~browser[s].pending
      /\ server' = [server EXCEPT ![s] = Reloaded(server[s], record)]
      /\ told' = told \union (browser[s].text \ everSaved)
      /\ UNCHANGED <<browser, line, wire, lock, typed, everSaved, remounted>>
  BY <1>1 DEF ReloadConflict, pageVars
<1>3. Kept \subseteq Kept' /\ browser[s].text \subseteq Kept' /\ record.text \subseteq Kept'
  BY <1>1, <1>2 DEF Kept
<1>4. Asks(t)' = Asks(t)
  BY <1>2 DEF Asks
<1>5. CASE t = s
  <2> DEFINE q == Reloaded(server[s], record)
  <2>1. /\ q \in ProcessState /\ q.text = record.text /\ q.state = "saved"
        /\ q.alive = server[s].alive /\ server'[s] = q
    BY <1>1, <1>2, ReloadedType
  <2> HIDE DEF q
  <2>2. NoBody(wire[s]) /\ Len(wire[s]) = 0 /\ DOMAIN wire[s] = {}
    BY <1>2 DEF NoBody
  <2>3. Reaches(browser[s].text \ Kept', wire[s], Len(wire[s]), q.text)
    BY <1>3, <2>2 DEF Reaches
  <2>4. /\ typed[s] \subseteq Kept' \union remounted \union browser[s].text
        /\ (~browser[s].edited => browser[s].text \subseteq Kept')
    BY <1>1, <1>3 DEF Fine
  <2>5. Fine(browser[s], line[s], wire[s], q, typed[s], Asks(s), Kept', remounted)
    BY <1>1, <1>2, <1>3, <2>1, <2>2, <2>3, <2>4 DEF Fine, Unsettled
  <2> QED BY <1>2, <1>4, <1>5, <2>1, <2>5 DEF SessionInv
<1>6. CASE t # s
  <2>1. server'[t] = server[t]
    BY <1>1, <1>2, <1>6
  <2> QED BY <1>2, <1>3, <1>4, <2>1, SessionUntouched
<1> QED BY <1>5, <1>6

LEMMA ReceiveKeeps ==
    ASSUME EditsInv, TypeOK', NEW s \in Sessions, Receive(s), NEW t \in Sessions
    PROVE  SessionInv(t)'
<1>1. /\ server \in [Sessions -> ProcessState] /\ server[s] \in ProcessState
      /\ wire \in [Sessions -> Seq(Message)] /\ wire[s] \in Seq(Message)
      /\ browser[s] \in HostState /\ Asks(s) \in BOOLEAN /\ server[s].form \in Nat
      /\ Fine(browser[s], line[s], wire[s], server[s], typed[s], Asks(s), Kept, remounted)
      /\ Fine(browser[t], line[t], wire[t], server[t], typed[t], Asks(t), Kept, remounted)
      /\ wire[t] \in Seq(Message) /\ TypeOK /\ lock \in LockState
  BY OwnSession, TypeParts DEF EditsInv, TypeOK, LockState
<1>2. /\ line[s] = "up" /\ wire[s] # <<>> /\ wire' = [wire EXCEPT ![s] = Tail(wire[s])]
      /\ UNCHANGED <<browser, line, typed, remounted>>
  BY <1>1 DEF Receive
<1>3. wire'[s] = Tail(wire[s]) /\ (t # s => wire'[t] = wire[t]) /\ wire'[t] \in Seq(Message)
  BY <1>1, <1>2 DEF TypeOK
<1>4. CASE Head(wire[s]).kind = "body" /\ ReceiveBody(s, Head(wire[s]).text)
  <2>1. /\ server' = [server EXCEPT ![s] = [server[s] EXCEPT !.text = Head(wire[s]).text,
                                                         !.state = "pending"]]
        /\ UNCHANGED <<record, everSaved, told>>
    BY <1>1, <1>4 DEF ReceiveBody
  <2>2. Kept' = Kept
    BY <2>1 DEF Kept
  <2>3. Asks(t)' = Asks(t)
    BY <1>1, <1>4 DEF ReceiveBody, Acquired, Asks, LockState
  <2>4. CASE t = s
    <3> DEFINE q == server'[s]
               ms == wire[s]
    <3>1. q \in ProcessState /\ q = [server[s] EXCEPT !.text = Head(ms).text, !.state = "pending"]
      BY <1>1, <2>1 DEF TypeOK, ProcessState
    <3>2. /\ q.text = Head(ms).text /\ q.state = "pending"
          /\ q.alive = server[s].alive /\ q.gen = server[s].gen
      BY <1>1, <3>1 DEF ProcessState
    <3>3. /\ Fine(browser[s], "up", ms, server[s], typed[s], Asks(s), Kept, remounted)
          /\ ms \in Seq(Message) /\ ms # <<>> /\ Head(ms).kind = "body"
      BY <1>1, <1>2, <1>4
    <3> HIDE DEF q, ms
    <3>4. Fine(browser[s], "up", Tail(ms), q, typed[s], Asks(s), Kept, remounted)
      <4>1. browser[s] \in HostState /\ server[s] \in ProcessState /\ Asks(s) \in BOOLEAN
        BY <1>1
      <4>2. q \in ProcessState
        BY <3>1
      <4> QED BY <3>2, <3>3, <4>1, <4>2, FineReceiveBody
    <3> USE DEF q, ms
    <3> QED BY <1>2, <1>3, <2>2, <2>3, <2>4, <3>4 DEF SessionInv
  <2>5. CASE t # s
    <3>1. server'[t] = server[t]
      BY <1>1, <2>1, <2>5
    <3> QED BY <1>2, <1>3, <2>1, <2>2, <2>3, <2>5, <3>1, SessionUntouched
  <2> QED BY <2>4, <2>5
<1>5. ASSUME Head(wire[s]).kind # "body"
      PROVE  Fine(browser[t], line[t], wire'[t], server[t], typed[t], Asks(t), Kept, remounted)
  <2>1. CASE t = s
    <3>1. Fine(browser[s], "up", wire[s], server[s], typed[s], Asks(s), Kept, remounted)
      BY <1>1, <1>2
    <3>2. Fine(browser[s], "up", Tail(wire[s]), server[s], typed[s], Asks(s), Kept, remounted)
      BY <1>1, <1>2, <1>5, <3>1, FineReceiveOther
    <3> QED BY <1>2, <1>3, <2>1, <3>2
  <2>2. CASE t # s
    BY <1>1, <1>3, <2>2
  <2> QED BY <2>1, <2>2
<1>6. CASE Head(wire[s]).kind = "flushed" /\ ReceiveFlushed(s)
  <2>1. Fine(browser[t], line[t], wire'[t], server[t], typed[t], Asks(t), Kept, remounted)
    BY <1>5, <1>6
  <2>2. CASE server[s].flushing
    <3>1. FinishFlush(s)
      BY <1>6, <2>2 DEF ReceiveFlushed
    <3>2. Fine(browser[t], line[t], wire'[t], server'[t], typed[t], Asks(t)', Kept', remounted)
      BY <1>2, <1>3, <2>1, <3>1, FinishKeeps
    <3> QED BY <1>2, <3>2 DEF SessionInv
  <2>3. CASE ~server[s].flushing
    <3>1. UNCHANGED <<server, lock, everSaved, told>>
      BY <1>6, <2>3 DEF ReceiveFlushed
    <3> QED BY <1>2, <2>1, <3>1 DEF SessionInv, Asks, Kept
  <2> QED BY <2>2, <2>3
<1>7. CASE Head(wire[s]).kind = "save" /\ ReceiveSave(s)
  <2> DEFINE after == IF server[s].state = "pending" THEN "held" ELSE server[s].state
  <2>1. PICK done \in Submissions(s, server[s].form, after) :
           Recorded(s, done) /\ server' = Processes(s, done) /\ lock' = lock
    BY <1>7 DEF ReceiveSave
  <2>5. Leaves(s, after)
    BY <1>1 DEF Leaves, SaveStates, Unsettled, ProcessState
  <2> HIDE DEF after
  <2>2. server'[t] \in ProcessState /\ Same(Processes(s, done)[t], server'[t])
        /\ server'[t].state = Processes(s, done)[t].state
    BY <2>1 DEF TypeOK, ProcessState, Same
  <2>3. Fine(browser[t], line[t], wire'[t], server[t], typed[t], Asks(t), Kept, remounted)
    BY <1>5, <1>7
  <2>4. Fine(browser[t], line[t], wire'[t], server'[t], typed[t], Asks(t), Kept', remounted)
    BY <1>1, <1>2, <1>3, <2>1, <2>2, <2>3, <2>5, SubmissionKeeps
  <2> QED BY <1>2, <2>1, <2>4 DEF SessionInv, Asks
<1> QED BY <1>4, <1>6, <1>7 DEF Receive

LEMMA NextEdits == EditsInv /\ [Next]_vars => EditsInv'
<1> SUFFICES ASSUME EditsInv, [Next]_vars PROVE EditsInv'
  OBVIOUS
<1>1. TypeOK' /\ record'.text \subseteq everSaved'
  BY NextRow DEF EditsInv, RowInv
<1> SUFFICES ASSUME NEW t \in Sessions PROVE SessionInv(t)'
  BY <1>1 DEF EditsInv
<1>2. CASE HoldEnds
  BY <1>1, <1>2, LockKeeps
<1>3. CASE FlushTimeout
  BY <1>1, <1>3, TimeoutKeeps
<1>4. ASSUME NEW s \in Sessions, SessionStep(s) PROVE SessionInv(t)'
  <2>1. CASE \E e \in Edits : Type(s, e)
    BY <1>1, <2>1, TypeKeeps
  <2>2. CASE PushBody(s) \/ PressSave(s) \/ HearFlush(s) \/ Patch(s)
    BY <1>1, <2>2, PushKeeps, PressKeeps, HearKeeps, PatchKeeps
  <2>3. CASE Receive(s) \/ Autosave(s) \/ FlushFallback(s) \/ ReloadConflict(s)
    BY <1>1, <2>3, ReceiveKeeps, AutosaveKeeps, FallbackKeeps, DiscardKeeps
  <2>4. CASE Focus(s) \/ Blur(s) \/ Takeover(s)
    BY <1>1, <2>4, LockKeeps
  <2>5. CASE Drop(s) \/ ProcessGone(s) \/ Rejoin(s)
    BY <1>1, <2>5, DropKeeps, GoneKeeps, RejoinKeeps
  <2> QED BY <1>4, <2>1, <2>2, <2>3, <2>4, <2>5 DEF SessionStep
<1>5. CASE UNCHANGED vars
  BY <1>5 DEF EditsInv, SessionInv, Asks, Kept, vars, pageVars, ledgerVars
<1> QED BY <1>2, <1>3, <1>4, <1>5 DEF Next

LEMMA EditsHold == Spec => []EditsInv
BY InitEdits, NextEdits, PTL DEF Spec

\* What an author typed was saved, or is still on the author's page, or the
\* author was told, or a rejoin replaced the host it was in: for any number of
\* sessions, edits, saves, drops and takeovers.
THEOREM OnlyRemountsLoseEdits == Spec => []OnlyRemountsLose
<1>1. EditsInv => OnlyRemountsLose
  BY DEF EditsInv, SessionInv, Fine, OnlyRemountsLose, Kept
<1> QED BY <1>1, EditsHold, PTL

\* The first message goes, and the flush is over: that is its answer's doing.
LEMMA OnlyReceivesTake ==
    ASSUME EditsInv, [Next]_vars, NEW s \in Sessions,
           wire[s] # <<>>, Head(wire[s]).kind = "flushed",
           wire'[s] = Tail(wire[s]), server[s].flushing, ~server'[s].flushing
    PROVE  FinishFlush(s)
<1>1. /\ wire \in [Sessions -> Seq(Message)] /\ wire[s] \in Seq(Message)
      /\ server \in [Sessions -> ProcessState] /\ server[s] \in ProcessState
      /\ line[s] # "up" => wire[s] = <<>>
  BY OwnSession DEF Fine
<1>2. Len(wire'[s]) < Len(wire[s]) /\ wire'[s] # wire[s]
  BY <1>1, HeadTailProperties, LenProperties, EmptySeq
<1>3. wire' # wire
  BY <1>2
<1>4. PICK t \in Sessions : SessionStep(t)
  BY <1>3 DEF Next, vars, HoldEnds, FlushTimeout, pageVars
<1>5. ASSUME NEW more \in Seq(Message), wire' = Pushed(t, more)
      PROVE  FALSE
  <2>1. wire'[s] = wire[s] \o more \/ wire'[s] = wire[s]
    BY <1>1, <1>5 DEF Pushed
  <2>2. Len(wire[s] \o more) = Len(wire[s]) + Len(more) /\ Len(more) \in Nat /\ Len(wire[s]) \in Nat
    BY <1>1, ConcatProperties, LenProperties
  <2> QED BY <1>2, <2>1, <2>2
<1>6. /\ PendingBody(t) \in Seq(Message) /\ SaveEvent \in Message
      /\ Body(browser[t].text) \in Message /\ BodyFlushed(browser[t].text) \in Message
  BY TypeParts, MessageTypes, PendingBodyType DEF EditsInv
<1>7. ~PushBody(t)
  BY <1>5, <1>6 DEF PushBody
<1>8. ~PressSave(t)
  <2>1. PendingBody(t) \o <<SaveEvent>> \in Seq(Message)
    BY <1>6, ConcatProperties
  <2> QED BY <1>5, <2>1 DEF PressSave
<1>9. ~HearFlush(t)
  <2>1. PendingBody(t) \o <<BodyFlushed(browser[t].text)>> \in Seq(Message)
    BY <1>6, ConcatProperties
  <2> QED BY <1>5, <2>1 DEF HearFlush
<1>10. ~Drop(t)
  <2> SUFFICES ASSUME Drop(t) PROVE FALSE
    OBVIOUS
  <2>1. server'[s] = server[s] \/ server'[s] = [server[s] EXCEPT !.asked = FALSE]
    BY <1>1 DEF Drop
  <2> QED BY <1>1, <2>1 DEF ProcessState
<1>11. ~Rejoin(t)
  <2> SUFFICES ASSUME Rejoin(t) PROVE FALSE
    OBVIOUS
  <2>1. t # s
    BY <1>1 DEF Rejoin
  <2>2. wire'[s] = wire[s]
    BY <1>1, <2>1 DEF Rejoin, KeptHost, ReplacedHost
  <2> QED BY <1>2, <2>2
<1>12. Receive(t)
  BY <1>3, <1>4, <1>7, <1>8, <1>9, <1>10, <1>11
  DEF SessionStep, Type, Patch, Autosave, FlushFallback, ReloadConflict, Focus, Blur,
      Takeover, ProcessGone, pageVars
<1>13. t = s
  BY <1>1, <1>2, <1>12 DEF Receive
<1> QED BY <1>12, <1>13 DEF Receive, ReceiveFlushed

\* What the holder is told of an answered takeover is true, for any number of
\* sessions, edits, saves, refusals and takeovers: its words were written or
\* refused aloud where the note calls them saved, and are in its form where the
\* note says so.
THEOREM TakeoverNotesAreTrue == Spec => TakeoverNoteIsTrue
<1>1. EditsInv /\ [Next]_vars =>
        [\A s \in Sessions : AnsweredTakeover(s) =>
           Head(wire[s]).text \subseteq everSaved' \union told' \union
               (IF server'[s].state = "saved" THEN {} ELSE server'[s].text)]_vars
  <2> SUFFICES ASSUME EditsInv, [Next]_vars, NEW s \in Sessions, AnsweredTakeover(s)
               PROVE  Head(wire[s]).text \subseteq Kept' \union
                        (IF server'[s].state = "saved" THEN {} ELSE server'[s].text)
    BY DEF Kept
  <2>1. /\ server[s].state \notin Unsettled => server[s].text \subseteq Kept
        /\ \A i \in DOMAIN wire[s] :
             wire[s][i].kind = "flushed"
               => Reaches(wire[s][i].text \ Kept, wire[s], i, server[s].text)
        /\ wire[s] \in Seq(Message) /\ TypeOK /\ server[s].rec \in Nat
        /\ record.text \subseteq everSaved /\ RowInv
        /\ server \in [Sessions -> ProcessState] /\ server[s] \in ProcessState
    BY OwnSession, TypeParts DEF EditsInv, Fine, RowInv
  <2>2. Head(wire[s]) = wire[s][1] /\ 1 \in DOMAIN wire[s]
    <3>1. Len(wire[s]) \in Nat \ {0} /\ DOMAIN wire[s] = 1..Len(wire[s])
      BY <2>1, LenProperties, EmptySeq DEF AnsweredTakeover
    <3> QED BY <3>1
  <2>3. Head(wire[s]).text \ Kept \subseteq server[s].text
    BY <2>1, <2>2 DEF Reaches, AnsweredTakeover
  <2>4. FinishFlush(s)
    BY OnlyReceivesTake DEF AnsweredTakeover
  <2>5. record' \in Row
    BY <2>1, <2>4, FinishTypes
  \* The grant only reloads a process that has nothing unsaved.
  <2>6. ASSUME NEW procs \in [Sessions -> ProcessState], server' = Transferred(procs)
        PROVE  /\ server'[s].state = procs[s].state
               /\ server'[s].state # "saved" => server'[s].text = procs[s].text
    BY <2>5, <2>6, TransferredFacts, ReloadedType
  <2>7. CASE server[s].state \in {"pending", "held"}
    <3>1. PICK done \in Submissions(s, server[s].rec, "error") :
             /\ Recorded(s, done)
             /\ server' = Transferred([Processes(s, done) EXCEPT ![s].flushing = FALSE])
      BY <2>4, <2>7 DEF FinishFlush
    <3>2. Leaves(s, "error") /\ server[s].state \in Unsettled
      BY <2>7 DEF Leaves, SaveStates, Unsettled
    <3>3. /\ Kept \subseteq Kept'
          /\ done.proc.state \notin Unsettled => server[s].text \subseteq Kept'
      BY <2>1, <3>1, <3>2, RecordedFacts
    <3>4. /\ Processes(s, done) \in [Sessions -> ProcessState]
          /\ Processes(s, done)[s] = done.proc /\ done.proc.text = server[s].text
      BY <2>1, <3>2, ProcessesFacts, SubmittedFacts DEF Same
    <3> DEFINE saved == [Processes(s, done) EXCEPT ![s].flushing = FALSE]
    <3>5. saved[s] = [done.proc EXCEPT !.flushing = FALSE] /\ done.proc \in ProcessState
      BY <3>4
    <3>6. [done.proc EXCEPT !.flushing = FALSE] \in ProcessState
      BY <3>5 DEF ProcessState
    <3>7. saved \in [Sessions -> ProcessState]
      BY <3>4, <3>6
    <3> HIDE DEF saved
    <3>8. saved[s].state = done.proc.state /\ saved[s].text = server[s].text
      BY <3>4, <3>5 DEF ProcessState
    <3>9. /\ server'[s].state = done.proc.state
          /\ server'[s].state # "saved" => server'[s].text = server[s].text
      BY <2>6, <3>1, <3>7, <3>8 DEF saved
    <3>10. "saved" \notin Unsettled
      BY DEF Unsettled
    <3> QED BY <2>3, <3>3, <3>9, <3>10
  <2>8. CASE server[s].state \notin {"pending", "held"}
    <3> DEFINE asked == [server EXCEPT ![s].flushing = FALSE]
    <3>1. Kept' = Kept /\ server' = Transferred(asked)
      BY <2>4, <2>8 DEF FinishFlush, Kept
    <3>2. asked[s] = [server[s] EXCEPT !.flushing = FALSE]
      BY <2>1
    <3>3. [server[s] EXCEPT !.flushing = FALSE] \in ProcessState
      BY <2>1 DEF ProcessState
    <3>4. asked \in [Sessions -> ProcessState]
      BY <2>1, <3>3
    <3> HIDE DEF asked
    <3>5. asked[s].state = server[s].state /\ asked[s].text = server[s].text
      BY <2>1, <3>2 DEF ProcessState
    <3>6. /\ server'[s].state = server[s].state
          /\ server'[s].state # "saved" => server'[s].text = server[s].text
      BY <2>6, <3>1, <3>4, <3>5
    <3>7. "saved" \notin Unsettled
      BY DEF Unsettled
    <3> QED BY <2>1, <2>3, <3>1, <3>6, <3>7
  <2> QED BY <2>7, <2>8
<1> QED BY <1>1, EditsHold, PTL DEF Spec, TakeoverNoteIsTrue
=============================================================================
