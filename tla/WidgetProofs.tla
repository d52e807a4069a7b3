----------------------------- MODULE WidgetProofs -----------------------------
(***************************************************************************)
(* What each of the admin's hooks keeps, for any number of clicks, pastes, *)
(* keystrokes, panels, flashes and days: its invariant, and that the       *)
(* invariant implies what the part promises.                               *)
(***************************************************************************)
EXTENDS Accordion, MCWidgets, FiniteSetTheorems, SequenceTheorems, TLAPS

-----------------------------------------------------------------------------
(* Flashes.                                                                *)

FlashLooks == Messages \union {Flash!NoFlash}

\* The last render on its way, or what is drawn, is what the server says; an
\* element in plain sight is timed or somebody is at it; one that is hidden is
\* being cleared.
FlashInv ==
    /\ flash \in FlashLooks /\ drawn \in FlashLooks /\ renders \in Seq(FlashLooks)
    /\ clears \in Nat
    /\ flash = IF renders = <<>> THEN drawn ELSE renders[Len(renders)]
    /\ ticking => over = {} /\ drawn # Flash!NoFlash
    /\ over # {} => drawn # Flash!NoFlash
    /\ drawn # Flash!NoFlash /\ ~hidden => ticking \/ over # {}
    /\ hidden => drawn # Flash!NoFlash
    /\ hidden => clears > 0 \/ \E i \in 1..Len(renders) : renders[i] = Flash!NoFlash

LEMMA FlashInitInv == Flash!FlashInit => FlashInv
BY DEF Flash!FlashInit, FlashInv, FlashLooks

\* What the server says changes only with a render that says it.
LEMMA FlashRendered ==
    ASSUME FlashInv, NEW message \in FlashLooks, Flash!Render(message),
           UNCHANGED <<drawn, hidden, ticking, over>>, clears' \in Nat,
           clears' = clears \/ message = Flash!NoFlash
    PROVE  FlashInv'
<1>1. /\ renders \in Seq(FlashLooks) /\ flash \in FlashLooks /\ drawn \in FlashLooks
      /\ flash = IF renders = <<>> THEN drawn ELSE renders[Len(renders)]
  BY DEF FlashInv
<1>2. CASE message = flash
  <2>1. flash' = flash /\ renders' = renders
    BY <1>2 DEF Flash!Render
  <2>2. hidden => clears' > 0 \/ \E i \in 1..Len(renders) : renders[i] = Flash!NoFlash
    <3>1. CASE clears' = clears
      BY <3>1 DEF FlashInv
    <3>2. CASE message = Flash!NoFlash
      <4>1. hidden => renders # <<>>
        BY <1>1, <1>2, <3>2 DEF FlashInv
      <4>2. renders # <<>> => Len(renders) \in 1..Len(renders)
        BY <1>1, LenProperties, EmptySeq
      <4> QED BY <1>1, <1>2, <3>2, <4>1, <4>2
    <3> QED BY <3>1, <3>2
  <2> QED BY <2>1, <2>2 DEF FlashInv
<1>3. CASE message # flash
  <2>1. flash' = message /\ renders' = Append(renders, message)
    BY <1>3 DEF Flash!Render
  <2>2. /\ renders' \in Seq(FlashLooks) /\ Len(renders') = Len(renders) + 1 /\ renders' # <<>>
        /\ renders'[Len(renders')] = message /\ Len(renders) \in Nat
        /\ \A i \in 1..Len(renders) : renders'[i] = renders[i]
    BY <1>1, <2>1, AppendProperties, LenProperties
  <2>3. hidden => clears' > 0 \/ \E i \in 1..Len(renders') : renders'[i] = Flash!NoFlash
    <3>1. CASE clears' = clears
      <4>1. 1..Len(renders) \subseteq 1..Len(renders')
        BY <2>2
      <4> QED BY <2>2, <3>1, <4>1 DEF FlashInv
    <3>2. CASE message = Flash!NoFlash
      <4>1. Len(renders') \in 1..Len(renders')
        BY <2>2
      <4> QED BY <2>2, <3>2, <4>1
    <3> QED BY <3>1, <3>2
  <2> QED BY <2>1, <2>2, <2>3 DEF FlashInv
<1> QED BY <1>2, <1>3

LEMMA FlashDrawn ==
    ASSUME FlashInv, Flash!Draw
    PROVE  FlashInv'
<1>1. /\ renders \in Seq(FlashLooks) /\ renders # <<>> /\ renders' = Tail(renders)
      /\ flash = renders[Len(renders)] /\ drawn' = Head(renders) /\ flash' = flash
      /\ clears' = clears /\ clears \in Nat /\ flash \in FlashLooks
  BY DEF FlashInv, Flash!Draw
<1>2. /\ renders' \in Seq(FlashLooks) /\ drawn' \in FlashLooks /\ drawn' = renders[1]
      /\ Len(renders) \in Nat /\ Len(renders) > 0
      /\ Len(renders') = Len(renders) - 1
      /\ \A i \in 1..Len(renders') : renders'[i] = renders[i + 1]
  BY <1>1, HeadTailProperties, LenProperties, EmptySeq
<1>3. flash' = IF renders' = <<>> THEN drawn' ELSE renders'[Len(renders')]
  <2>1. CASE renders' = <<>>
    <3>1. Len(renders) = 1
      BY <1>2, <2>1
    <3> QED BY <1>1, <1>2, <2>1, <3>1
  <2>2. CASE renders' # <<>>
    <3>1. Len(renders') \in 1..Len(renders') /\ Len(renders') + 1 = Len(renders)
      BY <1>2, <2>2, EmptySeq, LenProperties
    <3> QED BY <1>1, <1>2, <2>2, <3>1
  <2> QED BY <2>1, <2>2
<1>4. CASE drawn = Flash!NoFlash \/ drawn' = Flash!NoFlash
  <2>1. ticking' = (drawn' # Flash!NoFlash) /\ hidden' = FALSE /\ over' = {}
    BY <1>4 DEF Flash!Draw
  <2> QED BY <1>1, <1>2, <1>3, <2>1 DEF FlashInv
<1>5. CASE drawn # Flash!NoFlash /\ drawn' # Flash!NoFlash
  <2>1. ticking' = (over = {}) /\ hidden' = hidden /\ over' = over
    BY <1>5 DEF Flash!Draw, Flash!Started
  <2>2. hidden => clears > 0 \/ \E i \in 1..Len(renders') : renders'[i] = Flash!NoFlash
    <3> SUFFICES ASSUME NEW i \in 1..Len(renders), renders[i] = Flash!NoFlash
                 PROVE  \E j \in 1..Len(renders') : renders'[j] = Flash!NoFlash
      BY DEF FlashInv
    <3>1. i # 1
      BY <1>2, <1>5
    <3>2. i - 1 \in 1..Len(renders') /\ (i - 1) + 1 = i
      BY <1>2, <3>1
    <3> QED BY <1>2, <3>2
  <2> QED BY <1>1, <1>2, <1>3, <1>5, <2>1, <2>2 DEF FlashInv
<1> QED BY <1>4, <1>5

LEMMA FlashStep ==
    ASSUME FlashInv, [Flash!FlashNext]_flashVars
    PROVE  FlashInv'
<1>1. CASE Flash!PutFlash
  <2>1. PICK message \in Messages : Flash!Render(message)
    BY <1>1 DEF Flash!PutFlash
  <2>2. message \in FlashLooks /\ clears' = clears /\ clears' \in Nat
    BY <1>1 DEF Flash!PutFlash, FlashLooks, FlashInv
  <2> QED BY <1>1, <2>1, <2>2, FlashRendered DEF Flash!PutFlash
<1>2. CASE Flash!ClearFlash
  <2>1. Flash!NoFlash \in FlashLooks /\ clears' \in Nat
    BY <1>2 DEF FlashLooks, Flash!ClearFlash, FlashInv
  <2> QED BY <1>2, <2>1, FlashRendered DEF Flash!ClearFlash
<1>3. CASE Flash!Draw
  BY <1>3, FlashDrawn
<1>4. CASE Flash!Enter
  <2>1. over' # {} /\ ticking' = FALSE
    BY <1>4 DEF Flash!Enter
  <2> QED BY <1>4, <2>1 DEF Flash!Enter, FlashInv
<1>5. CASE Flash!Leave
  BY <1>5 DEF Flash!Leave, Flash!Started, FlashInv
<1>6. CASE Flash!Dismiss \/ Flash!Click
  <2>1. /\ hidden' = TRUE /\ clears' = clears + 1 /\ drawn # Flash!NoFlash
        /\ UNCHANGED <<flash, renders, drawn, over>>
        /\ ticking' => over = {}
    BY <1>6 DEF Flash!Dismiss, Flash!Click, Flash!Close, FlashInv
  <2>2. clears' \in Nat /\ clears' > 0
    BY <2>1 DEF FlashInv
  <2> QED BY <2>1, <2>2 DEF FlashInv
<1>7. CASE UNCHANGED flashVars
  BY <1>7 DEF flashVars, FlashInv
<1> QED BY <1>1, <1>2, <1>3, <1>4, <1>5, <1>6, <1>7 DEF Flash!FlashNext

\* What the server shows is on the page in plain sight and will be taken down,
\* but not under anybody's pointer.
LEMMA FlashTellsTheTruth == FlashInv => Flash!ShownUntilItsTime /\ Flash!NobodyIsCutShort
<1> SUFFICES ASSUME FlashInv PROVE Flash!ShownUntilItsTime /\ Flash!NobodyIsCutShort
  OBVIOUS
<1>1. ASSUME flash # Flash!NoFlash, renders = <<>>, clears = 0
      PROVE  drawn = flash /\ ~hidden /\ (ticking \/ over # {})
  <2>1. drawn = flash
    BY <1>1 DEF FlashInv
  <2>2. ~hidden
    BY <1>1 DEF FlashInv
  <2> QED BY <1>1, <2>1, <2>2 DEF FlashInv
<1> QED BY <1>1 DEF Flash!ShownUntilItsTime, Flash!NobodyIsCutShort, FlashInv

-----------------------------------------------------------------------------
(* Sections.                                                               *)

LEMMA FoldStep ==
    ASSUME TheToggleIsKept, [AccordionNext]_accordionVars
    PROVE  TheToggleIsKept'
<1>1. CASE Toggle
  BY <1>1 DEF Toggle, Set, TheToggleIsKept
<1>2. CASE ToggleEvent
  BY <1>2 DEF ToggleEvent, TheToggleIsKept
<1>3. ASSUME NEW value, Patched(value)
      PROVE  TheToggleIsKept'
  <2>1. CASE value = rendered
    <3>1. wanted' = wanted /\ early' = (early \/ seen # Say(value))
      BY <1>3, <2>1 DEF Patched
    <3>2. seen = Say(value) => open' = open
      BY <1>3 DEF Patched, Set
    <3> QED BY <3>1, <3>2 DEF TheToggleIsKept
  <2>2. CASE value # rendered
    <3>1. wanted' = value /\ early' = (seen = Say(value))
      BY <1>3, <2>2 DEF Patched
    <3>2. seen # Say(value) => open' = value
      BY <1>3 DEF Patched, Set
    <3> QED BY <3>1, <3>2 DEF TheToggleIsKept
  <2> QED BY <2>1, <2>2
<1>4. CASE UNCHANGED accordionVars
  BY <1>4 DEF accordionVars, TheToggleIsKept
<1> QED BY <1>1, <1>2, <1>3, <1>4 DEF AccordionNext, Patch, ForceSection

-----------------------------------------------------------------------------
(* The calendar.                                                           *)

\* A chip about which the page is sure is where the moves of it add up to, or one
\* move from there.
CalInv ==
    /\ messages \in Nat
    /\ Cal!StaleMeansRequery
    /\ ~unsure => (dayMoves = <<>> /\ due = meant) \/ dayMoves = <<meant>>

LEMMA CalInitInv == Cal!CalendarInit => CalInv
BY DEF Cal!CalendarInit, CalInv, Cal!StaleMeansRequery

LEMMA CalRescheduled ==
    ASSUME CalInv, NEW day, Cal!Reschedule(day), ~Cal!Behind => meant' = day
    PROVE  CalInv'
<1>1. /\ dayMoves' = Append(dayMoves, day) /\ unsure' = (unsure \/ Cal!Behind)
      /\ UNCHANGED <<due, events, messages, requery>>
  BY DEF Cal!Reschedule
<1>2. ~unsure' => dayMoves = <<>> /\ meant' = day
  BY <1>1 DEF Cal!Behind
<1>3. ~unsure' => dayMoves' = <<meant'>>
  <2>1. dayMoves = <<>> => dayMoves' = <<day>>
    BY <1>1
  <2> QED BY <1>2, <2>1
<1> QED BY <1>1, <1>3 DEF CalInv, Cal!StaleMeansRequery

LEMMA CalStep ==
    ASSUME CalInv, [Cal!CalendarNext]_calVars
    PROVE  CalInv'
<1>1. CASE Cal!DropChip
  BY <1>1, CalRescheduled DEF Cal!DropChip
<1>2. CASE Cal!Nudge
  <2>1. PICK stride \in {-1, 1, 2} : meant' = meant + stride /\ Cal!Reschedule(dated + stride)
    BY <1>2 DEF Cal!Nudge
  <2>2. CASE unsure \/ Cal!Behind
    <3>1. unsure' /\ UNCHANGED <<due, events, messages, requery>>
      BY <2>1, <2>2 DEF Cal!Reschedule
    <3> QED BY <3>1 DEF CalInv, Cal!StaleMeansRequery
  <2>3. CASE ~unsure /\ ~Cal!Behind
    <3>1. meant = dated
      BY <2>3 DEF CalInv, Cal!Behind
    <3>2. meant' = dated + stride
      BY <2>1, <3>1
    <3> DEFINE day == dated + stride
    <3>3. Cal!Reschedule(day) /\ meant' = day
      BY <2>1, <3>2
    <3> HIDE DEF day
    <3> QED BY <3>3, CalRescheduled
  <2> QED BY <2>2, <2>3
<1>3. CASE Cal!HandleMove
  <2> DEFINE day == Head(dayMoves)
  <2>1. CASE Cal!Accepted(day)
    <3>1. /\ due' = day /\ messages' = messages + 1 /\ unsure' = unsure
          /\ dayMoves # <<>> /\ dayMoves' = Tail(dayMoves) /\ meant' = meant
      BY <1>3, <2>1 DEF Cal!HandleMove
    <3>2. messages' \in Nat /\ messages' > 0
      BY <3>1 DEF CalInv
    <3>3. ~unsure => dayMoves' = <<>> /\ day = meant
      BY <3>1 DEF CalInv
    <3> QED BY <3>1, <3>2, <3>3 DEF CalInv, Cal!StaleMeansRequery
  <2>2. CASE ~Cal!Accepted(day)
    <3>1. unsure' /\ events' = due /\ due' = due /\ messages' = messages
      BY <1>3, <2>2 DEF Cal!HandleMove, Cal!Reload
    <3> QED BY <3>1 DEF CalInv, Cal!StaleMeansRequery
  <2> QED BY <2>1, <2>2
<1>4. CASE Cal!OthersMove
  <2>1. /\ due' = meant' /\ messages' = messages + 1 /\ dayMoves' = dayMoves
        /\ unsure' = (unsure \/ dayMoves # <<>>)
    BY <1>4 DEF Cal!OthersMove
  <2>2. messages' \in Nat /\ messages' > 0
    BY <2>1 DEF CalInv
  <2> QED BY <2>1, <2>2 DEF CalInv, Cal!StaleMeansRequery
<1>5. CASE Cal!CalendarChanged
  <2>1. messages' \in Nat
    BY <1>5 DEF Cal!CalendarChanged, CalInv
  <2> QED BY <1>5, <2>1 DEF Cal!CalendarChanged, CalInv, Cal!StaleMeansRequery
<1>6. CASE Cal!RequeryCalendar
  BY <1>6 DEF Cal!RequeryCalendar, Cal!Reload, CalInv, Cal!StaleMeansRequery
<1>7. CASE Cal!DrawGrid
  <2>1. UNCHANGED <<due, events, messages, requery, dayMoves>>
    BY <1>7 DEF Cal!DrawGrid
  <2>2. \/ dayMoves = <<>> /\ meant' = due
        \/ meant' = meant /\ unsure' = unsure
    BY <1>7 DEF Cal!DrawGrid
  <2> QED BY <2>1, <2>2 DEF CalInv, Cal!StaleMeansRequery
<1>8. CASE UNCHANGED calVars
  BY <1>8 DEF calVars, CalInv, Cal!StaleMeansRequery
<1> QED BY <1>1, <1>2, <1>3, <1>4, <1>5, <1>6, <1>7, <1>8 DEF Cal!CalendarNext

LEMMA CalAddsUp == CalInv => Cal!MovesAddUp /\ Cal!StaleMeansRequery
BY DEF CalInv, Cal!MovesAddUp

-----------------------------------------------------------------------------
(* The tag picker.                                                         *)

\* What is left of a sequence when its head is taken.
LEMMA TailItems ==
    ASSUME NEW S, NEW s \in Seq(S), s # <<>>
    PROVE  /\ Tail(s) \in Seq(S) /\ Head(s) = s[1]
           /\ Len(s) \in Nat /\ Len(s) > 0 /\ Len(Tail(s)) = Len(s) - 1
           /\ \A i \in 1..Len(Tail(s)) : i + 1 \in 1..Len(s) /\ Tail(s)[i] = s[i + 1]
           /\ \A i \in 1..Len(s) : i # 1 => i - 1 \in 1..Len(Tail(s)) /\ Tail(s)[i - 1] = s[i]
<1>1. /\ Tail(s) \in Seq(S) /\ Head(s) = s[1]
      /\ Len(s) \in Nat /\ Len(s) > 0 /\ Len(Tail(s)) = Len(s) - 1
      /\ \A i \in 1..Len(Tail(s)) : Tail(s)[i] = s[i + 1]
  BY HeadTailProperties, LenProperties, EmptySeq
<1>2. ASSUME NEW i \in 1..Len(s), i # 1
      PROVE  i - 1 \in 1..Len(Tail(s)) /\ Tail(s)[i - 1] = s[i]
  <2>1. i - 1 \in 1..Len(Tail(s)) /\ (i - 1) + 1 = i
    BY <1>1, <1>2
  <2> QED BY <1>1, <2>1
<1> QED BY <1>1, <1>2

TagAsks == [op : {"filter_tags", "create_tag"}, q : Names \union {Tag!Nothing}, cut : BOOLEAN]
IsQuery(k) == asks[k].op = "filter_tags"
LastQuery(k) == IsQuery(k) /\ \A j \in (k + 1)..Len(asks) : ~IsQuery(j)

\* While no query crosses a create, queries go before creates, and one that is
\* answered leaves only creates behind it; with nothing pending at the page, the
\* last query on its way is for what the box says, or the one before was.
TagInv ==
    /\ asks \in Seq(TagAsks) /\ answers \in Seq({"tag-filter-reset"}) /\ timer \in BOOLEAN
    /\ box \in Names \union {Tag!Nothing}
    /\ ~crossed => \A k \in 1..Len(asks) : \A j \in 1..(k - 1) : IsQuery(k) => IsQuery(j)
    /\ ~crossed /\ answers # <<>> =>
          listed = Tag!Nothing /\ \A k \in 1..Len(asks) : ~IsQuery(k)
    /\ ~timer /\ ~crossed /\ answers = <<>>
       /\ (\A k \in 1..Len(asks) : IsQuery(k) \/ ~asks[k].cut) =>
          /\ \A k \in 1..Len(asks) : LastQuery(k) => asks[k].q = box
          /\ (\A k \in 1..Len(asks) : ~IsQuery(k)) => listed = box \/ dropped

LEMMA TagInitInv == Tag!TagInit => TagInv
<1> SUFFICES ASSUME Tag!TagInit PROVE TagInv
  OBVIOUS
<1>1. /\ asks = <<>> /\ answers = <<>> /\ timer = FALSE /\ listed = box
  BY DEF Tag!TagInit
<1>2. asks \in Seq(TagAsks) /\ answers \in Seq({"tag-filter-reset"}) /\ Len(asks) = 0
  BY <1>1
<1>3. 1..Len(asks) = {}
  BY <1>2
<1>4. box \in Names \union {Tag!Nothing}
  BY DEF Tag!TagInit
<1> QED BY <1>1, <1>2, <1>3, <1>4 DEF TagInv

\* An ask joins the others.
LEMMA TagAsked ==
    ASSUME asks \in Seq(TagAsks), NEW ask \in TagAsks, asks' = Append(asks, ask)
    PROVE  /\ asks' \in Seq(TagAsks) /\ Len(asks') = Len(asks) + 1 /\ Len(asks) \in Nat
           /\ asks'[Len(asks')] = ask
           /\ \A k \in 1..Len(asks) : asks'[k] = asks[k]
           /\ \A k \in 1..Len(asks') : k = Len(asks') \/ k \in 1..Len(asks)
BY AppendProperties, LenProperties

LEMMA TagDebounced ==
    ASSUME TagInv, Tag!Debounced
    PROVE  TagInv'
<1> DEFINE ask == [op |-> "filter_tags", q |-> box, cut |-> FALSE]
<1>1. /\ asks' = Append(asks, ask) /\ crossed' = Tag!CreateUnanswered
      /\ timer' = FALSE /\ UNCHANGED <<box, answers, listed, dropped>>
  BY DEF Tag!Debounced
<1>2. ask \in TagAsks /\ ask.op = "filter_tags" /\ ask.q = box
  BY DEF TagAsks, TagInv
<1>3. asks \in Seq(TagAsks) /\ answers \in Seq({"tag-filter-reset"})
  BY DEF TagInv
<1> HIDE DEF ask
<1>4. /\ asks' \in Seq(TagAsks) /\ Len(asks') = Len(asks) + 1 /\ Len(asks) \in Nat
      /\ asks'[Len(asks')] = ask
      /\ \A k \in 1..Len(asks) : asks'[k] = asks[k]
      /\ \A k \in 1..Len(asks') : k = Len(asks') \/ k \in 1..Len(asks)
  BY <1>1, <1>2, <1>3, TagAsked
<1>5. ~crossed' => answers = <<>> /\ \A k \in 1..Len(asks) : IsQuery(k)
  <2> SUFFICES ASSUME ~crossed' PROVE answers = <<>> /\ \A k \in 1..Len(asks) : IsQuery(k)
    OBVIOUS
  <2>1. \A k \in DOMAIN asks : asks[k].op # "create_tag"
    BY <1>1 DEF Tag!CreateUnanswered
  <2>2. "tag-filter-reset" \notin {answers[i] : i \in DOMAIN answers}
    BY <1>1 DEF Tag!CreateUnanswered, Tag!ToSet
  <2>3. answers = <<>>
    <3>1. answers # <<>> => 1 \in DOMAIN answers /\ answers[1] \in {"tag-filter-reset"}
      BY <1>3, LenProperties, EmptySeq, ElementOfSeq
    <3> QED BY <2>2, <3>1
  <2>4. ASSUME NEW k \in 1..Len(asks)
        PROVE  IsQuery(k)
    <3>1. k \in DOMAIN asks /\ asks[k] \in TagAsks
      BY <1>3, LenProperties, ElementOfSeq
    <3>2. asks[k].op \in {"filter_tags", "create_tag"}
      BY <3>1 DEF TagAsks
    <3> QED BY <2>1, <3>1, <3>2 DEF IsQuery
  <2> QED BY <2>3, <2>4
<1>6. ~crossed' => \A k \in 1..Len(asks') : IsQuery(k)'
  BY <1>2, <1>4, <1>5 DEF IsQuery
<1>7. ~crossed' => \A k \in 1..Len(asks') : \A j \in 1..(k - 1) : IsQuery(j)'
  <2> SUFFICES ASSUME ~crossed', NEW k \in 1..Len(asks'), NEW j \in 1..(k - 1)
               PROVE  IsQuery(j)'
    OBVIOUS
  <2>1. j \in 1..Len(asks')
    BY <1>4
  <2> QED BY <1>6, <2>1
<1>8. Len(asks') \in 1..Len(asks')
  BY <1>4
<1>9. ~crossed' => \A k \in 1..Len(asks') : LastQuery(k)' => asks'[k].q = box'
  <2> SUFFICES ASSUME ~crossed', NEW k \in 1..Len(asks'), LastQuery(k)'
               PROVE  asks'[k].q = box'
    OBVIOUS
  <2>1. k = Len(asks')
    <3>1. k # Len(asks') => Len(asks') \in (k + 1)..Len(asks')
      BY <1>4
    <3> QED BY <1>6, <1>8, <3>1 DEF LastQuery
  <2> QED BY <1>1, <1>2, <1>4, <2>1
<1> QED BY <1>1, <1>3, <1>4, <1>5, <1>6, <1>7, <1>8, <1>9 DEF TagInv

LEMMA TagEntered ==
    ASSUME TagInv, Tag!Enter
    PROVE  TagInv'
<1> DEFINE ask == [op |-> "create_tag", q |-> box, cut |-> timer]
<1>1. /\ asks' = Append(asks, ask)
      /\ timer' = FALSE /\ UNCHANGED <<box, answers, listed, dropped, crossed>>
  BY DEF Tag!Enter
<1>2. ask \in TagAsks /\ ask.op # "filter_tags" /\ ask.cut = timer
  BY DEF TagAsks, TagInv
<1>3. asks \in Seq(TagAsks) /\ answers \in Seq({"tag-filter-reset"})
  BY DEF TagInv
<1> HIDE DEF ask
<1>4. /\ asks' \in Seq(TagAsks) /\ Len(asks') = Len(asks) + 1 /\ Len(asks) \in Nat
      /\ asks'[Len(asks')] = ask
      /\ \A k \in 1..Len(asks) : asks'[k] = asks[k]
      /\ \A k \in 1..Len(asks') : k = Len(asks') \/ k \in 1..Len(asks)
  BY <1>1, <1>2, <1>3, TagAsked
<1>5. /\ \A k \in 1..Len(asks) : IsQuery(k)' <=> IsQuery(k)
      /\ \A k \in 1..Len(asks') : IsQuery(k)' => k \in 1..Len(asks)
  BY <1>2, <1>4 DEF IsQuery
<1>6. ~crossed' => \A k \in 1..Len(asks') : \A j \in 1..(k - 1) : IsQuery(k)' => IsQuery(j)'
  <2> SUFFICES ASSUME ~crossed', NEW k \in 1..Len(asks'), NEW j \in 1..(k - 1), IsQuery(k)'
               PROVE  IsQuery(j)'
    OBVIOUS
  <2>1. k \in 1..Len(asks)
    BY <1>5
  <2>2. j \in 1..Len(asks)
    BY <1>4, <2>1
  <2>3. IsQuery(k) => IsQuery(j)
    BY <1>1, <2>1 DEF TagInv
  <2> QED BY <1>5, <2>1, <2>2, <2>3
<1>7. /\ (\A k \in 1..Len(asks) : ~IsQuery(k)) <=> \A k \in 1..Len(asks') : ~IsQuery(k)'
      /\ 1..Len(asks) \subseteq 1..Len(asks') /\ Len(asks') \in 1..Len(asks')
  <2>1. 1..Len(asks) \subseteq 1..Len(asks') /\ Len(asks') \in 1..Len(asks')
    BY <1>4
  <2> QED BY <1>5, <2>1
<1>8. ASSUME ~crossed', answers' = <<>>,
             \A k \in 1..Len(asks') : IsQuery(k)' \/ ~asks'[k].cut
      PROVE  /\ \A k \in 1..Len(asks') : LastQuery(k)' => asks'[k].q = box'
             /\ (\A k \in 1..Len(asks') : ~IsQuery(k)') => listed' = box' \/ dropped'
  <2>1. ~timer
    <3>1. asks'[Len(asks')].op # "filter_tags" /\ asks'[Len(asks')].cut = timer
      BY <1>2, <1>4
    <3>2. Len(asks') \in 1..Len(asks')
      BY <1>7
    <3> QED BY <1>8, <3>1, <3>2 DEF IsQuery
  <2>2. \A k \in 1..Len(asks) : IsQuery(k) \/ ~asks[k].cut
    BY <1>4, <1>5, <1>7, <1>8
  <2>3. /\ \A k \in 1..Len(asks) : LastQuery(k) => asks[k].q = box
        /\ (\A k \in 1..Len(asks) : ~IsQuery(k)) => listed = box \/ dropped
    BY <1>1, <1>8, <2>1, <2>2 DEF TagInv
  <2>4. ASSUME NEW k \in 1..Len(asks'), LastQuery(k)'
        PROVE  asks'[k].q = box'
    <3>1. k \in 1..Len(asks) /\ IsQuery(k)
      BY <1>5, <2>4 DEF LastQuery
    <3>2. (k + 1)..Len(asks) \subseteq (k + 1)..Len(asks')
      BY <1>4, <3>1
    <3>3. \A j \in (k + 1)..Len(asks) : j \in 1..Len(asks)
      BY <1>4, <3>1
    <3>4. LastQuery(k)
      BY <1>5, <2>4, <3>1, <3>2, <3>3 DEF LastQuery
    <3> QED BY <1>1, <1>4, <2>3, <3>1, <3>4
  <2> QED BY <1>1, <1>7, <2>3, <2>4
<1>9. answers' # <<>> /\ ~crossed' => listed' = Tag!Nothing /\ \A k \in 1..Len(asks') : ~IsQuery(k)'
  BY <1>1, <1>7 DEF TagInv
<1> QED BY <1>1, <1>3, <1>4, <1>6, <1>8, <1>9 DEF TagInv

\* The first ask is taken: the others are as they were.
LEMMA TagTaken ==
    ASSUME TagInv, asks # <<>>, asks' = Tail(asks)
    PROVE  /\ asks' \in Seq(TagAsks) /\ Head(asks) = asks[1] /\ 1 \in 1..Len(asks)
           /\ \A k \in 1..Len(asks') : /\ k + 1 \in 1..Len(asks) /\ asks'[k] = asks[k + 1]
                                       /\ IsQuery(k)' = IsQuery(k + 1)
                                       /\ LastQuery(k)' = LastQuery(k + 1)
           /\ \A k \in 1..Len(asks) : k # 1 => k - 1 \in 1..Len(asks') /\ asks'[k - 1] = asks[k]
           /\ \A k \in 1..Len(asks') : \A j \in 1..(k - 1) : j + 1 \in 1..((k + 1) - 1)
<1>1. asks \in Seq(TagAsks)
  BY DEF TagInv
<1>2. /\ asks' \in Seq(TagAsks) /\ Head(asks) = asks[1]
      /\ Len(asks) \in Nat /\ Len(asks) > 0 /\ Len(asks') = Len(asks) - 1
      /\ \A i \in 1..Len(asks') : i + 1 \in 1..Len(asks) /\ asks'[i] = asks[i + 1]
      /\ \A i \in 1..Len(asks) : i # 1 => i - 1 \in 1..Len(asks') /\ asks'[i - 1] = asks[i]
  BY <1>1, TailItems
<1>3. \A k \in 1..Len(asks') : IsQuery(k)' = IsQuery(k + 1)
  BY <1>2 DEF IsQuery
<1>4. ASSUME NEW k \in 1..Len(asks')
      PROVE  LastQuery(k)' = LastQuery(k + 1)
  <2>1. ASSUME NEW j \in (k + 1)..Len(asks')
        PROVE  j \in 1..Len(asks') /\ j + 1 \in ((k + 1) + 1)..Len(asks)
    BY <1>2
  <2>2. ASSUME NEW j \in ((k + 1) + 1)..Len(asks)
        PROVE  j - 1 \in (k + 1)..Len(asks') /\ j - 1 \in 1..Len(asks') /\ (j - 1) + 1 = j
    BY <1>2
  <2>3. (\A j \in (k + 1)..Len(asks') : ~IsQuery(j)')
           = (\A j \in ((k + 1) + 1)..Len(asks) : ~IsQuery(j))
    BY <1>3, <2>1, <2>2
  <2> QED BY <1>3, <2>3 DEF LastQuery
<1> QED BY <1>2, <1>3, <1>4

\* Any step that takes the first ask keeps what is said of crossing.
LEMMA TagTakenUncrossed ==
    ASSUME TagInv, asks # <<>>, asks' = Tail(asks), crossed' = crossed
    PROVE  ~crossed' => \A k \in 1..Len(asks') : \A j \in 1..(k - 1) : IsQuery(k)' => IsQuery(j)'
<1> SUFFICES ASSUME ~crossed', NEW k \in 1..Len(asks'), NEW j \in 1..(k - 1), IsQuery(k)'
             PROVE  IsQuery(j)'
  OBVIOUS
<1>1. k + 1 \in 1..Len(asks) /\ IsQuery(k + 1) /\ j + 1 \in 1..((k + 1) - 1)
  BY TagTaken
<1>2. j \in 1..Len(asks') /\ (IsQuery(j)' = IsQuery(j + 1))
  <2>1. asks' \in Seq(TagAsks)
    BY TagTaken
  <2>2. Len(asks') \in Nat
    BY <2>1, LenProperties
  <2>3. j \in 1..Len(asks')
    BY <2>2
  <2> QED BY <2>3, TagTaken
<1> QED BY <1>1, <1>2 DEF TagInv

LEMMA TagFiltered ==
    ASSUME TagInv, Tag!FilterTags
    PROVE  TagInv'
<1>1. /\ asks # <<>> /\ asks' = Tail(asks) /\ Head(asks).op = "filter_tags"
      /\ listed' = Head(asks).q
      /\ UNCHANGED <<box, timer, answers, crossed>>
  BY DEF Tag!FilterTags
<1>2. IsQuery(1) /\ 1 \in 1..Len(asks) /\ listed' = asks[1].q
  BY <1>1, TagTaken DEF IsQuery
<1>3. ~crossed => answers = <<>>
  BY <1>2 DEF TagInv
<1>4. ASSUME ~timer, ~crossed, \A k \in 1..Len(asks') : IsQuery(k)' \/ ~asks'[k].cut
      PROVE  /\ \A k \in 1..Len(asks') : LastQuery(k)' => asks'[k].q = box'
             /\ (\A k \in 1..Len(asks') : ~IsQuery(k)') => listed' = box' \/ dropped'
  <2>1. \A k \in 1..Len(asks) : IsQuery(k) \/ ~asks[k].cut
    <3> SUFFICES ASSUME NEW k \in 1..Len(asks), k # 1 PROVE IsQuery(k) \/ ~asks[k].cut
      BY <1>2
    <3>1. asks'[k - 1] = asks[k] /\ k - 1 \in 1..Len(asks')
      BY <1>1, TagTaken
    <3> QED BY <1>4, <3>1 DEF IsQuery
  <2>2. \A k \in 1..Len(asks) : LastQuery(k) => asks[k].q = box
    BY <1>3, <1>4, <2>1 DEF TagInv
  <2>3. \A k \in 1..Len(asks') : LastQuery(k)' => asks'[k].q = box'
    BY <1>1, <2>2, TagTaken
  <2>4. ASSUME \A k \in 1..Len(asks') : ~IsQuery(k)'
        PROVE  listed' = box'
    <3>1. ASSUME NEW j \in (1 + 1)..Len(asks)
          PROVE  ~IsQuery(j)
      <4>1. asks \in Seq(TagAsks)
        BY DEF TagInv
      <4>2. j \in 1..Len(asks) /\ j # 1
        BY <4>1, LenProperties
      <4>3. asks'[j - 1] = asks[j] /\ j - 1 \in 1..Len(asks')
        BY <1>1, <4>2, TagTaken
      <4> QED BY <2>4, <4>3 DEF IsQuery
    <3>2. LastQuery(1)
      BY <1>2, <3>1 DEF LastQuery
    <3> QED BY <1>1, <1>2, <2>2, <3>2
  <2> QED BY <2>3, <2>4
<1>5. ~crossed' => \A k \in 1..Len(asks') : \A j \in 1..(k - 1) : IsQuery(k)' => IsQuery(j)'
  BY <1>1, TagTakenUncrossed
<1>6. asks' \in Seq(TagAsks)
  BY <1>1, TagTaken
<1> QED BY <1>1, <1>3, <1>4, <1>5, <1>6 DEF TagInv

\* A create that is first, with nothing crossed, has only creates behind it.
LEMMA TagCreatesOnly ==
    ASSUME TagInv, asks # <<>>, Head(asks).op = "create_tag", ~crossed
    PROVE  \A k \in 1..Len(asks) : ~IsQuery(k)
<1>1. asks \in Seq(TagAsks)
  BY DEF TagInv
<1>2. ~IsQuery(1) /\ 1 \in 1..Len(asks)
  BY <1>1, TailItems DEF IsQuery
<1>3. ASSUME NEW k \in 1..Len(asks), k # 1
      PROVE  1 \in 1..(k - 1)
  BY <1>1, <1>3, LenProperties
<1> QED BY <1>2, <1>3 DEF TagInv

LEMMA TagMade ==
    ASSUME TagInv, Tag!CreateTag
    PROVE  TagInv'
<1>1. /\ asks # <<>> /\ asks' = Tail(asks) /\ Head(asks).op = "create_tag"
      /\ listed' = Tag!Nothing /\ answers' = Append(answers, "tag-filter-reset")
      /\ UNCHANGED <<box, timer, crossed>>
  BY DEF Tag!CreateTag
<1>2. answers' \in Seq({"tag-filter-reset"}) /\ answers' # <<>>
  <2>1. answers \in Seq({"tag-filter-reset"})
    BY DEF TagInv
  <2>2. answers' \in Seq({"tag-filter-reset"}) /\ Len(answers') = Len(answers) + 1 /\ Len(answers) \in Nat
    BY <1>1, <2>1, AppendProperties, LenProperties
  <2> QED BY <2>2, EmptySeq
<1>3. ~crossed => \A k \in 1..Len(asks') : ~IsQuery(k)'
  BY <1>1, TagCreatesOnly, TagTaken
<1>4. ~crossed' => \A k \in 1..Len(asks') : \A j \in 1..(k - 1) : IsQuery(k)' => IsQuery(j)'
  BY <1>1, TagTakenUncrossed
<1>5. asks' \in Seq(TagAsks)
  BY <1>1, TagTaken
<1> QED BY <1>1, <1>2, <1>3, <1>4, <1>5 DEF TagInv

LEMMA TagRefused ==
    ASSUME TagInv, Tag!RefuseTag
    PROVE  TagInv'
<1>1. /\ asks # <<>> /\ asks' = Tail(asks) /\ Head(asks).op = "create_tag"
      /\ dropped' = (dropped \/ Head(asks).cut)
      /\ UNCHANGED <<box, timer, answers, listed, crossed>>
  BY DEF Tag!RefuseTag
<1>2. ~crossed => (\A k \in 1..Len(asks) : ~IsQuery(k)) /\ \A k \in 1..Len(asks') : ~IsQuery(k)'
  BY <1>1, TagCreatesOnly, TagTaken
<1>3. ASSUME ~timer, ~crossed, answers = <<>>,
             \A k \in 1..Len(asks') : IsQuery(k)' \/ ~asks'[k].cut
      PROVE  listed' = box' \/ dropped'
  <2>1. CASE asks[1].cut
    BY <1>1, <2>1, TagTaken
  <2>2. CASE ~asks[1].cut
    <3>1. \A k \in 1..Len(asks) : ~asks[k].cut
      <4> SUFFICES ASSUME NEW k \in 1..Len(asks), k # 1 PROVE ~asks[k].cut
        BY <2>2
      <4>1. asks'[k - 1] = asks[k] /\ k - 1 \in 1..Len(asks')
        BY <1>1, TagTaken
      <4> QED BY <1>2, <1>3, <4>1
    <3> QED BY <1>1, <1>2, <1>3, <3>1 DEF TagInv
  <2> QED BY <2>1, <2>2
<1>4. ~crossed => \A k \in 1..Len(asks') : ~LastQuery(k)'
  BY <1>2 DEF LastQuery
<1>5. ~crossed' => \A k \in 1..Len(asks') : \A j \in 1..(k - 1) : IsQuery(k)' => IsQuery(j)'
  BY <1>1, TagTakenUncrossed
<1>6. asks' \in Seq(TagAsks)
  BY <1>1, TagTaken
<1> QED BY <1>1, <1>2, <1>3, <1>4, <1>5, <1>6 DEF TagInv

LEMMA TagReset ==
    ASSUME TagInv, Tag!Reset
    PROVE  TagInv'
<1>1. /\ answers # <<>> /\ answers' = Tail(answers) /\ box' = Tag!Nothing
      /\ UNCHANGED <<asks, listed, crossed>> /\ timer' = FALSE
  BY DEF Tag!Reset
<1>2. answers' \in Seq({"tag-filter-reset"})
  BY <1>1, HeadTailProperties DEF TagInv
<1>3. \A k \in 1..Len(asks) : /\ IsQuery(k)' = IsQuery(k)
                              /\ LastQuery(k)' = LastQuery(k)
  BY <1>1 DEF IsQuery, LastQuery
<1>4. ~crossed => listed = Tag!Nothing /\ \A k \in 1..Len(asks) : ~IsQuery(k)
  BY <1>1 DEF TagInv
<1>5. ~crossed => \A k \in 1..Len(asks) : ~LastQuery(k)
  BY <1>4 DEF LastQuery
<1>6. ~crossed' => \A k \in 1..Len(asks') : \A j \in 1..(k - 1) : IsQuery(k)' => IsQuery(j)'
  BY <1>1, <1>3, <1>4
<1> QED BY <1>1, <1>2, <1>3, <1>4, <1>5, <1>6 DEF TagInv

LEMMA TagStep ==
    ASSUME TagInv, [Tag!TagNext]_tagVars
    PROVE  TagInv'
<1>1. ASSUME UNCHANGED <<asks, answers, listed, crossed, dropped>>, timer' \in BOOLEAN,
             box' \in Names \union {Tag!Nothing}, timer' \/ (timer' = timer /\ box' = box)
      PROVE  TagInv'
  <2>1. \A k : IsQuery(k)' = IsQuery(k) /\ LastQuery(k)' = LastQuery(k)
    BY <1>1 DEF IsQuery, LastQuery
  <2>2. ~crossed' => \A k \in 1..Len(asks') : \A j \in 1..(k - 1) : IsQuery(k)' => IsQuery(j)'
    BY <1>1, <2>1 DEF TagInv
  <2>3. CASE timer'
    BY <1>1, <2>1, <2>2, <2>3 DEF TagInv
  <2>4. CASE timer' = timer /\ box' = box
    BY <1>1, <2>1, <2>2, <2>4 DEF TagInv
  <2> QED BY <1>1, <2>3, <2>4
<1>2. CASE Tag!Type
  <2>1. /\ UNCHANGED <<asks, answers, listed, crossed, dropped>> /\ timer' = TRUE
        /\ box' \in Names \union {Tag!Nothing}
    BY <1>2 DEF Tag!Type
  <2> QED BY <1>1, <2>1
<1>3. CASE Tag!Conflict
  <2>1. UNCHANGED <<asks, answers, listed, crossed, dropped, timer, box>>
    BY <1>3 DEF Tag!Conflict
  <2>2. timer \in BOOLEAN /\ box \in Names \union {Tag!Nothing}
    BY DEF TagInv
  <2> QED BY <1>1, <2>1, <2>2
<1>4. CASE UNCHANGED tagVars
  <2>1. UNCHANGED <<asks, answers, listed, crossed, dropped, timer, box>>
    BY <1>4 DEF tagVars
  <2>2. timer \in BOOLEAN /\ box \in Names \union {Tag!Nothing}
    BY DEF TagInv
  <2> QED BY <1>1, <2>1, <2>2
<1> QED BY <1>2, <1>3, <1>4, TagDebounced, TagEntered, TagFiltered, TagMade, TagRefused,
           TagReset DEF Tag!TagNext

\* With nothing pending, nothing crossed and nothing dropped, the tags listed are
\* those the box asks for.
LEMMA TagListed == TagInv => Tag!ListedIsWhatTheBoxSays
<1> SUFFICES ASSUME TagInv, ~timer, asks = <<>>, answers = <<>>, ~crossed
             PROVE  listed = box \/ dropped
  BY DEF Tag!ListedIsWhatTheBoxSays
<1>1. 1..Len(asks) = {}
  OBVIOUS
<1> QED BY <1>1 DEF TagInv

-----------------------------------------------------------------------------
(* Push subscriptions.                                                     *)

PushPages == [key : Nat, on : BOOLEAN]
PushCalls == [step : {"sync", "register", "drop", "subscribe", "disable"}, key : Nat]
PushEvents == [kind : {"on", "off", "unsupported", "denied", "failed", "subscribed", "unsubscribed"},
               endpoint : Nat]
HeldFor(key) == subscription = Push!NoEndpoint \/ made[subscription] = key

\* The endpoints that rows and reports name were made, and each has one row.
PushRecords ==
    /\ siteKey \in Nat /\ pushView \in PushPages /\ pushPage \in PushPages
    /\ made \in Seq(Nat) /\ subscription \in 0..Len(made)
    /\ tasks \in Seq(PushCalls) /\ inbox \in Seq(PushEvents)
    /\ \A row \in rows : row.endpoint \in 1..Len(made)
    /\ \A row \in rows, other \in rows : row.endpoint = other.endpoint => row = other
    /\ \A k \in 1..Len(inbox) : inbox[k].kind = "subscribed" => inbox[k].endpoint \in 1..Len(made)

\* What holds while nobody clicks ahead: one call or one report is under way, from
\* a page that shows what the view says, and it is about the key of that page.
PushCalm ==
    /\ \A row \in rows : row.key = made[row.endpoint]
    /\ pushView.on => HeldFor(pushView.key)
    /\ Len(tasks) + Len(inbox) <= 1
    /\ tasks # <<>> \/ inbox # <<>> => pushPage = pushView
    /\ \A k \in 1..Len(tasks) : tasks[k].step \in {"drop", "subscribe"} => tasks[k].key = pushView.key
    /\ \A k \in 1..Len(inbox) :
          /\ inbox[k].kind = "subscribed" => made[inbox[k].endpoint] = pushView.key
          /\ inbox[k].kind \in {"subscribed", "on"} => HeldFor(pushView.key)

PushInv == PushRecords /\ (~rushed => PushCalm)

LEMMA PushInitInv == Push!PushInit => PushInv
<1> SUFFICES ASSUME Push!PushInit PROVE PushInv
  OBVIOUS
<1>1. /\ siteKey = 1 /\ rows = {} /\ made = <<>> /\ subscription = 0 /\ tasks = <<>> /\ inbox = <<>>
      /\ pushView = [key |-> 1, on |-> FALSE] /\ pushPage = pushView
  BY DEF Push!PushInit, Push!Assigns, Push!NoEndpoint
<1>2. pushView \in PushPages /\ pushView.on = FALSE
  BY <1>1 DEF PushPages
<1>3. /\ made \in Seq(Nat) /\ tasks \in Seq(PushCalls) /\ inbox \in Seq(PushEvents)
      /\ Len(made) = 0 /\ Len(tasks) = 0 /\ Len(inbox) = 0
  BY <1>1
<1>4. 1..Len(tasks) = {} /\ 1..Len(inbox) = {} /\ subscription \in 0..Len(made)
  BY <1>1, <1>3
<1>5. PushRecords
  BY <1>1, <1>2, <1>3, <1>4 DEF PushRecords
<1>6. PushCalm
  BY <1>1, <1>2, <1>3, <1>4 DEF PushCalm
<1> QED BY <1>5, <1>6 DEF PushInv

\* A call goes on.
LEMMA PushSteps ==
    ASSUME PushRecords, NEW i \in 1..Len(tasks), NEW task \in PushCalls, Push!Steps(i, task)
    PROVE  /\ tasks' \in Seq(PushCalls) /\ Len(tasks') = Len(tasks) /\ tasks # <<>>
           /\ \A j \in 1..Len(tasks) : tasks'[j] = IF j = i THEN task ELSE tasks[j]
<1>1. tasks \in Seq(PushCalls) /\ tasks' = [tasks EXCEPT ![i] = task]
  BY DEF PushRecords, Push!Steps
<1>2. tasks # <<>>
  BY <1>1
<1> QED BY <1>1, <1>2, ExceptSeq

\* A call ends with an event.
LEMMA PushEnds ==
    ASSUME PushRecords, NEW i \in 1..Len(tasks), NEW event \in PushEvents, Push!Ends(i, event)
    PROVE  /\ tasks' \in Seq(PushCalls) /\ Len(tasks') = Len(tasks) - 1 /\ tasks # <<>>
           /\ inbox' \in Seq(PushEvents) /\ Len(inbox') = Len(inbox) + 1
           /\ \A k \in 1..Len(inbox') : \/ k \in 1..Len(inbox) /\ inbox'[k] = inbox[k]
                                        \/ k = Len(inbox') /\ inbox'[k] = event
<1>1. /\ tasks \in Seq(PushCalls) /\ inbox \in Seq(PushEvents)
      /\ tasks' = Push!Without(tasks, i) /\ inbox' = Append(inbox, event)
  BY DEF PushRecords, Push!Ends
<1>2. Len(tasks) \in Nat /\ i \in Int /\ tasks # <<>>
  BY <1>1, LenProperties
<1>3. /\ SubSeq(tasks, 1, i - 1) \in Seq(PushCalls) /\ Len(SubSeq(tasks, 1, i - 1)) = i - 1
  <2>1. \A k \in 1..(i - 1) : tasks[k] \in PushCalls
    <3>1. \A k \in 1..(i - 1) : k \in 1..Len(tasks)
      BY <1>2
    <3> QED BY <1>1, <3>1, ElementOfSeq
  <2>2. SubSeq(tasks, 1, i - 1) \in Seq(PushCalls)
        /\ Len(SubSeq(tasks, 1, i - 1)) = IF 1 <= i - 1 THEN (i - 1) - 1 + 1 ELSE 0
    BY <1>2, <2>1, SubSeqProperties
  <2> QED BY <1>2, <2>2
<1>4. /\ SubSeq(tasks, i + 1, Len(tasks)) \in Seq(PushCalls)
      /\ Len(SubSeq(tasks, i + 1, Len(tasks))) = Len(tasks) - i
  <2>1. \A k \in (i + 1)..Len(tasks) : tasks[k] \in PushCalls
    <3>1. \A k \in (i + 1)..Len(tasks) : k \in 1..Len(tasks)
      BY <1>2
    <3> QED BY <1>1, <3>1, ElementOfSeq
  <2> DEFINE m == i + 1
             n == Len(tasks)
  <2>a. m \in Int /\ n \in Int /\ \A k \in m..n : tasks[k] \in PushCalls
    BY <1>2, <2>1
  <2> HIDE DEF m, n
  <2>b. /\ SubSeq(tasks, m, n) \in Seq(PushCalls)
        /\ Len(SubSeq(tasks, m, n)) = IF m <= n THEN n - m + 1 ELSE 0
    BY <2>a, SubSeqProperties
  <2>2. SubSeq(tasks, i + 1, Len(tasks)) \in Seq(PushCalls)
        /\ Len(SubSeq(tasks, i + 1, Len(tasks)))
             = IF i + 1 <= Len(tasks) THEN Len(tasks) - (i + 1) + 1 ELSE 0
    BY <2>b DEF m, n
  <2> QED BY <1>2, <2>2
<1>5. tasks' \in Seq(PushCalls) /\ Len(tasks') = Len(tasks) - 1
  <2>1. tasks' = SubSeq(tasks, 1, i - 1) \o SubSeq(tasks, i + 1, Len(tasks))
    BY <1>1 DEF Push!Without
  <2> DEFINE front == SubSeq(tasks, 1, i - 1)
             rest == SubSeq(tasks, i + 1, Len(tasks))
  <2>2. /\ front \in Seq(PushCalls) /\ rest \in Seq(PushCalls)
        /\ Len(front) = i - 1 /\ Len(rest) = Len(tasks) - i
    BY <1>3, <1>4
  <2>3. tasks' = front \o rest
    BY <2>1
  <2> HIDE DEF front, rest
  <2>4. tasks' \in Seq(PushCalls) /\ Len(tasks') = Len(front) + Len(rest)
    BY <2>2, <2>3, ConcatProperties
  <2>5. Len(tasks') = (i - 1) + (Len(tasks) - i)
    BY <2>2, <2>4
  <2> QED BY <1>2, <2>4, <2>5
<1>6. inbox' \in Seq(PushEvents) /\ Len(inbox') = Len(inbox) + 1 /\ Len(inbox) \in Nat
      /\ inbox'[Len(inbox')] = event /\ \A k \in 1..Len(inbox) : inbox'[k] = inbox[k]
  BY <1>1, AppendProperties, LenProperties
<1> QED BY <1>2, <1>5, <1>6

\* What a call that ends must show.
LEMMA PushCalmEnds ==
    ASSUME PushRecords, PushCalm, NEW i \in 1..Len(tasks), NEW event \in PushEvents,
           Push!Ends(i, event), UNCHANGED <<pushView, pushPage, rows>>,
           \A row \in rows : row.key = made'[row.endpoint],
           pushView.on => HeldFor(pushView.key)',
           event.kind = "subscribed" => made'[event.endpoint] = pushView.key,
           event.kind \in {"subscribed", "on"} => HeldFor(pushView.key)'
    PROVE  PushCalm'
<1>1. /\ tasks' \in Seq(PushCalls) /\ Len(tasks') = Len(tasks) - 1 /\ tasks # <<>>
      /\ inbox' \in Seq(PushEvents) /\ Len(inbox') = Len(inbox) + 1
      /\ \A k \in 1..Len(inbox') : \/ k \in 1..Len(inbox) /\ inbox'[k] = inbox[k]
                                   \/ k = Len(inbox') /\ inbox'[k] = event
  BY PushEnds
<1>2. Len(tasks) \in Nat /\ Len(inbox) \in Nat /\ Len(tasks) + Len(inbox) <= 1 /\ Len(tasks) > 0
  <2>1. tasks \in Seq(PushCalls) /\ inbox \in Seq(PushEvents)
    BY DEF PushRecords
  <2>2. Len(tasks) + Len(inbox) <= 1
    BY DEF PushCalm
  <2> QED BY <1>1, <2>1, <2>2, LenProperties, EmptySeq
<1>3. Len(tasks') = 0 /\ Len(inbox) = 0 /\ Len(inbox') = 1
  BY <1>1, <1>2
<1>4. 1..Len(tasks') = {} /\ \A k \in 1..Len(inbox') : inbox'[k] = event
  <2>1. 1..Len(tasks') = {} /\ 1..Len(inbox) = {}
    BY <1>3
  <2> QED BY <1>1, <2>1
<1>5. pushPage = pushView
  BY <1>1 DEF PushCalm
<1> QED BY <1>3, <1>4, <1>5 DEF PushCalm

\* A step that leaves the records alone leaves them right.
LEMMA PushSameRecords ==
    ASSUME PushRecords, UNCHANGED <<siteKey, made, rows>>,
           pushView' \in PushPages, pushPage' \in PushPages, subscription' \in 0..Len(made),
           tasks' \in Seq(PushCalls), inbox' \in Seq(PushEvents),
           \A k \in 1..Len(inbox') : inbox'[k].kind = "subscribed" =>
                                         inbox'[k].endpoint \in 1..Len(made)
    PROVE  PushRecords'
BY DEF PushRecords

LEMMA PushMount ==
    ASSUME PushInv, Push!Mount
    PROVE  PushInv'
<1>1. /\ pushView' = [key |-> siteKey, on |-> FALSE] /\ pushPage' = pushView'
      /\ tasks' = <<[step |-> "sync", key |-> 0]>> /\ inbox' = <<>>
      /\ UNCHANGED <<siteKey, rows, made, subscription, rushed>>
  BY DEF Push!Mount, Push!Assigns, Push!Task
<1>2. pushView' \in PushPages /\ pushView'.on = FALSE
  BY <1>1 DEF PushInv, PushRecords, PushPages
<1>3. /\ tasks' \in Seq(PushCalls) /\ Len(tasks') = 1 /\ tasks'[1].step = "sync"
      /\ inbox' \in Seq(PushEvents) /\ Len(inbox') = 0
  <2>1. [step |-> "sync", key |-> 0] \in PushCalls
    BY DEF PushCalls
  <2> QED BY <1>1, <2>1
<1>4. 1..Len(inbox') = {} /\ \A k \in 1..Len(tasks') : k = 1
  BY <1>3
<1>5. PushRecords'
  BY <1>1, <1>2, <1>3, <1>4 DEF PushInv, PushRecords
<1>6. ~rushed => PushCalm'
  BY <1>1, <1>2, <1>3, <1>4 DEF PushInv, PushCalm
<1> QED BY <1>1, <1>5, <1>6 DEF PushInv

\* A call that ends without making or giving up anything.
LEMMA PushEndsPlainly ==
    ASSUME PushInv, NEW i \in 1..Len(tasks), NEW event \in PushEvents, Push!Ends(i, event),
           event.kind # "subscribed",
           UNCHANGED <<siteKey, rows, made, subscription, pushView, pushPage, rushed>>,
           ~rushed /\ event.kind = "on" => HeldFor(pushView.key)
    PROVE  PushInv'
<1>1. /\ tasks' \in Seq(PushCalls) /\ inbox' \in Seq(PushEvents)
      /\ \A k \in 1..Len(inbox') : \/ k \in 1..Len(inbox) /\ inbox'[k] = inbox[k]
                                   \/ k = Len(inbox') /\ inbox'[k] = event
  BY PushEnds DEF PushInv
<1>2. PushRecords'
  BY <1>1 DEF PushInv, PushRecords
<1>3. ~rushed => PushCalm'
  <2> SUFFICES ASSUME ~rushed PROVE PushCalm'
    OBVIOUS
  <2>1. HeldFor(pushView.key)' <=> HeldFor(pushView.key)
    BY DEF HeldFor
  <2> QED BY <2>1, PushCalmEnds DEF PushInv, PushCalm
<1> QED BY <1>2, <1>3 DEF PushInv

\* The page asks the browser, and the browser holds nothing or what it holds.
LEMMA PushSynced ==
    ASSUME PushInv, NEW i \in 1..Len(tasks), Push!SyncState(i)
    PROVE  PushInv'
<1>1. UNCHANGED <<siteKey, rows, made, subscription, pushView, pushPage, rushed>>
  BY DEF Push!SyncState
<1>2. subscription \in Nat
  BY DEF PushInv, PushRecords
<1>3. CASE Push!Ends(i, Push!Event(IF Push!MadeWith(subscription, pushPage.key) THEN "on" ELSE "off",
                                   subscription))
  <2> DEFINE event == Push!Event(IF Push!MadeWith(subscription, pushPage.key) THEN "on" ELSE "off",
                                 subscription)
  <2>1. /\ event \in PushEvents /\ event.kind # "subscribed"
        /\ event.kind = "on" => Push!MadeWith(subscription, pushPage.key)
    BY <1>2 DEF PushEvents, Push!Event
  <2>2. ~rushed => pushPage = pushView
    BY <1>3, PushEnds, <2>1 DEF PushInv, PushCalm
  <2>3. ~rushed /\ event.kind = "on" => HeldFor(pushView.key)
    BY <2>1, <2>2 DEF Push!MadeWith, HeldFor
  <2>4. Push!Ends(i, event)
    BY <1>3
  <2> HIDE DEF event
  <2> QED BY <1>1, <2>1, <2>3, <2>4, PushEndsPlainly
<1>4. CASE Push!Ends(i, Push!Event("unsupported", Push!NoEndpoint))
  <2> DEFINE event == Push!Event("unsupported", Push!NoEndpoint)
  <2>1. event \in PushEvents /\ event.kind = "unsupported" /\ Push!Ends(i, event)
    BY <1>4 DEF PushEvents, Push!Event, Push!NoEndpoint
  <2> HIDE DEF event
  <2> QED BY <1>1, <2>1, PushEndsPlainly
<1> QED BY <1>3, <1>4 DEF Push!SyncState

LEMMA PushClicked ==
    ASSUME PushInv, Push!Click
    PROVE  PushInv'
<1>1. /\ rushed' = (rushed \/ tasks # <<>> \/ inbox # <<>> \/ pushPage # pushView)
      /\ UNCHANGED <<siteKey, rows, made, subscription, pushView, pushPage>>
  BY DEF Push!Click
<1>2. tasks \in Seq(PushCalls) /\ inbox \in Seq(PushEvents)
  BY DEF PushInv, PushRecords
<1>3. ASSUME NEW task \in PushCalls, task.step \notin {"drop", "subscribe"},
             tasks' = Append(tasks, task), inbox' = inbox
      PROVE  PushInv'
  <2>1. /\ tasks' \in Seq(PushCalls) /\ Len(tasks') = Len(tasks) + 1
        /\ tasks'[Len(tasks) + 1] = task
    BY <1>2, <1>3, AppendProperties
  <2>2. PushRecords'
    BY <1>1, <1>3, <2>1 DEF PushInv, PushRecords
  <2>3. ASSUME ~rushed'
        PROVE  PushCalm'
    <3>1. Len(tasks) = 0 /\ Len(inbox) = 0 /\ pushPage = pushView /\ ~rushed
      BY <1>1, <2>3
    <3>2. 1..Len(inbox') = {} /\ \A k \in 1..Len(tasks') : k = Len(tasks) + 1
      BY <1>3, <2>1, <3>1
    <3>3. HeldFor(pushView.key)' <=> HeldFor(pushView.key)
      BY <1>1 DEF HeldFor
    <3> QED BY <1>1, <1>3, <2>1, <3>1, <3>2, <3>3 DEF PushInv, PushCalm
  <2> QED BY <2>2, <2>3 DEF PushInv
<1>4. CASE tasks' = Append(tasks, Push!Task("disable", 0)) /\ inbox' = inbox
  <2> DEFINE task == Push!Task("disable", 0)
  <2>1. task \in PushCalls /\ task.step \notin {"drop", "subscribe"} /\ tasks' = Append(tasks, task)
    BY <1>4 DEF PushCalls, Push!Task
  <2> HIDE DEF task
  <2> QED BY <1>3, <1>4, <2>1
<1>5. CASE tasks' = Append(tasks, Push!Task("register", 0)) /\ inbox' = inbox
  <2> DEFINE task == Push!Task("register", 0)
  <2>1. task \in PushCalls /\ task.step \notin {"drop", "subscribe"} /\ tasks' = Append(tasks, task)
    BY <1>5 DEF PushCalls, Push!Task
  <2> HIDE DEF task
  <2> QED BY <1>3, <1>5, <2>1
<1>6. CASE inbox' = Append(inbox, Push!Event("denied", Push!NoEndpoint)) /\ tasks' = tasks
  <2> DEFINE event == Push!Event("denied", Push!NoEndpoint)
  <2>1. event \in PushEvents /\ event.kind = "denied" /\ inbox' = Append(inbox, event)
    BY <1>6 DEF PushEvents, Push!Event, Push!NoEndpoint
  <2> HIDE DEF event
  <2>2. /\ inbox' \in Seq(PushEvents) /\ Len(inbox') = Len(inbox) + 1 /\ Len(inbox) \in Nat
        /\ inbox'[Len(inbox) + 1] = event /\ \A k \in 1..Len(inbox) : inbox'[k] = inbox[k]
    BY <1>2, <2>1, AppendProperties, LenProperties
  <2>3. \A k \in 1..Len(inbox') : k \in 1..Len(inbox) \/ k = Len(inbox) + 1
    BY <2>2
  <2>4. \A k \in 1..Len(inbox') : inbox'[k].kind = "subscribed" => inbox'[k].endpoint \in 1..Len(made)
    BY <2>1, <2>2, <2>3 DEF PushInv, PushRecords
  <2>5. PushRecords'
    BY <1>1, <1>6, <2>2, <2>4 DEF PushInv, PushRecords
  <2>6. ASSUME ~rushed'
        PROVE  PushCalm'
    <3>1. Len(tasks) = 0 /\ Len(inbox) = 0 /\ pushPage = pushView /\ ~rushed
      BY <1>1, <2>6
    <3>2. 1..Len(tasks') = {} /\ \A k \in 1..Len(inbox') : k = Len(inbox) + 1
      BY <1>6, <2>2, <3>1
    <3>3. HeldFor(pushView.key)' <=> HeldFor(pushView.key)
      BY <1>1 DEF HeldFor
    <3>4. Len(tasks') = 0 /\ Len(inbox') = 1
      BY <1>6, <2>2, <3>1
    <3> QED BY <1>1, <2>1, <2>2, <3>1, <3>2, <3>3, <3>4 DEF PushInv, PushCalm
  <2> QED BY <2>5, <2>6 DEF PushInv
<1> QED BY <1>4, <1>5, <1>6 DEF Push!Click

LEMMA PushRegistered ==
    ASSUME PushInv, NEW i \in 1..Len(tasks), Push!Registered(i)
    PROVE  PushInv'
<1>1. UNCHANGED <<siteKey, rows, made, subscription, pushView, pushPage, rushed>>
  BY DEF Push!Registered
<1> DEFINE task == Push!Task(IF subscription = Push!NoEndpoint
                                \/ Push!MadeWith(subscription, pushPage.key)
                             THEN "subscribe" ELSE "drop", pushPage.key)
           event == Push!Event("failed", Push!NoEndpoint)
<1>2. task \in PushCalls /\ task.key = pushPage.key
  BY DEF PushInv, PushRecords, PushPages, PushCalls, Push!Task
<1>3. event \in PushEvents /\ event.kind = "failed"
  BY DEF PushEvents, Push!Event, Push!NoEndpoint
<1>4. (Push!Steps(i, task) /\ inbox' = inbox) \/ Push!Ends(i, event)
  BY DEF Push!Registered
<1> HIDE DEF task, event
<1>5. CASE Push!Steps(i, task) /\ inbox' = inbox
  <2>1. /\ tasks' \in Seq(PushCalls) /\ Len(tasks') = Len(tasks) /\ tasks # <<>>
        /\ \A j \in 1..Len(tasks) : tasks'[j] = IF j = i THEN task ELSE tasks[j]
    BY <1>2, <1>5, PushSteps DEF PushInv
  <2>2. PushRecords'
    BY <1>1, <1>5, <2>1 DEF PushInv, PushRecords
  <2>3. ASSUME ~rushed
        PROVE  PushCalm'
    <3>1. pushPage = pushView
      BY <2>1, <2>3 DEF PushInv, PushCalm
    <3>2. \A k \in 1..Len(tasks') : tasks'[k].step \in {"drop", "subscribe"} =>
                                        tasks'[k].key = pushView'.key
      BY <1>1, <1>2, <2>1, <2>3, <3>1 DEF PushInv, PushCalm
    <3>3. HeldFor(pushView.key)' <=> HeldFor(pushView.key)
      BY <1>1 DEF HeldFor
    <3> QED BY <1>1, <1>5, <2>1, <2>3, <3>1, <3>2, <3>3 DEF PushInv, PushCalm
  <2> QED BY <1>1, <2>2, <2>3 DEF PushInv
<1>6. CASE Push!Ends(i, event)
  BY <1>1, <1>3, <1>6, PushEndsPlainly
<1> QED BY <1>4, <1>5, <1>6

LEMMA PushDropped ==
    ASSUME PushInv, NEW i \in 1..Len(tasks), Push!DropOld(i)
    PROVE  PushInv'
<1>1. /\ UNCHANGED <<siteKey, rows, made, pushView, pushPage, inbox, rushed>>
      /\ tasks[i].step = "drop" /\ subscription' = 0
  BY DEF Push!DropOld, Push!NoEndpoint
<1> DEFINE task == Push!Task("subscribe", tasks[i].key)
<1>2. task \in PushCalls /\ task.key = tasks[i].key
  <2>1. tasks[i] \in PushCalls
    BY ElementOfSeq DEF PushInv, PushRecords
  <2> QED BY <2>1 DEF PushCalls, Push!Task
<1>3. Push!Steps(i, task)
  BY DEF Push!DropOld
<1> HIDE DEF task
<1>4. /\ tasks' \in Seq(PushCalls) /\ Len(tasks') = Len(tasks) /\ tasks # <<>>
      /\ \A j \in 1..Len(tasks) : tasks'[j] = IF j = i THEN task ELSE tasks[j]
  BY <1>2, <1>3, PushSteps DEF PushInv
<1>5. PushRecords'
  <2>1. subscription' \in 0..Len(made)
    BY <1>1 DEF PushInv, PushRecords
  <2> QED BY <1>1, <1>4, <2>1 DEF PushInv, PushRecords
<1>6. ASSUME ~rushed
      PROVE  PushCalm'
  <2>1. \A k \in 1..Len(tasks') : tasks'[k].step \in {"drop", "subscribe"} =>
                                      tasks'[k].key = pushView'.key
    BY <1>1, <1>2, <1>4, <1>6 DEF PushInv, PushCalm
  <2>2. HeldFor(pushView.key)'
    BY <1>1 DEF HeldFor, Push!NoEndpoint
  <2> QED BY <1>1, <1>4, <1>6, <2>1, <2>2 DEF PushInv, PushCalm
<1> QED BY <1>1, <1>5, <1>6 DEF PushInv

LEMMA PushSubscribed ==
    ASSUME PushInv, NEW i \in 1..Len(tasks), Push!Subscribe(i)
    PROVE  PushInv'
<1> DEFINE key == tasks[i].key
<1>1. /\ UNCHANGED <<siteKey, rows, pushView, pushPage, rushed>>
      /\ tasks[i].step = "subscribe"
  BY DEF Push!Subscribe
<1>2. key \in Nat /\ made \in Seq(Nat) /\ subscription \in 0..Len(made) /\ Len(made) \in Nat
  <2>1. tasks[i] \in PushCalls
    BY ElementOfSeq DEF PushInv, PushRecords
  <2> QED BY <2>1, LenProperties DEF PushInv, PushRecords, PushCalls
<1>3. ~rushed => key = pushView.key
  BY <1>1 DEF PushInv, PushCalm
<1>4. CASE subscription = Push!NoEndpoint
  <2> DEFINE event == Push!Event("subscribed", Len(made'))
  <2>1. made' = Append(made, key) /\ subscription' = Len(made') /\ Push!Ends(i, event)
    BY <1>4 DEF Push!Subscribe
  <2>2. /\ made' \in Seq(Nat) /\ Len(made') = Len(made) + 1 /\ made'[Len(made')] = key
        /\ \A k \in 1..Len(made) : made'[k] = made[k]
    BY <1>2, <2>1, AppendProperties
  <2>3. event \in PushEvents /\ event.kind = "subscribed" /\ event.endpoint = Len(made')
    BY <1>2, <2>2 DEF PushEvents, Push!Event
  <2> HIDE DEF event, key
  <2>4. /\ tasks' \in Seq(PushCalls) /\ inbox' \in Seq(PushEvents)
        /\ \A k \in 1..Len(inbox') : \/ k \in 1..Len(inbox) /\ inbox'[k] = inbox[k]
                                     \/ k = Len(inbox') /\ inbox'[k] = event
    BY <2>1, <2>3, PushEnds DEF PushInv
  <2>5. 1..Len(made) \subseteq 1..Len(made') /\ Len(made') \in 1..Len(made')
        /\ Len(made') \in 0..Len(made')
    BY <1>2, <2>2
  <2>6. \A k \in 1..Len(inbox') : inbox'[k].kind = "subscribed" =>
                                      inbox'[k].endpoint \in 1..Len(made')
    BY <2>3, <2>4, <2>5 DEF PushInv, PushRecords
  <2>7. PushRecords'
    BY <1>1, <2>1, <2>2, <2>4, <2>5, <2>6 DEF PushInv, PushRecords
  <2>8. ASSUME ~rushed
        PROVE  PushCalm'
    <3>1. \A row \in rows : row.key = made'[row.endpoint]
      BY <2>2, <2>8 DEF PushInv, PushRecords, PushCalm
    <3>2. HeldFor(pushView.key)'
      BY <1>1, <1>3, <2>1, <2>2, <2>8 DEF HeldFor
    <3>3. made'[event.endpoint] = pushView.key
      BY <1>3, <2>2, <2>3, <2>8
    <3> QED BY <1>1, <2>1, <2>3, <2>8, <3>1, <3>2, <3>3, PushCalmEnds DEF PushInv
  <2> QED BY <1>1, <2>7, <2>8 DEF PushInv
<1>5. CASE subscription # Push!NoEndpoint /\ Push!MadeWith(subscription, key)
  <2> DEFINE event == Push!Event("subscribed", subscription)
  <2>1. UNCHANGED <<made, subscription>> /\ Push!Ends(i, event)
    BY <1>5 DEF Push!Subscribe
  <2>2. /\ event \in PushEvents /\ event.kind = "subscribed" /\ event.endpoint = subscription
        /\ subscription \in 1..Len(made) /\ made[subscription] = key
    BY <1>2, <1>5 DEF PushEvents, Push!Event, Push!NoEndpoint, Push!MadeWith
  <2> HIDE DEF event, key
  <2>3. /\ tasks' \in Seq(PushCalls) /\ inbox' \in Seq(PushEvents)
        /\ \A k \in 1..Len(inbox') : \/ k \in 1..Len(inbox) /\ inbox'[k] = inbox[k]
                                     \/ k = Len(inbox') /\ inbox'[k] = event
    BY <2>1, <2>2, PushEnds DEF PushInv
  <2>4. PushRecords'
    BY <1>1, <2>1, <2>2, <2>3 DEF PushInv, PushRecords
  <2>5. ASSUME ~rushed
        PROVE  PushCalm'
    <3>1. HeldFor(pushView.key)' /\ made'[event.endpoint] = pushView.key
      BY <1>1, <1>3, <2>1, <2>2, <2>5 DEF HeldFor
    <3>2. \A row \in rows : row.key = made'[row.endpoint]
      BY <2>1, <2>5 DEF PushInv, PushCalm
    <3> QED BY <1>1, <2>1, <2>2, <2>5, <3>1, <3>2, PushCalmEnds DEF PushInv
  <2> QED BY <1>1, <2>4, <2>5 DEF PushInv
<1>6. CASE subscription # Push!NoEndpoint /\ ~Push!MadeWith(subscription, key)
  <2> DEFINE event == Push!Event("failed", Push!NoEndpoint)
  <2>1. UNCHANGED <<made, subscription>> /\ Push!Ends(i, event)
    BY <1>6 DEF Push!Subscribe
  <2>2. event \in PushEvents /\ event.kind = "failed"
    BY DEF PushEvents, Push!Event, Push!NoEndpoint
  <2> HIDE DEF event
  <2> QED BY <1>1, <2>1, <2>2, PushEndsPlainly
<1> QED BY <1>4, <1>5, <1>6

LEMMA PushDisabled ==
    ASSUME PushInv, NEW i \in 1..Len(tasks), Push!Disable(i)
    PROVE  PushInv'
<1> DEFINE event == Push!Event(IF subscription = Push!NoEndpoint THEN "off" ELSE "unsubscribed",
                               subscription)
<1>1. /\ UNCHANGED <<siteKey, rows, made, pushView, pushPage, rushed>>
      /\ subscription' \in {0, subscription} /\ Push!Ends(i, event)
  BY DEF Push!Disable, Push!NoEndpoint
<1>2. subscription \in Nat /\ subscription' \in 0..Len(made)
  BY <1>1 DEF PushInv, PushRecords
<1>3. event \in PushEvents /\ event.kind \in {"off", "unsubscribed"}
  BY <1>2 DEF PushEvents, Push!Event
<1> HIDE DEF event
<1>4. /\ tasks' \in Seq(PushCalls) /\ inbox' \in Seq(PushEvents)
      /\ \A k \in 1..Len(inbox') : \/ k \in 1..Len(inbox) /\ inbox'[k] = inbox[k]
                                   \/ k = Len(inbox') /\ inbox'[k] = event
  BY <1>1, <1>3, PushEnds DEF PushInv
<1>5. PushRecords'
  BY <1>1, <1>2, <1>3, <1>4 DEF PushInv, PushRecords
<1>6. ASSUME ~rushed
      PROVE  PushCalm'
  <2>1. pushView.on => HeldFor(pushView.key)'
    BY <1>1, <1>6 DEF PushInv, PushCalm, HeldFor, Push!NoEndpoint
  <2>2. \A row \in rows : row.key = made'[row.endpoint]
    BY <1>1, <1>6 DEF PushInv, PushCalm
  <2> QED BY <1>1, <1>3, <1>6, <2>1, <2>2, PushCalmEnds DEF PushInv
<1> QED BY <1>1, <1>5, <1>6 DEF PushInv

\* The view handles a report.
LEMMA PushHandled ==
    ASSUME PushInv, Push!Handle
    PROVE  PushInv'
<1> DEFINE event == Head(inbox)
<1>1. /\ inbox # <<>> /\ inbox' = Tail(inbox)
      /\ UNCHANGED <<siteKey, made, subscription, pushPage, tasks, rushed>>
  BY DEF Push!Handle
<1>2. inbox \in Seq(PushEvents) /\ siteKey \in Nat /\ pushView \in PushPages
  BY DEF PushInv, PushRecords
<1>3. /\ inbox' \in Seq(PushEvents) /\ event = inbox[1] /\ 1 \in 1..Len(inbox)
      /\ Len(inbox) \in Nat /\ Len(inbox) > 0 /\ Len(inbox') = Len(inbox) - 1
      /\ \A k \in 1..Len(inbox') : k + 1 \in 1..Len(inbox) /\ inbox'[k] = inbox[k + 1]
  BY <1>1, <1>2, TailItems
<1>4. event \in PushEvents
  BY <1>2, <1>3, ElementOfSeq
<1> HIDE DEF event
<1>5. pushView' \in PushPages
  <2>1. \A key \in Nat, on \in BOOLEAN : Push!Assigns(key, on) \in PushPages
    BY DEF Push!Assigns, PushPages
  <2>2. pushView.key \in Nat
    BY <1>2 DEF PushPages
  <2>3. \/ pushView' = pushView
        \/ \E on \in BOOLEAN : pushView' \in {Push!Assigns(pushView.key, on),
                                               Push!Assigns(siteKey, on)}
    <3>1. event.kind \in {"on", "off", "unsupported", "denied", "failed", "subscribed",
                          "unsubscribed"}
      BY <1>4 DEF PushEvents
    <3> QED BY <3>1 DEF Push!Handle, Push!Registration, event
  <2> QED BY <1>2, <2>1, <2>2, <2>3
<1>6. /\ \A row \in rows' : row.endpoint \in 1..Len(made)
      /\ \A row \in rows', other \in rows' : row.endpoint = other.endpoint => row = other
      /\ ~rushed => \A row \in rows' : row.key = made[row.endpoint]
  <2>1. CASE event.kind = "subscribed" /\ pushView.key = siteKey
    <3> DEFINE new == [endpoint |-> event.endpoint, key |-> pushView.key]
    <3>1. rows' = (rows \ Push!RowsOf(event.endpoint)) \union {new}
      BY <2>1 DEF Push!Handle, Push!Registration, event
    <3>2. new.endpoint = event.endpoint /\ new.key = pushView.key
      OBVIOUS
    <3> HIDE DEF new
    <3>3. \A row \in rows' : row = new \/ (row \in rows /\ row.endpoint # event.endpoint)
      BY <3>1 DEF Push!RowsOf
    <3>4. event.endpoint \in 1..Len(made)
      BY <1>3, <2>1 DEF PushInv, PushRecords
    <3>5. ~rushed => made[event.endpoint] = pushView.key
      BY <1>3, <2>1 DEF PushInv, PushCalm
    <3> QED BY <3>2, <3>3, <3>4, <3>5 DEF PushInv, PushRecords, PushCalm
  <2>2. CASE ~(event.kind = "subscribed" /\ pushView.key = siteKey)
    <3>1. rows' \subseteq rows
      BY <2>2 DEF Push!Handle, Push!Registration, Push!RowsOf, event
    <3> QED BY <3>1 DEF PushInv, PushRecords, PushCalm
  <2> QED BY <2>1, <2>2
<1>7. PushRecords'
  <2>1. \A k \in 1..Len(inbox') : inbox'[k].kind = "subscribed" => inbox'[k].endpoint \in 1..Len(made)
    BY <1>3 DEF PushInv, PushRecords
  <2> QED BY <1>1, <1>3, <1>5, <1>6, <2>1 DEF PushInv, PushRecords
<1>8. ASSUME ~rushed
      PROVE  PushCalm'
  <2>1. Len(tasks) = 0 /\ Len(inbox') = 0 /\ tasks = <<>>
    <3>1. tasks \in Seq(PushCalls) /\ Len(tasks) + Len(inbox) <= 1
      BY <1>8 DEF PushInv, PushRecords, PushCalm
    <3>2. Len(tasks) \in Nat
      BY <3>1, LenProperties
    <3>3. Len(tasks) = 0 /\ Len(inbox') = 0
      BY <1>3, <3>1, <3>2
    <3> QED BY <3>1, <3>3, EmptySeq
  <2>2. inbox' = <<>> /\ 1..Len(tasks') = {} /\ 1..Len(inbox') = {}
    <3>1. inbox' = <<>>
      BY <1>3, <2>1, EmptySeq
    <3> QED BY <1>1, <2>1, <3>1
  <2>3. pushView'.on => HeldFor(pushView'.key)
    <3>1. CASE event.kind \in {"subscribed", "on"}
      <4>1. HeldFor(pushView.key)
        BY <1>3, <1>8, <3>1 DEF PushInv, PushCalm
      <4>2. pushView'.on => pushView'.key = pushView.key
        BY <3>1 DEF Push!Handle, Push!Registration, Push!Assigns, event
      <4> QED BY <4>1, <4>2
    <3>2. CASE event.kind = "unsupported"
      <4>1. pushView' = pushView
        BY <3>2 DEF Push!Handle, event
      <4> QED BY <1>8, <4>1 DEF PushInv, PushCalm
    <3>3. CASE event.kind \notin {"subscribed", "on", "unsupported"}
      <4>1. pushView' = Push!Assigns(pushView.key, FALSE)
        BY <3>3 DEF Push!Handle, event
      <4> QED BY <4>1 DEF Push!Assigns
    <3> QED BY <3>1, <3>2, <3>3
  <2>4. pushView'.on => HeldFor(pushView.key)'
    BY <1>1, <2>3 DEF HeldFor
  <2>5. tasks' = <<>> /\ Len(tasks') + Len(inbox') <= 1
    BY <1>1, <2>1
  <2>6. \A row \in rows' : row.key = made'[row.endpoint]
    BY <1>1, <1>6, <1>8
  <2> QED BY <2>2, <2>4, <2>5, <2>6 DEF PushCalm
<1> QED BY <1>1, <1>7, <1>8 DEF PushInv

\* The rows that are left, when some go.
LEMMA PushRowsGone ==
    ASSUME PushInv, rows' \subseteq rows, siteKey' \in Nat, subscription' \in {0, subscription},
           UNCHANGED <<made, pushView, pushPage, tasks, inbox, rushed>>
    PROVE  PushInv'
<1>1. subscription' \in 0..Len(made)
  BY DEF PushInv, PushRecords
<1>2. PushRecords'
  BY <1>1 DEF PushInv, PushRecords
<1>3. HeldFor(pushView.key) => HeldFor(pushView.key)'
  BY DEF HeldFor, Push!NoEndpoint
<1>4. ~rushed => PushCalm'
  BY <1>3 DEF PushInv, PushCalm
<1> QED BY <1>2, <1>4 DEF PushInv

LEMMA PushStep ==
    ASSUME PushInv, [Push!PushNext]_pushVars
    PROVE  PushInv'
<1>1. CASE Push!Patched
  <2>1. /\ pushPage' = pushView
        /\ UNCHANGED <<siteKey, rows, made, subscription, pushView, tasks, inbox, rushed>>
    BY <1>1 DEF Push!Patched
  <2>2. HeldFor(pushView.key)' <=> HeldFor(pushView.key)
    BY <2>1 DEF HeldFor
  <2>3. PushRecords'
    BY <2>1 DEF PushInv, PushRecords
  <2>4. ~rushed => PushCalm'
    BY <2>1, <2>2 DEF PushInv, PushCalm
  <2> QED BY <2>1, <2>3, <2>4 DEF PushInv
<1>2. CASE Push!RotateKey
  <2>1. rows' \subseteq rows /\ siteKey' \in Nat
    BY <1>2 DEF Push!RotateKey, PushInv, PushRecords
  <2> QED BY <1>2, <2>1, PushRowsGone DEF Push!RotateKey
<1>3. CASE Push!Revoked
  <2>1. rows' \subseteq rows /\ siteKey' \in Nat /\ subscription' \in {0, subscription}
    BY <1>3 DEF Push!Revoked, Push!NoEndpoint, PushInv, PushRecords
  <2> QED BY <1>3, <2>1, PushRowsGone DEF Push!Revoked
<1>4. CASE \E row \in rows : Push!Deliver(row)
  <2>1. rows' \subseteq rows /\ siteKey' \in Nat
    BY <1>4 DEF Push!Deliver, PushInv, PushRecords
  <2> QED BY <1>4, <2>1, PushRowsGone DEF Push!Deliver
<1>5. CASE UNCHANGED pushVars
  <2>1. siteKey' \in Nat
    BY <1>5 DEF pushVars, PushInv, PushRecords
  <2> QED BY <1>5, <2>1, PushRowsGone DEF pushVars
<1> QED BY <1>1, <1>2, <1>3, <1>4, <1>5, PushMount, PushClicked, PushHandled, PushSynced,
           PushRegistered, PushDropped, PushSubscribed, PushDisabled DEF Push!PushNext

\* While nobody clicks ahead, rows are signed with the key their browser subscribed
\* with, and "on" is of a subscription made with the key the page has.
LEMMA PushAgrees == PushInv => Push!SignedWithItsKey /\ Push!OnMeansThisKey
BY DEF PushInv, PushRecords, PushCalm, HeldFor, Push!SignedWithItsKey, Push!OnMeansThisKey,
       Push!MadeWith

-----------------------------------------------------------------------------
(* Dialogs.                                                                *)

\* Focus, and what opened each dialog, are places that were reachable; of any
\* dialogs one was opened from outside them; a dialog is in the document with the
\* panel it is rendered inside of.
DialogInv ==
    /\ \A p \in Dialog!Panels : parent[p] # 0 => parent[p] \in Dialog!Panels /\ parent[p] < p
    /\ DOMAIN traps = Dialog!Panels /\ pushes \in Seq(Dialog!Panels)
    /\ connected \subseteq opened /\ opened \subseteq Dialog!Panels
    /\ connected \subseteq Dialog!Mounted
    /\ Dialog!Nested(connected)
    /\ dialogFocus = Dialog!Nowhere \/ Dialog!Reachable(dialogFocus)
    /\ \A p \in connected, q \in Dialog!Panels : traps[p] = Dialog!In(q) => q \in opened
    /\ \A S \in SUBSET connected : S # {} => \E p \in S : \A q \in S : traps[p] # Dialog!In(q)
    /\ ~strayed => \A p \in connected : Dialog!Reachable(traps[p])
    /\ Dialog!FocusComesBack

\* Places are told apart.
LEMMA DialogPlaces ==
    /\ \A p, q : Dialog!In(p) = Dialog!In(q) => p = q
    /\ \A p, n : Dialog!In(p) # Dialog!Page(n)
    /\ \A p : Dialog!In(p) # Dialog!Nowhere /\ Dialog!In(p) # Dialog!NotMounted
    /\ \A n : Dialog!Page(n) # Dialog!Nowhere /\ Dialog!Page(n) # Dialog!NotMounted
    /\ Dialog!Nowhere # Dialog!NotMounted
BY DEF Dialog!In, Dialog!Page, Dialog!Nowhere, Dialog!NotMounted

LEMMA DialogInitInv == Dialog!DialogsInit => DialogInv
<1> SUFFICES ASSUME Dialog!DialogsInit PROVE DialogInv
  OBVIOUS
<1>1. /\ connected = {} /\ traps = [p \in Dialog!Panels |-> Dialog!NotMounted]
      /\ dialogFocus = Dialog!Page(1) /\ pageNumber = 1 /\ pushes = <<>> /\ opened = {}
  BY DEF Dialog!DialogsInit
<1>2. \A p \in Dialog!Panels : parent[p] # 0 => parent[p] \in Dialog!Panels /\ parent[p] < p
  <2> SUFFICES ASSUME NEW p \in Dialog!Panels, parent[p] # 0
               PROVE  parent[p] \in Dialog!Panels /\ parent[p] < p
    OBVIOUS
  <2>1. parent[p] \in 0..MaxPanel /\ parent[p] < p
    BY DEF Dialog!DialogsInit
  <2> QED BY <2>1 DEF Dialog!Panels
<1>3. DOMAIN traps = Dialog!Panels /\ pushes \in Seq(Dialog!Panels)
  BY <1>1
<1>4. Dialog!Nested(connected) /\ Dialog!FocusComesBack /\ Dialog!Reachable(dialogFocus)
  BY <1>1 DEF Dialog!Nested, Dialog!FocusComesBack, Dialog!Reachable
<1> QED BY <1>1, <1>2, <1>3, <1>4 DEF DialogInv

LEMMA DialogOpened ==
    ASSUME DialogInv, NEW p \in Dialog!Panels, Dialog!Open(p)
    PROVE  DialogInv'
<1>1. /\ p \notin opened /\ opened' = opened \union {p}
      /\ parent[p] # 0 => parent[p] \in connected
      /\ connected' = connected \union {p}
      /\ traps' = [traps EXCEPT ![p] = dialogFocus]
      /\ dialogFocus' = Dialog!In(p)
      /\ strayed' = (strayed \/ dialogFocus = Dialog!Nowhere)
      /\ UNCHANGED <<parent, pageNumber, pushes>>
  BY DEF Dialog!Open
<1>2. p \notin connected /\ DOMAIN traps = Dialog!Panels /\ connected \subseteq Dialog!Panels
  BY <1>1 DEF DialogInv
<1>3. /\ DOMAIN traps' = Dialog!Panels /\ traps'[p] = dialogFocus
      /\ \A q \in Dialog!Panels : q # p => traps'[q] = traps[q]
  BY <1>1, <1>2
<1>4. dialogFocus # Dialog!NotMounted
      /\ \A q \in Dialog!Panels : dialogFocus = Dialog!In(q) => q \in connected
  BY DialogPlaces DEF DialogInv, Dialog!Reachable
<1>5. connected' \subseteq Dialog!Mounted'
  BY <1>1, <1>2, <1>3, <1>4 DEF DialogInv, Dialog!Mounted, Dialog!Panels, Dialog!NotMounted
<1>6. Dialog!Nested(connected)'
  BY <1>1 DEF DialogInv, Dialog!Nested
<1>7. (dialogFocus = Dialog!Nowhere \/ Dialog!Reachable(dialogFocus))'
  BY <1>1 DEF Dialog!Reachable, Dialog!In
<1>8. ASSUME NEW q \in connected', NEW r \in Dialog!Panels, traps'[q] = Dialog!In(r)
      PROVE  r \in opened'
  BY <1>1, <1>2, <1>3, <1>4, <1>8 DEF DialogInv
<1>9. ASSUME NEW S \in SUBSET connected', S # {}
      PROVE  \E q \in S : \A r \in S : traps'[q] # Dialog!In(r)
  <2>1. CASE S \ {p} = {}
    <3>1. S = {p}
      BY <1>9, <2>1
    <3> QED BY <1>2, <1>3, <1>4, <3>1
  <2>2. CASE S \ {p} # {}
    <3>1. S \ {p} \in SUBSET connected
      BY <1>1
    <3>2. PICK q \in S \ {p} : \A r \in S \ {p} : traps[q] # Dialog!In(r)
      BY <2>2, <3>1 DEF DialogInv
    <3>3. traps[q] # Dialog!In(p) /\ traps'[q] = traps[q]
      BY <1>1, <1>2, <1>3, <3>1 DEF DialogInv
    <3> QED BY <3>2, <3>3
  <2> QED BY <2>1, <2>2
<1>10. ASSUME ~strayed', NEW q \in connected'
       PROVE  Dialog!Reachable(traps[q])'
  <2>1. \A spot : Dialog!Reachable(spot) => Dialog!Reachable(spot)'
    BY <1>1 DEF Dialog!Reachable, Dialog!Page, Dialog!In
  <2>2. CASE q = p
    BY <1>1, <1>3, <1>10, <2>1, <2>2 DEF DialogInv
  <2>3. CASE q # p
    BY <1>1, <1>2, <1>3, <1>10, <2>1, <2>3 DEF DialogInv
  <2> QED BY <2>2, <2>3
<1>11. Dialog!FocusComesBack'
  BY <1>1 DEF Dialog!FocusComesBack
<1>12. /\ connected' \subseteq opened' /\ opened' \subseteq Dialog!Panels
  BY <1>1 DEF DialogInv
<1> QED BY <1>1, <1>3, <1>5, <1>6, <1>7, <1>8, <1>9, <1>10, <1>11, <1>12
        DEF DialogInv, Dialog!Panels, Dialog!In

\* What contains a panel contains what the panel contains.
LEMMA DialogWithin ==
    ASSUME NEW p \in Dialog!Panels, NEW q \in Dialog!Panels, parent[p] # 0,
           Dialog!Within(parent[p], q)
    PROVE  Dialog!Within(p, q)
BY DEF Dialog!Within, Dialog!Nested

\* A patch takes a panel and what it contains out.
LEMMA DialogRemoved ==
    ASSUME DialogInv, NEW p \in Dialog!Panels,
           Dialog!Removed({q \in connected : Dialog!Within(q, p)}),
           UNCHANGED <<parent, pageNumber, opened>>, pushes' \in Seq(Dialog!Panels)
    PROVE  DialogInv'
<1> DEFINE gone == {q \in connected : Dialog!Within(q, p)}
           kept == connected \ gone
           places == {traps[q] : q \in gone}
                        \intersect ({Dialog!Page(pageNumber)} \union {Dialog!In(q) : q \in kept})
<1>1. /\ connected' = kept
      /\ traps' = [q \in Dialog!Panels |-> IF q \in gone THEN Dialog!NotMounted ELSE traps[q]]
      /\ strayed' = (strayed \/ \E q \in gone, r \in kept : traps[r] = Dialog!In(q))
      /\ places # {} => dialogFocus' \in places
      /\ places = {} => dialogFocus' = IF \E q \in gone : dialogFocus = Dialog!In(q)
                                       THEN Dialog!Nowhere ELSE dialogFocus
  BY DEF Dialog!Removed
<1>2. Dialog!Nested(kept)
  <2> SUFFICES ASSUME NEW r \in kept, parent[r] # 0 PROVE parent[r] \in kept
    BY DEF Dialog!Nested
  <2>1. parent[r] \in connected /\ r \in Dialog!Panels
    BY DEF DialogInv, Dialog!Nested
  <2>2. ~Dialog!Within(parent[r], p)
    BY <2>1, DialogWithin
  <2> QED BY <2>1, <2>2
<1>3. gone \subseteq connected /\ connected \subseteq Dialog!Panels /\ kept \subseteq Dialog!Panels
  BY DEF DialogInv
<1>4. \A q \in kept : q \notin gone
  OBVIOUS
<1> HIDE DEF gone
<1>5. DOMAIN traps' = Dialog!Panels /\ \A q \in kept : traps'[q] = traps[q]
  BY <1>1, <1>3, <1>4
<1>6. connected' \subseteq Dialog!Mounted'
  BY <1>1, <1>3, <1>5 DEF DialogInv, Dialog!Mounted, Dialog!Panels, Dialog!NotMounted
<1>7. Dialog!Nested(connected)'
  BY <1>1, <1>2 DEF Dialog!Nested
<1>8. (dialogFocus = Dialog!Nowhere \/ Dialog!Reachable(dialogFocus))'
  <2>1. CASE places # {}
    BY <1>1, <2>1 DEF Dialog!Reachable, Dialog!Page, Dialog!In
  <2>2. CASE places = {}
    <3>1. CASE \E q \in gone : dialogFocus = Dialog!In(q)
      BY <1>1, <2>2, <3>1 DEF Dialog!Nowhere
    <3>2. CASE ~\E q \in gone : dialogFocus = Dialog!In(q)
      BY <1>1, <2>2, <3>2 DEF DialogInv, Dialog!Reachable, Dialog!Page, Dialog!In, Dialog!Nowhere
    <3> QED BY <3>1, <3>2
  <2> QED BY <2>1, <2>2
<1>9. \A q \in connected', r \in Dialog!Panels : traps'[q] = Dialog!In(r) => r \in opened'
  BY <1>1, <1>5 DEF DialogInv
<1>10. ASSUME NEW S \in SUBSET connected', S # {}
       PROVE  \E q \in S : \A r \in S : traps'[q] # Dialog!In(r)
  <2>1. S \in SUBSET connected
    BY <1>1
  <2>2. PICK q \in S : \A r \in S : traps[q] # Dialog!In(r)
    BY <1>10, <2>1 DEF DialogInv
  <2> QED BY <1>1, <1>5, <2>2
<1>11. ASSUME ~strayed', NEW q \in connected'
       PROVE  Dialog!Reachable(traps[q])'
  <2>1. Dialog!Reachable(traps[q]) /\ traps'[q] = traps[q]
    BY <1>1, <1>5, <1>11 DEF DialogInv
  <2>2. CASE traps[q] = Dialog!Page(pageNumber)
    BY <2>1, <2>2 DEF Dialog!Reachable, Dialog!Page
  <2>3. CASE traps[q] # Dialog!Page(pageNumber)
    <3>1. PICK r \in connected : traps[q] = Dialog!In(r)
      BY <2>1, <2>3 DEF Dialog!Reachable
    <3>2. r \in connected'
      BY <1>1, <1>11, <3>1
    <3> QED BY <2>1, <3>1, <3>2 DEF Dialog!Reachable, Dialog!In
  <2> QED BY <2>2, <2>3
<1>12. ASSUME connected' = {}, ~strayed'
       PROVE  dialogFocus' = Dialog!Page(pageNumber)
  <2>1. gone = connected /\ kept = {} /\ ~strayed
    BY <1>1, <1>3, <1>12
  <2>2. CASE connected = {}
    <3>1. places = {} /\ ~\E q \in gone : dialogFocus = Dialog!In(q)
      BY <2>1, <2>2
    <3> QED BY <1>1, <2>1, <2>2, <3>1 DEF DialogInv, Dialog!FocusComesBack
  <2>3. CASE connected # {}
    <3>1. PICK q \in connected : \A r \in connected : traps[q] # Dialog!In(r)
      BY <2>3 DEF DialogInv
    <3>2. traps[q] = Dialog!Page(pageNumber)
      BY <2>1, <3>1 DEF DialogInv, Dialog!Reachable
    <3>3. places = {Dialog!Page(pageNumber)}
      BY <2>1, <3>1, <3>2
    <3> QED BY <1>1, <3>3
  <2> QED BY <2>2, <2>3
<1>13. Dialog!FocusComesBack'
  BY <1>12 DEF Dialog!FocusComesBack, Dialog!Page
<1>14. connected' \subseteq opened'
  BY <1>1 DEF DialogInv
<1> QED BY <1>5, <1>6, <1>7, <1>8, <1>9, <1>10, <1>11, <1>13, <1>14
        DEF DialogInv, Dialog!Panels, Dialog!In

LEMMA DialogStep ==
    ASSUME DialogInv, [Dialog!DialogsNext]_dialogVars
    PROVE  DialogInv'
<1>1. ASSUME UNCHANGED <<parent, connected, traps, pageNumber, opened>>,
             pushes' \in Seq(Dialog!Panels),
             dialogFocus' = Dialog!Nowhere \/ Dialog!Reachable(dialogFocus'),
             ~strayed' => ~strayed \/ connected = {}, Dialog!FocusComesBack'
      PROVE  DialogInv'
  <2>1. \A spot : Dialog!Reachable(spot) <=> Dialog!Reachable(spot)'
    BY <1>1 DEF Dialog!Reachable, Dialog!Page, Dialog!In
  <2>2. /\ Dialog!Nested(connected)' /\ Dialog!Mounted' = Dialog!Mounted
    BY <1>1 DEF DialogInv, Dialog!Nested, Dialog!Mounted, Dialog!Panels, Dialog!NotMounted
  <2>3. (dialogFocus = Dialog!Nowhere \/ Dialog!Reachable(dialogFocus))'
    BY <1>1, <2>1
  <2>4. ~strayed' => \A p \in connected' : Dialog!Reachable(traps[p])'
    BY <1>1, <2>1 DEF DialogInv
  <2> QED BY <1>1, <2>2, <2>3, <2>4 DEF DialogInv, Dialog!Panels, Dialog!In
<1>2. CASE Dialog!Escape
  <2>1. UNCHANGED <<parent, connected, traps, pageNumber, opened, dialogFocus, strayed>>
    BY <1>2 DEF Dialog!Escape
  <2>2. pushes' \in Seq(Dialog!Panels)
    <3>1. pushes \in Seq(Dialog!Panels)
      BY DEF DialogInv
    <3>2. pushes' = pushes \/ \E p \in Dialog!Panels : pushes' = Append(pushes, p)
      BY <1>2 DEF Dialog!Escape
    <3> QED BY <3>1, <3>2, AppendProperties
  <2>3. Dialog!FocusComesBack'
    BY <2>1 DEF DialogInv, Dialog!FocusComesBack, Dialog!Page
  <2> QED BY <1>1, <2>1, <2>2, <2>3 DEF DialogInv
<1>3. CASE Dialog!Closed
  <2>1. pushes \in Seq(Dialog!Panels) /\ pushes # <<>> /\ pushes' = Tail(pushes)
    BY <1>3 DEF Dialog!Closed, DialogInv
  <2>2. Head(pushes) \in Dialog!Panels /\ pushes' \in Seq(Dialog!Panels)
    BY <2>1, HeadTailProperties
  <2> QED BY <1>3, <2>2, DialogRemoved DEF Dialog!Closed
<1>4. CASE Dialog!Navigate
  <2>1. /\ connected' = {} /\ pushes' = <<>> /\ dialogFocus' = Dialog!Nowhere /\ strayed' = TRUE
        /\ UNCHANGED <<parent, traps, opened>>
    BY <1>4 DEF Dialog!Navigate
  <2>2. Dialog!Nested(connected)' /\ Dialog!FocusComesBack' /\ pushes' \in Seq(Dialog!Panels)
    BY <2>1 DEF Dialog!Nested, Dialog!FocusComesBack
  <2>3. (dialogFocus = Dialog!Nowhere \/ Dialog!Reachable(dialogFocus))'
    BY <2>1 DEF Dialog!Nowhere
  <2> QED BY <2>1, <2>2, <2>3 DEF DialogInv, Dialog!Panels
<1>5. ASSUME NEW p \in Dialog!Panels, Dialog!ClosedOtherwise(p)
      PROVE  DialogInv'
  BY <1>5, DialogRemoved DEF Dialog!ClosedOtherwise, DialogInv
<1>6. ASSUME NEW p \in Dialog!Panels, Dialog!Destroyed(p)
      PROVE  DialogInv'
  <2>1. /\ p \notin connected /\ traps' = [traps EXCEPT ![p] = Dialog!NotMounted]
        /\ UNCHANGED <<parent, connected, dialogFocus, pageNumber, pushes, strayed, opened>>
    BY <1>6 DEF Dialog!Destroyed
  <2>2. DOMAIN traps' = Dialog!Panels /\ \A q \in connected : traps'[q] = traps[q]
    BY <2>1 DEF DialogInv
  <2>3. connected' \subseteq Dialog!Mounted'
    BY <2>1, <2>2 DEF DialogInv, Dialog!Mounted, Dialog!Panels, Dialog!NotMounted
  <2>4. \A spot : Dialog!Reachable(spot) <=> Dialog!Reachable(spot)'
    BY <2>1 DEF Dialog!Reachable, Dialog!Page, Dialog!In
  <2>5. /\ Dialog!Nested(connected)' /\ Dialog!FocusComesBack'
        /\ (dialogFocus = Dialog!Nowhere \/ Dialog!Reachable(dialogFocus))'
    BY <2>1 DEF DialogInv, Dialog!Nested, Dialog!FocusComesBack, Dialog!Page, Dialog!Nowhere,
                Dialog!Reachable, Dialog!In
  <2>6. ~strayed' => \A q \in connected' : Dialog!Reachable(traps[q])'
    BY <2>1, <2>2, <2>4 DEF DialogInv
  <2>7. \A S \in SUBSET connected' : S # {} => \E q \in S : \A r \in S : traps'[q] # Dialog!In(r)
    BY <2>1, <2>2 DEF DialogInv
  <2> QED BY <2>1, <2>2, <2>3, <2>5, <2>6, <2>7 DEF DialogInv, Dialog!Panels, Dialog!In
<1>7. ASSUME NEW spot, Dialog!MoveFocus(spot)
      PROVE  DialogInv'
  <2>1. /\ spot = Dialog!Nowhere \/ Dialog!Reachable(spot)
        /\ dialogFocus' = spot
        /\ strayed' = (spot = Dialog!Nowhere \/ (strayed /\ connected # {}))
        /\ UNCHANGED <<parent, connected, traps, pageNumber, pushes, opened>>
    BY <1>7 DEF Dialog!MoveFocus
  <2>2. Dialog!FocusComesBack'
    BY <2>1 DEF Dialog!FocusComesBack, Dialog!Reachable, Dialog!Page
  <2> QED BY <1>1, <2>1, <2>2 DEF DialogInv
<1>8. CASE UNCHANGED dialogVars
  <2>1. UNCHANGED <<parent, connected, traps, pageNumber, pushes, opened, dialogFocus, strayed>>
    BY <1>8 DEF dialogVars
  <2>2. Dialog!FocusComesBack'
    BY <2>1 DEF DialogInv, Dialog!FocusComesBack, Dialog!Page
  <2> QED BY <1>1, <2>1, <2>2 DEF DialogInv
<1> QED BY <1>2, <1>3, <1>4, <1>5, <1>6, <1>7, <1>8, DialogOpened DEF Dialog!DialogsNext

\* A panel comes before those inside of it.
LEMMA DialogOrder ==
    ASSUME DialogInv, NEW p \in Dialog!Panels, NEW q \in Dialog!Panels, Dialog!Within(p, q)
    PROVE  q <= p
<1> DEFINE S == {r \in Dialog!Panels : r <= p}
<1>1. S \in SUBSET Dialog!Panels /\ p \in S
  BY DEF Dialog!Panels
<1>2. Dialog!Nested(S)
  <2> SUFFICES ASSUME NEW r \in S, parent[r] # 0 PROVE parent[r] \in S
    BY DEF Dialog!Nested
  <2>1. parent[r] \in Dialog!Panels /\ parent[r] < r
    BY DEF DialogInv
  <2>2. parent[r] \in Int /\ r \in Int /\ p \in Int
    BY <2>1 DEF Dialog!Panels
  <2> QED BY <2>1, <2>2
<1>3. q \in S
  BY <1>1, <1>2 DEF Dialog!Within
<1> QED BY <1>3

\* The panel that answers is in the document, and no closable one on it has focus.
LEMMA DialogAnswers ==
    ASSUME DialogInv, NEW p \in Dialog!Panels, Dialog!Answers(p)
    PROVE  /\ p \in connected
           /\ \A q \in (connected \intersect closable) \ {p} :
                 Dialog!Within(q, p) \/ (q > p /\ ~Dialog!Within(p, q)) =>
                     Dialog!Holds(p, dialogFocus) /\ ~Dialog!Holds(q, dialogFocus)
<1>1. CASE /\ Dialog!Holds(p, dialogFocus)
           /\ \A q \in closable \intersect Dialog!Mounted :
                 Dialog!Holds(q, dialogFocus) => Dialog!Within(p, q)
  <2>1. PICK r \in Dialog!Panels : dialogFocus = Dialog!In(r) /\ Dialog!Within(r, p)
    BY <1>1 DEF Dialog!Holds
  <2>2. r \in connected
    BY <2>1, DialogPlaces DEF DialogInv, Dialog!Reachable
  <2>3. p \in connected
    BY <2>1, <2>2 DEF DialogInv, Dialog!Within
  <2>4. ASSUME NEW q \in (connected \intersect closable) \ {p},
               Dialog!Within(q, p) \/ (q > p /\ ~Dialog!Within(p, q))
        PROVE  ~Dialog!Holds(q, dialogFocus)
    <3> SUFFICES ASSUME Dialog!Within(p, q), Dialog!Within(q, p) PROVE FALSE
      BY <1>1, <2>4 DEF DialogInv
    <3>1. q \in Dialog!Panels
      BY DEF DialogInv
    <3>2. q <= p /\ p <= q
      BY <3>1, DialogOrder
    <3>3. p \in Int /\ q \in Int
      BY <3>1 DEF Dialog!Panels
    <3> QED BY <3>2, <3>3
  <2> QED BY <1>1, <2>3, <2>4
<1>2. CASE Dialog!Innermost(p)
  <2>1. p \in connected
    BY <1>2 DEF Dialog!Innermost
  <2>2. ASSUME NEW q \in (connected \intersect closable) \ {p}
        PROVE  ~Dialog!Within(q, p) /\ (Dialog!Within(p, q) \/ q < p)
    BY <1>2 DEF Dialog!Innermost, DialogInv
  <2>3. ASSUME NEW q \in connected
        PROVE  ~(q < p /\ q > p)
    <3>1. p \in Int /\ q \in Int
      BY DEF DialogInv, Dialog!Panels
    <3> QED BY <3>1
  <2> QED BY <2>1, <2>2, <2>3
<1> QED BY <1>1, <1>2 DEF Dialog!Answers

\* An Escape is for a dialog of the page, and not for one under another.
LEMMA DialogEscape ==
    ASSUME DialogInv, [Dialog!DialogsNext]_dialogVars, Len(pushes') > Len(pushes)
    PROVE  LET p == Dialog!Last(pushes')
           IN  /\ p \in connected
               /\ \A q \in (connected \intersect closable) \ {p} :
                     Dialog!Within(q, p) \/ (q > p /\ ~Dialog!Within(p, q)) =>
                         Dialog!Holds(p, dialogFocus) /\ ~Dialog!Holds(q, dialogFocus)
<1>1. pushes \in Seq(Dialog!Panels) /\ Len(pushes) \in Nat
  BY LenProperties DEF DialogInv
<1>2. pushes' # pushes
  BY <1>1
<1>3. CASE Dialog!Escape
  <2>1. PICK p \in Dialog!Panels : Dialog!Answers(p) /\ pushes' = Append(pushes, p)
    BY <1>2, <1>3 DEF Dialog!Escape
  <2>2. Dialog!Last(pushes') = p
    <3>1. Len(pushes') = Len(pushes) + 1 /\ pushes'[Len(pushes) + 1] = p
      BY <1>1, <2>1, AppendProperties
    <3> QED BY <3>1 DEF Dialog!Last
  <2> QED BY <2>1, <2>2, DialogAnswers
<1>4. CASE Dialog!Closed
  <2>1. Len(pushes') = Len(pushes) - 1
    BY <1>1, <1>4, HeadTailProperties DEF Dialog!Closed
  <2> QED BY <1>1, <2>1
<1>5. CASE Dialog!Navigate
  <2>1. Len(pushes') = 0
    BY <1>5 DEF Dialog!Navigate
  <2> QED BY <1>1, <2>1
<1>6. CASE \E p \in Dialog!Panels : Dialog!Open(p) \/ Dialog!ClosedOtherwise(p) \/ Dialog!Destroyed(p)
  BY <1>2, <1>6 DEF Dialog!Open, Dialog!ClosedOtherwise, Dialog!Destroyed
<1>7. CASE \E spot : Dialog!MoveFocus(spot)
  BY <1>2, <1>7 DEF Dialog!MoveFocus
<1>8. CASE UNCHANGED dialogVars
  BY <1>2, <1>8 DEF dialogVars
<1> QED BY <1>3, <1>4, <1>5, <1>6, <1>7, <1>8 DEF Dialog!DialogsNext

-----------------------------------------------------------------------------
(* Pasted markdown.                                                        *)

PastePieces == [kind : {"word", "doc", "plain"}, n : Nat]
PasteRanges == [from : Nat, to : Nat]
PasteCopies == [before : Seq(PastePieces), at : PasteRanges, settled : BOOLEAN]
Fits(r, d) == r \in PasteRanges /\ r.from <= r.to /\ r.to <= Len(d)

\* Where a place behind an insertion is in what was put behind it, and where it was
\* before; and where a place behind the span goes.
LEMMA PasteShift ==
    ASSUME NEW f \in Nat, NEW t \in Nat, NEW n \in Nat, f <= t, t <= n,
           NEW i \in (f + 2)..(f + 1 + (n - t))
    PROVE  /\ i \in 1..((f + 1) + (n - t)) /\ ~(i <= f + 1) /\ i - (f + 1) \in 1..(n - t)
           /\ t + (i - (f + 1)) = i - (f + 1) + t
OBVIOUS

LEMMA PasteWas ==
    ASSUME NEW f \in Nat, NEW t \in Nat, NEW n \in Nat, f <= t, t <= n,
           NEW i \in 1..(f + 1 + (n - t)), i # f + 1, ~(i <= f)
    PROVE  /\ i \in (f + 2)..(f + 1 + (n - t)) /\ i >= f + 2
           /\ i - (f + 1) + t \in 1..n
OBVIOUS

LEMMA PasteGoes ==
    ASSUME NEW f \in Nat, NEW t \in Nat, NEW n \in Nat, f <= t, t <= n,
           NEW j \in 1..n, j > t
    PROVE  /\ j - t + (f + 1) \in (f + 2)..(f + 1 + (n - t))
           /\ j - t + (f + 1) \in 1..(f + 1 + (n - t))
           /\ (j - t + (f + 1)) - (f + 1) + t = j
OBVIOUS

\* What an insertion leaves where it was, and what it moves.
InsertedAt(e, d, r, piece) ==
    /\ e \in Seq(PastePieces) /\ Len(e) = r.from + 1 + (Len(d) - r.to)
    /\ r.from \in Nat /\ r.to \in Nat /\ Len(d) \in Nat /\ r.from <= r.to /\ r.to <= Len(d)
    /\ \A i \in 1..r.from : e[i] = d[i]
    /\ e[r.from + 1] = piece
    /\ \A i \in (r.from + 2)..Len(e) : e[i] = d[i - (r.from + 1) + r.to]

LEMMA PasteInserted ==
    ASSUME NEW d \in Seq(PastePieces), NEW r, Fits(r, d), NEW piece \in PastePieces,
           NEW e, e = Paste!Inserted(d, r, piece)
    PROVE  InsertedAt(e, d, r, piece)
<1>1. r.from \in Nat /\ r.to \in Nat /\ Len(d) \in Nat /\ r.from <= r.to /\ r.to <= Len(d)
  BY LenProperties DEF Fits, PasteRanges
<1> DEFINE a == SubSeq(d, 1, r.from)
           b == SubSeq(d, r.to + 1, Len(d))
<1>2. \A i \in 1..Len(d) : d[i] \in PastePieces
  BY ElementOfSeq
<1>3. /\ a \in Seq(PastePieces) /\ Len(a) = r.from /\ \A i \in 1..r.from : a[i] = d[i]
  <2>1. \A i \in 1..r.from : d[i] \in PastePieces
    BY <1>1, <1>2
  <2>2. /\ a \in Seq(PastePieces) /\ Len(a) = IF 1 <= r.from THEN r.from - 1 + 1 ELSE 0
        /\ \A i \in 1..(r.from - 1 + 1) : a[i] = d[1 + i - 1]
    BY <1>1, <2>1, SubSeqProperties
  <2> HIDE DEF a
  <2> QED BY <1>1, <2>2
<1>4. /\ b \in Seq(PastePieces) /\ Len(b) = Len(d) - r.to
      /\ \A i \in 1..(Len(d) - r.to) : b[i] = d[r.to + i]
  <2>1. \A i \in (r.to + 1)..Len(d) : d[i] \in PastePieces
    BY <1>1, <1>2
  <2>2. /\ b \in Seq(PastePieces)
        /\ Len(b) = IF r.to + 1 <= Len(d) THEN Len(d) - (r.to + 1) + 1 ELSE 0
        /\ \A i \in 1..(Len(d) - (r.to + 1) + 1) : b[i] = d[(r.to + 1) + i - 1]
    BY <1>1, <2>1, SubSeqProperties
  <2> HIDE DEF b
  <2>3. ASSUME NEW i \in 1..(Len(d) - r.to)
        PROVE  b[i] = d[r.to + i]
    <3>1. i \in 1..(Len(d) - (r.to + 1) + 1) /\ (r.to + 1) + i - 1 = r.to + i
      BY <1>1
    <3> QED BY <2>2, <3>1
  <2> QED BY <1>1, <2>2, <2>3
<1>5. e = (a \o <<piece>>) \o b
  BY DEF Paste!Inserted
<1> HIDE DEF a, b
<1>6. /\ a \o <<piece>> \in Seq(PastePieces) /\ Len(a \o <<piece>>) = r.from + 1
      /\ \A i \in 1..r.from : (a \o <<piece>>)[i] = d[i]
      /\ (a \o <<piece>>)[r.from + 1] = piece
  <2>1. a \o <<piece>> = Append(a, piece)
    BY <1>3, AppendIsConcat
  <2> QED BY <1>1, <1>3, <2>1, AppendProperties
<1> DEFINE c == a \o <<piece>>
<1>7. c \in Seq(PastePieces) /\ Len(c) = r.from + 1 /\ e = c \o b
      /\ (\A i \in 1..r.from : c[i] = d[i]) /\ c[r.from + 1] = piece
  BY <1>5, <1>6
<1> HIDE DEF c
<1>8. /\ e \in Seq(PastePieces) /\ Len(e) = Len(c) + Len(b)
      /\ \A i \in 1..(Len(c) + Len(b)) : e[i] = IF i <= Len(c) THEN c[i] ELSE b[i - Len(c)]
  <2>1. /\ c \o b \in Seq(PastePieces) /\ Len(c \o b) = Len(c) + Len(b)
        /\ \A i \in 1..(Len(c) + Len(b)) :
              (c \o b)[i] = IF i <= Len(c) THEN c[i] ELSE b[i - Len(c)]
    BY <1>4, <1>7, ConcatProperties
  <2> QED BY <1>7, <2>1
<1>9. Len(e) = r.from + 1 + (Len(d) - r.to)
  BY <1>4, <1>7, <1>8
<1>10. \A i \in 1..(r.from + 1) : e[i] = c[i]
  BY <1>1, <1>4, <1>7, <1>8
<1>11. ASSUME NEW i \in (r.from + 2)..Len(e)
       PROVE  e[i] = d[i - (r.from + 1) + r.to]
  <2>1. Len(c) = r.from + 1 /\ Len(b) = Len(d) - r.to
    BY <1>4, <1>7
  <2>2. i \in (r.from + 2)..(r.from + 1 + (Len(d) - r.to))
    BY <1>9
  <2>3. /\ i \in 1..((r.from + 1) + (Len(d) - r.to)) /\ ~(i <= r.from + 1)
        /\ i - (r.from + 1) \in 1..(Len(d) - r.to)
        /\ r.to + (i - (r.from + 1)) = i - (r.from + 1) + r.to
    BY <1>1, <2>2, PasteShift, ZenonT(20)
  <2>4. i \in 1..(Len(c) + Len(b)) /\ ~(i <= Len(c)) /\ i - Len(c) \in 1..(Len(d) - r.to)
    BY <2>1, <2>3
  <2>5. e[i] = b[i - Len(c)]
    BY <1>8, <2>4
  <2>6. b[i - Len(c)] = d[r.to + (i - Len(c))]
    BY <1>4, <2>4
  <2>7. r.to + (i - Len(c)) = i - (r.from + 1) + r.to
    BY <2>1, <2>3
  <2> QED BY <2>5, <2>6, <2>7
<1>12. /\ \A i \in 1..r.from : e[i] = d[i]
       /\ e[r.from + 1] = piece
  <2>1. r.from + 1 \in 1..(r.from + 1) /\ \A i \in 1..r.from : i \in 1..(r.from + 1)
    BY <1>1
  <2> QED BY <1>7, <1>10, <2>1
<1> QED BY <1>1, <1>8, <1>9, <1>11, <1>12 DEF InsertedAt

\* A piece of the new document is the one put in, or is where a piece of the old
\* one was or went, and no two are where one was.
LEMMA PasteOrigins ==
    ASSUME NEW d \in Seq(PastePieces), NEW r, Fits(r, d), NEW piece \in PastePieces,
           NEW e, e = Paste!Inserted(d, r, piece)
    PROVE  \E origin \in [1..Len(e) -> Int] :
              \A i \in 1..Len(e) :
                 \/ i = r.from + 1 /\ e[i] = piece
                 \/ /\ i # r.from + 1 /\ origin[i] \in 1..Len(d) /\ e[i] = d[origin[i]]
                    /\ \A j \in 1..Len(e) : j # r.from + 1 /\ origin[j] = origin[i] => j = i
<1>0. InsertedAt(e, d, r, piece)
  BY PasteInserted
<1>1. /\ Len(e) = r.from + 1 + (Len(d) - r.to)
      /\ r.from \in Nat /\ r.to \in Nat /\ Len(d) \in Nat /\ r.from <= r.to /\ r.to <= Len(d)
  BY <1>0 DEF InsertedAt
<1>2. e[r.from + 1] = piece
  BY <1>0 DEF InsertedAt
<1>3. \A i \in 1..r.from : e[i] = d[i]
  BY <1>0 DEF InsertedAt
<1>4. \A i \in (r.from + 2)..Len(e) : e[i] = d[i - (r.from + 1) + r.to]
  BY <1>0 DEF InsertedAt
<1> DEFINE origin == [i \in 1..Len(e) |-> IF i <= r.from THEN i ELSE i - (r.from + 1) + r.to]
<1>5. origin \in [1..Len(e) -> Int]
      /\ \A i \in 1..Len(e) : origin[i] = IF i <= r.from THEN i ELSE i - (r.from + 1) + r.to
  BY <1>1
<1> HIDE DEF origin
<1>6. ASSUME NEW i \in 1..Len(e), i # r.from + 1
      PROVE  /\ origin[i] \in 1..Len(d) /\ e[i] = d[origin[i]]
             /\ i <= r.from => origin[i] = i
             /\ ~(i <= r.from) => origin[i] = i - (r.from + 1) + r.to /\ i >= r.from + 2
  <2>1. CASE i <= r.from
    <3>1. i \in 1..r.from /\ origin[i] = i /\ i \in 1..Len(d)
      BY <1>1, <1>5, <2>1
    <3> QED BY <1>3, <2>1, <3>1
  <2>2. CASE ~(i <= r.from)
    <3>1. origin[i] = i - (r.from + 1) + r.to
      BY <1>5, <2>2
    <3>2. i \in 1..(r.from + 1 + (Len(d) - r.to))
      BY <1>1
    <3>3. /\ i \in (r.from + 2)..(r.from + 1 + (Len(d) - r.to)) /\ i >= r.from + 2
          /\ i - (r.from + 1) + r.to \in 1..Len(d)
      BY <1>1, <1>6, <2>2, <3>2, PasteWas, ZenonT(20)
    <3>4. i \in (r.from + 2)..Len(e)
      BY <1>1, <3>3
    <3> QED BY <1>4, <2>2, <3>1, <3>3, <3>4
  <2> QED BY <2>1, <2>2
<1>7. ASSUME NEW i \in 1..Len(e), i # r.from + 1, NEW j \in 1..Len(e), j # r.from + 1,
             origin[i] = origin[j]
      PROVE  i = j
  <2>1. /\ i <= r.from => origin[i] = i
        /\ ~(i <= r.from) => origin[i] = i - (r.from + 1) + r.to /\ i >= r.from + 2
        /\ j <= r.from => origin[j] = j
        /\ ~(j <= r.from) => origin[j] = j - (r.from + 1) + r.to /\ j >= r.from + 2
    BY <1>6, <1>7
  <2>2. i \in Int /\ j \in Int
    OBVIOUS
  <2>3. CASE i <= r.from
    <3>1. CASE j <= r.from
      BY <1>7, <2>1, <2>3, <3>1
    <3>2. CASE ~(j <= r.from)
      <4>1. i = j - (r.from + 1) + r.to /\ j >= r.from + 2
        BY <1>7, <2>1, <2>3, <3>2
      <4> QED BY <1>1, <2>2, <2>3, <4>1
    <3> QED BY <3>1, <3>2
  <2>4. CASE ~(i <= r.from)
    <3>1. CASE j <= r.from
      <4>1. j = i - (r.from + 1) + r.to /\ i >= r.from + 2
        BY <1>7, <2>1, <2>4, <3>1
      <4> QED BY <1>1, <2>2, <3>1, <4>1
    <3>2. CASE ~(j <= r.from)
      <4>1. i - (r.from + 1) + r.to = j - (r.from + 1) + r.to
        BY <1>7, <2>1, <2>4, <3>2
      <4> QED BY <1>1, <2>2, <4>1
    <3> QED BY <3>1, <3>2
  <2> QED BY <2>3, <2>4
<1>8. ASSUME NEW i \in 1..Len(e)
      PROVE  \/ i = r.from + 1 /\ e[i] = piece
             \/ /\ i # r.from + 1 /\ origin[i] \in 1..Len(d) /\ e[i] = d[origin[i]]
                /\ \A j \in 1..Len(e) : j # r.from + 1 /\ origin[j] = origin[i] => j = i
  <2>1. CASE i = r.from + 1
    BY <1>2, <2>1
  <2>2. CASE i # r.from + 1
    BY <1>6, <1>7, <2>2
  <2> QED BY <2>1, <2>2
<1> QED BY <1>5, <1>8

\* What is not selected stays.
LEMMA PasteKeeps ==
    ASSUME NEW d \in Seq(PastePieces), NEW r, Fits(r, d), NEW piece \in PastePieces,
           NEW e, e = Paste!Inserted(d, r, piece)
    PROVE  Paste!Among(d) \ Paste!Among(e) \subseteq Paste!Covered(r, d)
<1>0. InsertedAt(e, d, r, piece)
  BY PasteInserted
<1>1. /\ Len(e) = r.from + 1 + (Len(d) - r.to)
      /\ r.from \in Nat /\ r.to \in Nat /\ Len(d) \in Nat /\ r.from <= r.to /\ r.to <= Len(d)
  BY <1>0 DEF InsertedAt
<1>4. /\ \A i \in 1..r.from : e[i] = d[i]
      /\ \A i \in (r.from + 2)..Len(e) : e[i] = d[i - (r.from + 1) + r.to]
  BY <1>0 DEF InsertedAt
<1> SUFFICES ASSUME NEW j \in 1..Len(d), d[j] \notin Paste!Among(e)
             PROVE  j \in (r.from + 1)..r.to
  BY DEF Paste!Among, Paste!Covered
<1>2. CASE j <= r.from
  <2>1. j \in 1..r.from /\ j \in 1..Len(e)
    BY <1>1, <1>2
  <2> QED BY <1>4, <2>1 DEF Paste!Among
<1>3. CASE j > r.to
  <2> DEFINE i == j - r.to + (r.from + 1)
  <2>1. /\ i \in (r.from + 2)..(r.from + 1 + (Len(d) - r.to))
        /\ i \in 1..(r.from + 1 + (Len(d) - r.to))
        /\ i - (r.from + 1) + r.to = j
    BY <1>1, <1>3, PasteGoes, SMTT(40)
  <2> HIDE DEF i
  <2>2. i \in (r.from + 2)..Len(e) /\ i \in 1..Len(e)
    BY <1>1, <2>1
  <2>3. e[i] = d[j]
    BY <1>4, <2>1, <2>2
  <2> QED BY <2>2, <2>3 DEF Paste!Among
<1> QED BY <1>1, <1>2, <1>3

OncePerPaste(d) ==
    \A i, j \in 1..Len(d) : d[i].kind # "word" /\ d[j].kind # "word" /\ d[i].n = d[j].n => i = j
Landed(d, copies) ==
    \A i \in 1..Len(d) : d[i].kind # "word" =>
                            d[i].n \in 1..Len(copies) /\ copies[d[i].n].settled
NotIn(d, k) == \A i \in 1..Len(d) : d[i].kind # "word" => d[i].n # k

\* What is put in is there once if it was not there.
LEMMA PasteOnce ==
    ASSUME NEW d \in Seq(PastePieces), NEW r, Fits(r, d), NEW piece \in PastePieces,
           NEW e, e = Paste!Inserted(d, r, piece),
           OncePerPaste(d), piece.kind = "word" \/ NotIn(d, piece.n)
    PROVE  OncePerPaste(e)
<1>1. PICK origin \in [1..Len(e) -> Int] :
              \A i \in 1..Len(e) :
                 \/ i = r.from + 1 /\ e[i] = piece
                 \/ /\ i # r.from + 1 /\ origin[i] \in 1..Len(d) /\ e[i] = d[origin[i]]
                    /\ \A j \in 1..Len(e) : j # r.from + 1 /\ origin[j] = origin[i] => j = i
  BY PasteOrigins
<1> SUFFICES ASSUME NEW i \in 1..Len(e), NEW j \in 1..Len(e),
                    e[i].kind # "word", e[j].kind # "word", e[i].n = e[j].n
             PROVE  i = j
  BY DEF OncePerPaste
<1>2. CASE i = r.from + 1
  BY <1>1, <1>2 DEF NotIn
<1>3. CASE i # r.from + 1
  <2>1. origin[i] \in 1..Len(d) /\ e[i] = d[origin[i]]
    BY <1>1, <1>3
  <2>2. CASE j = r.from + 1
    BY <1>1, <2>1, <2>2 DEF NotIn
  <2>3. CASE j # r.from + 1
    <3>1. origin[j] \in 1..Len(d) /\ e[j] = d[origin[j]]
      BY <1>1, <2>3
    <3>2. origin[i] = origin[j]
      BY <2>1, <3>1 DEF OncePerPaste
    <3> QED BY <1>1, <1>3, <2>3, <3>2
  <2> QED BY <2>2, <2>3
<1> QED BY <1>2, <1>3

LEMMA PasteLanded ==
    ASSUME NEW d \in Seq(PastePieces), NEW r, Fits(r, d), NEW piece \in PastePieces,
           NEW e, e = Paste!Inserted(d, r, piece), NEW copies, Landed(d, copies),
           piece.kind # "word" => piece.n \in 1..Len(copies) /\ copies[piece.n].settled
    PROVE  Landed(e, copies)
<1>1. PICK origin \in [1..Len(e) -> Int] :
              \A i \in 1..Len(e) :
                 \/ i = r.from + 1 /\ e[i] = piece
                 \/ i # r.from + 1 /\ origin[i] \in 1..Len(d) /\ e[i] = d[origin[i]]
  BY PasteOrigins
<1> QED BY <1>1 DEF Landed

\* A piece that is not of the old document is the one that was put in.
LEMMA PasteAdds ==
    ASSUME NEW d \in Seq(PastePieces), NEW r, Fits(r, d), NEW piece \in PastePieces,
           NEW e, e = Paste!Inserted(d, r, piece)
    PROVE  Paste!Among(e) \subseteq Paste!Among(d) \union {piece}
<1>1. PICK origin \in [1..Len(e) -> Int] :
              \A i \in 1..Len(e) :
                 \/ i = r.from + 1 /\ e[i] = piece
                 \/ i # r.from + 1 /\ origin[i] \in 1..Len(d) /\ e[i] = d[origin[i]]
  BY PasteOrigins
<1> QED BY <1>1 DEF Paste!Among

\* The caret after what was put in.
LEMMA PasteCaret ==
    ASSUME NEW d \in Seq(PastePieces), NEW r, Fits(r, d), NEW piece \in PastePieces,
           NEW e, e = Paste!Inserted(d, r, piece)
    PROVE  e \in Seq(PastePieces) /\ Fits(Paste!Range(r.from + 1, r.from + 1), e)
<1>0. InsertedAt(e, d, r, piece)
  BY PasteInserted
<1>1. /\ e \in Seq(PastePieces) /\ Len(e) = r.from + 1 + (Len(d) - r.to)
      /\ r.from \in Nat /\ r.to \in Nat /\ Len(d) \in Nat /\ r.from <= r.to /\ r.to <= Len(d)
  BY <1>0 DEF InsertedAt
<1> DEFINE caret == Paste!Range(r.from + 1, r.from + 1)
<1>2. caret \in PasteRanges /\ caret.from = r.from + 1 /\ caret.to = r.from + 1
  BY <1>1 DEF Paste!Range, PasteRanges
<1> HIDE DEF caret
<1>3. caret.to <= Len(e) /\ caret.from <= caret.to
  BY <1>1, <1>2
<1>4. Fits(caret, e)
  BY <1>2, <1>3 DEF Fits
<1> QED BY <1>1, <1>4 DEF caret

\* The last landing can be taken back: it is what the document is, and was not in
\* the one before.
LastLanding ==
    /\ last.prior \in Seq(PastePieces) /\ Fits(last.range, last.prior)
    /\ OncePerPaste(last.prior) /\ Landed(last.prior, pastes) /\ NotIn(last.prior, last.paste)
    /\ last.paste \in 1..Len(pastes) /\ pastes[last.paste].settled
    /\ doc = last.doc
    /\ doc = Paste!Inserted(last.prior, last.range, Paste!Piece("doc", last.paste))

\* Only pastes that are settled have a piece in the document, each one; ranges are
\* of the documents they select in.
PasteInv ==
    /\ doc \in Seq(PastePieces) /\ Fits(selection, doc)
    /\ OncePerPaste(doc) /\ Landed(doc, pastes)
    /\ pastes \in Seq(PasteCopies) /\ typing \in Nat
    /\ \A k \in 1..Len(pastes) : Fits(pastes[k].at, pastes[k].before)
    /\ pasteNotice = "shown" => last.paste # 0
    /\ last.paste # 0 => LastLanding

LEMMA PasteInitInv == Paste!PasteInit => PasteInv
<1> SUFFICES ASSUME Paste!PasteInit PROVE PasteInv
  OBVIOUS
<1>1. /\ doc = <<[kind |-> "word", n |-> 0]>> /\ pastes = <<>> /\ last.paste = 0
      /\ pasteNotice = "hidden" /\ typing = 0
      /\ selection \in {[from |-> 0, to |-> 1], [from |-> 1, to |-> 1]}
  BY DEF Paste!PasteInit, Paste!NoLast, Paste!Piece, Paste!Range
<1>2. [kind |-> "word", n |-> 0] \in PastePieces
  BY DEF PastePieces
<1>3. doc \in Seq(PastePieces) /\ Len(doc) = 1 /\ doc[1].kind = "word"
  BY <1>1, <1>2
<1>4. Fits(selection, doc)
  BY <1>1, <1>3 DEF Fits, PasteRanges
<1>5. OncePerPaste(doc) /\ Landed(doc, pastes)
  <2>1. \A i \in 1..Len(doc) : i = 1
    BY <1>3
  <2> QED BY <1>3, <2>1 DEF OncePerPaste, Landed
<1>6. pastes \in Seq(PasteCopies) /\ Len(pastes) = 0
  BY <1>1
<1>7. \A k \in 1..Len(pastes) : Fits(pastes[k].at, pastes[k].before)
  BY <1>6
<1> QED BY <1>1, <1>3, <1>4, <1>5, <1>6, <1>7 DEF PasteInv

\* An edit that puts a settled paste, or a word, in.
LEMMA PasteEdited ==
    ASSUME PasteInv, NEW r, Fits(r, doc), NEW piece \in PastePieces, Paste!Edited(r, piece),
           Landed(doc, pastes'), piece.kind = "word" \/ NotIn(doc, piece.n),
           piece.kind # "word" => piece.n \in 1..Len(pastes') /\ pastes'[piece.n].settled
    PROVE  /\ doc' \in Seq(PastePieces) /\ Fits(selection', doc')
           /\ OncePerPaste(doc') /\ Landed(doc', pastes')
<1>1. /\ doc' = Paste!Inserted(doc, r, piece)
      /\ selection' = Paste!Range(r.from + 1, r.from + 1)
      /\ doc \in Seq(PastePieces) /\ OncePerPaste(doc)
  BY DEF Paste!Edited, PasteInv
<1>2. doc' \in Seq(PastePieces) /\ Fits(Paste!Range(r.from + 1, r.from + 1), doc')
  BY <1>1, PasteCaret
<1>3. OncePerPaste(doc')
  BY <1>1, PasteOnce
<1>4. Landed(doc', pastes')
  BY <1>1, PasteLanded
<1> QED BY <1>1, <1>2, <1>3, <1>4

\* Pastes are only added and settled.
PastesGrow ==
    \A k \in 1..Len(pastes) : k \in 1..Len(pastes') /\ (pastes[k].settled => pastes'[k].settled)

LEMMA PasteStaysLanded ==
    ASSUME NEW d, Landed(d, pastes), PastesGrow
    PROVE  Landed(d, pastes')
BY DEF Landed, PastesGrow

LEMMA PasteLastStays ==
    ASSUME PasteInv, last.paste # 0, PastesGrow, UNCHANGED <<doc, last>>
    PROVE  LastLanding'
<1>1. LastLanding
  BY DEF PasteInv
<1>2. Landed(last.prior, pastes')
  BY <1>1, PasteStaysLanded DEF LastLanding
<1>3. last.paste \in 1..Len(pastes') /\ pastes'[last.paste].settled
  BY <1>1 DEF LastLanding, PastesGrow
<1> QED BY <1>1, <1>2, <1>3 DEF LastLanding, Fits, OncePerPaste, NotIn, Paste!Inserted, Paste!Piece

LEMMA PasteUpdated ==
    ASSUME PasteInv, Paste!Updated(doc'), PastesGrow
    PROVE  /\ pasteNotice' = "shown" => last'.paste # 0
           /\ last'.paste # 0 => LastLanding'
<1>1. CASE last.paste # 0 /\ doc' # last.doc
  <2>1. last'.paste = 0 /\ pasteNotice' = "hidden"
    BY <1>1 DEF Paste!Updated, Paste!NoLast
  <2> QED BY <2>1
<1>2. CASE last.paste # 0 /\ doc' = last.doc
  <2>1. last' = last /\ pasteNotice' = pasteNotice /\ doc' = doc
    BY <1>2 DEF Paste!Updated, PasteInv, LastLanding
  <2> QED BY <1>2, <2>1, PasteLastStays
<1>3. CASE last.paste = 0
  <2>1. last' = last /\ pasteNotice' = pasteNotice
    BY <1>3 DEF Paste!Updated
  <2> QED BY <1>3, <2>1 DEF PasteInv
<1> QED BY <1>1, <1>2, <1>3

LEMMA PasteSame ==
    ASSUME PasteInv, pastes' = pastes
    PROVE  PastesGrow /\ Landed(doc, pastes')
           /\ pastes' \in Seq(PasteCopies)
           /\ \A k \in 1..Len(pastes') : Fits(pastes'[k].at, pastes'[k].before)
BY DEF PasteInv, PastesGrow

LEMMA PasteTyped ==
    ASSUME PasteInv, Paste!TypeOver
    PROVE  PasteInv'
<1> DEFINE piece == Paste!Piece("word", typing + 1)
<1>1. /\ Paste!Edited(selection, piece) /\ Paste!Updated(doc')
      /\ typing' = typing + 1 /\ pastes' = pastes
  BY DEF Paste!TypeOver, Paste!Acts
<1>2. piece \in PastePieces /\ piece.kind = "word" /\ typing' \in Nat
  BY <1>1 DEF PasteInv, PastePieces, Paste!Piece
<1> HIDE DEF piece
<1>3. Fits(selection, doc)
  BY DEF PasteInv
<1>4. /\ doc' \in Seq(PastePieces) /\ Fits(selection', doc')
      /\ OncePerPaste(doc') /\ Landed(doc', pastes')
  BY <1>1, <1>2, <1>3, PasteSame, PasteEdited
<1>5. /\ pasteNotice' = "shown" => last'.paste # 0
      /\ last'.paste # 0 => LastLanding'
  BY <1>1, PasteSame, PasteUpdated
<1> QED BY <1>1, <1>2, <1>4, <1>5, PasteSame DEF PasteInv, Fits, OncePerPaste, Landed

LEMMA PasteConverted ==
    ASSUME PasteInv, Paste!Convert
    PROVE  PasteInv'
<1> DEFINE copy == [before |-> doc, at |-> selection, settled |-> FALSE]
<1>1. pastes' = Append(pastes, copy) /\ UNCHANGED <<doc, selection, last, pasteNotice, typing>>
  BY DEF Paste!Convert
<1>2. copy \in PasteCopies /\ copy.before = doc /\ copy.at = selection
  BY DEF PasteInv, Fits, PasteCopies
<1> HIDE DEF copy
<1>3. /\ pastes' \in Seq(PasteCopies) /\ Len(pastes') = Len(pastes) + 1 /\ Len(pastes) \in Nat
      /\ pastes'[Len(pastes) + 1] = copy /\ \A k \in 1..Len(pastes) : pastes'[k] = pastes[k]
  BY <1>1, <1>2, AppendProperties, LenProperties DEF PasteInv
<1>4. PastesGrow
  BY <1>3 DEF PastesGrow
<1>5. \A k \in 1..Len(pastes') : Fits(pastes'[k].at, pastes'[k].before)
  <2>1. \A k \in 1..Len(pastes') : k = Len(pastes) + 1 \/ k \in 1..Len(pastes)
    BY <1>3
  <2> QED BY <1>2, <1>3, <2>1 DEF PasteInv
<1>6. Landed(doc, pastes')
  BY <1>4, PasteStaysLanded DEF PasteInv
<1>7. last.paste # 0 => LastLanding'
  BY <1>1, <1>4, PasteLastStays
<1> QED BY <1>1, <1>3, <1>5, <1>6, <1>7 DEF PasteInv, Fits, OncePerPaste, Landed

\* A paste is settled, and nothing else about any paste changes.
LEMMA PasteSettled ==
    ASSUME PasteInv, NEW k \in 1..Len(pastes), pastes' = [pastes EXCEPT ![k].settled = TRUE]
    PROVE  /\ pastes' \in Seq(PasteCopies) /\ Len(pastes') = Len(pastes) /\ PastesGrow
           /\ pastes'[k].settled
           /\ \A j \in 1..Len(pastes') : Fits(pastes'[j].at, pastes'[j].before)
<1>1. pastes \in Seq(PasteCopies) /\ pastes[k] \in PasteCopies /\ k \in DOMAIN pastes
  BY ElementOfSeq, LenProperties DEF PasteInv
<1> DEFINE copy == [pastes[k] EXCEPT !.settled = TRUE]
<1>2. /\ copy \in PasteCopies /\ copy.settled = TRUE
      /\ copy.at = pastes[k].at /\ copy.before = pastes[k].before
  BY <1>1 DEF PasteCopies
<1>3. pastes' = [pastes EXCEPT ![k] = copy]
  BY <1>1
<1> HIDE DEF copy
<1>4. /\ pastes' \in Seq(PasteCopies) /\ Len(pastes') = Len(pastes)
      /\ \A j \in 1..Len(pastes) : pastes'[j] = IF j = k THEN copy ELSE pastes[j]
  <2> DEFINE later == [pastes EXCEPT ![k] = copy]
  <2>1. /\ later \in Seq(PasteCopies) /\ Len(later) = Len(pastes)
        /\ \A j \in 1..Len(pastes) : later[j] = IF j = k THEN copy ELSE pastes[j]
    BY <1>1, <1>2, ExceptSeq
  <2> QED BY <1>3, <2>1
<1> QED BY <1>2, <1>4 DEF PasteInv, PastesGrow

\* Where a reply lands, and of a paste that has no piece in the document.
LEMMA PasteTarget ==
    ASSUME PasteInv, NEW k \in 1..Len(pastes), ~pastes[k].settled
    PROVE  Fits(Paste!Target(k), doc) /\ NotIn(doc, k)
BY DEF PasteInv, Paste!Target, NotIn, Landed

LEMMA PasteLands ==
    ASSUME PasteInv, NEW k \in 1..Len(pastes), NEW form \in {"doc", "plain"},
           Paste!Land(k, form)
    PROVE  PasteInv'
<1> DEFINE piece == Paste!Piece(form, k)
           r == Paste!Target(k)
<1>1. /\ ~pastes[k].settled /\ pastes' = [pastes EXCEPT ![k].settled = TRUE]
      /\ Paste!Edited(r, piece) /\ typing' = typing
  BY DEF Paste!Land
<1>2. piece \in PastePieces /\ piece.n = k /\ k \in Nat
  <2>1. Len(pastes) \in Nat
    BY LenProperties DEF PasteInv
  <2> QED BY <2>1 DEF PastePieces, Paste!Piece
<1>3. Fits(r, doc) /\ NotIn(doc, k)
  BY <1>1, PasteTarget
<1>4. /\ pastes' \in Seq(PasteCopies) /\ Len(pastes') = Len(pastes) /\ PastesGrow
      /\ pastes'[k].settled
      /\ \A j \in 1..Len(pastes') : Fits(pastes'[j].at, pastes'[j].before)
  BY <1>1, PasteSettled
<1>5. Landed(doc, pastes')
  BY <1>4, PasteStaysLanded DEF PasteInv
<1>6. /\ form = "doc" => /\ last' = [paste |-> k, prior |-> doc, range |-> r, doc |-> doc']
                          /\ pasteNotice' = "shown" /\ piece = Paste!Piece("doc", k)
      /\ form # "doc" => Paste!Updated(doc')
  BY DEF Paste!Land
<1>7. doc' = Paste!Inserted(doc, r, piece)
  BY <1>1 DEF Paste!Edited
<1> HIDE DEF piece, r
<1>8. /\ doc' \in Seq(PastePieces) /\ Fits(selection', doc')
      /\ OncePerPaste(doc') /\ Landed(doc', pastes')
  BY <1>1, <1>2, <1>3, <1>4, <1>5, PasteEdited
<1>9. /\ pasteNotice' = "shown" => last'.paste # 0
      /\ last'.paste # 0 => LastLanding'
  <2>1. CASE form = "doc"
    <3>1. /\ last'.paste = k /\ last'.prior = doc /\ last'.range = r /\ last'.doc = doc'
          /\ piece = Paste!Piece("doc", k) /\ k # 0
      BY <1>6, <2>1
    <3>2. doc \in Seq(PastePieces) /\ OncePerPaste(doc)
      BY DEF PasteInv
    <3>3. doc' = Paste!Inserted(last'.prior, last'.range, Paste!Piece("doc", last'.paste))
      BY <1>7, <3>1
    <3> QED BY <1>3, <1>4, <1>5, <3>1, <3>2, <3>3
            DEF LastLanding, Fits, OncePerPaste, NotIn, Landed, Paste!Inserted, Paste!Piece
  <2>2. CASE form # "doc"
    BY <1>4, <1>6, <2>2, PasteUpdated
  <2> QED BY <2>1, <2>2
<1> QED BY <1>1, <1>4, <1>8, <1>9 DEF PasteInv, Fits, OncePerPaste, Landed

\* The notice takes the last landing back, or puts the text in its place.
LEMMA PasteTaken ==
    ASSUME PasteInv, Paste!Undo \/ Paste!AsPlain
    PROVE  PasteInv' /\ last.paste # 0 /\ LastLanding
<1>1. /\ last'.paste = 0 /\ pasteNotice' = "hidden" /\ pastes' = pastes /\ typing' = typing + 1
      /\ last.paste # 0
  BY DEF Paste!Undo, Paste!AsPlain, Paste!Take, Paste!Acts, Paste!NoLast, PasteInv
<1>2. LastLanding /\ Paste!Taken /\ typing' \in Nat
  BY <1>1 DEF PasteInv, LastLanding, Paste!Taken
<1>3. /\ last.prior \in Seq(PastePieces) /\ Fits(last.range, last.prior)
      /\ OncePerPaste(last.prior) /\ Landed(last.prior, pastes) /\ NotIn(last.prior, last.paste)
      /\ last.paste \in 1..Len(pastes) /\ pastes[last.paste].settled
  BY <1>2 DEF LastLanding
<1>4. /\ doc' \in Seq(PastePieces) /\ Fits(selection', doc')
      /\ OncePerPaste(doc') /\ Landed(doc', pastes')
  <2>1. CASE Paste!Undo
    <3>1. doc' = last.prior /\ selection' = last.range
      BY <1>2, <2>1 DEF Paste!Undo
    <3> QED BY <1>1, <1>3, <3>1
  <2>2. CASE Paste!AsPlain
    <3> DEFINE piece == Paste!Piece("plain", last.paste)
    <3>1. /\ doc' = Paste!Inserted(last.prior, last.range, piece)
          /\ selection' = Paste!Range(last.range.from + 1, last.range.from + 1)
      BY <1>2, <2>2 DEF Paste!AsPlain
    <3>2. piece \in PastePieces /\ piece.n = last.paste
      <4>1. Len(pastes) \in Nat
        BY LenProperties DEF PasteInv
      <4>2. last.paste \in Nat
        BY <1>3, <4>1
      <4> QED BY <4>2 DEF PastePieces, Paste!Piece
    <3> HIDE DEF piece
    <3>3. doc' \in Seq(PastePieces) /\ Fits(selection', doc')
      BY <1>3, <3>1, <3>2, PasteCaret
    <3>4. OncePerPaste(doc')
      BY <1>3, <3>1, <3>2, PasteOnce
    <3>5. Landed(doc', pastes')
      BY <1>1, <1>3, <3>1, <3>2, PasteLanded
    <3> QED BY <3>3, <3>4, <3>5
  <2> QED BY <2>1, <2>2
<1> QED BY <1>1, <1>2, <1>4, PasteSame DEF PasteInv, Fits, OncePerPaste, Landed

LEMMA PasteStep ==
    ASSUME PasteInv, [Paste!PasteNext]_pasteVars
    PROVE  PasteInv'
<1>1. ASSUME UNCHANGED <<doc, pastes, last>>, Fits(selection', doc), typing' \in Nat,
             pasteNotice' = "shown" => pasteNotice = "shown"
      PROVE  PasteInv'
  <2>1. last.paste # 0 => LastLanding'
    BY <1>1, PasteSame, PasteLastStays
  <2>2. Fits(selection', doc') /\ OncePerPaste(doc') /\ Landed(doc', pastes')
    BY <1>1 DEF PasteInv
  <2> QED BY <1>1, <2>1, <2>2, PasteSame DEF PasteInv, Fits, OncePerPaste, Landed
<1>2. ASSUME NEW from \in 0..Len(doc), NEW to \in 0..Len(doc), Paste!Select(Paste!Range(from, to))
      PROVE  PasteInv'
  <2> DEFINE range == Paste!Range(from, to)
  <2>1. range \in PasteRanges
    <3>1. Len(doc) \in Nat
      BY LenProperties DEF PasteInv
    <3> QED BY <3>1 DEF PasteRanges, Paste!Range
  <2>2. /\ range.from <= range.to /\ range.to <= Len(doc) /\ selection' = range
        /\ typing' = typing + 1 /\ UNCHANGED <<doc, pastes, last, pasteNotice>>
    BY <1>2 DEF Paste!Select, Paste!Acts
  <2> HIDE DEF range
  <2>3. Fits(selection', doc) /\ typing' \in Nat
    BY <2>1, <2>2 DEF Fits, PasteInv
  <2> QED BY <1>1, <2>2, <2>3
<1>3. CASE Paste!NoticeHides
  <2>1. Fits(selection, doc) /\ typing \in Nat
    BY DEF PasteInv
  <2> QED BY <1>1, <1>3, <2>1 DEF Paste!NoticeHides
<1>4. CASE UNCHANGED pasteVars
  <2>1. Fits(selection, doc) /\ typing \in Nat
    BY DEF PasteInv
  <2> QED BY <1>1, <1>4, <2>1 DEF pasteVars
<1>5. ASSUME NEW k \in 1..Len(pastes), Paste!Replied(k) \/ Paste!GaveUp(k)
      PROVE  PasteInv'
  BY <1>5, PasteLands DEF Paste!Replied, Paste!GaveUp
<1> QED BY <1>2, <1>3, <1>4, <1>5, PasteTyped, PasteConverted, PasteTaken DEF Paste!PasteNext

LEMMA PasteLandsOnce == PasteInv => Paste!LandsOnce
BY DEF PasteInv, LastLanding, OncePerPaste, Paste!LandsOnce

\* Two insertions in one place differ in what was put in.
LEMMA PasteSwapped ==
    ASSUME NEW d \in Seq(PastePieces), NEW r, Fits(r, d),
           NEW piece \in PastePieces, NEW other \in PastePieces,
           NEW e, e = Paste!Inserted(d, r, piece), NEW f, f = Paste!Inserted(d, r, other)
    PROVE  \A i \in 1..Len(e) : e[i] = piece \/ (i \in 1..Len(f) /\ f[i] = e[i])
<1>0. InsertedAt(e, d, r, piece) /\ InsertedAt(f, d, r, other)
  BY PasteInserted
<1>1. /\ Len(e) = r.from + 1 + (Len(d) - r.to)
      /\ r.from \in Nat /\ r.to \in Nat /\ Len(d) \in Nat /\ r.from <= r.to /\ r.to <= Len(d)
  BY <1>0 DEF InsertedAt
<1>2. Len(f) = r.from + 1 + (Len(d) - r.to)
  BY <1>0 DEF InsertedAt
<1>3. e[r.from + 1] = piece
  BY <1>0 DEF InsertedAt
<1>4. \A i \in 1..r.from : e[i] = d[i] /\ f[i] = d[i]
  <2>1. \A i \in 1..r.from : e[i] = d[i]
    BY <1>0 DEF InsertedAt
  <2>2. \A i \in 1..r.from : f[i] = d[i]
    BY <1>0 DEF InsertedAt
  <2> QED BY <2>1, <2>2
<1>5. \A i \in (r.from + 2)..Len(e) : e[i] = d[i - (r.from + 1) + r.to]
  BY <1>0 DEF InsertedAt
<1>6. \A i \in (r.from + 2)..Len(f) : f[i] = d[i - (r.from + 1) + r.to]
  BY <1>0 DEF InsertedAt
<1>7. Len(f) = Len(e)
  BY <1>1, <1>2
<1>8. ASSUME NEW i \in 1..Len(e), i # r.from + 1
      PROVE  f[i] = e[i]
  <2>1. i \in 1..r.from \/ i \in (r.from + 2)..Len(e)
    BY <1>1, <1>8
  <2>2. CASE i \in 1..r.from
    BY <1>4, <2>2
  <2>3. CASE i \in (r.from + 2)..Len(e)
    BY <1>5, <1>6, <1>7, <2>3
  <2> QED BY <2>1, <2>2, <2>3
<1> QED BY <1>3, <1>7, <1>8

\* What goes from the document was selected, now or when the paste was made, or was
\* what the notice takes back.
LEMMA PasteTakes ==
    ASSUME PasteInv, [Paste!PasteNext]_pasteVars
    PROVE  \A piece \in Paste!Among(doc) \ Paste!Among(doc') :
              \/ piece \in Paste!Covered(selection, doc)
              \/ \E k \in 1..Len(pastes) :
                    /\ ~pastes[k].settled /\ pastes'[k].settled
                    /\ piece \in Paste!Covered(pastes[k].at, pastes[k].before)
              \/ piece = Paste!Piece("doc", last.paste)
<1>1. doc \in Seq(PastePieces) /\ Fits(selection, doc)
  BY DEF PasteInv
<1>2. CASE Paste!TypeOver
  <2> DEFINE new == Paste!Piece("word", typing + 1)
  <2>1. doc' = Paste!Inserted(doc, selection, new)
    BY <1>2 DEF Paste!TypeOver, Paste!Edited
  <2>2. new \in PastePieces
    BY DEF PasteInv, PastePieces, Paste!Piece
  <2> HIDE DEF new
  <2> QED BY <1>1, <2>1, <2>2, PasteKeeps
<1>3. ASSUME NEW k \in 1..Len(pastes), Paste!Replied(k) \/ Paste!GaveUp(k)
      PROVE  \A piece \in Paste!Among(doc) \ Paste!Among(doc') :
                \/ piece \in Paste!Covered(selection, doc)
                \/ /\ ~pastes[k].settled /\ pastes'[k].settled
                   /\ piece \in Paste!Covered(pastes[k].at, pastes[k].before)
  <2>1. PICK form \in {"doc", "plain"} : Paste!Land(k, form)
    BY <1>3 DEF Paste!Replied, Paste!GaveUp
  <2> DEFINE new == Paste!Piece(form, k)
             r == Paste!Target(k)
  <2>2. /\ doc' = Paste!Inserted(doc, r, new) /\ ~pastes[k].settled
        /\ pastes' = [pastes EXCEPT ![k].settled = TRUE]
    BY <2>1 DEF Paste!Land, Paste!Edited
  <2>3. new \in PastePieces
    <3>1. k \in Nat
      <4>1. Len(pastes) \in Nat
        BY LenProperties DEF PasteInv
      <4> QED BY <4>1
    <3> QED BY <3>1 DEF PastePieces, Paste!Piece
  <2>4. Fits(r, doc) /\ pastes'[k].settled
    BY <2>2, PasteTarget, PasteSettled
  <2>5. Paste!Covered(r, doc) \in {Paste!Covered(selection, doc),
                                   Paste!Covered(pastes[k].at, pastes[k].before)}
    BY DEF Paste!Target
  <2> HIDE DEF new, r
  <2>6. Paste!Among(doc) \ Paste!Among(doc') \subseteq Paste!Covered(r, doc)
    BY <1>1, <2>2, <2>3, <2>4, PasteKeeps
  <2> QED BY <2>2, <2>4, <2>5, <2>6
<1>4. CASE Paste!Undo \/ Paste!AsPlain
  <2> DEFINE taken == Paste!Piece("doc", last.paste)
             plain == Paste!Piece("plain", last.paste)
  <2>1. LastLanding /\ Paste!Taken
    BY <1>4, PasteTaken DEF LastLanding, Paste!Taken
  <2>2. /\ last.prior \in Seq(PastePieces) /\ Fits(last.range, last.prior)
        /\ doc = Paste!Inserted(last.prior, last.range, taken)
    BY <2>1 DEF LastLanding
  <2>3. taken \in PastePieces /\ plain \in PastePieces
    <3>1. last.paste \in Nat
      <4>1. Len(pastes) \in Nat
        BY LenProperties DEF PasteInv
      <4> QED BY <2>1, <4>1 DEF LastLanding
    <3> QED BY <3>1 DEF PastePieces, Paste!Piece
  <2>4. doc' \in {last.prior, Paste!Inserted(last.prior, last.range, plain)}
    BY <1>4, <2>1 DEF Paste!Undo, Paste!AsPlain
  <2> HIDE DEF taken, plain
  <2>5. Paste!Among(doc) \subseteq Paste!Among(last.prior) \union {taken}
    BY <2>2, <2>3, PasteAdds
  <2>6. CASE doc' = last.prior
    BY <2>5, <2>6 DEF taken
  <2>7. CASE doc' = Paste!Inserted(last.prior, last.range, plain)
    <3>1. \A i \in 1..Len(doc) : doc[i] = taken \/ (i \in 1..Len(doc') /\ doc'[i] = doc[i])
      BY <2>2, <2>3, <2>7, PasteSwapped
    <3> QED BY <3>1 DEF Paste!Among, taken
  <2> QED BY <2>4, <2>6, <2>7
<1>5. CASE UNCHANGED doc
  BY <1>5 DEF Paste!Among
<1> QED BY <1>2, <1>3, <1>4, <1>5
        DEF Paste!PasteNext, Paste!Convert, Paste!NoticeHides, Paste!Select, pasteVars

-----------------------------------------------------------------------------
(* Types.                                                                  *)

LEMMA FoldTypes ==
    /\ AccordionInit => AccordionTypeOK
    /\ AccordionTypeOK /\ [AccordionNext]_accordionVars => AccordionTypeOK'
<1>1. AccordionInit => AccordionTypeOK
  BY DEF AccordionInit, AccordionTypeOK
<1>2. ASSUME AccordionTypeOK, [AccordionNext]_accordionVars PROVE AccordionTypeOK'
  <2>1. \A value \in BOOLEAN : Set(value) => open' \in BOOLEAN /\ told' \in 0..1
    BY <1>2 DEF Set, AccordionTypeOK
  <2>2. \A b : Say(b) \in {"unset", "open", "closed"}
    BY DEF Say
  <2>3. ASSUME NEW value \in BOOLEAN, Patched(value) PROVE AccordionTypeOK'
    BY <1>2, <2>1, <2>2, <2>3 DEF Patched, AccordionTypeOK
  <2>4. CASE Toggle
    BY <1>2, <2>1, <2>4 DEF Toggle, AccordionTypeOK
  <2>5. CASE ToggleEvent
    BY <1>2, <2>2, <2>5 DEF ToggleEvent, AccordionTypeOK
  <2>6. CASE Patch
    BY <1>2, <2>3, <2>6 DEF Patch, AccordionTypeOK
  <2>7. CASE ForceSection
    BY <1>2, <2>3, <2>7 DEF ForceSection, AccordionTypeOK
  <2>8. CASE UNCHANGED accordionVars
    BY <1>2, <2>8 DEF accordionVars, AccordionTypeOK
  <2> QED BY <1>2, <2>4, <2>5, <2>6, <2>7, <2>8 DEF AccordionNext
<1> QED BY <1>1, <1>2

\* What is drawn is a day of the grid: the server only draws those.
CalTyped == Cal!CalendarTypeOK /\ drawings \in Seq(Days)

LEMMA CalTypes ==
    /\ Cal!CalendarInit => CalTyped
    /\ CalTyped /\ [Cal!CalendarNext]_calVars => CalTyped'
<1>1. ASSUME Cal!CalendarInit PROVE CalTyped
  <2>1. /\ due \in Days /\ events = due /\ cell = due /\ dated = due
        /\ messages = 0 /\ requery = FALSE /\ unsure = FALSE /\ drawings = <<>>
    BY <1>1, Zenon DEF Cal!CalendarInit
  <2>2. drawings \in Seq(Days)
    BY <2>1
  <2> QED BY <2>1, <2>2 DEF CalTyped, Cal!CalendarTypeOK
<1>2. ASSUME CalTyped, [Cal!CalendarNext]_calVars PROVE CalTyped'
  <2>0. /\ due \in Days /\ events \in Days /\ cell \in Days /\ dated \in Days
        /\ messages \in Nat /\ requery \in BOOLEAN /\ unsure \in BOOLEAN /\ drawings \in Seq(Days)
    BY <1>2 DEF CalTyped, Cal!CalendarTypeOK
  <2>1. \A day \in Days : Cal!Reload(day) => events' \in Days /\ drawings' \in Seq(Days)
    BY <2>0, AppendProperties DEF Cal!Reload
  <2>2. CASE Cal!DropChip
    BY <2>0, <2>2 DEF Cal!DropChip, Cal!Reschedule, Cal!Behind, CalTyped, Cal!CalendarTypeOK
  <2>3. CASE Cal!Nudge
    BY <2>0, <2>3 DEF Cal!Nudge, Cal!Reschedule, Cal!Behind, CalTyped, Cal!CalendarTypeOK
  <2>4. CASE Cal!HandleMove
    <3>1. UNCHANGED <<requery, cell, dated>>
      BY <2>4 DEF Cal!HandleMove
    <3>2. CASE Cal!Accepted(Head(dayMoves))
      <4>1. /\ due' = Head(dayMoves) /\ messages' = messages + 1 /\ unsure' = unsure
            /\ Cal!Reload(Head(dayMoves))
        BY <2>4, <3>2 DEF Cal!HandleMove
      <4>2. due' \in Days /\ events' \in Days /\ drawings' \in Seq(Days)
        BY <2>1, <3>2, <4>1 DEF Cal!Accepted
      <4> QED BY <2>0, <3>1, <4>1, <4>2 DEF CalTyped, Cal!CalendarTypeOK
    <3>3. CASE ~Cal!Accepted(Head(dayMoves))
      <4>1. due' = due /\ messages' = messages /\ unsure' = TRUE /\ Cal!Reload(due)
        BY <2>4, <3>3 DEF Cal!HandleMove
      <4>2. events' \in Days /\ drawings' \in Seq(Days)
        BY <2>0, <2>1, <4>1
      <4> QED BY <2>0, <3>1, <4>1, <4>2 DEF CalTyped, Cal!CalendarTypeOK
    <3> QED BY <3>2, <3>3
  <2>5. CASE Cal!OthersMove
    BY <2>0, <2>5 DEF Cal!OthersMove, CalTyped, Cal!CalendarTypeOK
  <2>6. CASE Cal!CalendarChanged
    BY <2>0, <2>6 DEF Cal!CalendarChanged, CalTyped, Cal!CalendarTypeOK
  <2>7. CASE Cal!RequeryCalendar
    BY <2>0, <2>1, <2>7 DEF Cal!RequeryCalendar, CalTyped, Cal!CalendarTypeOK
  <2>8. CASE Cal!DrawGrid
    <3>1. drawings # <<>> /\ drawings' = Tail(drawings) /\ cell' = Head(drawings) /\ dated' = Head(drawings)
      BY <2>8 DEF Cal!DrawGrid
    <3>2. Head(drawings) \in Days /\ Tail(drawings) \in Seq(Days)
      BY <2>0, <3>1, HeadTailProperties, TailItems
    <3> QED BY <2>0, <2>8, <3>1, <3>2 DEF Cal!DrawGrid, CalTyped, Cal!CalendarTypeOK
  <2>9. CASE UNCHANGED calVars
    BY <2>0, <2>9 DEF calVars, CalTyped, Cal!CalendarTypeOK
  <2> QED BY <1>2, <2>2, <2>3, <2>4, <2>5, <2>6, <2>7, <2>8, <2>9 DEF Cal!CalendarNext
<1> QED BY <1>1, <1>2

FlashTyped ==
    Flash!FlashTypeOK /\ renders \in Seq(Messages \union {Flash!NoFlash})

LEMMA FlashTypes ==
    /\ Flash!FlashInit => FlashTyped
    /\ FlashTyped /\ [Flash!FlashNext]_flashVars => FlashTyped'
<1> DEFINE Looks == Messages \union {Flash!NoFlash}
<1>1. ASSUME Flash!FlashInit PROVE FlashTyped
  <2>1. /\ flash = Flash!NoFlash /\ drawn = Flash!NoFlash /\ clears = 0 /\ renders = <<>>
        /\ hidden = FALSE /\ ticking = FALSE /\ over = {}
    BY <1>1 DEF Flash!FlashInit
  <2>2. renders \in Seq(Looks)
    BY <2>1
  <2> QED BY <2>1, <2>2 DEF FlashTyped, Flash!FlashTypeOK
<1>2. ASSUME FlashTyped, [Flash!FlashNext]_flashVars PROVE FlashTyped'
  <2>0. /\ flash \in Looks /\ drawn \in Looks /\ hidden \in BOOLEAN /\ ticking \in BOOLEAN
        /\ over \subseteq {"hovered", "focused"} /\ clears \in Nat /\ renders \in Seq(Looks)
    BY <1>2 DEF FlashTyped, Flash!FlashTypeOK
  <2>1. \A message \in Looks : Flash!Render(message) => flash' \in Looks /\ renders' \in Seq(Looks)
    BY <2>0, AppendProperties DEF Flash!Render
  <2>2. CASE Flash!PutFlash
    BY <2>0, <2>1, <2>2 DEF Flash!PutFlash, FlashTyped, Flash!FlashTypeOK
  <2>3. CASE Flash!ClearFlash
    BY <2>0, <2>1, <2>3 DEF Flash!ClearFlash, FlashTyped, Flash!FlashTypeOK
  <2>4. CASE Flash!Draw
    <3>1. renders # <<>> /\ renders' = Tail(renders) /\ drawn' = Head(renders)
      BY <2>4 DEF Flash!Draw
    <3>2. Head(renders) \in Looks /\ Tail(renders) \in Seq(Looks)
      BY <2>0, <3>1, HeadTailProperties, TailItems
    <3> QED BY <2>0, <2>4, <3>1, <3>2 DEF Flash!Draw, Flash!Started, FlashTyped, Flash!FlashTypeOK
  <2>5. CASE Flash!Enter
    BY <2>0, <2>5 DEF Flash!Enter, FlashTyped, Flash!FlashTypeOK
  <2>6. CASE Flash!Leave
    BY <2>0, <2>6 DEF Flash!Leave, Flash!Started, FlashTyped, Flash!FlashTypeOK
  <2>7. CASE Flash!Dismiss
    <3>1. /\ ticking' = FALSE /\ hidden' = TRUE /\ clears' = clears + 1
          /\ UNCHANGED <<flash, renders, drawn, over>>
      BY <2>7 DEF Flash!Dismiss, Flash!Close
    <3>2. clears' \in Nat
      BY <2>0, <3>1
    <3>3. /\ flash' \in Looks /\ renders' \in Seq(Looks) /\ drawn' \in Looks
          /\ over' \subseteq {"hovered", "focused"}
      BY <2>0, <3>1
    <3>4. hidden' \in BOOLEAN /\ ticking' \in BOOLEAN
      BY <3>1
    <3> QED BY <3>2, <3>3, <3>4 DEF FlashTyped, Flash!FlashTypeOK
  <2>8. CASE Flash!Click
    BY <2>0, <2>8 DEF Flash!Click, Flash!Close, FlashTyped, Flash!FlashTypeOK
  <2>9. CASE UNCHANGED flashVars
    BY <2>0, <2>9 DEF flashVars, FlashTyped, Flash!FlashTypeOK
  <2> QED BY <1>2, <2>2, <2>3, <2>4, <2>5, <2>6, <2>7, <2>8, <2>9 DEF Flash!FlashNext
<1> QED BY <1>1, <1>2

\* What is created is what was typed.
TagTyped ==
    /\ Tag!TagTypeOK
    /\ asks \in Seq([op : {"filter_tags", "create_tag"}, q : Names \union {Tag!Nothing}, cut : BOOLEAN])
    /\ \A k \in 1..Len(asks) : asks[k].op = "create_tag" => asks[k].q \in Names

LEMMA TagTypes ==
    /\ Tag!TagInit => TagTyped
    /\ TagTyped /\ [Tag!TagNext]_tagVars => TagTyped'
<1> DEFINE Asks == [op : {"filter_tags", "create_tag"}, q : Names \union {Tag!Nothing}, cut : BOOLEAN]
<1>1. ASSUME Tag!TagInit PROVE TagTyped
  <2>1. asks = <<>> /\ Len(asks) = 0 /\ asks \in Seq(Asks)
    BY <1>1 DEF Tag!TagInit
  <2>2. \A k \in 1..Len(asks) : FALSE
    BY <2>1
  <2> QED BY <1>1, <2>1, <2>2 DEF Tag!TagInit, TagTyped, Tag!TagTypeOK
<1>2. ASSUME TagTyped, [Tag!TagNext]_tagVars PROVE TagTyped'
  <2>0. /\ box \in Names \union {Tag!Nothing} /\ query \in Names \union {Tag!Nothing}
        /\ timer \in BOOLEAN /\ conflict \in BOOLEAN /\ ticked \subseteq tags /\ tags \subseteq Names
        /\ asks \in Seq(Asks)
        /\ \A k \in 1..Len(asks) : asks[k].op = "create_tag" => asks[k].q \in Names
    BY <1>2 DEF TagTyped, Tag!TagTypeOK
  <2>1. ASSUME NEW a \in Asks, asks' = Append(asks, a), a.op = "create_tag" => a.q \in Names
        PROVE /\ asks' \in Seq(Asks)
              /\ \A k \in 1..Len(asks') : asks'[k].op = "create_tag" => asks'[k].q \in Names
    <3>0. Len(asks) \in Nat
      BY <2>0, LenProperties
    <3>1. /\ Append(asks, a) \in Seq(Asks) /\ Len(Append(asks, a)) = Len(asks) + 1
          /\ \A k \in 1..Len(asks) : Append(asks, a)[k] = asks[k]
          /\ Append(asks, a)[Len(asks) + 1] = a
      BY <2>0, AppendProperties, LenProperties
    <3>2. ASSUME NEW k \in 1..(Len(asks) + 1) PROVE k \in 1..Len(asks) \/ k = Len(asks) + 1
      BY <3>0
    <3> QED BY <2>0, <2>1, <3>1, <3>2
  <2>2. ASSUME asks # <<>>, asks' = Tail(asks)
        PROVE /\ asks' \in Seq(Asks) /\ Head(asks) \in Asks
              /\ Head(asks).op = "create_tag" => Head(asks).q \in Names
              /\ \A k \in 1..Len(asks') : asks'[k].op = "create_tag" => asks'[k].q \in Names
    <3>1. /\ Head(asks) \in Asks /\ Head(asks) = asks[1] /\ Tail(asks) \in Seq(Asks)
          /\ Len(asks) \in Nat /\ Len(asks) >= 1
          /\ \A k \in 1..Len(Tail(asks)) : k + 1 \in 1..Len(asks) /\ Tail(asks)[k] = asks[k + 1]
      <4>1. asks \in Seq(Asks)
        BY <2>0
      <4> HIDE DEF Asks
      <4>2. /\ Head(asks) = asks[1] /\ Tail(asks) \in Seq(Asks) /\ Len(asks) \in Nat /\ Len(asks) > 0
            /\ \A k \in 1..Len(Tail(asks)) :
                  k + 1 \in 1..Len(asks) /\ Tail(asks)[k] = asks[k + 1]
        BY <2>2, <4>1, TailItems
      <4>3. Head(asks) \in Asks
        BY <2>2, <4>1, HeadTailProperties
      <4> QED BY <4>2, <4>3
    <3>2. 1 \in 1..Len(asks)
      BY <3>1
    <3> QED BY <2>0, <2>2, <3>1, <3>2
  <2>3. CASE Tag!Type
    BY <2>0, <2>3 DEF Tag!Type, TagTyped, Tag!TagTypeOK
  <2>4. CASE Tag!Debounced
    <3>1. /\ [op |-> "filter_tags", q |-> box, cut |-> FALSE] \in Asks
          /\ asks' = Append(asks, [op |-> "filter_tags", q |-> box, cut |-> FALSE])
      BY <2>0, <2>4 DEF Tag!Debounced
    <3>2. [op |-> "filter_tags", q |-> box, cut |-> FALSE].op # "create_tag"
      OBVIOUS
    <3>3. asks' \in Seq(Asks) /\ \A k \in 1..Len(asks') : asks'[k].op = "create_tag" => asks'[k].q \in Names
      BY <2>1, <3>1, <3>2
    <3> QED BY <2>0, <2>4, <3>3 DEF Tag!Debounced, TagTyped, Tag!TagTypeOK
  <2>5. CASE Tag!Enter
    <3>1. /\ [op |-> "create_tag", q |-> box, cut |-> timer] \in Asks /\ box \in Names
          /\ asks' = Append(asks, [op |-> "create_tag", q |-> box, cut |-> timer])
      BY <2>0, <2>5 DEF Tag!Enter
    <3>3. asks' \in Seq(Asks) /\ \A k \in 1..Len(asks') : asks'[k].op = "create_tag" => asks'[k].q \in Names
      BY <2>1, <3>1
    <3> QED BY <2>0, <2>5, <3>3 DEF Tag!Enter, TagTyped, Tag!TagTypeOK
  <2>6. CASE Tag!FilterTags
    <3>1. asks # <<>> /\ asks' = Tail(asks) /\ query' = Head(asks).q
      BY <2>6 DEF Tag!FilterTags
    <3> QED BY <2>0, <2>2, <2>6, <3>1 DEF Tag!FilterTags, TagTyped, Tag!TagTypeOK
  <2>7. CASE Tag!CreateTag
    <3>1. asks # <<>> /\ asks' = Tail(asks) /\ Head(asks).op = "create_tag" /\ query' = Tag!Nothing
          /\ tags' = tags \union {Head(asks).q} /\ ticked' = ticked \union {Head(asks).q}
      BY <2>7 DEF Tag!CreateTag
    <3> QED BY <2>0, <2>2, <2>7, <3>1 DEF Tag!CreateTag, TagTyped, Tag!TagTypeOK
  <2>8. CASE Tag!RefuseTag
    <3>1. asks # <<>> /\ asks' = Tail(asks)
      BY <2>8 DEF Tag!RefuseTag
    <3> QED BY <2>0, <2>2, <2>8, <3>1 DEF Tag!RefuseTag, TagTyped, Tag!TagTypeOK
  <2>9. CASE Tag!Conflict
    BY <2>0, <2>9 DEF Tag!Conflict, TagTyped, Tag!TagTypeOK
  <2>10. CASE Tag!Reset
    BY <2>0, <2>10 DEF Tag!Reset, TagTyped, Tag!TagTypeOK
  <2>11. CASE UNCHANGED tagVars
    BY <2>0, <2>11 DEF tagVars, TagTyped, Tag!TagTypeOK
  <2> QED BY <1>2, <2>3, <2>4, <2>5, <2>6, <2>7, <2>8, <2>9, <2>10, <2>11 DEF Tag!TagNext
<1> QED BY <1>1, <1>2

LEMMA DialogTypes ==
    /\ Dialog!DialogsInit => strayed \in BOOLEAN
    /\ strayed \in BOOLEAN /\ [Dialog!DialogsNext]_dialogVars => strayed' \in BOOLEAN
<1>1. Dialog!DialogsInit => strayed \in BOOLEAN
  BY DEF Dialog!DialogsInit
<1>2. ASSUME strayed \in BOOLEAN, [Dialog!DialogsNext]_dialogVars PROVE strayed' \in BOOLEAN
  <2>1. CASE Dialog!Escape
    BY <1>2, <2>1 DEF Dialog!Escape
  <2>2. CASE Dialog!Closed
    BY <1>2, <2>2 DEF Dialog!Closed, Dialog!Removed
  <2>3. CASE Dialog!Navigate
    BY <1>2, <2>3 DEF Dialog!Navigate
  <2>4. ASSUME NEW p \in Dialog!Panels, Dialog!Open(p) PROVE strayed' \in BOOLEAN
    BY <1>2, <2>4 DEF Dialog!Open
  <2>5. ASSUME NEW p \in Dialog!Panels, Dialog!ClosedOtherwise(p) PROVE strayed' \in BOOLEAN
    BY <1>2, <2>5 DEF Dialog!ClosedOtherwise, Dialog!Removed
  <2>6. ASSUME NEW p \in Dialog!Panels, Dialog!Destroyed(p) PROVE strayed' \in BOOLEAN
    BY <1>2, <2>6 DEF Dialog!Destroyed
  <2>7. ASSUME NEW to, Dialog!MoveFocus(to) PROVE strayed' \in BOOLEAN
    BY <1>2, <2>7 DEF Dialog!MoveFocus
  <2>8. CASE UNCHANGED dialogVars
    BY <1>2, <2>8 DEF dialogVars
  <2> QED BY <1>2, <2>1, <2>2, <2>3, <2>4, <2>5, <2>6, <2>7, <2>8 DEF Dialog!DialogsNext
<1> QED BY <1>1, <1>2

\* A call that subscribes, or clears the way to, is about a key of the site; so is
\* whatever is made.
PushKeyedCalls ==
    {call \in [step : {"sync", "register", "drop", "subscribe", "disable"},
               key : Push!Keys \union {0}] :
        call.step \in {"drop", "subscribe"} => call.key \in Push!Keys}

PushKeyed ==
    /\ siteKey \in Push!Keys /\ made \in Seq(Push!Keys)
    /\ \A row \in rows : row \in [endpoint : Nat, key : Push!Keys]
    /\ pushView \in [key : Push!Keys, on : BOOLEAN] /\ pushPage \in [key : Push!Keys, on : BOOLEAN]
    /\ tasks \in Seq(PushKeyedCalls)
    /\ inbox \in Seq(PushEvents)
    /\ granted \in BOOLEAN /\ rushed \in BOOLEAN
    /\ clicks \in 0..MaxClicks /\ hitches \in 0..MaxHitches

LEMMA PushTypes == PushInv /\ PushKeyed => Push!PushTypeOK
<1> SUFFICES ASSUME PushInv, PushKeyed PROVE Push!PushTypeOK
  OBVIOUS
<1>1. rows \subseteq [endpoint : 1..Len(made), key : Push!Keys]
  <2>1. ASSUME NEW row \in rows PROVE row \in [endpoint : 1..Len(made), key : Push!Keys]
    <3>1. row \in [endpoint : Nat, key : Push!Keys] /\ row.endpoint \in 1..Len(made)
      BY DEF PushInv, PushRecords, PushKeyed
    <3> QED BY <3>1
  <2> QED BY <2>1
<1>2. subscription \in 1..Len(made) \union {0}
  <2>1. made \in Seq(Nat) /\ subscription \in 0..Len(made)
    BY DEF PushInv, PushRecords
  <2>2. Len(made) \in Nat
    BY <2>1, LenProperties
  <2> QED BY <2>1, <2>2
<1>3. tasks \in Seq([step : {"sync", "register", "drop", "subscribe", "disable"},
                     key : Push!Keys \union {0}])
  <2> DEFINE calls == [step : {"sync", "register", "drop", "subscribe", "disable"},
                       key : Push!Keys \union {0}]
  <2>1. PushKeyedCalls \subseteq calls /\ tasks \in Seq(PushKeyedCalls)
    BY DEF PushKeyed, PushKeyedCalls
  <2> HIDE DEF calls
  <2>2. tasks \in Seq(calls)
    BY <2>1
  <2> QED BY <2>2 DEF calls
<1> QED BY <1>1, <1>2, <1>3 DEF PushKeyed, Push!PushTypeOK, Push!Endpoints, Push!NoEndpoint

LEMMA PushKeyedStart == Push!PushInit => PushKeyed
<1> SUFFICES ASSUME Push!PushInit PROVE PushKeyed
  OBVIOUS
<1>1. /\ siteKey = 1 /\ rows = {} /\ made = <<>> /\ tasks = <<>> /\ inbox = <<>>
      /\ pushView = [key |-> 1, on |-> FALSE] /\ pushPage = pushView
      /\ granted \in BOOLEAN /\ rushed = FALSE /\ clicks = 0 /\ hitches = 0
  BY DEF Push!PushInit, Push!Assigns
<1>2. 1 \in Push!Keys /\ 0 \in 0..MaxClicks /\ 0 \in 0..MaxHitches
  BY PushAssumption DEF Push!Keys
<1>3. made \in Seq(Push!Keys) /\ tasks \in Seq(PushKeyedCalls) /\ inbox \in Seq(PushEvents)
  BY <1>1
<1> QED BY <1>1, <1>2, <1>3 DEF PushKeyed

LEMMA PushCounted ==
    ASSUME PushKeyed
    PROVE  /\ Push!Hitch => hitches' \in 0..MaxHitches
           /\ Push!Clicked => clicks' \in 0..MaxClicks
<1>1. clicks \in 0..MaxClicks /\ hitches \in 0..MaxHitches
  BY DEF PushKeyed
<1> QED BY <1>1, PushAssumption DEF Push!Hitch, Push!Clicked

LEMMA PushWithout ==
    ASSUME NEW S, NEW s \in Seq(S), NEW i \in 1..Len(s)
    PROVE  Push!Without(s, i) \in Seq(S)
<1>1. Len(s) \in Nat /\ i \in Int
  BY LenProperties
<1>2. SubSeq(s, 1, i - 1) \in Seq(S)
  <2>1. \A k \in 1..(i - 1) : k \in 1..Len(s)
    BY <1>1
  <2>2. \A k \in 1..(i - 1) : s[k] \in S
    BY <2>1, ElementOfSeq
  <2> QED BY <1>1, <2>2, SubSeqProperties
<1>3. SubSeq(s, i + 1, Len(s)) \in Seq(S)
  <2>1. \A k \in (i + 1)..Len(s) : k \in 1..Len(s)
    BY <1>1
  <2>2. \A k \in (i + 1)..Len(s) : s[k] \in S
    BY <2>1, ElementOfSeq
  <2> QED BY <1>1, <2>2, SubSeqProperties
<1> QED BY <1>2, <1>3, ConcatProperties DEF Push!Without

LEMMA PushEnded ==
    ASSUME PushKeyed, NEW i \in 1..Len(tasks), NEW event \in PushEvents, Push!Ends(i, event)
    PROVE  tasks' \in Seq(PushKeyedCalls) /\ inbox' \in Seq(PushEvents)
<1>1. /\ tasks \in Seq(PushKeyedCalls) /\ inbox \in Seq(PushEvents)
      /\ tasks' = Push!Without(tasks, i) /\ inbox' = Append(inbox, event)
  BY DEF PushKeyed, Push!Ends
<1>2. tasks' \in Seq(PushKeyedCalls)
  BY <1>1, PushWithout
<1>3. inbox' \in Seq(PushEvents)
  BY <1>1, AppendProperties
<1> QED BY <1>2, <1>3

\* A step of the page that neither rotates the key nor writes a row.
PushPageStep ==
    /\ UNCHANGED <<siteKey, rows, pushView>>
    /\ pushPage' \in {pushPage, pushView}
    /\ made' \in Seq(Push!Keys)
    /\ tasks' \in Seq(PushKeyedCalls) /\ inbox' \in Seq(PushEvents)
    /\ granted' \in BOOLEAN /\ rushed' \in BOOLEAN
    /\ clicks' \in 0..MaxClicks /\ hitches' \in 0..MaxHitches

LEMMA PushPageKeyed == ASSUME PushKeyed, PushPageStep PROVE PushKeyed'
BY DEF PushKeyed, PushPageStep, PushKeyedCalls, Push!Keys

LEMMA PushKeyedMount == ASSUME PushKeyed, Push!Mount PROVE PushKeyed'
<1>1. /\ pushView' = [key |-> siteKey, on |-> FALSE] /\ pushPage' = pushView'
      /\ tasks' = <<[step |-> "sync", key |-> 0]>> /\ inbox' = <<>>
      /\ UNCHANGED <<siteKey, rows, made, granted, rushed, hitches>>
      /\ Push!Clicked
  BY DEF Push!Mount, Push!Assigns, Push!Task
<1>2. clicks' \in 0..MaxClicks
  BY <1>1, PushCounted
<1>3. tasks' \in Seq(PushKeyedCalls) /\ inbox' \in Seq(PushEvents)
  <2>1. [step |-> "sync", key |-> 0] \in PushKeyedCalls
    BY DEF PushKeyedCalls
  <2> QED BY <1>1, <2>1
<1>4. PushKeyedCalls' = PushKeyedCalls /\ PushEvents' = PushEvents
  BY DEF PushKeyedCalls, PushEvents, Push!Keys
<1> QED BY <1>1, <1>2, <1>3, <1>4 DEF PushKeyed, Push!Keys

LEMMA PushKeyedPage ==
    ASSUME PushInv, PushKeyed, NEW i \in 1..Len(tasks),
           \/ Push!SyncState(i) \/ Push!Registered(i) \/ Push!DropOld(i)
           \/ Push!Subscribe(i) \/ Push!Disable(i)
    PROVE  PushPageStep
<1>0. /\ siteKey \in Push!Keys /\ made \in Seq(Push!Keys) /\ subscription \in Nat
      /\ pushPage.key \in Push!Keys /\ Len(made) \in Nat
      /\ tasks \in Seq(PushKeyedCalls) /\ inbox \in Seq(PushEvents)
      /\ granted \in BOOLEAN /\ rushed \in BOOLEAN
      /\ clicks \in 0..MaxClicks /\ hitches \in 0..MaxHitches
      /\ tasks[i] \in PushKeyedCalls
  <2>1. tasks \in Seq(PushKeyedCalls)
    BY DEF PushKeyed
  <2>2. tasks[i] \in PushKeyedCalls
    BY <2>1, ElementOfSeq
  <2>3. made \in Seq(Push!Keys) /\ Len(made) \in Nat
    BY LenProperties DEF PushKeyed
  <2>4. subscription \in Nat
    BY DEF PushInv, PushRecords
  <2> QED BY <2>1, <2>2, <2>3, <2>4 DEF PushKeyed
<1>1. ASSUME NEW kind_ \in {"on", "off", "unsupported", "failed", "subscribed", "unsubscribed"},
             NEW endpoint \in Nat
      PROVE  Push!Event(kind_, endpoint) \in PushEvents
  BY DEF Push!Event, PushEvents
<1>2. ASSUME NEW step \in {"subscribe", "drop"}, NEW key \in Push!Keys
      PROVE  Push!Task(step, key) \in PushKeyedCalls
  BY DEF Push!Task, PushKeyedCalls
<1>3. ASSUME NEW call \in PushKeyedCalls, Push!Steps(i, call) PROVE tasks' \in Seq(PushKeyedCalls)
  BY <1>0, <1>3, ExceptSeq DEF Push!Steps
<1>4. hitches' \in 0..MaxHitches
  BY <1>0, PushCounted DEF Push!SyncState, Push!Registered, Push!DropOld, Push!Subscribe, Push!Disable
<1>5. /\ UNCHANGED <<siteKey, rows, granted, pushView, pushPage, rushed, clicks>>
  BY DEF Push!SyncState, Push!Registered, Push!DropOld, Push!Subscribe, Push!Disable
<1>6. ASSUME tasks' \in Seq(PushKeyedCalls), inbox' \in Seq(PushEvents), made' \in Seq(Push!Keys)
      PROVE  PushPageStep
  BY <1>0, <1>4, <1>5, <1>6 DEF PushPageStep
<1>7. CASE Push!SyncState(i)
  <2>1. PICK event \in PushEvents : Push!Ends(i, event)
    <3>1. CASE Push!Ends(i, Push!Event(IF Push!MadeWith(subscription, pushPage.key) THEN "on" ELSE "off",
                                       subscription))
      BY <1>0, <1>1, <3>1
    <3>2. CASE Push!Ends(i, Push!Event("unsupported", Push!NoEndpoint))
      BY <1>1, <3>2 DEF Push!NoEndpoint
    <3> QED BY <1>7, <3>1, <3>2 DEF Push!SyncState
  <2>2. made' = made
    BY <1>7 DEF Push!SyncState
  <2> QED BY <1>0, <1>6, <2>1, <2>2, PushEnded
<1>8. CASE Push!Registered(i)
  <2>1. made' = made
    BY <1>8 DEF Push!Registered
  <2>2. CASE Push!Ends(i, Push!Event("failed", Push!NoEndpoint))
    <3>1. Push!Event("failed", Push!NoEndpoint) \in PushEvents
      BY <1>1 DEF Push!NoEndpoint
    <3> QED BY <1>0, <1>6, <2>1, <2>2, <3>1, PushEnded
  <2>3. CASE /\ inbox' = inbox
             /\ Push!Steps(i, Push!Task(IF \/ subscription = Push!NoEndpoint
                                           \/ Push!MadeWith(subscription, pushPage.key)
                                        THEN "subscribe" ELSE "drop", pushPage.key))
    <3>1. Push!Task(IF \/ subscription = Push!NoEndpoint
                       \/ Push!MadeWith(subscription, pushPage.key)
                    THEN "subscribe" ELSE "drop", pushPage.key) \in PushKeyedCalls
      BY <1>0, <1>2
    <3>2. tasks' \in Seq(PushKeyedCalls)
      BY <1>3, <2>3, <3>1
    <3> QED BY <1>0, <1>6, <2>1, <2>3, <3>2
  <2> QED BY <1>8, <2>2, <2>3 DEF Push!Registered
<1>9. CASE Push!DropOld(i)
  <2>1. /\ tasks[i].step = "drop" /\ UNCHANGED <<made, inbox>>
        /\ Push!Steps(i, Push!Task("subscribe", tasks[i].key))
    BY <1>9 DEF Push!DropOld
  <2>2. tasks[i].key \in Push!Keys
    BY <1>0, <2>1 DEF PushKeyedCalls
  <2>3. Push!Task("subscribe", tasks[i].key) \in PushKeyedCalls
    BY <1>2, <2>2
  <2>4. tasks' \in Seq(PushKeyedCalls)
    BY <1>3, <2>1, <2>3
  <2> QED BY <1>0, <1>6, <2>1, <2>4
<1>10. CASE Push!Subscribe(i)
  <2>1. tasks[i].step = "subscribe" /\ tasks[i].key \in Push!Keys
    BY <1>0, <1>10 DEF Push!Subscribe, PushKeyedCalls
  <2>2. CASE subscription = Push!NoEndpoint
    <3>1. made' = Append(made, tasks[i].key) /\ Push!Ends(i, Push!Event("subscribed", Len(made')))
      BY <1>10, <2>2 DEF Push!Subscribe
    <3>2. made' \in Seq(Push!Keys) /\ Len(made') \in Nat
      BY <1>0, <2>1, <3>1, AppendProperties, LenProperties
    <3>3. Push!Event("subscribed", Len(made')) \in PushEvents
      BY <1>1, <3>2
    <3> QED BY <1>6, <3>1, <3>2, <3>3, PushEnded
  <2>3. CASE subscription # Push!NoEndpoint
    <3>1. made' = made
      BY <1>10, <2>3 DEF Push!Subscribe
    <3>2. PICK event \in PushEvents : Push!Ends(i, event)
      <4>1. Push!Ends(i, Push!Event("subscribed", subscription))
            \/ Push!Ends(i, Push!Event("failed", Push!NoEndpoint))
        BY <1>10, <2>3 DEF Push!Subscribe
      <4>2. /\ Push!Event("subscribed", subscription) \in PushEvents
            /\ Push!Event("failed", Push!NoEndpoint) \in PushEvents
        BY <1>0, <1>1 DEF Push!NoEndpoint
      <4> QED BY <4>1, <4>2
    <3> QED BY <1>0, <1>6, <3>1, <3>2, PushEnded
  <2> QED BY <2>2, <2>3
<1>11. CASE Push!Disable(i)
  <2>1. /\ made' = made
        /\ Push!Ends(i, Push!Event(IF subscription = Push!NoEndpoint THEN "off" ELSE "unsubscribed",
                                   subscription))
    BY <1>11 DEF Push!Disable
  <2>2. Push!Event(IF subscription = Push!NoEndpoint THEN "off" ELSE "unsubscribed", subscription)
          \in PushEvents
    BY <1>0, <1>1
  <2> QED BY <1>0, <1>6, <2>1, <2>2, PushEnded
<1> QED BY <1>7, <1>8, <1>9, <1>10, <1>11

LEMMA PushKeyedStep ==
    ASSUME PushInv, PushKeyed, [Push!PushNext]_pushVars
    PROVE  PushKeyed'
<1>0. /\ siteKey \in Push!Keys /\ made \in Seq(Push!Keys)
      /\ \A row \in rows : row \in [endpoint : Nat, key : Push!Keys]
      /\ pushView \in [key : Push!Keys, on : BOOLEAN] /\ pushPage \in [key : Push!Keys, on : BOOLEAN]
      /\ tasks \in Seq(PushKeyedCalls) /\ inbox \in Seq(PushEvents)
      /\ granted \in BOOLEAN /\ rushed \in BOOLEAN
      /\ clicks \in 0..MaxClicks /\ hitches \in 0..MaxHitches
  BY DEF PushKeyed
<1>1. CASE Push!Click
  <2>1. /\ UNCHANGED <<siteKey, rows, made, pushView, pushPage, hitches>> /\ Push!Clicked
        /\ rushed' \in BOOLEAN
    BY <1>1 DEF Push!Click
  <2>2. clicks' \in 0..MaxClicks
    BY <2>1, PushCounted
  <2>3. granted' \in BOOLEAN
    BY <1>0, <1>1 DEF Push!Click
  <2>4. tasks' \in Seq(PushKeyedCalls)
    <3>1. Push!Task("disable", 0) \in PushKeyedCalls /\ Push!Task("register", 0) \in PushKeyedCalls
      BY DEF Push!Task, PushKeyedCalls
    <3>2. \/ tasks' = tasks \/ tasks' = Append(tasks, Push!Task("disable", 0))
          \/ tasks' = Append(tasks, Push!Task("register", 0))
      BY <1>1 DEF Push!Click
    <3>3. /\ Append(tasks, Push!Task("disable", 0)) \in Seq(PushKeyedCalls)
          /\ Append(tasks, Push!Task("register", 0)) \in Seq(PushKeyedCalls)
      BY <1>0, <3>1, AppendProperties
    <3> QED BY <1>0, <3>2, <3>3
  <2>5. inbox' \in Seq(PushEvents)
    <3>1. Push!Event("denied", Push!NoEndpoint) \in PushEvents
      BY DEF Push!Event, PushEvents, Push!NoEndpoint
    <3>2. inbox' = inbox \/ inbox' = Append(inbox, Push!Event("denied", Push!NoEndpoint))
      BY <1>1 DEF Push!Click
    <3>3. Append(inbox, Push!Event("denied", Push!NoEndpoint)) \in Seq(PushEvents)
      BY <1>0, <3>1, AppendProperties
    <3> QED BY <1>0, <3>2, <3>3
  <2>6. PushPageStep
    BY <1>0, <2>1, <2>2, <2>3, <2>4, <2>5 DEF PushPageStep
  <2> QED BY <2>6, PushPageKeyed
<1>2. CASE Push!Patched
  <2>1. PushPageStep
    BY <1>0, <1>2 DEF Push!Patched, PushPageStep
  <2> QED BY <2>1, PushPageKeyed
<1>3. CASE Push!Handle
  <2>1. /\ inbox # <<>> /\ inbox' = Tail(inbox)
        /\ UNCHANGED <<siteKey, made, granted, pushPage, tasks, rushed, clicks, hitches>>
    BY <1>3 DEF Push!Handle
  <2>2. Head(inbox) \in PushEvents /\ inbox' \in Seq(PushEvents)
    BY <1>0, <2>1, HeadTailProperties, TailItems
  <2>3. \/ UNCHANGED <<rows, pushView>>
        \/ Push!Registration(Head(inbox).endpoint)
        \/ /\ rows' \subseteq rows
           /\ pushView' \in {Push!Assigns(pushView.key, TRUE), Push!Assigns(pushView.key, FALSE)}
    <3>1. CASE Head(inbox).kind = "subscribed"
      BY <1>3, <3>1 DEF Push!Handle
    <3>2. CASE Head(inbox).kind = "unsubscribed"
      BY <1>3, <3>2 DEF Push!Handle
    <3>3. CASE Head(inbox).kind = "unsupported"
      BY <1>3, <3>3 DEF Push!Handle
    <3>4. CASE Head(inbox).kind \notin {"subscribed", "unsubscribed", "unsupported"}
      <4>1. pushView' = Push!Assigns(pushView.key, Head(inbox).kind = "on") /\ rows' = rows
        BY <1>3, <3>4 DEF Push!Handle
      <4>2. (Head(inbox).kind = "on") \in BOOLEAN
        OBVIOUS
      <4> QED BY <4>1, <4>2
    <3> QED BY <3>1, <3>2, <3>3, <3>4
  <2>a. \A key \in Push!Keys, on \in BOOLEAN : Push!Assigns(key, on) \in [key : Push!Keys, on : BOOLEAN]
    BY DEF Push!Assigns
  <2>4. /\ pushView' \in [key : Push!Keys, on : BOOLEAN]
        /\ \A row \in rows' : row \in [endpoint : Nat, key : Push!Keys]
    <3>1. CASE UNCHANGED <<rows, pushView>>
      BY <1>0, <3>1
    <3>2. CASE Push!Registration(Head(inbox).endpoint)
      <4>1. Head(inbox).endpoint \in Nat
        BY <2>2 DEF PushEvents
      <4>2. pushView.key \in Push!Keys /\ siteKey \in Push!Keys
        BY <1>0
      <4>3. pushView' \in {Push!Assigns(pushView.key, TRUE), Push!Assigns(siteKey, FALSE)}
        BY <3>2 DEF Push!Registration
      <4>4. \A row \in rows' : row \in rows \/ row = [endpoint |-> Head(inbox).endpoint, key |-> pushView.key]
        BY <3>2 DEF Push!Registration
      <4>5. pushView' \in [key : Push!Keys, on : BOOLEAN]
        BY <2>a, <4>2, <4>3
      <4>6. \A row \in rows' : row \in [endpoint : Nat, key : Push!Keys]
        BY <1>0, <4>1, <4>2, <4>4
      <4> QED BY <4>5, <4>6
    <3>3. CASE /\ rows' \subseteq rows
               /\ pushView' \in {Push!Assigns(pushView.key, TRUE), Push!Assigns(pushView.key, FALSE)}
      BY <1>0, <2>a, <3>3
    <3> QED BY <2>3, <3>1, <3>2, <3>3
  <2>5. PushKeyedCalls' = PushKeyedCalls /\ PushEvents' = PushEvents
    BY DEF PushKeyedCalls, PushEvents, Push!Keys
  <2> QED BY <1>0, <2>1, <2>2, <2>4, <2>5 DEF PushKeyed, Push!Keys
<1>4. ASSUME rows' \subseteq rows, siteKey' \in Push!Keys, granted' \in BOOLEAN,
             hitches' \in 0..MaxHitches,
             UNCHANGED <<made, pushView, pushPage, tasks, inbox, rushed, clicks>>
      PROVE  PushKeyed'
  BY <1>0, <1>4 DEF PushKeyed, PushKeyedCalls, PushEvents, Push!Keys
<1>5. CASE Push!RotateKey
  <2>1. siteKey' \in Push!Keys
    BY <1>0, <1>5, PushAssumption DEF Push!RotateKey, Push!Keys
  <2>2. rows' \subseteq rows
    BY <1>5 DEF Push!RotateKey
  <2> QED BY <1>0, <1>4, <1>5, <2>1, <2>2 DEF Push!RotateKey
<1>6. CASE Push!Revoked
  <2>1. rows' \subseteq rows /\ granted' \in BOOLEAN /\ siteKey' = siteKey /\ Push!Hitch
    BY <1>0, <1>6 DEF Push!Revoked
  <2> QED BY <1>0, <1>4, <1>6, <2>1, PushCounted DEF Push!Revoked
<1>7. CASE \E row \in rows : Push!Deliver(row)
  BY <1>0, <1>4, <1>7 DEF Push!Deliver
<1>8. CASE UNCHANGED pushVars
  BY <1>0, <1>4, <1>8 DEF pushVars
<1>9. ASSUME NEW i \in 1..Len(tasks),
             \/ Push!SyncState(i) \/ Push!Registered(i) \/ Push!DropOld(i)
             \/ Push!Subscribe(i) \/ Push!Disable(i)
      PROVE  PushKeyed'
  BY <1>9, PushKeyedPage, PushPageKeyed
<1> QED BY <1>1, <1>2, <1>3, <1>5, <1>6, <1>7, <1>8, <1>9, PushKeyedMount DEF Push!PushNext

\* Numbers of words and pastes stay within what is typed and pasted.
PasteSaved == [before : Seq(Paste!Pieces), at : Paste!Ranges, settled : BOOLEAN]
PasteLast == [paste : 0..MaxPastes, prior : Seq(Paste!Pieces), range : Paste!Ranges,
              doc : Seq(Paste!Pieces)]

PasteSized ==
    /\ doc \in Seq(Paste!Pieces) /\ last \in PasteLast
    /\ pastes \in Seq(PasteSaved) /\ Len(pastes) <= MaxPastes
    /\ pasteNotice \in {"hidden", "shown"} /\ typing \in 0..MaxTyped

LEMMA PasteTypes == PasteInv /\ PasteSized => Paste!PasteTypeOK
<1>1. Paste!Ranges = PasteRanges
  BY DEF Paste!Ranges, PasteRanges
<1> QED BY <1>1 DEF PasteInv, Fits, PasteSized, PasteSaved, PasteLast, Paste!PasteTypeOK

LEMMA PastePutIn ==
    ASSUME NEW S, NEW d \in Seq(S), NEW r, Fits(r, d), NEW piece \in S
    PROVE  Paste!Inserted(d, r, piece) \in Seq(S)
<1>1. /\ Len(d) \in Nat /\ r.from \in Nat /\ r.to \in Nat /\ r.from <= r.to /\ r.to <= Len(d)
  BY LenProperties DEF Fits, PasteRanges
<1> DEFINE m == r.from
           n == r.to
<1> HIDE DEF m, n
<1>2. SubSeq(d, 1, m) \in Seq(S)
  <2>1. \A k \in 1..m : k \in 1..Len(d)
    BY <1>1 DEF m
  <2>2. \A k \in 1..m : d[k] \in S
    BY <2>1, ElementOfSeq
  <2>3. m \in Int
    BY <1>1 DEF m
  <2> QED BY <2>2, <2>3, SubSeqProperties
<1>3. SubSeq(d, n + 1, Len(d)) \in Seq(S)
  <2>0. n \in Nat /\ Len(d) \in Nat
    BY <1>1 DEF n
  <2>1. \A k \in (n + 1)..Len(d) : k \in 1..Len(d)
    BY <2>0
  <2>2. \A k \in (n + 1)..Len(d) : d[k] \in S
    BY <2>1, ElementOfSeq
  <2>3. n + 1 \in Int
    BY <2>0
  <2> QED BY <2>0, <2>2, <2>3, SubSeqProperties
<1>4. <<piece>> \in Seq(S)
  OBVIOUS
<1>5. SubSeq(d, 1, m) \o <<piece>> \in Seq(S)
  BY <1>2, <1>4, ConcatProperties
<1>6. SubSeq(d, 1, m) \o <<piece>> \o SubSeq(d, n + 1, Len(d)) \in Seq(S)
  BY <1>3, <1>5, ConcatProperties
<1> QED BY <1>6 DEF Paste!Inserted, m, n

LEMMA PasteSizedStart == Paste!PasteInit => PasteSized
<1> SUFFICES ASSUME Paste!PasteInit PROVE PasteSized
  OBVIOUS
<1>1. /\ doc = <<[kind |-> "word", n |-> 0]>> /\ pastes = <<>> /\ pasteNotice = "hidden"
      /\ last = [paste |-> 0, prior |-> <<>>, range |-> [from |-> 0, to |-> 0], doc |-> <<>>]
      /\ typing = 0
  BY DEF Paste!PasteInit, Paste!NoLast, Paste!Piece, Paste!Range
<1>2. [kind |-> "word", n |-> 0] \in Paste!Pieces
  BY MarkdownAssumption DEF Paste!Pieces
<1>3. doc \in Seq(Paste!Pieces) /\ <<>> \in Seq(Paste!Pieces) /\ pastes \in Seq(PasteSaved)
      /\ Len(pastes) = 0
  BY <1>1, <1>2
<1>4. 0 \in 0..MaxPastes /\ 0 \in 0..MaxTyped /\ 0 <= MaxPastes
  BY MarkdownAssumption
<1>5. [from |-> 0, to |-> 0] \in Paste!Ranges
  BY DEF Paste!Ranges
<1>6. last \in PasteLast
  BY <1>1, <1>3, <1>4, <1>5 DEF PasteLast
<1> QED BY <1>1, <1>3, <1>4, <1>6 DEF PasteSized

LEMMA PasteForgets == Paste!NoLast \in PasteLast
<1>1. <<>> \in Seq(Paste!Pieces) /\ 0 \in 0..MaxPastes /\ [from |-> 0, to |-> 0] \in Paste!Ranges
  BY MarkdownAssumption DEF Paste!Ranges
<1> QED BY <1>1 DEF Paste!NoLast, PasteLast, Paste!Range

\* What an update, an undoing or a landing leaves of the last landing.
LEMMA PasteRemembers ==
    ASSUME PasteSized, last' \in {last, Paste!NoLast}
    PROVE  last' \in PasteLast
BY PasteForgets DEF PasteSized

LEMMA PasteSizedStep ==
    ASSUME PasteInv, PasteSized, [Paste!PasteNext]_pasteVars
    PROVE  PasteSized'
<1>0. /\ doc \in Seq(Paste!Pieces) /\ last \in PasteLast
      /\ pastes \in Seq(PasteSaved) /\ Len(pastes) <= MaxPastes /\ Len(pastes) \in Nat
      /\ pasteNotice \in {"hidden", "shown"} /\ typing \in 0..MaxTyped
      /\ Fits(selection, doc)
  BY LenProperties DEF PasteSized, PasteInv
<1>a. ASSUME doc' \in Seq(Paste!Pieces), last' \in PasteLast, pastes' \in Seq(PasteSaved),
             Len(pastes') <= MaxPastes, pasteNotice' \in {"hidden", "shown"}, typing' \in 0..MaxTyped
      PROVE  PasteSized'
  BY <1>a DEF PasteSized, PasteLast, PasteSaved, Paste!Pieces, Paste!Ranges
<1>b. Paste!Acts => typing' \in 0..MaxTyped /\ Paste!Piece("word", typing + 1) \in Paste!Pieces
  <2> SUFFICES ASSUME Paste!Acts
               PROVE typing' \in 0..MaxTyped /\ Paste!Piece("word", typing + 1) \in Paste!Pieces
    OBVIOUS
  <2>1. typing < MaxTyped /\ typing' = typing + 1
    BY DEF Paste!Acts
  <2>2. typing + 1 \in 0..MaxTyped /\ typing + 1 \in 0..(MaxTyped + MaxPastes)
    BY <1>0, <2>1, MarkdownAssumption
  <2> QED BY <2>1, <2>2 DEF Paste!Piece, Paste!Pieces
<1>c. \A d : Paste!Updated(d) => last' \in PasteLast /\ pasteNotice' \in {"hidden", "shown"}
  BY <1>0, PasteForgets DEF Paste!Updated
<1>1. CASE Paste!TypeOver
  <2>1. /\ Paste!Acts /\ Paste!Edited(selection, Paste!Piece("word", typing + 1))
        /\ Paste!Updated(doc') /\ pastes' = pastes
    BY <1>1 DEF Paste!TypeOver
  <2>2. doc' \in Seq(Paste!Pieces)
    BY <1>0, <1>b, <2>1, PastePutIn DEF Paste!Edited
  <2> QED BY <1>0, <1>a, <1>b, <1>c, <2>1, <2>2
<1>2. ASSUME NEW range, Paste!Select(range) PROVE PasteSized'
  <2>1. Paste!Acts /\ UNCHANGED <<doc, pastes, last, pasteNotice>>
    BY <1>2 DEF Paste!Select
  <2> QED BY <1>0, <1>a, <1>b, <2>1
<1>3. CASE Paste!Convert
  <2> DEFINE copy == [before |-> doc, at |-> selection, settled |-> FALSE]
  <2>1. /\ Len(pastes) < MaxPastes /\ pastes' = Append(pastes, copy)
        /\ UNCHANGED <<doc, last, pasteNotice, typing>>
    BY <1>3 DEF Paste!Convert
  <2>2. copy \in PasteSaved
    BY <1>0 DEF PasteSaved, Fits, PasteRanges, Paste!Ranges
  <2> HIDE DEF copy
  <2>3. pastes' \in Seq(PasteSaved) /\ Len(pastes') = Len(pastes) + 1
    BY <1>0, <2>1, <2>2, AppendProperties
  <2>4. Len(pastes') <= MaxPastes
    BY <1>0, <2>1, <2>3, MarkdownAssumption
  <2> QED BY <1>0, <1>a, <2>1, <2>3, <2>4
<1>4. ASSUME NEW k \in 1..Len(pastes), NEW kind_ \in {"doc", "plain"}, Paste!Land(k, kind_)
      PROVE  PasteSized'
  <2> DEFINE copy == [pastes[k] EXCEPT !.settled = TRUE]
  <2>1. /\ pastes' = [pastes EXCEPT ![k] = copy] /\ typing' = typing
        /\ Paste!Edited(Paste!Target(k), Paste!Piece(kind_, k))
    BY <1>4 DEF Paste!Land
  <2>2. copy \in PasteSaved
    <3>1. pastes[k] \in PasteSaved
      BY <1>0, ElementOfSeq
    <3> QED BY <3>1 DEF PasteSaved
  <2> HIDE DEF copy
  <2>3. pastes' \in Seq(PasteSaved) /\ Len(pastes') = Len(pastes)
    BY <1>0, <2>1, <2>2, ExceptSeq
  <2>4. k \in 0..MaxPastes /\ Paste!Piece(kind_, k) \in Paste!Pieces
    <3>1. k \in 0..MaxPastes /\ k \in 0..(MaxTyped + MaxPastes)
      BY <1>0, MarkdownAssumption
    <3> QED BY <3>1 DEF Paste!Piece, Paste!Pieces
  <2>5. Fits(Paste!Target(k), doc) /\ Paste!Target(k) \in Paste!Ranges
    <3>1. Fits(pastes[k].at, pastes[k].before)
      BY DEF PasteInv
    <3>2. Fits(Paste!Target(k), doc)
      BY <1>0, <3>1 DEF Paste!Target
    <3> QED BY <3>2 DEF Fits, PasteRanges, Paste!Ranges
  <2>6. doc' \in Seq(Paste!Pieces)
    BY <1>0, <2>1, <2>4, <2>5, PastePutIn DEF Paste!Edited
  <2>7. last' \in PasteLast /\ pasteNotice' \in {"hidden", "shown"}
    <3>1. CASE kind_ = "doc"
      <4>1. /\ last' = [paste |-> k, prior |-> doc, range |-> Paste!Target(k), doc |-> doc']
            /\ pasteNotice' = "shown"
        BY <1>4, <3>1 DEF Paste!Land
      <4> QED BY <1>0, <2>4, <2>5, <2>6, <4>1 DEF PasteLast
    <3>2. CASE kind_ # "doc"
      <4>1. Paste!Updated(doc')
        BY <1>4, <3>2 DEF Paste!Land
      <4> QED BY <1>c, <4>1
    <3> QED BY <3>1, <3>2
  <2> QED BY <1>0, <1>a, <2>1, <2>3, <2>6, <2>7
<1>5. ASSUME Paste!Undo \/ Paste!AsPlain PROVE PasteSized'
  <2>1. /\ Paste!Acts /\ last' = Paste!NoLast /\ pasteNotice' = "hidden" /\ pastes' = pastes
    BY <1>5 DEF Paste!Undo, Paste!AsPlain, Paste!Take
  <2>2. doc' \in Seq(Paste!Pieces)
    <3>1. CASE ~Paste!Taken
      <4>1. doc' = doc
        BY <1>5, <3>1 DEF Paste!Undo, Paste!AsPlain
      <4> QED BY <1>0, <4>1
    <3>2. CASE Paste!Taken
      <4>1. last.paste # 0 /\ LastLanding
        BY <3>2 DEF Paste!Taken, PasteInv
      <4>2. last.prior \in Seq(Paste!Pieces) /\ last.paste \in 0..MaxPastes
        BY <1>0 DEF PasteLast
      <4>3. Paste!Piece("plain", last.paste) \in Paste!Pieces
        <5>1. last.paste \in 0..(MaxTyped + MaxPastes)
          BY <4>2, MarkdownAssumption
        <5> QED BY <5>1 DEF Paste!Piece, Paste!Pieces
      <4>4. Fits(last.range, last.prior)
        BY <4>1 DEF LastLanding
      <4>5. \/ doc' = last.prior
            \/ doc' = Paste!Inserted(last.prior, last.range, Paste!Piece("plain", last.paste))
        BY <1>5, <3>2 DEF Paste!Undo, Paste!AsPlain
      <4>6. Paste!Inserted(last.prior, last.range, Paste!Piece("plain", last.paste)) \in Seq(Paste!Pieces)
        BY <4>2, <4>3, <4>4, PastePutIn
      <4> QED BY <4>2, <4>5, <4>6
    <3> QED BY <3>1, <3>2
  <2> QED BY <1>0, <1>a, <1>b, <2>1, <2>2, PasteForgets
<1>6. CASE Paste!NoticeHides
  BY <1>0, <1>a, <1>6 DEF Paste!NoticeHides
<1>7. CASE UNCHANGED pasteVars
  BY <1>0, <1>a, <1>7 DEF pasteVars
<1>8. ASSUME NEW k \in 1..Len(pastes), Paste!Replied(k) \/ Paste!GaveUp(k) PROVE PasteSized'
  BY <1>4, <1>8 DEF Paste!Replied, Paste!GaveUp
<1> QED BY <1>1, <1>2, <1>3, <1>5, <1>6, <1>7, <1>8 DEF Paste!PasteNext
===============================================================================
