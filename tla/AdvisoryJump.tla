---------------------------- MODULE AdvisoryJump ----------------------------
(***************************************************************************)
(* Click-to-locate in the editor's advisory panels.  The server checks the *)
(* body and lists findings, each with the blocks it concerns or an example *)
(* of the words; a click resolves one in the page as it is by then, marks  *)
(* the elements, pulses their blocks and takes both off again on timers.   *)
(*                                                                         *)
(* The body is a sequence of rich-text blocks, a block a sequence of       *)
(* elements; a text is a sequence of letters, "X" a capital one.           *)
(***************************************************************************)
EXTENDS Naturals, Sequences, SequencesExt, FiniteSets

CONSTANTS Elements,     \* what a block may hold: records [tag, text]
          Bodies,       \* the bodies an editor may start from
          LongFrom,     \* a paragraph longer than this is long
          ExampleLimit, \* letters of an example the server sends
          MaxJumpActs   \* bound: edits and clicks

VARIABLES
  body,       \* the page's body
  findings,   \* the findings on the page, from an earlier body
  target,     \* what the last click resolved to
  marks,      \* the elements that carry the mark
  clearTimer, \* the marks' timer is set
  pulsing,    \* the blocks that carry the pulse
  pulseEnds,  \* the pulses' timers, in order
  jumps

jumpVars == <<body, findings, target, marks, clearTimer, pulsing, pulseEnds, jumps>>

Blank(e) == e.text = <<>>
At(place) == body[place[1]][place[2]]
AllOf(tag, blocks) == {p \in UNION {{b} \X DOMAIN body[b] : b \in blocks} : At(p).tag = tag}
Everywhere == DOMAIN body

-----------------------------------------------------------------------------
(* The server's checks, over a body; the example is the first one's text.  *)

First(places) == CHOOSE p \in places : \A q \in places :
                   p[1] < q[1] \/ (p[1] = q[1] /\ p[2] <= q[2])
Says(link) == link.text \in {<<"c">>, <<"r">>}      \* "click here", "read more"
Shouts(p) == p.tag = "p" /\ Len(p.text) >= 2 /\ \A i \in DOMAIN p.text : p.text[i] = "X"
Truncated(text) == IF Len(text) <= ExampleLimit THEN text
                   ELSE Append(SubSeq(text, 1, ExampleLimit - 1), "~")

Finding(code, places, example) ==
  IF places = {} THEN {}
  ELSE {[code |-> code, text |-> example,
         blocks |-> IF code \in {"headings_empty", "link_text_uninformative"}
                    THEN {p[1] : p \in places} ELSE {}]}

EmptyHeadings == {p \in AllOf("h", Everywhere) : Blank(At(p))}
PoorLinks == {p \in AllOf("a", Everywhere) : Says(At(p))}
Shouting == {p \in AllOf("p", Everywhere) : Shouts(At(p))}
LongParagraphs == {p \in AllOf("p", Everywhere) : Len(At(p).text) > LongFrom}

Checked ==
  Finding("headings_empty", EmptyHeadings, <<>>)
  \cup Finding("link_text_uninformative", PoorLinks,
               IF PoorLinks = {} THEN <<>> ELSE At(First(PoorLinks)).text)
  \cup Finding("all_caps_run", Shouting,
               IF Shouting = {} THEN <<>> ELSE Truncated(At(First(Shouting)).text))
  \cup Finding("long_paragraphs", LongParagraphs, <<>>)

-----------------------------------------------------------------------------
(* Resolving a finding in the page.                                        *)

(* Mutant: every link of the block.                                        *)
WithinBlock_AllLinks(b, f) ==
  CASE f.code = "headings_empty" -> {p \in AllOf("h", {b}) : Blank(At(p))}
    [] f.code = "link_text_uninformative" -> AllOf("a", {b})

WithinBlock(b, f) ==
  CASE f.code = "headings_empty" -> {p \in AllOf("h", {b}) : Blank(At(p))}
    [] f.code = "link_text_uninformative" ->
         LET links == AllOf("a", {b})
             exact == {p \in links : At(p).text = f.text}
         IN IF exact # {} THEN exact ELSE links

(* locate: the last text node that starts no later than the offset.        *)
TextNodes(b) == {i \in DOMAIN body[b] : ~Blank(body[b][i])}
StartOf(b, i) == Len(FlattenSeq([k \in 1..(i - 1) |-> body[b][k].text]))

Locate(b, offset) ==
  LET hits == {i \in TextNodes(b) : StartOf(b, i) <= offset}
      node == CHOOSE i \in hits : \A j \in hits : j <= i
      into == offset - StartOf(b, node)
      size == Len(body[b][node].text)
  IN [node |-> node, offset |-> IF into < size THEN into ELSE size]

Words(b) == FlattenSeq([i \in DOMAIN body[b] |-> body[b][i].text])
Holds(b, needle) == {at \in 0..(Len(Words(b)) - Len(needle)) :
                       SubSeq(Words(b), at + 1, at + Len(needle)) = needle}

NoRange == [block |-> 0]
TextRange(needle) ==
  LET blocks == {b \in Everywhere : Len(Words(b)) >= Len(needle) /\ Holds(b, needle) # {}}
  IN IF blocks = {} THEN NoRange
     ELSE LET b  == CHOOSE b \in blocks : \A c \in blocks : b <= c
              at == CHOOSE at \in Holds(b, needle) : \A k \in Holds(b, needle) : at <= k
          IN [block |-> b, from |-> Locate(b, at), to |-> Locate(b, at + Len(needle))]

(* Mutant: a paragraph at the limit is long.                               *)
WithinBody_FromLimit(f) ==
  IF f.code = "long_paragraphs"
  THEN [marks |-> {p \in AllOf("p", Everywhere) : Len(At(p).text) >= LongFrom}, range |-> NoRange]
  ELSE [marks |-> {}, range |-> TextRange(f.text)]

WithinBody(f) ==
  IF f.code = "long_paragraphs"
  THEN [marks |-> {p \in AllOf("p", Everywhere) : ~Blank(At(p)) /\ Len(At(p).text) > LongFrom},
        range |-> NoRange]
  ELSE [marks |-> {}, range |-> TextRange(f.text)]

(* The named blocks, else the body's own places, else the whole canvas.    *)
Canvas == 0
Resolve(f) ==
  LET named == f.blocks \cap Everywhere
      found == WithinBody(f)
  IN IF named # {}
     THEN [marks |-> UNION {WithinBlock(b, f) : b \in named}, pulse |-> named, range |-> NoRange]
     ELSE IF found.range # NoRange
     THEN [marks |-> {}, pulse |-> {found.range.block}, range |-> found.range]
     ELSE IF found.marks # {}
     THEN [marks |-> found.marks, pulse |-> {First(found.marks)[1]}, range |-> NoRange]
     ELSE [marks |-> {}, pulse |-> {Canvas}, range |-> NoRange]

NoTarget == [marks |-> {}, pulse |-> {}, range |-> NoRange]

JumpInit ==
  /\ body \in Bodies
  /\ findings = Checked
  /\ target = NoTarget /\ marks = {} /\ clearTimer = FALSE
  /\ pulsing = {} /\ pulseEnds = <<>> /\ jumps = 0

JumpAct == jumps < MaxJumpActs /\ jumps' = jumps + 1

(* An edit is in the page at once, in the findings once the server heard   *)
(* of it; a redrawn element may lose its mark.                             *)
Edit ==
  /\ JumpAct
  /\ \E p \in UNION {{b} \X DOMAIN body[b] : b \in Everywhere} :
       /\ \E e \in Elements : body' = [body EXCEPT ![p[1]][p[2]] = e]
       /\ marks' \in {marks, marks \ {p}}
  /\ UNCHANGED <<findings, target, clearTimer, pulsing, pulseEnds>>

Refresh ==
  /\ findings' = Checked
  /\ UNCHANGED <<body, target, marks, clearTimer, pulsing, pulseEnds, jumps>>

(* jumpTo: clearMarks, resolve, show.                                      *)
Jump ==
  /\ JumpAct
  /\ \E f \in findings : target' = Resolve(f)
  /\ marks' = target'.marks
  /\ clearTimer' = TRUE
  /\ pulsing' = pulsing \cup target'.pulse
  /\ pulseEnds' = pulseEnds \o SetToSeq(target'.pulse)
  /\ UNCHANGED <<body, findings>>

ClearMarks ==
  /\ clearTimer /\ clearTimer' = FALSE
  /\ marks' = {} /\ target' = NoTarget
  /\ UNCHANGED <<body, findings, pulsing, pulseEnds, jumps>>

(* Each pulse has a timer of its own, and the first to fire ends them all. *)
EndPulse ==
  /\ pulseEnds # <<>> /\ pulseEnds' = Tail(pulseEnds)
  /\ pulsing' = pulsing \ {Head(pulseEnds)}
  /\ UNCHANGED <<body, findings, target, marks, clearTimer, jumps>>

JumpNext == Edit \/ Refresh \/ Jump \/ ClearMarks \/ EndPulse
JumpSpec == JumpInit /\ [][JumpNext]_jumpVars

-----------------------------------------------------------------------------
JumpTypeOK ==
  /\ marks \subseteq (Nat \X Nat) /\ clearTimer \in BOOLEAN
  /\ \A f \in findings : f.blocks \subseteq Everywhere
  /\ pulsing \subseteq Everywhere \cup {Canvas}

Selected(r) ==
  SubSeq(Words(r.block), StartOf(r.block, r.from.node) + r.from.offset + 1,
                         StartOf(r.block, r.to.node) + r.to.offset)

(* A finding of the body as it is now leads to its fault and to nothing    *)
(* else: every empty heading, every long paragraph, the very words.  Two   *)
(* gaps: a block whose poor links say something else than the example gets *)
(* all its links marked, and an example cut short is nowhere in the text.  *)
LeadsToTheFault ==
  \A f \in findings \cap Checked :
    LET t == Resolve(f)
    IN CASE f.code = "headings_empty"  -> t.marks = EmptyHeadings
         [] f.code = "long_paragraphs" -> t.marks = LongParagraphs
         [] f.code = "link_text_uninformative" ->
              /\ PoorLinks \subseteq t.marks \cup
                   {p \in PoorLinks : At(p).text # f.text}
              /\ \A p \in t.marks \ PoorLinks :
                   \A q \in AllOf("a", {p[1]}) : At(q).text # f.text
         [] f.code = "all_caps_run" ->
              \/ t.range # NoRange /\ Selected(t.range) = f.text
              \/ Last(f.text) = "~" /\ t.pulse = {Canvas}

(* The page shows one finding at a time, and whatever it marked or pulsed  *)
(* has a timer left to take it off.                                        *)
OneFindingShown ==
  /\ marks \subseteq target.marks
  /\ marks # {} => clearTimer
  /\ pulsing \subseteq ToSet(pulseEnds)
=============================================================================
