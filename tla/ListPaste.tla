------------------------------ MODULE ListPaste ------------------------------
(***************************************************************************)
(* Lists the author didn't mark up as lists (assets/js/list_detect.js): a  *)
(* paste from Word, whose paragraphs carry a list level, becomes nested    *)
(* lists; runs of paragraphs that begin with a bullet or a number become   *)
(* flat ones.  Each is one pass over the paragraphs with a few variables;  *)
(* the properties say by the paragraphs alone what the result has to be.   *)
(***************************************************************************)
EXTENDS Integers, Sequences, SequencesExt, FiniteSets, Subsequences

CONSTANTS
    MaxParagraphs,  \* paragraphs in a paste
    MaxLevel,       \* levels of a list in Word
    MaxNumber       \* numbers a paragraph begins with

VARIABLES
    pasted,   \* the paragraphs, in order
    at,       \* the one the pass has come to
    stack,    \* Word: the open lists, outermost first
    lists,    \* Word: the lists made, their kind and the item they hang under
    place,    \* Word: the list each item was put in, 0 for a paragraph left alone
    run,      \* the run that is open: its kind, first paragraph and strength
    runs      \* the runs that are closed

listVars == <<pasted, at, stack, lists, place, run, runs>>

(***************************************************************************)
(* A paragraph, by msoItem or markerOf: a level of Word's list and whether *)
(* its marker is a number's; a bullet glyph, a hyphen or dash, a number;   *)
(* or none of it, nothing after the marker included.                       *)
(***************************************************************************)
Plain == [kind |-> "plain", n |-> 0, ordered |-> FALSE]
Word(level, ordered) == [kind |-> "word", n |-> level, ordered |-> ordered]
Glyph == [Plain EXCEPT !.kind = "glyph"]
Dash == [Plain EXCEPT !.kind = "dash"]
Number(n) == [kind |-> "number", n |-> n, ordered |-> TRUE]
FromWord == {Plain} \union {Word(l, o) : l \in 1..MaxLevel, o \in BOOLEAN}
FromText == {Plain, Glyph, Dash} \union {Number(n) : n \in 1..MaxNumber}

IsWord(p) == p.kind = "word"
Bullet(p) == p.kind \in {"glyph", "dash"}
NoRun == [start |-> 0, ordered |-> FALSE, strong |-> FALSE, end |-> 0]
NoItem == 0

ListInit ==
    /\ pasted \in SeqOf(FromWord, MaxParagraphs) \union SeqOf(FromText, MaxParagraphs)
    /\ at = 1
    /\ stack = <<>> /\ lists = <<>> /\ place = <<>>
    /\ run = NoRun /\ runs = <<>>

(***************************************************************************)
(* listifyWordHTML                                                         *)
(***************************************************************************)

\* Deeper lists are popped: what is left ends with one that is not deeper.
Depth(level) == Max({0} \union {k \in DOMAIN stack : stack[k].level <= level})

\* Mutant: a paragraph between them leaves the lists open.
OpenFor_AcrossBreaks(level) == SubSeq(stack, 1, Depth(level))

\* Lists deeper than the item are closed; all are when something sat between it
\* and the item before.
OpenFor(level) ==
    IF at = 1 \/ ~IsWord(pasted[at - 1]) THEN <<>>
    ELSE SubSeq(stack, 1, Depth(level))

\* An item goes into the open list of its level, or into a new one under the last
\* item of the list above.
TakeItem ==
    LET item == pasted[at]
        open == OpenFor(item.n)
        top == IF open = <<>> THEN [list |-> 0, level |-> 0, item |-> NoItem] ELSE Last(open)
        new == Len(lists) + 1
    IN  /\ at <= Len(pasted) /\ IsWord(item)
        /\ IF top.level < item.n
           THEN /\ lists' = Append(lists, [ordered |-> item.ordered, under |-> top.item])
                /\ place' = Append(place, new)
                /\ stack' = Append(open, [list |-> new, level |-> item.n, item |-> at])
           ELSE /\ place' = Append(place, top.list)
                /\ stack' = [open EXCEPT ![Len(open)].item = at]
                /\ UNCHANGED lists
        /\ at' = at + 1
        /\ UNCHANGED <<pasted, run, runs>>

(***************************************************************************)
(* listRuns                                                                *)
(***************************************************************************)

\* Mutant: any number goes on with a count.
Continues_AnyNumber(p) ==
    /\ run # NoRun
    /\ (Bullet(p) /\ ~run.ordered) \/ (p.kind = "number" /\ run.ordered)

\* A paragraph continues a run of its kind, a number only the next one.
Continues(p) ==
    /\ run # NoRun
    /\ \/ Bullet(p) /\ ~run.ordered
       \/ p.kind = "number" /\ run.ordered /\ p.n = run.end - run.start + 2

Starts(p) == Bullet(p) \/ (p.kind = "number" /\ p.n = 1)

TakeParagraph ==
    LET p == pasted[at]
        strong == p.kind = "glyph"
    IN  /\ at <= Len(pasted) /\ ~IsWord(p)
        /\ IF Continues(p)
           THEN /\ run' = [run EXCEPT !.end = at, !.strong = @ \/ strong]
                /\ UNCHANGED runs
           ELSE /\ runs' = IF run = NoRun THEN runs ELSE Append(runs, run)
                /\ run' = IF Starts(p)
                          THEN [start |-> at, end |-> at, ordered |-> ~Bullet(p), strong |-> strong]
                          ELSE NoRun
        /\ place' = Append(place, 0)
        /\ at' = at + 1
        /\ UNCHANGED <<pasted, stack, lists>>

\* The runs that are lists: of two paragraphs at least, or of a glyph.
Closed == IF run = NoRun THEN runs ELSE Append(runs, run)
Lists == PickedAt(Closed, {k \in DOMAIN Closed : Closed[k].end > Closed[k].start \/ Closed[k].strong})

\* listifySlice: the paragraphs as they were, each run of them one list, and which
\* ends of the slice may still merge into the paragraph the caret is in.
Node(i) == [list |-> FALSE, items |-> <<i>>]
ListOf(r) == [list |-> TRUE, items |-> [k \in 1..(r.end - r.start + 1) |-> r.start + k - 1]]
Between(i, j) == [k \in 1..(j - i) |-> Node(i + k - 1)]

Listified ==
    LET made == Lists
        after(k) == IF k = 0 THEN 1 ELSE made[k].end + 1
        upto == [k \in DOMAIN made |-> Append(Between(after(k - 1), made[k].start), ListOf(made[k]))]
    IN  FlattenSeq(Append(upto, Between(after(Len(made)), at)))

OpenStart == Lists = <<>> \/ Head(Lists).start # 1
OpenEnd == Lists = <<>> \/ Last(Lists).end # at - 1

ListNext == TakeItem \/ TakeParagraph
ListSpec == ListInit /\ [][ListNext]_listVars

(***************************************************************************)
(* Properties.                                                             *)
(***************************************************************************)

ListTypeOK ==
    /\ at \in 1..(Len(pasted) + 1) /\ Len(place) = at - 1
    /\ \A i \in 1..Len(lists) : lists[i].under \in 0..(at - 1)
    /\ \A i \in 1..Len(place) : place[i] \in 0..Len(lists)

\* The nearest item before i, of the same unbroken run, on a higher level.
Above(i) ==
    LET candidates == {k \in 1..(i - 1) :
                          /\ \A j \in k..i : IsWord(pasted[j])
                          /\ pasted[k].n < pasted[i].n
                          /\ \A j \in (k + 1)..(i - 1) : pasted[j].n >= pasted[i].n}
    IN  IF candidates = {} THEN NoItem ELSE CHOOSE k \in candidates : TRUE

\* Siblings: nothing but their own descendants between them.
Siblings(i, j) ==
    /\ pasted[i].n = pasted[j].n
    /\ \A k \in i..j : IsWord(pasted[k]) /\ pasted[k].n >= pasted[i].n

\* Word's lists keep their shape: every item hangs under the nearest one above
\* it, two are in one list exactly when they are siblings, so the document reads
\* in the order it was pasted.
WordKeepsItsShape ==
    \A j \in 1..Len(place) : IsWord(pasted[j]) =>
        /\ lists[place[j]].under = Above(j)
        /\ \A i \in 1..(j - 1) : IsWord(pasted[i]) => (place[i] = place[j] <=> Siblings(i, j))

\* The paragraphs that are numbered 1, 2, … without a gap up to i, from s on.
Counts(s, i) == \A k \in s..i : pasted[k].kind = "number" /\ pasted[k].n = k - s + 1
Bullets(s, i) == \A k \in s..i : Bullet(pasted[k])

\* A paragraph becomes an item if and only if its neighbours make it one: it is
\* among bullets, two of them or a glyph; or in a count from 1 that reaches 2.
RunsAreTheLists ==
    \A i \in 1..(at - 1) :
        (\E l \in Range(Lists) : l.start <= i /\ i <= l.end) <=>
            \/ pasted[i] = Glyph
            \/ \E s, e \in 1..(at - 1) : s <= i /\ i <= e /\ s < e /\ (Bullets(s, e) \/ Counts(s, e))

\* Making lists loses, repeats and moves no paragraph, and only an end that is
\* still a paragraph is left open to the one the caret is in.
NoParagraphMoves ==
    /\ FlattenSeq([k \in DOMAIN Listified |-> Listified[k].items]) = [i \in 1..(at - 1) |-> i]
    /\ at > 1 => /\ OpenStart = ~Head(Listified).list
                 /\ OpenEnd = ~Last(Listified).list
=============================================================================
