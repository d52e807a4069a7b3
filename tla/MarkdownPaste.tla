---------------------------- MODULE MarkdownPaste ----------------------------
(***************************************************************************)
(* Markdown pasted into a rich-text block (assets/js/markdown_paste.js):   *)
(* the server converts it, and the reply lands in a document that was      *)
(* edited meanwhile, or comes after the paste gave up on it.  A notice     *)
(* offers to take the last landing back.                                   *)
(*                                                                         *)
(* A document is a sequence of pieces: the words typed, and what each      *)
(* paste put in.  A selection is the pieces from its start to its end.     *)
(***************************************************************************)
EXTENDS Naturals, Sequences

CONSTANTS
    MaxPastes,   \* how many pastes are made
    MaxTyped     \* how many words are typed, selections made and notices clicked

VARIABLES
    doc,         \* editor.state.doc
    selection,   \* editor.state.selection
    pastes,      \* what convert keeps of each paste
    last,        \* storage.last
    notice,      \* what the notice shows
    typing

pasteVars == <<doc, selection, pastes, last, notice, typing>>

Piece(kind, n) == [kind |-> kind, n |-> n]
Pieces == [kind : {"word", "doc", "plain"}, n : 0..(MaxTyped + MaxPastes)]
Range(from, to) == [from |-> from, to |-> to]
Ranges == [from : Nat, to : Nat]
Among(s) == {s[i] : i \in 1..Len(s)}
Covered(range, d) == {d[i] : i \in (range.from + 1)..range.to}

NoLast == [paste |-> 0, prior |-> <<>>, range |-> Range(0, 0), doc |-> <<>>]

PasteInit ==
    /\ doc = <<Piece("word", 0)>> /\ selection \in {Range(0, 1), Range(1, 1)}
    /\ pastes = <<>> /\ last = NoLast /\ notice = "hidden" /\ typing = 0

Acts == typing < MaxTyped /\ typing' = typing + 1

\* The range replaced by a piece, and the caret after it.
Inserted(d, range, piece) ==
    SubSeq(d, 1, range.from) \o <<piece>> \o SubSeq(d, range.to + 1, Len(d))
Edited(range, piece) ==
    /\ doc' = Inserted(doc, range, piece)
    /\ selection' = Range(range.from + 1, range.from + 1)

\* onUpdate: the document is no longer what the last landing left.
Updated(d) ==
    IF last.paste # 0 /\ d # last.doc
    THEN last' = NoLast /\ notice' = "hidden" ELSE UNCHANGED <<last, notice>>

TypeOver ==
    /\ Acts
    /\ Edited(selection, Piece("word", typing + 1))
    /\ Updated(doc')
    /\ UNCHANGED pastes

Select(range) ==
    /\ Acts
    /\ range.from <= range.to /\ range.to <= Len(doc)
    /\ selection' = range
    /\ UNCHANGED <<doc, pastes, last, notice>>

\* convert
Convert ==
    /\ Len(pastes) < MaxPastes
    /\ pastes' = Append(pastes, [before |-> doc, at |-> selection, settled |-> FALSE])
    /\ UNCHANGED <<doc, selection, last, notice, typing>>

\* Mutant: over what was selected then, whatever is there now.
Target_AsPasted(k) == pastes[k].at

\* land: over what was selected at the paste if the document is still the one
\* there was, else over what is selected now; what was converted can be undone.
Target(k) == IF doc = pastes[k].before THEN pastes[k].at ELSE selection

\* Mutant: a reply lands though the wait for it was given up.
Land_Late(k, kind) ==
    /\ pastes' = [pastes EXCEPT ![k].settled = TRUE]
    /\ Edited(Target(k), Piece(kind, k))
    /\ IF kind = "doc"
       THEN /\ last' = [paste |-> k, prior |-> doc, range |-> Target(k), doc |-> doc']
            /\ notice' = "shown"
       ELSE Updated(doc')
    /\ UNCHANGED typing

Land(k, kind) ==
    /\ ~pastes[k].settled
    /\ pastes' = [pastes EXCEPT ![k].settled = TRUE]
    /\ Edited(Target(k), Piece(kind, k))
    /\ IF kind = "doc"
       THEN /\ last' = [paste |-> k, prior |-> doc, range |-> Target(k), doc |-> doc']
            /\ notice' = "shown"
       ELSE Updated(doc')
    /\ UNCHANGED typing

\* The reply, with a document in it or without; or no reply in time, or a paste
\* too large to ask about.
Replied(k) == Land(k, "doc")
GaveUp(k) == Land(k, "plain")

\* take: only when the document is still what the landing left.
Take == notice = "shown" /\ last' = NoLast /\ notice' = "hidden"
Taken == last.paste # 0 /\ doc = last.doc

Undo ==
    /\ Take /\ Acts
    /\ IF Taken THEN doc' = last.prior /\ selection' = last.range
       ELSE UNCHANGED <<doc, selection>>
    /\ UNCHANGED pastes

AsPlain ==
    /\ Take /\ Acts
    /\ IF Taken
       THEN /\ doc' = Inserted(last.prior, last.range, Piece("plain", last.paste))
            /\ selection' = Range(last.range.from + 1, last.range.from + 1)
       ELSE UNCHANGED <<doc, selection>>
    /\ UNCHANGED pastes

\* The ten seconds are over, or it was dismissed.
NoticeHides ==
    /\ notice = "shown" /\ notice' = "hidden"
    /\ UNCHANGED <<doc, selection, pastes, last, typing>>

PasteNext ==
    \/ TypeOver \/ Convert \/ Undo \/ AsPlain \/ NoticeHides
    \/ \E from, to \in 0..Len(doc) : Select(Range(from, to))
    \/ \E k \in 1..Len(pastes) : Replied(k) \/ GaveUp(k)

PasteSpec == PasteInit /\ [][PasteNext]_pasteVars

(***************************************************************************)
(* Properties.                                                             *)
(***************************************************************************)

PasteTypeOK ==
    /\ doc \in Seq(Pieces) /\ selection \in Ranges
    /\ pastes \in Seq([before : Seq(Pieces), at : Ranges, settled : BOOLEAN])
    /\ last \in [paste : 0..MaxPastes, prior : Seq(Pieces), range : Ranges, doc : Seq(Pieces)]
    /\ notice \in {"hidden", "shown"} /\ typing \in 0..MaxTyped

\* A paste is in the document once at most, however late its reply, and in one
\* form; the notice offers to take back only what is there.
LandsOnce ==
    /\ \A i, j \in 1..Len(doc) : doc[i].kind # "word" /\ doc[j].kind # "word"
                                 /\ doc[i].n = doc[j].n => i = j
    /\ notice = "shown" => last.paste # 0 /\ doc = last.doc

\* What the author has in the document goes only if it is selected, now or when
\* the paste that lands was made: neither a landing nor its undoing takes a word
\* that was typed since.
OnlyTheSelectedGoes ==
    [][\A piece \in Among(doc) \ Among(doc') :
          \/ piece \in Covered(selection, doc)
          \/ \E k \in 1..Len(pastes) :
                /\ ~pastes[k].settled /\ pastes'[k].settled
                /\ piece \in Covered(pastes[k].at, pastes[k].before)
          \/ piece = Piece("doc", last.paste)]_pasteVars
=============================================================================
