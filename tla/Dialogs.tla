------------------------------- MODULE Dialogs -------------------------------
(***************************************************************************)
(* Focus and Escape among the dialogs of a console page                    *)
(* (assets/js/focus_trap.js).  A dialog's panel is in the document until a *)
(* patch takes it out; after a live navigation its hook outlives it by a   *)
(* round trip.  Panels are numbered in document order, and may be nested.  *)
(***************************************************************************)
EXTENDS Naturals, Sequences, SequencesExt

CONSTANTS
    MaxPanel,   \* the panels that are ever opened are 1..MaxPanel
    MaxPresses, \* how often Escape is pressed
    MaxMoves    \* how often focus is moved by hand, or the page is left

VARIABLES
    parent,     \* the panel each is rendered inside of, or 0
    closable,   \* the panels with a data-close-event
    connected,  \* those in the document
    traps,      \* those whose hook is mounted, and what opened them
    focus,      \* document.activeElement
    pageNumber, \* the page the view shows
    pushes,     \* the close events the view has not answered
    strayed,    \* focus was put on <body> by hand, or a dialog opened from there,
                \* or closed before one that was opened from it
    opened, presses, moves

dialogVars == <<parent, closable, connected, traps, focus, pageNumber, pushes, strayed,
                opened, presses, moves>>

Panels == 1..MaxPanel
Nowhere == <<"body", 0>>
Page(n) == <<"page", n>>
In(p) == <<"panel", p>>
NotMounted == <<"none", 0>>

\* q contains p, which contains itself: with p and the panel that each is rendered
\* inside of, every set has q.
Nested(S) == \A r \in S : parent[r] # 0 => parent[r] \in S
Within(p, q) == \A S \in SUBSET Panels : p \in S /\ Nested(S) => q \in S
Holds(q, place) == \E p \in Panels : place = In(p) /\ Within(p, q)
Mounted == {p \in Panels : traps[p] # NotMounted}
Reachable(place) == place = Page(pageNumber) \/ \E p \in connected : place = In(p)

DialogsInit ==
    /\ parent \in [Panels -> 0..MaxPanel]
    /\ \A p \in Panels : parent[p] # 0 => parent[p] < p /\ Within(p - 1, parent[p])
    /\ closable \in SUBSET Panels
    /\ connected = {} /\ traps = [p \in Panels |-> NotMounted]
    /\ focus = Page(1) /\ pageNumber = 1
    /\ pushes = <<>> /\ strayed = FALSE
    /\ opened = {} /\ presses = 0 /\ moves = 0

Moves == moves < MaxMoves /\ moves' = moves + 1

\* mounted: focus goes into the panel.
Open(p) ==
    /\ p \notin opened /\ opened' = opened \union {p}
    /\ parent[p] # 0 => parent[p] \in connected
    /\ connected' = connected \union {p}
    /\ traps' = [traps EXCEPT ![p] = focus]
    /\ focus' = In(p)
    /\ strayed' = (strayed \/ focus = Nowhere)
    /\ UNCHANGED <<parent, closable, pageNumber, pushes, presses, moves>>

\* By hand: to something that can be reached, or, of a click, to nothing.
MoveFocus(place) ==
    /\ Moves /\ place # focus
    /\ place = Nowhere \/ Reachable(place)
    /\ focus' = place
    /\ strayed' = (place = Nowhere \/ (strayed /\ connected # {}))
    /\ UNCHANGED <<parent, closable, connected, traps, pageNumber, pushes, opened, presses>>

(***************************************************************************)
(* Escape.                                                                 *)
(***************************************************************************)

\* Mutant: the one that was mounted last, shown or not.
Innermost_Mounted(p) == p \in Mounted /\ \A q \in Mounted : q <= p

\* innermost: of the panels in the document, one that contains no other, and of
\* siblings the later.
Innermost(p) ==
    /\ p \in connected \intersect Mounted
    /\ \A q \in connected \intersect Mounted : q # p => ~Within(q, p) /\ (Within(p, q) \/ q < p)

\* The panel that sees the press first and answers it: outwards from where focus
\* is, or, with focus in no panel, the innermost.
Answers(p) ==
    /\ p \in closable \intersect Mounted
    /\ \/ /\ Holds(p, focus)
          /\ \A q \in closable \intersect Mounted : Holds(q, focus) => Within(p, q)
       \/ Innermost(p) /\ ~\E q \in Mounted : Holds(q, focus)

Escape ==
    /\ presses < MaxPresses /\ presses' = presses + 1
    /\ IF \E p \in Panels : Answers(p)
       THEN \E p \in Panels : Answers(p) /\ pushes' = Append(pushes, p)
       ELSE UNCHANGED pushes
    /\ UNCHANGED <<parent, closable, connected, traps, focus, pageNumber, strayed, opened, moves>>

(***************************************************************************)
(* The view.                                                               *)
(***************************************************************************)

\* Mutant: a dialog that closes restores nothing.
Removed_Unfocused(gone) ==
    /\ connected' = connected \ gone
    /\ traps' = [p \in Panels |-> IF p \in gone THEN NotMounted ELSE traps[p]]
    /\ strayed' = (strayed \/ \E p \in gone, q \in connected \ gone : traps[q] = In(p))
    /\ focus' = IF \E p \in gone : focus = In(p) THEN Nowhere ELSE focus

\* A patch takes a panel out, and what it contains: destroyed gives focus back
\* to whatever opened it, if that is still around.
Removed(gone) ==
    LET kept == connected \ gone
        places == {traps[p] : p \in gone} \intersect ({Page(pageNumber)} \union {In(p) : p \in kept})
    IN  /\ connected' = kept
        /\ traps' = [p \in Panels |-> IF p \in gone THEN NotMounted ELSE traps[p]]
        /\ strayed' = (strayed \/ \E p \in gone, q \in kept : traps[q] = In(p))
        /\ IF places # {} THEN focus' \in places
           ELSE focus' = IF \E p \in gone : focus = In(p) THEN Nowhere ELSE focus

\* The event is handled; a second one finds nothing to close.
Closed ==
    /\ pushes # <<>> /\ pushes' = Tail(pushes)
    /\ Removed({p \in connected : Within(p, Head(pushes))})
    /\ UNCHANGED <<parent, closable, pageNumber, opened, presses, moves>>

\* Or a button, or the server by itself, closes one.
ClosedOtherwise(p) ==
    /\ p \in connected
    /\ Removed({q \in connected : Within(q, p)})
    /\ UNCHANGED <<parent, closable, pageNumber, pushes, opened, presses, moves>>

\* Live navigation: the page that replaces the old one is there before the old
\* view's hooks are gone.
Navigate ==
    /\ Moves
    /\ pageNumber' = pageNumber + 1
    /\ connected' = {} /\ pushes' = <<>>
    /\ focus' = Nowhere /\ strayed' = TRUE
    /\ UNCHANGED <<parent, closable, traps, opened, presses>>

Destroyed(p) ==
    /\ p \in Mounted \ connected
    /\ traps' = [traps EXCEPT ![p] = NotMounted]
    /\ UNCHANGED <<parent, closable, connected, focus, pageNumber, pushes, strayed,
                   opened, presses, moves>>

DialogsNext ==
    \/ Escape \/ Closed \/ Navigate
    \/ \E p \in Panels : Open(p) \/ ClosedOtherwise(p) \/ Destroyed(p)
    \/ \E place \in {Nowhere, Page(pageNumber)} \union {In(p) : p \in Panels} : MoveFocus(place)

DialogsSpec == DialogsInit /\ [][DialogsNext]_dialogVars

(***************************************************************************)
(* Properties.                                                             *)
(***************************************************************************)

DialogsTypeOK ==
    /\ connected \subseteq opened /\ opened \subseteq Panels
    /\ connected \subseteq Mounted
    /\ pushes \in Seq(Panels) /\ strayed \in BOOLEAN

\* An Escape is for one dialog, of the page that is shown, and never closes one
\* out from under another: a dialog with a closable one on top of it is closed
\* only when focus is in it and not in the other.
EscapeClosesTheTop ==
    [][Len(pushes') > Len(pushes) =>
          LET p == Last(pushes')
          IN  /\ p \in connected
              /\ \A q \in (connected \intersect closable) \ {p} :
                    Within(q, p) \/ (q > p /\ ~Within(p, q)) =>
                        Holds(p, focus) /\ ~Holds(q, focus)]_dialogVars

\* With every dialog closed, focus is where the person left the page, unless
\* they had left it before.
FocusComesBack ==
    connected = {} /\ ~strayed => focus = Page(pageNumber)
=============================================================================
