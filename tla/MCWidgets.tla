------------------------------ MODULE MCWidgets ------------------------------
(***************************************************************************)
(* The instances, for TLC, of those parts of the browser side whose        *)
(* modules name a variable alike: each gets variables of its own.          *)
(***************************************************************************)
EXTENDS Integers, Sequences, FiniteSets

CONSTANTS MaxKeys, MaxClicks, MaxHitches
ASSUME PushAssumption == MaxKeys \in Nat \ {0} /\ MaxClicks \in Nat /\ MaxHitches \in Nat
VARIABLES siteKey, rows, made, subscription, granted, pushView, pushPage, tasks, inbox, rushed,
          clicks, hitches
pushVars ==
    <<siteKey, rows, made, subscription, granted, pushView, pushPage, tasks, inbox, rushed,
      clicks, hitches>>
Push == INSTANCE PushOptIn
          WITH view <- pushView, dom <- pushPage, MaxTrouble <- MaxHitches

CONSTANTS MaxPastes, MaxTyped
ASSUME MarkdownAssumption == MaxPastes \in Nat /\ MaxTyped \in Nat
VARIABLES doc, selection, pastes, last, pasteNotice, typing
pasteVars == <<doc, selection, pastes, last, pasteNotice, typing>>
Paste == INSTANCE MarkdownPaste WITH notice <- pasteNotice

CONSTANTS Ladder, MaxDimension, MaxSide, MaxDpr
ASSUME SrcsetAssumption ==
    /\ Ladder \subseteq Nat \ {0} /\ Ladder # {} /\ IsFiniteSet(Ladder)
    /\ MaxDimension \in Nat \ {0} /\ MaxSide \in Nat /\ MaxDpr \in Nat
VARIABLES source, options, requests
srcsetVars == <<source, options, requests>>
Srcset == INSTANCE ImageSrcset WITH Ratios <- {<<3, 2>>, <<1, 3>>}

CONSTANTS MaxPanel, MaxPresses, MaxMoves
VARIABLES parent, closable, connected, traps, dialogFocus, pageNumber, pushes, strayed, opened,
          presses, moves
dialogVars ==
    <<parent, closable, connected, traps, dialogFocus, pageNumber, pushes, strayed, opened,
      presses, moves>>
Dialog == INSTANCE Dialogs WITH focus <- dialogFocus

CONSTANTS Names, MaxTyping
VARIABLES box, timer, asks, answers, query, listed, tags, ticked, conflict, crossed, dropped,
          tagTyping
tagVars ==
    <<box, timer, asks, answers, query, listed, tags, ticked, conflict, crossed, dropped,
      tagTyping>>
Tag == INSTANCE TagPicker WITH typing <- tagTyping

CONSTANTS Messages, MaxFlashes, MaxHovers
VARIABLES flash, puts, clears, renders, drawn, hidden, ticking, over, hovers
flashVars == <<flash, puts, clears, renders, drawn, hidden, ticking, over, hovers>>
Flash == INSTANCE FlashTimer

CONSTANTS Days, Today
VARIABLES due, events, messages, requery, cell, dated, dayMoves, drawings, meant, unsure, movesMade
calVars == <<due, events, messages, requery, cell, dated, dayMoves, drawings, meant, unsure, movesMade>>
Cal == INSTANCE Calendar
         WITH moves <- dayMoves, made <- movesMade, Strides <- {-1, 1, 2}

\* A heading, links and paragraphs; the second block holds one element.
Element(tag, text) == [tag |-> tag, text |-> text]
PageElements ==
    {Element("h", <<>>), Element("a", <<"c">>), Element("a", <<"o">>),
     Element("p", <<"X", "X">>), Element("p", <<"o", "X", "X">>)}
PageBodies == {<<first, second>> : first \in PageElements \X PageElements,
                                   second \in {<<e>> : e \in PageElements}}

CONSTANTS LongFrom, ExampleLimit, MaxJumpActs
ASSUME AdviceAssumption == LongFrom \in Nat /\ ExampleLimit \in Nat \ {0}
VARIABLES body, findings, target, marks, clearTimer, pulsing, pulseEnds, jumps
adviceVars == <<body, findings, target, marks, clearTimer, pulsing, pulseEnds, jumps>>
Advice == INSTANCE AdvisoryJump WITH Elements <- PageElements, Bodies <- PageBodies
=============================================================================
