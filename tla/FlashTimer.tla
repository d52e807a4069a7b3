----------------------------- MODULE FlashTimer -----------------------------
(***************************************************************************)
(* An info flash and the timer that closes it: the server puts a message,  *)
(* the page draws it in one element, and five seconds later, or on a       *)
(* click, the page hides the element and pushes `lv:clear-flash`, which    *)
(* clears whatever the server shows by then.  A pointer over the flash, or *)
(* focus in it, stops the clock.                                           *)
(***************************************************************************)
EXTENDS Naturals, Sequences

CONSTANTS Messages,    \* what a flash may say
          MaxFlashes,  \* bound: messages the server puts
          MaxHovers    \* bound: times the pointer, or focus, comes in

NoFlash == ""

VARIABLES
  flash,     \* the server's message
  puts,
  clears,    \* lv:clear-flash pushes on their way
  renders,   \* renders on their way back
  drawn,     \* what the page's element says, NoFlash without an element
  hidden,    \* the element is hidden; a patch does not undo that
  ticking,   \* the timer is set
  over,      \* what keeps the clock: the pointer, focus
  hovers

flashVars == <<flash, puts, clears, renders, drawn, hidden, ticking, over, hovers>>

FlashInit ==
  /\ flash = NoFlash /\ puts = 0 /\ clears = 0 /\ renders = <<>>
  /\ drawn = NoFlash /\ hidden = FALSE /\ ticking = FALSE /\ over = {}
  /\ hovers = 0

(* Every answer carries what changed: no change, nothing to draw.          *)
Render(message) ==
  /\ flash' = message
  /\ renders' = IF message = flash THEN renders ELSE Append(renders, message)

PutFlash ==
  /\ puts < MaxFlashes /\ puts' = puts + 1
  /\ \E message \in Messages : Render(message)
  /\ UNCHANGED <<clears, drawn, hidden, ticking, over, hovers>>

ClearFlash ==
  /\ clears > 0 /\ clears' = clears - 1
  /\ Render(NoFlash)
  /\ UNCHANGED <<puts, drawn, hidden, ticking, over, hovers>>

(* Mutant: the timer starts though somebody is at the flash.               *)
Started_Always(who) == TRUE

(* start(): not while somebody is at it.                                   *)
Started(who) == who = {}

(* mounted, updated and destroyed: a new element gets a timer, a new       *)
(* message in it a new one, and none outlives the element.                 *)
Draw ==
  /\ renders # <<>> /\ renders' = Tail(renders)
  /\ drawn' = Head(renders)
  /\ IF drawn = NoFlash \/ drawn' = NoFlash
     THEN ticking' = (drawn' # NoFlash) /\ hidden' = FALSE /\ over' = {}
     ELSE ticking' = Started(over) /\ UNCHANGED <<hidden, over>>
  /\ UNCHANGED <<flash, puts, clears, hovers>>

Enter ==
  /\ drawn # NoFlash /\ ~hidden
  /\ hovers < MaxHovers /\ hovers' = hovers + 1
  /\ \E how \in {"hovered", "focused"} \ over : over' = over \cup {how}
  /\ ticking' = FALSE
  /\ UNCHANGED <<flash, puts, clears, renders, drawn, hidden>>

Leave ==
  /\ \E how \in over : over' = over \ {how}
  /\ ticking' = Started(over')
  /\ UNCHANGED <<flash, puts, clears, renders, drawn, hidden, hovers>>

Close ==
  /\ hidden' = TRUE
  /\ clears' = clears + 1
  /\ UNCHANGED <<flash, puts, renders, drawn, over, hovers>>

(* The timer runs the element's own phx-click.                             *)
Dismiss == /\ ticking /\ ticking' = FALSE
           /\ Close

Click == /\ drawn # NoFlash /\ ~hidden /\ over # {}
         /\ UNCHANGED ticking
         /\ Close

FlashNext == PutFlash \/ ClearFlash \/ Draw \/ Enter \/ Leave \/ Dismiss \/ Click

FlashSpec == FlashInit /\ [][FlashNext]_flashVars

-----------------------------------------------------------------------------
FlashTypeOK ==
  /\ flash \in Messages \cup {NoFlash} /\ drawn \in Messages \cup {NoFlash}
  /\ hidden \in BOOLEAN /\ ticking \in BOOLEAN
  /\ over \subseteq {"hovered", "focused"}
  /\ clears \in Nat

(* Once nothing is on its way, a message the server holds is on the page   *)
(* in plain sight, and either its clock is running or somebody is at it:   *)
(* no info flash stays for good, and none is held but hidden.              *)
ShownUntilItsTime ==
  (flash # NoFlash /\ renders = <<>> /\ clears = 0)
     => drawn = flash /\ ~hidden /\ (ticking \/ over # {})

(* A clock never runs over a flash somebody is reading.                    *)
NobodyIsCutShort == ticking => over = {} /\ drawn # NoFlash
=============================================================================
