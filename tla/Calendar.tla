------------------------------- MODULE Calendar -------------------------------
(***************************************************************************)
(* One chip on the editorial calendar.  The page drags it to a day or      *)
(* nudges it with an arrow key, and either way pushes the target day,      *)
(* reckoned from what the page last drew.  The server checks the day,      *)
(* writes it and re-runs its window query; another session's write arrives *)
(* as a message that arms one timer, whose re-query answers every message  *)
(* it absorbed.                                                            *)
(***************************************************************************)
EXTENDS Integers, Sequences

CONSTANTS Days,        \* the days on screen, as numbers
          Today,       \* the first day a chip may be moved to
          Strides,     \* what an arrow key adds (a day; a week, in rows)
          MaxMoves     \* bound: moves, here and by others

VARIABLES
  due,       \* the chip's day in the database
  events,    \* the day the server's window query last read
  messages,  \* calendar_changed messages in the mailbox
  requery,   \* the 100 ms timer is armed
  cell,      \* the day whose cell holds the chip on the page
  dated,     \* the chip's data-event-date
  moves,     \* reschedules on their way
  drawings,  \* renders on their way back: the day, and whether one of ours is answered
  meant,     \* where the editor has moved the chip to, all told
  unsure,    \* a move was reckoned from a page that was behind, or was refused
  made

calendarVars == <<due, events, messages, requery, cell, dated, moves, drawings,
                  meant, unsure, made>>

CalendarInit ==
  /\ due \in {d \in Days : d >= Today}
  /\ events = due /\ messages = 0 /\ requery = FALSE
  /\ cell = due /\ dated = due /\ moves = <<>> /\ drawings = <<>>
  /\ meant = due /\ unsure = FALSE /\ made = 0

Behind == dated # due \/ moves # <<>> \/ drawings # <<>>

Reschedule(day) ==
  /\ made < MaxMoves /\ made' = made + 1
  /\ moves' = Append(moves, day)
  /\ unsure' = (unsure \/ Behind)
  /\ UNCHANGED <<due, events, messages, requery, dated, drawings>>

(* Dropped into another day's cell: the drop has moved the element.        *)
DropChip ==
  \E day \in Days \ {cell} :
    /\ cell' = day /\ meant' = day
    /\ Reschedule(day)

(* An arrow key counts from data-event-date and moves nothing itself.      *)
Nudge ==
  \E stride \in Strides :
    /\ meant' = meant + stride
    /\ Reschedule(dated + stride)
    /\ UNCHANGED cell

Reload(day) ==
  /\ events' = day
  /\ drawings' = Append(drawings, day)

(* Past days and days off the grid are refused; either way the window is   *)
(* read and drawn again.  A write of ours is broadcast to us as well.      *)
Accepted(day) == day >= Today /\ day \in Days

HandleMove ==
  /\ moves # <<>> /\ moves' = Tail(moves)
  /\ LET day == Head(moves)
     IN IF Accepted(day)
        THEN /\ due' = day /\ messages' = messages + 1
             /\ Reload(day)
             /\ UNCHANGED unsure
        ELSE /\ Reload(due)
             /\ unsure' = TRUE
             /\ UNCHANGED <<due, messages>>
  /\ UNCHANGED <<requery, cell, dated, meant, made>>

(* Another session, a scheduler or the API moves it.                       *)
OthersMove ==
  /\ made < MaxMoves /\ made' = made + 1
  /\ \E day \in Days \ {due} : due' = day /\ meant' = day
  /\ messages' = messages + 1
  /\ unsure' = (unsure \/ moves # <<>>)
  /\ UNCHANGED <<events, requery, cell, dated, moves, drawings>>

(* Mutant: a message that arms nothing.                                    *)
CalendarChanged_Unarmed ==
  /\ messages > 0 /\ messages' = messages - 1
  /\ UNCHANGED <<due, events, requery, cell, dated, moves, drawings, meant, unsure, made>>

(* The first message arms the timer, the others are absorbed.              *)
CalendarChanged ==
  /\ messages > 0 /\ messages' = messages - 1
  /\ requery' = TRUE
  /\ UNCHANGED <<due, events, cell, dated, moves, drawings, meant, unsure, made>>

RequeryCalendar ==
  /\ requery /\ requery' = FALSE
  /\ Reload(due)
  /\ UNCHANGED <<due, messages, cell, dated, moves, meant, unsure, made>>

DrawGrid ==
  /\ drawings # <<>> /\ drawings' = Tail(drawings)
  /\ cell' = Head(drawings) /\ dated' = Head(drawings)
  /\ IF moves = <<>> /\ Len(drawings) = 1 /\ Head(drawings) = due
     THEN meant' = due /\ unsure' = FALSE
     ELSE UNCHANGED <<meant, unsure>>
  /\ UNCHANGED <<due, events, messages, requery, moves, made>>

CalendarNext == DropChip \/ Nudge \/ HandleMove \/ OthersMove
                \/ CalendarChanged \/ RequeryCalendar \/ DrawGrid

CalendarFairness == WF_calendarVars(CalendarChanged) /\ WF_calendarVars(RequeryCalendar)
                    /\ WF_calendarVars(DrawGrid) /\ WF_calendarVars(HandleMove)

CalendarSpec == CalendarInit /\ [][CalendarNext]_calendarVars /\ CalendarFairness

-----------------------------------------------------------------------------
CalendarTypeOK ==
  /\ due \in Days /\ events \in Days /\ cell \in Days /\ dated \in Days
  /\ messages \in Nat /\ requery \in BOOLEAN /\ unsure \in BOOLEAN

(* The window is never left stale: while it differs from the database a    *)
(* message or the timer is still there to have it read again, however many *)
(* writes one re-query answers.                                            *)
StaleMeansRequery == events # due => messages > 0 \/ requery

(* A chip ends where the moves made of it add up to, if each was made from *)
(* a page that showed the last; two nudges within a round trip count from  *)
(* the same day, and one made across another session's move undoes it.     *)
MovesAddUp == moves = <<>> => due = meant \/ unsure

(* With no more moves, the page shows the day the chip is due.             *)
GridCatchesUp == <>[](cell = due /\ dated = due)
=============================================================================
