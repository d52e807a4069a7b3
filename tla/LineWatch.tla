------------------------------ MODULE LineWatch ------------------------------
(***************************************************************************)
(* One editor page and its socket: the watch over a line that looks fine   *)
(* (assets/js/liveness.js), the connection notices                         *)
(* (connection_notice.js) and the save line that reads both                *)
(* (saved_ticker.js).                                                      *)
(*                                                                         *)
(* Time passes in ticks of one second, each of which runs the watch and    *)
(* the timers due by then.  Phoenix's own machinery is the environment: it *)
(* rebuilds a line that broke, and LiveView rejoins its view.              *)
(***************************************************************************)
EXTENDS Naturals

CONSTANTS
    Ask,         \* ticks between two questions
    Quiet,       \* ticks of silence a line in front is allowed
    Revive,      \* ticks between two rebuilds
    Late,        \* ticks before a page that does not stand is marked
    Grace,       \* ticks of unbroken trouble before a notice
    Fade,        \* ticks a landed save stays loud
    MaxBreaks    \* how often something breaks, is put away or is saved

ASSUME LineAssumption ==
    /\ {Ask, Revive} \subseteq Nat \ {0}
    /\ {Quiet, Late, Grace, Fade, MaxBreaks} \subseteq Nat
    /\ Ask <= Quiet   \* "quiet has to stay well above tick"

VARIABLES
    socket,   \* the line as it is, and whether its last close was clean
    view,     \* the main view: joined, "old" (joined on a line that is gone),
              \* or in "client" or "server" trouble
    front,    \* whether the tab is in front
    watch,    \* what liveness.js keeps
    late,     \* phx-late on the root
    notice,   \* what connection_notice.js keeps and shows
    ticker,   \* what the save line keeps and says
    breaks    \* those counted by MaxBreaks

lineVars == <<socket, view, front, watch, late, notice, ticker, breaks>>

\* "dead" was cut without a goodbye: the browser still calls it connected.
Wires == {"open", "dead", "closed"}
Connected(wire) == wire \in {"open", "dead"}
Troubles == {"client", "server"}
NoTrouble == "none"
Off == 0    \* of a timer

\* Ages grow to the threshold they are compared with.
Older(age, threshold) == IF age > threshold THEN age ELSE age + 1
Ago(age, threshold) == age >= threshold

FreshWatch == [heard |-> 0, asked |-> Ask, waiting |-> FALSE, revived |-> Revive, lateIn |-> Off]

\* A page that loaded and joined, and was typed in: its save line still has the
\* server's own words.
LineInit ==
    /\ socket = [wire |-> "open", clean |-> FALSE]
    /\ view = "joined" /\ front = TRUE
    /\ watch = FreshWatch
    /\ late = FALSE
    /\ notice = [trouble |-> NoTrouble, age |-> 0, shown |-> NoTrouble]
    /\ ticker = [saved |-> FALSE, fresh |-> Off, says |-> "server"]
    /\ breaks = 0

Counted == breaks < MaxBreaks /\ breaks' = breaks + 1

(***************************************************************************)
(* The watch (liveness.js).                                                *)
(***************************************************************************)

\* Mutant: the silence is kept across a rebuild.
ForgetTheAsk_StillQuiet(w) == [w EXCEPT !.asked = Ask, !.waiting = FALSE]

ForgetTheAsk(w) == [w EXCEPT !.heard = 0, !.asked = Ask, !.waiting = FALSE]

\* One question at a time, and only from a page in front.
Asked(w, inFront) ==
    IF inFront /\ ~w.waiting /\ Ago(w.asked, Ask)
    THEN [w EXCEPT !.asked = 0, !.waiting = TRUE] ELSE w

\* readTheLine: quiet is marked now; a page that stands, never; the rest soon.
Mark(w, inFront) ==
    IF Connected(socket.wire) /\ ~socket.clean /\ inFront /\ w.heard > Quiet THEN "now"
    ELSE IF Connected(socket.wire) /\ view \in {"joined", "old"} THEN "never" ELSE "soon"

\* say: the mark on the root, and the timer that will put it there.
Said(w, mark) ==
    CASE mark = "soon" /\ w.lateIn = Off /\ ~late -> [w EXCEPT !.lateIn = Late]
      [] mark = "soon" -> w
      [] OTHER -> [w EXCEPT !.lateIn = Off]

\* revive: down and up again, at most once in Revive ticks.  The close may or
\* may not reach the view's channel.
Reviving(w, mark) == mark = "now" /\ Ago(w.revived, Revive)

\* watchTheLine, from a watch whose ages are w's, the late timer having run out
\* or not.
WatchTheLine(w, inFront, ranOut) ==
    LET heard == IF ~Connected(socket.wire) \/ socket.clean THEN ForgetTheAsk(w)
                 ELSE Asked(w, inFront)
        mark == Mark(heard, inFront)
        said == Said(heard, mark)
    IN  /\ late' = (mark = "now" \/ (mark = "soon" /\ (late \/ ranOut)))
        /\ IF Reviving(said, mark)
           THEN /\ watch' = [ForgetTheAsk(said) EXCEPT !.revived = 0]
                /\ socket' = [wire |-> "closed", clean |-> FALSE]
                /\ view' \in {"client", IF view = "joined" THEN "old" ELSE view}
           ELSE watch' = said /\ UNCHANGED <<socket, view>>

\* backInFront, shown again or focused: the silence a hidden page brings says
\* nothing about the line.
ComeBack ==
    /\ IF front THEN Counted ELSE UNCHANGED breaks
    /\ front' = TRUE
    /\ WatchTheLine(ForgetTheAsk(watch), TRUE, FALSE)
    /\ UNCHANGED <<notice, ticker>>

GoAway ==
    /\ front /\ Counted
    /\ front' = FALSE
    /\ WatchTheLine(watch, FALSE, FALSE)
    /\ UNCHANGED <<notice, ticker>>

\* The server answers the question that was asked on this line.
Answer ==
    /\ watch.waiting /\ socket.wire = "open"
    /\ watch' = [watch EXCEPT !.waiting = FALSE, !.heard = 0]
    /\ UNCHANGED <<socket, view, front, late, notice, ticker, breaks>>

(***************************************************************************)
(* The notices (connection_notice.js): check runs on every change of the   *)
(* view's classes, and when the grace is over.                             *)
(***************************************************************************)

TroubleOf(v) == IF v \in Troubles THEN v ELSE NoTrouble

Noticed(trouble, age) ==
    [trouble |-> trouble, age |-> age,
     shown |-> IF trouble # NoTrouble /\ age >= Grace THEN trouble ELSE NoTrouble]

\* A line that comes back and then fails to rejoin is one outage.
Checked(trouble) ==
    Noticed(trouble, IF NoTrouble \in {trouble, notice.trouble} THEN 0 ELSE notice.age)

Graced(n, trouble) ==
    IF trouble = NoTrouble THEN Noticed(trouble, 0)
    ELSE Noticed(trouble, IF n.age >= Grace THEN n.age ELSE n.age + 1)

(***************************************************************************)
(* The save line (saved_ticker.js).                                        *)
(***************************************************************************)

Offline(marked, v) == marked \/ v \in Troubles

\* paint: over a line that is down or quiet it says so; a draft that is saved
\* has its stamp, any other keeps the words that are there.
Painted(t, marked, v) ==
    [t EXCEPT !.says = IF Offline(marked, v) THEN "offline"
                       ELSE IF ~t.saved THEN @
                       ELSE IF t.fresh # Off THEN "fresh" ELSE "stamp"]

\* A save lands: the line turns loud for a moment.
SaveLands ==
    /\ socket.wire = "open" /\ view = "joined" /\ Counted
    /\ ticker' = Painted([ticker EXCEPT !.saved = TRUE, !.fresh = Fade], late, view)
    /\ watch' = [watch EXCEPT !.heard = 0]
    /\ UNCHANGED <<socket, view, front, late, notice>>

(***************************************************************************)
(* A second passes.  An open line has answered what it was asked before.   *)
(***************************************************************************)
Second ==
    LET aged == [watch EXCEPT !.heard = Older(@, Quiet), !.asked = Older(@, Ask),
                              !.revived = Older(@, Revive),
                              !.lateIn = IF @ = Off THEN Off ELSE @ - 1]
        faded == IF ticker.fresh = Off THEN ticker ELSE [ticker EXCEPT !.fresh = @ - 1]
    IN  /\ ~(watch.waiting /\ socket.wire = "open")
        /\ WatchTheLine(aged, front, watch.lateIn = 1)
        /\ notice' = Graced(Checked(TroubleOf(view')), TroubleOf(view'))
        /\ ticker' = Painted(faded, late', view')
        /\ UNCHANGED <<front, breaks>>

(***************************************************************************)
(* The environment.                                                        *)
(***************************************************************************)

\* Cut without a goodbye: the machine slept, a proxy let it go.
Cut ==
    /\ socket.wire = "open" /\ Counted
    /\ socket' = [socket EXCEPT !.wire = "dead"]
    /\ UNCHANGED <<view, front, watch, late, notice, ticker>>

\* The browser learns that the line is closed, and so does the view.
Closed ==
    /\ Connected(socket.wire)
    /\ IF socket.wire = "open" THEN Counted ELSE UNCHANGED breaks
    /\ socket' = [wire |-> "closed", clean |-> FALSE]
    /\ view' = "client"
    /\ notice' = Checked("client")
    /\ UNCHANGED <<front, watch, late, ticker>>

\* Into the back-forward cache: a close written off as deliberate, that reaches
\* no channel.  Leaving it, Phoenix connects again.
Freeze ==
    /\ ~front /\ Connected(socket.wire) /\ ~socket.clean
    /\ socket' = [wire |-> "closed", clean |-> TRUE]
    /\ view' = IF view = "joined" THEN "old" ELSE view
    /\ UNCHANGED <<front, watch, late, notice, ticker, breaks>>

Thaw ==
    /\ socket.clean
    /\ socket' = [socket EXCEPT !.clean = FALSE]
    /\ UNCHANGED <<view, front, watch, late, notice, ticker, breaks>>

\* Mutant: the views of the old line are left as they are.
Reconnect_ViewsKept ==
    /\ socket = [wire |-> "closed", clean |-> FALSE]
    /\ socket' = [socket EXCEPT !.wire = "open"]
    /\ watch' = ForgetTheAsk(watch)
    /\ UNCHANGED <<view, notice, front, late, ticker, breaks>>

\* A new line: the ask is forgotten and the views of the old one are dropped.
Reconnect ==
    /\ socket = [wire |-> "closed", clean |-> FALSE]
    /\ socket' = [socket EXCEPT !.wire = "open"]
    /\ watch' = ForgetTheAsk(watch)
    /\ view' = IF view \in {"joined", "old"} THEN "client" ELSE view
    /\ notice' = Checked(TroubleOf(view'))
    /\ UNCHANGED <<front, late, ticker, breaks>>

\* The view is opened on the line that is up, and the page patched: a view that
\* mounts has nothing unsaved.
ViewJoins ==
    /\ socket.wire = "open" /\ view \in Troubles
    /\ view' = "joined"
    /\ notice' = Checked(NoTrouble)
    /\ ticker' = Painted([ticker EXCEPT !.saved = TRUE], late, view')
    /\ watch' = [watch EXCEPT !.heard = 0]
    /\ UNCHANGED <<socket, front, late, breaks>>

\* Or the server cannot open it.
ViewRefused ==
    /\ socket.wire = "open" /\ view = "client" /\ Counted
    /\ view' = "server"
    /\ notice' = Checked("server")
    /\ watch' = [watch EXCEPT !.heard = 0]
    /\ UNCHANGED <<socket, front, late, ticker>>

\* "Try again": a page the server could not open is reloaded, a line that is
\* down is built again at once.
TryAgain ==
    /\ notice.shown # NoTrouble
    /\ IF view = "server"
       THEN /\ socket' = [wire |-> "closed", clean |-> FALSE] /\ view' = "client"
            /\ watch' = FreshWatch /\ late' = FALSE
            /\ notice' = [trouble |-> "client", age |-> 0, shown |-> NoTrouble]
            /\ ticker' = [ticker EXCEPT !.fresh = Off, !.says = "server"]
       ELSE /\ socket' = [wire |-> "closed", clean |-> FALSE]
            /\ UNCHANGED <<view, watch, late, notice, ticker>>
    /\ UNCHANGED <<front, breaks>>

LineNext ==
    \/ Second \/ Answer \/ ComeBack \/ GoAway \/ SaveLands \/ TryAgain
    \/ Cut \/ Closed \/ Freeze \/ Thaw \/ Reconnect \/ ViewJoins \/ ViewRefused

LineSpec == LineInit /\ [][LineNext]_lineVars

\* Clocks run, an open line answers, Phoenix rebuilds a line that broke and
\* LiveView rejoins on one that stays up, a cached page that is shown again
\* connects.  Nobody has to press anything.
LineFairness ==
    /\ WF_lineVars(Second) /\ WF_lineVars(Answer) /\ WF_lineVars(Thaw)
    /\ WF_lineVars(Reconnect) /\ SF_lineVars(ViewJoins)

(***************************************************************************)
(* Properties.                                                             *)
(***************************************************************************)

LineTypeOK ==
    /\ socket \in [wire : Wires, clean : BOOLEAN]
    /\ view \in {"joined", "old"} \union Troubles
    /\ {front, late} \subseteq BOOLEAN
    /\ watch \in [heard : 0..(Quiet + 1), asked : 0..(Ask + 1), waiting : BOOLEAN,
                  revived : 0..(Revive + 1), lateIn : 0..Late]
    /\ notice \in [trouble : Troubles \union {NoTrouble}, age : 0..Grace,
                   shown : Troubles \union {NoTrouble}]
    /\ ticker \in [saved : BOOLEAN, fresh : 0..Fade,
                   says : {"offline", "server", "fresh", "stamp"}]
    /\ breaks \in 0..MaxBreaks

\* A line that answers is never called quiet and taken down, however long the
\* tab was away and whatever was rebuilt before: "quiet has to stay well above
\* tick or a page would call itself quiet between answers".
LiveLineLeftAlone ==
    [][watch'.revived = 0 /\ watch.revived # 0 => socket.wire = "dead"]_lineVars

\* What the page says is what it is: it shows the notice of the trouble it is
\* in now and of no other, and a view that reads joined on a line that is up
\* was joined on this very line.
NoticesAreCurrent ==
    /\ notice.shown \in {NoTrouble, TroubleOf(view)}
    /\ socket.wire = "open" => view # "old"

\* A page that stays in front gets its line back, however it was lost, and then
\* takes back every word about it: the mark, the notices and the save line's.
LineHeals ==
    <>[]front => <>[](/\ socket.wire = "open" /\ view = "joined" /\ ~late
                      /\ notice.shown = NoTrouble /\ ticker.says # "offline")
=============================================================================
