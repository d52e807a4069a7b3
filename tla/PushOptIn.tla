------------------------------ MODULE PushOptIn ------------------------------
(***************************************************************************)
(* One device's web-push subscription: the toggle on /editor/settings      *)
(* (assets/js/push.js, KilnCMSWeb.SettingsLive), the rows the server keeps *)
(* (KilnCMS.Push), the site's key and its rotation (KilnCMS.Push.Keys), and *)
(* the sender (KilnCMS.Push.Worker).                                       *)
(*                                                                         *)
(* A browser's subscription is an endpoint bound to the key it was made    *)
(* with; the push service refuses a message signed with any other.  Every  *)
(* await of enable() is a step of its own.                                 *)
(***************************************************************************)
EXTENDS Naturals, Sequences, FiniteSets

CONSTANTS
    MaxKeys,     \* the site's keys, the first and those it rotates to
    MaxClicks,   \* how often the toggle is clicked or the page loaded again
    MaxTrouble   \* how often the browser drops the subscription, registration
                 \* fails, or the row is removed from another device

VARIABLES
    siteKey,     \* the key the site signs with
    rows,        \* the PushSubscription rows of this device
    made,        \* the key each endpoint was made with, in order
    subscription,\* the endpoint the browser holds, or NoEndpoint
    granted,     \* Notification.permission
    view,        \* the LiveView's assigns: push_key, push_subscribed?
    dom,         \* what the page has of them
    tasks,       \* the enable() and disable() calls under way
    inbox,       \* the events the view has not handled
    rushed,      \* somebody clicked before the page had answered the last click
    clicks, hitches

pushVars == <<siteKey, rows, made, subscription, granted, view, dom, tasks, inbox,
              rushed, clicks, hitches>>

NoEndpoint == 0
Keys == 1..MaxKeys
Endpoints == 1..Len(made)
Assigns(key, on) == [key |-> key, on |-> on]
Event(kind, endpoint) == [kind |-> kind, endpoint |-> endpoint]
Task(step, key) == [step |-> step, key |-> key]

PushInit ==
    /\ siteKey = 1 /\ rows = {} /\ made = <<>> /\ subscription = NoEndpoint
    /\ granted \in BOOLEAN
    /\ view = Assigns(1, FALSE) /\ dom = view
    /\ tasks = <<>> /\ inbox = <<>>
    /\ rushed = FALSE
    /\ clicks = 0 /\ hitches = 0

Hitch == hitches < MaxTrouble /\ hitches' = hitches + 1
Clicked == clicks < MaxClicks /\ clicks' = clicks + 1
Without(s, i) == SubSeq(s, 1, i - 1) \o SubSeq(s, i + 1, Len(s))
\* A call that goes on, and one that ends with an event.
Steps(i, task) == tasks' = [tasks EXCEPT ![i] = task]
Ends(i, event) == tasks' = Without(tasks, i) /\ inbox' = Append(inbox, event)

(***************************************************************************)
(* The page (push.js).                                                     *)
(***************************************************************************)

\* mount, and syncState: the page asks the browser what it holds.
Mount ==
    /\ Clicked
    /\ view' = Assigns(siteKey, FALSE) /\ dom' = view'
    /\ tasks' = <<Task("sync", 0)>> /\ inbox' = <<>>
    /\ UNCHANGED <<siteKey, rows, made, subscription, granted, rushed, hitches>>

\* Mutant: any subscription counts.
MadeWith_Any(endpoint, key) == endpoint # NoEndpoint

MadeWith(endpoint, key) == endpoint # NoEndpoint /\ made[endpoint] = key

SyncState(i) ==
    /\ tasks[i].step = "sync"
    /\ \/ /\ Ends(i, Event(IF MadeWith(subscription, dom.key) THEN "on" ELSE "off", subscription))
          /\ UNCHANGED hitches
       \/ Hitch /\ Ends(i, Event("unsupported", NoEndpoint))
    /\ UNCHANGED <<siteKey, rows, made, subscription, granted, view, dom, rushed, clicks>>

Click ==
    /\ Clicked
    /\ rushed' = (rushed \/ tasks # <<>> \/ inbox # <<>> \/ dom # view)
    /\ IF dom.on THEN tasks' = Append(tasks, Task("disable", 0)) /\ UNCHANGED <<inbox, granted>>
       ELSE \/ tasks' = Append(tasks, Task("register", 0)) /\ granted' = TRUE /\ UNCHANGED inbox
            \/ ~granted /\ inbox' = Append(inbox, Event("denied", NoEndpoint))
               /\ UNCHANGED <<tasks, granted>>
    /\ UNCHANGED <<siteKey, rows, made, subscription, view, dom, hitches>>

\* The worker is ready, or the five seconds are over; the key is read now, and a
\* subscription made with another is in the way.
Registered(i) ==
    /\ tasks[i].step = "register"
    /\ \/ Steps(i, Task(IF subscription = NoEndpoint \/ MadeWith(subscription, dom.key)
                        THEN "subscribe" ELSE "drop", dom.key))
          /\ UNCHANGED <<inbox, hitches>>
       \/ Hitch /\ Ends(i, Event("failed", NoEndpoint))
    /\ UNCHANGED <<siteKey, rows, made, subscription, granted, view, dom, rushed, clicks>>

DropOld(i) ==
    /\ tasks[i].step = "drop"
    /\ subscription' = NoEndpoint
    /\ Steps(i, Task("subscribe", tasks[i].key))
    /\ UNCHANGED <<siteKey, rows, made, granted, view, dom, inbox, rushed, clicks, hitches>>

\* subscribe: the subscription there is, when its key is the same; a new one when
\* there is none; else it rejects.
Subscribe(i) ==
    LET key == tasks[i].key
    IN  /\ tasks[i].step = "subscribe"
        /\ IF subscription = NoEndpoint
           THEN /\ made' = Append(made, key) /\ subscription' = Len(made')
                /\ Ends(i, Event("subscribed", Len(made')))
           ELSE /\ Ends(i, IF MadeWith(subscription, key) THEN Event("subscribed", subscription)
                           ELSE Event("failed", NoEndpoint))
                /\ UNCHANGED <<made, subscription>>
        /\ UNCHANGED <<siteKey, rows, granted, view, dom, rushed, clicks, hitches>>

\* disable: unsubscribed here first, a failure swallowed; then the row goes.
Disable(i) ==
    /\ tasks[i].step = "disable"
    /\ \/ subscription' = NoEndpoint /\ UNCHANGED hitches
       \/ Hitch /\ UNCHANGED subscription
    /\ Ends(i, Event(IF subscription = NoEndpoint THEN "off" ELSE "unsubscribed", subscription))
    /\ UNCHANGED <<siteKey, rows, made, granted, view, dom, rushed, clicks>>

Patched ==
    /\ dom # view
    /\ dom' = view
    /\ UNCHANGED <<siteKey, rows, made, subscription, granted, view, tasks, inbox,
                   rushed, clicks, hitches>>

(***************************************************************************)
(* The view (SettingsLive) and Push.subscribe.                             *)
(***************************************************************************)

RowsOf(endpoint) == {row \in rows : row.endpoint = endpoint}

\* Mutant: bound to the key the site has by then.
Registration_SiteKey(endpoint) ==
    /\ rows' = (rows \ RowsOf(endpoint)) \union {[endpoint |-> endpoint, key |-> siteKey]}
    /\ view' = Assigns(siteKey, TRUE)

\* push_subscribed: the row is bound to the key this page was given, if that is
\* still the site's; otherwise the page is given the new one.
Registration(endpoint) ==
    IF view.key = siteKey
    THEN /\ rows' = (rows \ RowsOf(endpoint)) \union {[endpoint |-> endpoint, key |-> view.key]}
         /\ view' = Assigns(view.key, TRUE)
    ELSE view' = Assigns(siteKey, FALSE) /\ UNCHANGED rows

Handle ==
    LET event == Head(inbox)
    IN  /\ inbox # <<>> /\ inbox' = Tail(inbox)
        /\ CASE event.kind = "subscribed" -> Registration(event.endpoint)
             [] event.kind = "unsubscribed" -> /\ rows' = rows \ RowsOf(event.endpoint)
                                               /\ view' = Assigns(view.key, FALSE)
             [] event.kind = "unsupported" -> UNCHANGED <<rows, view>>
             [] OTHER -> view' = Assigns(view.key, event.kind = "on") /\ UNCHANGED rows
        /\ UNCHANGED <<siteKey, made, subscription, granted, dom, tasks, rushed, clicks, hitches>>

(***************************************************************************)
(* Elsewhere.                                                              *)
(***************************************************************************)

\* The site's key is rotated, and the rows made against the old one go with it.
RotateKey ==
    /\ siteKey < MaxKeys
    /\ siteKey' = siteKey + 1
    /\ rows' = {row \in rows : row.key # siteKey}
    /\ UNCHANGED <<made, subscription, granted, view, dom, tasks, inbox, rushed, clicks, hitches>>

\* A notification is sent: the row stays only if the push service takes it.
Accepted(row) == row.key = siteKey /\ row.endpoint = subscription /\ made[row.endpoint] = row.key

Deliver(row) ==
    /\ row \in rows
    /\ ~Accepted(row)
    /\ rows' = rows \ {row}
    /\ UNCHANGED <<siteKey, made, subscription, granted, view, dom, tasks, inbox,
                   rushed, clicks, hitches>>

\* Site data cleared, permission taken back, or "Remove" pressed elsewhere.
Revoked ==
    /\ Hitch
    /\ \/ subscription' = NoEndpoint /\ granted' = FALSE /\ UNCHANGED rows
       \/ rows' = rows \ RowsOf(subscription) /\ UNCHANGED <<subscription, granted>>
    /\ UNCHANGED <<siteKey, made, view, dom, tasks, inbox, rushed, clicks>>

PushNext ==
    \/ Mount \/ Click \/ Patched \/ Handle \/ RotateKey \/ Revoked
    \/ \E row \in rows : Deliver(row)
    \/ \E i \in 1..Len(tasks) :
          SyncState(i) \/ Registered(i) \/ DropOld(i) \/ Subscribe(i) \/ Disable(i)

PushSpec == PushInit /\ [][PushNext]_pushVars

(***************************************************************************)
(* Properties.                                                             *)
(***************************************************************************)

PushTypeOK ==
    /\ siteKey \in Keys /\ made \in Seq(Keys)
    /\ rows \subseteq [endpoint : Endpoints, key : Keys]
    /\ subscription \in Endpoints \union {NoEndpoint}
    /\ granted \in BOOLEAN /\ rushed \in BOOLEAN
    /\ view \in [key : Keys, on : BOOLEAN] /\ dom \in [key : Keys, on : BOOLEAN]
    /\ tasks \in Seq([step : {"sync", "register", "drop", "subscribe", "disable"},
                      key : Keys \union {0}])
    /\ clicks \in 0..MaxClicks /\ hitches \in 0..MaxTrouble

\* The two halves never disagree (Push.Keys): a row is signed with the key its
\* browser subscribed with, and there is one row per endpoint.  The comment over
\* assign_push_key rests it on the page's one assign; it takes that nobody clicks
\* before the page has answered.
SignedWithItsKey ==
    /\ \A row \in rows : rushed \/ row.key = made[row.endpoint]
    /\ \A row \in rows, other \in rows : row.endpoint = other.endpoint => row = other

\* A page that says "on" and has answered everything is right about the key: the
\* browser's subscription, if it still holds one, was made with the page's.
OnMeansThisKey ==
    (dom.on /\ dom = view /\ tasks = <<>> /\ inbox = <<>> /\ subscription # NoEndpoint /\ ~rushed)
        => MadeWith(subscription, dom.key)
=============================================================================
