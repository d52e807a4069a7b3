----------------------------- MODULE Propagation -----------------------------
(***************************************************************************)
(* How long a transition takes to reach everything (KilnCMS.Propagation,   *)
(* KilnCMS.CMS.Propagation), and the CDN purge it waits for (KilnCMS.CDN,  *)
(* KilnCMS.CDN.PurgeWorker).                                               *)
(*                                                                         *)
(* A content action commits and dispatches its event: it opens a record of *)
(* how many deliveries to expect, enqueues them, and enqueues a purge of   *)
(* the site.  Delivery workers and purge workers then settle the record    *)
(* between them, each with a read of its own followed by a write of its    *)
(* own.  A release dispatches its actions inside one transaction, whose    *)
(* rows become visible together when it commits.                           *)
(*                                                                         *)
(* A definition with an underscore in its name is a plausible mistake in   *)
(* the definition of that name below it; no action uses one.               *)
(***************************************************************************)
EXTENDS Naturals, FiniteSets

CONSTANTS
  Action,            \* content actions that commit and dispatch an event
  Release,           \* those of them that one release runs in its transaction
  Endpoint,          \* webhook endpoints that may be subscribed
  None,              \* no action
  Event,             \* the verbs of the events dispatched
  MaxAttempts,       \* attempts of a webhook delivery
  MaxPurgeAttempts,  \* PurgeWorker's max_attempts, 5
  MaxFaults          \* bound: processes killed between two statements, and
                     \* database calls that fail

ASSUME PropagationAssumption ==
  /\ Release \subseteq Action
  /\ None \notin Action
  /\ IsFiniteSet(Endpoint)
  /\ Event \subseteq {"published", "unpublished", "deleted", "updated"}
  /\ MaxAttempts \in Nat \ {0}
  /\ MaxPurgeAttempts \in Nat \ {0}
  /\ MaxFaults \in Nat

VARIABLES
  action,     \* action[a]: what the process of action a still has to write
  stamped,    \* actions whose cdn_enqueued_at has been read off the clock
  txn,        \* the release's transaction
  record,     \* record[a]: the propagations row of action a
  delivery,   \* delivery[a][e]: the webhook_deliveries row, its job, its worker
  purge,      \* purge[a]: the purge job action a inserted, and its worker
  purgeUrl,   \* KILN_CDN_PURGE_URL is set
  faults,     \* what MaxFaults counts
  covered,    \* history: actions committed before a purge the CDN acknowledged
  emitted,    \* history: telemetry events emitted for a record
  lapsed      \* history: actions whose dispatch or settling a kill or a failed
              \* database call of its own cut short

vars == <<action, stamped, txn, record, delivery, purge, purgeUrl, faults,
          covered, emitted, lapsed>>
-----------------------------------------------------------------------------
ActionState == [phase: {"idle", "committed", "stamped", "enqueue", "purge",
                        "done", "rolled_back"},
                event: Event \cup {"none"},
                purging: BOOLEAN,         \* this node purges for the event
                absorbed: BOOLEAN,        \* ... with a purge already scheduled
                todo: SUBSET Endpoint]    \* deliveries still to enqueue

IdleAction == [phase |-> "idle", event |-> "none", purging |-> FALSE,
               absorbed |-> FALSE, todo |-> {}]

RecordRow == [state: {"none", "open", "completed"},   \* completed_at is set
              expected: Nat,                          \* endpoints_expected
              cdn: {"not_configured", "pending", "acknowledged", "failed"},
              failed: Nat]                            \* endpoints_failed

NoRecord == [state |-> "none", expected |-> 0, cdn |-> "not_configured", failed |-> 0]

DeliveryState == [status: {"none", "pending", "succeeded", "failed"},
                  phase: {"none", "ready", "post", "settle", "complete", "done"},
                  attempt: 0..MaxAttempts,
                  seen: Nat]     \* deliveries_failed as this worker read it

NoDelivery == [status |-> "none", phase |-> "none", attempt |-> 0, seen |-> 0]

NewDelivery == [NoDelivery EXCEPT !.status = "pending", !.phase = "ready"]

PurgeState == [phase: {"none", "scheduled", "available", "post", "list", "stamp",
                       "settle", "complete", "done"},
               inTxn: BOOLEAN,           \* the job's txn key names the release's
               attempt: 0..MaxPurgeAttempts,
               begun: SUBSET Action,     \* stamped no later than started_at
               verdict: {"none", "acknowledged", "failed"},
               todo: SUBSET Action,      \* pending records still to stamp
               at: Action \cup {None},   \* the record being settled
               seen: Nat]

NoPurge == [phase |-> "none", inTxn |-> FALSE, attempt |-> 0, begun |-> {},
            verdict |-> "none", todo |-> {}, at |-> None, seen |-> 0]

NewPurge(inTxn) == [NoPurge EXCEPT !.phase = "scheduled", !.inTxn = inTxn]

TypeOK ==
  /\ action \in [Action -> ActionState]
  /\ stamped \subseteq Action
  /\ txn \in {"open", "committed", "rolled_back"}
  /\ record \in [Action -> RecordRow]
  /\ delivery \in [Action -> [Endpoint -> DeliveryState]]
  /\ purge \in [Action -> PurgeState]
  /\ purgeUrl \in BOOLEAN
  /\ faults \in 0..MaxFaults
  /\ covered \subseteq Action
  /\ emitted \in [Action -> Nat]
  /\ lapsed \subseteq Action

Init ==
  /\ action = [a \in Action |-> IdleAction]
  /\ stamped = {}
  /\ txn = "open"
  /\ record = [a \in Action |-> NoRecord]
  /\ delivery = [a \in Action |-> [e \in Endpoint |-> NoDelivery]]
  /\ purge = [a \in Action |-> NoPurge]
  /\ purgeUrl \in BOOLEAN
  /\ faults = 0
  /\ covered = {}
  /\ emitted = [a \in Action |-> 0]
  /\ lapsed = {}
-----------------------------------------------------------------------------
\* Propagation.kind/2: the events that are transitions of a document.
IsTransition(event) == event \in {"published", "unpublished", "deleted"}

\* CDN.purges?/1.
Purges(event) == event \in {"published", "unpublished", "updated"}

Committed(a) ==
  IF a \in Release THEN txn = "committed" ELSE action[a].phase # "idle"

DeliveriesIn(a, status) == {e \in Endpoint : delivery[a][e].status = status}

Lost(a) == Cardinality(DeliveriesIn(a, "failed"))

\* ready?/1.
Ready_CreatedOnly(a) ==
  /\ record[a].state = "open"
  /\ record[a].cdn # "pending"
  /\ DeliveriesIn(a, "pending") = {}

Ready_AnyPurge(a) ==
  /\ record[a].state = "open"
  /\ Cardinality(DeliveriesIn(a, "succeeded")) + Lost(a) >= record[a].expected

Ready(a) ==
  /\ record[a].state = "open"
  /\ record[a].cdn # "pending"
  /\ Cardinality(DeliveriesIn(a, "succeeded")) + Lost(a) >= record[a].expected

\* The :complete action's filter.
Unsettled_NoFilter(a) == record[a].state # "none"

Unsettled(a) == record[a].state = "open"

\* complete/2 of record a, with the count the settling process read before.
Complete(a, seen) ==
  IF Unsettled(a)
  THEN /\ record' = [record EXCEPT ![a].state = "completed", ![a].failed = seen]
       /\ emitted' = [emitted EXCEPT ![a] = @ + 1]
  ELSE UNCHANGED <<record, emitted>>
-----------------------------------------------------------------------------
(* Dispatch.                                                               *)

\* An action outside a release commits.
Commit(a, event) ==
  /\ a \notin Release
  /\ action[a].phase = "idle"
  /\ action' = [action EXCEPT ![a].phase = "committed", ![a].event = event]
  /\ UNCHANGED <<stamped, txn, record, delivery, purge, purgeUrl, faults, covered,
                 emitted, lapsed>>

\* The purge job a new one for this site and transaction is a duplicate of:
\* scheduled, not yet running.
Absorbed_AcrossTxn(inTxn) == \E q \in Action : purge[q].phase = "scheduled"

Absorbed(inTxn) ==
  \E q \in Action : purge[q].phase = "scheduled" /\ purge[q].inTxn = inTxn

\* Dispatch has the subscribed endpoints, and open/5 reads the clock.  An event
\* that is no transition has only the purge left.
Stamp(a, event, targets, absorbed) ==
  LET transition == IsTransition(event)
  IN /\ action' = [action EXCEPT ![a] =
                     [phase |-> IF transition THEN "stamped" ELSE "purge",
                      event |-> event,
                      purging |-> purgeUrl /\ Purges(event),
                      absorbed |-> absorbed,
                      todo |-> IF transition THEN targets ELSE {}]]
     /\ stamped' = IF transition THEN stamped \cup {a} ELSE stamped
     /\ UNCHANGED <<txn, record, delivery, purge, purgeUrl, faults, covered,
                    emitted, lapsed>>

StampAfterCommit(a, targets) ==
  /\ action[a].phase = "committed"
  /\ Stamp(a, action[a].event, targets, FALSE)

\* A release's items publish, unpublish or update, each dispatched, its purge
\* included, before the transaction it runs in commits.
StampInRelease(a, event, targets) ==
  /\ a \in Release
  /\ txn = "open"
  /\ action[a].phase = "idle"
  /\ event # "deleted"
  /\ Stamp(a, event, targets, Absorbed(TRUE))

\* The record as open/5 leaves it: one with nothing to wait for settles at once.
NothingToWaitFor(a) == action[a].todo = {} /\ ~action[a].purging

Opened(a) ==
  [state |-> IF NothingToWaitFor(a) THEN "completed" ELSE "open",
   expected |-> Cardinality(action[a].todo),
   cdn |-> IF action[a].purging THEN "pending" ELSE "not_configured",
   failed |-> 0]

\* The record is inserted, before any delivery.
OpenRecord(a) ==
  /\ a \notin Release
  /\ action[a].phase = "stamped"
  /\ record' = [record EXCEPT ![a] = Opened(a)]
  /\ emitted' = [emitted EXCEPT ![a] = IF NothingToWaitFor(a) THEN @ + 1 ELSE @]
  /\ action' = [action EXCEPT ![a].phase = "enqueue"]
  /\ UNCHANGED <<stamped, txn, delivery, purge, purgeUrl, faults, covered,
                 lapsed>>

\* One delivery, its row and its job.
EnqueueDelivery(a, e) ==
  /\ action[a].phase = "enqueue"
  /\ e \in action[a].todo
  /\ delivery' = [delivery EXCEPT ![a][e] = NewDelivery]
  /\ action' = [action EXCEPT ![a].todo = @ \ {e}]
  /\ UNCHANGED <<stamped, txn, record, purge, purgeUrl, faults, covered, emitted,
                 lapsed>>

FannedOut(a) ==
  /\ action[a].phase = "enqueue"
  /\ action[a].todo = {}
  /\ action' = [action EXCEPT ![a].phase = "purge"]
  /\ UNCHANGED <<stamped, txn, record, delivery, purge, purgeUrl, faults, covered,
                 emitted, lapsed>>

EnqueuePurge(a) ==
  /\ a \notin Release
  /\ action[a].phase = "purge"
  /\ purge' = IF action[a].purging /\ ~Absorbed(FALSE)
              THEN [purge EXCEPT ![a] = NewPurge(FALSE)] ELSE purge
  /\ action' = [action EXCEPT ![a].phase = "done"]
  /\ UNCHANGED <<stamped, txn, record, delivery, purgeUrl, faults, covered,
                 emitted, lapsed>>

\* The release commits: its records, deliveries and one purge, coalesced on the
\* transaction's id, appear together.
CommitRelease ==
  LET purging == {a \in Release : action[a].purging /\ ~action[a].absorbed}
      first == CHOOSE a \in purging : TRUE
  IN /\ Release # {} /\ txn = "open"
     /\ \A a \in Release : action[a].phase # "idle"
     /\ txn' = "committed"
     /\ record' = [a \in Action |-> IF a \in Release /\ IsTransition(action[a].event)
                                   THEN Opened(a) ELSE record[a]]
     /\ emitted' = [a \in Action |-> IF /\ a \in Release /\ IsTransition(action[a].event)
                                        /\ NothingToWaitFor(a)
                                    THEN emitted[a] + 1 ELSE emitted[a]]
     /\ delivery' = [a \in Action |-> [e \in Endpoint |->
                       IF a \in Release /\ e \in action[a].todo THEN NewDelivery
                       ELSE delivery[a][e]]]
     /\ purge' = IF purging = {} THEN purge
                 ELSE [purge EXCEPT ![first] = NewPurge(TRUE)]
     /\ action' = [a \in Action |-> IF a \in Release
                                   THEN [action[a] EXCEPT !.phase = "done", !.todo = {}]
                                   ELSE action[a]]
     /\ UNCHANGED <<stamped, purgeUrl, faults, covered, lapsed>>

\* ... or vanish together.
RollBackRelease ==
  /\ Release # {} /\ txn = "open"
  /\ txn' = "rolled_back"
  /\ action' = [a \in Action |-> IF a \in Release
                                THEN [action[a] EXCEPT !.phase = "rolled_back"]
                                ELSE action[a]]
  /\ UNCHANGED <<stamped, record, delivery, purge, purgeUrl, faults, covered,
                 emitted, lapsed>>
-----------------------------------------------------------------------------
(* The delivery workers.                                                   *)

DeliveryGoto(a, e, phase) == delivery' = [delivery EXCEPT ![a][e].phase = phase]

FetchDelivery(a, e) ==
  /\ delivery[a][e].phase = "ready"
  /\ delivery' = [delivery EXCEPT ![a][e].phase = "post", ![a][e].attempt = @ + 1]
  /\ UNCHANGED <<action, stamped, txn, record, purge, purgeUrl, faults, covered,
                 emitted, lapsed>>

\* The attempt is recorded on the ledger; a terminal one goes on to settle the
\* record (DeliveryWorker.settle/4), any other is retried.
AfterAttempt_OnlyDelivered(status) ==
  CASE status = "pending" -> "ready"
    [] status = "succeeded" -> "settle"
    [] OTHER -> "done"

AfterAttempt(status) == IF status = "pending" THEN "ready" ELSE "settle"

RecordAttempt(a, e, status) ==
  /\ delivery[a][e].phase = "post"
  /\ status = "failed" => delivery[a][e].attempt >= MaxAttempts
  /\ status = "pending" => delivery[a][e].attempt < MaxAttempts
  /\ delivery' = [delivery EXCEPT ![a][e].status = status,
                                  ![a][e].phase = AfterAttempt(status)]
  /\ UNCHANGED <<action, stamped, txn, record, purge, purgeUrl, faults, covered,
                 emitted, lapsed>>

\* settle/2: one query reads the record with its deliveries counted ...
SettleDelivery(a, e) ==
  /\ delivery[a][e].phase = "settle"
  /\ IF Ready(a)
     THEN delivery' = [delivery EXCEPT ![a][e].phase = "complete", ![a][e].seen = Lost(a)]
     ELSE DeliveryGoto(a, e, "done")
  /\ UNCHANGED <<action, stamped, txn, record, purge, purgeUrl, faults, covered,
                 emitted, lapsed>>

\* ... and an update completes it.
CompleteDelivery(a, e) ==
  /\ delivery[a][e].phase = "complete"
  /\ Complete(a, delivery[a][e].seen)
  /\ delivery' = [delivery EXCEPT ![a][e].phase = "done", ![a][e].seen = 0]
  /\ UNCHANGED <<action, stamped, txn, purge, purgeUrl, faults, covered, lapsed>>
-----------------------------------------------------------------------------
(* The purge workers.                                                      *)

PurgeGoto(q, phase) == purge' = [purge EXCEPT ![q].phase = phase]

\* The two seconds a purge waits for others to join it are over.
DuePurge(q) ==
  /\ purge[q].phase = "scheduled"
  /\ PurgeGoto(q, "available")
  /\ UNCHANGED <<action, stamped, txn, record, delivery, purgeUrl, faults,
                 covered, emitted, lapsed>>

StartPurge(q) ==
  /\ purge[q].phase = "available"
  /\ purge' = [purge EXCEPT ![q].phase = "post", ![q].attempt = @ + 1,
                            ![q].begun = stamped]
  /\ UNCHANGED <<action, stamped, txn, record, delivery, purgeUrl, faults,
                 covered, emitted, lapsed>>

Verdict_OneMore(q, answer) ==
  IF answer = "acknowledged" THEN "acknowledged"
  ELSE IF answer = "no_url" \/ purge[q].attempt > MaxPurgeAttempts THEN "failed"
  ELSE "none"

Verdict(q, answer) ==
  IF answer = "acknowledged" THEN "acknowledged"
  ELSE IF answer = "no_url" \/ purge[q].attempt >= MaxPurgeAttempts THEN "failed"
  ELSE "none"

\* The POST and its answer.  A refusal that is not the last is retried.
PostPurge(q, answer) ==
  /\ purge[q].phase = "post"
  /\ IF purgeUrl THEN answer \in {"acknowledged", "refused"} ELSE answer = "no_url"
  /\ covered' = IF answer = "acknowledged"
                THEN covered \cup {a \in Action : Committed(a)} ELSE covered
  /\ purge' = [purge EXCEPT
                 ![q].verdict = Verdict(q, answer),
                 ![q].phase = IF Verdict(q, answer) = "none" THEN "available" ELSE "list"]
  /\ UNCHANGED <<action, stamped, txn, record, delivery, purgeUrl, faults,
                 emitted, lapsed>>

\* cdn_settled/3 lists the pending records enqueued before this attempt started,
Covers_Everything(q) == {a \in Action : record[a].cdn = "pending"}

Covers_Acknowledged(q) ==
  {a \in Action : /\ purge[q].verdict = "acknowledged"
                  /\ record[a].cdn = "pending" /\ a \in purge[q].begun}

Covers(q) == {a \in Action : record[a].cdn = "pending" /\ a \in purge[q].begun}

ListPending(q) ==
  /\ purge[q].phase = "list"
  /\ purge' = [purge EXCEPT ![q].phase = "stamp", ![q].todo = Covers(q)]
  /\ UNCHANGED <<action, stamped, txn, record, delivery, purgeUrl, faults,
                 covered, emitted, lapsed>>

\* then stamps each, whatever it says by now, and settles it,
StampCdn(q, a) ==
  /\ purge[q].phase = "stamp"
  /\ a \in purge[q].todo
  /\ record' = [record EXCEPT ![a].cdn = purge[q].verdict]
  /\ purge' = [purge EXCEPT ![q].phase = "settle", ![q].at = a,
                            ![q].todo = @ \ {a}]
  /\ UNCHANGED <<action, stamped, txn, delivery, purgeUrl, faults, covered,
                 emitted, lapsed>>

SettlePurge(q) ==
  /\ purge[q].phase = "settle"
  /\ IF Ready(purge[q].at)
     THEN purge' = [purge EXCEPT ![q].phase = "complete", ![q].seen = Lost(purge[q].at)]
     ELSE purge' = [purge EXCEPT ![q].phase = "stamp", ![q].at = None]
  /\ UNCHANGED <<action, stamped, txn, record, delivery, purgeUrl, faults,
                 covered, emitted, lapsed>>

CompletePurge(q) ==
  /\ purge[q].phase = "complete"
  /\ Complete(purge[q].at, purge[q].seen)
  /\ purge' = [purge EXCEPT ![q].phase = "stamp", ![q].at = None, ![q].seen = 0]
  /\ UNCHANGED <<action, stamped, txn, delivery, purgeUrl, faults, covered,
                 lapsed>>

FinishPurge(q) ==
  /\ purge[q].phase = "stamp"
  /\ purge[q].todo = {}
  /\ PurgeGoto(q, "done")
  /\ UNCHANGED <<action, stamped, txn, record, delivery, purgeUrl, faults,
                 covered, emitted, lapsed>>
-----------------------------------------------------------------------------
(* Configuration, crashes and database calls that fail.  Nothing here       *)
(* raises into a publish, a delivery or a purge: what cannot be written is *)
(* logged.  Oban.Lifeline gives a job whose process was killed another go, *)
(* or ends it once its attempts are spent.                                 *)

UnsetPurgeUrl ==
  /\ purgeUrl
  /\ purgeUrl' = FALSE
  /\ UNCHANGED <<action, stamped, txn, record, delivery, purge, faults, covered,
                 emitted, lapsed>>

Faulty == faults < MaxFaults /\ faults' = faults + 1

CrashAction(a) ==
  /\ a \notin Release
  /\ action[a].phase \in {"committed", "stamped", "enqueue", "purge"}
  /\ Faulty
  /\ lapsed' = lapsed \cup {a}
  /\ action' = [action EXCEPT ![a].phase = "done", ![a].todo = {}]
  /\ UNCHANGED <<stamped, txn, record, delivery, purge, purgeUrl, covered, emitted>>

\* A write refused in the middle of the fan-out stops it; the purge goes on.
FanOutFails(a) ==
  /\ action[a].phase = "enqueue"
  /\ Faulty
  /\ lapsed' = lapsed \cup {a}
  /\ action' = [action EXCEPT ![a].phase = "purge", ![a].todo = {}]
  /\ UNCHANGED <<stamped, txn, record, delivery, purge, purgeUrl, covered, emitted>>

\* open/5's rescue: no record, or one with nothing to wait for that is not settled.
OpenFails(a, inserted) ==
  /\ a \notin Release
  /\ action[a].phase = "stamped"
  /\ Faulty
  /\ lapsed' = lapsed \cup {a}
  /\ inserted => NothingToWaitFor(a)
  /\ record' = IF inserted
               THEN [record EXCEPT ![a] = [Opened(a) EXCEPT !.state = "open"]]
               ELSE record
  /\ action' = [action EXCEPT ![a].phase = "enqueue"]
  /\ UNCHANGED <<stamped, txn, delivery, purge, purgeUrl, covered, emitted>>

\* purge_site/2's rescue: no purge is inserted.
PurgeFails(a) ==
  /\ a \notin Release
  /\ action[a].phase = "purge"
  /\ action[a].purging
  /\ Faulty
  /\ lapsed' = lapsed \cup {a}
  /\ action' = [action EXCEPT ![a].phase = "done"]
  /\ UNCHANGED <<stamped, txn, record, delivery, purge, purgeUrl, covered, emitted>>

\* A delivery's process is killed, or cannot read its row: the attempt is over.
CrashDelivery(a, e) ==
  /\ delivery[a][e].phase \in {"post", "settle", "complete"}
  /\ Faulty
  /\ lapsed' = lapsed \cup {a}
  /\ delivery' = [delivery EXCEPT
                    ![a][e].phase = IF delivery[a][e].attempt < MaxAttempts
                                    THEN "ready" ELSE "done",
                    ![a][e].seen = 0]
  /\ UNCHANGED <<action, stamped, txn, record, purge, purgeUrl, covered, emitted>>

\* log_unrecorded/3: the POST alone decides how the job goes on.
AttemptUnrecorded(a, e, status) ==
  /\ delivery[a][e].phase = "post"
  /\ status = "failed" => delivery[a][e].attempt >= MaxAttempts
  /\ Faulty
  /\ lapsed' = lapsed \cup {a}
  /\ delivery' = [delivery EXCEPT ![a][e].phase = AfterAttempt(status)]
  /\ UNCHANGED <<action, stamped, txn, record, purge, purgeUrl, covered, emitted>>

\* settle/2's rescue: the job ends, the record stays as it is.
SettleDeliveryFails(a, e) ==
  /\ delivery[a][e].phase \in {"settle", "complete"}
  /\ Faulty
  /\ lapsed' = lapsed \cup {a}
  /\ delivery' = [delivery EXCEPT ![a][e].phase = "done", ![a][e].seen = 0]
  /\ UNCHANGED <<action, stamped, txn, record, purge, purgeUrl, covered, emitted>>

\* The record purge q is settling, and those it would have stamped, unless it runs
\* again and lists them anew.
Dropped(q, again) ==
  {a \in Action : purge[q].at = a \/ (~again /\ a \in Covers(q))}

CrashPurge(q) ==
  LET again == purge[q].attempt < MaxPurgeAttempts
  IN /\ purge[q].phase \in {"post", "list", "stamp", "settle", "complete"}
     /\ Faulty
     /\ lapsed' = lapsed \cup Dropped(q, again)
     /\ purge' = [purge EXCEPT ![q].phase = IF again THEN "available" ELSE "done",
                               ![q].todo = {}, ![q].at = None, ![q].seen = 0]
     /\ UNCHANGED <<action, stamped, txn, record, delivery, purgeUrl, covered, emitted>>

\* cdn_settled/3's rescue: the list, or the stamp of one record, ends the loop and
\* with it the job.
CdnSettledFails(q) ==
  /\ \/ purge[q].phase = "list"
     \/ purge[q].phase = "stamp" /\ purge[q].todo # {}
  /\ Faulty
  /\ lapsed' = lapsed \cup Dropped(q, FALSE)
  /\ purge' = [purge EXCEPT ![q].phase = "done", ![q].todo = {}]
  /\ UNCHANGED <<action, stamped, txn, record, delivery, purgeUrl, covered, emitted>>

\* settle/2's rescue again: the loop goes on with the next record.
SettlePurgeFails(q) ==
  /\ purge[q].phase \in {"settle", "complete"}
  /\ Faulty
  /\ lapsed' = lapsed \cup Dropped(q, TRUE)
  /\ purge' = [purge EXCEPT ![q].phase = "stamp", ![q].at = None, ![q].seen = 0]
  /\ UNCHANGED <<action, stamped, txn, record, delivery, purgeUrl, covered, emitted>>
-----------------------------------------------------------------------------
DispatchStep(a) ==
  \/ \E targets \in SUBSET Endpoint : StampAfterCommit(a, targets)
  \/ OpenRecord(a)
  \/ \E e \in Endpoint : EnqueueDelivery(a, e)
  \/ FannedOut(a)
  \/ EnqueuePurge(a)

ReleaseStep ==
  \/ \E a \in Action, event \in Event, targets \in SUBSET Endpoint :
       StampInRelease(a, event, targets)
  \/ CommitRelease
  \/ RollBackRelease

DeliveryStep(a, e) ==
  \/ FetchDelivery(a, e)
  \/ \E status \in {"pending", "succeeded", "failed"} : RecordAttempt(a, e, status)
  \/ SettleDelivery(a, e)
  \/ CompleteDelivery(a, e)

PurgeStep(q) ==
  \/ DuePurge(q)
  \/ StartPurge(q)
  \/ \E answer \in {"acknowledged", "refused", "no_url"} : PostPurge(q, answer)
  \/ ListPending(q)
  \/ \E a \in Action : StampCdn(q, a)
  \/ SettlePurge(q)
  \/ CompletePurge(q)
  \/ FinishPurge(q)

DispatchFault(a) ==
  \/ CrashAction(a)
  \/ FanOutFails(a)
  \/ \E inserted \in BOOLEAN : OpenFails(a, inserted)
  \/ PurgeFails(a)

DeliveryFault(a, e) ==
  \/ CrashDelivery(a, e)
  \/ \E status \in {"succeeded", "failed"} : AttemptUnrecorded(a, e, status)
  \/ SettleDeliveryFails(a, e)

PurgeFault(q) ==
  \/ CrashPurge(q)
  \/ CdnSettledFails(q)
  \/ SettlePurgeFails(q)

Fault ==
  \E a \in Action : \/ DispatchFault(a)
                    \/ PurgeFault(a)
                    \/ \E e \in Endpoint : DeliveryFault(a, e)

Next ==
  \/ \E a \in Action, event \in Event : Commit(a, event)
  \/ ReleaseStep
  \/ \E a \in Action : DispatchStep(a) \/ PurgeStep(a)
  \/ \E a \in Action, e \in Endpoint : DeliveryStep(a, e)
  \/ UnsetPurgeUrl
  \/ Fault

Spec == Init /\ [][Next]_vars

\* A process keeps running until it is killed, and Oban keeps staging and
\* taking the jobs there are.
Fairness ==
  \A a \in Action : /\ WF_vars(DispatchStep(a))
                    /\ WF_vars(PurgeStep(a))
                    /\ \A e \in Endpoint : WF_vars(DeliveryStep(a, e))

FairSpec == Spec /\ Fairness
-----------------------------------------------------------------------------
(* Properties.                                                             *)

\* A completed record tells the truth about its endpoints: every delivery it
\* expected has ended, and endpoints_failed is how many were given up on.  Two
\* settlers read the counts at different moments and only one may write them.
\* Not of a record one of whose own processes was killed or failed to write.
CompletedTruthfully ==
  \A a \in Action \ lapsed :
    record[a].state = "completed" =>
      /\ Cardinality(DeliveriesIn(a, "succeeded")) + Lost(a) = record[a].expected
      /\ DeliveriesIn(a, "pending") = {}
      /\ action[a].todo = {}
      /\ record[a].failed = Lost(a)

\* ... and about its purge: it is not measured while the CDN is still pending.
CompletedAfterPurge ==
  \A a \in Action : record[a].state = "completed" => record[a].cdn # "pending"

\* The telemetry event of a record is emitted once, and only on completion,
\* however many deliveries and purges settle it and however often they are re-run.
EmittedOnce ==
  \A a \in Action : emitted[a] = IF record[a].state = "completed" THEN 1 ELSE 0

\* The record of a transition outside a release says the CDN acknowledged its
\* purge only if the CDN acknowledged one sent after the transition committed
\* (cdn_settled/3, PurgeWorker), whatever releases commit beside it.
AcknowledgedCovers ==
  \A a \in Action \ Release : record[a].cdn = "acknowledged" => a \in covered

\* The same of every transition, as Propagation's documentation says it of "the
\* CDN purge it enqueued" by a record "opened at dispatch, just after the
\* transition's write committed".
AcknowledgedCoversAll ==
  \A a \in Action : record[a].cdn = "acknowledged" => a \in covered

\* No record is forgotten: an open one is still being dispatched, or waits for a
\* purge, or has a delivery or a purge on its way to settling it.  The last of
\* them to end finds it ready.  Only a kill or a failed call of its own leaves a
\* record open with nobody coming (settle/2 and cdn_settled/3 log and go on).
SomeoneSettles ==
  \A a \in Action \ lapsed :
    record[a].state = "open" =>
      \/ action[a].phase = "enqueue" /\ action[a].todo # {}
      \/ record[a].cdn = "pending"
      \/ \E e \in Endpoint : delivery[a][e].phase \in {"ready", "post", "settle", "complete"}
      \/ \E q \in Action : purge[q].at = a /\ purge[q].phase \in {"settle", "complete"}

\* A transition of a site that purges is followed by a purge the CDN acknowledged
\* after the commit, unless one that began after its dispatch gave up or was
\* killed for good, or its own dispatch failed: neither a running purge nor one
\* committed before a release absorbs it (cdn.ex).
PurgeFollows ==
  \A a \in Action :
    /\ Committed(a) /\ action[a].phase = "done"
    /\ IsTransition(action[a].event) /\ action[a].purging
    ~> \/ a \in covered \cup lapsed
       \/ \E q \in Action : /\ purge[q].phase = "done" /\ a \in purge[q].begun
                            /\ purge[q].verdict # "acknowledged"

\* Every record opened settles, unless a kill or a failed call of its own cut it
\* short: the last delivery or purge to end always finds it ready, and a purge
\* covers every record waiting for one.
EveryRecordSettles ==
  \A a \in Action : record[a].state = "open" ~>
                     record[a].state = "completed" \/ a \in lapsed
=============================================================================
