------------------------------ MODULE Webhooks ------------------------------
(***************************************************************************)
(* Webhook delivery in KilnCMS: KilnCMS.Webhooks (the fan-out and the      *)
(* ledger), KilnCMS.Webhooks.DeliveryWorker (one Oban job per ledger row), *)
(* KilnCMS.CMS.WebhookEndpoint (the health of a receiver) and              *)
(* KilnCMS.Webhooks.RetractionLost (telling an admin).                     *)
(*                                                                         *)
(* Every database statement is a step of its own: the request that fans an *)
(* event out, the workers, the admin's edit form and the retention sweep   *)
(* interleave between any two of them, a node may stop between any two of  *)
(* them, and any of them may fail.  An event is abstracted to what decides *)
(* its handling: its verb and, for a content event, its document.          *)
(*                                                                         *)
(* A definition with an underscore in its name is a plausible mistake in   *)
(* the definition of that name below it; no action uses one.               *)
(***************************************************************************)
EXTENDS Naturals, FiniteSets

CONSTANTS
  Endpoint,               \* endpoint ids an admin may register
  Doc,                    \* documents
  Published,              \* the documents published before the first step
  Request,                \* processes that run an action: a LiveView, an API call
  None,                   \* the nil of a reference
  AutoDisableAfter,       \* Webhooks.auto_disable_after/0, 10 by default
  OrdinaryMaxAttempts,    \* DeliveryWorker's max_attempts, 5
  RetractionMaxAttempts,  \* Webhooks.retraction_max_attempts/0, 30
  MaxDelivery,            \* bound: ledger rows ever inserted
  MaxStarted,             \* bound: transitions, pings and replays started
  MaxEdits,               \* bound: edit forms opened, and deletions
  MaxFaults               \* bound: processes killed between two statements, and
                          \* database calls that fail

ASSUME AttemptsAssumption ==
  /\ OrdinaryMaxAttempts \in Nat \ {0}
  /\ RetractionMaxAttempts \in Nat \ {0}
  /\ AutoDisableAfter \in Nat \ {0}

ASSUME BoundsAssumption ==
  /\ MaxDelivery \in Nat
  /\ MaxStarted \in Nat
  /\ MaxEdits \in Nat
  /\ MaxFaults \in Nat

ASSUME NoneAssumption == None \notin Endpoint \cup Doc

VARIABLES
  live,         \* live[d]: document d is published
  request,      \* request[r]: what process r still has to write
  endpoint,     \* endpoint[e]: the webhook_endpoints row
  form,         \* form[e]: the row as an open edit form holds it, or NoCopy
  ledger,       \* ledger[i]: the webhook_deliveries row
  job,          \* job[i]: the oban_jobs row that delivers ledger row i
  worker,       \* worker[i]: the process performing job i
  inserted,     \* ledger rows inserted so far: ids are insertion order
  started, edits, faults,   \* what the bounds count
  heard,        \* history: rows whose receiver answered 2xx
  notice,       \* history: notice[i], what RetractionLost.surface did for row i
  switchedOff,  \* history: endpoints an admin switched off
  lapsed        \* history: rows a kill or a failed database call left unfinished

vars == <<live, request, endpoint, form, ledger, job, worker, inserted,
          started, edits, faults, heard, notice, switchedOff, lapsed>>

ledgerVars == <<ledger, inserted>>
-----------------------------------------------------------------------------
Delivery == 1..MaxDelivery

\* "withdrawn" is a retraction verb on a document that was published before
\* the action, "tombstone" the same verb on a draft.
Verb == {"published", "withdrawn", "tombstone", "ping"}

Retraction(verb) == verb = "withdrawn"

\* The verbs whose delivery carries document_id: a draft's tombstone included.
NamesDocument(verb) == verb \in {"withdrawn", "tombstone"}

MaxAttemptsOf(verb) ==
  IF Retraction(verb) THEN RetractionMaxAttempts ELSE OrdinaryMaxAttempts

\* A stamp is auto_disabled_at: "fresh" for retraction_stale_after_days, then
\* "stale".
EndpointRow == [life: {"unregistered", "here", "deleted"},
                active: BOOLEAN,
                failures: Nat,
                stamp: {"none", "fresh", "stale"}]

NoCopy == [life |-> "deleted", active |-> FALSE, failures |-> 0, stamp |-> "none"]

Receives(row, verb) ==
  \/ row.active
  \/ verb = "ping"
  \/ row.stamp # "none" /\ Retraction(verb)

StaleEndpoint(row) == ~row.active /\ row.stamp = "stale"

LedgerRow == [status: {"unused", "pending", "succeeded", "failed", "pruned"},
              endpoint: Endpoint \cup {None},   \* endpoint_id, nilified on delete
              url: Endpoint \cup {None},        \* endpoint_url, a snapshot
              verb: Verb,
              doc: Doc \cup {None},
              recovered: BOOLEAN]

Unused == [status |-> "unused", endpoint |-> None, url |-> None,
           verb |-> "ping", doc |-> None, recovered |-> FALSE]

Stored(i) == ledger[i].status \in {"pending", "succeeded", "failed"}

JobRow == [state: {"none", "available", "executing", "retryable",
                   "completed", "cancelled", "discarded"},
           attempt: Nat,
           max: Nat]

NoJob == [state |-> "none", attempt |-> 0, max |-> 0]

JobAlive(i) == job[i].state \in {"available", "executing", "retryable"}

WorkerState == [phase: {"idle", "read", "post", "record", "reset", "recover",
                        "surface", "penalise", "finish"},
                copy: EndpointRow,     \* the endpoint as read before the POST
                outcome: {"none", "ok", "refused", "unsent"},
                final: BOOLEAN]

NoWorker == [phase |-> "idle", copy |-> NoCopy, outcome |-> "none", final |-> FALSE]

RequestState == [phase: {"idle", "dispatch", "enqueue", "insert", "raised"},
                 verb: Verb,
                 doc: Doc \cup {None},
                 todo: SUBSET Endpoint,
                 row: 0..MaxDelivery]

NoRequest == [phase |-> "idle", verb |-> "ping", doc |-> None,
              todo |-> {}, row |-> 0]

TypeOK ==
  /\ live \in [Doc -> BOOLEAN]
  /\ request \in [Request -> RequestState]
  /\ endpoint \in [Endpoint -> EndpointRow]
  /\ form \in [Endpoint -> EndpointRow]
  /\ ledger \in [Delivery -> LedgerRow]
  /\ job \in [Delivery -> JobRow]
  /\ worker \in [Delivery -> WorkerState]
  /\ inserted \in 0..MaxDelivery
  /\ started \in 0..MaxStarted
  /\ edits \in 0..MaxEdits
  /\ faults \in 0..MaxFaults
  /\ heard \subseteq Delivery
  /\ notice \in [Delivery -> {"none", "told", "logged"}]
  /\ switchedOff \subseteq Endpoint
  /\ lapsed \subseteq Delivery

Init ==
  /\ live = [d \in Doc |-> d \in Published]
  /\ request = [r \in Request |-> NoRequest]
  /\ endpoint = [e \in Endpoint |-> [NoCopy EXCEPT !.life = "unregistered"]]
  /\ form = [e \in Endpoint |-> NoCopy]
  /\ ledger = [i \in Delivery |-> Unused]
  /\ job = [i \in Delivery |-> NoJob]
  /\ worker = [i \in Delivery |-> NoWorker]
  /\ inserted = 0 /\ started = 0 /\ edits = 0 /\ faults = 0
  /\ heard = {}
  /\ notice = [i \in Delivery |-> "none"]
  /\ switchedOff = {}
  /\ lapsed = {}
-----------------------------------------------------------------------------
(* Dispatch.  A content action commits, and only then (after_transaction)  *)
(* does the same process fan the event out.                                *)

\* An action on document d commits; `withdraws` is its state before it.
Commit(r, d, verb) ==
  /\ request[r].phase = "idle"
  /\ started < MaxStarted
  /\ \/ verb = "published" /\ live' = [live EXCEPT ![d] = TRUE]
     \/ verb = "withdrawn" /\ live[d] /\ live' = [live EXCEPT ![d] = FALSE]
     \/ verb = "tombstone" /\ ~live[d] /\ UNCHANGED live
  /\ request' = [request EXCEPT ![r] =
                   [NoRequest EXCEPT !.phase = "dispatch", !.verb = verb, !.doc = d]]
  /\ started' = started + 1
  /\ UNCHANGED <<endpoint, form, ledger, job, worker, inserted, edits, faults,
                 heard, notice, switchedOff, lapsed>>

\* fan_out/4 scans the endpoints that take the event.
FanOut(r) ==
  LET targets == {e \in Endpoint : /\ endpoint[e].life = "here"
                                   /\ Receives(endpoint[e], request[r].verb)}
  IN /\ request[r].phase = "dispatch"
     /\ request' = [request EXCEPT ![r] =
                      IF targets = {} THEN NoRequest
                      ELSE [@ EXCEPT !.phase = "enqueue", !.todo = targets]]
     /\ UNCHANGED <<live, endpoint, form, ledger, job, worker, inserted,
                    started, edits, faults, heard, notice, switchedOff, lapsed>>

\* An admin's ping, to any endpoint there is, active or not.
Ping(r, e) ==
  /\ request[r].phase = "idle"
  /\ started < MaxStarted
  /\ endpoint[e].life = "here"
  /\ request' = [request EXCEPT ![r] =
                   [NoRequest EXCEPT !.phase = "enqueue", !.todo = {e}]]
  /\ started' = started + 1
  /\ UNCHANGED <<live, endpoint, form, ledger, job, worker, inserted, edits,
                 faults, heard, notice, switchedOff, lapsed>>

\* redeliver/1 refuses a row whose endpoint has been deleted.
Replayable_NoEndpointCheck(i) == Stored(i)

Replayable(i) == Stored(i) /\ ledger[i].endpoint # None

\* An admin replays row i: a fresh row for the same endpoint, verb and document.
Redeliver(r, i) ==
  /\ request[r].phase = "idle"
  /\ started < MaxStarted
  /\ Replayable(i)
  /\ request' = [request EXCEPT ![r] =
                   [NoRequest EXCEPT !.phase = "enqueue", !.verb = ledger[i].verb,
                                     !.doc = ledger[i].doc,
                                     !.todo = {ledger[i].endpoint}]]
  /\ started' = started + 1
  /\ UNCHANGED <<live, endpoint, form, ledger, job, worker, inserted, edits,
                 faults, heard, notice, switchedOff, lapsed>>

\* enqueue/6 writes the ledger row.  The row references its endpoint: when that
\* was deleted since the scan the insert is refused and the call raises, with
\* the endpoints still to do.
CreateDelivery(r, e) ==
  LET row == inserted + 1
  IN /\ request[r].phase = "enqueue"
     /\ e \in request[r].todo
     /\ inserted < MaxDelivery
     /\ IF endpoint[e].life = "here"
        THEN /\ ledger' = [ledger EXCEPT ![row] =
                             [status |-> "pending", endpoint |-> e, url |-> e,
                              verb |-> request[r].verb, doc |-> request[r].doc,
                              recovered |-> FALSE]]
             /\ inserted' = row
             /\ request' = [request EXCEPT ![r].phase = "insert", ![r].row = row,
                                           ![r].todo = @ \ {e}]
        ELSE /\ request' = [request EXCEPT ![r].phase = "raised"]
             /\ UNCHANGED ledgerVars
     /\ UNCHANGED <<live, endpoint, form, job, worker, started, edits, faults,
                    heard, notice, switchedOff, lapsed>>

\* job_opts/1: the job of row i, with the attempt budget of its verb.
NewJob_Unique(i) ==
  IF \E k \in Delivery \ {i} : JobAlive(k) /\ ledger[k].url = ledger[i].url
                              /\ ledger[k].verb = ledger[i].verb
  THEN NoJob
  ELSE [state |-> "available", attempt |-> 0, max |-> MaxAttemptsOf(ledger[i].verb)]

NewJob(i) ==
  [state |-> "available", attempt |-> 0, max |-> MaxAttemptsOf(ledger[i].verb)]

\* ... and then, in a statement of its own, the Oban job.
InsertJob(r) ==
  /\ request[r].phase = "insert"
  /\ job' = [job EXCEPT ![request[r].row] =
               NewJob(request[r].row)]
  /\ request' = [request EXCEPT ![r] =
                   IF @.todo = {} THEN NoRequest
                   ELSE [@ EXCEPT !.phase = "enqueue", !.row = 0]]
  /\ UNCHANGED <<live, endpoint, form, ledger, worker, inserted, started, edits,
                 faults, heard, notice, switchedOff, lapsed>>

\* The error reaches whoever called the action.
Report(r) ==
  /\ request[r].phase = "raised"
  /\ request' = [request EXCEPT ![r] = NoRequest]
  /\ UNCHANGED <<live, endpoint, form, ledger, job, worker, inserted, started,
                 edits, faults, heard, notice, switchedOff, lapsed>>
-----------------------------------------------------------------------------
(* The worker.                                                             *)

Goto(i, phase) == worker' = [worker EXCEPT ![i].phase = phase]

\* Oban takes the job: the attempt is counted when it starts.
Fetch(i) ==
  /\ job[i].state \in {"available", "retryable"}
  /\ job' = [job EXCEPT ![i].state = "executing", ![i].attempt = @ + 1]
  /\ worker' = [worker EXCEPT ![i] = [NoWorker EXCEPT !.phase = "read"]]
  /\ UNCHANGED <<live, request, endpoint, form, ledger, inserted, started,
                 edits, faults, heard, notice, switchedOff, lapsed>>

\* perform/1 reads the row, then its endpoint; attempt/2 decides on that copy
\* whether there is anything to settle or to send.
SettleUnsent(copy) ==
  [phase |-> "record", copy |-> copy, outcome |-> "unsent", final |-> TRUE]

NothingToDo == [NoWorker EXCEPT !.phase = "finish", !.outcome = "unsent"]

AfterRead_DeletedIgnored(i) ==
  LET e == ledger[i].endpoint
  IN IF ~Stored(i) \/ e = None THEN NothingToDo
     ELSE IF ~Receives(endpoint[e], ledger[i].verb) THEN SettleUnsent(endpoint[e])
     ELSE [NoWorker EXCEPT !.phase = "post", !.copy = endpoint[e]]

AfterRead(i) ==
  LET e == ledger[i].endpoint
  IN IF ~Stored(i) THEN NothingToDo
     ELSE IF e = None THEN SettleUnsent(NoCopy)
     ELSE IF ~Receives(endpoint[e], ledger[i].verb) THEN SettleUnsent(endpoint[e])
     ELSE [NoWorker EXCEPT !.phase = "post", !.copy = endpoint[e]]

Read(i) ==
  /\ worker[i].phase = "read"
  /\ worker' = [worker EXCEPT ![i] = AfterRead(i)]
  /\ UNCHANGED <<live, request, endpoint, form, ledger, job, inserted, started,
                 edits, faults, heard, notice, switchedOff, lapsed>>

\* Oban's budget for job i is used up.
SpentJob(i) == job[i].attempt >= job[i].max

\* final_attempt?/2.
FinalAttempt(i) ==
  \/ SpentJob(i)
  \/ Retraction(ledger[i].verb) /\ StaleEndpoint(worker[i].copy)

\* The POST: answered 2xx, or refused, timed out or never connected.
Post(i, outcome) ==
  /\ worker[i].phase = "post"
  /\ outcome \in {"ok", "refused"}
  /\ heard' = IF outcome = "ok" THEN heard \cup {i} ELSE heard
  /\ worker' = [worker EXCEPT ![i].phase = "record", ![i].outcome = outcome,
                              ![i].final = FinalAttempt(i)]
  /\ UNCHANGED <<live, request, endpoint, form, ledger, job, inserted, started,
                 edits, faults, notice, switchedOff, lapsed>>

AfterRecord_HealthFirst(i) ==
  LET w == worker[i]
      read == w.copy.life = "here"
  IN IF w.outcome = "ok" THEN "reset"
     ELSE IF ~w.final THEN "finish"
     ELSE IF read /\ w.copy.active THEN "penalise"
     ELSE IF Retraction(ledger[i].verb) /\ read THEN "surface"
     ELSE "finish"

AfterRecord_SpentOnly(i) ==
  LET w == worker[i]
      read == w.copy.life = "here"
  IN IF w.outcome = "ok" THEN "reset"
     ELSE IF ~w.final THEN "finish"
     ELSE IF Retraction(ledger[i].verb)
     THEN (IF read /\ job[i].attempt >= job[i].max THEN "surface" ELSE "finish")
     ELSE IF read /\ w.copy.active THEN "penalise"
     ELSE "finish"

\* settle/4's next step once the attempt is on the ledger.
AfterRecord(i) ==
  LET w == worker[i]
      read == w.copy.life = "here"
  IN IF w.outcome = "ok" THEN "reset"
     ELSE IF ~w.final THEN "finish"
     ELSE IF Retraction(ledger[i].verb) THEN (IF read THEN "surface" ELSE "finish")
     ELSE IF read /\ w.copy.active THEN "penalise"
     ELSE "finish"

\* What the attempt is recorded as (settle/4, failure_attrs/3) ...
StatusAfter_UnsentIsSent(w) ==
  IF w.outcome # "refused" THEN "succeeded" ELSE IF w.final THEN "failed" ELSE "pending"

StatusAfter(w) ==
  IF w.outcome = "ok" THEN "succeeded" ELSE IF w.final THEN "failed" ELSE "pending"

\* ... by record_attempt, whatever the row says now.
Record(i) ==
  /\ worker[i].phase = "record"
  /\ ledger' = [ledger EXCEPT ![i].status = StatusAfter(worker[i])]
  /\ Goto(i, AfterRecord(i))
  /\ UNCHANGED <<live, request, endpoint, form, job, inserted, started, edits,
                 faults, heard, notice, switchedOff, lapsed>>

\* record_delivery_success: decided on the row as it now stands.
Healthy_AnyEndpoint(row) == row.life = "here"

Healthy(row) == row.life = "here" /\ row.active

RecordDeliverySuccess(i) ==
  LET e == ledger[i].url
  IN /\ worker[i].phase = "reset"
     /\ endpoint' = IF Healthy(endpoint[e])
                    THEN [endpoint EXCEPT ![e].failures = 0, ![e].stamp = "none"]
                    ELSE endpoint
     /\ Goto(i, "recover")
     /\ UNCHANGED <<live, request, form, ledger, job, inserted, started, edits,
                    faults, heard, notice, switchedOff, lapsed>>

\* The failed retractions mark_recovered/2 stamps when delivery i got through:
\* those of its document and endpoint, when its verb names a document at all.
Recoverable_AnyVerb(i) ==
  {k \in Delivery : /\ ledger[k].status = "failed"
                    /\ Retraction(ledger[k].verb)
                    /\ ledger[k].doc = ledger[i].doc
                    /\ ledger[k].endpoint = ledger[i].url}

Recoverable(i) ==
  {k \in Delivery : /\ NamesDocument(ledger[i].verb)
                    /\ ledger[k].status = "failed"
                    /\ Retraction(ledger[k].verb)
                    /\ ledger[k].doc = ledger[i].doc
                    /\ ledger[k].endpoint = ledger[i].url}

MarkRecovered(i) ==
  /\ worker[i].phase = "recover"
  /\ ledger' = [k \in Delivery |->
                  IF k \in Recoverable(i) THEN [ledger[k] EXCEPT !.recovered = TRUE]
                  ELSE ledger[k]]
  /\ Goto(i, "finish")
  /\ UNCHANGED <<live, request, endpoint, form, job, inserted, started, edits,
                 faults, heard, notice, switchedOff, lapsed>>

\* RetractionLost.surface: a notice to every admin, only a log line once the
\* endpoint is stale.
Surface(i) ==
  /\ worker[i].phase = "surface"
  /\ notice' = [notice EXCEPT ![i] =
                  IF StaleEndpoint(worker[i].copy) THEN "logged" ELSE "told"]
  /\ Goto(i, "finish")
  /\ UNCHANGED <<live, request, endpoint, form, ledger, job, inserted, started,
                 edits, faults, heard, switchedOff, lapsed>>

\* record_delivery_failure: counted up from the worker's copy, not the row.
RecordDeliveryFailure(i) ==
  LET e == ledger[i].url
      failures == worker[i].copy.failures + 1
  IN /\ worker[i].phase = "penalise"
     /\ endpoint' =
          IF endpoint[e].life # "here" THEN endpoint
          ELSE IF failures >= AutoDisableAfter
          THEN [endpoint EXCEPT ![e].failures = failures, ![e].active = FALSE,
                                ![e].stamp = "fresh"]
          ELSE [endpoint EXCEPT ![e].failures = failures]
     /\ Goto(i, "finish")
     /\ UNCHANGED <<live, request, form, ledger, job, inserted, started, edits,
                    faults, heard, notice, switchedOff, lapsed>>

\* perform/1 returns and Oban settles the job: what a settled failure with
\* attempts left must not be is retried.
JobAfter_NoCancel(i) ==
  IF worker[i].outcome # "refused" THEN "completed"
  ELSE IF SpentJob(i) THEN "discarded" ELSE "retryable"

JobAfter(i) ==
  IF worker[i].outcome # "refused" THEN "completed"
  ELSE IF SpentJob(i) THEN "discarded"
  ELSE IF worker[i].final THEN "cancelled" ELSE "retryable"

Finish(i) ==
  /\ worker[i].phase = "finish"
  /\ job' = [job EXCEPT ![i].state = JobAfter(i)]
  /\ worker' = [worker EXCEPT ![i] = NoWorker]
  /\ UNCHANGED <<live, request, endpoint, form, ledger, inserted, started,
                 edits, faults, heard, notice, switchedOff, lapsed>>
-----------------------------------------------------------------------------
(* Database calls that fail.  A read of the worker fails its attempt, the   *)
(* writes after it are logged and passed over (log_unrecorded/3).          *)

Faulty == faults < MaxFaults /\ faults' = faults + 1

\* The scan, the insert of a row or that of its job raises: the rest of the
\* request is not written.
RequestFails(r) ==
  /\ request[r].phase \in {"dispatch", "enqueue", "insert"}
  /\ Faulty
  /\ request' = [request EXCEPT ![r].phase = "raised"]
  /\ lapsed' = lapsed \cup ({request[r].row} \ {0})
  /\ UNCHANGED <<live, endpoint, form, ledger, job, worker, inserted, started,
                 edits, heard, notice, switchedOff>>

\* perform/1 cannot read the row or its endpoint: the attempt fails unsent, and
\* after the last one no code settles the row.
ReadFails(i) ==
  /\ worker[i].phase = "read"
  /\ Faulty
  /\ worker' = [worker EXCEPT ![i] =
                  [NoWorker EXCEPT !.phase = "finish", !.outcome = "refused"]]
  /\ lapsed' = IF SpentJob(i) THEN lapsed \cup {i} ELSE lapsed
  /\ UNCHANGED <<live, request, endpoint, form, ledger, job, inserted, started,
                 edits, heard, notice, switchedOff>>

\* The outcome does not reach the ledger: the POST alone decides the job's end.
RecordFails(i) ==
  /\ worker[i].phase = "record"
  /\ Faulty
  /\ Goto(i, AfterRecord(i))
  /\ lapsed' = IF StatusAfter(worker[i]) # "pending" THEN lapsed \cup {i}
               ELSE lapsed
  /\ UNCHANGED <<live, request, endpoint, form, ledger, job, inserted, started,
                 edits, heard, notice, switchedOff>>

\* A health counter is not written.
HealthFails(i) ==
  /\ worker[i].phase \in {"reset", "penalise"}
  /\ Faulty
  /\ Goto(i, IF worker[i].phase = "reset" THEN "recover" ELSE "finish")
  /\ UNCHANGED <<live, request, endpoint, form, ledger, job, inserted, started,
                 edits, heard, notice, switchedOff, lapsed>>

\* mark_recovered/2's rescue: some of the losses are stamped, the rest are not.
RecoveryFails(i, done) ==
  /\ worker[i].phase = "recover"
  /\ Faulty
  /\ done \subseteq Recoverable(i) /\ done # Recoverable(i)
  /\ ledger' = [k \in Delivery |->
                  IF k \in done THEN [ledger[k] EXCEPT !.recovered = TRUE]
                  ELSE ledger[k]]
  /\ Goto(i, "finish")
  /\ UNCHANGED <<live, request, endpoint, form, job, inserted, started, edits,
                 heard, notice, switchedOff, lapsed>>

\* surface/3's rescue: the notice is only logged.
SurfaceFails(i) ==
  /\ worker[i].phase = "surface"
  /\ ~StaleEndpoint(worker[i].copy)
  /\ Faulty
  /\ notice' = [notice EXCEPT ![i] = "logged"]
  /\ lapsed' = lapsed \cup {i}
  /\ Goto(i, "finish")
  /\ UNCHANGED <<live, request, endpoint, form, ledger, job, inserted, started,
                 edits, heard, switchedOff>>
-----------------------------------------------------------------------------
(* The admin, the retention sweep, time, and crashes.                      *)

Register(e) ==
  /\ endpoint[e].life = "unregistered"
  /\ endpoint' = [endpoint EXCEPT ![e].life = "here", ![e].active = TRUE]
  /\ UNCHANGED <<live, request, form, ledger, job, worker, inserted, started,
                 edits, faults, heard, notice, switchedOff, lapsed>>

\* An edit form, or the toggle, reads the row ...
OpenForm(e) ==
  /\ endpoint[e].life = "here"
  /\ edits < MaxEdits
  /\ edits' = edits + 1
  /\ form' = [form EXCEPT ![e] = endpoint[e]]
  /\ UNCHANGED <<live, request, endpoint, ledger, job, worker, inserted,
                 started, faults, heard, notice, switchedOff, lapsed>>

\* ... and saves over it.  Of what update sets, a changeset writes only what
\* differs from the copy it was built on.
SaveForm(e, active) ==
  LET copy == form[e]
      row == endpoint[e]
      saved == [row EXCEPT
                  !.active = IF active # copy.active THEN active ELSE @,
                  !.failures = IF copy.failures # 0 THEN 0 ELSE @,
                  !.stamp = IF active /\ copy.stamp # "none" THEN "none" ELSE @]
  IN /\ copy.life = "here"
     /\ form' = [form EXCEPT ![e] = NoCopy]
     /\ IF row.life = "here"
        THEN /\ endpoint' = [endpoint EXCEPT ![e] = saved]
             /\ switchedOff' = IF active THEN switchedOff \ {e}
                               ELSE IF row.active THEN switchedOff \cup {e}
                               ELSE switchedOff
        ELSE UNCHANGED <<endpoint, switchedOff>>
     /\ UNCHANGED <<live, request, ledger, job, worker, inserted, started,
                    edits, faults, heard, notice, lapsed>>

\* Deleting an endpoint leaves its ledger rows behind, endpoint-less.
DeleteEndpoint(e) ==
  /\ endpoint[e].life = "here"
  /\ edits < MaxEdits
  /\ edits' = edits + 1
  /\ endpoint' = [endpoint EXCEPT ![e] = NoCopy]
  /\ ledger' = [i \in Delivery |-> IF ledger[i].endpoint = e
                                   THEN [ledger[i] EXCEPT !.endpoint = None]
                                   ELSE ledger[i]]
  /\ UNCHANGED <<live, request, form, job, worker, inserted, started, faults,
                 heard, notice, switchedOff, lapsed>>

\* retraction_stale_after_days pass.
Age(e) ==
  /\ endpoint[e].stamp = "fresh"
  /\ endpoint' = [endpoint EXCEPT ![e].stamp = "stale"]
  /\ UNCHANGED <<live, request, form, ledger, job, worker, inserted, started,
                 edits, faults, heard, notice, switchedOff, lapsed>>

\* The retention sweep: everything past 30 days but a failed retraction.
Prune(i) ==
  /\ Stored(i)
  /\ ~(Retraction(ledger[i].verb) /\ ledger[i].status = "failed")
  /\ worker[i].phase = "idle"
  /\ \A r \in Request : request[r].row # i
  /\ ledger' = [ledger EXCEPT ![i].status = "pruned"]
  /\ UNCHANGED <<live, request, endpoint, form, job, worker, inserted, started,
                 edits, faults, heard, notice, switchedOff, lapsed>>

\* A node stops with the worker between two statements: the job stays executing.
CrashWorker(i) ==
  /\ worker[i].phase # "idle"
  /\ Faulty
  /\ lapsed' = lapsed \cup {i}
  /\ worker' = [worker EXCEPT ![i] = NoWorker]
  /\ UNCHANGED <<live, request, endpoint, form, ledger, job, inserted, started,
                 edits, heard, notice, switchedOff>>

\* ... or with the request between two statements: the rest is never written.
CrashRequest(r) ==
  /\ request[r].phase \in {"dispatch", "enqueue", "insert"}
  /\ Faulty
  /\ lapsed' = lapsed \cup ({request[r].row} \ {0})
  /\ request' = [request EXCEPT ![r] = NoRequest]
  /\ UNCHANGED <<live, endpoint, form, ledger, job, worker, inserted, started,
                 edits, heard, notice, switchedOff>>

\* Oban.Lifeline, three hours later: another go, or the end of its budget.
Rescued_SpentIgnored(i) == IF job[i].attempt < job[i].max THEN "available" ELSE job[i].state

Rescued(i) == IF job[i].attempt < job[i].max THEN "available" ELSE "discarded"

Rescue(i) ==
  /\ job[i].state = "executing"
  /\ worker[i].phase = "idle"
  /\ job' = [job EXCEPT ![i].state = Rescued(i)]
  /\ UNCHANGED <<live, request, endpoint, form, ledger, worker, inserted,
                 started, edits, faults, heard, notice, switchedOff, lapsed>>
-----------------------------------------------------------------------------
RequestStep(r) ==
  \/ FanOut(r)
  \/ \E e \in Endpoint : CreateDelivery(r, e)
  \/ InsertJob(r)
  \/ Report(r)

Step(i) ==
  \/ Read(i)
  \/ \E outcome \in {"ok", "refused"} : Post(i, outcome)
  \/ Record(i)
  \/ RecordDeliverySuccess(i)
  \/ MarkRecovered(i)
  \/ Surface(i)
  \/ RecordDeliveryFailure(i)
  \/ Finish(i)

Admin ==
  \/ \E r \in Request, e \in Endpoint : Ping(r, e)
  \/ \E r \in Request, i \in Delivery : Redeliver(r, i)
  \/ \E e \in Endpoint : \/ Register(e)
                         \/ OpenForm(e)
                         \/ \E active \in BOOLEAN : SaveForm(e, active)
                         \/ DeleteEndpoint(e)

WorkerFault(i) ==
  \/ CrashWorker(i)
  \/ ReadFails(i)
  \/ RecordFails(i)
  \/ HealthFails(i)
  \/ \E done \in SUBSET Delivery : RecoveryFails(i, done)
  \/ SurfaceFails(i)

Fault == \/ \E i \in Delivery : WorkerFault(i)
         \/ \E r \in Request : CrashRequest(r) \/ RequestFails(r)

Next ==
  \/ \E r \in Request, d \in Doc, verb \in Verb : Commit(r, d, verb)
  \/ \E r \in Request : RequestStep(r)
  \/ \E i \in Delivery : Fetch(i) \/ Step(i) \/ Rescue(i)
  \/ Admin
  \/ \E e \in Endpoint : Age(e)
  \/ \E i \in Delivery : Prune(i)
  \/ Fault

Spec == Init /\ [][Next]_vars

\* Oban keeps taking available jobs, the process performing one keeps running
\* until it crashes, Lifeline runs on a timer, and so does the request.
Fairness ==
  /\ \A i \in Delivery : WF_vars(Fetch(i)) /\ WF_vars(Step(i)) /\ WF_vars(Rescue(i))
  /\ \A r \in Request : WF_vars(RequestStep(r))

FairSpec == Spec /\ Fairness
-----------------------------------------------------------------------------
(* Properties.                                                             *)

\* A row still pending has a job that will try it, or a request about to
\* insert one (enqueue/6, settle/4), whatever befell other rows: only a kill, or
\* a failed insert of its job, last read or ledger write, orphans a row.
PendingHasJob ==
  \A i \in Delivery \ lapsed :
    ledger[i].status = "pending" =>
      \/ JobAlive(i)
      \/ \E r \in Request : request[r].phase = "insert" /\ request[r].row = i

\* A retraction is not silently lost: while its row is still pending, and so
\* neither on the governance trail nor announced, its job has not ended.
RetractionNotSilentlyLost ==
  \A i \in Delivery :
    Retraction(ledger[i].verb) /\ ledger[i].status = "pending" =>
      job[i].state \notin {"completed", "cancelled", "discarded"}

\* A retraction given up on is announced (RetractionLost.surface): to the
\* admins, or in the log once its endpoint is stale.  Not for a deleted endpoint,
\* nor where its own worker was killed or its notice could not be written.
LostRetractionAnnounced ==
  \A i \in Delivery \ lapsed :
    /\ ledger[i].status = "failed"
    /\ Retraction(ledger[i].verb)
    /\ ledger[i].endpoint # None
    => notice[i] # "none" \/ worker[i].phase = "surface"

\* A lost retraction is stamped recovered (mark_recovered/2) only once that
\* receiver acknowledged some retraction verb of that document, a draft's
\* tombstone included: through crashes and re-runs of the job.
RecoveredMeansTold ==
  \A i \in Delivery :
    ledger[i].recovered =>
      \E j \in heard : /\ NamesDocument(ledger[j].verb)
                       /\ ledger[j].doc = ledger[i].doc
                       /\ ledger[j].url = ledger[i].url

\* The ledger never claims a delivery the receiver did not acknowledge (settle/4),
\* through crashes and re-runs of the job.
LedgerTruth ==
  \A i \in Delivery : ledger[i].status = "succeeded" => i \in heard

\* An endpoint an admin switched off by unticking Active takes no retraction
\* (receives?/3): that was a decision, not a fault.
SwitchedOffRefuses ==
  \A e \in switchedOff :
    endpoint[e].life = "here" => ~Receives(endpoint[e], "withdrawn")

\* A settled row is never reopened: no attempt of its own job turns a delivered
\* or given-up delivery back into a pending one, or one into the other, unless
\* that job was killed and run again.
SettledForGood ==
  [][\A i \in Delivery \ lapsed' :
       ledger[i].status \in {"succeeded", "failed"} =>
         ledger'[i].status \in {ledger[i].status, "pruned"}]_vars

\* Delivering a retraction never counts against its endpoint, switches it off
\* or switches it back on.
RetractionSparesHealth ==
  [][\A i \in Delivery :
       Retraction(ledger[i].verb) /\ worker'[i] # worker[i] =>
         \A e \in Endpoint : /\ endpoint'[e].failures <= endpoint[e].failures
                            /\ endpoint'[e].active = endpoint[e].active]_vars

\* What the pipeline switched off stays marked so, and so keeps receiving
\* retractions, until an admin saves or deletes it: no success that settles
\* after a concurrent exhaustion takes the stamp off.
StampSurvivesPipeline ==
  [][\A e \in Endpoint :
       /\ ~endpoint[e].active /\ endpoint[e].stamp # "none"
       /\ form'[e] = form[e] /\ endpoint'[e].life = "here"
       => ~endpoint'[e].active /\ endpoint'[e].stamp # "none"]_vars

\* Every delivery is eventually settled, or pruned: none is retried for ever, and
\* none is forgotten but by a kill or a failed call of its own.
EveryDeliverySettles ==
  \A i \in Delivery :
    ledger[i].status = "pending" ~> ledger[i].status # "pending" \/ i \in lapsed

\* A job taken up ends, even when the process performing it is killed.
EveryJobEnds == \A i \in Delivery : JobAlive(i) ~> ~JobAlive(i)
=============================================================================
