--------------------------- MODULE WebhooksProofs ---------------------------
(***************************************************************************)
(* Theorems about Webhooks, for any number of endpoints, documents,        *)
(* requests, deliveries, kills and failed calls, and any thresholds.       *)
(***************************************************************************)
EXTENDS Webhooks, TLAPS

\* The attempt budget of a new job is a number.
LEMMA BudgetType ==
  ASSUME NEW verb \in Verb
  PROVE  MaxAttemptsOf(verb) \in Nat
BY AttemptsAssumption DEF MaxAttemptsOf

\* Every value a step writes has its type.
LEMMA ConstantRows ==
  /\ NoCopy \in EndpointRow
  /\ Unused \in LedgerRow
  /\ NoJob \in JobRow
  /\ NoWorker \in WorkerState
  /\ NoRequest \in RequestState
BY BoundsAssumption DEF NoCopy, EndpointRow, Unused, LedgerRow, Verb, NoJob, JobRow,
       NoWorker, WorkerState, NoRequest, RequestState

LEMMA InitTypeOK == Init => TypeOK
<1> SUFFICES ASSUME Init PROVE TypeOK
  OBVIOUS
<1>1. endpoint \in [Endpoint -> EndpointRow]
  BY DEF Init, NoCopy, EndpointRow
<1>2. /\ inserted \in 0..MaxDelivery /\ started \in 0..MaxStarted
      /\ edits \in 0..MaxEdits /\ faults \in 0..MaxFaults
  BY BoundsAssumption DEF Init
<1> QED BY <1>1, <1>2, ConstantRows DEF Init, TypeOK

\* An endpoint row of which one column is written is an endpoint row ...
LEMMA EndpointColumns ==
  ASSUME NEW rows \in [Endpoint -> EndpointRow], NEW e
  PROVE  /\ \A active \in BOOLEAN : [rows EXCEPT ![e].active = active] \in [Endpoint -> EndpointRow]
         /\ \A n \in Nat : [rows EXCEPT ![e].failures = n] \in [Endpoint -> EndpointRow]
         /\ \A stamp \in {"none", "fresh", "stale"} :
              [rows EXCEPT ![e].stamp = stamp] \in [Endpoint -> EndpointRow]
         /\ [rows EXCEPT ![e].life = "here"] \in [Endpoint -> EndpointRow]
BY DEF EndpointRow

\* ... and so are the rows a success, an exhaustion, a registration and a save write.
LEMMA EndpointWrites ==
  ASSUME NEW rows \in [Endpoint -> EndpointRow], NEW e
  PROVE  /\ [rows EXCEPT ![e].failures = 0, ![e].stamp = "none"] \in [Endpoint -> EndpointRow]
         /\ \A n \in Nat : [rows EXCEPT ![e].failures = n, ![e].active = FALSE, ![e].stamp = "fresh"]
                            \in [Endpoint -> EndpointRow]
         /\ [rows EXCEPT ![e].life = "here", ![e].active = TRUE] \in [Endpoint -> EndpointRow]
         /\ \A active \in BOOLEAN, n \in Nat, stamp \in {"none", "fresh", "stale"} :
              [rows EXCEPT ![e] = [rows[e] EXCEPT !.active = active, !.failures = n, !.stamp = stamp]]
                \in [Endpoint -> EndpointRow]
<1>1. [rows EXCEPT ![e].failures = 0, ![e].stamp = "none"] \in [Endpoint -> EndpointRow]
  BY DEF EndpointRow
<1>2. ASSUME NEW n \in Nat
      PROVE  [rows EXCEPT ![e].failures = n, ![e].active = FALSE, ![e].stamp = "fresh"]
               \in [Endpoint -> EndpointRow]
  BY ZenonT(60), <1>2 DEF EndpointRow
<1>3. [rows EXCEPT ![e].life = "here", ![e].active = TRUE] \in [Endpoint -> EndpointRow]
  BY DEF EndpointRow
<1>4. ASSUME NEW active \in BOOLEAN, NEW n \in Nat, NEW stamp \in {"none", "fresh", "stale"}
      PROVE  [rows EXCEPT ![e] = [rows[e] EXCEPT !.active = active, !.failures = n,
                                                 !.stamp = stamp]]
               \in [Endpoint -> EndpointRow]
  BY <1>4 DEF EndpointRow
<1> QED BY <1>1, <1>2, <1>3, <1>4

\* What those writes say of the row afterwards.
LEMMA EndpointWritten ==
  ASSUME NEW rows \in [Endpoint -> EndpointRow], NEW e \in Endpoint, NEW n \in Nat
  PROVE  /\ [rows EXCEPT ![e].failures = 0, ![e].stamp = "none"][e].life = rows[e].life
         /\ [rows EXCEPT ![e].failures = n][e].life = rows[e].life
         /\ [rows EXCEPT ![e].failures = n][e].active = rows[e].active
         /\ [rows EXCEPT ![e].failures = n][e].stamp = rows[e].stamp
         /\ [rows EXCEPT ![e].failures = n, ![e].active = FALSE, ![e].stamp = "fresh"][e].life
              = rows[e].life
         /\ ~[rows EXCEPT ![e].failures = n, ![e].active = FALSE, ![e].stamp = "fresh"][e].active
         /\ [rows EXCEPT ![e].failures = n, ![e].active = FALSE, ![e].stamp = "fresh"][e].stamp
              = "fresh"
BY DEF EndpointRow

\* A ledger row stamped recovered, or that lost its endpoint, is a ledger row.
LEMMA LedgerWrites ==
  ASSUME NEW row \in LedgerRow
  PROVE  /\ [row EXCEPT !.recovered = TRUE] \in LedgerRow
         /\ [row EXCEPT !.endpoint = None] \in LedgerRow
         /\ \A status \in {"pending", "succeeded", "failed", "pruned"} :
              [row EXCEPT !.status = status] \in LedgerRow
BY DEF LedgerRow

\* A worker with an answer is a worker.
LEMMA WorkerPosted ==
  ASSUME NEW workers \in [Delivery -> WorkerState], NEW i \in Delivery,
         NEW outcome \in {"ok", "refused"}, NEW final \in BOOLEAN
  PROVE  [workers EXCEPT ![i].phase = "record", ![i].outcome = outcome, ![i].final = final]
           \in [Delivery -> WorkerState]
<1> DEFINE recording == [workers[i] EXCEPT !.phase = "record"]
           answered  == [recording EXCEPT !.outcome = outcome]
           posted    == [answered EXCEPT !.final = final]
<1>1. recording \in WorkerState
  BY DEF WorkerState
<1>2. answered \in WorkerState
  <2> HIDE DEF recording
  <2> QED BY <1>1 DEF WorkerState
<1>3. posted \in WorkerState
  <2> HIDE DEF answered
  <2> QED BY <1>2 DEF WorkerState
<1>4. [workers EXCEPT ![i].phase = "record", ![i].outcome = outcome, ![i].final = final]
        = [workers EXCEPT ![i] = posted]
  OBVIOUS
<1> QED BY <1>3, <1>4

LEMMA RequestTypeOK ==
  ASSUME TypeOK, NEW r \in Request, RequestStep(r)
  PROVE  TypeOK'
<1>1. CASE FanOut(r)
  BY <1>1, ConstantRows DEF TypeOK, FanOut, RequestState
<1>2. ASSUME NEW e \in Endpoint, CreateDelivery(r, e)
      PROVE  TypeOK'
  <2>1. CASE endpoint[e].life = "here"
    <3>1. inserted + 1 \in Nat /\ inserted' \in 0..MaxDelivery
      BY <1>2, <2>1, BoundsAssumption DEF TypeOK, CreateDelivery
    <3>2. ledger' \in [Delivery -> LedgerRow]
      BY <1>2, <2>1 DEF TypeOK, CreateDelivery, RequestState, LedgerRow
    <3>3. request' \in [Request -> RequestState]
      BY <1>2, <2>1, <3>1 DEF TypeOK, CreateDelivery, RequestState
    <3> QED BY <1>2, <2>1, <3>1, <3>2, <3>3 DEF TypeOK, CreateDelivery
  <2>2. CASE endpoint[e].life # "here"
    <3>1. request' \in [Request -> RequestState]
      BY <1>2, <2>2 DEF TypeOK, CreateDelivery, RequestState
    <3> QED BY <1>2, <2>2, <3>1 DEF TypeOK, CreateDelivery, ledgerVars
  <2> QED BY <2>1, <2>2
<1>3. CASE InsertJob(r)
  <2>1. job' \in [Delivery -> JobRow]
    BY <1>3, BudgetType DEF TypeOK, InsertJob, NewJob, JobRow, RequestState, LedgerRow
  <2>2. request' \in [Request -> RequestState]
    <3>1. 0 \in 0..MaxDelivery
      BY BoundsAssumption
    <3> QED BY <1>3, <3>1, ConstantRows DEF TypeOK, InsertJob, RequestState
  <2> QED BY <1>3, <2>1, <2>2 DEF TypeOK, InsertJob
<1>4. CASE Report(r)
  BY <1>4, ConstantRows DEF TypeOK, Report
<1> QED BY <1>1, <1>2, <1>3, <1>4 DEF RequestStep

\* A worker that only moves on to another phase keeps its type.
LEMMA GotoType ==
  ASSUME TypeOK, NEW i \in Delivery,
         NEW phase \in {"idle", "read", "post", "record", "reset", "recover",
                        "surface", "penalise", "finish"},
         Goto(i, phase)
  PROVE  worker' \in [Delivery -> WorkerState]
BY DEF TypeOK, Goto, WorkerState

LEMMA WorkerTypeOK ==
  ASSUME TypeOK, NEW i \in Delivery, Fetch(i) \/ Step(i) \/ Rescue(i)
  PROVE  TypeOK'
<1>1. CASE Fetch(i)
  <2>1. job' \in [Delivery -> JobRow]
    BY <1>1 DEF TypeOK, Fetch, JobRow
  <2>2. [NoWorker EXCEPT !.phase = "read"] \in WorkerState
    BY ConstantRows DEF WorkerState
  <2>3. worker' \in [Delivery -> WorkerState]
    BY <1>1, <2>2 DEF TypeOK, Fetch
  <2> QED BY <1>1, <2>1, <2>3 DEF TypeOK, Fetch
<1>2. CASE Rescue(i)
  <2>1. job' \in [Delivery -> JobRow]
    BY <1>2 DEF TypeOK, Rescue, Rescued, JobRow
  <2> QED BY <1>2, <2>1 DEF TypeOK, Rescue
<1>3. CASE Read(i)
  <2> DEFINE e == ledger[i].endpoint
  <2>1. NothingToDo \in WorkerState
    BY ConstantRows DEF NothingToDo, WorkerState
  <2>2. SettleUnsent(NoCopy) \in WorkerState
    BY ConstantRows DEF SettleUnsent, WorkerState
  <2>3. ASSUME e # None
        PROVE  /\ SettleUnsent(endpoint[e]) \in WorkerState
               /\ [NoWorker EXCEPT !.phase = "post", !.copy = endpoint[e]] \in WorkerState
    <3>1. endpoint[e] \in EndpointRow
      BY <2>3 DEF TypeOK, LedgerRow
    <3> QED BY <3>1, ConstantRows DEF SettleUnsent, WorkerState
  <2>4. AfterRead(i) \in WorkerState
    BY <2>1, <2>2, <2>3 DEF AfterRead
  <2> QED BY <1>3, <2>4 DEF TypeOK, Read
<1>4. ASSUME NEW outcome \in {"ok", "refused"}, Post(i, outcome)
      PROVE  TypeOK'
  <2>1. FinalAttempt(i) \in BOOLEAN
    BY DEF FinalAttempt
  <2>2. worker' \in [Delivery -> WorkerState]
    <3>1. worker \in [Delivery -> WorkerState]
      BY DEF TypeOK
    <3> QED BY <1>4, <2>1, <3>1, WorkerPosted DEF Post
  <2>3. heard' \subseteq Delivery
    BY <1>4 DEF TypeOK, Post
  <2> QED BY <1>4, <2>2, <2>3 DEF TypeOK, Post
<1>5. CASE Record(i)
  <2>1. StatusAfter(worker[i]) \in {"pending", "succeeded", "failed"}
    BY DEF StatusAfter
  <2>2. ledger' \in [Delivery -> LedgerRow]
    BY SMTT(30), <1>5, <2>1 DEF TypeOK, Record, LedgerRow
  <2>3. worker' \in [Delivery -> WorkerState]
    BY <1>5, GotoType DEF Record, AfterRecord
  <2> QED BY <1>5, <2>2, <2>3 DEF TypeOK, Record
<1>6. CASE RecordDeliverySuccess(i)
  <2>1. endpoint' \in [Endpoint -> EndpointRow]
    <3>1. endpoint \in [Endpoint -> EndpointRow]
      BY DEF TypeOK
    <3> QED BY <1>6, <3>1, EndpointWrites DEF RecordDeliverySuccess
  <2>2. worker' \in [Delivery -> WorkerState]
    BY <1>6, GotoType DEF RecordDeliverySuccess
  <2> QED BY <1>6, <2>1, <2>2 DEF TypeOK, RecordDeliverySuccess
<1>7. CASE MarkRecovered(i)
  <2>1. ledger' \in [Delivery -> LedgerRow]
    <3>1. ledger \in [Delivery -> LedgerRow]
      BY DEF TypeOK
    <3> QED BY <1>7, <3>1, LedgerWrites DEF MarkRecovered
  <2>2. worker' \in [Delivery -> WorkerState]
    BY <1>7, GotoType DEF MarkRecovered
  <2> QED BY <1>7, <2>1, <2>2 DEF TypeOK, MarkRecovered
<1>8. CASE Surface(i)
  <2>1. worker' \in [Delivery -> WorkerState]
    BY <1>8, GotoType DEF Surface
  <2>2. notice' \in [Delivery -> {"none", "told", "logged"}]
    BY <1>8 DEF TypeOK, Surface
  <2> QED BY <1>8, <2>1, <2>2 DEF TypeOK, Surface
<1>9. CASE RecordDeliveryFailure(i)
  <2>1. worker[i].copy.failures + 1 \in Nat
    BY DEF TypeOK, WorkerState, EndpointRow
  <2>2. endpoint' \in [Endpoint -> EndpointRow]
    <3>1. endpoint \in [Endpoint -> EndpointRow]
      BY DEF TypeOK
    <3> QED BY <1>9, <2>1, <3>1, EndpointColumns, EndpointWrites DEF RecordDeliveryFailure
  <2>3. worker' \in [Delivery -> WorkerState]
    BY <1>9, GotoType DEF RecordDeliveryFailure
  <2> QED BY <1>9, <2>2, <2>3 DEF TypeOK, RecordDeliveryFailure
<1>10. CASE Finish(i)
  <2>1. job' \in [Delivery -> JobRow]
    BY <1>10 DEF TypeOK, Finish, JobAfter, JobRow
  <2>2. worker' \in [Delivery -> WorkerState]
    BY <1>10, ConstantRows DEF TypeOK, Finish
  <2> QED BY <1>10, <2>1, <2>2 DEF TypeOK, Finish
<1> QED BY <1>1, <1>2, <1>3, <1>4, <1>5, <1>6, <1>7, <1>8, <1>9, <1>10 DEF Step

LEMMA AdminTypeOK ==
  ASSUME TypeOK, Admin
  PROVE  TypeOK'
<1>1. ASSUME NEW r \in Request, NEW e \in Endpoint, Ping(r, e)
      PROVE  TypeOK'
  <2>1. request' \in [Request -> RequestState]
    <3>1. 0 \in 0..MaxDelivery
      BY BoundsAssumption
    <3> QED BY <1>1, <3>1 DEF TypeOK, Ping, RequestState, NoRequest, Verb
  <2>2. started' \in 0..MaxStarted
    BY <1>1, BoundsAssumption DEF TypeOK, Ping
  <2> QED BY <1>1, <2>1, <2>2 DEF TypeOK, Ping
<1>2. ASSUME NEW r \in Request, NEW i \in Delivery, Redeliver(r, i)
      PROVE  TypeOK'
  <2>1. request' \in [Request -> RequestState]
    <3>1. 0 \in 0..MaxDelivery
      BY BoundsAssumption
    <3> QED BY <1>2, <3>1 DEF TypeOK, Redeliver, Replayable, RequestState, NoRequest, LedgerRow
  <2>2. started' \in 0..MaxStarted
    BY <1>2, BoundsAssumption DEF TypeOK, Redeliver
  <2> QED BY <1>2, <2>1, <2>2 DEF TypeOK, Redeliver
<1>3. ASSUME NEW e \in Endpoint, Register(e)
      PROVE  TypeOK'
  <2>1. endpoint' \in [Endpoint -> EndpointRow]
    <3>1. endpoint \in [Endpoint -> EndpointRow]
      BY DEF TypeOK
    <3> QED BY <1>3, <3>1, EndpointWrites DEF Register
  <2> QED BY <1>3, <2>1 DEF TypeOK, Register
<1>4. ASSUME NEW e \in Endpoint, OpenForm(e)
      PROVE  TypeOK'
  <2>1. form' \in [Endpoint -> EndpointRow]
    BY <1>4 DEF TypeOK, OpenForm
  <2>2. edits' \in 0..MaxEdits
    BY <1>4, BoundsAssumption DEF TypeOK, OpenForm
  <2> QED BY <1>4, <2>1, <2>2 DEF TypeOK, OpenForm
<1>5. ASSUME NEW e \in Endpoint, NEW active \in BOOLEAN, SaveForm(e, active)
      PROVE  TypeOK'
  <2>1. endpoint' \in [Endpoint -> EndpointRow]
    <3> DEFINE row == endpoint[e]
               newActive == IF active # form[e].active THEN active ELSE row.active
               newFailures == IF form[e].failures # 0 THEN 0 ELSE row.failures
               newStamp == IF active /\ form[e].stamp # "none" THEN "none" ELSE row.stamp
               saved == [row EXCEPT !.active = newActive, !.failures = newFailures,
                                    !.stamp = newStamp]
    <3>1. endpoint \in [Endpoint -> EndpointRow]
      BY DEF TypeOK
    <3>2. /\ row.active \in BOOLEAN /\ row.failures \in Nat
          /\ row.stamp \in {"none", "fresh", "stale"}
      BY <3>1 DEF EndpointRow
    <3>3. newActive \in BOOLEAN /\ newFailures \in Nat
          /\ newStamp \in {"none", "fresh", "stale"}
      BY <3>2
    <3>4. [endpoint EXCEPT ![e] = saved] \in [Endpoint -> EndpointRow]
      <4> HIDE DEF newActive, newFailures, newStamp
      <4> QED BY <3>1, <3>3, EndpointWrites
    <3>5. endpoint' = endpoint \/ endpoint' = [endpoint EXCEPT ![e] = saved]
      BY <1>5 DEF SaveForm
    <3> QED BY <3>1, <3>4, <3>5
  <2>2. form' \in [Endpoint -> EndpointRow]
    BY <1>5, ConstantRows DEF TypeOK, SaveForm
  <2>3. edits' \in 0..MaxEdits /\ switchedOff' \subseteq Endpoint
    BY <1>5 DEF TypeOK, SaveForm
  <2> QED BY <1>5, <2>1, <2>2, <2>3 DEF TypeOK, SaveForm
<1>6. ASSUME NEW e \in Endpoint, DeleteEndpoint(e)
      PROVE  TypeOK'
  <2>1. endpoint' \in [Endpoint -> EndpointRow]
    BY <1>6, ConstantRows DEF TypeOK, DeleteEndpoint
  <2>2. ledger' \in [Delivery -> LedgerRow]
    BY SMTT(30), <1>6 DEF TypeOK, DeleteEndpoint, LedgerRow
  <2>3. edits' \in 0..MaxEdits
    BY <1>6, BoundsAssumption DEF TypeOK, DeleteEndpoint
  <2> QED BY <1>6, <2>1, <2>2, <2>3 DEF TypeOK, DeleteEndpoint
<1> QED BY <1>1, <1>2, <1>3, <1>4, <1>5, <1>6 DEF Admin

LEMMA WorkerFaultTypeOK ==
  ASSUME TypeOK, NEW i \in Delivery, WorkerFault(i)
  PROVE  TypeOK'
<1>1. faults' \in 0..MaxFaults /\ lapsed' \subseteq Delivery
  <2>1. Faulty /\ (lapsed' = lapsed \/ lapsed' = lapsed \cup {i})
    BY DEF WorkerFault, CrashWorker, ReadFails, RecordFails, HealthFails, RecoveryFails,
           SurfaceFails
  <2> QED BY <2>1, BoundsAssumption DEF TypeOK, Faulty
<1>2. CASE CrashWorker(i)
  BY <1>1, <1>2, ConstantRows DEF TypeOK, CrashWorker
<1>3. CASE ReadFails(i)
  <2>1. [NoWorker EXCEPT !.phase = "finish", !.outcome = "refused"] \in WorkerState
    BY ConstantRows DEF WorkerState
  <2> QED BY <1>1, <1>3, <2>1 DEF TypeOK, ReadFails
<1>4. CASE RecordFails(i)
  <2>1. worker' \in [Delivery -> WorkerState]
    BY <1>4, GotoType DEF RecordFails, AfterRecord
  <2> QED BY <1>1, <1>4, <2>1 DEF TypeOK, RecordFails
<1>5. CASE HealthFails(i)
  <2>1. worker' \in [Delivery -> WorkerState]
    BY <1>5, GotoType DEF HealthFails
  <2> QED BY <1>1, <1>5, <2>1 DEF TypeOK, HealthFails
<1>6. ASSUME NEW done \in SUBSET Delivery, RecoveryFails(i, done)
      PROVE  TypeOK'
  <2>1. ledger' \in [Delivery -> LedgerRow]
    <3>1. ledger \in [Delivery -> LedgerRow]
      BY DEF TypeOK
    <3> QED BY <1>6, <3>1, LedgerWrites DEF RecoveryFails
  <2>2. worker' \in [Delivery -> WorkerState]
    BY <1>6, GotoType DEF RecoveryFails
  <2> QED BY <1>1, <1>6, <2>1, <2>2 DEF TypeOK, RecoveryFails
<1>7. CASE SurfaceFails(i)
  <2>1. worker' \in [Delivery -> WorkerState]
    BY <1>7, GotoType DEF SurfaceFails
  <2>2. notice' \in [Delivery -> {"none", "told", "logged"}]
    BY <1>7 DEF TypeOK, SurfaceFails
  <2> QED BY <1>1, <1>7, <2>1, <2>2 DEF TypeOK, SurfaceFails
<1> QED BY <1>2, <1>3, <1>4, <1>5, <1>6, <1>7 DEF WorkerFault

LEMMA RequestFaultTypeOK ==
  ASSUME TypeOK, NEW r \in Request, CrashRequest(r) \/ RequestFails(r)
  PROVE  TypeOK'
<1>1. faults' \in 0..MaxFaults
  BY BoundsAssumption DEF TypeOK, CrashRequest, RequestFails, Faulty
<1>2. lapsed' \subseteq Delivery
  <2>1. request[r].row \in 0..MaxDelivery /\ lapsed \subseteq Delivery
    BY DEF TypeOK, RequestState
  <2>2. {request[r].row} \ {0} \subseteq Delivery
    BY <2>1, BoundsAssumption DEF Delivery
  <2> QED BY <2>1, <2>2 DEF CrashRequest, RequestFails
<1>3. request' \in [Request -> RequestState]
  BY ConstantRows DEF TypeOK, CrashRequest, RequestFails, RequestState
<1> QED BY <1>1, <1>2, <1>3 DEF TypeOK, CrashRequest, RequestFails

LEMMA NextTypeOK == TypeOK /\ [Next]_vars => TypeOK'
<1> SUFFICES ASSUME TypeOK, [Next]_vars
             PROVE  TypeOK'
  OBVIOUS
<1>1. ASSUME NEW r \in Request, NEW d \in Doc, NEW verb \in Verb, Commit(r, d, verb)
      PROVE  TypeOK'
  <2>1. started' \in 0..MaxStarted
    BY <1>1, BoundsAssumption DEF TypeOK, Commit
  <2>2. request' \in [Request -> RequestState]
    <3>1. 0 \in 0..MaxDelivery
      BY BoundsAssumption
    <3> QED BY <1>1, <3>1 DEF TypeOK, Commit, RequestState, NoRequest
  <2>3. live' \in [Doc -> BOOLEAN]
    BY <1>1 DEF TypeOK, Commit
  <2> QED BY <1>1, <2>1, <2>2, <2>3 DEF TypeOK, Commit
<1>2. ASSUME NEW e \in Endpoint, Age(e)
      PROVE  TypeOK'
  <2>1. endpoint \in [Endpoint -> EndpointRow]
    BY DEF TypeOK
  <2>2. endpoint' \in [Endpoint -> EndpointRow]
    BY <1>2, <2>1, EndpointColumns DEF Age
  <2> QED BY <1>2, <2>2 DEF TypeOK, Age
<1>3. ASSUME NEW i \in Delivery, Prune(i)
      PROVE  TypeOK'
  BY ZenonT(60), <1>3 DEF TypeOK, Prune, LedgerRow
<1>4. CASE UNCHANGED vars
  BY <1>4 DEF TypeOK, vars
<1> QED BY <1>1, <1>2, <1>3, <1>4, RequestTypeOK, WorkerTypeOK, AdminTypeOK, WorkerFaultTypeOK,
           RequestFaultTypeOK
        DEF Next, Fault

\* Every variable keeps its type: the counters within their bounds, the ledger's
\* references to registered endpoints, a worker's copy an endpoint row.
THEOREM TypeCorrect == Spec => []TypeOK
BY InitTypeOK, NextTypeOK, PTL DEF Spec
-----------------------------------------------------------------------------
(* The ledger tells the truth.  Neither property is inductive: a row is    *)
(* only known to be delivered because its worker carries a 2xx, a worker   *)
(* only exists for a row that was inserted, and a row keeps the receiver,  *)
(* the verb and the document it was inserted with.                         *)

\* Rows are inserted in order: beyond the last one there is nothing yet.
RowsInOrder ==
  \A i \in Delivery :
    i > inserted => /\ ledger[i] = Unused
                    /\ job[i].state = "none"
                    /\ worker[i].phase = "idle"

\* A request about to insert a job does it for a row it has inserted.
InsertsKnownRow ==
  \A r \in Request : request[r].phase = "insert" => request[r].row \in 1..inserted

\* An inserted row names the endpoint it was sent to until that is deleted, and
\* its address always.
RowsAddressed ==
  \A i \in Delivery :
    i <= inserted => /\ ledger[i].url \in Endpoint
                     /\ ledger[i].endpoint \in {None, ledger[i].url}

\* A worker that carries a 2xx, or acts on one, heard it.
AnswerHeard ==
  /\ \A i \in heard : i <= inserted
  /\ \A i \in Delivery :
       /\ worker[i].outcome = "ok" => i \in heard
       /\ worker[i].phase \in {"reset", "recover"} => worker[i].outcome = "ok"

LedgerInv ==
  /\ TypeOK
  /\ RowsInOrder
  /\ InsertsKnownRow
  /\ RowsAddressed
  /\ AnswerHeard
  /\ LedgerTruth
  /\ RecoveredMeansTold

LEMMA InitLedgerInv == Init => LedgerInv
<1> SUFFICES ASSUME Init PROVE LedgerInv
  OBVIOUS
<1>1. RowsInOrder
  BY DEF Init, RowsInOrder, NoJob, NoWorker
<1>2. InsertsKnownRow
  BY DEF Init, InsertsKnownRow, NoRequest
<1>3. RowsAddressed
  BY BoundsAssumption DEF Init, RowsAddressed, Delivery
<1>4. AnswerHeard
  BY DEF Init, AnswerHeard, NoWorker
<1>5. LedgerTruth /\ RecoveredMeansTold
  BY DEF Init, LedgerTruth, RecoveredMeansTold, Unused
<1> QED BY <1>1, <1>2, <1>3, <1>4, <1>5, InitTypeOK DEF LedgerInv

\* What a step must keep for an inserted row to go on meaning the same, and for
\* a row it did not insert to stay unused: the frame of every step but three.
LedgerFrame ==
  /\ ledger' \in [Delivery -> LedgerRow]
  /\ inserted' = inserted
  /\ heard \subseteq heard'
  /\ \A i \in Delivery :
       /\ i > inserted => ledger'[i] = ledger[i]
       /\ /\ ledger'[i].verb = ledger[i].verb
          /\ ledger'[i].doc = ledger[i].doc
          /\ ledger'[i].url = ledger[i].url
          /\ ledger'[i].endpoint \in {None, ledger[i].endpoint}

\* Under the frame, the address of a row and what its receiver was told stand.
LEMMA FrameKeepsRows ==
  ASSUME LedgerInv, LedgerFrame
  PROVE  /\ RowsAddressed'
         /\ (\A i \in Delivery : ledger'[i].recovered => ledger[i].recovered)
              => RecoveredMeansTold'
<1>1. RowsAddressed'
  BY DEF LedgerInv, LedgerFrame, RowsAddressed
<1>2. ASSUME \A i \in Delivery : ledger'[i].recovered => ledger[i].recovered
      PROVE  RecoveredMeansTold'
  <2> SUFFICES ASSUME NEW i \in Delivery, ledger'[i].recovered
               PROVE  \E j \in heard' : /\ NamesDocument(ledger'[j].verb)
                                         /\ ledger'[j].doc = ledger'[i].doc
                                         /\ ledger'[j].url = ledger'[i].url
    BY DEF RecoveredMeansTold
  <2>1. PICK j \in heard : /\ NamesDocument(ledger[j].verb)
                           /\ ledger[j].doc = ledger[i].doc
                           /\ ledger[j].url = ledger[i].url
    BY <1>2 DEF LedgerInv, RecoveredMeansTold
  <2>2. j \in Delivery /\ j \in heard'
    BY DEF LedgerInv, TypeOK, LedgerFrame
  <2> QED BY <2>1, <2>2 DEF LedgerFrame
<1> QED BY <1>1, <1>2

\* A step that touches neither the ledger, its jobs nor their workers.
LEMMA QuietKeepsLedger ==
  ASSUME LedgerInv, TypeOK', InsertsKnownRow',
         UNCHANGED <<ledger, job, worker, inserted, heard>>
  PROVE  LedgerInv'
BY DEF LedgerInv, RowsInOrder, RowsAddressed, AnswerHeard, LedgerTruth, RecoveredMeansTold

\* A step of the worker of row i: what it writes outside the endpoints.
WorkerAction(i) == Fetch(i) \/ Step(i) \/ Rescue(i) \/ WorkerFault(i)

\* It stamps some of the losses it recovers: all of them, or those before its
\* rescue.
Recovers(i) == MarkRecovered(i) \/ \E done \in SUBSET Delivery : RecoveryFails(i, done)

\* A worker writes the ledger in two of its steps.
LEMMA OtherStepsKeepLedger ==
  ASSUME NEW i \in Delivery, WorkerAction(i), ~Record(i), ~Recovers(i)
  PROVE  ledger' = ledger
BY DEF WorkerAction, Fetch, Step, Rescue, WorkerFault, CrashWorker, ReadFails, RecordFails,
       HealthFails, SurfaceFails, Recovers, Read, Post, RecordDeliverySuccess, Surface,
       RecordDeliveryFailure, Finish

\* What it does to the ledger when it recovers losses.
LEMMA RecoverySteps ==
  ASSUME TypeOK, NEW i \in Delivery, Recovers(i)
  PROVE  /\ worker[i].phase = "recover" /\ worker'[i].phase = "finish"
         /\ worker'[i].outcome = worker[i].outcome
         /\ \E done \in SUBSET Recoverable(i) :
              ledger' = [k \in Delivery |->
                           IF k \in done THEN [ledger[k] EXCEPT !.recovered = TRUE]
                           ELSE ledger[k]]
         /\ UNCHANGED <<request, endpoint, form, job, inserted, heard, notice, lapsed>>
<1>1. worker \in [Delivery -> WorkerState]
  BY DEF TypeOK
<1>2. CASE MarkRecovered(i)
  <2>1. worker'[i].phase = "finish" /\ worker'[i].outcome = worker[i].outcome
    BY <1>1, <1>2 DEF MarkRecovered, Goto, WorkerState
  <2> QED BY <1>2, <2>1 DEF MarkRecovered
<1>3. ASSUME NEW done \in SUBSET Delivery, RecoveryFails(i, done)
      PROVE  /\ worker[i].phase = "recover" /\ worker'[i].phase = "finish"
             /\ worker'[i].outcome = worker[i].outcome
             /\ done \in SUBSET Recoverable(i)
             /\ ledger' = [k \in Delivery |->
                              IF k \in done THEN [ledger[k] EXCEPT !.recovered = TRUE]
                              ELSE ledger[k]]
             /\ UNCHANGED <<request, endpoint, form, job, inserted, heard, notice, lapsed>>
  <2>1. worker'[i].phase = "finish" /\ worker'[i].outcome = worker[i].outcome
    BY <1>1, <1>3 DEF RecoveryFails, Goto, WorkerState
  <2> QED BY <1>3, <2>1 DEF RecoveryFails
<1> QED BY <1>2, <1>3 DEF Recovers

LEMMA WorkerFrame ==
  ASSUME LedgerInv, TypeOK', NEW i \in Delivery, WorkerAction(i)
  PROVE  /\ i <= inserted
         /\ request' = request
         /\ LedgerFrame
         /\ heard' \subseteq heard \cup {i}
         /\ \A k \in Delivery \ {i} : job'[k] = job[k] /\ worker'[k] = worker[k]
<1> USE DEF LedgerInv
<1>1. i <= inserted
  BY DEF TypeOK, RowsInOrder, WorkerAction, Fetch, Step, Rescue, WorkerFault, CrashWorker,
         ReadFails, RecordFails, HealthFails, RecoveryFails, SurfaceFails, Read, Post,
         Record, RecordDeliverySuccess, MarkRecovered, Surface, RecordDeliveryFailure,
         Finish, Delivery
<1>2. /\ request' = request /\ inserted' = inserted
      /\ heard \subseteq heard' /\ heard' \subseteq heard \cup {i}
  BY DEF WorkerAction, Fetch, Step, Rescue, WorkerFault, CrashWorker, ReadFails, RecordFails,
         HealthFails, RecoveryFails, SurfaceFails, Read, Post, Record,
         RecordDeliverySuccess, MarkRecovered, Surface, RecordDeliveryFailure, Finish
<1>3. \A k \in Delivery \ {i} : job'[k] = job[k] /\ worker'[k] = worker[k]
  <2>1. CASE WorkerFault(i)
    BY <2>1 DEF TypeOK, WorkerFault, CrashWorker, ReadFails, RecordFails, HealthFails,
                RecoveryFails, SurfaceFails, Goto
  <2>2. CASE ~WorkerFault(i)
    BY <2>2 DEF TypeOK, WorkerAction, Fetch, Step, Rescue, Read, Post, Record,
         RecordDeliverySuccess, MarkRecovered, Surface, RecordDeliveryFailure, Finish, Goto
  <2> QED BY <2>1, <2>2
<1>4. ASSUME NEW k \in Delivery
      PROVE  /\ k > inserted => ledger'[k] = ledger[k]
             /\ ledger'[k].verb = ledger[k].verb
             /\ ledger'[k].doc = ledger[k].doc
             /\ ledger'[k].url = ledger[k].url
             /\ ledger'[k].endpoint = ledger[k].endpoint
  <2>1. ledger[k] \in LedgerRow
    BY DEF TypeOK
  <2>2. CASE Record(i)
    <3>1. ledger'[k] = IF k = i THEN [ledger[k] EXCEPT !.status = StatusAfter(worker[i])]
                       ELSE ledger[k]
      BY <2>2 DEF Record, TypeOK
    <3> QED BY <1>1, <2>1, <3>1 DEF TypeOK, LedgerRow, Delivery
  <2>3. CASE Recovers(i)
    <3>1. \/ k \in Recoverable(i) /\ ledger'[k] = [ledger[k] EXCEPT !.recovered = TRUE]
          \/ ledger'[k] = ledger[k]
      BY <2>3, RecoverySteps
    <3>2. k > inserted => k \notin Recoverable(i)
      BY DEF RowsInOrder, Recoverable, Unused
    <3> QED BY <2>1, <3>1, <3>2 DEF LedgerRow
  <2>4. CASE ~Record(i) /\ ~Recovers(i)
    BY <2>4, OtherStepsKeepLedger
  <2> QED BY <2>2, <2>3, <2>4
<1>5. LedgerFrame
  BY <1>2, <1>4 DEF LedgerFrame, TypeOK
<1> QED BY <1>1, <1>2, <1>3, <1>5

\* What the worker of row i carries from one phase to the next.
LEMMA WorkerCarries ==
  ASSUME LedgerInv, NEW i \in Delivery, WorkerAction(i)
  PROVE  /\ worker'[i].outcome = "ok" => i \in heard'
         /\ worker'[i].phase \in {"reset", "recover"} => worker'[i].outcome = "ok"
<1> USE DEF LedgerInv
<1>1. worker[i] \in WorkerState
  BY DEF TypeOK
<1>2. CASE Fetch(i) \/ CrashWorker(i) \/ ReadFails(i) \/ Finish(i)
  <2>1. CASE Fetch(i)
    BY <2>1 DEF Fetch, TypeOK, NoWorker
  <2>2. CASE CrashWorker(i)
    BY <2>2 DEF CrashWorker, TypeOK, NoWorker
  <2>3. CASE ReadFails(i)
    <3>1. worker'[i].phase = "finish" /\ worker'[i].outcome = "refused"
      BY <2>3 DEF ReadFails, TypeOK, NoWorker
    <3> QED BY <3>1
  <2>4. CASE Finish(i)
    BY <2>4 DEF Finish, TypeOK, NoWorker
  <2> QED BY <1>2, <2>1, <2>2, <2>3, <2>4
<1>3. CASE Rescue(i)
  BY <1>3 DEF Rescue, AnswerHeard
<1>4. CASE Read(i)
  BY <1>4 DEF Read, TypeOK, AfterRead, NothingToDo, SettleUnsent, NoWorker
<1>5. ASSUME NEW outcome \in {"ok", "refused"}, Post(i, outcome)
      PROVE  /\ worker'[i].outcome = "ok" => i \in heard'
             /\ worker'[i].phase \in {"reset", "recover"} => worker'[i].outcome = "ok"
  <2>1. worker'[i].phase = "record" /\ worker'[i].outcome = outcome
    BY <1>1, <1>5 DEF Post, TypeOK, WorkerState
  <2> QED BY <1>5, <2>1 DEF Post
<1>6. CASE Record(i) \/ RecordFails(i)
  <2>1. worker'[i].phase = AfterRecord(i) /\ worker'[i].outcome = worker[i].outcome
    BY <1>1, <1>6 DEF Record, RecordFails, Goto, TypeOK, WorkerState
  <2> QED BY <1>6, <2>1 DEF Record, RecordFails, AfterRecord, AnswerHeard
<1>7. CASE RecordDeliverySuccess(i) \/ HealthFails(i)
  <2>1. /\ worker[i].phase \in {"reset", "penalise"}
        /\ worker'[i].phase = IF worker[i].phase = "reset" THEN "recover" ELSE "finish"
        /\ worker'[i].outcome = worker[i].outcome
        /\ heard' = heard
    BY <1>1, <1>7 DEF RecordDeliverySuccess, HealthFails, Goto, TypeOK, WorkerState
  <2> QED BY <2>1 DEF AnswerHeard
<1>8. CASE Recovers(i) \/ Surface(i) \/ SurfaceFails(i) \/ RecordDeliveryFailure(i)
  <2>1. /\ worker'[i].phase = "finish" /\ worker'[i].outcome = worker[i].outcome
        /\ heard' = heard
    <3>1. CASE Recovers(i)
      BY <3>1, RecoverySteps
    <3>2. CASE ~Recovers(i)
      BY <1>1, <1>8, <3>2 DEF Surface, SurfaceFails, RecordDeliveryFailure, Goto, TypeOK,
                              WorkerState
    <3> QED BY <3>1, <3>2
  <2> QED BY <2>1 DEF AnswerHeard
<1> QED BY <1>2, <1>3, <1>4, <1>5, <1>6, <1>7, <1>8 DEF WorkerAction, Step, WorkerFault, Recovers

LEMMA WorkerKeepsLedger ==
  ASSUME LedgerInv, TypeOK', NEW i \in Delivery, WorkerAction(i)
  PROVE  LedgerInv'
<1> USE WorkerFrame DEF LedgerInv
<1>1. InsertsKnownRow'
  BY DEF InsertsKnownRow, LedgerFrame
<1>2. RowsInOrder'
  BY SMTT(30) DEF RowsInOrder, LedgerFrame, TypeOK, Delivery
<1>3. RowsAddressed'
  BY FrameKeepsRows
<1>4. AnswerHeard'
  BY WorkerCarries DEF AnswerHeard, LedgerFrame
<1>5. LedgerTruth'
  <2> SUFFICES ASSUME NEW k \in Delivery, ledger'[k].status = "succeeded"
               PROVE  k \in heard'
    BY DEF LedgerTruth
  <2>1. ledger[k] \in LedgerRow /\ heard \subseteq heard'
    BY DEF TypeOK, LedgerFrame
  <2>2. CASE Record(i)
    <3>1. ledger'[k] = IF k = i THEN [ledger[k] EXCEPT !.status = StatusAfter(worker[i])]
                       ELSE ledger[k]
      BY <2>2 DEF Record, TypeOK
    <3>2. k = i => worker[i].outcome = "ok"
      BY <2>1, <3>1 DEF LedgerRow, StatusAfter
    <3> QED BY <2>1, <3>1, <3>2 DEF AnswerHeard, LedgerTruth
  <2>3. CASE ~Record(i)
    <3>1. ledger'[k].status = ledger[k].status
      <4>1. CASE Recovers(i)
        BY <2>1, <4>1, RecoverySteps DEF LedgerRow
      <4>2. CASE ~Recovers(i)
        BY <2>3, <4>2, OtherStepsKeepLedger
      <4> QED BY <4>1, <4>2
    <3> QED BY <2>1, <3>1 DEF LedgerTruth
  <2> QED BY <2>2, <2>3
<1>6. RecoveredMeansTold'
  <2>1. CASE Recovers(i)
    <3> SUFFICES ASSUME NEW k \in Delivery, ledger'[k].recovered
                 PROVE  \E j \in heard' : /\ NamesDocument(ledger'[j].verb)
                                           /\ ledger'[j].doc = ledger'[k].doc
                                           /\ ledger'[j].url = ledger'[k].url
      BY DEF RecoveredMeansTold
    <3>1. CASE k \in Recoverable(i)
      <4>1. i \in heard' /\ NamesDocument(ledger[i].verb)
        BY <2>1, <3>1, RecoverySteps DEF AnswerHeard, Recoverable, LedgerFrame
      <4>2. k <= inserted
        BY <3>1 DEF RowsInOrder, Recoverable, Unused, TypeOK, Delivery
      <4>3. ledger[k].endpoint # None
        BY <3>1, NoneAssumption DEF Recoverable, RowsAddressed
      <4>4. ledger[i].doc = ledger[k].doc /\ ledger[i].url = ledger[k].url
        BY <3>1, <4>2, <4>3 DEF Recoverable, RowsAddressed
      <4> QED BY <4>1, <4>4 DEF LedgerFrame
    <3>2. CASE k \notin Recoverable(i)
      <4>1. ledger[k].recovered
        BY <2>1, <3>2, RecoverySteps
      <4>2. PICK j \in heard : /\ NamesDocument(ledger[j].verb)
                               /\ ledger[j].doc = ledger[k].doc
                               /\ ledger[j].url = ledger[k].url
        BY <4>1 DEF RecoveredMeansTold
      <4>3. j \in Delivery /\ j \in heard'
        BY DEF TypeOK, LedgerFrame
      <4> QED BY <4>2, <4>3 DEF LedgerFrame
    <3> QED BY <3>1, <3>2
  <2>2. CASE ~Recovers(i)
    <3>1. ASSUME NEW k \in Delivery
          PROVE  ledger'[k].recovered => ledger[k].recovered
      <4>1. ledger[k] \in LedgerRow
        BY DEF TypeOK
      <4>2. CASE Record(i)
        BY <4>1, <4>2 DEF Record, TypeOK, LedgerRow
      <4>3. CASE ~Record(i)
        BY <2>2, <4>3, OtherStepsKeepLedger
      <4> QED BY <4>2, <4>3
    <3> QED BY <3>1, FrameKeepsRows
  <2> QED BY <2>1, <2>2
<1> QED BY <1>1, <1>2, <1>3, <1>4, <1>5, <1>6

\* The steps of a request: a row is inserted beyond the last one.
LEMMA RequestKeepsLedger ==
  ASSUME LedgerInv, TypeOK', NEW r \in Request, RequestStep(r)
  PROVE  LedgerInv'
<1> USE DEF LedgerInv
<1>1. CASE FanOut(r) \/ Report(r)
  <2>1. InsertsKnownRow'
    <3>1. request'[r].phase # "insert"
      <4>1. CASE FanOut(r)
        <5>1. request[r] \in RequestState
          BY DEF TypeOK
        <5>2. request'[r] = NoRequest \/ request'[r].phase = "enqueue"
          BY <4>1, <5>1 DEF FanOut, TypeOK, RequestState
        <5> QED BY <5>2 DEF NoRequest
      <4>2. CASE Report(r)
        BY <4>2 DEF Report, TypeOK, NoRequest
      <4> QED BY <1>1, <4>1, <4>2
    <3>2. inserted' = inserted /\ \A q \in Request \ {r} : request'[q] = request[q]
      BY <1>1 DEF FanOut, Report, TypeOK
    <3> QED BY <3>1, <3>2 DEF InsertsKnownRow
  <2> QED BY <1>1, <2>1, QuietKeepsLedger DEF FanOut, Report
<1>2. CASE InsertJob(r)
  <2>1. request[r].row \in 1..inserted
    BY <1>2 DEF InsertJob, InsertsKnownRow
  <2>2. InsertsKnownRow'
    <3>1. request[r] \in RequestState
      BY DEF TypeOK
    <3>2. request'[r] = IF request[r].todo = {} THEN NoRequest
                        ELSE [request[r] EXCEPT !.phase = "enqueue", !.row = 0]
      BY <1>2 DEF InsertJob, TypeOK
    <3>3. request'[r].phase # "insert"
      BY <3>1, <3>2 DEF NoRequest, RequestState
    <3>4. \A q \in Request \ {r} : request'[q] = request[q]
      BY <1>2 DEF InsertJob, TypeOK
    <3> QED BY <1>2, <3>3, <3>4 DEF InsertJob, InsertsKnownRow
  <2>3. RowsInOrder'
    <3>1. \A k \in Delivery : k > inserted => job'[k] = job[k]
      BY <1>2, <2>1 DEF InsertJob, TypeOK, Delivery
    <3> QED BY <1>2, <3>1 DEF InsertJob, RowsInOrder
  <2>4. RowsAddressed' /\ AnswerHeard' /\ LedgerTruth' /\ RecoveredMeansTold'
    BY <1>2 DEF InsertJob, RowsAddressed, AnswerHeard, LedgerTruth, RecoveredMeansTold
  <2> QED BY <2>2, <2>3, <2>4
<1>3. ASSUME NEW e \in Endpoint, CreateDelivery(r, e)
      PROVE  LedgerInv'
  <2>1. CASE endpoint[e].life # "here"
    <3>1. InsertsKnownRow'
      BY <1>3, <2>1 DEF CreateDelivery, ledgerVars, InsertsKnownRow, TypeOK, RequestState
    <3> QED BY <1>3, <2>1, <3>1, QuietKeepsLedger DEF CreateDelivery, ledgerVars
  <2>2. CASE endpoint[e].life = "here"
    <3> DEFINE row == inserted + 1
               new == [status |-> "pending", endpoint |-> e, url |-> e,
                       verb |-> request[r].verb, doc |-> request[r].doc,
                       recovered |-> FALSE]
    <3>1. /\ inserted' = row /\ row \in Delivery /\ inserted \in Nat
          /\ ledger' = [ledger EXCEPT ![row] = new]
          /\ UNCHANGED <<job, worker, heard>>
      BY <1>3, <2>2, BoundsAssumption DEF CreateDelivery, TypeOK, Delivery
    <3>2. ledger'[row] = new /\ \A k \in Delivery \ {row} : ledger'[k] = ledger[k]
      BY <3>1 DEF TypeOK
    <3>3. \A k \in Delivery : k <= inserted => k # row /\ k <= inserted'
      BY <3>1 DEF Delivery
    <3>4. \A k \in Delivery : k > inserted' => k # row /\ k > inserted
      BY <3>1 DEF Delivery
    <3>5. \A k \in Delivery : k <= inserted' => k = row \/ k <= inserted
      BY <3>1 DEF Delivery
    <3>6. InsertsKnownRow'
      BY <1>3, <2>2, <3>1 DEF CreateDelivery, InsertsKnownRow, TypeOK, RequestState, Delivery
    <3>7. RowsInOrder'
      BY <3>1, <3>2, <3>4 DEF RowsInOrder
    <3>8. RowsAddressed'
      BY <3>2, <3>5 DEF RowsAddressed
    <3>9. AnswerHeard'
      BY <3>1, <3>3 DEF AnswerHeard, TypeOK
    <3>10. LedgerTruth'
      BY <3>1, <3>2 DEF LedgerTruth
    <3>11. \A j \in heard : j \in Delivery /\ ledger'[j] = ledger[j]
      BY <3>2, <3>3 DEF AnswerHeard, TypeOK
    <3>12. RecoveredMeansTold'
      BY <3>1, <3>2, <3>11 DEF RecoveredMeansTold
    <3> QED BY <3>6, <3>7, <3>8, <3>9, <3>10, <3>12
  <2> QED BY <2>1, <2>2
<1> QED BY <1>1, <1>2, <1>3 DEF RequestStep

\* Deleting an endpoint and pruning a row: neither makes a claim on the ledger.
LEMMA SweepKeepsLedger ==
  ASSUME LedgerInv, TypeOK',
         (\E e \in Endpoint : DeleteEndpoint(e)) \/ (\E i \in Delivery : Prune(i))
  PROVE  LedgerInv'
<1> USE DEF LedgerInv
<1>1. UNCHANGED <<request, job, worker, inserted, heard>>
  BY DEF DeleteEndpoint, Prune
<1>2. ASSUME NEW k \in Delivery
      PROVE  /\ k > inserted => ledger'[k] = ledger[k]
             /\ ledger'[k].verb = ledger[k].verb
             /\ ledger'[k].doc = ledger[k].doc
             /\ ledger'[k].url = ledger[k].url
             /\ ledger'[k].endpoint \in {None, ledger[k].endpoint}
             /\ ledger'[k].status \in {"pruned", ledger[k].status}
             /\ ledger'[k].recovered = ledger[k].recovered
  <2>1. ledger[k] \in LedgerRow
    BY DEF TypeOK
  <2>2. ASSUME NEW e \in Endpoint, DeleteEndpoint(e), ledger[k].endpoint = e
        PROVE  k <= inserted
    BY <2>2, NoneAssumption DEF RowsInOrder, Unused, TypeOK, Delivery
  <2>3. ASSUME NEW e \in Endpoint, DeleteEndpoint(e)
        PROVE  ledger'[k] = IF ledger[k].endpoint = e THEN [ledger[k] EXCEPT !.endpoint = None]
                            ELSE ledger[k]
    BY <2>3 DEF DeleteEndpoint
  <2>4. ASSUME NEW i \in Delivery, Prune(i)
        PROVE  /\ i <= inserted
               /\ ledger'[k] = IF k = i THEN [ledger[k] EXCEPT !.status = "pruned"]
                               ELSE ledger[k]
    BY <2>4 DEF Prune, Stored, RowsInOrder, Unused, TypeOK, Delivery
  <2>5. CASE \E e \in Endpoint : DeleteEndpoint(e)
    BY <2>1, <2>2, <2>3, <2>5 DEF LedgerRow, TypeOK, Delivery
  <2>6. CASE \E i \in Delivery : Prune(i)
    BY <2>1, <2>4, <2>6 DEF LedgerRow, TypeOK, Delivery
  <2> QED BY <2>5, <2>6
<1>3. LedgerFrame
  BY <1>1, <1>2 DEF LedgerFrame, TypeOK
<1>4. InsertsKnownRow' /\ RowsInOrder' /\ AnswerHeard'
  BY <1>1, <1>2 DEF InsertsKnownRow, RowsInOrder, AnswerHeard
<1>5. LedgerTruth'
  BY <1>1, <1>2 DEF LedgerTruth
<1>6. RowsAddressed' /\ RecoveredMeansTold'
  BY <1>2, <1>3, FrameKeepsRows
<1> QED BY <1>4, <1>5, <1>6

LEMMA NextLedgerInv == LedgerInv /\ [Next]_vars => LedgerInv'
<1> SUFFICES ASSUME LedgerInv, [Next]_vars
             PROVE  LedgerInv'
  OBVIOUS
<1>0. TypeOK'
  BY NextTypeOK DEF LedgerInv
<1>1. ASSUME NEW r \in Request, NEW d \in Doc, NEW verb \in Verb, Commit(r, d, verb)
      PROVE  LedgerInv'
  <2>1. InsertsKnownRow'
    BY <1>1 DEF LedgerInv, Commit, InsertsKnownRow, TypeOK, NoRequest, RequestState
  <2> QED BY <1>0, <1>1, <2>1, QuietKeepsLedger DEF Commit
<1>2. CASE Admin
  <2>1. CASE \E e \in Endpoint : DeleteEndpoint(e)
    BY <1>0, <2>1, SweepKeepsLedger
  <2>2. CASE ~\E e \in Endpoint : DeleteEndpoint(e)
    <3>1. UNCHANGED <<ledger, job, worker, inserted, heard>>
      BY <1>2, <2>2 DEF Admin, Ping, Redeliver, Register, OpenForm, SaveForm
    <3>2. InsertsKnownRow'
      BY ZenonT(60), <1>2, <2>2 DEF LedgerInv, Admin, Ping, Redeliver, Register, OpenForm, SaveForm,
                        InsertsKnownRow, TypeOK, NoRequest, RequestState
    <3> QED BY <1>0, <3>1, <3>2, QuietKeepsLedger
  <2> QED BY <2>1, <2>2
<1>3. ASSUME NEW r \in Request, CrashRequest(r) \/ RequestFails(r)
      PROVE  LedgerInv'
  <2>1. InsertsKnownRow'
    BY <1>3 DEF LedgerInv, CrashRequest, RequestFails, InsertsKnownRow, TypeOK, NoRequest,
                RequestState
  <2> QED BY <1>0, <1>3, <2>1, QuietKeepsLedger DEF CrashRequest, RequestFails
<1>4. ASSUME NEW e \in Endpoint, Age(e)
      PROVE  LedgerInv'
  BY <1>0, <1>4, QuietKeepsLedger DEF LedgerInv, Age, InsertsKnownRow
<1>5. CASE UNCHANGED vars
  BY <1>0, <1>5, QuietKeepsLedger DEF LedgerInv, vars, InsertsKnownRow
<1>6. CASE \E i \in Delivery : WorkerAction(i)
  BY <1>0, <1>6, WorkerKeepsLedger
<1>7. CASE \E i \in Delivery : Prune(i)
  BY <1>0, <1>7, SweepKeepsLedger
<1> QED BY <1>0, <1>1, <1>2, <1>3, <1>4, <1>5, <1>6, <1>7, RequestKeepsLedger
        DEF Next, Fault, WorkerAction

\* No row is ever marked delivered unless its receiver acknowledged it: for any
\* number of kills, failed calls, re-runs, edits and deletions.
THEOREM LedgerIsTrue == Spec => []LedgerTruth
<1>1. LedgerInv => LedgerTruth
  BY DEF LedgerInv
<1> QED BY <1>1, InitLedgerInv, NextLedgerInv, PTL DEF Spec

\* A lost retraction reads as recovered only if its receiver did acknowledge a
\* retraction of that document.
THEOREM RecoveredWasTold == Spec => []RecoveredMeansTold
<1>1. LedgerInv => RecoveredMeansTold
  BY DEF LedgerInv
<1> QED BY <1>1, InitLedgerInv, NextLedgerInv, PTL DEF Spec
-----------------------------------------------------------------------------
(* The health of an endpoint.                                              *)

\* An endpoint that was never registered carries no stamp: registering one
\* leaves the stamp as it is.
UnregisteredClean ==
  \A e \in Endpoint : endpoint[e].life = "unregistered" => endpoint[e].stamp = "none"

\* A worker about to count a failure against its endpoint delivers no retraction.
PenaliseSparesRetractions ==
  \A i \in Delivery : worker[i].phase = "penalise" => ~Retraction(ledger[i].verb)

HealthInv ==
  /\ LedgerInv
  /\ UnregisteredClean
  /\ PenaliseSparesRetractions

\* The steps that write an endpoint row, and what each may do to it.
LEMMA EndpointSteps ==
  ASSUME TypeOK, [Next]_vars, NEW e \in Endpoint, endpoint'[e] # endpoint[e]
  PROVE  \/ Register(e)
         \/ \E active \in BOOLEAN : SaveForm(e, active)
         \/ DeleteEndpoint(e)
         \/ Age(e)
         \/ \E i \in Delivery : /\ ledger[i].url = e
                                /\ RecordDeliverySuccess(i) \/ RecordDeliveryFailure(i)
<1>1. \/ \E f \in Endpoint : Register(f) \/ DeleteEndpoint(f) \/ Age(f)
      \/ \E f \in Endpoint, active \in BOOLEAN : SaveForm(f, active)
      \/ \E i \in Delivery : RecordDeliverySuccess(i) \/ RecordDeliveryFailure(i)
  BY DEF Next, vars, RequestStep, Step, Admin, Fault, Commit, FanOut, CreateDelivery,
         InsertJob, Report, Fetch, Rescue, Read, Post, Record, MarkRecovered, Surface,
         Finish, Ping, Redeliver, OpenForm, Prune, WorkerFault, CrashWorker, ReadFails,
         RecordFails, HealthFails, RecoveryFails, SurfaceFails, CrashRequest, RequestFails
<1>2. ASSUME NEW f \in Endpoint, Register(f) \/ DeleteEndpoint(f) \/ Age(f)
      PROVE  f = e
  BY <1>2 DEF TypeOK, Register, DeleteEndpoint, Age
<1>3. ASSUME NEW f \in Endpoint, NEW active \in BOOLEAN, SaveForm(f, active)
      PROVE  f = e
  BY <1>3 DEF TypeOK, SaveForm
<1>4. ASSUME NEW i \in Delivery, RecordDeliverySuccess(i) \/ RecordDeliveryFailure(i)
      PROVE  ledger[i].url = e
  BY <1>4 DEF TypeOK, RecordDeliverySuccess, RecordDeliveryFailure
<1> QED BY <1>1, <1>2, <1>3, <1>4

\* Only its own steps move the worker of row i.
LEMMA OtherWorkersStand ==
  ASSUME LedgerInv, [Next]_vars, NEW i \in Delivery, ~WorkerAction(i)
  PROVE  worker'[i] = worker[i]
<1>1. CASE \E k \in Delivery \ {i} : WorkerAction(k)
  BY <1>1, NextTypeOK, WorkerFrame DEF LedgerInv
<1>2. CASE ~\E k \in Delivery \ {i} : WorkerAction(k)
  BY <1>2 DEF Next, vars, WorkerAction, RequestStep, Admin, Fault, Commit, FanOut,
       CreateDelivery, InsertJob, Report, Ping, Redeliver, Register, OpenForm, SaveForm,
       DeleteEndpoint, Age, Prune, CrashRequest, RequestFails
<1> QED BY <1>1, <1>2

\* A row keeps the verb it was inserted with.
LEMMA InsertedRowsKeepVerb ==
  ASSUME LedgerInv, [Next]_vars, NEW i \in Delivery, i <= inserted
  PROVE  ledger'[i].verb = ledger[i].verb
<1>1. TypeOK /\ TypeOK' /\ ledger[i] \in LedgerRow
  BY NextTypeOK DEF LedgerInv, TypeOK
<1>2. CASE \E k \in Delivery : WorkerAction(k)
  BY <1>1, <1>2, WorkerFrame DEF LedgerFrame
<1>3. ASSUME NEW r \in Request, NEW e \in Endpoint, CreateDelivery(r, e)
      PROVE  ledger'[i].verb = ledger[i].verb
  BY <1>1, <1>3 DEF CreateDelivery, ledgerVars, TypeOK, Delivery
<1>4. ASSUME NEW e \in Endpoint, DeleteEndpoint(e)
      PROVE  ledger'[i].verb = ledger[i].verb
  BY <1>1, <1>4 DEF DeleteEndpoint, LedgerRow
<1>5. ASSUME NEW k \in Delivery, Prune(k)
      PROVE  ledger'[i].verb = ledger[i].verb
  BY <1>1, <1>5 DEF Prune, TypeOK, LedgerRow
<1>6. CASE /\ ~\E k \in Delivery : WorkerAction(k) \/ Prune(k)
           /\ ~\E r \in Request, e \in Endpoint : CreateDelivery(r, e)
           /\ ~\E e \in Endpoint : DeleteEndpoint(e)
  BY <1>6 DEF Next, vars, WorkerAction, RequestStep, Admin, Fault, Commit, FanOut, InsertJob,
       Report, Ping, Redeliver, Register, OpenForm, SaveForm, Age, CrashRequest, RequestFails
<1> QED BY <1>2, <1>3, <1>4, <1>5, <1>6

LEMMA NextHealthInv == HealthInv /\ [Next]_vars => HealthInv'
<1> SUFFICES ASSUME HealthInv, [Next]_vars
             PROVE  HealthInv'
  OBVIOUS
<1>1. LedgerInv' /\ TypeOK /\ TypeOK'
  BY NextLedgerInv DEF HealthInv, LedgerInv
<1>2. UnregisteredClean'
  <2> SUFFICES ASSUME NEW e \in Endpoint, endpoint'[e].life = "unregistered"
               PROVE  endpoint'[e].stamp = "none"
    BY DEF UnregisteredClean
  <2>1. CASE endpoint'[e] = endpoint[e]
    BY <2>1 DEF HealthInv, UnregisteredClean
  <2>2. CASE endpoint'[e] # endpoint[e]
    <3>1. endpoint[e] \in EndpointRow
      BY <1>1 DEF TypeOK
    <3>2. CASE Register(e)
      BY <1>1, <2>2, <3>1, <3>2 DEF Register, TypeOK, EndpointRow
    <3>3. ASSUME NEW active \in BOOLEAN, SaveForm(e, active)
          PROVE  endpoint'[e].life # "unregistered"
      <4>1. endpoint'[e].life = endpoint[e].life
        <5> DEFINE newActive == IF active # form[e].active THEN active ELSE endpoint[e].active
                   newFailures == IF form[e].failures # 0 THEN 0 ELSE endpoint[e].failures
                   newStamp == IF active /\ form[e].stamp # "none" THEN "none"
                               ELSE endpoint[e].stamp
                   saved == [endpoint[e] EXCEPT !.active = newActive, !.failures = newFailures,
                                                !.stamp = newStamp]
        <5>1. endpoint'[e] = saved
          BY <1>1, <2>2, <3>3 DEF SaveForm, TypeOK
        <5>2. saved.life = endpoint[e].life
          <6> HIDE DEF newActive, newFailures, newStamp
          <6> QED BY <3>1 DEF EndpointRow
        <5> QED BY <5>1, <5>2
      <4> QED BY <2>2, <3>3, <4>1 DEF SaveForm
    <3>4. CASE DeleteEndpoint(e)
      BY <1>1, <3>4 DEF DeleteEndpoint, TypeOK, NoCopy
    <3>5. CASE Age(e)
      BY <1>1, <3>1, <3>5 DEF HealthInv, UnregisteredClean, Age, TypeOK, EndpointRow
    <3>6. ASSUME NEW i \in Delivery, ledger[i].url = e, RecordDeliverySuccess(i)
          PROVE  endpoint'[e].life # "unregistered"
      BY <1>1, <2>2, <3>6, EndpointWritten DEF RecordDeliverySuccess, Healthy, TypeOK
    <3>7. ASSUME NEW i \in Delivery, ledger[i].url = e, RecordDeliveryFailure(i)
          PROVE  endpoint'[e].life # "unregistered"
      <4>1. worker[i].copy.failures + 1 \in Nat
        BY <1>1 DEF TypeOK, WorkerState, EndpointRow
      <4> QED BY <1>1, <2>2, <3>7, <4>1, EndpointWritten DEF RecordDeliveryFailure, TypeOK
    <3>8. \/ Register(e)
          \/ \E active \in BOOLEAN : SaveForm(e, active)
          \/ DeleteEndpoint(e)
          \/ Age(e)
          \/ \E i \in Delivery : /\ ledger[i].url = e
                                 /\ RecordDeliverySuccess(i) \/ RecordDeliveryFailure(i)
      BY <1>1, <2>2, EndpointSteps
    <3>9. ~\E active \in BOOLEAN : SaveForm(e, active)
      BY <3>3
    <3>10. ASSUME NEW i \in Delivery, ledger[i].url = e,
                  RecordDeliverySuccess(i) \/ RecordDeliveryFailure(i)
           PROVE  endpoint'[e].life # "unregistered"
      BY <3>6, <3>7, <3>10
    <3>11. CASE \E i \in Delivery : /\ ledger[i].url = e
                                    /\ RecordDeliverySuccess(i) \/ RecordDeliveryFailure(i)
      <4>1. PICK i \in Delivery : /\ ledger[i].url = e
                                  /\ RecordDeliverySuccess(i) \/ RecordDeliveryFailure(i)
        BY <3>11
      <4> QED BY <3>10, <4>1
    <3> QED BY <3>2, <3>4, <3>5, <3>8, <3>9, <3>11
  <2> QED BY <2>1, <2>2
<1>3. PenaliseSparesRetractions'
  <2> SUFFICES ASSUME NEW i \in Delivery, worker'[i].phase = "penalise"
               PROVE  ~Retraction(ledger'[i].verb)
    BY DEF PenaliseSparesRetractions
  <2>1. CASE WorkerAction(i)
    <3>1. ledger'[i].verb = ledger[i].verb /\ worker[i] \in WorkerState
      BY <1>1, <2>1, WorkerFrame DEF HealthInv, LedgerFrame, TypeOK
    <3>2. CASE Record(i) \/ RecordFails(i)
      <4>1. AfterRecord(i) = "penalise"
        BY <1>1, <3>1, <3>2 DEF Record, RecordFails, Goto, TypeOK, WorkerState
      <4> QED BY <3>1, <4>1 DEF AfterRecord
    <3>3. CASE ~Record(i) /\ ~RecordFails(i)
      <4>1. worker[i].phase = "penalise"
        <5>1. ~Fetch(i) /\ ~CrashWorker(i) /\ ~ReadFails(i) /\ ~Finish(i)
          <6>1. ~Fetch(i) /\ ~CrashWorker(i) /\ ~Finish(i)
            BY <1>1 DEF Fetch, CrashWorker, Finish, NoWorker, TypeOK
          <6>2. ReadFails(i) => worker'[i].phase = "finish"
            BY DEF ReadFails, NoWorker, TypeOK
          <6> QED BY <1>1, <6>1, <6>2
        <5>2. ~Read(i)
          <6>1. AfterRead(i).phase # "penalise"
            BY DEF AfterRead, NothingToDo, SettleUnsent, NoWorker
          <6> QED BY <1>1, <6>1 DEF Read, TypeOK
        <5>3. ~RecordDeliverySuccess(i) /\ ~HealthFails(i) /\ ~Surface(i) /\ ~SurfaceFails(i)
              /\ ~RecordDeliveryFailure(i)
          BY <1>1, <3>1 DEF RecordDeliverySuccess, HealthFails, Surface, SurfaceFails,
                            RecordDeliveryFailure, Goto, TypeOK, WorkerState
        <5>6. ~Recovers(i)
          BY <1>1, RecoverySteps
        <5>4. ASSUME NEW outcome \in {"ok", "refused"}
              PROVE  ~Post(i, outcome)
          BY <1>1, <3>1 DEF Post, TypeOK, WorkerState
        <5>5. Rescue(i)
          BY <2>1, <3>3, <5>1, <5>2, <5>3, <5>4, <5>6 DEF WorkerAction, Step, WorkerFault,
                                                       Recovers
        <5> QED BY <5>5 DEF Rescue
      <4> QED BY <3>1, <4>1 DEF HealthInv, PenaliseSparesRetractions
    <3> QED BY <3>2, <3>3
  <2>2. CASE ~WorkerAction(i)
    <3>1. worker'[i] = worker[i]
      BY <1>1, <2>2, OtherWorkersStand DEF HealthInv
    <3>2. i <= inserted
      BY <1>1, <2>1, <3>1 DEF HealthInv, LedgerInv, RowsInOrder, TypeOK, Delivery
    <3>3. ledger'[i].verb = ledger[i].verb
      BY <1>1, <3>2, InsertedRowsKeepVerb DEF HealthInv
    <3> QED BY <2>1, <3>1, <3>3 DEF HealthInv, PenaliseSparesRetractions
  <2> QED BY <2>1, <2>2
<1> QED BY <1>1, <1>2, <1>3 DEF HealthInv

LEMMA StampStep ==
  ASSUME HealthInv, [Next]_vars, NEW e \in Endpoint,
         ~endpoint[e].active, endpoint[e].stamp # "none",
         form'[e] = form[e], endpoint'[e].life = "here"
  PROVE  ~endpoint'[e].active /\ endpoint'[e].stamp # "none"
<1>1. TypeOK
  BY DEF HealthInv, LedgerInv
<1>2. endpoint[e] \in EndpointRow
  BY <1>1 DEF TypeOK
<1>3. CASE Register(e)
  BY <1>3 DEF HealthInv, UnregisteredClean, Register
<1>4. CASE \E active \in BOOLEAN : SaveForm(e, active)
  BY <1>1, <1>4 DEF SaveForm, TypeOK, NoCopy
<1>5. CASE DeleteEndpoint(e)
  BY <1>1, <1>5 DEF DeleteEndpoint, TypeOK, NoCopy
<1>6. CASE Age(e)
  BY <1>1, <1>2, <1>6 DEF Age, TypeOK, EndpointRow
<1>7. ASSUME NEW i \in Delivery, ledger[i].url = e, RecordDeliverySuccess(i)
      PROVE  endpoint' = endpoint
  BY <1>7 DEF RecordDeliverySuccess, Healthy
<1>8. ASSUME NEW i \in Delivery, ledger[i].url = e, RecordDeliveryFailure(i)
      PROVE  ~endpoint'[e].active /\ endpoint'[e].stamp # "none"
  <2>1. worker[i].copy.failures + 1 \in Nat
    BY <1>1 DEF TypeOK, WorkerState, EndpointRow
  <2> QED BY <1>1, <1>8, <2>1, EndpointWritten DEF RecordDeliveryFailure, TypeOK
<1>9. CASE endpoint'[e] # endpoint[e]
  <2>1. \/ Register(e)
        \/ \E active \in BOOLEAN : SaveForm(e, active)
        \/ DeleteEndpoint(e)
        \/ Age(e)
        \/ \E i \in Delivery : /\ ledger[i].url = e
                               /\ RecordDeliverySuccess(i) \/ RecordDeliveryFailure(i)
    BY <1>1, <1>9, EndpointSteps
  <2>2. CASE \E i \in Delivery : /\ ledger[i].url = e
                                 /\ RecordDeliverySuccess(i) \/ RecordDeliveryFailure(i)
    <3>1. PICK i \in Delivery : /\ ledger[i].url = e
                                /\ RecordDeliverySuccess(i) \/ RecordDeliveryFailure(i)
      BY <2>2
    <3> QED BY <1>7, <1>8, <1>9, <3>1
  <2> QED BY <1>3, <1>4, <1>5, <1>6, <2>1, <2>2
<1> QED BY <1>9

\* Delivering a retraction, at any attempt and under any interleaving, neither
\* counts against its endpoint nor switches it on or off.
LEMMA SparedStep ==
  ASSUME HealthInv, [Next]_vars, NEW i \in Delivery,
         Retraction(ledger[i].verb), worker'[i] # worker[i], NEW e \in Endpoint
  PROVE  /\ endpoint'[e].failures <= endpoint[e].failures
         /\ endpoint'[e].active = endpoint[e].active
<1>1. TypeOK
  BY DEF HealthInv, LedgerInv
<1>2. endpoint[e] \in EndpointRow
  BY <1>1 DEF TypeOK
<1>3. CASE WorkerAction(i)
  <2>1. CASE RecordDeliverySuccess(i)
    <3>1. endpoint' = endpoint \/ endpoint' = [endpoint EXCEPT ![ledger[i].url].failures = 0,
                                                              ![ledger[i].url].stamp = "none"]
      BY <2>1 DEF RecordDeliverySuccess
    <3>2. CASE e = ledger[i].url
      BY <1>1, <1>2, <3>1, <3>2 DEF TypeOK, EndpointRow
    <3>3. CASE e # ledger[i].url
      BY <1>1, <1>2, <3>1, <3>3 DEF TypeOK, EndpointRow
    <3> QED BY <3>2, <3>3
  <2>2. CASE RecordDeliveryFailure(i)
    BY <2>2 DEF HealthInv, PenaliseSparesRetractions, RecordDeliveryFailure
  <2>3. CASE ~RecordDeliverySuccess(i) /\ ~RecordDeliveryFailure(i)
    <3>1. endpoint' = endpoint
      BY <1>3, <2>3 DEF WorkerAction, Step, Fetch, Rescue, WorkerFault, CrashWorker,
           ReadFails, RecordFails, HealthFails, RecoveryFails, SurfaceFails, Read, Post, Record,
           MarkRecovered, Surface, Finish
    <3> QED BY <1>2, <3>1 DEF EndpointRow
  <2> QED BY <2>1, <2>2, <2>3
<1>4. CASE ~WorkerAction(i)
  BY <1>4, OtherWorkersStand DEF HealthInv
<1> QED BY <1>3, <1>4

LEMMA InitHealthInv == Init => HealthInv
BY InitLedgerInv DEF Init, HealthInv, UnregisteredClean, PenaliseSparesRetractions, NoCopy,
   NoWorker

\* The delivery pipeline never takes the stamp off an endpoint it switched off:
\* only an admin's save or deletion does, whatever settles meanwhile.
THEOREM StampSurvives == Spec => StampSurvivesPipeline
<1>1. HealthInv /\ [Next]_vars =>
        [\A e \in Endpoint :
           /\ ~endpoint[e].active /\ endpoint[e].stamp # "none"
           /\ form'[e] = form[e] /\ endpoint'[e].life = "here"
           => ~endpoint'[e].active /\ endpoint'[e].stamp # "none"]_vars
  BY StampStep
<1> QED BY <1>1, InitHealthInv, NextHealthInv, PTL DEF Spec, StampSurvivesPipeline

\* Delivering a retraction never counts against its endpoint's health, for any
\* interleaving of workers, edits and faults.
THEOREM RetractionsSpared == Spec => RetractionSparesHealth
<1>1. HealthInv /\ [Next]_vars =>
        [\A i \in Delivery :
           Retraction(ledger[i].verb) /\ worker'[i] # worker[i] =>
             \A e \in Endpoint : /\ endpoint'[e].failures <= endpoint[e].failures
                                /\ endpoint'[e].active = endpoint[e].active]_vars
  BY SparedStep
<1> QED BY <1>1, InitHealthInv, NextHealthInv, PTL DEF Spec, RetractionSparesHealth

-----------------------------------------------------------------------------
(* How a delivery is settled.  A worker is about as long as its job        *)
(* executes, and its phase says what it has made of the row: of every row  *)
(* that no kill and no failed call of its own has left unfinished,         *)
(* whatever befell the others.                                             *)

RowTidy(i) ==
  LET w == worker[i]
      status == ledger[i].status
  IN /\ w.phase # "idle" <=> job[i].state = "executing"
     /\ w.phase \in {"idle", "read"} /\ JobAlive(i) => status \in {"pending", "pruned"}
     /\ w.phase \in {"post", "record"} =>
          /\ status = "pending"
          /\ w.copy.life = "here" \/ ledger[i].endpoint = None
     /\ w.phase = "record" =>
          /\ w.outcome # "none"
          /\ w.outcome = "unsent" \/ SpentJob(i) => w.final
     /\ w.phase \in {"reset", "recover"} => status = "succeeded" /\ w.outcome = "ok"
     /\ w.phase \in {"surface", "penalise"} =>
          status = "failed" /\ w.outcome \in {"refused", "unsent"} /\ w.final
     /\ w.phase = "finish" =>
          \/ w.outcome # "refused" /\ status # "pending"
          \/ w.outcome = "refused" /\ w.final /\ status = "failed"
          \/ w.outcome = "refused" /\ ~w.final /\ ~SpentJob(i) /\ status \in {"pending", "pruned"}

\* LostRetractionAnnounced and PendingHasJob, for one row.
RowTold(i) ==
  ledger[i].status = "failed" /\ Retraction(ledger[i].verb) /\ ledger[i].endpoint # None =>
    notice[i] # "none" \/ worker[i].phase = "surface"

Awaited(i) == \E r \in Request : request[r].phase = "insert" /\ request[r].row = i

RowAwaited(i) == ledger[i].status = "pending" => JobAlive(i) \/ Awaited(i)

\* A row names an endpoint only as long as that is there.
EndpointsStand ==
  \A i \in Delivery :
    ledger[i].endpoint # None => endpoint[ledger[i].endpoint].life = "here"

\* A row whose job is still to be inserted waits for one request.
InsertsWait ==
  /\ \A r \in Request :
       request[r].phase = "insert" =>
         job[request[r].row].state = "none" /\ ledger[request[r].row].status = "pending"
  /\ \A r, s \in Request :
       request[r].phase = "insert" /\ request[s].phase = "insert"
         /\ request[r].row = request[s].row => r = s

\* A worker works for a job that executes, killed and rescued or not.
WorkersEmployed ==
  \A i \in Delivery : worker[i].phase # "idle" => job[i].state = "executing"

Settling ==
  /\ EndpointsStand
  /\ InsertsWait
  /\ WorkersEmployed
  /\ \A i \in Delivery \ lapsed : RowTidy(i) /\ RowTold(i) /\ RowAwaited(i)

SettleInv == LedgerInv /\ Settling

LEMMA InitSettleInv == Init => SettleInv
<1> SUFFICES ASSUME Init PROVE Settling
  BY InitLedgerInv DEF SettleInv
<1>1. ASSUME NEW i \in Delivery
      PROVE  /\ ledger[i].status = "unused" /\ ledger[i].endpoint = None
             /\ job[i].state = "none" /\ worker[i].phase = "idle"
  BY DEF Init, Unused, NoJob, NoWorker
<1>2. \A r \in Request : request[r].phase = "idle"
  BY DEF Init, NoRequest
<1>3. ASSUME NEW i \in Delivery
      PROVE  RowTidy(i) /\ RowTold(i) /\ RowAwaited(i)
  BY <1>1 DEF RowTidy, RowTold, RowAwaited, JobAlive
<1> QED BY <1>1, <1>2, <1>3 DEF EndpointsStand, InsertsWait, WorkersEmployed, Settling

\* The row a request is about to insert the job of.
LEMMA InsertRows ==
  ASSUME LedgerInv, Settling, NEW r \in Request, request[r].phase = "insert"
  PROVE  /\ request[r].row \in Delivery /\ request[r].row <= inserted
         /\ job[request[r].row].state = "none"
         /\ ledger[request[r].row].status = "pending"
<1>1. inserted \in 0..MaxDelivery /\ MaxDelivery \in Nat /\ request[r].row \in 1..inserted
  BY BoundsAssumption DEF LedgerInv, TypeOK, InsertsKnownRow
<1> QED BY <1>1 DEF Delivery, Settling, InsertsWait

\* A row whose job, worker, notice and outcome a step leaves alone.
LEMMA RowStands ==
  ASSUME NEW i \in Delivery, RowTidy(i), RowTold(i),
         job'[i] = job[i], worker'[i] = worker[i], notice'[i] = notice[i],
         ledger'[i].status = ledger[i].status, ledger'[i].verb = ledger[i].verb,
         ledger'[i].endpoint \in {None, ledger[i].endpoint}
  PROVE  RowTidy(i)' /\ RowTold(i)'
BY DEF RowTidy, RowTold, JobAlive, SpentJob, Retraction

\* A step of the worker of row i leaves only that row unfinished, and works on
\* for a job that executes.
LEMMA WorkerLapses ==
  ASSUME LedgerInv, Settling, NEW i \in Delivery, WorkerAction(i)
  PROVE  /\ lapsed \subseteq lapsed' /\ lapsed' \subseteq lapsed \cup {i}
         /\ job[i].state # "none"
         /\ worker'[i].phase # "idle" => job'[i].state = "executing"
<1>1. /\ worker \in [Delivery -> WorkerState] /\ job \in [Delivery -> JobRow]
      /\ worker[i].phase # "idle" => job[i].state = "executing"
  BY DEF LedgerInv, TypeOK, Settling, WorkersEmployed
<1>2. lapsed \subseteq lapsed' /\ lapsed' \subseteq lapsed \cup {i}
  BY DEF WorkerAction, Fetch, Step, Rescue, WorkerFault, CrashWorker, ReadFails, RecordFails,
         HealthFails, RecoveryFails, SurfaceFails, Read, Post, Record, RecordDeliverySuccess,
         MarkRecovered, Surface, RecordDeliveryFailure, Finish
<1>3. CASE Fetch(i)
  BY <1>1, <1>2, <1>3 DEF Fetch, JobRow
<1>4. CASE Rescue(i)
  BY <1>2, <1>4 DEF Rescue
<1>5. CASE Finish(i)
  BY <1>1, <1>2, <1>5 DEF Finish, NoWorker
<1>6. CASE (Step(i) /\ ~Finish(i)) \/ WorkerFault(i)
  <2>1. worker[i].phase # "idle" /\ job' = job
    BY <1>6 DEF Step, WorkerFault, CrashWorker, ReadFails, RecordFails, HealthFails,
                RecoveryFails, SurfaceFails, Read, Post, Record, RecordDeliverySuccess,
                MarkRecovered, Surface, RecordDeliveryFailure
  <2> QED BY <1>1, <1>2, <2>1
<1> QED BY <1>3, <1>4, <1>5, <1>6 DEF WorkerAction

\* The steps of the worker of row i, and of Oban on its job, that leave the row
\* no unfinished one.
LEMMA WorkerSettles ==
  ASSUME LedgerInv, Settling, NEW i \in Delivery \ lapsed', WorkerAction(i)
  PROVE  /\ RowTidy(i)' /\ RowTold(i)'
         /\ JobAlive(i) /\ (ledger'[i].status = "pending" => JobAlive(i)')
         /\ ledger[i].status \in {"succeeded", "failed"} =>
              ledger'[i].status = ledger[i].status
<1>1. /\ worker[i] \in WorkerState /\ job[i] \in JobRow /\ ledger[i] \in LedgerRow
      /\ worker \in [Delivery -> WorkerState] /\ job \in [Delivery -> JobRow]
      /\ ledger \in [Delivery -> LedgerRow]
  BY DEF LedgerInv, TypeOK
<1>2. RowTidy(i) /\ RowTold(i) /\ EndpointsStand /\ i \notin lapsed
  BY WorkerLapses DEF Settling
<1>3. CASE Fetch(i)
  <2>1. /\ job'[i].state = "executing" /\ job[i].state \in {"available", "retryable"}
        /\ ledger' = ledger /\ notice' = notice
    BY <1>1, <1>3 DEF Fetch, JobRow
  <2>2. worker'[i].phase = "read"
    BY <1>1, <1>3 DEF Fetch, NoWorker
  <2>3. worker[i].phase = "idle" /\ ledger[i].status \in {"pending", "pruned"}
    BY <1>1, <1>2, <2>1 DEF RowTidy, JobAlive, WorkerState
  <2> QED BY <2>1, <2>2, <2>3 DEF RowTidy, RowTold, JobAlive
<1>4. CASE Rescue(i)
  BY <1>2, <1>4 DEF Rescue, RowTidy
<1>5. ASSUME Step(i)
      PROVE  job[i].state = "executing"
  BY <1>2, <1>5 DEF RowTidy, Step, Read, Post, Record, RecordDeliverySuccess, MarkRecovered,
                    Surface, RecordDeliveryFailure, Finish
<1>6. CASE Read(i)
  <2>1. /\ worker[i].phase = "read" /\ worker'[i] = AfterRead(i)
        /\ ledger' = ledger /\ job' = job /\ notice' = notice
        /\ job[i].state = "executing"
    BY <1>1, <1>5, <1>6 DEF Read, Step
  <2>2. ledger[i].status \in {"pending", "pruned"}
    BY <1>2, <2>1 DEF RowTidy, JobAlive
  <2>3. RowTold(i)'
    BY <1>2, <2>1, <2>2 DEF RowTold
  <2>4. CASE ~Stored(i)
    <3>1. worker'[i].phase = "finish" /\ worker'[i].outcome = "unsent"
      BY <2>1, <2>4 DEF AfterRead, NothingToDo, NoWorker
    <3> QED BY <2>1, <2>2, <2>3, <2>4, <3>1 DEF RowTidy, JobAlive, Stored
  <2>5. CASE Stored(i)
    <3>1. ledger[i].status = "pending"
      BY <2>2, <2>5 DEF Stored
    <3>2. ledger[i].endpoint # None => endpoint[ledger[i].endpoint].life = "here"
      BY <1>2 DEF EndpointsStand
    <3>3. \/ /\ worker'[i].phase = "record" /\ worker'[i].outcome = "unsent" /\ worker'[i].final
             /\ worker'[i].copy.life = "here" \/ ledger[i].endpoint = None
          \/ /\ worker'[i].phase = "post"
             /\ worker'[i].copy.life = "here"
      BY <2>1, <2>5, <3>2 DEF AfterRead, SettleUnsent, NoWorker
    <3> QED BY <2>1, <2>2, <2>3, <3>1, <3>3 DEF RowTidy, JobAlive
  <2> QED BY <2>4, <2>5
<1>7. ASSUME NEW outcome \in {"ok", "refused"}, Post(i, outcome)
      PROVE  /\ RowTidy(i)' /\ RowTold(i)'
             /\ JobAlive(i) /\ (ledger'[i].status = "pending" => JobAlive(i)')
             /\ ledger[i].status \in {"succeeded", "failed"} =>
                  ledger'[i].status = ledger[i].status
  <2>1. /\ worker[i].phase = "post" /\ worker'[i].phase = "record"
        /\ worker'[i].outcome = outcome /\ worker'[i].final = FinalAttempt(i)
        /\ worker'[i].copy = worker[i].copy
        /\ ledger' = ledger /\ job' = job /\ notice' = notice
    BY <1>1, <1>7 DEF Post, WorkerState
  <2>2. SpentJob(i) => FinalAttempt(i)
    BY DEF SpentJob, FinalAttempt
  <2> QED BY <1>2, <2>1, <2>2 DEF RowTidy, RowTold, JobAlive, SpentJob
<1>8. CASE Record(i)
  <2>1. /\ worker[i].phase = "record" /\ worker'[i].phase = AfterRecord(i)
        /\ worker'[i].outcome = worker[i].outcome /\ worker'[i].final = worker[i].final
        /\ ledger'[i].status = StatusAfter(worker[i]) /\ ledger'[i].verb = ledger[i].verb
        /\ ledger'[i].endpoint = ledger[i].endpoint
        /\ job' = job /\ notice' = notice
    BY <1>1, <1>8 DEF Record, Goto, WorkerState, LedgerRow
  <2>2. /\ ledger[i].status = "pending" /\ job[i].state = "executing"
        /\ worker[i].copy.life = "here" \/ ledger[i].endpoint = None
        /\ worker[i].outcome \in {"ok", "refused", "unsent"}
        /\ worker[i].outcome = "unsent" \/ SpentJob(i) => worker[i].final
        /\ worker[i].final \in BOOLEAN
    BY <1>1, <1>2, <2>1 DEF RowTidy, WorkerState
  <2>3. CASE worker[i].outcome = "ok"
    <3>1. ledger'[i].status = "succeeded" /\ worker'[i].phase = "reset"
      BY <2>1, <2>3 DEF StatusAfter, AfterRecord
    <3> QED BY <2>1, <2>2, <2>3, <3>1 DEF RowTidy, RowTold, JobAlive
  <2>4. CASE worker[i].outcome # "ok" /\ worker[i].final
    <3>1. /\ ledger'[i].status = "failed"
          /\ worker'[i].phase \in {"surface", "penalise", "finish"}
          /\ Retraction(ledger[i].verb) =>
               worker'[i].phase = "surface" \/ worker[i].copy.life # "here"
      BY <2>1, <2>4 DEF StatusAfter, AfterRecord
    <3> QED BY <2>1, <2>2, <2>4, <3>1 DEF RowTidy, RowTold, JobAlive
  <2>5. CASE worker[i].outcome # "ok" /\ ~worker[i].final
    <3>1. ledger'[i].status = "pending" /\ worker'[i].phase = "finish"
      BY <2>1, <2>5 DEF StatusAfter, AfterRecord
    <3>2. worker[i].outcome = "refused" /\ ~SpentJob(i)
      BY <2>2, <2>5
    <3> QED BY <2>1, <2>2, <2>5, <3>1, <3>2 DEF RowTidy, RowTold, JobAlive, SpentJob
  <2> QED BY <2>2, <2>3, <2>4, <2>5
<1>9. CASE RecordDeliverySuccess(i)
  <2>1. /\ worker[i].phase = "reset" /\ worker'[i].phase = "recover"
        /\ worker'[i].outcome = worker[i].outcome
        /\ ledger' = ledger /\ job' = job /\ notice' = notice
    BY <1>1, <1>9 DEF RecordDeliverySuccess, Goto, WorkerState
  <2> QED BY <1>2, <2>1 DEF RowTidy, RowTold, JobAlive
<1>10. CASE MarkRecovered(i)
  <2>1. /\ worker[i].phase = "recover" /\ worker'[i].phase = "finish"
        /\ worker'[i].outcome = worker[i].outcome
        /\ ledger'[i].status = ledger[i].status
        /\ job' = job /\ notice' = notice
    BY <1>1, <1>10 DEF MarkRecovered, Goto, WorkerState, LedgerRow
  <2> QED BY <1>2, <2>1 DEF RowTidy, RowTold, JobAlive
<1>11. CASE Surface(i)
  <2>1. /\ worker[i].phase = "surface" /\ worker'[i].phase = "finish"
        /\ worker'[i].outcome = worker[i].outcome /\ worker'[i].final = worker[i].final
        /\ ledger' = ledger /\ job' = job /\ notice'[i] # "none"
    BY <1>1, <1>11 DEF Surface, Goto, WorkerState, LedgerInv, TypeOK
  <2> QED BY <1>2, <2>1 DEF RowTidy, RowTold, JobAlive
<1>12. CASE RecordDeliveryFailure(i)
  <2>1. /\ worker[i].phase = "penalise" /\ worker'[i].phase = "finish"
        /\ worker'[i].outcome = worker[i].outcome /\ worker'[i].final = worker[i].final
        /\ ledger' = ledger /\ job' = job /\ notice' = notice
    BY <1>1, <1>12 DEF RecordDeliveryFailure, Goto, WorkerState
  <2> QED BY <1>2, <2>1 DEF RowTidy, RowTold, JobAlive
<1>13. CASE Finish(i)
  <2>1. /\ worker[i].phase = "finish" /\ worker'[i].phase = "idle"
        /\ job'[i].state = JobAfter(i)
        /\ ledger' = ledger /\ notice' = notice
    BY <1>1, <1>13 DEF Finish, NoWorker, JobRow
  <2>2. /\ job[i].state = "executing"
        /\ \/ worker[i].outcome # "refused" /\ ledger[i].status # "pending"
           \/ worker[i].outcome = "refused" /\ worker[i].final /\ ledger[i].status = "failed"
           \/ /\ worker[i].outcome = "refused" /\ ~worker[i].final /\ ~SpentJob(i)
              /\ ledger[i].status \in {"pending", "pruned"}
    BY <1>2, <2>1 DEF RowTidy
  <2>3. \/ job'[i].state \in {"completed", "discarded", "cancelled"} /\ ledger[i].status # "pending"
        \/ job'[i].state = "retryable" /\ ledger[i].status \in {"pending", "pruned"}
    BY <2>1, <2>2 DEF JobAfter
  <2> QED BY <1>2, <2>1, <2>2, <2>3 DEF RowTidy, RowTold, JobAlive
<1>14. CASE WorkerFault(i)
  <2>1. ~CrashWorker(i) /\ ~SurfaceFails(i)
    BY DEF CrashWorker, SurfaceFails
  <2>2. CASE ReadFails(i)
    <3>1. /\ worker[i].phase = "read" /\ worker'[i].phase = "finish"
          /\ worker'[i].outcome = "refused" /\ ~worker'[i].final
          /\ ledger' = ledger /\ job' = job /\ notice' = notice
      BY <1>1, <2>2 DEF ReadFails, NoWorker
    <3>2. ~SpentJob(i)
      BY <2>2 DEF ReadFails
    <3>3. job[i].state = "executing" /\ ledger[i].status \in {"pending", "pruned"}
      BY <1>2, <3>1 DEF RowTidy, JobAlive
    <3> QED BY <1>2, <3>1, <3>2, <3>3 DEF RowTidy, RowTold, JobAlive, SpentJob
  <2>3. CASE RecordFails(i)
    <3>1. /\ worker[i].phase = "record" /\ worker'[i].phase = AfterRecord(i)
          /\ worker'[i].outcome = worker[i].outcome /\ worker'[i].final = worker[i].final
          /\ ledger' = ledger /\ job' = job /\ notice' = notice
      BY <1>1, <2>3 DEF RecordFails, Goto, WorkerState
    <3>2. StatusAfter(worker[i]) = "pending"
      BY <2>3 DEF RecordFails
    <3>3. /\ ledger[i].status = "pending" /\ job[i].state = "executing"
          /\ worker[i].outcome \in {"ok", "refused", "unsent"}
          /\ worker[i].outcome = "unsent" \/ SpentJob(i) => worker[i].final
          /\ worker[i].final \in BOOLEAN
      BY <1>1, <1>2, <3>1 DEF RowTidy, WorkerState
    <3>4. /\ worker[i].outcome = "refused" /\ ~worker[i].final /\ ~SpentJob(i)
          /\ AfterRecord(i) = "finish"
      BY <3>2, <3>3 DEF StatusAfter, AfterRecord
    <3> QED BY <1>2, <3>1, <3>3, <3>4 DEF RowTidy, RowTold, JobAlive, SpentJob
  <2>4. CASE HealthFails(i)
    <3>1. /\ worker[i].phase \in {"reset", "penalise"}
          /\ worker'[i].phase = IF worker[i].phase = "reset" THEN "recover" ELSE "finish"
          /\ worker'[i].outcome = worker[i].outcome /\ worker'[i].final = worker[i].final
          /\ ledger' = ledger /\ job' = job /\ notice' = notice
      BY <1>1, <2>4 DEF HealthFails, Goto, WorkerState
    <3> QED BY <1>2, <3>1 DEF RowTidy, RowTold, JobAlive
  <2>5. CASE \E done \in SUBSET Delivery : RecoveryFails(i, done)
    <3>1. Recovers(i) /\ TypeOK
      BY <2>5 DEF Recovers, LedgerInv
    <3>2. /\ worker[i].phase = "recover" /\ worker'[i].phase = "finish"
          /\ worker'[i].outcome = worker[i].outcome
          /\ job' = job /\ notice' = notice
      BY <3>1, RecoverySteps
    <3>3. /\ ledger'[i].status = ledger[i].status /\ ledger'[i].verb = ledger[i].verb
          /\ ledger'[i].endpoint = ledger[i].endpoint
      BY <1>1, <3>1, RecoverySteps DEF LedgerRow
    <3> QED BY <1>2, <3>2, <3>3 DEF RowTidy, RowTold, JobAlive
  <2> QED BY <1>14, <2>1, <2>2, <2>3, <2>4, <2>5 DEF WorkerFault
<1> QED BY <1>3, <1>4, <1>6, <1>7, <1>8, <1>9, <1>10, <1>11, <1>12, <1>13, <1>14
        DEF Step, WorkerAction

LEMMA WorkerKeepsSettling ==
  ASSUME LedgerInv, TypeOK', Settling, NEW i \in Delivery, WorkerAction(i)
  PROVE  Settling'
<1>1. /\ request' = request
      /\ LedgerFrame
      /\ \A k \in Delivery \ {i} : job'[k] = job[k] /\ worker'[k] = worker[k]
  BY WorkerFrame
<1>0. /\ lapsed \subseteq lapsed'
      /\ job[i].state # "none"
      /\ worker'[i].phase # "idle" => job'[i].state = "executing"
  BY WorkerLapses
<1>2. \A k \in Delivery \ {i} :
        ledger'[k].status = ledger[k].status /\ notice'[k] = notice[k]
  <2>1. ASSUME NEW k \in Delivery, k # i
        PROVE  ledger'[k].status = ledger[k].status
    <3>1. ledger[k] \in LedgerRow
      BY DEF LedgerInv, TypeOK
    <3>2. CASE Record(i)
      BY <2>1, <3>2 DEF Record, LedgerInv, TypeOK
    <3>3. CASE Recovers(i)
      BY <3>1, <3>3, RecoverySteps DEF LedgerRow, LedgerInv
    <3>4. CASE ~Record(i) /\ ~Recovers(i)
      BY <3>4, OtherStepsKeepLedger
    <3> QED BY <3>2, <3>3, <3>4
  <2>2. ASSUME NEW k \in Delivery, k # i
        PROVE  notice'[k] = notice[k]
    BY <2>2 DEF LedgerInv, TypeOK, WorkerAction, Fetch, Rescue, Step, WorkerFault, CrashWorker,
                ReadFails, RecordFails, HealthFails, RecoveryFails, SurfaceFails, Read, Post,
                Record, RecordDeliverySuccess, MarkRecovered, Surface, RecordDeliveryFailure,
                Finish
  <2> QED BY <2>1, <2>2
<1>3. \A e \in Endpoint : endpoint[e].life = "here" => endpoint'[e].life = "here"
  <2> SUFFICES ASSUME NEW e \in Endpoint PROVE endpoint'[e].life = endpoint[e].life
    OBVIOUS
  <2>1. endpoint \in [Endpoint -> EndpointRow]
    BY DEF LedgerInv, TypeOK
  <2>2. CASE RecordDeliverySuccess(i)
    BY <2>1, <2>2 DEF RecordDeliverySuccess, EndpointRow
  <2>3. CASE RecordDeliveryFailure(i)
    BY <2>1, <2>3 DEF RecordDeliveryFailure, EndpointRow
  <2>4. CASE ~RecordDeliverySuccess(i) /\ ~RecordDeliveryFailure(i)
    BY <2>4 DEF WorkerAction, Fetch, Rescue, Step, WorkerFault, CrashWorker, ReadFails,
                RecordFails, HealthFails, RecoveryFails, SurfaceFails, Read, Post, Record,
                MarkRecovered, Surface, Finish
  <2> QED BY <2>2, <2>3, <2>4
<1>4. i \notin lapsed' =>
        /\ RowTidy(i)' /\ RowTold(i)'
        /\ ledger'[i].status = "pending" => JobAlive(i)'
  BY WorkerSettles
<1>5. EndpointsStand'
  BY <1>1, <1>3 DEF Settling, EndpointsStand, LedgerFrame, LedgerInv, TypeOK, LedgerRow
<1>6. InsertsWait'
  <2>1. ASSUME NEW r \in Request, request[r].phase = "insert"
        PROVE  /\ job'[request[r].row].state = "none"
               /\ ledger'[request[r].row].status = "pending"
    <3>1. /\ request[r].row \in Delivery
          /\ job[request[r].row].state = "none" /\ ledger[request[r].row].status = "pending"
      BY <2>1, InsertRows
    <3>2. request[r].row # i
      BY <1>0, <3>1
    <3> QED BY <1>1, <1>2, <3>1, <3>2
  <2> QED BY <1>1, <2>1 DEF Settling, InsertsWait
<1>8. WorkersEmployed'
  BY <1>0, <1>1 DEF Settling, WorkersEmployed
<1>7. ASSUME NEW k \in Delivery \ lapsed'
      PROVE  RowTidy(k)' /\ RowTold(k)' /\ RowAwaited(k)'
  <2>1. CASE k = i
    BY <1>4, <2>1 DEF RowAwaited
  <2>2. CASE k # i
    <3>0. k \notin lapsed
      BY <1>0
    <3>1. RowTidy(k)' /\ RowTold(k)'
      BY <1>1, <1>2, <2>2, <3>0, RowStands DEF Settling, LedgerFrame
    <3>2. RowAwaited(k)'
      BY <1>1, <1>2, <2>2, <3>0 DEF Settling, RowAwaited, Awaited, JobAlive
    <3> QED BY <3>1, <3>2
  <2> QED BY <2>1, <2>2
<1> QED BY <1>5, <1>6, <1>7, <1>8 DEF Settling

\* A step that writes no row, no job and no worker, starts no insert, and ends one
\* only by leaving its row unfinished.
LEMMA QuietKeepsSettling ==
  ASSUME Settling, TypeOK, UNCHANGED <<ledger, job, worker, notice>>, lapsed \subseteq lapsed',
         \A r \in Request :
           \/ request'[r] = request[r]
           \/ /\ request'[r].phase # "insert"
              /\ request[r].phase = "insert" => request[r].row \in {0} \cup lapsed',
         \A e \in Endpoint : endpoint[e].life = "here" => endpoint'[e].life = "here"
  PROVE  Settling'
<1>1. EndpointsStand' /\ WorkersEmployed'
  BY DEF Settling, EndpointsStand, WorkersEmployed, TypeOK, LedgerRow
<1>2. InsertsWait'
  BY DEF Settling, InsertsWait
<1>3. ASSUME NEW k \in Delivery \ lapsed'
      PROVE  RowTidy(k)' /\ RowTold(k)' /\ RowAwaited(k)'
  <2>1. RowTidy(k)' /\ RowTold(k)'
    BY RowStands DEF Settling
  <2>2. Awaited(k) => Awaited(k)'
    BY BoundsAssumption DEF Awaited, Delivery
  <2>3. RowAwaited(k)'
    BY <2>2 DEF Settling, RowAwaited, JobAlive
  <2> QED BY <2>1, <2>3
<1> QED BY <1>1, <1>2, <1>3 DEF Settling

\* A row is written, and its request goes on to insert the job.
LEMMA CreateKeepsSettling ==
  ASSUME LedgerInv, Settling, NEW r \in Request, NEW e \in Endpoint, CreateDelivery(r, e)
  PROVE  Settling'
<1> DEFINE row == inserted + 1
<1>1. /\ request \in [Request -> RequestState] /\ ledger \in [Delivery -> LedgerRow]
      /\ inserted \in Nat
  BY BoundsAssumption DEF LedgerInv, TypeOK
<1>2. CASE endpoint[e].life # "here"
  <2>1. \A s \in Request : \/ request'[s] = request[s]
                           \/ request[s].phase # "insert" /\ request'[s].phase # "insert"
    <3>1. /\ request[r].phase = "enqueue"
          /\ request' = [request EXCEPT ![r].phase = "raised"]
      BY <1>2 DEF CreateDelivery
    <3>2. request[r].phase # "insert" /\ request'[r].phase # "insert"
      BY <1>1, <3>1 DEF RequestState
    <3>3. \A s \in Request \ {r} : request'[s] = request[s]
      BY <1>1, <3>1
    <3> QED BY <3>2, <3>3
  <2> QED BY <1>2, <2>1, QuietKeepsSettling DEF CreateDelivery, ledgerVars, LedgerInv
<1>3. CASE endpoint[e].life = "here"
  <2>1. /\ row \in Delivery /\ row > inserted
        /\ request[r].phase = "enqueue"
        /\ request'[r].phase = "insert" /\ request'[r].row = row
        /\ \A s \in Request \ {r} : request'[s] = request[s]
        /\ UNCHANGED <<endpoint, job, worker, notice, lapsed>>
    BY <1>1, <1>3, BoundsAssumption DEF CreateDelivery, RequestState, Delivery, LedgerInv, TypeOK
  <2>2. /\ ledger'[row].status = "pending" /\ ledger'[row].endpoint = e
        /\ \A k \in Delivery \ {row} : ledger'[k] = ledger[k]
    BY <1>1, <1>3, <2>1 DEF CreateDelivery
  <2>3. job[row].state = "none" /\ worker[row].phase = "idle"
    BY <2>1 DEF LedgerInv, RowsInOrder
  <2>4. \A s \in Request : request[s].phase = "insert" =>
          request[s].row # row /\ request[s].row \in Delivery
    BY <1>1, <2>1, InsertRows DEF Delivery
  <2> HIDE DEF row
  <2>5. EndpointsStand'
    BY <1>3, <2>1, <2>2 DEF Settling, EndpointsStand
  <2>6. InsertsWait'
    <3>1. ASSUME NEW s \in Request, request'[s].phase = "insert"
          PROVE  /\ job'[request'[s].row].state = "none"
                 /\ ledger'[request'[s].row].status = "pending"
                 /\ request'[s].row = row => s = r
      <4>1. CASE s = r
        BY <2>1, <2>2, <2>3, <4>1
      <4>2. CASE s # r
        BY <2>1, <2>2, <2>4, <3>1, <4>2 DEF Settling, InsertsWait
      <4> QED BY <4>1, <4>2
    <3>2. ASSUME NEW s \in Request, NEW t \in Request,
                 request'[s].phase = "insert", request'[t].phase = "insert",
                 request'[s].row = request'[t].row
          PROVE  s = t
      <4>1. CASE s = r \/ t = r
        BY <2>1, <3>1, <3>2, <4>1
      <4>2. CASE s # r /\ t # r
        BY <2>1, <3>2, <4>2 DEF Settling, InsertsWait
      <4> QED BY <4>1, <4>2
    <3> QED BY <3>1, <3>2 DEF InsertsWait
  <2>7. ASSUME NEW k \in Delivery \ lapsed
        PROVE  RowTidy(k)' /\ RowTold(k)' /\ RowAwaited(k)'
    <3>1. CASE k = row
      <4>1. RowTidy(k)' /\ RowTold(k)'
        BY <2>1, <2>2, <2>3, <3>1 DEF RowTidy, RowTold, JobAlive
      <4>2. Awaited(k)'
        BY <2>1, <3>1 DEF Awaited
      <4> QED BY <4>1, <4>2 DEF RowAwaited
    <3>2. CASE k # row
      <4>1. RowTidy(k)' /\ RowTold(k)'
        BY <2>1, <2>2, <3>2, RowStands DEF Settling
      <4>2. Awaited(k) => Awaited(k)'
        BY <2>1 DEF Awaited
      <4> QED BY <2>1, <2>2, <3>2, <4>1, <4>2 DEF Settling, RowAwaited, JobAlive
    <3> QED BY <3>1, <3>2
  <2>8. WorkersEmployed'
    BY <2>1 DEF Settling, WorkersEmployed
  <2> QED BY <2>1, <2>5, <2>6, <2>7, <2>8 DEF Settling
<1> QED BY <1>2, <1>3

\* The job of a row is inserted, and its request waits for it no more.
LEMMA InsertKeepsSettling ==
  ASSUME LedgerInv, Settling, NEW r \in Request, InsertJob(r)
  PROVE  Settling'
<1> DEFINE row == request[r].row
<1>1. /\ request[r].phase = "insert" /\ row \in Delivery
      /\ job[row].state = "none" /\ ledger[row].status = "pending"
      /\ request \in [Request -> RequestState] /\ job \in [Delivery -> JobRow]
      /\ UNCHANGED <<endpoint, ledger, worker, notice, lapsed>>
  <2>1. request[r].phase = "insert"
    BY DEF InsertJob
  <2>2. /\ row \in Delivery /\ job[row].state = "none" /\ ledger[row].status = "pending"
    BY <2>1, InsertRows
  <2> QED BY <2>1, <2>2 DEF InsertJob, LedgerInv, TypeOK
<1>2. /\ request'[r].phase # "insert"
      /\ \A s \in Request \ {r} : request'[s] = request[s]
      /\ job'[row].state = "available"
      /\ \A k \in Delivery \ {row} : job'[k] = job[k]
  BY <1>1 DEF InsertJob, NoRequest, RequestState, NewJob
<1>3. \A s \in Request \ {r} : request[s].phase = "insert" =>
        request[s].row # row /\ request[s].row \in Delivery
  <2> SUFFICES ASSUME NEW s \in Request \ {r}, request[s].phase = "insert"
               PROVE  request[s].row # row /\ request[s].row \in Delivery
    OBVIOUS
  <2>1. request[s].row \in Delivery
    BY InsertRows
  <2>2. request[s].row # row
    BY <1>1 DEF Settling, InsertsWait
  <2> QED BY <2>1, <2>2
<1> HIDE DEF row
<1>4. EndpointsStand'
  BY <1>1 DEF Settling, EndpointsStand
<1>5. InsertsWait'
  <2>1. ASSUME NEW s \in Request, request'[s].phase = "insert"
        PROVE  /\ s # r /\ request'[s] = request[s]
               /\ job'[request'[s].row].state = "none"
               /\ ledger'[request'[s].row].status = "pending"
    <3>1. s # r /\ request'[s] = request[s]
      BY <1>2, <2>1
    <3> QED BY <1>1, <1>2, <1>3, <2>1, <3>1 DEF Settling, InsertsWait
  <2> QED BY <2>1 DEF Settling, InsertsWait
<1>6. ASSUME NEW k \in Delivery \ lapsed
      PROVE  RowTidy(k)' /\ RowTold(k)' /\ RowAwaited(k)'
  <2>1. CASE k = row
    <3>1. worker[k].phase = "idle" /\ RowTold(k)
      BY <1>1, <2>1 DEF Settling, RowTidy
    <3> QED BY <1>1, <1>2, <2>1, <3>1 DEF RowTidy, RowTold, RowAwaited, JobAlive
  <2>2. CASE k # row
    <3>1. RowTidy(k)' /\ RowTold(k)'
      BY <1>1, <1>2, <2>2, RowStands DEF Settling
    <3>2. Awaited(k) => Awaited(k)'
      BY <1>2, <2>2 DEF Awaited, row
    <3> QED BY <1>1, <1>2, <2>2, <3>1, <3>2 DEF Settling, RowAwaited, JobAlive
  <2> QED BY <2>1, <2>2
<1>7. WorkersEmployed'
  BY <1>1, <1>2 DEF Settling, WorkersEmployed
<1> QED BY <1>1, <1>4, <1>5, <1>6, <1>7 DEF Settling

LEMMA SweepKeepsSettling ==
  ASSUME LedgerInv, Settling,
         (\E e \in Endpoint : DeleteEndpoint(e)) \/ (\E i \in Delivery : Prune(i))
  PROVE  Settling'
<1>1. /\ ledger \in [Delivery -> LedgerRow] /\ endpoint \in [Endpoint -> EndpointRow]
      /\ UNCHANGED <<request, job, worker, notice, lapsed>>
  BY DEF LedgerInv, TypeOK, DeleteEndpoint, Prune
<1>4. WorkersEmployed'
  BY <1>1 DEF Settling, WorkersEmployed
<1>2. ASSUME NEW e \in Endpoint, DeleteEndpoint(e)
      PROVE  Settling'
  <2>1. \A k \in Delivery : /\ ledger'[k].status = ledger[k].status
                            /\ ledger'[k].verb = ledger[k].verb
                            /\ ledger'[k].endpoint = IF ledger[k].endpoint = e THEN None
                                                     ELSE ledger[k].endpoint
    BY <1>1, <1>2 DEF DeleteEndpoint, LedgerRow
  <2>2. \A f \in Endpoint \ {e} : endpoint'[f] = endpoint[f]
    BY <1>1, <1>2 DEF DeleteEndpoint
  <2>3. EndpointsStand'
    BY <1>1, <2>1, <2>2 DEF Settling, EndpointsStand, LedgerRow
  <2>4. InsertsWait'
    <3>1. ASSUME NEW r \in Request, request[r].phase = "insert"
          PROVE  /\ job[request[r].row].state = "none"
                 /\ ledger'[request[r].row].status = "pending"
      BY <2>1, <3>1, InsertRows
    <3> QED BY <1>1, <3>1 DEF Settling, InsertsWait
  <2>5. ASSUME NEW k \in Delivery \ lapsed
        PROVE  RowTidy(k)' /\ RowTold(k)' /\ RowAwaited(k)'
    <3>1. RowTidy(k)' /\ RowTold(k)'
      BY <1>1, <2>1, RowStands DEF Settling
    <3> QED BY <1>1, <2>1, <3>1 DEF Settling, RowAwaited, Awaited, JobAlive
  <2> QED BY <1>1, <1>4, <2>3, <2>4, <2>5 DEF Settling
<1>3. ASSUME NEW i \in Delivery, Prune(i)
      PROVE  Settling'
  <2>1. /\ ledger'[i].status = "pruned" /\ ledger'[i].endpoint = ledger[i].endpoint
        /\ worker[i].phase = "idle" /\ \A r \in Request : request[r].row # i
        /\ \A k \in Delivery \ {i} : ledger'[k] = ledger[k]
        /\ endpoint' = endpoint
    BY <1>1, <1>3 DEF Prune, LedgerRow
  <2>2. EndpointsStand'
    BY <2>1 DEF Settling, EndpointsStand
  <2>3. InsertsWait'
    <3>1. ASSUME NEW r \in Request, request[r].phase = "insert"
          PROVE  /\ job[request[r].row].state = "none"
                 /\ ledger'[request[r].row].status = "pending"
      BY <2>1, <3>1, InsertRows
    <3> QED BY <1>1, <3>1 DEF Settling, InsertsWait
  <2>4. ASSUME NEW k \in Delivery \ lapsed
        PROVE  RowTidy(k)' /\ RowTold(k)' /\ RowAwaited(k)'
    <3>1. CASE k = i
      BY <1>1, <2>1, <3>1 DEF Settling, RowTidy, RowTold, RowAwaited, JobAlive
    <3>2. CASE k # i
      <4>1. RowTidy(k)' /\ RowTold(k)'
        BY <1>1, <2>1, <3>2, RowStands DEF Settling
      <4> QED BY <1>1, <2>1, <3>2, <4>1 DEF Settling, RowAwaited, Awaited, JobAlive
    <3> QED BY <3>1, <3>2
  <2> QED BY <1>1, <1>4, <2>2, <2>3, <2>4 DEF Settling
<1> QED BY <1>2, <1>3

LEMMA NextSettleInv == SettleInv /\ [Next]_vars => SettleInv'
<1> SUFFICES ASSUME SettleInv, [Next]_vars
             PROVE  Settling'
  BY NextLedgerInv DEF SettleInv
<1>0. TypeOK' /\ TypeOK /\ LedgerInv
  BY NextTypeOK DEF SettleInv, LedgerInv
<1>3. Settling
  BY DEF SettleInv
<1>4. CASE \E i \in Delivery : WorkerAction(i)
  BY <1>0, <1>3, <1>4, WorkerKeepsSettling
<1>5. CASE \E r \in Request : InsertJob(r) \/ \E e \in Endpoint : CreateDelivery(r, e)
  BY <1>0, <1>3, <1>5, CreateKeepsSettling, InsertKeepsSettling
<1>6. CASE (\E e \in Endpoint : DeleteEndpoint(e)) \/ (\E i \in Delivery : Prune(i))
  BY <1>0, <1>3, <1>6, SweepKeepsSettling
<1>7. ASSUME NEW r \in Request,
             \/ FanOut(r) \/ Report(r)
             \/ \E d \in Doc, verb \in Verb : Commit(r, d, verb)
             \/ \E e \in Endpoint : Ping(r, e)
             \/ \E i \in Delivery : Redeliver(r, i)
      PROVE  Settling'
  <2>1. UNCHANGED <<ledger, job, worker, notice, endpoint, lapsed>>
    BY <1>7 DEF FanOut, Report, Commit, Ping, Redeliver
  <2>2. \A s \in Request : \/ request'[s] = request[s]
                           \/ request[s].phase # "insert" /\ request'[s].phase # "insert"
    <3> DEFINE targets == {e \in Endpoint : /\ endpoint[e].life = "here"
                                            /\ Receives(endpoint[e], request[r].verb)}
    <3>1. request \in [Request -> RequestState]
      BY <1>0 DEF TypeOK
    <3>2. \A s \in Request \ {r} : request'[s] = request[s]
      BY <1>7, <3>1 DEF FanOut, Report, Commit, Ping, Redeliver
    <3>3. request[r].phase # "insert"
      BY <1>7 DEF FanOut, Report, Commit, Ping, Redeliver
    <3>4. CASE FanOut(r)
      <4>1. request'[r] = IF targets = {} THEN NoRequest
                          ELSE [request[r] EXCEPT !.phase = "enqueue", !.todo = targets]
        BY <3>1, <3>4 DEF FanOut
      <4> HIDE DEF targets
      <4>2. request[r] \in RequestState
        BY <3>1
      <4>3. request'[r].phase \in {"idle", "enqueue"}
        BY <4>1, <4>2 DEF NoRequest, RequestState
      <4> QED BY <3>2, <3>3, <4>3
    <3>5. CASE Report(r)
      BY <3>1, <3>2, <3>3, <3>5 DEF Report, NoRequest
    <3>6. ASSUME NEW d \in Doc, NEW verb \in Verb, Commit(r, d, verb)
          PROVE  request'[r].phase # "insert"
      BY <3>1, <3>6 DEF Commit, NoRequest
    <3>7. ASSUME NEW e \in Endpoint, Ping(r, e)
          PROVE  request'[r].phase # "insert"
      BY <3>1, <3>7 DEF Ping, NoRequest
    <3>8. ASSUME NEW i \in Delivery, Redeliver(r, i)
          PROVE  request'[r].phase # "insert"
      BY <3>1, <3>8 DEF Redeliver, NoRequest
    <3> QED BY <1>7, <3>2, <3>3, <3>4, <3>5, <3>6, <3>7, <3>8
  <2> QED BY <1>0, <1>3, <2>1, <2>2, QuietKeepsSettling
<1>8. ASSUME NEW e \in Endpoint,
             Register(e) \/ OpenForm(e) \/ Age(e) \/ \E active \in BOOLEAN : SaveForm(e, active)
      PROVE  Settling'
  <2>1. UNCHANGED <<ledger, job, worker, notice, request, lapsed>>
    BY <1>8 DEF Register, OpenForm, Age, SaveForm
  <2>2. endpoint \in [Endpoint -> EndpointRow]
    BY <1>0 DEF TypeOK
  <2>3. \A f \in Endpoint : endpoint[f].life = "here" => endpoint'[f].life = "here"
    <3>1. \A f \in Endpoint \ {e} : endpoint'[f] = endpoint[f]
      BY <1>8, <2>2 DEF Register, OpenForm, Age, SaveForm
    <3>2. ASSUME endpoint[e].life = "here"
          PROVE  endpoint'[e].life = "here"
      <4>1. endpoint[e] \in EndpointRow
        BY <2>2
      <4>2. CASE Register(e) \/ OpenForm(e)
        BY <3>2, <4>2 DEF Register, OpenForm
      <4>3. CASE Age(e)
        BY <2>2, <3>2, <4>1, <4>3 DEF Age, EndpointRow
      <4>4. ASSUME NEW active \in BOOLEAN, SaveForm(e, active)
            PROVE  endpoint'[e].life = "here"
        <5> DEFINE newActive == IF active # form[e].active THEN active ELSE endpoint[e].active
                   newFailures == IF form[e].failures # 0 THEN 0 ELSE endpoint[e].failures
                   newStamp == IF active /\ form[e].stamp # "none" THEN "none"
                               ELSE endpoint[e].stamp
                   saved == [endpoint[e] EXCEPT !.active = newActive, !.failures = newFailures,
                                                !.stamp = newStamp]
        <5>1. endpoint'[e] = saved
          BY <2>2, <3>2, <4>4 DEF SaveForm
        <5>2. saved.life = endpoint[e].life
          <6> HIDE DEF newActive, newFailures, newStamp
          <6> QED BY <4>1 DEF EndpointRow
        <5> QED BY <3>2, <5>1, <5>2
      <4> QED BY <1>8, <4>2, <4>3, <4>4
    <3> QED BY <3>1, <3>2
  <2> QED BY <1>0, <1>3, <2>1, <2>3, QuietKeepsSettling
<1>9. CASE UNCHANGED vars
  BY <1>0, <1>3, <1>9, QuietKeepsSettling DEF vars
<1>10. ASSUME NEW r \in Request, CrashRequest(r) \/ RequestFails(r)
       PROVE  Settling'
  <2>1. /\ UNCHANGED <<ledger, job, worker, notice, endpoint>>
        /\ lapsed \subseteq lapsed' /\ request[r].row \in {0} \cup lapsed'
    BY <1>10 DEF CrashRequest, RequestFails
  <2>2. request'[r].phase # "insert" /\ \A s \in Request \ {r} : request'[s] = request[s]
    BY <1>0, <1>10 DEF CrashRequest, RequestFails, TypeOK, RequestState, NoRequest
  <2>3. \A s \in Request :
          \/ request'[s] = request[s]
          \/ /\ request'[s].phase # "insert"
             /\ request[s].phase = "insert" => request[s].row \in {0} \cup lapsed'
    BY <2>1, <2>2
  <2> QED BY <1>0, <1>3, <2>1, <2>3, QuietKeepsSettling
<1> QED BY <1>4, <1>5, <1>6, <1>7, <1>8, <1>9, <1>10
        DEF Next, RequestStep, Admin, Fault, WorkerAction

\* A delivery that is still pending has a job that will try it, or a request
\* about to insert one, unless its own process was killed or its own insert, last
\* read or ledger write failed: enqueue/6 and settle/4 orphan no other row,
\* whoever deletes, replays, prunes or edits meanwhile and whatever else fails.
THEOREM NothingOrphaned == Spec => []PendingHasJob
<1>1. SettleInv => PendingHasJob
  BY DEF SettleInv, Settling, RowAwaited, Awaited, PendingHasJob
<1> QED BY <1>1, InitSettleInv, NextSettleInv, PTL DEF Spec

\* A retraction that is given up on is announced, to the admins or in the log
\* (RetractionLost.surface), or is about to be, unless its own worker was killed
\* or its notice could not be written.
THEOREM LossesAnnounced == Spec => []LostRetractionAnnounced
<1>1. SettleInv => LostRetractionAnnounced
  BY DEF SettleInv, Settling, RowTold, LostRetractionAnnounced
<1> QED BY <1>1, InitSettleInv, NextSettleInv, PTL DEF Spec

\* A delivery is settled once: no attempt of its own job, unless that was killed
\* and run again, and no other job's, reopens the row or turns its verdict round.
THEOREM SettledOnce == Spec => SettledForGood
<1>1. SettleInv /\ SettleInv' /\ [Next]_vars =>
        [\A i \in Delivery \ lapsed' :
           ledger[i].status \in {"succeeded", "failed"} =>
             ledger'[i].status \in {ledger[i].status, "pruned"}]_vars
  <2> SUFFICES ASSUME SettleInv, Next, NEW i \in Delivery \ lapsed',
                      ledger[i].status \in {"succeeded", "failed"}
               PROVE  ledger'[i].status \in {ledger[i].status, "pruned"}
    BY DEF vars
  <2>1. TypeOK /\ LedgerInv /\ ledger[i] \in LedgerRow
    BY DEF SettleInv, LedgerInv, TypeOK
  <2>2. CASE \E k \in Delivery : WorkerAction(k)
    <3>1. PICK k \in Delivery : WorkerAction(k)
      BY <2>2
    <3>3. Settling
      BY DEF SettleInv
    <3>4. CASE k = i
      BY <2>1, <3>1, <3>3, <3>4, WorkerSettles
    <3>5. CASE k # i
      <4>1. CASE Record(k)
        BY <2>1, <3>5, <4>1 DEF Record, TypeOK
      <4>2. CASE Recovers(k)
        BY <2>1, <4>2, RecoverySteps DEF LedgerRow
      <4>3. CASE ~Record(k) /\ ~Recovers(k)
        BY <3>1, <4>3, OtherStepsKeepLedger
      <4> QED BY <4>1, <4>2, <4>3
    <3> QED BY <3>4, <3>5
  <2>3. ASSUME NEW r \in Request, NEW e \in Endpoint, CreateDelivery(r, e)
        PROVE  ledger'[i].status = ledger[i].status
    <3> DEFINE row == inserted + 1
               written == [status |-> "pending", endpoint |-> e, url |-> e,
                           verb |-> request[r].verb, doc |-> request[r].doc,
                           recovered |-> FALSE]
    <3>1. inserted \in Nat /\ inserted < MaxDelivery
      BY <2>1, <2>3, BoundsAssumption DEF CreateDelivery, TypeOK
    <3>2. row \in Delivery /\ row > inserted
      BY <3>1, BoundsAssumption DEF Delivery
    <3>3. i # row
      BY <2>1, <3>2 DEF LedgerInv, RowsInOrder, Unused
    <3>4. ledger' = ledger \/ ledger' = [ledger EXCEPT ![row] = written]
      BY <2>3 DEF CreateDelivery, ledgerVars
    <3> HIDE DEF row, written
    <3> QED BY <2>1, <3>3, <3>4 DEF TypeOK
  <2>4. ASSUME NEW e \in Endpoint, DeleteEndpoint(e)
        PROVE  ledger'[i].status = ledger[i].status
    BY <2>1, <2>4 DEF DeleteEndpoint, LedgerRow
  <2>5. ASSUME NEW k \in Delivery, Prune(k)
        PROVE  ledger'[i].status \in {ledger[i].status, "pruned"}
    BY <2>1, <2>5 DEF Prune, TypeOK, LedgerRow
  <2>6. CASE /\ ~\E k \in Delivery : WorkerAction(k) \/ Prune(k)
             /\ ~\E r \in Request, e \in Endpoint : CreateDelivery(r, e)
             /\ ~\E e \in Endpoint : DeleteEndpoint(e)
    <3>1. ledger' = ledger
      BY <2>6 DEF Next, RequestStep, Admin, Fault, Commit, FanOut, InsertJob, Report, Ping,
           Redeliver, Register, OpenForm, SaveForm, Age, WorkerAction, CrashRequest, RequestFails
    <3> QED BY <3>1
  <2> QED BY <2>2, <2>3, <2>4, <2>5, <2>6
<1> QED BY <1>1, InitSettleInv, NextSettleInv, PTL DEF Spec, SettledForGood
=============================================================================
