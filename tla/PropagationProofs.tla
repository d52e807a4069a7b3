------------------------- MODULE PropagationProofs -------------------------
(***************************************************************************)
(* Theorems about Propagation, for any number of actions, endpoints,       *)
(* attempts and faults.                                                    *)
(***************************************************************************)
EXTENDS Propagation, FiniteSetTheorems, TLAPS

-----------------------------------------------------------------------------
(* Types.  TypeOK is not inductive by itself: an attempt stays within its  *)
(* budget because a job that is to run again has attempts left, and a      *)
(* record is stamped with a verdict because a purge that lists records has *)
(* one.                                                                    *)

DeliveriesHaveAttempts ==
  \A a \in Action, e \in Endpoint :
    delivery[a][e].phase = "ready" => delivery[a][e].attempt < MaxAttempts

PurgesHaveAttempts ==
  \A q \in Action :
    purge[q].phase \in {"scheduled", "available"} => purge[q].attempt < MaxPurgeAttempts

PurgesHaveVerdicts ==
  \A q \in Action :
    /\ purge[q].phase \in {"list", "stamp", "settle", "complete"}
         => purge[q].verdict \in {"acknowledged", "failed"}
    /\ purge[q].phase \in {"settle", "complete"} => purge[q].at \in Action

TypeInv ==
  /\ TypeOK
  /\ DeliveriesHaveAttempts
  /\ PurgesHaveAttempts
  /\ PurgesHaveVerdicts

\* Sets of endpoints are counted by numbers.
LEMMA Counts ==
  ASSUME NEW S \in SUBSET Endpoint
  PROVE  Cardinality(S) \in Nat
BY FS_Subset, FS_CardinalityType, PropagationAssumption

LEMMA LostType == \A a \in Action : Lost(a) \in Nat
BY Counts DEF Lost, DeliveriesIn

\* The rows new things start from.
LEMMA NewRows ==
  /\ IdleAction \in ActionState
  /\ NoRecord \in RecordRow
  /\ NoDelivery \in DeliveryState
  /\ NewDelivery \in DeliveryState
  /\ NewDelivery.phase = "ready" /\ NewDelivery.attempt = 0
  /\ NewDelivery.status = "pending"
  /\ NoPurge \in PurgeState
  /\ NewPurge(TRUE) \in PurgeState /\ NewPurge(FALSE) \in PurgeState
  /\ NewPurge(TRUE).phase = "scheduled" /\ NewPurge(FALSE).phase = "scheduled"
  /\ NewPurge(TRUE).attempt = 0 /\ NewPurge(FALSE).attempt = 0
<1>1. IdleAction \in ActionState /\ NoRecord \in RecordRow
  BY DEF IdleAction, ActionState, NoRecord, RecordRow
<1>2. NoDelivery \in DeliveryState
  BY PropagationAssumption DEF NoDelivery, DeliveryState
<1>3. /\ NewDelivery \in DeliveryState /\ NewDelivery.phase = "ready"
      /\ NewDelivery.attempt = 0 /\ NewDelivery.status = "pending"
  BY <1>2 DEF NewDelivery, NoDelivery, DeliveryState
<1>4. NoPurge \in PurgeState
  BY PropagationAssumption DEF NoPurge, PurgeState
<1>5. /\ NewPurge(TRUE) \in PurgeState /\ NewPurge(FALSE) \in PurgeState
      /\ NewPurge(TRUE).phase = "scheduled" /\ NewPurge(FALSE).phase = "scheduled"
      /\ NewPurge(TRUE).attempt = 0 /\ NewPurge(FALSE).attempt = 0
  BY <1>4 DEF NewPurge, NoPurge, PurgeState
<1> QED BY <1>1, <1>2, <1>3, <1>4, <1>5

\* The record as open/5 leaves it.
LEMMA OpenedRow ==
  ASSUME TypeOK, NEW a \in Action
  PROVE  /\ Opened(a) \in RecordRow
         /\ Opened(a).state \in {"open", "completed"}
         /\ Opened(a).state = "completed" <=> NothingToWaitFor(a)
         /\ Opened(a).state = "completed" => Opened(a).cdn # "pending"
         /\ Opened(a).cdn # "acknowledged"
<1>1. Cardinality(action[a].todo) \in Nat
  BY Counts DEF TypeOK, ActionState
<1> QED BY <1>1 DEF Opened, NothingToWaitFor, RecordRow

\* Writing part of the state of one delivery, or of one purge.
LEMMA DeliveryWrites ==
  ASSUME TypeOK, NEW a \in Action, NEW e \in Endpoint, NEW new \in DeliveryState,
         delivery' = [delivery EXCEPT ![a][e] = new]
  PROVE  /\ delivery' \in [Action -> [Endpoint -> DeliveryState]]
         /\ delivery'[a][e] = new
         /\ \A b \in Action, f \in Endpoint :
              b # a \/ f # e => delivery'[b][f] = delivery[b][f]
BY DEF TypeOK

LEMMA PurgeWrites ==
  ASSUME TypeOK, NEW q \in Action, NEW new \in PurgeState,
         purge' = [purge EXCEPT ![q] = new]
  PROVE  /\ purge' \in [Action -> PurgeState]
         /\ purge'[q] = new
         /\ \A p \in Action \ {q} : purge'[p] = purge[p]
BY DEF TypeOK

\* What a process that is killed, or a database call that fails, leaves behind.
LEMMA DispatchFaultWrites ==
  ASSUME TypeOK, NEW a \in Action, DispatchFault(a)
  PROVE  /\ faults' \in 0..MaxFaults /\ lapsed' = lapsed \cup {a}
         /\ UNCHANGED <<stamped, txn, delivery, purge, purgeUrl, covered, emitted>>
         /\ a \notin Release \/ action[a].phase = "enqueue"
         /\ action[a].phase \in {"committed", "stamped", "enqueue", "purge"}
         /\ action'[a].phase \in {"enqueue", "purge", "done"}
         /\ action' \in [Action -> ActionState] /\ record' \in [Action -> RecordRow]
         /\ \A b \in Action \ {a} : action'[b] = action[b] /\ record'[b] = record[b]
         /\ \/ record' = record
            \/ /\ a \notin Release /\ action[a].phase = "stamped" /\ NothingToWaitFor(a)
               /\ record'[a] = [Opened(a) EXCEPT !.state = "open"]
<1>1. /\ action \in [Action -> ActionState] /\ action[a] \in ActionState
      /\ record \in [Action -> RecordRow]
  BY DEF TypeOK
<1>2. /\ faults' \in 0..MaxFaults /\ lapsed' = lapsed \cup {a}
      /\ UNCHANGED <<stamped, txn, delivery, purge, purgeUrl, covered, emitted>>
      /\ a \notin Release \/ action[a].phase = "enqueue"
      /\ action[a].phase \in {"committed", "stamped", "enqueue", "purge"}
  <2>1. faults \in 0..MaxFaults /\ MaxFaults \in Nat
    BY PropagationAssumption DEF TypeOK
  <2> QED BY <2>1 DEF DispatchFault, CrashAction, FanOutFails, OpenFails, PurgeFails, Faulty
<1>3. \E phase \in {"enqueue", "purge", "done"}, todo \in {action[a].todo, {}} :
        action' = [action EXCEPT ![a].phase = phase, ![a].todo = todo]
  <2>1. CASE CrashAction(a) \/ FanOutFails(a)
    BY <2>1 DEF CrashAction, FanOutFails
  <2>2. CASE PurgeFails(a) \/ \E inserted \in BOOLEAN : OpenFails(a, inserted)
    <3>1. \E phase \in {"enqueue", "done"} : action' = [action EXCEPT ![a].phase = phase]
      BY <2>2 DEF PurgeFails, OpenFails
    <3>2. ASSUME NEW phase, action' = [action EXCEPT ![a].phase = phase]
          PROVE  action' = [action EXCEPT ![a].phase = phase, ![a].todo = action[a].todo]
      BY <1>1, <3>2 DEF ActionState
    <3> QED BY <3>1, <3>2
  <2> QED BY <2>1, <2>2 DEF DispatchFault
<1>4. PICK phase \in {"enqueue", "purge", "done"}, todo \in {action[a].todo, {}} :
        action' = [action EXCEPT ![a].phase = phase, ![a].todo = todo]
  BY <1>3
<1>5. [action[a] EXCEPT !.phase = phase, !.todo = todo] \in ActionState
  BY <1>1 DEF ActionState
<1>6. /\ action' \in [Action -> ActionState]
      /\ action'[a].phase = phase
      /\ \A b \in Action \ {a} : action'[b] = action[b]
  BY <1>1, <1>4, <1>5 DEF ActionState
<1>7. /\ record' \in [Action -> RecordRow]
      /\ \A b \in Action \ {a} : record'[b] = record[b]
      /\ \/ record' = record
         \/ /\ a \notin Release /\ action[a].phase = "stamped" /\ NothingToWaitFor(a)
            /\ record'[a] = [Opened(a) EXCEPT !.state = "open"]
  <2>1. CASE UNCHANGED record
    BY <1>1, <2>1
  <2>2. CASE OpenFails(a, TRUE)
    <3> DEFINE row == [Opened(a) EXCEPT !.state = "open"]
    <3>1. row \in RecordRow
      BY OpenedRow DEF RecordRow
    <3>2. record' = [record EXCEPT ![a] = row]
      BY <2>2 DEF OpenFails
    <3>3. a \notin Release /\ action[a].phase = "stamped" /\ NothingToWaitFor(a)
      BY <2>2 DEF OpenFails
    <3> HIDE DEF row
    <3>4. /\ record' \in [Action -> RecordRow] /\ record'[a] = row
          /\ \A b \in Action \ {a} : record'[b] = record[b]
      BY <1>1, <3>1, <3>2
    <3> QED BY <3>3, <3>4 DEF row
  <2> QED BY <2>1, <2>2 DEF DispatchFault, CrashAction, FanOutFails, OpenFails, PurgeFails
<1> QED BY <1>2, <1>4, <1>6, <1>7

LEMMA DeliveryFaultWrites ==
  ASSUME TypeOK, NEW a \in Action, NEW e \in Endpoint, DeliveryFault(a, e)
  PROVE  /\ faults' \in 0..MaxFaults /\ lapsed' = lapsed \cup {a}
         /\ UNCHANGED <<action, stamped, txn, record, purge, purgeUrl, covered, emitted>>
         /\ delivery[a][e].phase # "none"
         /\ \E new \in DeliveryState :
              /\ delivery' = [delivery EXCEPT ![a][e] = new]
              /\ new.phase \in {"ready", "settle", "done"}
              /\ new.phase = "ready" => new.attempt < MaxAttempts
<1> DEFINE old == delivery[a][e]
<1>1. /\ old \in DeliveryState /\ faults \in 0..MaxFaults /\ MaxFaults \in Nat
      /\ delivery \in [Action -> [Endpoint -> DeliveryState]]
  BY PropagationAssumption DEF TypeOK
<1>2. /\ faults' \in 0..MaxFaults /\ lapsed' = lapsed \cup {a}
      /\ UNCHANGED <<action, stamped, txn, record, purge, purgeUrl, covered, emitted>>
      /\ delivery[a][e].phase # "none"
  BY <1>1 DEF DeliveryFault, CrashDelivery, AttemptUnrecorded, SettleDeliveryFails, Faulty
<1>3. \E new \in DeliveryState :
        /\ delivery' = [delivery EXCEPT ![a][e] = new]
        /\ new.phase \in {"ready", "settle", "done"}
        /\ new.phase = "ready" => new.attempt < MaxAttempts
  <2>1. CASE CrashDelivery(a, e)
    <3> DEFINE phase == IF old.attempt < MaxAttempts THEN "ready" ELSE "done"
               new == [old EXCEPT !.phase = phase, !.seen = 0]
    <3>1. new \in DeliveryState /\ new.attempt = old.attempt /\ new.phase = phase
      BY <1>1 DEF DeliveryState
    <3>2. delivery' = [delivery EXCEPT ![a][e] = new]
      BY <2>1 DEF CrashDelivery
    <3>3. /\ phase \in {"ready", "settle", "done"}
          /\ phase = "ready" => old.attempt < MaxAttempts
      OBVIOUS
    <3> HIDE DEF new, phase
    <3> QED BY <3>1, <3>2, <3>3
  <2>2. ASSUME NEW status \in {"succeeded", "failed"}, AttemptUnrecorded(a, e, status)
        PROVE  \E new \in DeliveryState :
                 /\ delivery' = [delivery EXCEPT ![a][e] = new]
                 /\ new.phase \in {"ready", "settle", "done"}
                 /\ new.phase = "ready" => new.attempt < MaxAttempts
    <3> DEFINE new == [old EXCEPT !.phase = "settle"]
    <3>1. new \in DeliveryState /\ new.phase = "settle"
      BY <1>1 DEF DeliveryState
    <3>2. delivery' = [delivery EXCEPT ![a][e] = new]
      BY <2>2 DEF AttemptUnrecorded, AfterAttempt
    <3> QED BY <3>1, <3>2
  <2>3. CASE SettleDeliveryFails(a, e)
    <3> DEFINE new == [old EXCEPT !.phase = "done", !.seen = 0]
    <3>1. new \in DeliveryState /\ new.phase = "done"
      BY <1>1 DEF DeliveryState
    <3>2. delivery' = [delivery EXCEPT ![a][e] = new]
      BY <2>3 DEF SettleDeliveryFails
    <3> QED BY <3>1, <3>2
  <2> QED BY <2>1, <2>2, <2>3 DEF DeliveryFault
<1> QED BY <1>2, <1>3

LEMMA PurgeFaultWrites ==
  ASSUME TypeOK, NEW q \in Action, PurgeFault(q)
  PROVE  /\ faults' \in 0..MaxFaults /\ lapsed' \subseteq Action /\ lapsed \subseteq lapsed'
         /\ purge[q].at \in Action => purge[q].at \in lapsed'
         /\ UNCHANGED <<action, stamped, txn, record, delivery, purgeUrl, covered, emitted>>
         /\ purge[q].phase # "none"
         /\ \E new \in PurgeState :
              /\ purge' = [purge EXCEPT ![q] = new]
              /\ new.phase \in {"available", "stamp", "done"}
              /\ new.phase = "available" => new.attempt < MaxPurgeAttempts
              /\ new.phase = "stamp" => purge[q].phase \in {"settle", "complete"}
              /\ new.begun = purge[q].begun /\ new.verdict = purge[q].verdict
              /\ new.todo \subseteq purge[q].todo
<1> DEFINE old == purge[q]
           Fell(new) == /\ new \in PurgeState
                        /\ purge' = [purge EXCEPT ![q] = new]
                        /\ new.phase \in {"available", "stamp", "done"}
                        /\ new.phase = "available" => new.attempt < MaxPurgeAttempts
                        /\ new.phase = "stamp" => old.phase \in {"settle", "complete"}
                        /\ new.begun = old.begun /\ new.verdict = old.verdict
                        /\ new.todo \subseteq old.todo
<1>1. /\ old \in PurgeState /\ faults \in 0..MaxFaults /\ MaxFaults \in Nat
      /\ purge \in [Action -> PurgeState] /\ lapsed \subseteq Action
  BY PropagationAssumption DEF TypeOK
<1>2. \E again \in BOOLEAN : lapsed' = lapsed \cup Dropped(q, again)
  <2>1. CASE CrashPurge(q)
    <3>1. (purge[q].attempt < MaxPurgeAttempts) \in BOOLEAN
      OBVIOUS
    <3> QED BY <2>1, <3>1, Zenon DEF CrashPurge
  <2>2. CASE CdnSettledFails(q)
    BY <2>2, Zenon DEF CdnSettledFails
  <2>3. CASE SettlePurgeFails(q)
    BY <2>3, Zenon DEF SettlePurgeFails
  <2> QED BY <2>1, <2>2, <2>3 DEF PurgeFault
<1>3. /\ lapsed' \subseteq Action /\ lapsed \subseteq lapsed'
      /\ purge[q].at \in Action => purge[q].at \in lapsed'
  BY <1>1, <1>2 DEF Dropped
<1>4. /\ faults' \in 0..MaxFaults
      /\ UNCHANGED <<action, stamped, txn, record, delivery, purgeUrl, covered, emitted>>
      /\ purge[q].phase # "none"
  <2>1. CASE CrashPurge(q)
    <3>1. /\ faults < MaxFaults /\ faults' = faults + 1
          /\ UNCHANGED <<action, stamped, txn, record, delivery, purgeUrl, covered, emitted>>
          /\ purge[q].phase # "none"
      BY <2>1, Zenon DEF CrashPurge, Faulty
    <3> QED BY <1>1, <3>1
  <2>2. CASE CdnSettledFails(q)
    BY <1>1, <2>2 DEF CdnSettledFails, Faulty
  <2>3. CASE SettlePurgeFails(q)
    BY <1>1, <2>3 DEF SettlePurgeFails, Faulty
  <2> QED BY <2>1, <2>2, <2>3 DEF PurgeFault
<1>5. CASE CrashPurge(q)
  <2> DEFINE phase == IF old.attempt < MaxPurgeAttempts THEN "available" ELSE "done"
             new == [old EXCEPT !.phase = phase, !.todo = {}, !.at = None, !.seen = 0]
  <2>1. /\ new \in PurgeState /\ new.phase = phase /\ new.attempt = old.attempt
        /\ new.begun = old.begun /\ new.verdict = old.verdict /\ new.todo = {}
    BY <1>1 DEF PurgeState
  <2>2. purge' = [purge EXCEPT ![q] = new]
    BY <1>5 DEF CrashPurge
  <2>3. Fell(new)
    <3> HIDE DEF new
    <3> QED BY <2>1, <2>2
  <2> QED BY <1>3, <1>4, <2>3
<1>6. CASE CdnSettledFails(q)
  <2> DEFINE new == [old EXCEPT !.phase = "done", !.todo = {}]
  <2>1. /\ new \in PurgeState /\ new.phase = "done"
        /\ new.begun = old.begun /\ new.verdict = old.verdict /\ new.todo = {}
    BY <1>1 DEF PurgeState
  <2>2. purge' = [purge EXCEPT ![q] = new]
    BY <1>6 DEF CdnSettledFails
  <2>3. Fell(new)
    <3> HIDE DEF new
    <3> QED BY <2>1, <2>2
  <2> QED BY <1>3, <1>4, <2>3
<1>7. CASE SettlePurgeFails(q)
  <2> DEFINE new == [old EXCEPT !.phase = "stamp", !.at = None, !.seen = 0]
  <2>1. /\ new \in PurgeState /\ new.phase = "stamp"
        /\ new.begun = old.begun /\ new.verdict = old.verdict /\ new.todo = old.todo
    BY <1>1 DEF PurgeState
  <2>2. purge' = [purge EXCEPT ![q] = new] /\ old.phase \in {"settle", "complete"}
    BY <1>7 DEF SettlePurgeFails
  <2>3. Fell(new)
    <3> HIDE DEF new
    <3> QED BY <2>1, <2>2
  <2> QED BY <1>3, <1>4, <2>3
<1> QED BY <1>5, <1>6, <1>7 DEF PurgeFault

LEMMA InitTypeInv == Init => TypeInv
<1> SUFFICES ASSUME Init PROVE TypeInv
  OBVIOUS
<1>1. TypeOK
  <2>1. faults \in 0..MaxFaults
    BY PropagationAssumption DEF Init
  <2> QED BY <2>1, NewRows DEF Init, TypeOK
<1>2. DeliveriesHaveAttempts
  BY DEF Init, DeliveriesHaveAttempts, NoDelivery
<1>3. PurgesHaveAttempts /\ PurgesHaveVerdicts
  BY DEF Init, PurgesHaveAttempts, PurgesHaveVerdicts, NoPurge
<1> QED BY <1>1, <1>2, <1>3 DEF TypeInv

\* The dispatching processes and the release.
LEMMA DispatchTypeInv ==
  ASSUME TypeInv, NEW a \in Action, DispatchStep(a)
  PROVE  TypeInv'
<1> USE DEF TypeInv
<1>1. ASSUME NEW targets \in SUBSET Endpoint, StampAfterCommit(a, targets)
      PROVE  TypeInv'
  <2>1. action[a].event \in Event \cup {"none"}
    BY DEF TypeOK, ActionState
  <2>2. action' \in [Action -> ActionState]
    <3>1. /\ (purgeUrl /\ Purges(action[a].event)) \in BOOLEAN
          /\ (IF IsTransition(action[a].event) THEN targets ELSE {}) \in SUBSET Endpoint
      BY DEF TypeOK, Purges
    <3> QED BY <1>1, <2>1, <3>1 DEF StampAfterCommit, Stamp, TypeOK, ActionState
  <2>3. stamped' \subseteq Action
    BY <1>1 DEF StampAfterCommit, Stamp, TypeOK
  <2> QED BY <1>1, <2>2, <2>3 DEF StampAfterCommit, Stamp, TypeOK, DeliveriesHaveAttempts,
             PurgesHaveAttempts, PurgesHaveVerdicts
<1>2. CASE OpenRecord(a)
  <2>1. action' \in [Action -> ActionState]
    BY ZenonT(60), <1>2 DEF OpenRecord, TypeOK, ActionState
  <2>2. record' \in [Action -> RecordRow] /\ emitted' \in [Action -> Nat]
    BY <1>2, OpenedRow DEF OpenRecord, TypeOK
  <2> QED BY <1>2, <2>1, <2>2 DEF OpenRecord, TypeOK, DeliveriesHaveAttempts,
             PurgesHaveAttempts, PurgesHaveVerdicts
<1>3. ASSUME NEW e \in Endpoint, EnqueueDelivery(a, e)
      PROVE  TypeInv'
  <2>1. action' \in [Action -> ActionState]
    BY ZenonT(60), <1>3 DEF EnqueueDelivery, TypeOK, ActionState
  <2>2. /\ delivery' \in [Action -> [Endpoint -> DeliveryState]]
        /\ delivery'[a][e] = NewDelivery
        /\ \A b \in Action, f \in Endpoint :
             b # a \/ f # e => delivery'[b][f] = delivery[b][f]
    BY <1>3, NewRows, DeliveryWrites DEF EnqueueDelivery
  <2>3. DeliveriesHaveAttempts'
    BY <2>2, NewRows, PropagationAssumption DEF DeliveriesHaveAttempts
  <2> QED BY <1>3, <2>1, <2>2, <2>3 DEF EnqueueDelivery, TypeOK, PurgesHaveAttempts,
             PurgesHaveVerdicts
<1>4. CASE FannedOut(a)
  <2>1. action' \in [Action -> ActionState]
    BY ZenonT(60), <1>4 DEF FannedOut, TypeOK, ActionState
  <2> QED BY <1>4, <2>1 DEF FannedOut, TypeOK, DeliveriesHaveAttempts, PurgesHaveAttempts,
             PurgesHaveVerdicts
<1>5. CASE EnqueuePurge(a)
  <2>1. action' \in [Action -> ActionState]
    BY SMTT(30), <1>5 DEF EnqueuePurge, TypeOK, ActionState
  <2>2. /\ purge' \in [Action -> PurgeState]
        /\ purge'[a] \in {purge[a], NewPurge(FALSE)}
        /\ \A p \in Action \ {a} : purge'[p] = purge[p]
    BY <1>5, NewRows, PurgeWrites DEF EnqueuePurge, TypeOK
  <2>3. PurgesHaveAttempts' /\ PurgesHaveVerdicts'
    <3> SUFFICES ASSUME NEW p \in Action
                 PROVE  /\ purge'[p].phase \in {"scheduled", "available"}
                             => purge'[p].attempt < MaxPurgeAttempts
                        /\ purge'[p].phase \in {"list", "stamp", "settle", "complete"}
                             => purge'[p].verdict \in {"acknowledged", "failed"}
                        /\ purge'[p].phase \in {"settle", "complete"} => purge'[p].at \in Action
      BY DEF PurgesHaveAttempts, PurgesHaveVerdicts
    <3>1. CASE purge'[p] = purge[p]
      BY <3>1 DEF PurgesHaveAttempts, PurgesHaveVerdicts
    <3>2. CASE purge'[p] = NewPurge(FALSE)
      <4>1. purge'[p].phase = "scheduled" /\ purge'[p].attempt = 0
        BY <3>2, NewRows
      <4> QED BY <4>1, PropagationAssumption
    <3> QED BY <2>2, <3>1, <3>2
  <2> QED BY <1>5, <2>1, <2>2, <2>3 DEF EnqueuePurge, TypeOK, DeliveriesHaveAttempts
<1> QED BY <1>1, <1>2, <1>3, <1>4, <1>5 DEF DispatchStep

LEMMA ReleaseTypeInv ==
  ASSUME TypeInv, ReleaseStep
  PROVE  TypeInv'
<1> USE DEF TypeInv
<1>1. ASSUME NEW a \in Action, NEW event \in Event, NEW targets \in SUBSET Endpoint,
             StampInRelease(a, event, targets)
      PROVE  TypeInv'
  <2>1. action' \in [Action -> ActionState]
    <3>1. /\ (purgeUrl /\ Purges(event)) \in BOOLEAN
          /\ Absorbed(TRUE) \in BOOLEAN
          /\ (IF IsTransition(event) THEN targets ELSE {}) \in SUBSET Endpoint
      BY DEF TypeOK, Purges, Absorbed
    <3> QED BY <1>1, <3>1 DEF StampInRelease, Stamp, TypeOK, ActionState
  <2>2. stamped' \subseteq Action
    BY <1>1 DEF StampInRelease, Stamp, TypeOK
  <2> QED BY <1>1, <2>1, <2>2 DEF StampInRelease, Stamp, TypeOK, DeliveriesHaveAttempts,
             PurgesHaveAttempts, PurgesHaveVerdicts
<1>2. CASE CommitRelease
  <2> DEFINE purging == {a \in Release : action[a].purging /\ ~action[a].absorbed}
             first == CHOOSE a \in purging : TRUE
  <2>1. action' \in [Action -> ActionState]
    BY ZenonT(60), <1>2 DEF CommitRelease, TypeOK, ActionState
  <2>2. record' \in [Action -> RecordRow]
    BY <1>2, OpenedRow DEF CommitRelease, TypeOK
  <2>3. emitted' \in [Action -> Nat]
    <3>1. \A a \in Action : emitted[a] \in Nat /\ emitted[a] + 1 \in Nat
      BY DEF TypeOK
    <3>2. emitted' = [a \in Action |-> IF /\ a \in Release /\ IsTransition(action[a].event)
                                         /\ NothingToWaitFor(a)
                                     THEN emitted[a] + 1 ELSE emitted[a]]
      BY <1>2 DEF CommitRelease
    <3> QED BY <3>1, <3>2
  <2>4. ASSUME NEW a \in Action, NEW e \in Endpoint
        PROVE  delivery'[a][e] \in {NewDelivery, delivery[a][e]}
    BY <1>2, <2>4 DEF CommitRelease
  <2>5. delivery' \in [Action -> [Endpoint -> DeliveryState]]
    BY <1>2, NewRows DEF CommitRelease, TypeOK
  <2>6. DeliveriesHaveAttempts'
    BY <2>4, NewRows, PropagationAssumption DEF DeliveriesHaveAttempts
  <2>7. purging # {} => first \in Action
    BY PropagationAssumption
  <2>8. /\ purge' \in [Action -> PurgeState]
        /\ \A p \in Action : purge'[p] \in {purge[p], NewPurge(TRUE)}
    <3>1. purge' = purge \/ (first \in Action /\ purge' = [purge EXCEPT ![first] = NewPurge(TRUE)])
      BY <1>2, <2>7 DEF CommitRelease
    <3> HIDE DEF first
    <3> QED BY <3>1, NewRows DEF TypeOK
  <2>9. PurgesHaveAttempts' /\ PurgesHaveVerdicts'
    <3> SUFFICES ASSUME NEW p \in Action
                 PROVE  /\ purge'[p].phase \in {"scheduled", "available"}
                             => purge'[p].attempt < MaxPurgeAttempts
                        /\ purge'[p].phase \in {"list", "stamp", "settle", "complete"}
                             => purge'[p].verdict \in {"acknowledged", "failed"}
                        /\ purge'[p].phase \in {"settle", "complete"} => purge'[p].at \in Action
      BY DEF PurgesHaveAttempts, PurgesHaveVerdicts
    <3>1. CASE purge'[p] = purge[p]
      BY <3>1 DEF PurgesHaveAttempts, PurgesHaveVerdicts
    <3>2. CASE purge'[p] = NewPurge(TRUE)
      <4>1. purge'[p].phase = "scheduled" /\ purge'[p].attempt = 0
        BY <3>2, NewRows
      <4> QED BY <4>1, PropagationAssumption
    <3> QED BY <2>8, <3>1, <3>2
  <2> QED BY <1>2, <2>1, <2>2, <2>3, <2>5, <2>6, <2>8, <2>9 DEF CommitRelease, TypeOK
<1>3. CASE RollBackRelease
  <2>1. action' \in [Action -> ActionState]
    BY ZenonT(60), <1>3 DEF RollBackRelease, TypeOK, ActionState
  <2> QED BY <1>3, <2>1 DEF RollBackRelease, TypeOK, DeliveriesHaveAttempts,
             PurgesHaveAttempts, PurgesHaveVerdicts
<1> QED BY <1>1, <1>2, <1>3 DEF ReleaseStep

\* A step that leaves the actions, the stamps and the transaction as they are,
\* and writes one delivery.
LEMMA DeliveryKeepsTypes ==
  ASSUME TypeInv, NEW a \in Action, NEW e \in Endpoint, NEW new \in DeliveryState,
         delivery' = [delivery EXCEPT ![a][e] = new],
         new.phase = "ready" => new.attempt < MaxAttempts,
         record' \in [Action -> RecordRow], emitted' \in [Action -> Nat],
         faults' \in 0..MaxFaults, lapsed' \subseteq Action,
         UNCHANGED <<action, stamped, txn, purge, purgeUrl, covered>>
  PROVE  TypeInv'
<1>1. /\ delivery' \in [Action -> [Endpoint -> DeliveryState]]
      /\ delivery'[a][e] = new
      /\ \A b \in Action, f \in Endpoint :
           b # a \/ f # e => delivery'[b][f] = delivery[b][f]
  BY ZenonT(60), DeliveryWrites DEF TypeInv
<1>2. DeliveriesHaveAttempts'
  BY <1>1 DEF TypeInv, DeliveriesHaveAttempts
<1>3. TypeOK'
  BY <1>1 DEF TypeInv, TypeOK
<1> QED BY <1>2, <1>3 DEF TypeInv, PurgesHaveAttempts, PurgesHaveVerdicts

LEMMA CompleteType ==
  ASSUME TypeOK, NEW a \in Action, NEW seen \in Nat, Complete(a, seen)
  PROVE  record' \in [Action -> RecordRow] /\ emitted' \in [Action -> Nat]
<1>1. record[a] \in RecordRow /\ emitted[a] + 1 \in Nat
  BY DEF TypeOK
<1>2. [record[a] EXCEPT !.state = "completed", !.failed = seen] \in RecordRow
  BY <1>1 DEF RecordRow
<1>3. \/ UNCHANGED <<record, emitted>>
      \/ /\ record' = [record EXCEPT ![a] =
                         [record[a] EXCEPT !.state = "completed", !.failed = seen]]
         /\ emitted' = [emitted EXCEPT ![a] = emitted[a] + 1]
  BY DEF Complete
<1> QED BY <1>1, <1>2, <1>3 DEF TypeOK

LEMMA DeliveryTypeInv ==
  ASSUME TypeInv, NEW a \in Action, NEW e \in Endpoint,
         DeliveryStep(a, e) \/ DeliveryFault(a, e)
  PROVE  TypeInv'
<1> DEFINE old == delivery[a][e]
<1>1. /\ old \in DeliveryState /\ old.attempt \in 0..MaxAttempts
      /\ record \in [Action -> RecordRow] /\ emitted \in [Action -> Nat]
      /\ faults \in 0..MaxFaults /\ lapsed \subseteq Action /\ TypeOK
      /\ MaxAttempts \in Nat /\ MaxFaults \in Nat
  BY PropagationAssumption DEF TypeInv, TypeOK, DeliveryState
<1>2. CASE FetchDelivery(a, e)
  <2> DEFINE new == [old EXCEPT !.phase = "post", !.attempt = old.attempt + 1]
  <2>1. old.attempt + 1 \in 0..MaxAttempts
    BY <1>1, <1>2 DEF FetchDelivery, TypeInv, DeliveriesHaveAttempts
  <2>2. new \in DeliveryState /\ new.phase = "post"
    BY <1>1, <2>1 DEF DeliveryState
  <2>3. delivery' = [delivery EXCEPT ![a][e] = new]
    BY <1>2 DEF FetchDelivery
  <2> HIDE DEF new
  <2> QED BY ZenonT(60), <1>1, <1>2, <2>2, <2>3, DeliveryKeepsTypes DEF FetchDelivery
<1>3. ASSUME NEW status \in {"pending", "succeeded", "failed"}, RecordAttempt(a, e, status)
      PROVE  TypeInv'
  <2> DEFINE new == [old EXCEPT !.status = status, !.phase = AfterAttempt(status)]
  <2>1. new \in DeliveryState /\ new.attempt = old.attempt /\ new.phase = AfterAttempt(status)
    BY <1>1 DEF DeliveryState, AfterAttempt
  <2>2. delivery' = [delivery EXCEPT ![a][e] = new]
    BY <1>3 DEF RecordAttempt
  <2>3. new.phase = "ready" => new.attempt < MaxAttempts
    BY <1>3, <2>1 DEF RecordAttempt, AfterAttempt
  <2>4. UNCHANGED <<action, stamped, txn, record, purge, purgeUrl, faults, covered, emitted,
                  lapsed>>
    BY <1>3 DEF RecordAttempt
  <2> HIDE DEF new
  <2> QED BY <1>1, <2>1, <2>2, <2>3, <2>4, DeliveryKeepsTypes
<1>4. CASE SettleDelivery(a, e)
  <2> DEFINE ready == [old EXCEPT !.phase = "complete", !.seen = Lost(a)]
             last == [old EXCEPT !.phase = "done"]
  <2>1. /\ ready \in DeliveryState /\ ready.phase = "complete"
        /\ last \in DeliveryState /\ last.phase = "done"
    BY <1>1, LostType DEF DeliveryState
  <2>2. \/ delivery' = [delivery EXCEPT ![a][e] = ready]
        \/ delivery' = [delivery EXCEPT ![a][e] = last]
    <3>1. CASE Ready(a)
      <4> DEFINE lost == Lost(a)
      <4>1. delivery' = [delivery EXCEPT ![a][e].phase = "complete", ![a][e].seen = lost]
        BY <1>4, <3>1 DEF SettleDelivery
      <4>2. delivery' = [delivery EXCEPT ![a][e] = ready]
        <5> HIDE DEF lost
        <5>1. ready = [old EXCEPT !.phase = "complete", !.seen = lost]
          BY DEF lost
        <5> QED BY ZenonT(60), <4>1, <5>1
      <4> QED BY <4>2
    <3>2. CASE ~Ready(a)
      <4>1. delivery' = [delivery EXCEPT ![a][e].phase = "done"]
        BY <1>4, <3>2 DEF SettleDelivery, DeliveryGoto
      <4>2. delivery' = [delivery EXCEPT ![a][e] = last]
        BY <4>1
      <4> QED BY <4>2
    <3> QED BY <3>1, <3>2
  <2> HIDE DEF ready, last
  <2> QED BY <1>1, <1>4, <2>1, <2>2, DeliveryKeepsTypes DEF SettleDelivery
<1>5. CASE CompleteDelivery(a, e)
  <2> DEFINE new == [old EXCEPT !.phase = "done", !.seen = 0]
  <2>1. new \in DeliveryState /\ new.phase = "done" /\ old.seen \in Nat
    BY <1>1 DEF DeliveryState
  <2>2. delivery' = [delivery EXCEPT ![a][e] = new]
    BY <1>5 DEF CompleteDelivery
  <2>3. record' \in [Action -> RecordRow] /\ emitted' \in [Action -> Nat]
    BY <1>1, <1>5, <2>1, CompleteType DEF CompleteDelivery
  <2>4. /\ faults' \in 0..MaxFaults /\ lapsed' \subseteq Action
        /\ UNCHANGED <<action, stamped, txn, purge, purgeUrl, covered>>
    BY <1>1, <1>5 DEF CompleteDelivery
  <2> HIDE DEF new
  <2> QED BY <1>1, <2>1, <2>2, <2>3, <2>4, DeliveryKeepsTypes
<1>6. CASE DeliveryFault(a, e)
  <2>1. PICK new \in DeliveryState :
          /\ delivery' = [delivery EXCEPT ![a][e] = new]
          /\ new.phase = "ready" => new.attempt < MaxAttempts
    BY <1>1, <1>6, DeliveryFaultWrites
  <2>2. /\ faults' \in 0..MaxFaults /\ lapsed' \subseteq Action
        /\ UNCHANGED <<action, stamped, txn, record, purge, purgeUrl, covered, emitted>>
    BY <1>1, <1>6, DeliveryFaultWrites
  <2> QED BY <1>1, <2>1, <2>2, DeliveryKeepsTypes
<1> QED BY <1>2, <1>3, <1>4, <1>5, <1>6 DEF DeliveryStep

\* ... and a step that writes one purge.
LEMMA PurgeKeepsTypes ==
  ASSUME TypeInv, NEW q \in Action, NEW new \in PurgeState,
         purge' = [purge EXCEPT ![q] = new],
         new.phase \in {"scheduled", "available"} => new.attempt < MaxPurgeAttempts,
         new.phase \in {"list", "stamp", "settle", "complete"}
           => new.verdict \in {"acknowledged", "failed"},
         new.phase \in {"settle", "complete"} => new.at \in Action,
         record' \in [Action -> RecordRow], emitted' \in [Action -> Nat],
         faults' \in 0..MaxFaults, covered' \subseteq Action, lapsed' \subseteq Action,
         UNCHANGED <<action, stamped, txn, delivery, purgeUrl>>
  PROVE  TypeInv'
<1>1. /\ purge' \in [Action -> PurgeState]
      /\ purge'[q] = new
      /\ \A p \in Action \ {q} : purge'[p] = purge[p]
  BY PurgeWrites DEF TypeInv
<1>2. PurgesHaveAttempts'
  BY <1>1 DEF TypeInv, PurgesHaveAttempts
<1>3. PurgesHaveVerdicts'
  BY <1>1 DEF TypeInv, PurgesHaveVerdicts
<1>4. TypeOK'
  BY <1>1 DEF TypeInv, TypeOK
<1> QED BY <1>2, <1>3, <1>4 DEF TypeInv, DeliveriesHaveAttempts

LEMMA PurgeTypeInv ==
  ASSUME TypeInv, NEW q \in Action, PurgeStep(q) \/ PurgeFault(q)
  PROVE  TypeInv'
<1> DEFINE old == purge[q]
<1>1. /\ old \in PurgeState /\ old.attempt \in 0..MaxPurgeAttempts
      /\ old.verdict \in {"none", "acknowledged", "failed"}
      /\ old.todo \subseteq Action /\ old.at \in Action \cup {None} /\ old.seen \in Nat
      /\ record \in [Action -> RecordRow] /\ emitted \in [Action -> Nat]
      /\ faults \in 0..MaxFaults /\ covered \subseteq Action /\ stamped \subseteq Action
      /\ lapsed \subseteq Action /\ TypeOK
      /\ MaxPurgeAttempts \in Nat /\ MaxFaults \in Nat
  BY PropagationAssumption DEF TypeInv, TypeOK, PurgeState
<1>2. CASE DuePurge(q)
  <2> DEFINE new == [old EXCEPT !.phase = "available"]
  <2>1. new \in PurgeState /\ new.phase = "available" /\ new.attempt = old.attempt
    BY <1>1 DEF PurgeState
  <2>2. new.attempt < MaxPurgeAttempts
    BY <1>2, <2>1 DEF DuePurge, TypeInv, PurgesHaveAttempts
  <2>3. /\ purge' = [purge EXCEPT ![q] = new]
        /\ UNCHANGED <<action, stamped, txn, record, delivery, purgeUrl, faults, covered,
                       emitted, lapsed>>
    BY <1>2 DEF DuePurge, PurgeGoto
  <2> HIDE DEF new
  <2> QED BY <1>1, <2>1, <2>2, <2>3, PurgeKeepsTypes
<1>3. CASE StartPurge(q)
  <2> DEFINE new == [old EXCEPT !.phase = "post", !.attempt = old.attempt + 1,
                                !.begun = stamped]
  <2>1. old.attempt + 1 \in 0..MaxPurgeAttempts
    BY <1>1, <1>3 DEF StartPurge, TypeInv, PurgesHaveAttempts
  <2>2. new \in PurgeState /\ new.phase = "post"
    BY <1>1, <2>1 DEF PurgeState
  <2>3. /\ purge' = [purge EXCEPT ![q] = new]
        /\ UNCHANGED <<action, stamped, txn, record, delivery, purgeUrl, faults, covered,
                       emitted, lapsed>>
    BY <1>3 DEF StartPurge
  <2> HIDE DEF new
  <2> QED BY <1>1, <2>2, <2>3, PurgeKeepsTypes
<1>4. ASSUME NEW answer \in {"acknowledged", "refused", "no_url"}, PostPurge(q, answer)
      PROVE  TypeInv'
  <2> DEFINE verdict == Verdict(q, answer)
             phase == IF verdict = "none" THEN "available" ELSE "list"
             new == [old EXCEPT !.verdict = verdict, !.phase = phase]
  <2>1. /\ verdict \in {"none", "acknowledged", "failed"}
        /\ verdict = "none" => old.attempt < MaxPurgeAttempts
    BY <1>1 DEF Verdict
  <2>2. /\ new \in PurgeState /\ new.phase = phase /\ new.verdict = verdict
        /\ new.attempt = old.attempt
    <3> HIDE DEF verdict
    <3> QED BY <1>1, <2>1 DEF PurgeState
  <2>3. purge' = [purge EXCEPT ![q] = new]
    BY <1>4 DEF PostPurge
  <2>4. /\ covered' \subseteq Action
        /\ UNCHANGED <<action, stamped, txn, record, delivery, purgeUrl, faults, emitted, lapsed>>
    BY <1>1, <1>4 DEF PostPurge
  <2>5. phase \in {"available", "list"} /\ (phase = "available" <=> verdict = "none")
    OBVIOUS
  <2> HIDE DEF new, phase, verdict
  <2> QED BY <1>1, <2>1, <2>2, <2>3, <2>4, <2>5, PurgeKeepsTypes
<1>5. CASE ListPending(q)
  <2> DEFINE new == [old EXCEPT !.phase = "stamp", !.todo = Covers(q)]
  <2>1. Covers(q) \subseteq Action
    BY DEF Covers
  <2>2. new \in PurgeState /\ new.phase = "stamp" /\ new.verdict = old.verdict
    BY <1>1, <2>1 DEF PurgeState
  <2>3. /\ purge' = [purge EXCEPT ![q] = new]
        /\ UNCHANGED <<action, stamped, txn, record, delivery, purgeUrl, faults, covered,
                       emitted, lapsed>>
    BY <1>5 DEF ListPending
  <2>4. old.verdict \in {"acknowledged", "failed"}
    BY <1>5 DEF ListPending, TypeInv, PurgesHaveVerdicts
  <2> HIDE DEF new
  <2> QED BY <1>1, <2>2, <2>3, <2>4, PurgeKeepsTypes
<1>6. ASSUME NEW a \in Action, StampCdn(q, a)
      PROVE  TypeInv'
  <2> DEFINE new == [old EXCEPT !.phase = "settle", !.at = a, !.todo = old.todo \ {a}]
             row == [record[a] EXCEPT !.cdn = old.verdict]
  <2>1. /\ new \in PurgeState /\ new.phase = "settle" /\ new.verdict = old.verdict
        /\ new.at = a
    BY <1>1 DEF PurgeState
  <2>2. old.verdict \in {"acknowledged", "failed"}
    BY <1>6 DEF StampCdn, TypeInv, PurgesHaveVerdicts
  <2>3. row \in RecordRow
    BY <1>1, <2>2 DEF RecordRow
  <2>4. /\ purge' = [purge EXCEPT ![q] = new]
        /\ record' = [record EXCEPT ![a] = row]
        /\ UNCHANGED <<action, stamped, txn, delivery, purgeUrl, faults, covered, emitted,
                       lapsed>>
    BY <1>6 DEF StampCdn
  <2>5. record' \in [Action -> RecordRow]
    BY <1>1, <2>3, <2>4
  <2> HIDE DEF new, row
  <2> QED BY <1>1, <2>1, <2>2, <2>4, <2>5, PurgeKeepsTypes
<1>7. CASE SettlePurge(q)
  <2> DEFINE ready == [old EXCEPT !.phase = "complete", !.seen = Lost(old.at)]
             last == [old EXCEPT !.phase = "stamp", !.at = None]
  <2>1. old.at \in Action /\ old.verdict \in {"acknowledged", "failed"}
    BY <1>7 DEF SettlePurge, TypeInv, PurgesHaveVerdicts
  <2>2. /\ ready \in PurgeState /\ ready.phase = "complete" /\ ready.at = old.at
        /\ ready.verdict = old.verdict
    BY <1>1, <2>1, LostType DEF PurgeState
  <2>3. last \in PurgeState /\ last.phase = "stamp" /\ last.verdict = old.verdict
    BY <1>1 DEF PurgeState
  <2>4. /\ \/ purge' = [purge EXCEPT ![q] = ready]
           \/ purge' = [purge EXCEPT ![q] = last]
        /\ UNCHANGED <<action, stamped, txn, record, delivery, purgeUrl, faults, covered,
                       emitted, lapsed>>
    BY <1>7 DEF SettlePurge
  <2> HIDE DEF ready, last
  <2> QED BY <1>1, <2>1, <2>2, <2>3, <2>4, PurgeKeepsTypes
<1>8. CASE CompletePurge(q)
  <2> DEFINE new == [old EXCEPT !.phase = "stamp", !.at = None, !.seen = 0]
  <2>1. old.at \in Action /\ old.verdict \in {"acknowledged", "failed"}
    BY <1>8 DEF CompletePurge, TypeInv, PurgesHaveVerdicts
  <2>2. new \in PurgeState /\ new.phase = "stamp" /\ new.verdict = old.verdict
    BY <1>1 DEF PurgeState
  <2>3. record' \in [Action -> RecordRow] /\ emitted' \in [Action -> Nat]
    BY <1>1, <1>8, <2>1, CompleteType DEF CompletePurge
  <2>4. /\ purge' = [purge EXCEPT ![q] = new]
        /\ UNCHANGED <<action, stamped, txn, delivery, purgeUrl, faults, covered, lapsed>>
    BY <1>8 DEF CompletePurge
  <2> HIDE DEF new
  <2> QED BY <1>1, <2>1, <2>2, <2>3, <2>4, PurgeKeepsTypes
<1>9. CASE FinishPurge(q)
  <2> DEFINE new == [old EXCEPT !.phase = "done"]
  <2>1. new \in PurgeState /\ new.phase = "done"
    BY <1>1 DEF PurgeState
  <2>2. /\ purge' = [purge EXCEPT ![q] = new]
        /\ UNCHANGED <<action, stamped, txn, record, delivery, purgeUrl, faults, covered,
                       emitted, lapsed>>
    BY <1>9 DEF FinishPurge, PurgeGoto
  <2> HIDE DEF new
  <2> QED BY <1>1, <2>1, <2>2, PurgeKeepsTypes
<1>10. CASE PurgeFault(q)
  <2>1. PICK new \in PurgeState :
          /\ purge' = [purge EXCEPT ![q] = new]
          /\ new.phase \in {"available", "stamp", "done"}
          /\ new.phase = "available" => new.attempt < MaxPurgeAttempts
          /\ new.phase = "stamp" => old.phase \in {"settle", "complete"}
          /\ new.verdict = old.verdict
    BY <1>1, <1>10, PurgeFaultWrites
  <2>2. /\ faults' \in 0..MaxFaults /\ lapsed' \subseteq Action
        /\ UNCHANGED <<action, stamped, txn, record, delivery, purgeUrl, covered, emitted>>
    BY <1>1, <1>10, PurgeFaultWrites
  <2>3. new.phase = "stamp" => new.verdict \in {"acknowledged", "failed"}
    BY <2>1 DEF TypeInv, PurgesHaveVerdicts
  <2> QED BY <1>1, <2>1, <2>2, <2>3, PurgeKeepsTypes
<1> QED BY <1>2, <1>3, <1>4, <1>5, <1>6, <1>7, <1>8, <1>9, <1>10 DEF PurgeStep

LEMMA NextTypeInv == TypeInv /\ [Next]_vars => TypeInv'
<1> SUFFICES ASSUME TypeInv, [Next]_vars
             PROVE  TypeInv'
  OBVIOUS
<1>1. ASSUME NEW a \in Action, NEW event \in Event, Commit(a, event)
      PROVE  TypeInv'
  <2>1. action' \in [Action -> ActionState]
    <3> DEFINE new == [action[a] EXCEPT !.phase = "committed", !.event = event]
    <3>1. action \in [Action -> ActionState] /\ action[a] \in ActionState
      BY DEF TypeInv, TypeOK
    <3>2. new \in ActionState
      BY <3>1 DEF ActionState
    <3>3. action' = [action EXCEPT ![a] = new]
      BY <1>1 DEF Commit
    <3> QED BY <3>1, <3>2, <3>3
  <2> QED BY <1>1, <2>1 DEF Commit, TypeInv, TypeOK, DeliveriesHaveAttempts,
             PurgesHaveAttempts, PurgesHaveVerdicts
<1>2. CASE UnsetPurgeUrl
  BY <1>2 DEF UnsetPurgeUrl, TypeInv, TypeOK, DeliveriesHaveAttempts, PurgesHaveAttempts,
              PurgesHaveVerdicts
<1>3. ASSUME NEW a \in Action, DispatchFault(a)
      PROVE  TypeInv'
  <2>1. /\ faults' \in 0..MaxFaults /\ lapsed' = lapsed \cup {a}
        /\ UNCHANGED <<stamped, txn, delivery, purge, purgeUrl, covered, emitted>>
        /\ action' \in [Action -> ActionState] /\ record' \in [Action -> RecordRow]
    BY <1>3, DispatchFaultWrites DEF TypeInv
  <2> QED BY <2>1 DEF TypeInv, TypeOK, DeliveriesHaveAttempts, PurgesHaveAttempts,
             PurgesHaveVerdicts
<1>4. CASE UNCHANGED vars
  BY <1>4 DEF vars, TypeInv, TypeOK, DeliveriesHaveAttempts, PurgesHaveAttempts,
              PurgesHaveVerdicts
<1> QED BY <1>1, <1>2, <1>3, <1>4, DispatchTypeInv, ReleaseTypeInv, DeliveryTypeInv,
           PurgeTypeInv DEF Next, Fault

\* Every variable keeps its type: no delivery and no purge is attempted more often
\* than it may be, and a record is stamped with nothing but a purge's verdict.
THEOREM TypeCorrect == Spec => []TypeOK
<1>1. TypeInv => TypeOK
  BY DEF TypeInv
<1> QED BY <1>1, InitTypeInv, NextTypeInv, PTL DEF Spec
-----------------------------------------------------------------------------
(* Records.  A record is opened once, then stamped by purges and completed  *)
(* by whoever ends last.  That it is completed once and never before its   *)
(* purge rests on what a settler saw when it read the record.              *)

\* The record of action a cannot have been inserted yet.
NotOpened(a) ==
  IF a \in Release THEN txn # "committed"
  ELSE action[a].phase \in {"idle", "committed", "stamped"}

\* Only an action outside a release goes through the phases of its own process.
DispatchOrder ==
  \A a \in Release : action[a].phase \notin {"committed", "enqueue"}

\* Before that there is no record and no delivery.
UnopenedBlank ==
  \A a \in Action :
    NotOpened(a) => /\ record[a] = NoRecord
                    /\ \A e \in Endpoint : delivery[a][e].phase = "none"

\* A purge worker holds records that were inserted.
PurgesHoldOpened ==
  \A q \in Action :
    /\ \A a \in purge[q].todo : ~NotOpened(a)
    /\ purge[q].phase \in {"settle", "complete"} => ~NotOpened(purge[q].at)

\* A settler that is about to complete a record saw its purge ended, and it is.
SettlersSawPurge ==
  /\ \A a \in Action, e \in Endpoint :
       delivery[a][e].phase = "complete" => record[a].cdn # "pending"
  /\ \A q \in Action :
       purge[q].phase = "complete" => record[purge[q].at].cdn # "pending"

RecordInv ==
  /\ TypeInv
  /\ DispatchOrder
  /\ UnopenedBlank
  /\ PurgesHoldOpened
  /\ SettlersSawPurge
  /\ EmittedOnce
  /\ CompletedAfterPurge

LEMMA InitRecordInv == Init => RecordInv
<1> SUFFICES ASSUME Init PROVE RecordInv
  OBVIOUS
<1>1. DispatchOrder
  BY PropagationAssumption DEF Init, DispatchOrder, IdleAction
<1>2. UnopenedBlank
  BY DEF Init, UnopenedBlank, NoDelivery
<1>3. PurgesHoldOpened /\ SettlersSawPurge
  BY DEF Init, PurgesHoldOpened, SettlersSawPurge, NoPurge, NoDelivery
<1>4. EmittedOnce /\ CompletedAfterPurge
  BY DEF Init, EmittedOnce, CompletedAfterPurge, NoRecord
<1> QED BY <1>1, <1>2, <1>3, <1>4, InitTypeInv DEF RecordInv

\* Who writes what.
LEMMA ActionSteps ==
  ASSUME TypeOK, [Next]_vars
  PROVE  \/ UNCHANGED <<action, txn>>
         \/ \E a \in Action, event \in Event : Commit(a, event)
         \/ \E a \in Action : DispatchStep(a)
         \/ ReleaseStep
         \/ \E a \in Action : DispatchFault(a)
<1>1. ASSUME NEW q \in Action, PurgeStep(q) \/ PurgeFault(q)
      PROVE  UNCHANGED <<action, txn>>
  BY <1>1, PurgeFaultWrites
     DEF PurgeStep, DuePurge, StartPurge, PostPurge, ListPending, StampCdn, SettlePurge,
         CompletePurge, FinishPurge
<1>2. ASSUME NEW a \in Action, NEW e \in Endpoint, DeliveryStep(a, e) \/ DeliveryFault(a, e)
      PROVE  UNCHANGED <<action, txn>>
  BY <1>2, DeliveryFaultWrites
     DEF DeliveryStep, FetchDelivery, RecordAttempt, SettleDelivery, CompleteDelivery
<1>3. CASE UnsetPurgeUrl \/ UNCHANGED vars
  BY <1>3 DEF UnsetPurgeUrl, vars
<1> QED BY <1>1, <1>2, <1>3 DEF Next, Fault

LEMMA NextDispatchOrder ==
  ASSUME TypeOK, DispatchOrder, [Next]_vars
  PROVE  DispatchOrder'
<1> SUFFICES ASSUME NEW b \in Release, b \in Action, action[b] \in ActionState
             PROVE  action'[b].phase \notin {"committed", "enqueue"}
  BY PropagationAssumption DEF DispatchOrder, TypeOK
<1>1. action[b].phase \notin {"committed", "enqueue"}
  BY DEF DispatchOrder
<1>2. CASE UNCHANGED <<action, txn>>
  BY <1>1, <1>2
<1>3. ASSUME NEW a \in Action, NEW event \in Event, Commit(a, event)
      PROVE  action'[b].phase \notin {"committed", "enqueue"}
  BY <1>1, <1>3 DEF Commit, TypeOK
<1>4. ASSUME NEW a \in Action, DispatchStep(a)
      PROVE  action'[b].phase \notin {"committed", "enqueue"}
  <2>1. CASE a = b
    BY <1>1, <1>4, <2>1 DEF DispatchStep, StampAfterCommit, OpenRecord, EnqueueDelivery,
                             FannedOut, EnqueuePurge
  <2>2. CASE a # b
    <3>1. action'[b] = action[b]
      BY <1>4, <2>2 DEF DispatchStep, StampAfterCommit, Stamp, OpenRecord, EnqueueDelivery,
                        FannedOut, EnqueuePurge, TypeOK
    <3> QED BY <1>1, <3>1
  <2> QED BY <2>1, <2>2
<1>5. CASE ReleaseStep
  <2>1. ASSUME NEW a \in Action, NEW event \in Event, NEW targets \in SUBSET Endpoint,
               StampInRelease(a, event, targets)
        PROVE  action'[b].phase \notin {"committed", "enqueue"}
    BY <1>1, <2>1 DEF StampInRelease, Stamp, TypeOK
  <2>2. CASE CommitRelease
    <3>1. action'[b] = [action[b] EXCEPT !.phase = "done", !.todo = {}]
      BY <2>2 DEF CommitRelease
    <3> QED BY <3>1 DEF ActionState
  <2>3. CASE RollBackRelease
    <3>1. action'[b] = [action[b] EXCEPT !.phase = "rolled_back"]
      BY <2>3 DEF RollBackRelease
    <3> QED BY <3>1 DEF ActionState
  <2> QED BY <1>5, <2>1, <2>2, <2>3 DEF ReleaseStep
<1>6. ASSUME NEW a \in Action, DispatchFault(a)
      PROVE  action'[b].phase \notin {"committed", "enqueue"}
  BY <1>1, <1>6, DispatchFaultWrites
<1> QED BY <1>2, <1>3, <1>4, <1>5, <1>6, ActionSteps

\* Once a record can have been inserted, that remains so.
LEMMA OpenedForGood ==
  ASSUME TypeOK, DispatchOrder, [Next]_vars, NEW b \in Action, ~NotOpened(b)
  PROVE  ~NotOpened(b)'
<1>1. action[b] \in ActionState
  BY DEF TypeOK
<1>2. CASE UNCHANGED <<action, txn>>
  BY <1>2 DEF NotOpened
<1>3. ASSUME NEW a \in Action, NEW event \in Event, Commit(a, event)
      PROVE  ~NotOpened(b)'
  BY <1>3 DEF Commit, NotOpened, TypeOK
<1>4. ASSUME NEW a \in Action, DispatchStep(a)
      PROVE  ~NotOpened(b)'
  <2>0. txn' = txn
    BY <1>4 DEF DispatchStep, StampAfterCommit, Stamp, OpenRecord, EnqueueDelivery, FannedOut,
                EnqueuePurge
  <2>1. CASE a = b /\ b \notin Release
    <3>1. action[b].phase \in {"enqueue", "purge"}
      BY <1>4, <2>1 DEF DispatchStep, StampAfterCommit, OpenRecord, EnqueueDelivery,
                        FannedOut, EnqueuePurge, NotOpened
    <3>2. \/ EnqueuePurge(b) \/ FannedOut(b)
          \/ \E e \in Endpoint : EnqueueDelivery(b, e)
      BY <1>4, <2>1, <3>1 DEF DispatchStep, StampAfterCommit, OpenRecord
    <3>3. CASE EnqueuePurge(b)
      <4>1. action' = [action EXCEPT ![b].phase = "done"]
        BY <3>3 DEF EnqueuePurge
      <4> QED BY <2>1, <4>1 DEF NotOpened, TypeOK
    <3>4. CASE FannedOut(b)
      <4>1. action' = [action EXCEPT ![b].phase = "purge"]
        BY <3>4 DEF FannedOut
      <4> QED BY <2>1, <4>1 DEF NotOpened, TypeOK
    <3>5. ASSUME NEW e \in Endpoint, EnqueueDelivery(b, e)
          PROVE  ~NotOpened(b)'
      <4>1. action' = [action EXCEPT ![b].todo = @ \ {e}]
        BY <3>5 DEF EnqueueDelivery
      <4>2. action'[b].phase = action[b].phase
        BY <1>1, <4>1 DEF TypeOK, ActionState
      <4> QED BY <2>1, <3>1, <4>2 DEF NotOpened
    <3> QED BY <3>2, <3>3, <3>4, <3>5
  <2>2. CASE a # b
    <3>1. action'[b] = action[b]
      BY <1>4, <2>2 DEF DispatchStep, StampAfterCommit, Stamp, OpenRecord, EnqueueDelivery,
                        FannedOut, EnqueuePurge, TypeOK
    <3> QED BY <2>0, <3>1 DEF NotOpened
  <2>3. CASE b \in Release
    BY <2>0, <2>3 DEF NotOpened
  <2> QED BY <2>1, <2>2, <2>3
<1>5. CASE ReleaseStep
  <2>1. CASE b \in Release
    BY <1>5, <2>1 DEF ReleaseStep, StampInRelease, CommitRelease, RollBackRelease, NotOpened
  <2>2. CASE b \notin Release
    <3>1. action'[b] = action[b]
      BY <1>5, <2>2 DEF ReleaseStep, StampInRelease, Stamp, CommitRelease, RollBackRelease,
                        TypeOK
    <3> QED BY <2>2, <3>1 DEF NotOpened
  <2> QED BY <2>1, <2>2
<1>6. ASSUME NEW a \in Action, DispatchFault(a)
      PROVE  ~NotOpened(b)'
  BY <1>6, DispatchFaultWrites DEF NotOpened
<1> QED BY <1>2, <1>3, <1>4, <1>5, <1>6, ActionSteps

\* The five things a step may do to a record.
Untouched(a) == record'[a] = record[a] /\ emitted'[a] = emitted[a]

Inserted(a) ==
  /\ NotOpened(a) /\ ~NotOpened(a)'
  /\ record'[a] = Opened(a)
  /\ emitted'[a] = IF NothingToWaitFor(a) THEN emitted[a] + 1 ELSE emitted[a]

\* Inserted, but not settled though there is nothing to wait for.
HalfInserted(a) ==
  /\ NotOpened(a) /\ ~NotOpened(a)' /\ NothingToWaitFor(a) /\ a \in lapsed'
  /\ record'[a] = [Opened(a) EXCEPT !.state = "open"]
  /\ emitted'[a] = emitted[a]

StampedBy(q, a) ==
  /\ purge[q].phase = "stamp" /\ a \in purge[q].todo
  /\ record'[a] = [record[a] EXCEPT !.cdn = purge[q].verdict]
  /\ emitted'[a] = emitted[a]

Completed(a) ==
  /\ record[a].state = "open" /\ record[a].cdn # "pending"
  /\ \E seen \in Nat : record'[a] = [record[a] EXCEPT !.state = "completed", !.failed = seen]
  /\ emitted'[a] = emitted[a] + 1

RecordChange(a) ==
  \/ Untouched(a) \/ Inserted(a) \/ HalfInserted(a) \/ Completed(a)
  \/ \E q \in Action : StampedBy(q, a)

LEMMA HalfOpenedRow ==
  ASSUME TypeOK, NEW a \in Action, HalfInserted(a)
  PROVE  record'[a].state = "open" /\ record'[a].cdn = "not_configured"
BY OpenedRow DEF HalfInserted, Opened, NothingToWaitFor, RecordRow

LEMMA CompleteChanges ==
  ASSUME TypeOK, NEW a \in Action, NEW b \in Action, NEW seen \in Nat,
         record[b].cdn # "pending", Complete(b, seen)
  PROVE  Untouched(a) \/ Completed(a)
<1>1. CASE UNCHANGED <<record, emitted>>
  BY <1>1 DEF Untouched
<1>2. CASE /\ Unsettled(b)
           /\ record' = [record EXCEPT ![b].state = "completed", ![b].failed = seen]
           /\ emitted' = [emitted EXCEPT ![b] = @ + 1]
  <2>1. CASE a = b
    <3>1. record'[a] = [record[a] EXCEPT !.state = "completed", !.failed = seen]
      BY <1>2, <2>1 DEF TypeOK
    <3> QED BY <1>2, <2>1, <3>1 DEF Completed, Unsettled, TypeOK
  <2>2. CASE a # b
    BY <1>2, <2>2 DEF Untouched, TypeOK
  <2> QED BY <2>1, <2>2
<1> QED BY <1>1, <1>2 DEF Complete

\* Who writes a record.
LEMMA RecordWriters ==
  ASSUME TypeOK, [Next]_vars
  PROVE  \/ UNCHANGED <<record, emitted>>
         \/ \E b \in Action : DispatchFault(b)
         \/ \E b \in Action : OpenRecord(b)
         \/ CommitRelease
         \/ \E b \in Action, e \in Endpoint : CompleteDelivery(b, e)
         \/ \E q \in Action : CompletePurge(q)
         \/ \E q \in Action, b \in Action : StampCdn(q, b)
<1>1. ASSUME NEW b \in Action, DispatchStep(b), ~OpenRecord(b)
      PROVE  UNCHANGED <<record, emitted>>
  BY <1>1 DEF DispatchStep, StampAfterCommit, Stamp, EnqueueDelivery, FannedOut, EnqueuePurge
<1>2. CASE ReleaseStep /\ ~CommitRelease
  BY <1>2 DEF ReleaseStep, StampInRelease, Stamp, RollBackRelease
<1>3. ASSUME NEW b \in Action, NEW e \in Endpoint, DeliveryStep(b, e) \/ DeliveryFault(b, e),
             ~CompleteDelivery(b, e)
      PROVE  UNCHANGED <<record, emitted>>
  BY <1>3, DeliveryFaultWrites DEF DeliveryStep, FetchDelivery, RecordAttempt, SettleDelivery
<1>4. ASSUME NEW q \in Action, PurgeStep(q) \/ PurgeFault(q), ~CompletePurge(q),
             ~\E b \in Action : StampCdn(q, b)
      PROVE  UNCHANGED <<record, emitted>>
  BY <1>4, PurgeFaultWrites DEF PurgeStep, DuePurge, StartPurge, PostPurge, ListPending,
              SettlePurge, FinishPurge
<1>5. CASE \/ UNCHANGED vars \/ UnsetPurgeUrl
           \/ \E b \in Action, event \in Event : Commit(b, event)
  BY <1>5 DEF vars, UnsetPurgeUrl, Commit
<1> QED BY <1>1, <1>2, <1>3, <1>4, <1>5 DEF Next, Fault

LEMMA RecordChanges ==
  ASSUME RecordInv, [Next]_vars, NEW a \in Action
  PROVE  RecordChange(a)
<1>1. TypeOK /\ TypeInv
  BY DEF RecordInv, TypeInv
<1>2. CASE UNCHANGED <<record, emitted>>
  BY <1>2 DEF RecordChange, Untouched
<1>3. ASSUME NEW b \in Action, OpenRecord(b)
      PROVE  RecordChange(a)
  <2>1. CASE a = b
    <3>1. NotOpened(a) /\ ~NotOpened(a)'
      BY <1>1, <1>3, <2>1 DEF OpenRecord, NotOpened, TypeOK, ActionState
    <3> QED BY <1>1, <1>3, <2>1, <3>1 DEF OpenRecord, RecordChange, Inserted, TypeOK
  <2>2. CASE a # b
    BY <1>1, <1>3, <2>2 DEF OpenRecord, RecordChange, Untouched, TypeOK
  <2> QED BY <2>1, <2>2
<1>4. CASE CommitRelease
  <2>1. CASE a \in Release /\ IsTransition(action[a].event)
    <3>1. NotOpened(a) /\ ~NotOpened(a)'
      BY <1>4, <2>1 DEF CommitRelease, NotOpened
    <3> QED BY <1>4, <2>1, <3>1 DEF CommitRelease, RecordChange, Inserted
  <2>2. CASE ~(a \in Release /\ IsTransition(action[a].event))
    BY <1>4, <2>2 DEF CommitRelease, RecordChange, Untouched
  <2> QED BY <2>1, <2>2
<1>5. ASSUME NEW b \in Action, NEW e \in Endpoint, CompleteDelivery(b, e)
      PROVE  RecordChange(a)
  <2>1. delivery[b][e].seen \in Nat
    BY <1>1 DEF TypeOK, DeliveryState
  <2>2. record[b].cdn # "pending"
    BY <1>5 DEF CompleteDelivery, RecordInv, SettlersSawPurge
  <2> QED BY <1>1, <1>5, <2>1, <2>2, CompleteChanges DEF CompleteDelivery, RecordChange
<1>6. ASSUME NEW q \in Action, CompletePurge(q)
      PROVE  RecordChange(a)
  <2>1. purge[q].seen \in Nat /\ purge[q].at \in Action
    BY <1>1, <1>6 DEF CompletePurge, TypeInv, PurgesHaveVerdicts, TypeOK, PurgeState
  <2>2. record[purge[q].at].cdn # "pending"
    BY <1>6 DEF CompletePurge, RecordInv, SettlersSawPurge
  <2> QED BY <1>1, <1>6, <2>1, <2>2, CompleteChanges DEF CompletePurge, RecordChange
<1>7. ASSUME NEW q \in Action, NEW b \in Action, StampCdn(q, b)
      PROVE  RecordChange(a)
  <2>1. CASE a = b
    <3>1. record'[a] = [record[a] EXCEPT !.cdn = purge[q].verdict]
      BY <1>1, <1>7, <2>1 DEF StampCdn, TypeOK
    <3>2. StampedBy(q, a)
      BY <1>7, <2>1, <3>1 DEF StampCdn, StampedBy
    <3> QED BY <3>2 DEF RecordChange
  <2>2. CASE a # b
    BY <1>1, <1>7, <2>2 DEF StampCdn, RecordChange, Untouched, TypeOK
  <2> QED BY <2>1, <2>2
<1>8. ASSUME NEW b \in Action, DispatchFault(b)
      PROVE  RecordChange(a)
  <2>1. /\ lapsed' = lapsed \cup {b} /\ UNCHANGED <<emitted, txn>>
        /\ action'[b].phase \in {"enqueue", "purge", "done"}
        /\ a # b => record'[a] = record[a]
        /\ \/ record' = record
           \/ /\ b \notin Release /\ action[b].phase = "stamped" /\ NothingToWaitFor(b)
              /\ record'[b] = [Opened(b) EXCEPT !.state = "open"]
    BY <1>1, <1>8, DispatchFaultWrites
  <2>2. CASE record'[a] = record[a]
    BY <2>1, <2>2 DEF RecordChange, Untouched
  <2>3. CASE /\ a = b /\ b \notin Release /\ action[b].phase = "stamped" /\ NothingToWaitFor(b)
             /\ record'[b] = [Opened(b) EXCEPT !.state = "open"]
    <3>1. NotOpened(a) /\ ~NotOpened(a)'
      BY <2>1, <2>3 DEF NotOpened
    <3> QED BY <2>1, <2>3, <3>1 DEF RecordChange, HalfInserted
  <2> QED BY <2>1, <2>2, <2>3
<1> QED BY <1>1, <1>2, <1>3, <1>4, <1>5, <1>6, <1>7, <1>8, RecordWriters

\* A delivery starts only for an inserted record, and is about to complete one
\* only after it read that it is ready.
DeliveryChange(a, e) ==
  \/ delivery'[a][e] = delivery[a][e]
  \/ delivery[a][e].phase # "none" /\ delivery'[a][e].phase # "complete"
  \/ delivery[a][e].phase # "none" /\ Ready(a) /\ UNCHANGED record
  \/ ~NotOpened(a)' /\ delivery'[a][e].phase = "ready"

LEMMA DeliveryChanges ==
  ASSUME RecordInv, [Next]_vars, NEW a \in Action, NEW e \in Endpoint
  PROVE  DeliveryChange(a, e)
<1>1. TypeOK /\ DispatchOrder
  BY DEF RecordInv, TypeInv
<1>2. CASE UNCHANGED delivery
  BY <1>2 DEF DeliveryChange
<1>3. ASSUME NEW b \in Action, NEW f \in Endpoint, EnqueueDelivery(b, f)
      PROVE  DeliveryChange(a, e)
  <2>1. CASE a = b /\ e = f
    <3>1. b \notin Release
      BY <1>1, <1>3 DEF EnqueueDelivery, DispatchOrder
    <3>2. action' = [action EXCEPT ![b].todo = @ \ {f}]
      BY <1>3 DEF EnqueueDelivery
    <3>3. action'[b].phase = "enqueue"
      BY <1>1, <1>3, <3>2 DEF EnqueueDelivery, TypeOK, ActionState
    <3>4. ~NotOpened(b)'
      BY <3>1, <3>3 DEF NotOpened
    <3>5. delivery'[a][e] = NewDelivery
      BY <1>1, <1>3, <2>1 DEF EnqueueDelivery, TypeOK
    <3> QED BY <2>1, <3>4, <3>5, NewRows DEF DeliveryChange
  <2>2. CASE ~(a = b /\ e = f)
    BY <1>1, <1>3, <2>2 DEF EnqueueDelivery, DeliveryChange, TypeOK
  <2> QED BY <2>1, <2>2
<1>4. CASE CommitRelease
  <2>1. CASE a \in Release /\ e \in action[a].todo
    <3>1. delivery'[a][e] = NewDelivery
      BY <1>4, <2>1 DEF CommitRelease
    <3>2. ~NotOpened(a)'
      BY <1>4, <2>1 DEF CommitRelease, NotOpened
    <3> QED BY <3>1, <3>2, NewRows DEF DeliveryChange
  <2>2. CASE ~(a \in Release /\ e \in action[a].todo)
    BY <1>4, <2>2 DEF CommitRelease, DeliveryChange
  <2> QED BY <2>1, <2>2
<1>5. ASSUME NEW b \in Action, NEW f \in Endpoint, DeliveryStep(b, f) \/ DeliveryFault(b, f)
      PROVE  DeliveryChange(a, e)
  <2>1. CASE a = b /\ e = f
    <3>1. delivery[a][e].phase # "none"
      BY <1>1, <1>5, <2>1, DeliveryFaultWrites
         DEF DeliveryStep, FetchDelivery, RecordAttempt, SettleDelivery, CompleteDelivery
    <3>2. CASE delivery'[a][e].phase = "complete"
      <4> delivery \in [Action -> [Endpoint -> DeliveryState]]
        BY <1>1 DEF TypeOK
      <4>1. delivery'[a][e].phase # "complete" \/ SettleDelivery(a, e)
        <5>1. CASE FetchDelivery(a, e)
          BY <5>1 DEF FetchDelivery, DeliveryState
        <5>2. ASSUME NEW status \in {"pending", "succeeded", "failed"},
                     RecordAttempt(a, e, status)
              PROVE  delivery'[a][e].phase # "complete"
          <6>1. AfterAttempt(status) # "complete"
            BY DEF AfterAttempt
          <6> QED BY <5>2, <6>1 DEF RecordAttempt, DeliveryState
        <5>3. CASE CompleteDelivery(a, e)
          BY <5>3 DEF CompleteDelivery, DeliveryState
        <5>4. CASE DeliveryFault(a, e)
          BY <1>1, <5>4, DeliveryFaultWrites
        <5> QED BY <1>5, <2>1, <5>1, <5>2, <5>3, <5>4 DEF DeliveryStep
      <4>2. ASSUME SettleDelivery(a, e), ~Ready(a)
            PROVE  FALSE
        BY <3>2, <4>2 DEF SettleDelivery, DeliveryGoto, DeliveryState
      <4>3. SettleDelivery(a, e) /\ Ready(a)
        BY <3>2, <4>1, <4>2
      <4> QED BY <3>1, <4>3 DEF SettleDelivery, DeliveryChange
    <3> QED BY <3>1, <3>2 DEF DeliveryChange
  <2>2. CASE ~(a = b /\ e = f)
    <3>1. CASE DeliveryStep(b, f)
      BY <1>1, <2>2, <3>1
         DEF DeliveryStep, FetchDelivery, RecordAttempt, SettleDelivery, DeliveryGoto,
             CompleteDelivery, DeliveryChange, TypeOK
    <3>2. CASE DeliveryFault(b, f)
      BY <1>1, <2>2, <3>2, DeliveryFaultWrites DEF DeliveryChange, TypeOK
    <3> QED BY <1>5, <3>1, <3>2
  <2> QED BY <2>1, <2>2
<1>6. \/ UNCHANGED delivery
      \/ \E b \in Action, f \in Endpoint : EnqueueDelivery(b, f)
      \/ CommitRelease
      \/ \E b \in Action, f \in Endpoint : DeliveryStep(b, f) \/ DeliveryFault(b, f)
  <2>1. ASSUME NEW b \in Action, DispatchStep(b),
               ~\E f \in Endpoint : EnqueueDelivery(b, f)
        PROVE  UNCHANGED delivery
    BY <2>1 DEF DispatchStep, StampAfterCommit, Stamp, OpenRecord, FannedOut, EnqueuePurge
  <2>2. CASE ReleaseStep /\ ~CommitRelease
    BY <2>2 DEF ReleaseStep, StampInRelease, Stamp, RollBackRelease
  <2>3. ASSUME NEW q \in Action, PurgeStep(q) \/ PurgeFault(q)
        PROVE  UNCHANGED delivery
    BY <1>1, <2>3, PurgeFaultWrites
       DEF PurgeStep, DuePurge, StartPurge, PostPurge, ListPending, StampCdn, SettlePurge,
           CompletePurge, FinishPurge
  <2>4. CASE \/ UNCHANGED vars \/ UnsetPurgeUrl
             \/ \E b \in Action : DispatchFault(b)
             \/ \E b \in Action, event \in Event : Commit(b, event)
    BY <1>1, <2>4, DispatchFaultWrites DEF vars, UnsetPurgeUrl, Commit
  <2> QED BY <2>1, <2>2, <2>3, <2>4 DEF Next, Fault
<1> QED BY <1>2, <1>3, <1>4, <1>5, <1>6

\* Who writes the state of a purge.
LEMMA PurgeSteps ==
  ASSUME TypeOK, [Next]_vars, NEW q \in Action
  PROVE  \/ purge'[q] = purge[q]
         \/ \E inTxn \in BOOLEAN : purge'[q] = NewPurge(inTxn)
         \/ PurgeStep(q) \/ PurgeFault(q)
<1>1. \/ UNCHANGED purge
      \/ \E p \in Action, inTxn \in BOOLEAN : purge' = [purge EXCEPT ![p] = NewPurge(inTxn)]
      \/ \E p \in Action : PurgeStep(p) \/ PurgeFault(p)
  <2>1. ASSUME NEW a \in Action, DispatchStep(a)
        PROVE  UNCHANGED purge \/ purge' = [purge EXCEPT ![a] = NewPurge(FALSE)]
    BY <2>1 DEF DispatchStep, StampAfterCommit, Stamp, OpenRecord, EnqueueDelivery,
                FannedOut, EnqueuePurge
  <2>2. CASE CommitRelease
    <3> DEFINE purging == {a \in Release : action[a].purging /\ ~action[a].absorbed}
               first == CHOOSE a \in purging : TRUE
    <3>1. purging # {} => first \in Action
      BY PropagationAssumption
    <3>2. \/ purging = {} /\ UNCHANGED purge
          \/ purging # {} /\ purge' = [purge EXCEPT ![first] = NewPurge(TRUE)]
      BY <2>2 DEF CommitRelease
    <3> HIDE DEF first, purging
    <3> QED BY <3>1, <3>2
  <2>3. CASE ReleaseStep /\ ~CommitRelease
    BY <2>3 DEF ReleaseStep, StampInRelease, Stamp, RollBackRelease
  <2>4. ASSUME NEW b \in Action, NEW f \in Endpoint, DeliveryStep(b, f) \/ DeliveryFault(b, f)
        PROVE  UNCHANGED purge
    BY <2>4, DeliveryFaultWrites
       DEF DeliveryStep, FetchDelivery, RecordAttempt, SettleDelivery, CompleteDelivery
  <2>5. CASE \/ UNCHANGED vars \/ UnsetPurgeUrl
             \/ \E b \in Action : DispatchFault(b)
             \/ \E b \in Action, event \in Event : Commit(b, event)
    BY <2>5, DispatchFaultWrites DEF vars, UnsetPurgeUrl, Commit
  <2> QED BY <2>1, <2>2, <2>3, <2>4, <2>5 DEF Next, Fault
<1>2. ASSUME NEW p \in Action \ {q}, PurgeStep(p) \/ PurgeFault(p)
      PROVE  purge'[q] = purge[q]
  <2>1. CASE PurgeStep(p)
    BY <2>1 DEF PurgeStep, DuePurge, StartPurge, PostPurge, ListPending, StampCdn, SettlePurge,
                CompletePurge, FinishPurge, PurgeGoto, TypeOK
  <2>2. CASE PurgeFault(p)
    BY <2>2, PurgeFaultWrites DEF TypeOK
  <2> QED BY <1>2, <2>1, <2>2
<1> QED BY <1>1, <1>2 DEF TypeOK

\* A purge holds only records it read as pending, and is about to complete one
\* only after it read that it is ready.
PurgeChange(q) ==
  \/ purge'[q] = purge[q]
  \/ /\ purge'[q].todo \subseteq purge[q].todo \cup Covers(q)
     /\ \/ purge'[q].phase \notin {"settle", "complete"}
        \/ purge'[q].phase = "settle" /\ purge'[q].at \in purge[q].todo
        \/ /\ purge'[q].phase = "complete" /\ purge[q].phase = "settle"
           /\ purge'[q].at = purge[q].at
           /\ Ready(purge[q].at) /\ UNCHANGED record

LEMMA PurgeChanges ==
  ASSUME TypeOK, [Next]_vars, NEW q \in Action
  PROVE  PurgeChange(q)
<1> purge \in [Action -> PurgeState]
  BY DEF TypeOK
<1>1. ASSUME NEW inTxn \in BOOLEAN, purge'[q] = NewPurge(inTxn)
      PROVE  PurgeChange(q)
  BY <1>1 DEF NewPurge, NoPurge, PurgeChange
<1>2. CASE \/ DuePurge(q) \/ StartPurge(q) \/ CompletePurge(q) \/ FinishPurge(q)
  BY <1>2 DEF DuePurge, StartPurge, CompletePurge, FinishPurge, PurgeGoto, PurgeChange,
              PurgeState
<1>3. ASSUME NEW answer \in {"acknowledged", "refused", "no_url"}, PostPurge(q, answer)
      PROVE  PurgeChange(q)
  BY <1>3 DEF PostPurge, PurgeChange, PurgeState
<1>4. CASE ListPending(q)
  BY <1>4 DEF ListPending, PurgeChange, PurgeState
<1>5. ASSUME NEW a \in Action, StampCdn(q, a)
      PROVE  PurgeChange(q)
  BY <1>5 DEF StampCdn, PurgeChange, PurgeState
<1>6. CASE SettlePurge(q)
  BY <1>6 DEF SettlePurge, PurgeChange, PurgeState
<1>7. CASE purge'[q] = purge[q]
  BY <1>7 DEF PurgeChange
<1>8. CASE PurgeFault(q)
  <2>1. PICK new \in PurgeState :
          /\ purge' = [purge EXCEPT ![q] = new]
          /\ new.phase \in {"available", "stamp", "done"}
          /\ new.todo \subseteq purge[q].todo
    BY <1>8, PurgeFaultWrites
  <2>2. purge'[q] = new
    BY <2>1
  <2> QED BY <2>1, <2>2 DEF PurgeChange
<1> QED BY <1>1, <1>2, <1>3, <1>4, <1>5, <1>6, <1>7, <1>8, PurgeSteps DEF PurgeStep

LEMMA NextRecordInv == RecordInv /\ [Next]_vars => RecordInv'
<1> SUFFICES ASSUME RecordInv, [Next]_vars PROVE RecordInv'
  OBVIOUS
<1>1. TypeInv /\ TypeOK /\ DispatchOrder
  BY DEF RecordInv, TypeInv
<1>2. TypeInv' /\ TypeOK' /\ DispatchOrder'
  BY <1>1, NextTypeInv, NextDispatchOrder DEF TypeInv
<1>3. ASSUME NEW a \in Action, NotOpened(a)'
      PROVE  NotOpened(a)
  BY <1>1, <1>3, OpenedForGood
<1>4. ASSUME NEW q \in Action, NEW a \in Action, StampedBy(q, a)
      PROVE  /\ record'[a].cdn \in {"acknowledged", "failed"}
             /\ record'[a].state = record[a].state
             /\ ~NotOpened(a)
  <2>1. record[a] \in RecordRow
    BY <1>1 DEF TypeOK
  <2>2. purge[q].verdict \in {"acknowledged", "failed"}
    BY <1>1, <1>4 DEF StampedBy, TypeInv, PurgesHaveVerdicts
  <2>3. ~NotOpened(a)
    BY <1>4 DEF StampedBy, RecordInv, PurgesHoldOpened
  <2> QED BY <1>4, <2>1, <2>2, <2>3 DEF StampedBy, RecordRow
<1>5. ASSUME NEW a \in Action, Completed(a)
      PROVE  /\ record'[a].cdn = record[a].cdn
             /\ record'[a].state = "completed"
             /\ ~NotOpened(a)
  <2>1. record[a] \in RecordRow
    BY <1>1 DEF TypeOK
  <2>2. ~NotOpened(a)
    BY <1>5 DEF Completed, RecordInv, UnopenedBlank, NoRecord
  <2> QED BY <1>5, <2>1, <2>2 DEF Completed, RecordRow
\* A record that is not pending becomes so only by being inserted.
<1>6. ASSUME NEW a \in Action, ~NotOpened(a), record[a].cdn # "pending"
      PROVE  record'[a].cdn # "pending"
  BY <1>1, <1>4, <1>5, <1>6, HalfOpenedRow, RecordChanges DEF RecordChange, Untouched, Inserted
<1>7. EmittedOnce'
  <2> SUFFICES ASSUME NEW a \in Action
               PROVE  emitted'[a] = IF record'[a].state = "completed" THEN 1 ELSE 0
    BY DEF EmittedOnce
  <2>1. emitted[a] = IF record[a].state = "completed" THEN 1 ELSE 0
    BY DEF RecordInv, EmittedOnce
  <2>2. CASE Untouched(a)
    BY <2>1, <2>2 DEF Untouched
  <2>3. CASE Inserted(a)
    <3>1. emitted[a] = 0
      BY <2>1, <2>3 DEF Inserted, RecordInv, UnopenedBlank, NoRecord
    <3>2. record'[a].state = "completed" <=> NothingToWaitFor(a)
      BY <1>1, <2>3, OpenedRow DEF Inserted
    <3> QED BY <2>3, <3>1, <3>2 DEF Inserted
  <2>4. CASE Completed(a)
    <3>1. record'[a].state = "completed"
      BY <1>5, <2>4
    <3>2. record[a].state = "open" /\ emitted'[a] = emitted[a] + 1
      BY <2>4 DEF Completed
    <3> QED BY <2>1, <3>1, <3>2
  <2>5. ASSUME NEW q \in Action, StampedBy(q, a)
        PROVE  emitted'[a] = IF record'[a].state = "completed" THEN 1 ELSE 0
    <3>1. record'[a].state = record[a].state
      BY <1>4, <2>5
    <3>2. emitted'[a] = emitted[a]
      BY <2>5 DEF StampedBy
    <3> QED BY <2>1, <3>1, <3>2
  <2>6. CASE HalfInserted(a)
    <3>1. emitted[a] = 0 /\ emitted'[a] = emitted[a]
      BY <2>1, <2>6 DEF HalfInserted, RecordInv, UnopenedBlank, NoRecord
    <3>2. record'[a].state = "open"
      BY <1>1, <2>6, HalfOpenedRow
    <3> QED BY <3>1, <3>2
  <2> QED BY <2>2, <2>3, <2>4, <2>5, <2>6, RecordChanges DEF RecordChange
<1>8. CompletedAfterPurge'
  <2> SUFFICES ASSUME NEW a \in Action, record'[a].state = "completed"
               PROVE  record'[a].cdn # "pending"
    BY DEF CompletedAfterPurge
  <2>1. CASE Untouched(a)
    BY <2>1 DEF Untouched, RecordInv, CompletedAfterPurge
  <2>2. CASE Inserted(a)
    BY <1>1, <2>2, OpenedRow DEF Inserted
  <2>3. CASE Completed(a)
    BY <1>5, <2>3 DEF Completed
  <2>4. ASSUME NEW q \in Action, StampedBy(q, a)
        PROVE  record'[a].cdn # "pending"
    BY <1>4, <2>4
  <2>5. CASE HalfInserted(a)
    BY <1>1, <2>5, HalfOpenedRow
  <2> QED BY <2>1, <2>2, <2>3, <2>4, <2>5, RecordChanges DEF RecordChange
<1>9. UnopenedBlank'
  <2> SUFFICES ASSUME NEW a \in Action, NotOpened(a)'
               PROVE  /\ record'[a] = NoRecord
                      /\ \A e \in Endpoint : delivery'[a][e].phase = "none"
    BY DEF UnopenedBlank
  <2>1. /\ NotOpened(a) /\ record[a] = NoRecord
        /\ \A e \in Endpoint : delivery[a][e].phase = "none"
    BY <1>3 DEF RecordInv, UnopenedBlank
  <2>2. record'[a] = NoRecord
    BY <1>4, <1>5, <2>1, RecordChanges DEF RecordChange, Untouched, Inserted, HalfInserted
  <2>3. ASSUME NEW e \in Endpoint
        PROVE  delivery'[a][e].phase = "none"
    BY <2>1, DeliveryChanges DEF DeliveryChange
  <2> QED BY <2>2, <2>3
<1>10. PurgesHoldOpened'
  <2> DEFINE Settling(q, b) == purge[q].phase \in {"settle", "complete"} /\ purge[q].at = b
  <2>1. ASSUME NEW q \in Action
        PROVE  /\ \A b \in purge'[q].todo : ~NotOpened(b)'
               /\ \A b \in Action : Settling(q, b)' => ~NotOpened(b)'
    <3>1. purge[q].todo \subseteq Action
      BY <1>1 DEF TypeOK, PurgeState
    <3>2. \A b \in purge[q].todo : ~NotOpened(b)'
      BY <1>3, <3>1 DEF RecordInv, PurgesHoldOpened
    <3>3. \A b \in Action : Settling(q, b) => ~NotOpened(b)'
      BY <1>3 DEF RecordInv, PurgesHoldOpened
    <3>4. \A b \in Covers(q) : ~NotOpened(b)'
      BY <1>3 DEF Covers, RecordInv, UnopenedBlank, NoRecord
    <3> QED BY <1>1, <3>2, <3>3, <3>4, PurgeChanges DEF PurgeChange
  <2>2. \A q \in Action :
          purge'[q].phase \in {"settle", "complete"} => purge'[q].at \in Action
    BY <1>2 DEF TypeInv, PurgesHaveVerdicts
  <2> QED BY <2>1, <2>2 DEF PurgesHoldOpened
<1>11. SettlersSawPurge'
  <2>1. ASSUME NEW a \in Action, NEW e \in Endpoint, delivery'[a][e].phase = "complete"
        PROVE  record'[a].cdn # "pending"
    <3>1. CASE delivery'[a][e] = delivery[a][e]
      <4>1. ~NotOpened(a) /\ record[a].cdn # "pending"
        BY <2>1, <3>1 DEF RecordInv, UnopenedBlank, SettlersSawPurge
      <4> QED BY <1>6, <4>1
    <3>2. CASE Ready(a) /\ UNCHANGED record
      BY <3>2 DEF Ready
    <3> QED BY <2>1, <3>1, <3>2, DeliveryChanges DEF DeliveryChange
  <2>2. ASSUME NEW q \in Action, purge'[q].phase = "complete"
        PROVE  record'[purge'[q].at].cdn # "pending"
    <3>1. CASE purge'[q] = purge[q]
      <4>1. /\ purge[q].at \in Action /\ ~NotOpened(purge[q].at)
            /\ record[purge[q].at].cdn # "pending"
        BY <1>1, <2>2, <3>1
           DEF TypeInv, PurgesHaveVerdicts, RecordInv, PurgesHoldOpened, SettlersSawPurge
      <4> QED BY <1>6, <3>1, <4>1
    <3>2. CASE Ready(purge[q].at) /\ purge'[q].at = purge[q].at /\ UNCHANGED record
      BY <3>2 DEF Ready
    <3> QED BY <1>1, <2>2, <3>1, <3>2, PurgeChanges DEF PurgeChange
  <2> QED BY <2>1, <2>2 DEF SettlersSawPurge
<1> QED BY <1>2, <1>7, <1>8, <1>9, <1>10, <1>11 DEF RecordInv

LEMMA RecordsInvariant == Spec => []RecordInv
BY InitRecordInv, NextRecordInv, PTL DEF Spec

\* However many deliveries and purges settle a record, and however often they are
\* killed and re-run, complete/2 emits its telemetry event once.
THEOREM TelemetryOnce == Spec => []EmittedOnce
<1>1. RecordInv => EmittedOnce
  BY DEF RecordInv
<1> QED BY <1>1, RecordsInvariant, PTL

\* A settler completes a record from what it read a step before: the purge it saw
\* ended cannot be pending again by the time it writes.
THEOREM MeasuredAfterPurge == Spec => []CompletedAfterPurge
<1>1. RecordInv => CompletedAfterPurge
  BY DEF RecordInv
<1> QED BY <1>1, RecordsInvariant, PTL
-----------------------------------------------------------------------------
(* What an acknowledgement covers.  A purge stamps records whose time of    *)
(* enqueueing is no later than its own start; outside a release that time   *)
(* is read after the commit, so the commit came before the purge's POST.   *)

HasAnswer == {"list", "stamp", "settle", "complete"}

\* An action outside a release reads the clock after it committed.
StampsFollowCommits == \A a \in stamped \ Release : action[a].phase # "idle"

\* A purge looks only for records stamped before it began,
PurgesLookBack ==
  \A q \in Action :
    /\ purge[q].begun \subseteq stamped
    /\ purge[q].todo \subseteq purge[q].begun

\* and once the CDN acknowledged it, all of those outside a release are covered.
VerdictsCover ==
  \A q \in Action :
    purge[q].phase \in HasAnswer /\ purge[q].verdict = "acknowledged" =>
      purge[q].begun \ Release \subseteq covered

CoverInv ==
  /\ RecordInv
  /\ StampsFollowCommits
  /\ PurgesLookBack
  /\ VerdictsCover
  /\ AcknowledgedCovers

LEMMA InitCoverInv == Init => CoverInv
<1> SUFFICES ASSUME Init PROVE CoverInv
  OBVIOUS
<1>1. StampsFollowCommits
  BY DEF Init, StampsFollowCommits
<1>2. PurgesLookBack /\ VerdictsCover
  BY DEF Init, PurgesLookBack, VerdictsCover, HasAnswer, NoPurge
<1>3. AcknowledgedCovers
  BY DEF Init, AcknowledgedCovers, NoRecord
<1> QED BY <1>1, <1>2, <1>3, InitRecordInv DEF CoverInv

LEMMA NextStampsFollowCommits ==
  ASSUME TypeOK, StampsFollowCommits, [Next]_vars
  PROVE  StampsFollowCommits' /\ stamped \subseteq stamped'
<1> USE DEF StampsFollowCommits
<1>1. CASE UNCHANGED <<action, stamped>>
  BY <1>1
<1>2. ASSUME NEW a \in Action, NEW event \in Event, Commit(a, event)
      PROVE  StampsFollowCommits' /\ stamped \subseteq stamped'
  BY <1>2 DEF Commit, TypeOK
<1>3. ASSUME NEW a \in Action, NEW event, NEW targets, NEW absorbed,
             Stamp(a, event, targets, absorbed)
      PROVE  StampsFollowCommits' /\ stamped \subseteq stamped'
  <2>1. action'[a].phase # "idle" /\ \A b \in Action \ {a} : action'[b] = action[b]
    BY <1>3 DEF Stamp, TypeOK
  <2>2. stamped \subseteq stamped' /\ stamped' \subseteq stamped \cup {a}
    BY <1>3 DEF Stamp
  <2> QED BY <2>1, <2>2 DEF TypeOK
<1>4. ASSUME NEW a \in Action, DispatchStep(a)
      PROVE  StampsFollowCommits' /\ stamped \subseteq stamped'
  <2>1. CASE \E targets \in SUBSET Endpoint : StampAfterCommit(a, targets)
    BY <1>3, <2>1 DEF StampAfterCommit
  <2>2. CASE OpenRecord(a) \/ FannedOut(a) \/ EnqueuePurge(a)
    <3>1. \E phase \in {"enqueue", "purge", "done"} :
            action' = [action EXCEPT ![a].phase = phase]
      BY <2>2 DEF OpenRecord, FannedOut, EnqueuePurge
    <3>2. \A b \in Action : action'[b] = action[b] \/ action'[b].phase # "idle"
      BY <3>1 DEF TypeOK, ActionState
    <3>3. stamped' = stamped
      BY <2>2 DEF OpenRecord, FannedOut, EnqueuePurge
    <3> QED BY <3>2, <3>3 DEF TypeOK
  <2>3. ASSUME NEW e \in Endpoint, EnqueueDelivery(a, e)
        PROVE  StampsFollowCommits' /\ stamped \subseteq stamped'
    <3>1. \A b \in Action : action'[b].phase = action[b].phase
      <4>1. action' = [action EXCEPT ![a].todo = @ \ {e}]
        BY <2>3 DEF EnqueueDelivery
      <4> QED BY <4>1 DEF TypeOK, ActionState
    <3>2. stamped' = stamped
      BY <2>3 DEF EnqueueDelivery
    <3> QED BY <3>1, <3>2 DEF TypeOK
  <2> QED BY <1>4, <2>1, <2>2, <2>3 DEF DispatchStep
<1>5. CASE ReleaseStep
  <2>1. CASE \E a \in Action, event \in Event, targets \in SUBSET Endpoint :
               StampInRelease(a, event, targets)
    BY <1>3, <2>1 DEF StampInRelease
  <2>2. CASE CommitRelease \/ RollBackRelease
    <3>1. \A b \in Action \ Release : action'[b] = action[b]
      BY <2>2 DEF CommitRelease, RollBackRelease
    <3>2. stamped' = stamped
      BY <2>2 DEF CommitRelease, RollBackRelease
    <3> QED BY <3>1, <3>2 DEF TypeOK
  <2> QED BY <1>5, <2>1, <2>2 DEF ReleaseStep
<1>6. ASSUME NEW a \in Action, DispatchFault(a)
      PROVE  StampsFollowCommits' /\ stamped \subseteq stamped'
  <2>1. /\ stamped' = stamped /\ action'[a].phase # "idle"
        /\ \A b \in Action \ {a} : action'[b] = action[b]
    BY <1>6, DispatchFaultWrites
  <2> QED BY <2>1 DEF TypeOK
<1>7. \/ UNCHANGED <<action, stamped>>
      \/ \E a \in Action, event \in Event : Commit(a, event)
      \/ \E a \in Action : DispatchStep(a)
      \/ ReleaseStep
      \/ \E a \in Action : DispatchFault(a)
  <2>1. ASSUME NEW q \in Action, PurgeStep(q) \/ PurgeFault(q)
        PROVE  UNCHANGED <<action, stamped>>
    BY <2>1, PurgeFaultWrites
       DEF PurgeStep, DuePurge, StartPurge, PostPurge, ListPending, StampCdn, SettlePurge,
           CompletePurge, FinishPurge
  <2>2. ASSUME NEW a \in Action, NEW e \in Endpoint, DeliveryStep(a, e) \/ DeliveryFault(a, e)
        PROVE  UNCHANGED <<action, stamped>>
    BY <2>2, DeliveryFaultWrites
       DEF DeliveryStep, FetchDelivery, RecordAttempt, SettleDelivery, CompleteDelivery
  <2>3. CASE UnsetPurgeUrl \/ UNCHANGED vars
    BY <2>3 DEF UnsetPurgeUrl, vars
  <2> QED BY <2>1, <2>2, <2>3 DEF Next, Fault
<1> QED BY <1>1, <1>2, <1>4, <1>5, <1>6, <1>7

\* What a step does to what a purge looks for and has heard.
PurgeProgress(q) ==
  \/ purge'[q] = purge[q]
  \/ \* inserted, or taken by a worker
     /\ purge'[q].begun \subseteq stamped /\ purge'[q].todo \subseteq purge'[q].begun
     /\ purge'[q].phase \notin HasAnswer
  \/ \* answered
     /\ purge'[q].begun = purge[q].begun /\ purge'[q].todo = purge[q].todo
     /\ purge'[q].verdict = "acknowledged" => {a \in Action : Committed(a)} \subseteq covered'
  \/ \* anything after the answer
     /\ purge'[q].begun = purge[q].begun /\ purge'[q].verdict = purge[q].verdict
     /\ purge'[q].todo \subseteq purge[q].todo \cup Covers(q)
     /\ purge'[q].phase \in HasAnswer => purge[q].phase \in HasAnswer

LEMMA PurgeProgresses ==
  ASSUME CoverInv, [Next]_vars, NEW q \in Action
  PROVE  PurgeProgress(q)
<1>1. TypeOK /\ purge \in [Action -> PurgeState] /\ PurgesLookBack
  BY DEF CoverInv, RecordInv, TypeInv, TypeOK
<1>2. ASSUME NEW inTxn \in BOOLEAN, purge'[q] = NewPurge(inTxn)
      PROVE  PurgeProgress(q)
  BY <1>2 DEF NewPurge, NoPurge, HasAnswer, PurgeProgress
<1>3. CASE StartPurge(q)
  BY <1>1, <1>3 DEF StartPurge, PurgesLookBack, HasAnswer, PurgeProgress, PurgeState
<1>4. ASSUME NEW answer \in {"acknowledged", "refused", "no_url"}, PostPurge(q, answer)
      PROVE  PurgeProgress(q)
  <2>1. Verdict(q, answer) = "acknowledged" => answer = "acknowledged"
    BY DEF Verdict
  <2>2. Verdict(q, answer) = "acknowledged" => {a \in Action : Committed(a)} \subseteq covered'
    BY <1>4, <2>1 DEF PostPurge
  <2>3. /\ purge'[q].begun = purge[q].begun /\ purge'[q].todo = purge[q].todo
        /\ purge'[q].verdict = Verdict(q, answer)
    BY <1>1, <1>4 DEF PostPurge, PurgeState
  <2> QED BY <2>2, <2>3 DEF PurgeProgress
<1>5. CASE DuePurge(q) \/ CompletePurge(q) \/ FinishPurge(q)
  BY <1>1, <1>5 DEF DuePurge, CompletePurge, FinishPurge, PurgeGoto, HasAnswer,
                    PurgeProgress, PurgeState
<1>6. CASE ListPending(q)
  BY <1>1, <1>6 DEF ListPending, HasAnswer, PurgeProgress, PurgeState
<1>7. ASSUME NEW a \in Action, StampCdn(q, a)
      PROVE  PurgeProgress(q)
  BY <1>1, <1>7 DEF StampCdn, HasAnswer, PurgeProgress, PurgeState
<1>8. CASE SettlePurge(q)
  BY <1>1, <1>8 DEF SettlePurge, HasAnswer, PurgeProgress, PurgeState
<1>9. CASE purge'[q] = purge[q]
  BY <1>9 DEF PurgeProgress
<1>10. CASE PurgeFault(q)
  <2>1. PICK new \in PurgeState :
          /\ purge' = [purge EXCEPT ![q] = new]
          /\ new.phase \in {"available", "stamp", "done"}
          /\ new.phase = "stamp" => purge[q].phase \in {"settle", "complete"}
          /\ new.begun = purge[q].begun /\ new.verdict = purge[q].verdict
          /\ new.todo \subseteq purge[q].todo
    BY <1>1, <1>10, PurgeFaultWrites
  <2>2. purge'[q] = new
    BY <1>1, <2>1
  <2> QED BY <2>1, <2>2 DEF PurgeProgress, HasAnswer
<1> QED BY <1>1, <1>2, <1>3, <1>4, <1>5, <1>6, <1>7, <1>8, <1>9, <1>10, PurgeSteps DEF PurgeStep

\* What is covered stays so.
LEMMA CoveredGrows ==
  ASSUME TypeOK, [Next]_vars
  PROVE  covered \subseteq covered'
<1>1. ASSUME NEW q \in Action, PurgeStep(q) \/ PurgeFault(q)
      PROVE  covered \subseteq covered'
  BY <1>1, PurgeFaultWrites
     DEF PurgeStep, DuePurge, StartPurge, PostPurge, ListPending, StampCdn, SettlePurge,
         CompletePurge, FinishPurge
<1>2. ASSUME NEW a \in Action, DispatchStep(a)
      PROVE  UNCHANGED covered
  BY <1>2 DEF DispatchStep, StampAfterCommit, Stamp, OpenRecord, EnqueueDelivery, FannedOut,
              EnqueuePurge
<1>3. CASE ReleaseStep
  BY <1>3 DEF ReleaseStep, StampInRelease, Stamp, CommitRelease, RollBackRelease
<1>4. ASSUME NEW a \in Action, NEW e \in Endpoint, DeliveryStep(a, e) \/ DeliveryFault(a, e)
      PROVE  UNCHANGED covered
  BY <1>4, DeliveryFaultWrites
     DEF DeliveryStep, FetchDelivery, RecordAttempt, SettleDelivery, CompleteDelivery
<1>5. CASE \/ UNCHANGED vars \/ UnsetPurgeUrl
           \/ \E b \in Action : DispatchFault(b)
           \/ \E b \in Action, event \in Event : Commit(b, event)
  BY <1>5, DispatchFaultWrites DEF vars, UnsetPurgeUrl, Commit
<1> QED BY <1>1, <1>2, <1>3, <1>4, <1>5 DEF Next, Fault

LEMMA NextCoverInv == CoverInv /\ [Next]_vars => CoverInv'
<1> SUFFICES ASSUME CoverInv, [Next]_vars PROVE CoverInv'
  OBVIOUS
<1>1. /\ RecordInv /\ TypeOK /\ StampsFollowCommits /\ PurgesLookBack
      /\ VerdictsCover /\ AcknowledgedCovers
  BY DEF CoverInv, RecordInv, TypeInv
<1>2. RecordInv' /\ StampsFollowCommits' /\ stamped \subseteq stamped'
  BY <1>1, NextRecordInv, NextStampsFollowCommits
<1>3. covered \subseteq covered'
  BY <1>1, CoveredGrows
<1>4. \A q \in Action : PurgeProgress(q)
  BY PurgeProgresses
<1>5. PurgesLookBack'
  <2> SUFFICES ASSUME NEW q \in Action
               PROVE  /\ purge'[q].begun \subseteq stamped'
                      /\ purge'[q].todo \subseteq purge'[q].begun
    BY DEF PurgesLookBack
  <2>1. purge[q].begun \subseteq stamped /\ purge[q].todo \subseteq purge[q].begun
    BY <1>1 DEF PurgesLookBack
  <2>2. Covers(q) \subseteq purge[q].begun
    BY DEF Covers
  <2> QED BY <1>2, <1>4, <2>1, <2>2 DEF PurgeProgress
<1>6. VerdictsCover'
  <2> SUFFICES ASSUME NEW q \in Action, purge'[q].phase \in HasAnswer,
                      purge'[q].verdict = "acknowledged"
               PROVE  purge'[q].begun \ Release \subseteq covered'
    BY DEF VerdictsCover, HasAnswer
  <2>1. CASE purge'[q].begun = purge[q].begun /\ purge[q].phase \in HasAnswer
             /\ purge[q].verdict = "acknowledged"
    BY <1>1, <1>3, <2>1 DEF VerdictsCover
  <2>2. CASE /\ purge'[q].begun = purge[q].begun
             /\ {a \in Action : Committed(a)} \subseteq covered'
    <3>1. \A a \in purge[q].begun \ Release : a \in Action /\ Committed(a)
      BY <1>1 DEF PurgesLookBack, StampsFollowCommits, Committed, TypeOK
    <3> QED BY <2>2, <3>1
  <2> QED BY <1>4, <2>1, <2>2 DEF PurgeProgress
<1>7. AcknowledgedCovers'
  <2> SUFFICES ASSUME NEW a \in Action \ Release, record'[a].cdn = "acknowledged"
               PROVE  a \in covered'
    BY DEF AcknowledgedCovers
  <2>1. CASE Untouched(a)
    BY <1>1, <1>3, <2>1 DEF Untouched, AcknowledgedCovers
  <2>2. CASE Inserted(a)
    BY <1>1, <2>2, OpenedRow DEF Inserted
  <2>3. CASE Completed(a)
    <3>1. record'[a].cdn = record[a].cdn
      BY <1>1, <2>3 DEF Completed, TypeOK, RecordRow
    <3> QED BY <1>1, <1>3, <3>1 DEF AcknowledgedCovers
  <2>4. ASSUME NEW q \in Action, StampedBy(q, a)
        PROVE  a \in covered'
    <3>1. record'[a].cdn = purge[q].verdict
      BY <1>1, <2>4 DEF StampedBy, TypeOK, RecordRow
    <3>2. purge[q].begun \ Release \subseteq covered
      BY <1>1, <2>4, <3>1 DEF StampedBy, VerdictsCover, HasAnswer
    <3>3. a \in purge[q].begun
      BY <1>1, <2>4 DEF StampedBy, PurgesLookBack
    <3> QED BY <1>3, <3>2, <3>3
  <2>5. CASE HalfInserted(a)
    BY <1>1, <2>5, HalfOpenedRow
  <2> QED BY <1>1, <2>1, <2>2, <2>3, <2>4, <2>5, RecordChanges DEF RecordChange
<1> QED BY <1>2, <1>5, <1>6, <1>7 DEF CoverInv

\* Outside a release, a record that says the CDN acknowledged its purge was
\* committed before that purge was sent, whatever the workers' order and faults.
THEOREM OrdinaryPurgesCover == Spec => []AcknowledgedCovers
<1>1. CoverInv => AcknowledgedCovers
  BY DEF CoverInv
<1> QED BY <1>1, InitCoverInv, NextCoverInv, PTL DEF Spec

-----------------------------------------------------------------------------
(* Counts of a record none of whose own processes was killed and none of    *)
(* whose own calls failed.  A settler completes it with what it counted a  *)
(* step earlier; by then every delivery has ended, so that the count is    *)
(* final, and the last of them to end finds the record ready.              *)

\* The deliveries of action a there are, and the state in which all have ended.
Enqueued(a) == {e \in Endpoint : delivery[a][e].status # "none"}

Ended(a) ==
  /\ record[a].state # "none"
  /\ action[a].todo = {}
  /\ DeliveriesIn(a, "pending") = {}

\* A delivery's status follows from the phase of its worker.
DeliveryTidy(row) ==
  /\ row.phase = "none" <=> row.status = "none"
  /\ row.phase \in {"ready", "post"} <=> row.status = "pending"

\* Dispatch and its record: what was expected is what is enqueued, or to be.
DispatchTidy(a) ==
  /\ \A e \in Endpoint : DeliveryTidy(delivery[a][e])
  /\ action[a].phase = "enqueue" => record[a].state # "none"
  /\ action[a].phase \in {"idle", "committed", "purge", "done"}
       \/ ~IsTransition(action[a].event) => action[a].todo = {}
  /\ record[a].state = "none" => Enqueued(a) = {}
  /\ record[a].state # "none" =>
       /\ action[a].todo \cap Enqueued(a) = {}
       /\ record[a].expected = Cardinality(action[a].todo \cup Enqueued(a))
       /\ action[a].todo # {} => action[a].phase = "enqueue"

\* A settler about to complete the record of action a read the final counts, and
\* so did the one that has.
SettlersCounted(a) ==
  /\ \A e \in Endpoint :
       delivery[a][e].phase = "complete" => Ended(a) /\ delivery[a][e].seen = Lost(a)
  /\ \A q \in Action :
       purge[q].phase = "complete" /\ purge[q].at = a => Ended(a) /\ purge[q].seen = Lost(a)
  /\ record[a].state = "completed" => Ended(a) /\ record[a].failed = Lost(a)

\* SomeoneSettles, for one record.
Awaits(a) ==
  record[a].state = "open" =>
    \/ action[a].phase = "enqueue" /\ action[a].todo # {}
    \/ record[a].cdn = "pending"
    \/ \E e \in Endpoint : delivery[a][e].phase \in {"ready", "post", "settle", "complete"}
    \/ \E q \in Action : purge[q].at = a /\ purge[q].phase \in {"settle", "complete"}

\* A purge job is inserted once.
PurgeUnborn(a) ==
  /\ action[a].phase # "done" => purge[a].phase = "none"
  /\ a \in Release /\ txn = "open" => action[a].phase # "done"

Counted(a) == DispatchTidy(a) /\ SettlersCounted(a) /\ Awaits(a)

CountInv ==
  /\ RecordInv
  /\ \A a \in Action : PurgeUnborn(a)
  /\ \A a \in Action \ lapsed : Counted(a)

LEMMA InitCountInv == Init => CountInv
<1> SUFFICES ASSUME Init, NEW a \in Action
             PROVE  DispatchTidy(a) /\ SettlersCounted(a) /\ Awaits(a) /\ PurgeUnborn(a)
  BY InitRecordInv DEF CountInv, Counted
<1>1. /\ action[a] = IdleAction /\ record[a] = NoRecord /\ purge[a] = NoPurge
      /\ \A e \in Endpoint : delivery[a][e] = NoDelivery
  BY DEF Init
<1>2. Enqueued(a) = {}
  BY <1>1 DEF Enqueued, NoDelivery
<1>3. DispatchTidy(a)
  BY <1>1, <1>2 DEF DispatchTidy, DeliveryTidy, IdleAction, NoRecord, NoDelivery
<1>4. SettlersCounted(a)
  BY <1>1 DEF Init, SettlersCounted, NoRecord, NoDelivery, NoPurge
<1>5. Awaits(a) /\ PurgeUnborn(a)
  BY <1>1 DEF Awaits, PurgeUnborn, IdleAction, NoRecord, NoPurge
<1> QED BY <1>3, <1>4, <1>5

\* The deliveries that ended, and those that are there or to come.
LEMMA SettledCount ==
  ASSUME TypeOK, NEW a \in Action, DispatchTidy(a), record[a].state # "none"
  PROVE  LET ended == DeliveriesIn(a, "succeeded") \cup DeliveriesIn(a, "failed")
             all == action[a].todo \cup Enqueued(a)
         IN  /\ IsFiniteSet(all) /\ ended \in SUBSET all
             /\ Cardinality(all) = record[a].expected
             /\ Cardinality(DeliveriesIn(a, "succeeded")) + Lost(a) = Cardinality(ended)
<1> DEFINE ended == DeliveriesIn(a, "succeeded") \cup DeliveriesIn(a, "failed")
           all == action[a].todo \cup Enqueued(a)
<1>1. all \in SUBSET Endpoint /\ IsFiniteSet(Endpoint)
  BY PropagationAssumption DEF TypeOK, ActionState, Enqueued
<1>2. IsFiniteSet(all)
  BY <1>1, FS_Subset
<1>3. ended \in SUBSET all
  BY DEF DeliveriesIn, Enqueued
<1>4. /\ DeliveriesIn(a, "succeeded") \in SUBSET Endpoint
      /\ DeliveriesIn(a, "failed") \in SUBSET Endpoint
      /\ DeliveriesIn(a, "succeeded") \cap DeliveriesIn(a, "failed") = {}
  BY DEF DeliveriesIn
<1>5. IsFiniteSet(DeliveriesIn(a, "succeeded")) /\ IsFiniteSet(DeliveriesIn(a, "failed"))
  BY <1>1, <1>4, FS_Subset
<1>6. Cardinality(ended) = Cardinality(DeliveriesIn(a, "succeeded"))
                           + Cardinality(DeliveriesIn(a, "failed")) - 0
  BY <1>4, <1>5, FS_Union, FS_EmptySet
<1>7. /\ Cardinality(DeliveriesIn(a, "succeeded")) \in Nat
      /\ Cardinality(DeliveriesIn(a, "failed")) \in Nat
  BY <1>4, Counts
<1>8. Cardinality(DeliveriesIn(a, "succeeded")) + Lost(a) = Cardinality(ended)
  BY <1>6, <1>7 DEF Lost
<1>9. Cardinality(all) = record[a].expected
  BY DEF DispatchTidy
<1> QED BY <1>2, <1>3, <1>8, <1>9

\* A record is found ready only when everything it expects has ended ...
LEMMA ReadyMeansEnded ==
  ASSUME TypeOK, NEW a \in Action, DispatchTidy(a), Ready(a)
  PROVE  Ended(a)
<1> DEFINE ended == DeliveriesIn(a, "succeeded") \cup DeliveriesIn(a, "failed")
           all == action[a].todo \cup Enqueued(a)
<1>1. record[a].state # "none"
  BY DEF Ready
<1>2. /\ IsFiniteSet(all) /\ ended \in SUBSET all
      /\ Cardinality(all) = record[a].expected
      /\ Cardinality(DeliveriesIn(a, "succeeded")) + Lost(a) = Cardinality(ended)
  BY <1>1, SettledCount
<1>3. Cardinality(ended) >= Cardinality(all)
  BY <1>2 DEF Ready
<1>4. Cardinality(ended) <= Cardinality(all)
  BY <1>2, FS_Subset
<1>5. Cardinality(all) \in Nat /\ Cardinality(ended) \in Nat
  BY <1>2, FS_Subset, FS_CardinalityType
<1>6. all = ended
  <2>1. Cardinality(all) = Cardinality(ended)
    BY <1>3, <1>4, <1>5
  <2> QED BY <1>2, <2>1, FS_Subset
<1>7. action[a].todo = {}
  <2>1. ended \subseteq Enqueued(a)
    BY DEF DeliveriesIn, Enqueued
  <2>2. action[a].todo \cap Enqueued(a) = {}
    BY <1>1 DEF DispatchTidy
  <2> QED BY <1>6, <2>1, <2>2
<1>8. DeliveriesIn(a, "pending") = {}
  <2>1. DeliveriesIn(a, "pending") \subseteq Enqueued(a)
    BY DEF DeliveriesIn, Enqueued
  <2>2. DeliveriesIn(a, "pending") \cap ended = {}
    BY DEF DeliveriesIn
  <2> QED BY <1>6, <2>1, <2>2
<1> QED BY <1>1, <1>7, <1>8 DEF Ended

\* ... and then it is, unless its purge is pending.
LEMMA EndedMeansCounted ==
  ASSUME TypeOK, NEW a \in Action, DispatchTidy(a), Ended(a)
  PROVE  Cardinality(DeliveriesIn(a, "succeeded")) + Lost(a) = record[a].expected
<1> DEFINE ended == DeliveriesIn(a, "succeeded") \cup DeliveriesIn(a, "failed")
           all == action[a].todo \cup Enqueued(a)
<1>1. /\ Cardinality(all) = record[a].expected
      /\ Cardinality(DeliveriesIn(a, "succeeded")) + Lost(a) = Cardinality(ended)
  BY SettledCount DEF Ended
<1>2. \A e \in Endpoint :
        delivery[a][e].status # "none" => delivery[a][e].status \in {"succeeded", "failed"}
  BY DEF Ended, DeliveriesIn, TypeOK, DeliveryState
<1>3. Enqueued(a) \subseteq ended
  BY <1>2 DEF Enqueued, DeliveriesIn
<1>4. ended \subseteq Enqueued(a)
  BY DEF DeliveriesIn, Enqueued
<1>5. all = ended
  BY <1>3, <1>4 DEF Ended
<1> QED BY <1>1, <1>5

LEMMA EndedMeansReady ==
  ASSUME TypeOK, NEW a \in Action, DispatchTidy(a), Ended(a),
         record[a].state = "open", record[a].cdn # "pending"
  PROVE  Ready(a)
<1>1. record[a].expected \in Nat
  BY DEF TypeOK, RecordRow
<1> QED BY <1>1, EndedMeansCounted DEF Ready

(* What a step may do to the dispatch and the deliveries of an action that has  *)
(* not lapsed.                                                                  *)

\* Its event is committed or stamped: nothing of it is inserted yet.
StampMove(a) ==
  /\ NotOpened(a) /\ record'[a] = record[a] /\ delivery'[a] = delivery[a]
  /\ action'[a].phase \in {"committed", "stamped", "purge"}
  /\ action'[a].phase # "stamped" \/ ~IsTransition(action'[a].event) => action'[a].todo = {}

OpenMove(a) ==
  /\ NotOpened(a) /\ record'[a] = Opened(a) /\ delivery'[a] = delivery[a]
  /\ action'[a].phase = "enqueue" /\ action'[a].todo = action[a].todo
  /\ action'[a].event = action[a].event
  /\ IsTransition(action[a].event) \/ action[a].todo = {}

\* The release of action a commits: its deliveries appear with the record.
CommitMove(a) ==
  /\ NotOpened(a)
  /\ record'[a] = IF IsTransition(action[a].event) THEN Opened(a) ELSE record[a]
  /\ action'[a].phase = "done" /\ action'[a].todo = {}
  /\ \A e \in Endpoint : delivery'[a][e] = IF e \in action[a].todo THEN NewDelivery
                                           ELSE delivery[a][e]

EnqueueMove(a) ==
  \E e \in action[a].todo :
    /\ action[a].phase = "enqueue" /\ record'[a] = record[a]
    /\ action'[a].phase = "enqueue" /\ action'[a].event = action[a].event
    /\ action'[a].todo = action[a].todo \ {e}
    /\ delivery'[a][e] = NewDelivery
    /\ \A f \in Endpoint \ {e} : delivery'[a][f] = delivery[a][f]

\* One delivery goes on; its worker writes the record only to complete it.
DeliveryMove(a) ==
  \E e \in Endpoint :
    /\ DeliveryStep(a, e) /\ action'[a] = action[a]
    /\ \A f \in Endpoint \ {e} : delivery'[a][f] = delivery[a][f]

\* Neither dispatch nor a delivery goes on, but for the end of an empty fan-out.
StillMove(a) ==
  /\ delivery'[a] = delivery[a] /\ ~Inserted(a)
  /\ action'[a].todo = action[a].todo /\ action'[a].event = action[a].event
  /\ \/ action'[a].phase = action[a].phase
     \/ action'[a].phase \in {"purge", "done"} /\ action[a].todo = {}
     \/ action'[a].phase = "rolled_back" /\ NotOpened(a)

Move(a) ==
  \/ StampMove(a) \/ OpenMove(a) \/ CommitMove(a) \/ EnqueueMove(a) \/ DeliveryMove(a)
  \/ StillMove(a)

LEMMA NotInserted ==
  ASSUME RecordInv, NEW a \in Action,
         \/ UNCHANGED record
         \/ action'[a] = action[a] /\ (txn' = txn \/ a \notin Release)
  PROVE  ~Inserted(a)
<1>1. NotOpened(a) => record[a].state = "none"
  BY DEF RecordInv, UnopenedBlank, NoRecord
<1>2. Opened(a).state # "none"
  BY OpenedRow DEF RecordInv, TypeInv
<1>3. CASE UNCHANGED record
  BY <1>1, <1>2, <1>3 DEF Inserted
<1>4. CASE action'[a] = action[a] /\ (txn' = txn \/ a \notin Release)
  BY <1>4 DEF Inserted, NotOpened
<1> QED BY <1>3, <1>4

LEMMA DispatchMoves ==
  ASSUME RecordInv, NEW a \in Action, Counted(a), NEW b \in Action, DispatchStep(b)
  PROVE  Move(a)
<1>1. TypeOK /\ DispatchOrder /\ DispatchTidy(a)
  BY DEF RecordInv, TypeInv, Counted
<1>2. action[a] \in ActionState /\ action[b] \in ActionState
  BY <1>1 DEF TypeOK
<1>3. CASE a # b
  <2>1. delivery'[a] = delivery[a] /\ action'[a] = action[a] /\ txn' = txn
    BY <1>1, <1>3 DEF DispatchStep, StampAfterCommit, Stamp, OpenRecord, EnqueueDelivery,
                      FannedOut, EnqueuePurge, TypeOK
  <2> QED BY <2>1, NotInserted DEF Move, StillMove
<1>4. CASE a = b
  <2>1. ASSUME NEW targets \in SUBSET Endpoint, StampAfterCommit(a, targets)
        PROVE  Move(a)
    <3>1. /\ a \notin Release /\ action[a].phase = "committed"
          /\ UNCHANGED <<record, delivery>>
      BY <1>1, <2>1 DEF StampAfterCommit, Stamp, DispatchOrder
    <3>2. /\ action'[a].phase = IF IsTransition(action[a].event) THEN "stamped" ELSE "purge"
          /\ action'[a].event = action[a].event
          /\ action'[a].todo = IF IsTransition(action[a].event) THEN targets ELSE {}
      BY <1>1, <2>1 DEF StampAfterCommit, Stamp, TypeOK
    <3> QED BY <3>1, <3>2 DEF Move, StampMove, NotOpened
  <2>2. CASE OpenRecord(a)
    <3>1. /\ a \notin Release /\ action[a].phase = "stamped" /\ UNCHANGED delivery
          /\ record'[a] = Opened(a)
      BY <1>1, <2>2 DEF OpenRecord, TypeOK
    <3>2. /\ action'[a].phase = "enqueue" /\ action'[a].event = action[a].event
          /\ action'[a].todo = action[a].todo
      BY <1>1, <1>2, <2>2 DEF OpenRecord, TypeOK, ActionState
    <3>3. IsTransition(action[a].event) \/ action[a].todo = {}
      BY <1>1 DEF DispatchTidy
    <3> QED BY <3>1, <3>2, <3>3 DEF Move, OpenMove, NotOpened
  <2>3. ASSUME NEW e \in Endpoint, EnqueueDelivery(a, e)
        PROVE  Move(a)
    <3>1. /\ e \in action[a].todo /\ action[a].phase = "enqueue" /\ UNCHANGED record
          /\ delivery'[a][e] = NewDelivery
          /\ \A f \in Endpoint \ {e} : delivery'[a][f] = delivery[a][f]
      BY <1>1, <2>3 DEF EnqueueDelivery, TypeOK
    <3>2. /\ action'[a].phase = "enqueue" /\ action'[a].event = action[a].event
          /\ action'[a].todo = action[a].todo \ {e}
      BY <1>1, <1>2, <2>3 DEF EnqueueDelivery, TypeOK, ActionState
    <3> QED BY <3>1, <3>2 DEF Move, EnqueueMove
  <2>4. CASE FannedOut(a) \/ EnqueuePurge(a)
    <3>1. UNCHANGED <<record, delivery>> /\ action[a].todo = {}
      BY <1>1, <2>4 DEF FannedOut, EnqueuePurge, DispatchTidy
    <3>2. \/ action' = [action EXCEPT ![a].phase = "purge"]
          \/ action' = [action EXCEPT ![a].phase = "done"]
      BY <2>4 DEF FannedOut, EnqueuePurge
    <3>3. /\ action'[a].phase \in {"purge", "done"} /\ action'[a].event = action[a].event
          /\ action'[a].todo = action[a].todo
      BY <1>1, <1>2, <3>2 DEF TypeOK, ActionState
    <3> QED BY <3>1, <3>3, NotInserted DEF Move, StillMove
  <2> QED BY <1>4, <2>1, <2>2, <2>3, <2>4 DEF DispatchStep
<1> QED BY <1>3, <1>4

LEMMA ReleaseMoves ==
  ASSUME RecordInv, NEW a \in Action, Counted(a), ReleaseStep
  PROVE  Move(a)
<1>1. TypeOK /\ DispatchTidy(a) /\ action[a] \in ActionState
  BY DEF RecordInv, TypeInv, Counted, TypeOK
<1>2. ASSUME NEW b \in Action, NEW event \in Event, NEW targets \in SUBSET Endpoint,
             StampInRelease(b, event, targets)
      PROVE  Move(a)
  <2>1. CASE a # b
    BY <1>1, <1>2, <2>1, NotInserted DEF StampInRelease, Stamp, TypeOK, Move, StillMove
  <2>2. CASE a = b
    <3>1. NotOpened(a) /\ UNCHANGED <<record, delivery>>
      BY <1>2, <2>2 DEF StampInRelease, Stamp, NotOpened
    <3>2. /\ action'[a].phase = IF IsTransition(event) THEN "stamped" ELSE "purge"
          /\ action'[a].event = event
          /\ action'[a].todo = IF IsTransition(event) THEN targets ELSE {}
      BY <1>1, <1>2, <2>2 DEF StampInRelease, Stamp, TypeOK
    <3> QED BY <3>1, <3>2 DEF Move, StampMove
  <2> QED BY <2>1, <2>2
<1>3. CASE CommitRelease
  <2>1. CASE a \in Release
    <3>1. NotOpened(a)
      BY <1>3, <2>1 DEF CommitRelease, NotOpened
    <3>2. record'[a] = IF IsTransition(action[a].event) THEN Opened(a) ELSE record[a]
      BY <1>3, <2>1 DEF CommitRelease
    <3>3. action'[a] = [action[a] EXCEPT !.phase = "done", !.todo = {}]
      BY <1>3, <2>1 DEF CommitRelease
    <3>4. action'[a].phase = "done" /\ action'[a].todo = {}
      BY <1>1, <3>3 DEF ActionState
    <3>5. \A e \in Endpoint : delivery'[a][e] = IF e \in action[a].todo THEN NewDelivery
                                               ELSE delivery[a][e]
      BY <1>3, <2>1 DEF CommitRelease
    <3> QED BY <3>1, <3>2, <3>4, <3>5 DEF Move, CommitMove
  <2>2. CASE a \notin Release
    <3>1. action'[a] = action[a]
      BY <1>3, <2>2 DEF CommitRelease
    <3>2. delivery'[a] = [e \in Endpoint |-> delivery[a][e]]
      BY <1>3, <2>2 DEF CommitRelease
    <3>3. delivery'[a] = delivery[a]
      BY <1>1, <3>2 DEF TypeOK
    <3> QED BY <2>2, <3>1, <3>3, NotInserted DEF Move, StillMove
  <2> QED BY <2>1, <2>2
<1>4. CASE RollBackRelease
  <2>1. UNCHANGED <<record, delivery>>
    BY <1>4 DEF RollBackRelease
  <2>2. CASE a \in Release
    <3>1. NotOpened(a) /\ action'[a] = [action[a] EXCEPT !.phase = "rolled_back"]
      BY <1>4, <2>2 DEF RollBackRelease, NotOpened
    <3>2. /\ action'[a].phase = "rolled_back" /\ action'[a].event = action[a].event
          /\ action'[a].todo = action[a].todo
      BY <1>1, <3>1 DEF ActionState
    <3> QED BY <2>1, <3>1, <3>2, NotInserted DEF Move, StillMove
  <2>3. CASE a \notin Release
    <3>1. action'[a] = action[a]
      BY <1>4, <2>3 DEF RollBackRelease
    <3> QED BY <2>1, <3>1, NotInserted DEF Move, StillMove
  <2> QED BY <2>2, <2>3
<1> QED BY <1>2, <1>3, <1>4 DEF ReleaseStep

LEMMA Moves ==
  ASSUME RecordInv, [Next]_vars, NEW a \in Action \ lapsed', Counted(a)
  PROVE  Move(a)
<1>1. TypeOK /\ DispatchOrder /\ DispatchTidy(a) /\ action[a] \in ActionState
  BY DEF RecordInv, TypeInv, Counted, TypeOK
<1>2. ASSUME NEW b \in Action, NEW event \in Event, Commit(b, event)
      PROVE  Move(a)
  <2>1. CASE a # b
    BY <1>1, <1>2, <2>1, NotInserted DEF Commit, TypeOK, Move, StillMove
  <2>2. CASE a = b
    <3>1. NotOpened(a) /\ UNCHANGED <<record, delivery>> /\ action[a].todo = {}
      BY <1>1, <1>2, <2>2 DEF Commit, NotOpened, DispatchTidy
    <3>2. action'[a].phase = "committed" /\ action'[a].todo = action[a].todo
      BY <1>1, <1>2, <2>2 DEF Commit, TypeOK, ActionState
    <3> QED BY <3>1, <3>2 DEF Move, StampMove
  <2> QED BY <2>1, <2>2
<1>3. ASSUME NEW b \in Action, NEW e \in Endpoint, DeliveryStep(b, e)
      PROVE  Move(a)
  <2>1. UNCHANGED <<action, txn>>
    BY <1>3 DEF DeliveryStep, FetchDelivery, RecordAttempt, SettleDelivery, CompleteDelivery
  <2>2. \A c \in Action, f \in Endpoint : c # b \/ f # e => delivery'[c][f] = delivery[c][f]
    BY <1>1, <1>3 DEF DeliveryStep, FetchDelivery, RecordAttempt, SettleDelivery, DeliveryGoto,
                      CompleteDelivery, TypeOK
  <2>3. CASE a = b
    BY <1>3, <2>1, <2>2, <2>3 DEF Move, DeliveryMove
  <2>4. CASE a # b
    <3>1. delivery'[a] = delivery[a]
      BY <1>1, <1>3, <2>4 DEF DeliveryStep, FetchDelivery, RecordAttempt, SettleDelivery,
                              DeliveryGoto, CompleteDelivery, TypeOK
    <3> QED BY <2>1, <3>1, NotInserted DEF Move, StillMove
  <2> QED BY <2>3, <2>4
<1>4. ASSUME NEW q \in Action, PurgeStep(q)
      PROVE  Move(a)
  <2>1. UNCHANGED <<action, txn, delivery>>
    BY <1>4 DEF PurgeStep, DuePurge, StartPurge, PostPurge, ListPending, StampCdn,
                SettlePurge, CompletePurge, FinishPurge
  <2> QED BY <2>1, NotInserted DEF Move, StillMove
<1>5. CASE UnsetPurgeUrl \/ UNCHANGED vars
  BY <1>5, NotInserted DEF UnsetPurgeUrl, vars, Move, StillMove
<1>6. ASSUME NEW b \in Action, DispatchFault(b)
      PROVE  Move(a)
  <2>1. action'[a] = action[a] /\ UNCHANGED <<txn, delivery>>
    BY <1>1, <1>6, DispatchFaultWrites
  <2> QED BY <2>1, NotInserted DEF Move, StillMove
<1>7. ASSUME NEW b \in Action, NEW e \in Endpoint, DeliveryFault(b, e)
      PROVE  Move(a)
  <2>1. UNCHANGED <<action, txn>> /\ a # b
    BY <1>1, <1>7, DeliveryFaultWrites
  <2>2. delivery'[a] = delivery[a]
    BY <1>1, <1>7, <2>1, DeliveryFaultWrites DEF TypeOK
  <2> QED BY <2>1, <2>2, NotInserted DEF Move, StillMove
<1>8. ASSUME NEW q \in Action, PurgeFault(q)
      PROVE  Move(a)
  <2>1. UNCHANGED <<action, txn, delivery>>
    BY <1>1, <1>8, PurgeFaultWrites
  <2> QED BY <2>1, NotInserted DEF Move, StillMove
<1> QED BY <1>2, <1>3, <1>4, <1>5, <1>6, <1>7, <1>8, DispatchMoves, ReleaseMoves
        DEF Next, Fault

\* Once inserted, a record keeps what it expects.
LEMMA RecordKept ==
  ASSUME RecordInv, [Next]_vars, NEW a \in Action \ lapsed',
         record[a].state # "none" \/ ~Inserted(a)
  PROVE  /\ record'[a].state = "none" <=> record[a].state = "none"
         /\ record'[a].expected = record[a].expected
<1>1. record[a] \in RecordRow
  BY DEF RecordInv, TypeInv, TypeOK
<1>2. CASE Untouched(a)
  BY <1>2 DEF Untouched
<1>3. CASE Completed(a)
  BY <1>1, <1>3 DEF Completed, RecordRow
<1>4. ASSUME NEW q \in Action, StampedBy(q, a)
      PROVE  record'[a].state = record[a].state /\ record'[a].expected = record[a].expected
  BY <1>1, <1>4 DEF StampedBy, RecordRow
<1>5. ~Inserted(a) /\ ~HalfInserted(a)
  BY DEF Inserted, HalfInserted, RecordInv, UnopenedBlank, NoRecord
<1> QED BY <1>2, <1>3, <1>4, <1>5, RecordChanges DEF RecordChange

\* One step of a delivery keeps its row tidy, and its status once that is final.
LEMMA DeliveryRowMoves ==
  ASSUME TypeOK, NEW a \in Action, NEW e \in Endpoint, DeliveryTidy(delivery[a][e]),
         DeliveryStep(a, e)
  PROVE  /\ DeliveryTidy(delivery'[a][e])
         /\ delivery[a][e].status # "none" /\ delivery'[a][e].status # "none"
         /\ delivery[a][e].status # "pending" => delivery'[a][e].status = delivery[a][e].status
         /\ \/ delivery'[a][e].phase \in {"ready", "post", "settle"}
            \/ /\ Ready(a) /\ UNCHANGED record
               /\ delivery'[a][e].phase = "complete" /\ delivery'[a][e].seen = Lost(a)
            \/ /\ ~Ready(a) /\ UNCHANGED record
               /\ delivery'[a][e].phase = "done" /\ delivery[a][e].phase = "settle"
            \/ /\ Complete(a, delivery[a][e].seen)
               /\ delivery'[a][e].phase = "done" /\ delivery[a][e].phase = "complete"
<1>1. delivery \in [Action -> [Endpoint -> DeliveryState]] /\ delivery[a][e] \in DeliveryState
  BY DEF TypeOK
<1>2. CASE FetchDelivery(a, e)
  <2>1. delivery'[a][e] = [delivery[a][e] EXCEPT !.phase = "post", !.attempt = @ + 1]
    BY <1>1, <1>2 DEF FetchDelivery
  <2>2. delivery'[a][e].phase = "post" /\ delivery'[a][e].status = delivery[a][e].status
    BY <1>1, <2>1 DEF DeliveryState
  <2> QED BY <1>2, <2>2 DEF FetchDelivery, DeliveryTidy
<1>3. ASSUME NEW status \in {"pending", "succeeded", "failed"}, RecordAttempt(a, e, status)
      PROVE  /\ DeliveryTidy(delivery'[a][e])
             /\ delivery[a][e].status = "pending" /\ delivery'[a][e].status # "none"
             /\ delivery'[a][e].phase \in {"ready", "settle"}
  <2>1. delivery'[a][e] = [delivery[a][e] EXCEPT !.status = status,
                                                 !.phase = AfterAttempt(status)]
    BY <1>1, <1>3 DEF RecordAttempt
  <2>2. delivery'[a][e].phase = AfterAttempt(status) /\ delivery'[a][e].status = status
    BY <1>1, <2>1 DEF DeliveryState
  <2> QED BY <1>3, <2>2 DEF RecordAttempt, DeliveryTidy, AfterAttempt
<1>4. CASE SettleDelivery(a, e)
  <2>1. CASE Ready(a)
    <3>1. delivery'[a][e] = [delivery[a][e] EXCEPT !.phase = "complete", !.seen = Lost(a)]
      BY <1>1, <1>4, <2>1, ZenonT(60) DEF SettleDelivery
    <3>2. /\ delivery'[a][e].phase = "complete" /\ delivery'[a][e].seen = Lost(a)
          /\ delivery'[a][e].status = delivery[a][e].status
      BY <1>1, <3>1 DEF DeliveryState
    <3> QED BY <1>4, <2>1, <3>2 DEF SettleDelivery, DeliveryTidy
  <2>2. CASE ~Ready(a)
    <3>1. delivery'[a][e] = [delivery[a][e] EXCEPT !.phase = "done"]
      BY <1>1, <1>4, <2>2 DEF SettleDelivery, DeliveryGoto
    <3>2. /\ delivery'[a][e].phase = "done"
          /\ delivery'[a][e].status = delivery[a][e].status
      BY <1>1, <3>1 DEF DeliveryState
    <3> QED BY <1>4, <2>2, <3>2 DEF SettleDelivery, DeliveryTidy
  <2> QED BY <2>1, <2>2
<1>5. CASE CompleteDelivery(a, e)
  <2>1. delivery'[a][e] = [delivery[a][e] EXCEPT !.phase = "done", !.seen = 0]
    BY <1>1, <1>5 DEF CompleteDelivery
  <2>2. delivery'[a][e].phase = "done" /\ delivery'[a][e].status = delivery[a][e].status
    BY <1>1, <2>1 DEF DeliveryState
  <2> QED BY <1>5, <2>2 DEF CompleteDelivery, DeliveryTidy
<1> QED BY <1>2, <1>3, <1>4, <1>5 DEF DeliveryStep

LEMMA NewDeliveryTidy ==
  DeliveryTidy(NewDelivery) /\ NewDelivery.status = "pending" /\ NewDelivery.phase = "ready"
BY NewRows DEF DeliveryTidy

\* Every move keeps the dispatch tidy.
LEMMA MovesKeepTidy ==
  ASSUME RecordInv, [Next]_vars, NEW a \in Action \ lapsed', Counted(a), Move(a)
  PROVE  DispatchTidy(a)'
<1>1. TypeOK /\ DispatchTidy(a) /\ record[a] \in RecordRow /\ action[a] \in ActionState
  BY DEF RecordInv, TypeInv, TypeOK, Counted
<1>2. NotOpened(a) => record[a].state = "none" /\ Enqueued(a) = {}
  BY <1>1 DEF RecordInv, UnopenedBlank, NoRecord, DispatchTidy
<1>3. CASE StampMove(a)
  <2>1. Enqueued(a)' = Enqueued(a)
    BY <1>3 DEF StampMove, Enqueued
  <2> QED BY <1>1, <1>2, <1>3, <2>1 DEF StampMove, DispatchTidy
<1>4. CASE OpenMove(a)
  <2>1. Enqueued(a)' = {}
    BY <1>2, <1>4 DEF OpenMove, Enqueued
  <2>2. record'[a].state # "none"
    BY <1>1, <1>4, OpenedRow DEF OpenMove
  <2>3. record'[a].expected = Cardinality(action[a].todo)
    BY <1>4 DEF OpenMove, Opened
  <2> QED BY <1>1, <1>4, <2>1, <2>2, <2>3 DEF OpenMove, DispatchTidy
<1>5. CASE CommitMove(a)
  <2>1. action[a].todo \subseteq Endpoint
    BY <1>1 DEF ActionState
  <2>2. Enqueued(a)' = action[a].todo
    BY <1>2, <1>5, <2>1, NewDeliveryTidy DEF CommitMove, Enqueued
  <2>3. \A e \in Endpoint : DeliveryTidy(delivery'[a][e])
    BY <1>1, <1>5, NewDeliveryTidy DEF CommitMove, DispatchTidy
  <2>4. CASE IsTransition(action[a].event)
    <3>1. record'[a].state # "none"
      BY <1>1, <1>5, <2>4, OpenedRow DEF CommitMove
    <3>2. record'[a].expected = Cardinality(action[a].todo)
      BY <1>5, <2>4 DEF CommitMove, Opened
    <3> QED BY <1>5, <2>2, <2>3, <3>1, <3>2 DEF CommitMove, DispatchTidy
  <2>5. CASE ~IsTransition(action[a].event)
    <3>1. action[a].todo = {}
      BY <1>1, <2>5 DEF DispatchTidy
    <3>2. record'[a].state = "none"
      BY <1>2, <1>5, <2>5 DEF CommitMove
    <3> QED BY <1>5, <2>2, <2>3, <3>1, <3>2 DEF CommitMove, DispatchTidy
  <2> QED BY <2>4, <2>5
<1>6. CASE EnqueueMove(a)
  <2>1. PICK e \in action[a].todo :
          /\ action[a].phase = "enqueue" /\ record'[a] = record[a]
          /\ action'[a].phase = "enqueue" /\ action'[a].event = action[a].event
          /\ action'[a].todo = action[a].todo \ {e}
          /\ delivery'[a][e] = NewDelivery
          /\ \A f \in Endpoint \ {e} : delivery'[a][f] = delivery[a][f]
    BY <1>6 DEF EnqueueMove
  <2>2. e \in Endpoint
    BY <1>1 DEF ActionState
  <2>3. Enqueued(a)' = Enqueued(a) \cup {e}
    BY <2>1, <2>2, NewDeliveryTidy DEF Enqueued
  <2>4. \A f \in Endpoint : DeliveryTidy(delivery'[a][f])
    BY <1>1, <2>1, NewDeliveryTidy DEF DispatchTidy
  <2>5. record'[a].state # "none"
    BY <1>1, <2>1 DEF DispatchTidy
  <2>6. action'[a].todo \cup Enqueued(a)' = action[a].todo \cup Enqueued(a)
    BY <2>1, <2>3
  <2>7. action'[a].todo \cap Enqueued(a)' = {}
    BY <1>1, <2>1, <2>3, <2>5 DEF DispatchTidy
  <2>8. ~IsTransition(action'[a].event) => action'[a].todo = {}
    BY <1>1, <2>1 DEF DispatchTidy
  <2>9. record'[a].expected = Cardinality(action'[a].todo \cup Enqueued(a)')
    BY <1>1, <2>1, <2>5, <2>6 DEF DispatchTidy
  <2> QED BY <2>1, <2>4, <2>5, <2>7, <2>8, <2>9 DEF DispatchTidy
<1>7. CASE DeliveryMove(a)
  <2>1. PICK e \in Endpoint :
          /\ DeliveryStep(a, e) /\ action'[a] = action[a]
          /\ \A f \in Endpoint \ {e} : delivery'[a][f] = delivery[a][f]
    BY <1>7 DEF DeliveryMove
  <2>2. /\ DeliveryTidy(delivery'[a][e])
        /\ delivery[a][e].status # "none" /\ delivery'[a][e].status # "none"
    BY <1>1, <2>1, DeliveryRowMoves DEF DispatchTidy
  <2>3. Enqueued(a)' = Enqueued(a)
    BY <2>1, <2>2 DEF Enqueued
  <2>4. record[a].state # "none"
    BY <1>1, <2>2 DEF DispatchTidy, Enqueued
  <2>5. /\ record'[a].state # "none"
        /\ record'[a].expected = record[a].expected
    BY <2>4, RecordKept
  <2>6. \A f \in Endpoint : DeliveryTidy(delivery'[a][f])
    BY <1>1, <2>1, <2>2 DEF DispatchTidy
  <2> QED BY <1>1, <2>1, <2>3, <2>4, <2>5, <2>6 DEF DispatchTidy
<1>8. CASE StillMove(a)
  <2>1. Enqueued(a)' = Enqueued(a)
    BY <1>8 DEF StillMove, Enqueued
  <2>2. CASE record[a].state # "none"
    <3>1. /\ record'[a].state # "none"
          /\ record'[a].expected = record[a].expected
      BY <2>2, RecordKept
    <3>2. ~NotOpened(a)
      BY <1>2, <2>2
    <3> QED BY <1>1, <1>8, <2>1, <2>2, <3>1, <3>2 DEF StillMove, DispatchTidy
  <2>3. CASE record[a].state = "none"
    <3>1. record'[a].state = "none"
      BY <1>8, <2>3, RecordKept DEF StillMove
    <3> QED BY <1>1, <1>8, <2>1, <2>3, <3>1 DEF StillMove, DispatchTidy
  <2> QED BY <2>2, <2>3
<1> QED BY <1>3, <1>4, <1>5, <1>6, <1>7, <1>8 DEF Move

\* What has ended stays so, with as many lost.
LEMMA EndedStays ==
  ASSUME RecordInv, [Next]_vars, NEW a \in Action \ lapsed', Counted(a), Move(a), Ended(a)
  PROVE  Ended(a)' /\ Lost(a)' = Lost(a)
<1>1. TypeOK /\ DispatchTidy(a) /\ record[a].state # "none" /\ action[a].todo = {}
  BY DEF RecordInv, TypeInv, Counted, Ended
<1>2. ~NotOpened(a)
  BY <1>1 DEF RecordInv, UnopenedBlank, NoRecord
<1>3. record'[a].state # "none"
  BY <1>1, RecordKept
<1>4. ~StampMove(a) /\ ~OpenMove(a) /\ ~CommitMove(a) /\ ~EnqueueMove(a)
  BY <1>1, <1>2 DEF StampMove, OpenMove, CommitMove, EnqueueMove
<1>5. action'[a].todo = {} /\ \A e \in Endpoint : delivery'[a][e].status = delivery[a][e].status
  <2>1. CASE StillMove(a)
    BY <1>1, <2>1 DEF StillMove
  <2>2. CASE DeliveryMove(a)
    <3>1. PICK e \in Endpoint :
            /\ DeliveryStep(a, e) /\ action'[a] = action[a]
            /\ \A f \in Endpoint \ {e} : delivery'[a][f] = delivery[a][f]
      BY <2>2 DEF DeliveryMove
    <3>2. delivery[a][e].status # "pending"
      BY DEF Ended, DeliveriesIn
    <3>3. delivery'[a][e].status = delivery[a][e].status
      BY <1>1, <3>1, <3>2, DeliveryRowMoves DEF DispatchTidy
    <3> QED BY <1>1, <3>1, <3>3
  <2> QED BY <1>4, <2>1, <2>2 DEF Move
<1>6. \A status : DeliveriesIn(a, status)' = DeliveriesIn(a, status)
  BY <1>5 DEF DeliveriesIn
<1> QED BY <1>3, <1>5, <1>6 DEF Ended, Lost

\* How the purge of q comes to settle and to complete a record.
LEMMA PurgeSettles ==
  ASSUME TypeOK, NEW q \in Action, PurgeStep(q)
  PROVE  /\ purge[q].phase # "none"
         /\ \/ purge'[q].phase \notin {"settle", "complete"}
            \/ \E a \in Action : StampCdn(q, a) /\ purge'[q].phase = "settle" /\ purge'[q].at = a
            \/ /\ Ready(purge[q].at) /\ purge[q].phase = "settle" /\ UNCHANGED record
               /\ purge'[q].phase = "complete" /\ purge'[q].at = purge[q].at
               /\ purge'[q].seen = Lost(purge[q].at)
         /\ \/ purge[q].phase \notin {"settle", "complete"}
            \/ /\ purge[q].phase = "settle" /\ ~Ready(purge[q].at) /\ UNCHANGED record
            \/ /\ purge'[q].phase = "complete" /\ purge'[q].at = purge[q].at
            \/ CompletePurge(q)
<1>1. purge \in [Action -> PurgeState] /\ purge[q] \in PurgeState
  BY DEF TypeOK
<1>2. CASE DuePurge(q)
  BY <1>1, <1>2 DEF DuePurge, PurgeGoto, PurgeState
<1>3. CASE StartPurge(q)
  BY <1>1, <1>3 DEF StartPurge, PurgeState
<1>4. ASSUME NEW answer \in {"acknowledged", "refused", "no_url"}, PostPurge(q, answer)
      PROVE  /\ purge[q].phase = "post"
             /\ purge'[q].phase \in {"available", "list"}
  <2>1. purge'[q] = [purge[q] EXCEPT
          !.verdict = Verdict(q, answer),
          !.phase = IF Verdict(q, answer) = "none" THEN "available" ELSE "list"]
    BY <1>1, <1>4 DEF PostPurge
  <2>2. purge'[q].phase = IF Verdict(q, answer) = "none" THEN "available" ELSE "list"
    BY <1>1, <2>1 DEF PurgeState
  <2> QED BY <1>4, <2>2 DEF PostPurge
<1>5. CASE ListPending(q)
  BY <1>1, <1>5 DEF ListPending, PurgeState
<1>6. ASSUME NEW a \in Action, StampCdn(q, a)
      PROVE  purge[q].phase = "stamp" /\ purge'[q].phase = "settle" /\ purge'[q].at = a
  <2>1. purge'[q] = [purge[q] EXCEPT !.phase = "settle", !.at = a, !.todo = @ \ {a}]
    BY <1>1, <1>6 DEF StampCdn
  <2> QED BY <1>1, <1>6, <2>1 DEF StampCdn, PurgeState
<1>7. CASE SettlePurge(q)
  <2>1. CASE Ready(purge[q].at)
    <3>1. purge'[q] = [purge[q] EXCEPT !.phase = "complete", !.seen = Lost(purge[q].at)]
      BY <1>1, <1>7, <2>1 DEF SettlePurge
    <3>2. /\ purge'[q].phase = "complete" /\ purge'[q].at = purge[q].at
          /\ purge'[q].seen = Lost(purge[q].at)
      BY <1>1, <3>1 DEF PurgeState
    <3> QED BY <1>7, <2>1, <3>2 DEF SettlePurge
  <2>2. CASE ~Ready(purge[q].at)
    <3>1. purge'[q] = [purge[q] EXCEPT !.phase = "stamp", !.at = None]
      BY <1>1, <1>7, <2>2 DEF SettlePurge
    <3>2. purge'[q].phase = "stamp"
      BY <1>1, <3>1 DEF PurgeState
    <3> QED BY <1>7, <2>2, <3>2 DEF SettlePurge
  <2> QED BY <2>1, <2>2
<1>8. CASE CompletePurge(q)
  <2>1. purge'[q] = [purge[q] EXCEPT !.phase = "stamp", !.at = None, !.seen = 0]
    BY <1>1, <1>8 DEF CompletePurge
  <2>2. purge'[q].phase = "stamp"
    BY <1>1, <2>1 DEF PurgeState
  <2> QED BY <1>8, <2>2 DEF CompletePurge
<1>9. CASE FinishPurge(q)
  BY <1>1, <1>9 DEF FinishPurge, PurgeGoto, PurgeState
<1> QED BY <1>2, <1>3, <1>4, <1>5, <1>6, <1>7, <1>8, <1>9 DEF PurgeStep

\* A purge job is inserted where there was none.
LEMMA UnbornStays ==
  ASSUME RecordInv, [Next]_vars, NEW a \in Action, PurgeUnborn(a)
  PROVE  /\ PurgeUnborn(a)'
         /\ \/ purge'[a] = purge[a]
            \/ purge[a].phase = "none" /\ purge'[a].phase = "scheduled"
            \/ PurgeStep(a) \/ PurgeFault(a)
<1>1. TypeOK /\ PurgeUnborn(a) /\ action[a] \in ActionState /\ DispatchOrder
  BY DEF RecordInv, TypeInv, TypeOK
<1>2. ASSUME NEW b \in Action, DispatchFault(b)
      PROVE  PurgeUnborn(a)' /\ purge'[a] = purge[a]
  <2>1. /\ UNCHANGED <<txn, purge>>
        /\ a # b => action'[a] = action[a]
        /\ b \notin Release \/ action[b].phase = "enqueue"
        /\ action[b].phase # "done"
    BY <1>1, <1>2, DispatchFaultWrites
  <2>2. b \notin Release
    BY <1>1, <2>1 DEF DispatchOrder
  <2> QED BY <1>1, <2>1, <2>2 DEF PurgeUnborn
<1>3. CASE UNCHANGED <<action, txn, purge>>
  BY <1>1, <1>3 DEF PurgeUnborn
<1>4. ASSUME NEW b \in Action, NEW event \in Event, Commit(b, event)
      PROVE  PurgeUnborn(a)' /\ purge'[a] = purge[a]
  <2>1. action'[a].phase \in {"committed", action[a].phase} /\ UNCHANGED <<txn, purge>>
    BY <1>1, <1>4 DEF Commit, TypeOK, ActionState
  <2>2. action[a].phase = "done" => action'[a].phase = "done"
    BY <1>1, <1>4 DEF Commit, TypeOK
  <2> QED BY <1>1, <2>1, <2>2 DEF PurgeUnborn
<1>5. ASSUME NEW b \in Action, DispatchStep(b)
      PROVE  /\ PurgeUnborn(a)'
             /\ \/ purge'[a] = purge[a]
                \/ purge[a].phase = "none" /\ purge'[a].phase = "scheduled"
  <2>1. CASE a # b
    <3>1. action'[a] = action[a] /\ purge'[a] = purge[a] /\ txn' = txn
      BY <1>1, <1>5, <2>1 DEF DispatchStep, StampAfterCommit, Stamp, OpenRecord,
                              EnqueueDelivery, FannedOut, EnqueuePurge, TypeOK
    <3> QED BY <1>1, <3>1 DEF PurgeUnborn
  <2>2. CASE EnqueuePurge(a)
    <3>1. a \notin Release /\ action[a].phase = "purge" /\ action'[a].phase = "done"
      BY <1>1, <2>2 DEF EnqueuePurge, TypeOK
    <3>2. purge'[a] = purge[a] \/ purge'[a] = NewPurge(FALSE)
      BY <1>1, <2>2 DEF EnqueuePurge, TypeOK
    <3> QED BY <1>1, <3>1, <3>2, NewRows DEF PurgeUnborn
  <2>3. CASE a = b /\ ~EnqueuePurge(a)
    <3>1. UNCHANGED <<txn, purge>> /\ action[a].phase # "done"
      BY <1>5, <2>3 DEF DispatchStep, StampAfterCommit, Stamp, OpenRecord,
                        EnqueueDelivery, FannedOut
    <3>2. a \notin Release
      BY <1>1, <1>5, <2>3 DEF DispatchStep, StampAfterCommit, OpenRecord, EnqueueDelivery,
                              FannedOut, DispatchOrder
    <3> QED BY <1>1, <3>1, <3>2 DEF PurgeUnborn
  <2> QED BY <1>5, <2>1, <2>2, <2>3
<1>6. CASE ReleaseStep
  <2>1. ASSUME NEW b \in Action, NEW event \in Event, NEW targets \in SUBSET Endpoint,
               StampInRelease(b, event, targets)
        PROVE  PurgeUnborn(a)' /\ purge'[a] = purge[a]
    <3>1. UNCHANGED <<txn, purge>>
      BY <2>1 DEF StampInRelease, Stamp
    <3>2. action'[a] = action[a] \/ a = b
      BY <1>1, <2>1 DEF StampInRelease, Stamp, TypeOK
    <3>3. a = b => action[a].phase = "idle" /\ action'[a].phase \in {"stamped", "purge"}
      BY <1>1, <2>1 DEF StampInRelease, Stamp, TypeOK
    <3> QED BY <1>1, <3>1, <3>2, <3>3 DEF PurgeUnborn
  <2>2. CASE CommitRelease
    <3> DEFINE purging == {c \in Release : action[c].purging /\ ~action[c].absorbed}
               first == CHOOSE c \in purging : TRUE
    <3>1. txn = "open" /\ txn' = "committed"
      BY <2>2 DEF CommitRelease
    <3>2. action'[a] = IF a \in Release THEN [action[a] EXCEPT !.phase = "done", !.todo = {}]
                       ELSE action[a]
      BY <2>2 DEF CommitRelease
    <3>3. a \in Release => action'[a].phase = "done"
      BY <1>1, <3>2 DEF ActionState
    <3>4. \/ UNCHANGED purge
          \/ first \in Release /\ purge' = [purge EXCEPT ![first] = NewPurge(TRUE)]
      <4>1. IF purging = {} THEN purge' = purge
            ELSE purge' = [purge EXCEPT ![first] = NewPurge(TRUE)]
        BY <2>2 DEF CommitRelease
      <4>2. purging # {} => first \in Release
        OBVIOUS
      <4> HIDE DEF first, purging
      <4> QED BY <4>1, <4>2
    <3> HIDE DEF first
    <3>5. purge'[a] = purge[a] \/ (a \in Release /\ purge'[a] = NewPurge(TRUE))
      <4>1. CASE a = first
        BY <1>1, <3>4, <4>1 DEF TypeOK
      <4>2. CASE a # first
        BY <1>1, <3>4, <4>2 DEF TypeOK
      <4> QED BY <4>1, <4>2
    <3> QED BY <1>1, <3>1, <3>2, <3>3, <3>5, NewRows DEF PurgeUnborn
  <2>3. CASE RollBackRelease
    <3>1. action'[a] = IF a \in Release THEN [action[a] EXCEPT !.phase = "rolled_back"]
                       ELSE action[a]
      BY <2>3 DEF RollBackRelease
    <3>2. UNCHANGED purge /\ txn = "open" /\ txn' = "rolled_back"
      BY <2>3 DEF RollBackRelease
    <3> QED BY <1>1, <3>1, <3>2 DEF PurgeUnborn
  <2> QED BY <1>6, <2>1, <2>2, <2>3 DEF ReleaseStep
<1>7. ASSUME NEW q \in Action, PurgeStep(q)
      PROVE  PurgeUnborn(a)' /\ (purge'[a] = purge[a] \/ PurgeStep(a))
  <2>1. UNCHANGED <<action, txn>>
    BY <1>7 DEF PurgeStep, DuePurge, StartPurge, PostPurge, ListPending, StampCdn,
                SettlePurge, CompletePurge, FinishPurge
  <2>2. q # a => purge'[a] = purge[a]
    BY <1>1, <1>7 DEF PurgeStep, DuePurge, StartPurge, PostPurge, ListPending, StampCdn,
                SettlePurge, CompletePurge, FinishPurge, PurgeGoto, TypeOK
  <2>3. PurgeStep(a) => purge[a].phase # "none"
    BY <1>1, PurgeSettles
  <2> QED BY <1>1, <1>7, <2>1, <2>2, <2>3 DEF PurgeUnborn
<1>8. ASSUME NEW b \in Action, NEW e \in Endpoint, DeliveryStep(b, e)
      PROVE  UNCHANGED <<action, txn, purge>>
  BY <1>8 DEF DeliveryStep, FetchDelivery, RecordAttempt, SettleDelivery, CompleteDelivery
<1>9. CASE UnsetPurgeUrl \/ UNCHANGED vars
  BY <1>3, <1>9 DEF UnsetPurgeUrl, vars
<1>10. ASSUME NEW b \in Action, NEW e \in Endpoint, DeliveryFault(b, e)
       PROVE  UNCHANGED <<action, txn, purge>>
  BY <1>1, <1>10, DeliveryFaultWrites
<1>11. ASSUME NEW q \in Action, PurgeFault(q)
       PROVE  PurgeUnborn(a)' /\ (purge'[a] = purge[a] \/ PurgeFault(a))
  <2>1. /\ UNCHANGED <<action, txn>> /\ purge[q].phase # "none"
        /\ q # a => purge'[a] = purge[a]
    BY <1>1, <1>11, PurgeFaultWrites DEF TypeOK
  <2> QED BY <1>1, <1>11, <2>1 DEF PurgeUnborn
<1> QED BY <1>2, <1>3, <1>4, <1>5, <1>6, <1>7, <1>8, <1>9, <1>10, <1>11 DEF Next, Fault

\* Who completes, and who has completed, a record has the final counts.
LEMMA MovesKeepCounts ==
  ASSUME RecordInv, \A q \in Action : PurgeUnborn(q), [Next]_vars,
         NEW a \in Action \ lapsed', Counted(a), Move(a)
  PROVE  SettlersCounted(a)'
<1>1. TypeOK /\ TypeInv /\ DispatchTidy(a) /\ SettlersCounted(a) /\ record[a] \in RecordRow
  BY DEF RecordInv, TypeInv, TypeOK, Counted
<1>2. Ready(a) => Ended(a)
  BY <1>1, ReadyMeansEnded
<1>3. Ended(a) => Ended(a)' /\ Lost(a)' = Lost(a)
  BY EndedStays
<1>4. ASSUME NEW e \in Endpoint, delivery'[a][e].phase = "complete"
      PROVE  Ended(a)' /\ delivery'[a][e].seen = Lost(a)'
  <2>1. CASE delivery'[a][e] = delivery[a][e]
    BY <1>1, <1>3, <1>4, <2>1 DEF SettlersCounted
  <2>2. CASE delivery'[a][e] # delivery[a][e]
    <3>1. delivery'[a][e] # NewDelivery
      BY <1>4, NewDeliveryTidy
    <3>2. DeliveryMove(a)
      BY <2>2, <3>1 DEF Move, StampMove, OpenMove, CommitMove, EnqueueMove, StillMove
    <3>3. DeliveryStep(a, e)
      BY <2>2, <3>2 DEF DeliveryMove
    <3>4. Ready(a) /\ delivery'[a][e].seen = Lost(a)
      BY <1>1, <1>4, <3>3, DeliveryRowMoves DEF DispatchTidy
    <3> QED BY <1>2, <1>3, <3>4
  <2> QED BY <2>1, <2>2
<1>5. ASSUME NEW q \in Action, purge'[q].phase = "complete", purge'[q].at = a
      PROVE  Ended(a)' /\ purge'[q].seen = Lost(a)'
  <2>1. CASE purge'[q] = purge[q]
    BY <1>1, <1>3, <1>5, <2>1 DEF SettlersCounted
  <2>2. CASE PurgeStep(q)
    <3>1. Ready(a) /\ purge'[q].seen = Lost(a)
      BY <1>1, <1>5, <2>2, PurgeSettles
    <3> QED BY <1>2, <1>3, <3>1
  <2>3. ~PurgeFault(q)
    <3> SUFFICES ASSUME PurgeFault(q) PROVE FALSE
      OBVIOUS
    <3>1. purge'[q].phase # "complete"
      BY <1>1, PurgeFaultWrites DEF TypeOK
    <3> QED BY <1>5, <3>1
  <2> QED BY <1>5, <2>1, <2>2, <2>3, UnbornStays
<1>6. ASSUME record'[a].state = "completed"
      PROVE  Ended(a)' /\ record'[a].failed = Lost(a)'
  <2>1. CASE record'[a] = record[a]
    BY <1>1, <1>3, <1>6, <2>1 DEF SettlersCounted
  <2>2. CASE Inserted(a)
    <3>1. /\ NotOpened(a) /\ record'[a] = Opened(a) /\ NothingToWaitFor(a)
      BY <1>1, <1>6, <2>2, OpenedRow DEF Inserted
    <3>2. /\ record[a].state = "none" /\ action[a].todo = {} /\ record'[a].failed = 0
          /\ \A e \in Endpoint : delivery[a][e].status = "none"
      BY <1>1, <3>1 DEF NothingToWaitFor, Opened, RecordInv, UnopenedBlank, NoRecord,
                        DispatchTidy, Enqueued
    <3>3. OpenMove(a) \/ CommitMove(a)
      <4>1. Opened(a).state # "none"
        BY <1>1, OpenedRow
      <4>2. ~DeliveryMove(a)
        <5> SUFFICES ASSUME NEW e \in Endpoint, DeliveryStep(a, e)
                     PROVE  FALSE
          BY DEF DeliveryMove
        <5>1. delivery[a][e].status # "none"
          BY <1>1, DeliveryRowMoves DEF DispatchTidy
        <5> QED BY <3>2, <5>1
      <4> QED BY <2>2, <3>1, <3>2, <4>1, <4>2 DEF Move, StampMove, EnqueueMove, StillMove
    <3>4. action'[a].todo = {} /\ \A e \in Endpoint : delivery'[a][e].status = "none"
      BY <3>2, <3>3 DEF OpenMove, CommitMove
    <3>5. DeliveriesIn(a, "pending")' = {} /\ DeliveriesIn(a, "failed")' = {}
      BY <3>4 DEF DeliveriesIn
    <3>6. Lost(a)' = 0
      BY <3>5, FS_EmptySet DEF Lost
    <3> QED BY <1>6, <3>2, <3>4, <3>5, <3>6 DEF Ended
  <2>3. ASSUME NEW q \in Action, StampedBy(q, a)
        PROVE  Ended(a)' /\ record'[a].failed = Lost(a)'
    <3>1. record'[a].state = record[a].state /\ record'[a].failed = record[a].failed
      BY <1>1, <2>3 DEF StampedBy, RecordRow
    <3> QED BY <1>1, <1>3, <1>6, <3>1 DEF SettlersCounted
  <2>4. ASSUME NEW seen \in Nat, Complete(a, seen), Ended(a), seen = Lost(a)
        PROVE  Ended(a)' /\ record'[a].failed = Lost(a)'
    <3>1. CASE Unsettled(a)
      <4>1. record'[a] = [record[a] EXCEPT !.state = "completed", !.failed = seen]
        BY <1>1, <2>4, <3>1 DEF Complete, TypeOK
      <4>2. record'[a].failed = seen
        BY <1>1, <4>1 DEF RecordRow
      <4> QED BY <1>3, <2>4, <4>2
    <3>2. CASE ~Unsettled(a)
      BY <2>1, <2>4, <3>2 DEF Complete
    <3> QED BY <3>1, <3>2
  <2>5. ASSUME NEW e \in Endpoint, CompleteDelivery(a, e)
        PROVE  Ended(a)' /\ record'[a].failed = Lost(a)'
    <3>1. delivery[a][e].seen \in Nat /\ Ended(a) /\ delivery[a][e].seen = Lost(a)
      BY <1>1, <2>5 DEF CompleteDelivery, SettlersCounted, TypeOK, DeliveryState
    <3> QED BY <2>4, <2>5, <3>1 DEF CompleteDelivery
  <2>6. ASSUME NEW q \in Action, CompletePurge(q), purge[q].at = a
        PROVE  Ended(a)' /\ record'[a].failed = Lost(a)'
    <3>1. purge[q].seen \in Nat /\ Ended(a) /\ purge[q].seen = Lost(a)
      BY <1>1, <2>6 DEF CompletePurge, SettlersCounted, TypeOK, PurgeState
    <3> QED BY <2>4, <2>6, <3>1 DEF CompletePurge
  <2>7. CASE Completed(a)
    <3>1. record[a].state = "open"
      BY <2>7 DEF Completed
    <3>2. ASSUME NEW b \in Action, NEW seen, b # a, Complete(b, seen)
          PROVE  record'[a] = record[a]
      BY <1>1, <3>2 DEF Complete, TypeOK
    <3>3. ASSUME NEW b \in Action, NEW e \in Endpoint, CompleteDelivery(b, e), b # a
          PROVE  record'[a] = record[a]
      BY <3>2, <3>3 DEF CompleteDelivery
    <3>4. ASSUME NEW q \in Action, CompletePurge(q), purge[q].at # a
          PROVE  record'[a] = record[a]
      <4>1. purge[q].at \in Action
        BY <1>1, <3>4 DEF CompletePurge, TypeInv, PurgesHaveVerdicts
      <4> QED BY <3>2, <3>4, <4>1 DEF CompletePurge
    <3>5. ASSUME NEW b \in Action, OpenRecord(b)
          PROVE  record'[a] = record[a] \/ record[a].state = "none"
      <4>1. CASE b = a
        <5>1. NotOpened(a)
          BY <3>5, <4>1 DEF OpenRecord, NotOpened
        <5> QED BY <5>1 DEF RecordInv, UnopenedBlank, NoRecord
      <4>2. CASE b # a
        BY <1>1, <3>5, <4>2 DEF OpenRecord, TypeOK
      <4> QED BY <4>1, <4>2
    <3>6. ASSUME CommitRelease
          PROVE  record'[a] = record[a] \/ record[a].state = "none"
      <4>1. CASE a \in Release
        <5>1. NotOpened(a)
          BY <3>6, <4>1 DEF CommitRelease, NotOpened
        <5> QED BY <5>1 DEF RecordInv, UnopenedBlank, NoRecord
      <4>2. CASE a \notin Release
        BY <3>6, <4>2 DEF CommitRelease
      <4> QED BY <4>1, <4>2
    <3>7. ASSUME NEW q \in Action, NEW b \in Action, StampCdn(q, b)
          PROVE  record'[a].state = record[a].state
      BY <1>1, <3>7 DEF StampCdn, TypeOK, RecordRow
    <3>8. record'[a] # record[a]
      BY <1>6, <3>1
    <3>9. ASSUME NEW b \in Action, DispatchFault(b)
          PROVE  record'[a] = record[a]
      BY <1>1, <3>9, DispatchFaultWrites
    <3> QED BY <1>1, <1>6, <2>5, <2>6, <3>1, <3>3, <3>4, <3>5, <3>6, <3>7, <3>8, <3>9,
               RecordWriters
  <2> QED BY <2>1, <2>2, <2>3, <2>7, RecordChanges DEF RecordChange, Untouched, HalfInserted
<1> QED BY <1>4, <1>5, <1>6 DEF SettlersCounted

\* A record not found ready has a delivery to come or under way.
LEMMA UnreadyAwaits ==
  ASSUME TypeOK, NEW a \in Action, DispatchTidy(a), ~Ready(a),
         record[a].state = "open", record[a].cdn # "pending"
  PROVE  \/ action[a].phase = "enqueue" /\ action[a].todo # {}
         \/ \E e \in Endpoint : delivery[a][e].phase \in {"ready", "post"}
<1>1. ~Ended(a)
  BY EndedMeansReady
<1>2. CASE action[a].todo # {}
  BY <1>2 DEF DispatchTidy
<1>3. CASE action[a].todo = {}
  <2>1. PICK e \in Endpoint : delivery[a][e].status = "pending"
    BY <1>1, <1>3 DEF Ended, DeliveriesIn
  <2>2. delivery[a][e].phase \in {"ready", "post"}
    BY <2>1 DEF DispatchTidy, DeliveryTidy
  <2> QED BY <2>2
<1> QED BY <1>2, <1>3

\* The purge of a record stops being pending only when a worker stamps it, and
\* goes on to settle it.
LEMMA StampedAwaits ==
  ASSUME RecordInv, [Next]_vars, NEW a \in Action, ~NotOpened(a),
         record[a].cdn = "pending", record'[a].cdn # "pending"
  PROVE  \E q \in Action : purge'[q].at = a /\ purge'[q].phase = "settle"
<1>1. TypeOK /\ TypeInv
  BY DEF RecordInv, TypeInv
<1>2. record[a] \in RecordRow /\ record'[a] # record[a]
  BY <1>1 DEF TypeOK
<1>3. ASSUME NEW b \in Action, OpenRecord(b)
      PROVE  FALSE
  BY <1>1, <1>2, <1>3 DEF OpenRecord, NotOpened, TypeOK
<1>4. CASE CommitRelease
  BY <1>2, <1>4 DEF CommitRelease, NotOpened
<1>5. ~Completed(a)
  BY DEF Completed
<1>6. ASSUME NEW b \in Action, NEW e \in Endpoint, CompleteDelivery(b, e)
      PROVE  FALSE
  <2>1. delivery[b][e].seen \in Nat
    BY <1>1 DEF TypeOK, DeliveryState
  <2>2. record[b].cdn # "pending"
    BY <1>6 DEF CompleteDelivery, RecordInv, SettlersSawPurge
  <2> QED BY <1>1, <1>2, <1>5, <1>6, <2>1, <2>2, CompleteChanges DEF CompleteDelivery, Untouched
<1>7. ASSUME NEW q \in Action, CompletePurge(q)
      PROVE  FALSE
  <2>1. purge[q].seen \in Nat /\ purge[q].at \in Action
    BY <1>1, <1>7 DEF CompletePurge, TypeInv, PurgesHaveVerdicts, TypeOK, PurgeState
  <2>2. record[purge[q].at].cdn # "pending"
    BY <1>7 DEF CompletePurge, RecordInv, SettlersSawPurge
  <2> QED BY <1>1, <1>2, <1>5, <1>7, <2>1, <2>2, CompleteChanges DEF CompletePurge, Untouched
<1>8. ASSUME NEW q \in Action, NEW b \in Action, StampCdn(q, b)
      PROVE  purge'[q].at = a /\ purge'[q].phase = "settle"
  <2>1. b = a
    BY <1>1, <1>2, <1>8 DEF StampCdn, TypeOK
  <2>2. purge'[q] = [purge[q] EXCEPT !.phase = "settle", !.at = b, !.todo = @ \ {b}]
    BY <1>1, <1>8 DEF StampCdn, TypeOK
  <2>3. purge[q] \in PurgeState
    BY <1>1 DEF TypeOK
  <2> QED BY <2>1, <2>2, <2>3 DEF PurgeState
<1>9. ~UNCHANGED <<record, emitted>>
  BY <1>2
<1>10. ASSUME NEW b \in Action, DispatchFault(b)
       PROVE  FALSE
  BY <1>1, <1>2, <1>10, DispatchFaultWrites DEF NotOpened
<1> QED BY <1>1, <1>3, <1>4, <1>6, <1>7, <1>8, <1>9, <1>10, RecordWriters

LEMMA MovesKeepAwaits ==
  ASSUME RecordInv, \A q \in Action : PurgeUnborn(q), [Next]_vars,
         NEW a \in Action \ lapsed', Counted(a), Move(a)
  PROVE  Awaits(a)'
<1> SUFFICES ASSUME record'[a].state = "open", record'[a].cdn # "pending"
             PROVE  \/ action'[a].phase = "enqueue" /\ action'[a].todo # {}
                    \/ \E e \in Endpoint :
                         delivery'[a][e].phase \in {"ready", "post", "settle", "complete"}
                    \/ \E q \in Action :
                         purge'[q].at = a /\ purge'[q].phase \in {"settle", "complete"}
  BY DEF Awaits
<1>1. /\ TypeOK /\ TypeInv /\ DispatchTidy(a) /\ Awaits(a) /\ record[a] \in RecordRow
      /\ action[a] \in ActionState
  BY DEF RecordInv, TypeInv, TypeOK, Counted
<1>2. NotOpened(a) => record[a].state = "none"
  BY DEF RecordInv, UnopenedBlank, NoRecord
<1>3. CASE StampMove(a)
  BY <1>2, <1>3 DEF StampMove
<1>4. CASE OpenMove(a) \/ CommitMove(a)
  <2>1. record'[a] = Opened(a)
    BY <1>2, <1>4 DEF OpenMove, CommitMove
  <2>2. action[a].todo # {}
    <3>1. ~NothingToWaitFor(a)
      BY <1>1, <2>1, OpenedRow
    <3>2. ~action[a].purging
      BY <2>1 DEF Opened
    <3> QED BY <3>1, <3>2 DEF NothingToWaitFor
  <2>3. CASE OpenMove(a)
    BY <2>2, <2>3 DEF OpenMove
  <2>4. CASE CommitMove(a)
    <3>1. PICK e \in Endpoint : e \in action[a].todo
      BY <1>1, <2>2 DEF ActionState
    <3>2. delivery'[a][e].phase = "ready"
      BY <2>4, <3>1, NewDeliveryTidy DEF CommitMove
    <3> QED BY <3>2
  <2> QED BY <1>4, <2>3, <2>4
<1>5. CASE EnqueueMove(a)
  <2>1. PICK e \in action[a].todo : delivery'[a][e] = NewDelivery
    BY <1>5 DEF EnqueueMove
  <2>2. e \in Endpoint /\ delivery'[a][e].phase = "ready"
    BY <1>1, <2>1, NewDeliveryTidy DEF ActionState
  <2> QED BY <2>2
<1>6. CASE DeliveryMove(a) \/ StillMove(a)
  <2>1. ~Inserted(a)
    <3>1. ASSUME NEW e \in Endpoint, DeliveryStep(a, e)
          PROVE  record[a].state # "none"
      <4>1. delivery[a][e].status # "none"
        BY <1>1, <3>1, DeliveryRowMoves DEF DispatchTidy
      <4> QED BY <1>1, <4>1 DEF DispatchTidy, Enqueued
    <3>2. DeliveryMove(a) => record[a].state # "none"
      BY <3>1 DEF DeliveryMove
    <3> QED BY <1>2, <1>6, <3>2 DEF StillMove, Inserted
  <2>2. record[a].state = "open" /\ ~NotOpened(a)
    <3>1. CASE Untouched(a)
      BY <1>2, <3>1 DEF Untouched
    <3>2. ASSUME NEW q \in Action, StampedBy(q, a)
          PROVE  record[a].state = "open"
      BY <1>1, <3>2 DEF StampedBy, RecordRow
    <3>3. CASE Completed(a)
      BY <1>1, <3>3 DEF Completed, RecordRow
    <3> QED BY <1>2, <2>1, <3>1, <3>2, <3>3, RecordChanges DEF RecordChange, HalfInserted
  <2>3. ASSUME NEW seen
        PROVE  ~Complete(a, seen)
    <3> SUFFICES ASSUME Complete(a, seen) PROVE FALSE
      OBVIOUS
    <3>1. record'[a] = [record[a] EXCEPT !.state = "completed", !.failed = seen]
      BY <1>1, <2>2 DEF Complete, Unsettled, TypeOK
    <3> QED BY <1>1, <3>1 DEF RecordRow
  <2>4. CASE record[a].cdn = "pending"
    BY <2>2, <2>4, StampedAwaits
  <2>5. ASSUME action[a].phase = "enqueue", action[a].todo # {}
        PROVE  action'[a].phase = "enqueue" /\ action'[a].todo # {}
    BY <1>6, <2>2, <2>5 DEF DeliveryMove, StillMove
  <2>6. ASSUME ~Ready(a), record[a].cdn # "pending"
        PROVE  \/ action'[a].phase = "enqueue" /\ action'[a].todo # {}
               \/ \E e \in Endpoint : delivery'[a][e].phase \in {"ready", "post", "settle"}
    <3>1. CASE action[a].phase = "enqueue" /\ action[a].todo # {}
      BY <2>5, <3>1
    <3>2. ASSUME NEW e \in Endpoint, delivery[a][e].phase \in {"ready", "post"}
          PROVE  delivery'[a][e].phase \in {"ready", "post", "settle"}
      <4>1. CASE delivery'[a][e] = delivery[a][e]
        BY <3>2, <4>1
      <4>2. CASE DeliveryStep(a, e)
        BY <1>1, <2>6, <3>2, <4>2, DeliveryRowMoves DEF DispatchTidy
      <4> QED BY <1>6, <4>1, <4>2 DEF DeliveryMove, StillMove
    <3> QED BY <1>1, <2>2, <2>6, <3>1, <3>2, UnreadyAwaits
  <2>7. ASSUME NEW e \in Endpoint, record[a].cdn # "pending",
               delivery[a][e].phase \in {"ready", "post", "settle", "complete"}
        PROVE  \/ action'[a].phase = "enqueue" /\ action'[a].todo # {}
               \/ \E f \in Endpoint :
                    delivery'[a][f].phase \in {"ready", "post", "settle", "complete"}
    <3>1. CASE delivery'[a][e] = delivery[a][e]
      BY <2>7, <3>1
    <3>2. CASE DeliveryStep(a, e)
      <4>1. \/ delivery'[a][e].phase \in {"ready", "post", "settle", "complete"}
            \/ ~Ready(a)
        BY <1>1, <2>3, <3>2, DeliveryRowMoves DEF DispatchTidy
      <4> QED BY <2>6, <2>7, <4>1
    <3> QED BY <1>6, <3>1, <3>2 DEF DeliveryMove, StillMove
  <2>8. ASSUME NEW q \in Action, record[a].cdn # "pending",
               purge[q].at = a, purge[q].phase \in {"settle", "complete"}
        PROVE  \/ action'[a].phase = "enqueue" /\ action'[a].todo # {}
               \/ \E e \in Endpoint : delivery'[a][e].phase \in {"ready", "post", "settle"}
               \/ purge'[q].at = a /\ purge'[q].phase \in {"settle", "complete"}
    <3>1. CASE purge'[q] = purge[q]
      BY <2>8, <3>1
    <3>2. CASE PurgeStep(q)
      <4>1. ~CompletePurge(q)
        BY <2>3, <2>8 DEF CompletePurge
      <4>2. \/ ~Ready(a)
            \/ purge'[q].phase = "complete" /\ purge'[q].at = a
        BY <1>1, <2>8, <3>2, <4>1, PurgeSettles
      <4> QED BY <2>6, <2>8, <4>2
    <3>3. purge[q].phase # "none"
      BY <2>8
    <3>4. ~PurgeFault(q)
      BY <1>1, <2>8, PurgeFaultWrites
    <3> QED BY <3>1, <3>2, <3>3, <3>4, UnbornStays
  <2> QED BY <1>1, <2>2, <2>4, <2>5, <2>7, <2>8 DEF Awaits
<1> QED BY <1>3, <1>4, <1>5, <1>6 DEF Move

\* A lapse is remembered.
LEMMA LapsedGrows ==
  ASSUME TypeOK, [Next]_vars
  PROVE  lapsed \subseteq lapsed'
<1>1. ASSUME NEW a \in Action, DispatchStep(a) \/ PurgeStep(a)
      PROVE  UNCHANGED lapsed
  BY <1>1 DEF DispatchStep, StampAfterCommit, Stamp, OpenRecord, EnqueueDelivery, FannedOut,
              EnqueuePurge, PurgeStep, DuePurge, StartPurge, PostPurge, ListPending,
              StampCdn, SettlePurge, CompletePurge, FinishPurge
<1>2. CASE ReleaseStep
  BY <1>2 DEF ReleaseStep, StampInRelease, Stamp, CommitRelease, RollBackRelease
<1>3. ASSUME NEW a \in Action, NEW e \in Endpoint, DeliveryStep(a, e)
      PROVE  UNCHANGED lapsed
  BY <1>3 DEF DeliveryStep, FetchDelivery, RecordAttempt, SettleDelivery, CompleteDelivery
<1>4. CASE Fault
  BY <1>4, DispatchFaultWrites, DeliveryFaultWrites, PurgeFaultWrites DEF Fault
<1>5. CASE \/ UNCHANGED vars \/ UnsetPurgeUrl
           \/ \E a \in Action, event \in Event : Commit(a, event)
  BY <1>5 DEF vars, UnsetPurgeUrl, Commit
<1> QED BY <1>1, <1>2, <1>3, <1>4, <1>5 DEF Next

LEMMA NextCountInv == CountInv /\ [Next]_vars => CountInv'
<1> SUFFICES ASSUME CountInv, [Next]_vars
             PROVE  CountInv'
  OBVIOUS
<1>1. RecordInv /\ TypeOK /\ \A q \in Action : PurgeUnborn(q)
  BY DEF CountInv, RecordInv, TypeInv
<1>2. RecordInv'
  BY <1>1, NextRecordInv
<1>3. \A q \in Action : PurgeUnborn(q)'
  BY <1>1, UnbornStays
<1>4. ASSUME NEW a \in Action \ lapsed'
      PROVE  DispatchTidy(a)' /\ SettlersCounted(a)' /\ Awaits(a)'
  <2>1. Counted(a)
    BY <1>1, LapsedGrows DEF CountInv
  <2>2. Move(a)
    BY <1>1, <2>1, Moves
  <2>3. DispatchTidy(a)'
    BY <1>1, <2>1, <2>2, MovesKeepTidy
  <2>4. SettlersCounted(a)' /\ Awaits(a)'
    BY <1>1, <2>1, <2>2, MovesKeepCounts, MovesKeepAwaits
  <2> QED BY <2>3, <2>4
<1> QED BY <1>2, <1>3, <1>4 DEF CountInv, Counted

LEMMA CountsInvariant == Spec => []CountInv
BY InitCountInv, NextCountInv, PTL DEF Spec

\* A completed record tells the truth unless one of its own processes was killed or
\* failed a call: everything it expected has ended and endpoints_failed is how many
\* were given up on, for any number of deliveries and purges that settle it
\* concurrently and whatever happens to other records.
THEOREM RecordsTellTheTruth == Spec => []CompletedTruthfully
<1>1. CountInv => CompletedTruthfully
  <2> SUFFICES ASSUME CountInv, NEW a \in Action \ lapsed, record[a].state = "completed"
               PROVE  /\ Cardinality(DeliveriesIn(a, "succeeded")) + Lost(a) = record[a].expected
                      /\ DeliveriesIn(a, "pending") = {}
                      /\ action[a].todo = {}
                      /\ record[a].failed = Lost(a)
    BY DEF CompletedTruthfully
  <2>1. TypeOK /\ DispatchTidy(a) /\ SettlersCounted(a)
    BY DEF CountInv, Counted, RecordInv, TypeInv
  <2>2. Ended(a) /\ record[a].failed = Lost(a)
    BY <2>1 DEF SettlersCounted
  <2> QED BY <2>1, <2>2, EndedMeansCounted DEF Ended
<1> QED BY <1>1, CountsInvariant, PTL

\* An open record is still being dispatched, waits for its purge, or has a delivery
\* or a purge on its way to settling it: the last of them to end finds it ready.
\* Only a kill or a failed call of its own (the rescues of settle/2, cdn_settled/3
\* and open/5 among them) leaves a record open with nobody coming.
THEOREM NoRecordForgotten == Spec => []SomeoneSettles
<1>1. CountInv => SomeoneSettles
  BY DEF CountInv, Counted, Awaits, SomeoneSettles
<1> QED BY <1>1, CountsInvariant, PTL
=============================================================================
