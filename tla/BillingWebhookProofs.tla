------------------------- MODULE BillingWebhookProofs -------------------------
(***************************************************************************)
(* Proofs about BillingWebhook for every number of events, charges,        *)
(* workers, cron runs and faults: its types, at-most-once processing, the  *)
(* charge's status date, and that it implements WebhookLedger.             *)
(***************************************************************************)
EXTENDS BillingWebhook, FiniteSetTheorems, TLAPS

(* The mapped status is a status of the enum or nothing. *)
LEMMA NextStatusType ==
  ASSUME NEW x \in Payload
  PROVE  NextStatus(x) \in ChargeStatus \cup {None}
<1>1. StatusOfEvent(x.event) \in ChargeStatus \cup {None}
  BY DEF StatusOfEvent, ChargeStatus
<1>2. StatusOfGateway(x.gatewayStatus) \in ChargeStatus \cup {None}
  BY DEF StatusOfGateway, ChargeStatus
<1>3. QED
  BY <1>1, <1>2 DEF NextStatus

(* Whatever the snapshot, the written row is a row. *)
LEMMA WrittenType ==
  ASSUME NEW row \in ChargeRow, NEW snapshot, NEW x \in Payload
  PROVE  Written(row, snapshot, x) \in ChargeRow
<1>1. Overlay(None, NextStatus(x), snapshot.status, row.status) \in ChargeStatus
  BY NextStatusType DEF Overlay, ChargeRow
<1>2. NextPaidAt(x) \in Nat
  BY DEF NextPaidAt, Payload, NoDate
<1>3. Overlay(NoDate, NextPaidAt(x), snapshot.paidAt, row.paidAt) \in Nat
  BY <1>2 DEF Overlay, ChargeRow
<1>4. /\ Overlay(None, x.gatewayChargeId, snapshot.gatewayChargeId, row.gatewayChargeId)
            \in STRING \cup {None}
      /\ Overlay(None, x.externalReference, snapshot.externalReference, row.externalReference)
            \in STRING \cup {None}
      /\ Overlay(None, x.gatewayStatus, snapshot.gatewayStatus, row.gatewayStatus)
            \in STRING \cup {None}
  BY DEF Overlay, ChargeRow, Payload
<1>5. (IF StampApplied(snapshot, x) THEN x.created ELSE row.gatewayStatusUpdatedAt) \in Nat
  BY DEF ChargeRow, Payload
<1>6. Planned(row, snapshot, x) \in ChargeRow
  BY <1>1, <1>3, <1>4, <1>5 DEF Planned, ChargeRow
<1>7. QED
  BY <1>6 DEF Written

(* Whatever happens to a job, it stays one. *)
LEMMA JobType ==
  ASSUME NEW owners, NEW j \in Job(owners), NEW w \in owners, NEW attempts \in Nat
  PROVE  /\ NoJob \in Job(owners) /\ Added(j) \in Job(owners) /\ Taken(j, w) \in Job(owners)
         /\ Completed(j) \in Job(owners) /\ Failed(j, attempts) \in Job(owners)
         /\ Stalled(j) \in Job(owners)
BY DEF Job, JobStates, JobIn, NoJob, Added, Taken, Completed, Failed, Stalled

(* The same of what needs no worker. *)
LEMMA UnownedJobType ==
  ASSUME NEW owners, NEW j \in Job(owners)
  PROVE  NoJob \in Job(owners) /\ Added(j) \in Job(owners) /\ Stalled(j) \in Job(owners)
BY DEF Job, JobStates, JobIn, NoJob, Added, Stalled

-----------------------------------------------------------------------------
(* Every reachable state is of the declared types. *)
THEOREM TypeCorrect == Spec => []TypeOK
<1>1. Init => TypeOK
  BY InitialTablesAssumption, DeliveriesAssumption
     DEF Init, TypeOK, LogRow, Results, Job, JobStates, JobIn, NoJob, Locations, Procs
<1>2. TypeOK /\ [Next]_vars => TypeOK'
  <2> SUFFICES ASSUME TypeOK, [Next]_vars PROVE TypeOK'
    OBVIOUS
  <2> USE DEF TypeOK, local
  <2>1. ASSUME NEW e \in Events, ReceiveWebhook(e) PROVE TypeOK'
    <3>1. Cardinality(Persisted) + 1 \in Nat
      BY EventsAssumption, FS_Subset, FS_CardinalityType DEF Persisted
    <3>2. QED
      BY <2>1, <3>1 DEF ReceiveWebhook, LogRow
  <2>2. ASSUME NEW e \in Events, EnqueueFails(e) \/ RemoveJob(e) \/ Age(e) PROVE TypeOK'
    <3>1. CASE EnqueueFails(e)
      BY <3>1 DEF EnqueueFails
    <3>2. CASE RemoveJob(e)
      <4>1. job' \in [Events -> Job(Workers)]
        BY <3>2, UnownedJobType DEF RemoveJob
      <4>2. QED
        BY <3>2, <4>1 DEF RemoveJob
    <3>3. CASE Age(e)
      BY <3>3 DEF Age, Persisted
    <3>4. QED
      BY <2>2, <3>1, <3>2, <3>3
  <2>3. ASSUME NEW e \in Events, EnqueueJob(e) PROVE TypeOK'
    BY <2>3, UnownedJobType DEF EnqueueJob
  <2>4. ASSUME NEW e \in Events, RecoverJob(e) \/ StallJob(e) PROVE TypeOK'
    <3>1. job' \in [Events -> Job(Workers)]
      BY <2>4, UnownedJobType DEF RecoverJob, StallJob
    <3>2. faults' \in Nat
      BY <2>4 DEF RecoverJob, StallJob
    <3>3. QED
      BY <2>4, <3>1, <3>2 DEF RecoverJob, StallJob
  <2>5. ASSUME NEW w \in Workers, TakeJob(w) PROVE TypeOK'
    <3>1. PICK e \in Events :
            /\ job' = [job EXCEPT ![e] = Taken(@, w)]
            /\ StartProcessing(w, e)
      BY <2>5 DEF TakeJob
    <3>2. job' \in [Events -> Job(Workers)]
      BY <3>1, JobType, BoundsAssumption
    <3>3. UNCHANGED <<payload, log, charge, handlers, aged, batch, applied, faults>>
      BY <2>5 DEF TakeJob
    <3>4. QED
      BY <3>1, <3>2, <3>3 DEF StartProcessing, Procs, Locations
  <2>6. ASSUME NEW w \in Workers, CompleteJob(w) \/ FailJob(w) PROVE TypeOK'
    <3>1. w \in Procs /\ event[w] \in Events
      BY <2>6 DEF CompleteJob, FailJob, Procs
    <3>2. job' \in [Events -> Job(Workers)]
      <4>1. /\ Completed(job[event[w]]) \in Job(Workers)
            /\ Failed(job[event[w]], MaxAttempts) \in Job(Workers)
        BY <3>1, JobType, BoundsAssumption
      <4>2. QED
        BY <2>6, <3>1, <4>1 DEF CompleteJob, FailJob, SettleJob
    <3>3. QED
      BY <2>6, <3>1, <3>2 DEF CompleteJob, FailJob, SettleJob, Finish, Goto, Locations
  <2>7. ASSUME NEW c \in CronRuns, StartRun(c) PROVE TypeOK'
    BY <2>7 DEF StartRun, DueBatch, Due, Pending, Persisted
  <2>8. ASSUME NEW c \in CronRuns, NextOfBatch(c) PROVE TypeOK'
    BY <2>8 DEF NextOfBatch, StartProcessing, Procs, Locations
  <2>9. ASSUME NEW c \in CronRuns, EndOfIteration(c) PROVE TypeOK'
    BY <2>9 DEF EndOfIteration, Finish, Goto, Procs, Locations
  <2>10. ASSUME NEW p \in Procs, ReadLog(p) \/ LockEvent(p) \/ FailureRead(p) \/ Conflict(p)
         PROVE TypeOK'
    BY <2>10 DEF ReadLog, LockEvent, FailureRead, Conflict, Goto, Locations
  <2>11. ASSUME NEW p \in Procs, ResolveTargets(p) PROVE TypeOK'
    BY <2>11 DEF ResolveTargets, Matched, MatchedById, MatchedByReference, Goto, Locations
  <2>12. ASSUME NEW p \in Procs, LockCharge(p) PROVE TypeOK'
    BY <2>12, ChargesAssumption DEF LockCharge, Goto, Locations
  <2>13. ASSUME NEW p \in Procs, Commit(p) PROVE TypeOK'
    <3>1. event[p] \in Events /\ payload[event[p]] \in Payload
      BY <2>13 DEF Commit
    <3>2. charge' \in [Charges -> ChargeRow]
      BY <2>13, <3>1, WrittenType DEF Commit, WrittenCharges
    <3>3. log' \in [Events -> LogRow]
      <4>1. ProcessingResult(p) \in Results
        BY DEF ProcessingResult, Results
      <4>2. QED
        BY <2>13, <3>1, <4>1 DEF Commit, LogRow
    <3>4. QED
      BY <2>13, <3>1, <3>2, <3>3 DEF Commit, Goto, Locations
  <2>14. ASSUME NEW p \in Procs, FailureWrite(p) PROVE TypeOK'
    BY <2>14 DEF FailureWrite, Goto, Locations, LogRow, Results
  <2>15. ASSUME NEW p \in Procs, DatabaseFails(p) PROVE TypeOK'
    BY <2>15 DEF DatabaseFails, Goto, Locations
  <2>16. ASSUME NEW p \in Procs, Crash(p) PROVE TypeOK'
    BY <2>16 DEF Crash, Finish, Goto, Locations
  <2>17. CASE ReleaseScheduledCharges
    <3>1. \A c \in Charges : [charge[c] EXCEPT !.status = "ISSUED"] \in ChargeRow
      BY DEF ChargeRow, ChargeStatus
    <3>2. charge' \in [Charges -> ChargeRow]
      BY <2>17, <3>1 DEF ReleaseScheduledCharges
    <3>3. QED
      BY <2>17, <3>2 DEF ReleaseScheduledCharges
  <2>18. CASE UNCHANGED vars
    BY <2>18 DEF vars
  <2>19. QED
    BY <2>1, <2>2, <2>3, <2>4, <2>5, <2>6, <2>7, <2>8, <2>9, <2>10, <2>11, <2>12,
       <2>13, <2>14, <2>15, <2>16, <2>17, <2>18
       DEF Next, QueueStep, WorkerStep, CronStep, Process, Fault
<1>3. QED
  BY <1>1, <1>2, PTL DEF Spec
-----------------------------------------------------------------------------
(* Steps that touch neither what the log says was processed, nor the charges, *)
(* nor the locals of a transaction that holds a lock.                         *)
Neutral ==
  /\ UNCHANGED <<payload, charge, applied>>
  /\ \A e \in Events : /\ log'[e].processed = log[e].processed
                       /\ log'[e].charge = log[e].charge
  /\ \A p \in Procs :
       \/ pc'[p] \notin {"resolve", "lockCharge", "write"}
       \/ UNCHANGED <<pc[p], event[p], target[p], snap[p]>>

LEMMA NeutralKeepsInv ==
  TypeOK /\ TransactionsIsolated /\ Neutral => TransactionsIsolated'
<1> SUFFICES ASSUME TypeOK, TransactionsIsolated, Neutral PROVE TransactionsIsolated'
  OBVIOUS
<1>1. \A p \in Procs, e \in Events : HoldsEventLock(p, e)' => HoldsEventLock(p, e)
  BY DEF Neutral, HoldsEventLock
<1>2. \A p \in Procs, c \in Charges : HoldsChargeLock(p, c)' =>
        HoldsChargeLock(p, c) /\ snap'[p] = snap[p]
  BY DEF Neutral, HoldsChargeLock
<1>3. EventIsolated'
  BY <1>1 DEF TransactionsIsolated, EventIsolated, Neutral
<1>4. ChargeIsolated'
  BY <1>2 DEF TransactionsIsolated, ChargeIsolated, Neutral, Ledger!Bases
<1>5. QED
  BY <1>3, <1>4 DEF TransactionsIsolated

(* All but five kinds of step are neutral. *)
LEMMA NeutralSteps ==
  ASSUME TypeOK, [Next]_vars
  PROVE  \/ Neutral
         \/ \E p \in Procs : LockEvent(p) \/ ResolveTargets(p) \/ LockCharge(p) \/ Commit(p)
         \/ ReleaseScheduledCharges
<1> USE DEF TypeOK, local
<1>1. ASSUME NEW e \in Events, ReceiveWebhook(e) PROVE Neutral
  BY <1>1 DEF ReceiveWebhook, LogRow, Neutral
<1>2. ASSUME NEW e \in Events,
             EnqueueFails(e) \/ RemoveJob(e) \/ Age(e) \/ EnqueueJob(e) \/ RecoverJob(e) \/ StallJob(e)
      PROVE  Neutral
  BY <1>2 DEF EnqueueFails, RemoveJob, Age, EnqueueJob, RecoverJob, StallJob, Neutral
<1>3. ASSUME NEW w \in Workers, TakeJob(w) PROVE Neutral
  BY <1>3 DEF TakeJob, StartProcessing, Procs, Neutral
<1>4. ASSUME NEW w \in Workers, CompleteJob(w) \/ FailJob(w) PROVE Neutral
  BY <1>4 DEF CompleteJob, FailJob, SettleJob, Finish, Goto, Procs, Neutral
<1>5. ASSUME NEW c \in CronRuns, StartRun(c) PROVE Neutral
  BY <1>5 DEF StartRun, Neutral
<1>6. ASSUME NEW c \in CronRuns, NextOfBatch(c) PROVE Neutral
  BY <1>6 DEF NextOfBatch, StartProcessing, Procs, Neutral
<1>7. ASSUME NEW c \in CronRuns, EndOfIteration(c) PROVE Neutral
  BY <1>7 DEF EndOfIteration, Finish, Goto, Procs, Neutral
<1>8. ASSUME NEW p \in Procs, ReadLog(p) \/ FailureRead(p) \/ Conflict(p) PROVE Neutral
  BY <1>8 DEF ReadLog, FailureRead, Conflict, Goto, Neutral
<1>9. ASSUME NEW p \in Procs, FailureWrite(p) PROVE Neutral
  BY <1>9 DEF FailureWrite, Goto, LogRow, Neutral
<1>10. ASSUME NEW p \in Procs, DatabaseFails(p) \/ Crash(p) PROVE Neutral
  BY <1>10 DEF DatabaseFails, Crash, Finish, Goto, Neutral
<1>11. CASE UNCHANGED vars
  BY <1>11 DEF vars, Neutral
<1>12. QED
  BY <1>1, <1>2, <1>3, <1>4, <1>5, <1>6, <1>7, <1>8, <1>9, <1>10, <1>11
     DEF Next, QueueStep, WorkerStep, CronStep, Process, Fault

(* Commit's effect on the row it writes and on the others. *)
LEMMA CommitEffect ==
  ASSUME TypeOK, NEW p \in Procs, Commit(p)
  PROVE  /\ event[p] \in Events
         /\ log'[event[p]].processed /\ log'[event[p]].charge = target[p]
         /\ payload' = payload
         /\ \A f \in Events : f # event[p] => log'[f] = log[f]
         /\ \A c \in Charges : c # target[p] => charge'[c] = charge[c]
         /\ \A c \in Charges : c = target[p] =>
              charge'[c] = Written(charge[c], snap[p], payload[event[p]])
         /\ target[p] = None \/ target[p] \in Charges
<1> USE DEF TypeOK
<1>1. event[p] \in Events
  BY DEF Commit
<1>2. /\ log'[event[p]].processed /\ log'[event[p]].charge = target[p]
      /\ payload' = payload
      /\ \A f \in Events : f # event[p] => log'[f] = log[f]
  BY <1>1 DEF Commit
<1>3. /\ \A c \in Charges : c # target[p] => charge'[c] = charge[c]
      /\ \A c \in Charges : c = target[p] =>
           charge'[c] = Written(charge[c], snap[p], payload[event[p]])
  BY ChargesAssumption DEF Commit, WrittenCharges
<1>4. QED
  BY <1>1, <1>2, <1>3

LEMMA RestoreStatus ==
  ASSUME NEW row \in ChargeRow, row.status = "SCHEDULED"
  PROVE  /\ [[row EXCEPT !.status = "ISSUED"] EXCEPT !.status = "SCHEDULED"] = row
         /\ [row EXCEPT !.status = "ISSUED"].status = "ISSUED"
BY DEF ChargeRow

(* In every reachable state the advisory locks isolate the transactions: one *)
(* transaction per event, which finds it unprocessed, one writer per charge, *)
(* which holds its current row up to the release sweep.                      *)
THEOREM Isolation == Spec => []TransactionsIsolated
<1>1. Init => TransactionsIsolated
  BY DEF Init, TransactionsIsolated, EventIsolated, ChargeIsolated, HoldsEventLock, HoldsChargeLock
<1>2. TypeOK /\ TransactionsIsolated /\ [Next]_vars => TransactionsIsolated'
  <2> SUFFICES ASSUME TypeOK, TransactionsIsolated, [Next]_vars PROVE TransactionsIsolated'
    OBVIOUS
  <2> USE DEF TypeOK, TransactionsIsolated
  <2>1. CASE Neutral
    BY <2>1, NeutralKeepsInv
  <2>2. ASSUME NEW p \in Procs, LockEvent(p) PROVE TransactionsIsolated'
    <3>1. \A q \in Procs, c \in Charges : HoldsChargeLock(q, c)' <=> HoldsChargeLock(q, c)
      BY <2>2 DEF LockEvent, Goto, HoldsChargeLock
    <3>2. \A q \in Procs, e \in Events : HoldsEventLock(q, e)' =>
            HoldsEventLock(q, e) \/ (q = p /\ e = event[p] /\ ~log[e].processed)
      BY <2>2 DEF LockEvent, Goto, HoldsEventLock
    <3>3. \A q \in Procs : ~HoldsEventLock(q, event[p])
      BY <2>2 DEF LockEvent
    <3>4. EventIsolated'
      BY <2>2, <3>2, <3>3 DEF LockEvent, EventIsolated
    <3>5. ChargeIsolated'
      BY <2>2, <3>1 DEF LockEvent, ChargeIsolated, Ledger!Bases
    <3>6. QED
      BY <3>4, <3>5
  <2>3. ASSUME NEW p \in Procs, ResolveTargets(p) PROVE TransactionsIsolated'
    <3>1. \A q \in Procs, e \in Events : HoldsEventLock(q, e)' => HoldsEventLock(q, e)
      BY <2>3 DEF ResolveTargets, Goto, HoldsEventLock
    <3>2. \A q \in Procs, c \in Charges : HoldsChargeLock(q, c)' => HoldsChargeLock(q, c)
      BY <2>3, ChargesAssumption DEF ResolveTargets, Goto, HoldsChargeLock
    <3>3. EventIsolated'
      BY <2>3, <3>1 DEF ResolveTargets, EventIsolated
    <3>4. ChargeIsolated'
      BY <2>3, <3>2 DEF ResolveTargets, ChargeIsolated, Ledger!Bases
    <3>5. QED
      BY <3>3, <3>4
  <2>4. ASSUME NEW p \in Procs, LockCharge(p) PROVE TransactionsIsolated'
    <3>1. \A q \in Procs, e \in Events : HoldsEventLock(q, e)' => HoldsEventLock(q, e)
      BY <2>4 DEF LockCharge, Goto, HoldsEventLock
    <3>2. \A q \in Procs, c \in Charges : HoldsChargeLock(q, c)' =>
            \/ HoldsChargeLock(q, c) /\ snap'[q] = snap[q] /\ c # target[p]
            \/ q = p /\ c = target[p] /\ snap'[q] = charge[c]
      BY <2>4 DEF LockCharge, Goto, HoldsChargeLock
    <3>3. EventIsolated'
      BY <2>4, <3>1 DEF LockCharge, EventIsolated
    <3>4. ChargeIsolated'
      BY <2>4, <3>2 DEF LockCharge, ChargeIsolated, Ledger!Bases
    <3>5. QED
      BY <3>3, <3>4
  <2>5. ASSUME NEW p \in Procs, Commit(p) PROVE TransactionsIsolated'
    <3>1. \A q \in Procs, e \in Events : HoldsEventLock(q, e)' =>
            HoldsEventLock(q, e) /\ q # p
      BY <2>5 DEF Commit, Goto, HoldsEventLock
    <3>2. \A q \in Procs, c \in Charges : HoldsChargeLock(q, c)' =>
            HoldsChargeLock(q, c) /\ q # p /\ snap'[q] = snap[q]
      BY <2>5 DEF Commit, Goto, HoldsChargeLock
    <3>3. HoldsEventLock(p, event[p])
      BY <2>5 DEF Commit, HoldsEventLock
    <3>4. \A c \in Charges : c = target[p] => HoldsChargeLock(p, c)
      BY <2>5 DEF Commit, HoldsChargeLock
    <3>5. EventIsolated'
      BY <2>5, <3>1, <3>3, CommitEffect DEF EventIsolated
    <3>6. ChargeIsolated'
      BY <2>5, <3>2, <3>4, CommitEffect DEF ChargeIsolated, Ledger!Bases
    <3>7. QED
      BY <3>5, <3>6
  <2>6. CASE ReleaseScheduledCharges
    <3>1. \A q \in Procs, e \in Events : HoldsEventLock(q, e)' <=> HoldsEventLock(q, e)
      BY <2>6 DEF ReleaseScheduledCharges, HoldsEventLock, local
    <3>2. \A q \in Procs, c \in Charges :
            /\ HoldsChargeLock(q, c)' <=> HoldsChargeLock(q, c)
            /\ snap'[q] = snap[q]
      BY <2>6 DEF ReleaseScheduledCharges, HoldsChargeLock, local
    <3>3. ASSUME NEW c \in Charges PROVE Ledger!Bases(charge[c]) \subseteq Ledger!Bases(charge'[c])
      <4>1. CASE charge'[c] = charge[c]
        BY <4>1 DEF Ledger!Bases
      <4>2. CASE charge'[c] # charge[c]
        <5>1. /\ charge[c].status = "SCHEDULED"
              /\ charge'[c] = [charge[c] EXCEPT !.status = "ISSUED"]
          BY <2>6, <4>2 DEF ReleaseScheduledCharges
        <5>2. /\ charge'[c].status = "ISSUED"
              /\ charge[c] = [charge'[c] EXCEPT !.status = "SCHEDULED"]
          BY <5>1, RestoreStatus
        <5>3. QED
          BY <5>1, <5>2 DEF Ledger!Bases
      <4>3. QED
        BY <4>1, <4>2
    <3>4. EventIsolated'
      BY <2>6, <3>1 DEF ReleaseScheduledCharges, EventIsolated
    <3>5. ChargeIsolated'
      BY <3>2, <3>3 DEF ChargeIsolated, Ledger!Bases
    <3>6. QED
      BY <3>4, <3>5
  <2>7. QED
    BY <2>1, <2>2, <2>3, <2>4, <2>5, <2>6, NeutralSteps
<1>3. QED
  BY <1>1, <1>2, TypeCorrect, PTL DEF Spec

-----------------------------------------------------------------------------
(* Whatever is delivered, retried, crashed or stalled, an event's transaction *)
(* commits at most once, and exactly when its row says processed.             *)
THEOREM ProcessedOnce == Spec => []AppliedOnce
<1>1. Init => AppliedOnce
  BY DEF Init, AppliedOnce
<1>2. TypeOK /\ TransactionsIsolated /\ AppliedOnce /\ [Next]_vars => AppliedOnce'
  <2> SUFFICES ASSUME TypeOK, TransactionsIsolated, AppliedOnce, [Next]_vars
               PROVE  AppliedOnce'
    OBVIOUS
  <2>1. CASE Neutral
    BY <2>1 DEF Neutral, AppliedOnce
  <2>2. ASSUME NEW p \in Procs, Commit(p) PROVE AppliedOnce'
    <3>1. event[p] \in Events /\ ~log[event[p]].processed
      BY <2>2 DEF Commit, TypeOK, TransactionsIsolated, EventIsolated, HoldsEventLock
    <3>2. applied' = [applied EXCEPT ![event[p]] = @ + 1]
      BY <2>2 DEF Commit
    <3>3. QED
      BY <2>2, <3>1, <3>2, CommitEffect DEF AppliedOnce, TypeOK
  <2>3. ASSUME NEW p \in Procs, LockEvent(p) \/ ResolveTargets(p) \/ LockCharge(p)
        PROVE  AppliedOnce'
    BY <2>3 DEF LockEvent, ResolveTargets, LockCharge, AppliedOnce
  <2>4. CASE ReleaseScheduledCharges
    BY <2>4 DEF ReleaseScheduledCharges, AppliedOnce
  <2>5. QED
    BY <2>1, <2>2, <2>3, <2>4, NeutralSteps
<1>3. QED
  BY <1>1, <1>2, TypeCorrect, Isolation, PTL DEF Spec

(* A row's status date never moves back and is never cleared. *)
LEMMA WrittenMonotone ==
  ASSUME NEW row \in ChargeRow, NEW snapshot, NEW x \in Payload
  PROVE  Written(row, snapshot, x).gatewayStatusUpdatedAt >= row.gatewayStatusUpdatedAt
<1>1. CASE StampApplied(snapshot, x) /\ UpdateAdmitted(row, snapshot, x)
  <2>1. x.created \in Nat /\ row.gatewayStatusUpdatedAt \in Nat
    BY DEF Payload, ChargeRow
  <2>2. x.created >= row.gatewayStatusUpdatedAt
    BY <1>1, <2>1 DEF UpdateAdmitted, StampApplied, NoDate
  <2>3. Planned(row, snapshot, x).gatewayStatusUpdatedAt = x.created
    BY <1>1 DEF Planned
  <2>4. QED
    BY <2>1, <2>2, <2>3 DEF Written
<1>2. CASE ~(StampApplied(snapshot, x) /\ UpdateAdmitted(row, snapshot, x))
  <2>1. row.gatewayStatusUpdatedAt \in Nat
    BY DEF ChargeRow
  <2>2. UpdateAdmitted(row, snapshot, x) => ~StampApplied(snapshot, x)
    BY <1>2
  <2>3. ~StampApplied(snapshot, x) =>
          Planned(row, snapshot, x).gatewayStatusUpdatedAt = row.gatewayStatusUpdatedAt
    BY DEF Planned
  <2>4. QED
    BY <2>1, <2>2, <2>3 DEF Written
<1>3. QED
  BY <1>1, <1>2

(* No step of any actor moves a charge's status date back. *)
THEOREM StampNeverRegresses == Spec => StampMonotone
<1>1. TypeOK /\ [Next]_vars =>
        [\A c \in Charges : charge'[c].gatewayStatusUpdatedAt >= charge[c].gatewayStatusUpdatedAt]_vars
  <2> SUFFICES ASSUME TypeOK, [Next]_vars, NEW c \in Charges
               PROVE  charge'[c].gatewayStatusUpdatedAt >= charge[c].gatewayStatusUpdatedAt
    OBVIOUS
  <2>1. charge[c] \in ChargeRow /\ charge[c].gatewayStatusUpdatedAt \in Nat
    BY DEF TypeOK, ChargeRow
  <2>2. CASE charge'[c] = charge[c]
    BY <2>1, <2>2
  <2>3. ASSUME NEW p \in Procs, Commit(p), c = target[p]
        PROVE  charge'[c].gatewayStatusUpdatedAt >= charge[c].gatewayStatusUpdatedAt
    <3>1. payload[event[p]] \in Payload
      BY <2>3, CommitEffect DEF TypeOK
    <3>2. charge'[c] = Written(charge[c], snap[p], payload[event[p]])
      BY <2>3, CommitEffect
    <3>3. QED
      BY <2>1, <3>1, <3>2, WrittenMonotone
  <2>4. CASE ReleaseScheduledCharges
    <3>1. charge'[c] = charge[c] \/ charge'[c] = [charge[c] EXCEPT !.status = "ISSUED"]
      BY <2>4 DEF ReleaseScheduledCharges
    <3>2. [charge[c] EXCEPT !.status = "ISSUED"].gatewayStatusUpdatedAt
            = charge[c].gatewayStatusUpdatedAt
      BY <2>1 DEF ChargeRow
    <3>3. charge'[c].gatewayStatusUpdatedAt = charge[c].gatewayStatusUpdatedAt
      <4>1. CASE charge'[c] = charge[c]
        BY <4>1
      <4>2. CASE charge'[c] = [charge[c] EXCEPT !.status = "ISSUED"]
        BY <3>2, <4>2
      <4>3. QED
        BY <3>1, <4>1, <4>2
    <3>4. QED
      BY <2>1, <3>3
  <2>5. ASSUME NEW p \in Procs, LockEvent(p) \/ ResolveTargets(p) \/ LockCharge(p)
        PROVE  charge' = charge
    BY <2>5 DEF LockEvent, ResolveTargets, LockCharge
  <2>6. CASE Neutral
    BY <2>2, <2>6 DEF Neutral
  <2>7. ASSUME NEW p \in Procs, Commit(p)
        PROVE  charge'[c].gatewayStatusUpdatedAt >= charge[c].gatewayStatusUpdatedAt
    <3>1. c # target[p] => charge'[c] = charge[c]
      BY <2>7, CommitEffect
    <3>2. QED
      BY <2>2, <2>3, <2>7, <3>1
  <2>8. QED
    BY <2>2, <2>4, <2>5, <2>6, <2>7, NeutralSteps
<1>2. QED
  BY <1>1, TypeCorrect, PTL DEF Spec, StampMonotone

-----------------------------------------------------------------------------
(* A basis of a row is the row, but for a status the release sweep changed. *)
LEMMA BasisOfRow ==
  ASSUME NEW row \in ChargeRow, NEW basis \in Ledger!Bases(row)
  PROVE  /\ basis.gatewayStatus = row.gatewayStatus
         /\ basis.status = row.status \/ basis.status = "SCHEDULED"
<1>1. basis = row \/ basis = [row EXCEPT !.status = "SCHEDULED"]
  BY DEF Ledger!Bases
<1>2. QED
  BY <1>1 DEF ChargeRow

(* No event asks for the status SCHEDULED. *)
LEMMA NeverScheduled == \A x : NextStatus(x) = "SCHEDULED" => NextStatus(x) = None
<1>1. \A x : NextStatus(x) \in (ChargeStatus \ {"SCHEDULED"}) \cup {None}
  <2>1. \A x : StatusOfEvent(x.event) \in (ChargeStatus \ {"SCHEDULED"}) \cup {None}
    BY DEF StatusOfEvent, ChargeStatus
  <2>2. \A x : StatusOfGateway(x.gatewayStatus) \in (ChargeStatus \ {"SCHEDULED"}) \cup {None}
    BY DEF StatusOfGateway, ChargeStatus
  <2>3. QED
    BY <2>1, <2>2 DEF NextStatus
<1>2. QED
  BY <1>1

(* A dated event leaves the row showing it, or as it was in all that shows an *)
(* event.                                                                     *)
LEMMA WrittenShows ==
  ASSUME NEW row \in ChargeRow, NEW basis \in Ledger!Bases(row), NEW x \in Payload,
         x.created # NoDate
  PROVE  LET written == Written(row, basis, x) IN
         \/ ShowsEvent(written, x)
         \/ /\ written.gatewayStatusUpdatedAt = row.gatewayStatusUpdatedAt
            /\ written.gatewayStatus = row.gatewayStatus
            /\ written.status = row.status
<1> DEFINE planned == Planned(row, basis, x)
<1>1. /\ planned.gatewayStatus = Overlay(None, x.gatewayStatus, basis.gatewayStatus, row.gatewayStatus)
      /\ planned.status = Overlay(None, NextStatus(x), basis.status, row.status)
      /\ planned.gatewayStatusUpdatedAt =
           IF StampApplied(basis, x) THEN x.created ELSE row.gatewayStatusUpdatedAt
  BY DEF Planned
<1> HIDE DEF planned
<1>2. CASE StampApplied(basis, x)
  <2>1. x.gatewayStatus # None => planned.gatewayStatus = x.gatewayStatus
    BY <1>1, BasisOfRow DEF Overlay
  <2>2. NextStatus(x) # None => planned.status = NextStatus(x)
    BY <1>1, BasisOfRow, NeverScheduled DEF Overlay
  <2>3. ShowsEvent(planned, x)
    BY <1>1, <1>2, <2>1, <2>2 DEF ShowsEvent
  <2>4. QED
    BY <2>3 DEF Written, planned
<1>3. CASE ~StampApplied(basis, x)
  <2>1. /\ x.gatewayStatus # None => basis.gatewayStatus = x.gatewayStatus
        /\ NextStatus(x) # None => basis.status = NextStatus(x)
    BY <1>3 DEF StampApplied, StatusChanged
  <2>2. /\ planned.gatewayStatus = row.gatewayStatus /\ planned.status = row.status
        /\ planned.gatewayStatusUpdatedAt = row.gatewayStatusUpdatedAt
    BY <1>1, <1>3, <2>1 DEF Overlay
  <2>3. QED
    BY <2>2 DEF Written, planned
<1>4. QED
  BY <1>2, <1>3

(* What a charge shows survives a step that leaves its events and the three   *)
(* columns alone.                                                             *)
LEMMA StillShown ==
  ASSUME ChargeShowsOneEvent, NEW c \in Charges, payload' = payload,
         ProcessedFor(c) \subseteq ProcessedFor(c)',
         charge'[c].gatewayStatusUpdatedAt = charge[c].gatewayStatusUpdatedAt,
         charge'[c].gatewayStatus = charge[c].gatewayStatus,
         charge'[c].status = charge[c].status,
         charge'[c].gatewayStatusUpdatedAt # NoDate,
         \A e \in ProcessedFor(c)' : payload'[e].created # NoDate
  PROVE  \E e \in ProcessedFor(c)' : ShowsEvent(charge'[c], payload'[e])
<1>1. PICK e \in ProcessedFor(c) : ShowsEvent(charge[c], payload[e])
  BY DEF ChargeShowsOneEvent
<1>2. ShowsEvent(charge'[c], payload'[e])
  BY <1>1 DEF ShowsEvent
<1>3. QED
  BY <1>1, <1>2

(* However many workers, cron runs and release sweeps interleave, a charge    *)
(* whose processed events are all dated shows one of them whole: the one its  *)
(* date names.                                                                *)
THEOREM ShowsOneEvent == Spec => []ChargeShowsOneEvent
<1>1. Init => ChargeShowsOneEvent
  BY InitialTablesAssumption DEF Init, ChargeShowsOneEvent
<1>2. TypeOK /\ TransactionsIsolated /\ ChargeShowsOneEvent /\ [Next]_vars => ChargeShowsOneEvent'
  <2> SUFFICES ASSUME TypeOK, TransactionsIsolated, ChargeShowsOneEvent, [Next]_vars,
                      NEW c \in Charges,
                      charge'[c].gatewayStatusUpdatedAt # NoDate,
                      \A e \in ProcessedFor(c)' : payload'[e].created # NoDate
               PROVE  \E e \in ProcessedFor(c)' : ShowsEvent(charge'[c], payload'[e])
    BY DEF ChargeShowsOneEvent
  <2>1. CASE Neutral
    <3>1. ProcessedFor(c)' = ProcessedFor(c)
      BY <2>1 DEF Neutral, ProcessedFor
    <3>2. QED
      BY <2>1, <3>1, StillShown DEF Neutral
  <2>2. ASSUME NEW p \in Procs, LockEvent(p) \/ ResolveTargets(p) \/ LockCharge(p)
        PROVE  \E e \in ProcessedFor(c)' : ShowsEvent(charge'[c], payload'[e])
    <3>1. UNCHANGED <<payload, log, charge>>
      BY <2>2 DEF LockEvent, ResolveTargets, LockCharge
    <3>2. ProcessedFor(c)' = ProcessedFor(c)
      BY <3>1 DEF ProcessedFor
    <3>3. QED
      BY <3>1, <3>2, StillShown
  <2>3. ASSUME NEW p \in Procs, Commit(p)
        PROVE  \E e \in ProcessedFor(c)' : ShowsEvent(charge'[c], payload'[e])
    <3>1. event[p] \in Events /\ ~log[event[p]].processed /\ payload' = payload
      BY <2>3, CommitEffect DEF Commit, TypeOK, TransactionsIsolated, EventIsolated, HoldsEventLock
    <3>2. ProcessedFor(c) \subseteq ProcessedFor(c)'
      BY <2>3, <3>1, CommitEffect DEF ProcessedFor
    <3>3. CASE c # target[p]
      BY <2>3, <3>1, <3>2, <3>3, CommitEffect, StillShown
    <3>4. CASE c = target[p]
      <4> DEFINE x == payload[event[p]]
      <4>1. event[p] \in ProcessedFor(c)' /\ x \in Payload /\ x.created # NoDate
        BY <2>3, <3>1, <3>4, CommitEffect DEF ProcessedFor, TypeOK
      <4>2. charge[c] \in ChargeRow /\ snap[p] \in Ledger!Bases(charge[c])
        BY <2>3, <3>4 DEF TypeOK, Commit, TransactionsIsolated, ChargeIsolated, HoldsChargeLock
      <4>3. charge'[c] = Written(charge[c], snap[p], x)
        BY <2>3, <3>4, CommitEffect
      <4> HIDE DEF x
      <4>4. \/ ShowsEvent(charge'[c], x)
            \/ /\ charge'[c].gatewayStatusUpdatedAt = charge[c].gatewayStatusUpdatedAt
               /\ charge'[c].gatewayStatus = charge[c].gatewayStatus
               /\ charge'[c].status = charge[c].status
        BY <4>1, <4>2, <4>3, WrittenShows
      <4>5. CASE ShowsEvent(charge'[c], x)
        BY <3>1, <4>1, <4>5 DEF x
      <4>6. QED
        BY <3>1, <3>2, <4>4, <4>5, StillShown
    <3>5. QED
      BY <3>3, <3>4
  <2>4. CASE ReleaseScheduledCharges
    <3>1. /\ payload' = payload /\ log' = log
          /\ \/ charge'[c] = charge[c]
             \/ charge[c].status = "SCHEDULED" /\ charge'[c] = [charge[c] EXCEPT !.status = "ISSUED"]
      BY <2>4 DEF ReleaseScheduledCharges
    <3>2. ProcessedFor(c)' = ProcessedFor(c)
      BY <3>1 DEF ProcessedFor
    <3>3. CASE charge'[c] = charge[c]
      BY <3>1, <3>2, <3>3, StillShown
    <3>4. CASE charge[c].status = "SCHEDULED" /\ charge'[c] = [charge[c] EXCEPT !.status = "ISSUED"]
      <4>1. /\ charge'[c].gatewayStatusUpdatedAt = charge[c].gatewayStatusUpdatedAt
            /\ charge'[c].gatewayStatus = charge[c].gatewayStatus
        <5>1. charge[c] \in ChargeRow
          BY DEF TypeOK
        <5>2. QED
          BY <3>4, <5>1 DEF ChargeRow
      <4>2. PICK e \in ProcessedFor(c) : ShowsEvent(charge[c], payload[e])
        BY <3>1, <3>2, <4>1 DEF ChargeShowsOneEvent
      <4>3. NextStatus(payload[e]) = None
        BY <3>4, <4>2, NeverScheduled DEF ShowsEvent
      <4>4. ShowsEvent(charge'[c], payload'[e])
        BY <3>1, <4>1, <4>2, <4>3 DEF ShowsEvent
      <4>5. QED
        BY <3>2, <4>2, <4>4
    <3>5. QED
      BY <3>1, <3>3, <3>4
  <2>5. QED
    BY <2>1, <2>2, <2>3, <2>4, NeutralSteps
<1>3. QED
  BY <1>1, <1>2, TypeCorrect, Isolation, PTL DEF Spec

-----------------------------------------------------------------------------
(* The operators of ChargePlan mean the same in the ledger.                   *)
LEMMA SameOperators ==
  /\ \A table : Ledger!UniqueColumns(table) <=> UniqueColumns(table)
  /\ \A row, snapshot, x : Ledger!Written(row, snapshot, x) = Written(row, snapshot, x)
<1>1. \A table : Ledger!UniqueColumns(table) <=> UniqueColumns(table)
  BY DEF Ledger!UniqueColumns, UniqueColumns
<1>2. \A event_ : Ledger!StatusOfEvent(event_) = StatusOfEvent(event_)
  BY DEF Ledger!StatusOfEvent, StatusOfEvent, Ledger!IssuedEvents, IssuedEvents,
         Ledger!PaidEvents, PaidEvents, Ledger!OverdueEvents, OverdueEvents,
         Ledger!CancelledEvents, CancelledEvents, Ledger!FailedEvents, FailedEvents
<1>3. \A status : Ledger!StatusOfGateway(status) = StatusOfGateway(status)
  BY DEF Ledger!StatusOfGateway, StatusOfGateway
<1>4. \A x : Ledger!NextStatus(x) = NextStatus(x)
  BY <1>2, <1>3 DEF Ledger!NextStatus, NextStatus
<1>5. \A row, x : Ledger!IsStale(row, x) <=> IsStale(row, x)
  BY DEF Ledger!IsStale, IsStale, Ledger!NoDate, NoDate
<1>6. \A row, x : Ledger!StampApplied(row, x) <=> StampApplied(row, x)
  BY <1>4 DEF Ledger!StampApplied, StampApplied, Ledger!StatusChanged, StatusChanged,
              Ledger!NoDate, NoDate
<1>7. \A row, snapshot, x : Ledger!UpdateAdmitted(row, snapshot, x) <=> UpdateAdmitted(row, snapshot, x)
  BY <1>6 DEF Ledger!UpdateAdmitted, UpdateAdmitted, Ledger!NoDate, NoDate
<1>8. \A x : Ledger!NextPaidAt(x) = NextPaidAt(x)
  BY <1>4 DEF Ledger!NextPaidAt, NextPaidAt, Ledger!NoDate, NoDate
<1>9. \A null, carried, snapped, current :
        Ledger!Overlay(null, carried, snapped, current) = Overlay(null, carried, snapped, current)
  BY DEF Ledger!Overlay, Overlay
<1>10. \A row, snapshot, x : Ledger!Planned(row, snapshot, x) = Planned(row, snapshot, x)
  BY <1>4, <1>6, <1>8, <1>9 DEF Ledger!Planned, Planned, Ledger!NoDate, NoDate
<1>11. \A row, snapshot, x : Ledger!Written(row, snapshot, x) = Written(row, snapshot, x)
  BY <1>5, <1>7, <1>10 DEF Ledger!Written, Written
<1>12. QED
  BY <1>1, <1>11

(* The pipeline implements the ledger: Commit is the ledger's ProcessEvent,   *)
(* the sweep is the sweep, and every other step stutters.                     *)
THEOREM ImplementsLedger == Spec => LedgerSpec
<1> DEFINE done == {e \in Events : log[e].processed}
<1>1. Init => Ledger!Init
  BY DEF Init, Ledger!Init
<1>2. TypeOK /\ TransactionsIsolated /\ [Next]_vars => [Ledger!Next]_(Ledger!vars)
  <2> SUFFICES ASSUME TypeOK, TransactionsIsolated, [Next]_vars
               PROVE  Ledger!Next \/ UNCHANGED Ledger!vars
    OBVIOUS
  <2>0. UNCHANGED payload
    BY DEF Next, QueueStep, WorkerStep, CronStep, Process, Fault, vars, ReceiveWebhook,
       EnqueueFails, RemoveJob, EnqueueJob, RecoverJob, Age, TakeJob, CompleteJob, FailJob,
       SettleJob, StartRun, NextOfBatch, EndOfIteration, ReadLog, LockEvent, ResolveTargets,
       LockCharge, Commit, Conflict, FailureRead, FailureWrite, ReleaseScheduledCharges,
       DatabaseFails, Crash, StallJob
  <2>1. CASE Neutral
    <3>1. done' = done
      BY <2>1 DEF Neutral
    <3>2. QED
      BY <2>0, <2>1, <3>1 DEF Neutral, Ledger!vars
  <2>2. ASSUME NEW p \in Procs, LockEvent(p) \/ ResolveTargets(p) \/ LockCharge(p)
        PROVE  UNCHANGED Ledger!vars
    BY <2>0, <2>2 DEF LockEvent, ResolveTargets, LockCharge, Ledger!vars
  <2>3. ASSUME NEW p \in Procs, Commit(p) PROVE Ledger!Next
    <3>1. event[p] \in Events /\ event[p] \notin done
      BY <2>3 DEF Commit, TypeOK, TransactionsIsolated, EventIsolated, HoldsEventLock
    <3>2. done' = done \cup {event[p]}
      BY <2>3, CommitEffect
    <3>3. UniqueColumns(charge')
      BY <2>3 DEF Commit
    <3>4. CASE target[p] = None
      <4>1. UNCHANGED charge
        BY <2>3, <3>4 DEF Commit, WrittenCharges
      <4>2. QED
        BY <2>0, <3>1, <3>2, <3>3, <4>1, SameOperators DEF Ledger!Next, Ledger!ProcessEvent
    <3>5. CASE target[p] \in Charges
      <4>1. snap[p] \in Ledger!Bases(charge[target[p]])
        BY <2>3, <3>5 DEF Commit, TransactionsIsolated, ChargeIsolated, HoldsChargeLock
      <4>2. charge' = [charge EXCEPT ![target[p]] =
                         Written(charge[target[p]], snap[p], payload[event[p]])]
        BY <2>3, <3>5, ChargesAssumption DEF Commit, WrittenCharges
      <4>3. charge' = [charge EXCEPT ![target[p]] =
                         Ledger!Written(charge[target[p]], snap[p], payload[event[p]])]
        BY <4>2, SameOperators
      <4>4. \E c \in Charges : \E basis \in Ledger!Bases(charge[c]) :
              charge' = [charge EXCEPT ![c] = Ledger!Written(charge[c], basis, payload[event[p]])]
        BY <3>5, <4>1, <4>3
      <4>5. Ledger!UniqueColumns(charge')
        BY <3>3, SameOperators
      <4>6. QED
        BY <2>0, <3>1, <3>2, <4>4, <4>5 DEF Ledger!Next, Ledger!ProcessEvent
    <3>6. QED
      BY <2>3, <3>4, <3>5, CommitEffect
  <2>4. CASE ReleaseScheduledCharges
    <3>1. Ledger!ReleaseScheduledCharges
      BY <2>4 DEF ReleaseScheduledCharges, Ledger!ReleaseScheduledCharges
    <3>2. QED
      BY <3>1 DEF Ledger!Next
  <2>5. QED
    BY <2>1, <2>2, <2>3, <2>4, NeutralSteps
<1>3. QED
  BY <1>1, <1>2, TypeCorrect, Isolation, PTL DEF Spec, LedgerSpec, Ledger!Spec
=============================================================================
