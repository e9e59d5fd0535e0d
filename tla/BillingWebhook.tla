---------------------------- MODULE BillingWebhook ----------------------------
(***************************************************************************)
(* The Asaas webhook pipeline (billing/billing-webhook.service.ts with     *)
(* queue/queue.service.ts and queue/billing-webhook-worker.service.ts).    *)
(*                                                                         *)
(* The API persists each event in BillingEventLog under a unique           *)
(* deduplication key and tries to enqueue a job named after the row.       *)
(* Worker slots take the jobs; cron runs in the API re-process the rows    *)
(* that stay pending.  Both run processWebhookEventLog, which applies the  *)
(* event to its charge in one transaction under two advisory locks.        *)
(*                                                                         *)
(* An event id stands for a deduplication key, so for a log row.  The      *)
(* advisory locks are transaction locks: who holds one follows from pc.    *)
(***************************************************************************)
EXTENDS ChargePlan, QueuedJob

CONSTANTS
  Events,        (* deduplication keys                                     *)
  Workers,       (* slots of the BullMQ worker (concurrency)               *)
  CronRuns,      (* runs of the cron; two overlap when one lasts a minute  *)
  BatchSize,     (* BILLING_WEBHOOK_RETRY_BATCH_SIZE                       *)
  MaxAttempts,   (* attempts of a job                                      *)
  MaxFaults,     (* bound: crashes, stalls and database errors together    *)
  Deliveries,    (* which payload each deduplication key may come with      *)
  InitialTables  (* contents the charge table may start from               *)

ASSUME ProcsAssumption == Workers \cap CronRuns = {} /\ None \notin Workers
ASSUME ChargesAssumption == None \notin Charges
ASSUME EventsAssumption == IsFiniteSet(Events)
ASSUME BoundsAssumption ==
  BatchSize \in Nat \ {0} /\ MaxAttempts \in Nat \ {0} /\ MaxFaults \in Nat
ASSUME DeliveriesAssumption == Deliveries \subseteq [Events -> Payload]
ASSUME InitialTablesAssumption ==
  \A table \in InitialTables :
    /\ table \in [Charges -> ChargeRow]
    /\ \A c \in Charges : table[c].gatewayStatusUpdatedAt = NoDate
    /\ UniqueColumns(table)

Procs == Workers \cup CronRuns

VARIABLES
  payload,   (* the payload each deduplication key comes with              *)
  log,       (* the BillingEventLog rows                                   *)
  charge,    (* the BillingCharge rows                                     *)
  handlers,  (* events an HTTP handler has persisted and not yet enqueued  *)
  aged,      (* rows older than the cron's cutoff                          *)
  job,       (* the BullMQ job of each row                                 *)
  batch,     (* what is left of each cron run's list                       *)
  pc,        (* where each processor is in processWebhookEventLog          *)
  event,     (* the row it processes                                       *)
  target,    (* the charge it resolved                                     *)
  snap,      (* the charge row it read under the lock                      *)
  applied,   (* history: transactions committed for each event             *)
  faults     (* crashes, stalls and database errors so far                 *)

local == <<pc, event, target, snap>>
vars == <<payload, log, charge, handlers, aged, job, batch, pc, event, target,
          snap, applied, faults>>

Results == {"none", "charge_updated", "no_charge_changes", "charge_not_found",
            "ignored_stale_event", "processing_failed"}
LogRow == [createdAt : Nat, processed : BOOLEAN, result : Results,
           charge : Charges \cup {None}]
Locations == {"idle", "read", "lockEvent", "resolve", "lockCharge", "write",
              "failRead", "failWrite", "returned", "threw"}

Persisted == {e \in Events : log[e].createdAt # 0}
Pending == {e \in Persisted : ~log[e].processed}

Init ==
  /\ payload \in Deliveries
  /\ log = [e \in Events |-> [createdAt |-> 0, processed |-> FALSE,
                              result |-> "none", charge |-> None]]
  /\ charge \in InitialTables
  /\ handlers = {}
  /\ aged = {}
  /\ job = [e \in Events |-> NoJob]
  /\ batch = [c \in CronRuns |-> {}]
  /\ pc = [p \in Procs |-> "idle"]
  /\ event = [p \in Procs |-> None]
  /\ target = [p \in Procs |-> None]
  /\ snap = [p \in Procs |-> None]
  /\ applied = [e \in Events |-> 0]
  /\ faults = 0

-----------------------------------------------------------------------------
(* The HTTP handler: handleAsaasWebhook. *)

(* persistIncomingWebhookEvent: insert, or find the row the key already has. *)
ReceiveWebhook(e) ==
  /\ log' = IF e \in Persisted THEN log
            ELSE [log EXCEPT ![e].createdAt = Cardinality(Persisted) + 1]
  /\ handlers' = IF log[e].processed THEN handlers ELSE handlers \cup {e}
  /\ UNCHANGED <<payload, charge, aged, job, batch, local, applied, faults>>

EnqueueJob(e) ==
  /\ e \in handlers
  /\ handlers' = handlers \ {e}
  /\ job' = [job EXCEPT ![e] = Added(@)]
  /\ UNCHANGED <<payload, log, charge, aged, batch, local, applied, faults>>

(* Redis is unreachable, or the API stops before it enqueues. *)
EnqueueFails(e) ==
  /\ e \in handlers
  /\ handlers' = handlers \ {e}
  /\ UNCHANGED <<payload, log, charge, aged, job, batch, local, applied, faults>>

-----------------------------------------------------------------------------
(* The BullMQ worker around processWebhookEventLog. *)

StartProcessing(p, e) ==
  /\ pc[p] = "idle"
  /\ pc' = [pc EXCEPT ![p] = "read"]
  /\ event' = [event EXCEPT ![p] = e]
  /\ UNCHANGED <<target, snap>>

Goto(p, location) == pc' = [pc EXCEPT ![p] = location]

(* The call is over: its local variables are gone. *)
Finish(p) ==
  /\ Goto(p, "idle")
  /\ event' = [event EXCEPT ![p] = None]
  /\ target' = [target EXCEPT ![p] = None]
  /\ snap' = [snap EXCEPT ![p] = None]

TakeJob(w) ==
  \E e \in Events :
    /\ job[e].state = "waiting"
    /\ job' = [job EXCEPT ![e] = Taken(@, w)]
    /\ StartProcessing(w, e)
    /\ UNCHANGED <<payload, log, charge, handlers, aged, batch, applied, faults>>

(* Only the worker that still owns the job settles it. *)
SettleJob(w, outcome) ==
  /\ job' = IF job[event[w]].owner = w
            THEN [job EXCEPT ![event[w]] = outcome] ELSE job
  /\ Finish(w)
  /\ UNCHANGED <<payload, log, charge, handlers, aged, batch, applied, faults>>

CompleteJob(w) ==
  /\ pc[w] = "returned"
  /\ SettleJob(w, Completed(job[event[w]]))

FailJob(w) ==
  /\ pc[w] = "threw"
  /\ SettleJob(w, Failed(job[event[w]], MaxAttempts))

(* The worker is slow to renew the lock of its job. *)
StallJob(e) ==
  /\ faults < MaxFaults
  /\ job[e].state = "active"
  /\ job' = [job EXCEPT ![e] = Stalled(@)]
  /\ faults' = faults + 1
  /\ UNCHANGED <<payload, log, charge, handlers, aged, batch, local, applied>>

(* A dead worker's job is recovered whatever the faults that led to it. *)
RecoverJob(e) ==
  /\ job[e].state = "active"
  /\ \A w \in Workers : ~(job[e].owner = w /\ pc[w] # "idle" /\ event[w] = e)
  /\ job' = [job EXCEPT ![e] = Stalled(@)]
  /\ UNCHANGED <<payload, log, charge, handlers, aged, batch, local, applied, faults>>

(* removeOnComplete, removeOnFail *)
RemoveJob(e) ==
  /\ job[e].state \in {"completed", "failed"}
  /\ job' = [job EXCEPT ![e] = NoJob]
  /\ UNCHANGED <<payload, log, charge, handlers, aged, batch, local, applied, faults>>

-----------------------------------------------------------------------------
(* The cron: retryPendingWebhookEvents. *)

(* Rows pass the cutoff in the order they were created. *)
Age(e) ==
  /\ e \in Persisted \ aged
  /\ \A f \in Persisted : log[f].createdAt < log[e].createdAt => f \in aged
  /\ aged' = aged \cup {e}
  /\ UNCHANGED <<payload, log, charge, handlers, job, batch, local, applied, faults>>

Older(S, e) == {f \in S : log[f].createdAt < log[e].createdAt}

(* Mutated form of Due: a row whose processing failed is not retried. *)
DueUnfailed == {e \in Pending \cap aged : log[e].result # "processing_failed"}

Due == Pending \cap aged

DueBatch == {e \in Due : Cardinality(Older(Due, e)) < BatchSize}

StartRun(c) ==
  /\ pc[c] = "idle"
  /\ batch[c] = {}
  /\ DueBatch # {}
  /\ batch' = [batch EXCEPT ![c] = DueBatch]
  /\ UNCHANGED <<payload, log, charge, handlers, aged, job, local, applied, faults>>

NextOfBatch(c) ==
  \E e \in batch[c] :
    /\ Older(batch[c], e) = {}
    /\ batch' = [batch EXCEPT ![c] = @ \ {e}]
    /\ StartProcessing(c, e)
    /\ UNCHANGED <<payload, log, charge, handlers, aged, job, applied, faults>>

(* The loop catches and logs what an event throws. *)
EndOfIteration(c) ==
  /\ pc[c] \in {"returned", "threw"}
  /\ Finish(c)
  /\ UNCHANGED <<payload, log, charge, handlers, aged, job, batch, applied, faults>>

-----------------------------------------------------------------------------
(* processWebhookEventLog *)

HoldsEventLock(p, e) == event[p] = e /\ pc[p] \in {"resolve", "lockCharge", "write"}
HoldsChargeLock(p, c) == target[p] = c /\ pc[p] = "write"

ReadLog(p) ==
  /\ pc[p] = "read"
  /\ Goto(p, IF log[event[p]].processed THEN "returned" ELSE "lockEvent")
  /\ UNCHANGED <<payload, log, charge, handlers, aged, job, batch, event, target, snap,
                 applied, faults>>

(* Mutated form of LockEvent: the row is not read again under the lock. *)
LockEventUnchecked(p) ==
  /\ pc[p] = "lockEvent"
  /\ \A q \in Procs : ~HoldsEventLock(q, event[p])
  /\ Goto(p, "resolve")
  /\ UNCHANGED <<payload, log, charge, handlers, aged, job, batch, event, target, snap,
                 applied, faults>>

(* Take the event lock and read the row again; the early return ends the     *)
(* transaction and releases the lock.                                        *)
LockEvent(p) ==
  /\ pc[p] = "lockEvent"
  /\ \A q \in Procs : ~HoldsEventLock(q, event[p])
  /\ Goto(p, IF log[event[p]].processed THEN "returned" ELSE "resolve")
  /\ UNCHANGED <<payload, log, charge, handlers, aged, job, batch, event, target, snap,
                 applied, faults>>

(* resolveWebhookTargets: read without a lock on the charge. *)
ResolveTargets(p) ==
  /\ pc[p] = "resolve"
  /\ LET found == Matched(charge, payload[event[p]]) IN
     \/ /\ found = {}
        /\ target' = [target EXCEPT ![p] = None]
        /\ Goto(p, "write")
     \/ \E c \in found :
        /\ target' = [target EXCEPT ![p] = c]
        /\ Goto(p, "lockCharge")
  /\ UNCHANGED <<payload, log, charge, handlers, aged, job, batch, event, snap,
                 applied, faults>>

(* Mutated form of LockCharge: the snapshot is read without the lock. *)
LockChargeUnguarded(p) ==
  /\ pc[p] = "lockCharge"
  /\ snap' = [snap EXCEPT ![p] = charge[target[p]]]
  /\ Goto(p, "write")
  /\ UNCHANGED <<payload, log, charge, handlers, aged, job, batch, event, target,
                 applied, faults>>

LockCharge(p) ==
  /\ pc[p] = "lockCharge"
  /\ \A q \in Procs : ~HoldsChargeLock(q, target[p])
  /\ snap' = [snap EXCEPT ![p] = charge[target[p]]]
  /\ Goto(p, "write")
  /\ UNCHANGED <<payload, log, charge, handlers, aged, job, batch, event, target,
                 applied, faults>>

WrittenCharges(p) ==
  IF target[p] = None THEN charge
  ELSE [charge EXCEPT ![target[p]] = Written(@, snap[p], payload[event[p]])]

ProcessingResult(p) ==
  LET x == payload[event[p]] IN
  IF target[p] = None THEN "charge_not_found"
  ELSE IF IsStale(snap[p], x) \/ ~UpdateAdmitted(charge[target[p]], snap[p], x)
       THEN "ignored_stale_event"
  ELSE IF Planned(snap[p], snap[p], x) = snap[p] THEN "no_charge_changes"
  ELSE "charge_updated"

(* The UPDATE of the charge, the UPDATE of the log row, and COMMIT. *)
Commit(p) ==
  /\ pc[p] = "write"
  /\ UniqueColumns(WrittenCharges(p))
  /\ charge' = WrittenCharges(p)
  /\ log' = [log EXCEPT ![event[p]] =
               [createdAt |-> @.createdAt, processed |-> TRUE,
                result |-> ProcessingResult(p), charge |-> target[p]]]
  /\ applied' = [applied EXCEPT ![event[p]] = @ + 1]
  /\ Goto(p, "returned")
  /\ UNCHANGED <<payload, handlers, aged, job, batch, event, target, snap, faults>>

(* The UPDATE of the charge breaks a unique index: rollback. *)
Conflict(p) ==
  /\ pc[p] = "write"
  /\ ~UniqueColumns(WrittenCharges(p))
  /\ Goto(p, "failRead")
  /\ UNCHANGED <<payload, log, charge, handlers, aged, job, batch, event, target, snap,
                 applied, faults>>

(* markWebhookProcessingFailure: its read, then its write, under no lock. *)
FailureRead(p) ==
  /\ pc[p] = "failRead"
  /\ Goto(p, IF log[event[p]].processed THEN "threw" ELSE "failWrite")
  /\ UNCHANGED <<payload, log, charge, handlers, aged, job, batch, event, target, snap,
                 applied, faults>>

FailureWrite(p) ==
  /\ pc[p] = "failWrite"
  /\ log' = [log EXCEPT ![event[p]].result = "processing_failed"]
  /\ Goto(p, "threw")
  /\ UNCHANGED <<payload, charge, handlers, aged, job, batch, event, target, snap,
                 applied, faults>>

(* A statement fails or the transaction times out; only what is inside the   *)
(* try block is marked.                                                      *)
DatabaseFails(p) ==
  /\ faults < MaxFaults
  /\ \/ pc[p] \in {"lockEvent", "resolve", "lockCharge", "write"} /\ Goto(p, "failRead")
     \/ pc[p] \in {"read", "failRead", "failWrite"} /\ Goto(p, "threw")
  /\ faults' = faults + 1
  /\ UNCHANGED <<payload, log, charge, handlers, aged, job, batch, event, target, snap, applied>>

(* The process stops: the transaction rolls back, a cron run is forgotten.   *)
Crash(p) ==
  /\ faults < MaxFaults
  /\ pc[p] # "idle"
  /\ Finish(p)
  /\ batch' = [c \in CronRuns |-> IF c = p THEN {} ELSE batch[c]]
  /\ faults' = faults + 1
  /\ UNCHANGED <<payload, log, charge, handlers, aged, job, applied>>

-----------------------------------------------------------------------------
(* billing.service.ts releaseScheduledCharges: one UPDATE, no advisory lock; *)
(* which rows have reached their issue date is left open.                    *)
ReleaseScheduledCharges ==
  \E S \in SUBSET {c \in Charges : charge[c].status = "SCHEDULED"} :
    /\ S # {}
    /\ charge' = [c \in Charges |-> IF c \in S THEN [charge[c] EXCEPT !.status = "ISSUED"]
                                    ELSE charge[c]]
    /\ UNCHANGED <<payload, log, handlers, aged, job, batch, local, applied, faults>>

Process(p) ==
  \/ ReadLog(p) \/ LockEvent(p) \/ ResolveTargets(p) \/ LockCharge(p)
  \/ Commit(p) \/ Conflict(p) \/ FailureRead(p) \/ FailureWrite(p)
WorkerStep(w) == TakeJob(w) \/ CompleteJob(w) \/ FailJob(w)
CronStep(c) == StartRun(c) \/ NextOfBatch(c) \/ EndOfIteration(c)
QueueStep(e) == EnqueueJob(e) \/ RecoverJob(e)
Fault ==
  \/ \E p \in Procs : DatabaseFails(p) \/ Crash(p)
  \/ \E e \in Events : StallJob(e)

Next ==
  \/ \E e \in Events : ReceiveWebhook(e) \/ EnqueueFails(e) \/ RemoveJob(e)
  \/ \E e \in Events : QueueStep(e) \/ Age(e)
  \/ \E w \in Workers : WorkerStep(w)
  \/ \E c \in CronRuns : CronStep(c)
  \/ \E p \in Procs : Process(p)
  \/ ReleaseScheduledCharges
  \/ Fault

Spec == Init /\ [][Next]_vars

(* The API and the worker keep running between crashes, the clock advances,  *)
(* the cron fires every minute, and Postgres grants an advisory lock to its  *)
(* waiters in the order they came.  Nothing makes the gateway deliver, the  *)
(* handler reach the queue, or a fault happen.                               *)
Fairness ==
  /\ \A p \in Procs : WF_vars(Process(p))
  /\ \A p \in Procs : SF_vars(LockEvent(p)) /\ SF_vars(LockCharge(p))
  /\ \A w \in Workers : WF_vars(WorkerStep(w))
  /\ \A c \in CronRuns : WF_vars(CronStep(c))
  /\ \A e \in Events : WF_vars(Age(e))

FairSpec == Spec /\ Fairness

-----------------------------------------------------------------------------
(* Every variable keeps its type. *)
TypeOK ==
  /\ payload \in [Events -> Payload]
  /\ log \in [Events -> LogRow]
  /\ charge \in [Charges -> ChargeRow]
  /\ handlers \subseteq Events /\ aged \subseteq Events
  /\ job \in [Events -> Job(Workers)]
  /\ batch \in [CronRuns -> SUBSET Events]
  /\ pc \in [Procs -> Locations]
  /\ event \in [Procs -> Events \cup {None}]
  /\ target \in [Procs -> Charges \cup {None}]
  /\ snap \in [Procs -> ChargeRow \cup {None}]
  /\ \A p \in Procs : pc[p] # "idle" => event[p] \in Events
  /\ \A p \in Procs : pc[p] = "lockCharge" => target[p] \in Charges
  /\ \A p \in Procs : pc[p] = "write" /\ target[p] # None => snap[p] \in ChargeRow
  /\ applied \in [Events -> Nat]
  /\ faults \in Nat

(* However often an event is delivered, queued, retried or picked up by the  *)
(* cron, and wherever a process dies, its transaction commits at most once,  *)
(* and the log row says processed exactly when it did.                       *)
AppliedOnce ==
  \A e \in Events : applied[e] = IF log[e].processed THEN 1 ELSE 0

(* A charge whose processed events are all dated shows the status and the    *)
(* gateway status of the event its gatewayStatusUpdatedAt names: concurrent  *)
(* and out-of-order processing never leaves a mix of two events.             *)
ShowsEvent(row, x) ==
  /\ row.gatewayStatusUpdatedAt = x.created
  /\ x.gatewayStatus # None => row.gatewayStatus = x.gatewayStatus
  /\ NextStatus(x) # None => row.status = NextStatus(x)

ProcessedFor(c) == {e \in Events : log[e].processed /\ log[e].charge = c}

ChargeShowsOneEvent ==
  \A c \in Charges :
    /\ charge[c].gatewayStatusUpdatedAt # NoDate
    /\ \A e \in ProcessedFor(c) : payload[e].created # NoDate
    => \E e \in ProcessedFor(c) : ShowsEvent(charge[c], payload[e])

(* Once a charge has a status date, no event, dated or not, clears it or     *)
(* moves it back.                                                            *)
StampMonotone ==
  [][\A c \in Charges :
       charge'[c].gatewayStatusUpdatedAt >= charge[c].gatewayStatusUpdatedAt]_vars

(* Writing the event would give two charges the same unique column. *)
Unwritable(e) ==
  \E c \in Matched(charge, payload[e]) :
    ~UniqueColumns([charge EXCEPT ![c] = Written(@, @, payload[e])])

(* An event the API persisted and its charge can take is processed in the    *)
(* end, though the queue be unreachable and the worker or the database fail  *)
(* now and then: the cron is the fallback (enqueueWebhookProcessing's log).  *)
EventuallyProcessed ==
  \A e \in Events : (e \in Persisted) ~> (log[e].processed \/ Unwritable(e))

(* A processed event's log row does not say that its processing failed:      *)
(* markWebhookProcessingFailure returns early on a processed row.            *)
ProcessedIsNotFailed ==
  \A e \in Events : log[e].processed => log[e].result # "processing_failed"

(* The pipeline implements the ledger: every event takes effect on the       *)
(* charges in one atomic step, at most once.                                 *)
Ledger == INSTANCE WebhookLedger
            WITH rows <- charge, done <- {e \in Events : log[e].processed}
LedgerSpec == Ledger!Spec

(* Why it does: a transaction past the event lock has the event to itself    *)
(* and finds it unprocessed; one that is about to write has the charge to    *)
(* itself, and its snapshot is the row, or the row as the unlocked release   *)
(* sweep found it.                                                           *)
EventIsolated ==
  \A p \in Procs : \A e \in Events : HoldsEventLock(p, e) =>
    /\ ~log[e].processed
    /\ \A q \in Procs : HoldsEventLock(q, e) => q = p

ChargeIsolated ==
  \A p \in Procs : \A c \in Charges : HoldsChargeLock(p, c) =>
    /\ snap[p] \in Ledger!Bases(charge[c])
    /\ \A q \in Procs : HoldsChargeLock(q, c) => q = p

TransactionsIsolated == EventIsolated /\ ChargeIsolated
=============================================================================
