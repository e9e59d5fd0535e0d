-------------------------- MODULE NotificationPrompts --------------------------
(***************************************************************************)
(* The prompts that ask a student whether they will take the bus           *)
(* (notifications/, notification-prompts/, confirmations/, and the         *)
(* notification queue of queue/).                                          *)
(*                                                                         *)
(* Every minute the cron prepares a prompt for each student of the         *)
(* schedules to notify and enqueues it; worker slots dispatch it; the      *)
(* student's requests fetch the open prompt, answer it or confirm the      *)
(* schedule.  Nothing here locks: each process reads a row, awaits, and    *)
(* updates the row by its id whatever it has become.                       *)
(*                                                                         *)
(* A prompt id stands for (userId, scheduleId, occurrenceKey), one per     *)
(* active student of the route.  Time is the minutes of the day of the     *)
(* occurrence.                                                             *)
(***************************************************************************)
EXTENDS QueuedJob, FiniteSets

CONSTANTS
  Prompts,       (* ids                                                    *)
  UserOf,        (* the student a prompt is for                            *)
  ScheduleOf,    (* the schedule a prompt is about                         *)
  NotifyAt,      (* the minute each schedule starts with as its notice      *)
  DepartAt,      (* the minute each schedule starts with as its departure   *)
  Workers,       (* slots of the BullMQ worker                             *)
  CronRuns,      (* runs of the cron that may overlap                      *)
  Requests,      (* the students' HTTP requests in progress                *)
  FetchLimit,    (* prompts one fetch looks at                             *)
  MaxAttempts,   (* attempts of a job                                      *)
  Timetables,    (* bound: the departures, with the minutes of their       *)
                 (* notices, a schedule may be given                       *)
  Horizon,       (* bound: the last minute                                 *)
  MaxFaults      (* bound: crashes, stalls, database and queue errors      *)

Users == {UserOf[p] : p \in Prompts}
Schedules == {ScheduleOf[p] : p \in Prompts}

ASSUME ProcsAssumption ==
  /\ Workers \cap CronRuns = {} /\ Workers \cap Requests = {} /\ CronRuns \cap Requests = {}
  /\ None \notin Workers /\ None \notin Prompts
ASSUME PromptsAssumption == IsFiniteSet(Prompts)
ASSUME NoneNotBoolean == None \notin BOOLEAN
ASSUME BoundsAssumption ==
  FetchLimit \in Nat \ {0} /\ MaxAttempts \in Nat \ {0} /\ Horizon \in Nat /\ MaxFaults \in Nat
ASSUME TimesAssumption ==
  /\ NotifyAt \in [Schedules -> Nat] /\ DepartAt \in [Schedules -> Nat]
  /\ Timetables \subseteq [departure : Nat, notice : Nat]

Procs == Workers \cup CronRuns \cup Requests

VARIABLES
  now,           (* the minute of the day                                  *)
  departAt,      (* departureMinutes of each schedule                      *)
  notifyAt,      (* notificationTimeMinutes of each schedule               *)
  fired,         (* the minutes the cron has fired at                      *)
  earliest,      (* history: the earliest departure the schedule of a      *)
                 (* prompt has had since the row exists, 0 before          *)
  status,        (* the status column, "none" before the row exists        *)
  response,      (* the response column                                    *)
  createdAt,     (* the order the rows were created in, 0 before           *)
  confirmation,  (* willGo of the ScheduleConfirmation row, or None        *)
  job,           (* the BullMQ job of each prompt                          *)
  pc,            (* where each process is                                  *)
  at,            (* the prompt it works on                                 *)
  list,          (* prompts it still has to go through                     *)
  seen,          (* the statuses, with the departures, it has read         *)
  pushes,        (* history: calls to the push provider for each prompt    *)
  faults         (* crashes, stalls and errors so far                      *)

rows == <<status, response, createdAt, confirmation>>
clock == <<now, departAt, notifyAt, fired, earliest>>
local == <<pc, at, list, seen>>
vars == <<clock, rows, job, local, pushes, faults>>

Statuses == {"none", "PENDING", "DISPATCHED", "ANSWERED", "EXPIRED", "FAILED"}
Open == {"PENDING", "DISPATCHED", "FAILED"}
Nothing == [p \in Prompts |-> "none"]
Unread == [status |-> "none", departure |-> 0]
Locations == {"idle", "read", "expire", "push", "pushed", "fail", "returned", "threw",
              "each", "find", "create", "reset", "enqueue",
              "answer", "expireAnswer", "fetch"}

Init ==
  /\ now = 0
  /\ departAt = DepartAt
  /\ notifyAt = NotifyAt
  /\ fired = {}
  /\ earliest = [p \in Prompts |-> 0]
  /\ status = Nothing
  /\ response = [p \in Prompts |-> None]
  /\ createdAt = [p \in Prompts |-> 0]
  /\ confirmation = [p \in Prompts |-> None]
  /\ job = [p \in Prompts |-> NoJob]
  /\ pc = [x \in Procs |-> "idle"]
  /\ at = [x \in Procs |-> None]
  /\ list = [x \in Procs |-> {}]
  /\ seen = [x \in Procs |-> [p \in Prompts |-> Unread]]
  /\ pushes = [p \in Prompts |-> 0]
  /\ faults = 0

-----------------------------------------------------------------------------
Goto(x, location) == pc' = [pc EXCEPT ![x] = location]

(* The call is over: its local variables are gone. *)
Finish(x) ==
  /\ Goto(x, "idle")
  /\ at' = [at EXCEPT ![x] = None]
  /\ list' = [list EXCEPT ![x] = {}]
  /\ seen' = [seen EXCEPT ![x] = [p \in Prompts |-> Unread]]

(* An UPDATE of the status by id. *)
SetStatus(p, s) == status' = [status EXCEPT ![p] = s]

Departure(p) == departAt[ScheduleOf[p]]

(* Mutated form of IsExpired: the prompt ends with the minute before. *)
IsExpiredInMinute(departure) == now >= departure

(* isPromptExpired, on the day of the occurrence, of a prompt that was read   *)
(* with this departure.                                                      *)
IsExpired(departure) == now > departure

Tick ==
  /\ now < Horizon
  /\ now' = now + 1
  /\ UNCHANGED <<departAt, notifyAt, fired, earliest, rows, job, local, pushes, faults>>

(* route-schedules update writes both columns, whichever the request is       *)
(* about, from a row that may have changed since it was read: any departure   *)
(* with any notice.  The prompts that exist are left alone.                   *)
Reschedule(s, t) ==
  /\ departAt[s] # t.departure \/ notifyAt[s] # t.notice
  /\ departAt' = [departAt EXCEPT ![s] = t.departure]
  /\ notifyAt' = [notifyAt EXCEPT ![s] = t.notice]
  /\ earliest' = [p \in Prompts |->
       IF ScheduleOf[p] = s /\ t.departure < earliest[p] THEN t.departure ELSE earliest[p]]
  /\ UNCHANGED <<now, fired, rows, job, local, pushes, faults>>

-----------------------------------------------------------------------------
(* The cron: handleNotifications and preparePromptForDispatch. *)

(* A notice later than the departure is of the departure of the next day:     *)
(* another occurrence, so other prompts.                                      *)
DueNow == {p \in Prompts : notifyAt[ScheduleOf[p]] = now /\ now <= Departure(p)}

StartRun(c) ==
  /\ pc[c] = "idle"
  /\ now \notin fired
  /\ DueNow # {}
  /\ fired' = fired \cup {now}
  /\ list' = [list EXCEPT ![c] = DueNow]
  /\ Goto(c, "each")
  /\ UNCHANGED <<now, departAt, notifyAt, earliest, rows, job, at, seen, pushes, faults>>

NextStudent(c) ==
  /\ pc[c] = "each"
  /\ \E p \in list[c] :
       /\ at' = [at EXCEPT ![c] = p]
       /\ list' = [list EXCEPT ![c] = @ \ {p}]
       /\ Goto(c, "find")
  /\ UNCHANGED <<clock, rows, job, seen, pushes, faults>>

EndRun(c) ==
  /\ pc[c] = "each"
  /\ list[c] = {}
  /\ Finish(c)
  /\ UNCHANGED <<clock, rows, job, pushes, faults>>

FindPrompt(c) ==
  /\ pc[c] = "find"
  /\ Goto(c, CASE status[at[c]] = "none"    -> "create"
               [] status[at[c]] = "PENDING" -> "enqueue"
               [] status[at[c]] = "FAILED"  -> "reset"
               [] OTHER                     -> "each")
  /\ UNCHANGED <<clock, rows, job, at, list, seen, pushes, faults>>

(* Mutated form of CreatePrompt: a new prompt is not enqueued. *)
CreatePromptOnly(c) ==
  /\ pc[c] = "create"
  /\ status[at[c]] = "none"
  /\ SetStatus(at[c], "PENDING")
  /\ createdAt' = [createdAt EXCEPT
                     ![at[c]] = Cardinality({p \in Prompts : createdAt[p] # 0}) + 1]
  /\ earliest' = [earliest EXCEPT ![at[c]] = Departure(at[c])]
  /\ Goto(c, "each")
  /\ UNCHANGED <<now, departAt, notifyAt, fired, response, confirmation, job, at, list, seen, pushes, faults>>

CreatePrompt(c) ==
  /\ pc[c] = "create"
  /\ status[at[c]] = "none"
  /\ SetStatus(at[c], "PENDING")
  /\ createdAt' = [createdAt EXCEPT
                     ![at[c]] = Cardinality({p \in Prompts : createdAt[p] # 0}) + 1]
  /\ earliest' = [earliest EXCEPT ![at[c]] = Departure(at[c])]
  /\ Goto(c, "enqueue")
  /\ UNCHANGED <<now, departAt, notifyAt, fired, response, confirmation, job, at, list, seen, pushes, faults>>

(* Another run created the row first: the unique index refuses the insert    *)
(* and the exception ends the run.                                           *)
CreateRefused(c) ==
  /\ pc[c] = "create"
  /\ status[at[c]] # "none"
  /\ Finish(c)
  /\ UNCHANGED <<clock, rows, job, pushes, faults>>

ResetPrompt(c) ==
  /\ pc[c] = "reset"
  /\ SetStatus(at[c], "PENDING")
  /\ Goto(c, "enqueue")
  /\ UNCHANGED <<clock, response, createdAt, confirmation, job, at, list, seen, pushes, faults>>

EnqueuePrompt(c) ==
  /\ pc[c] = "enqueue"
  /\ job' = [job EXCEPT ![at[c]] = Added(@)]
  /\ Goto(c, "each")
  /\ UNCHANGED <<clock, rows, at, list, seen, pushes, faults>>

-----------------------------------------------------------------------------
(* The BullMQ worker and dispatchPrompt. *)

TakeJob(w) ==
  \E p \in Prompts :
    /\ pc[w] = "idle"
    /\ job[p].state = "waiting"
    /\ job' = [job EXCEPT ![p] = Taken(@, w)]
    /\ at' = [at EXCEPT ![w] = p]
    /\ Goto(w, "read")
    /\ UNCHANGED <<clock, rows, list, seen, pushes, faults>>

SettleJob(w, outcome) ==
  /\ job' = IF job[at[w]].owner = w THEN [job EXCEPT ![at[w]] = outcome] ELSE job
  /\ Finish(w)
  /\ UNCHANGED <<clock, rows, pushes, faults>>

CompleteJob(w) == pc[w] = "returned" /\ SettleJob(w, Completed(job[at[w]]))
FailJob(w) == pc[w] = "threw" /\ SettleJob(w, Failed(job[at[w]], MaxAttempts))

StallJob(p) ==
  /\ faults < MaxFaults
  /\ job[p].state = "active"
  /\ job' = [job EXCEPT ![p] = Stalled(@)]
  /\ faults' = faults + 1
  /\ UNCHANGED <<clock, rows, local, pushes>>

RecoverJob(p) ==
  /\ job[p].state = "active"
  /\ \A w \in Workers : ~(job[p].owner = w /\ at[w] = p)
  /\ job' = [job EXCEPT ![p] = Stalled(@)]
  /\ UNCHANGED <<clock, rows, local, pushes, faults>>

RemoveJob(p) ==
  /\ job[p].state \in {"completed", "failed"}
  /\ job' = [job EXCEPT ![p] = NoJob]
  /\ UNCHANGED <<clock, rows, local, pushes, faults>>

(* Mutated form of ReadPrompt: a dispatched prompt is dispatched again. *)
ReadPromptAgain(w) ==
  /\ pc[w] = "read"
  /\ Goto(w, IF status[at[w]] \in {"ANSWERED", "EXPIRED"} THEN "returned"
             ELSE IF IsExpired(Departure(at[w])) THEN "expire" ELSE "push")
  /\ UNCHANGED <<clock, rows, job, at, list, seen, pushes, faults>>

ReadPrompt(w) ==
  /\ pc[w] = "read"
  /\ Goto(w, IF status[at[w]] \notin {"PENDING", "FAILED"} THEN "returned"
             ELSE IF IsExpired(Departure(at[w])) THEN "expire" ELSE "push")
  /\ UNCHANGED <<clock, rows, job, at, list, seen, pushes, faults>>

ExpirePrompt(w) ==
  /\ pc[w] = "expire"
  /\ SetStatus(at[w], "EXPIRED")
  /\ Goto(w, "returned")
  /\ UNCHANGED <<clock, response, createdAt, confirmation, job, at, list, seen, pushes, faults>>

(* dispatchPromptNotification: a push, or the in-app fallback when the       *)
(* student has no usable subscription.                                       *)
Push(w) ==
  /\ pc[w] = "push"
  /\ \/ pushes' = [pushes EXCEPT ![at[w]] = @ + 1]
     \/ pushes' = pushes
  /\ Goto(w, "pushed")
  /\ UNCHANGED <<clock, rows, job, at, list, seen, faults>>

MarkDispatched(w) ==
  /\ pc[w] = "pushed"
  /\ SetStatus(at[w], "DISPATCHED")
  /\ Goto(w, "returned")
  /\ UNCHANGED <<clock, response, createdAt, confirmation, job, at, list, seen, pushes, faults>>

MarkFailed(w) ==
  /\ pc[w] = "fail"
  /\ SetStatus(at[w], "FAILED")
  /\ Goto(w, "threw")
  /\ UNCHANGED <<clock, response, createdAt, confirmation, job, at, list, seen, pushes, faults>>

-----------------------------------------------------------------------------
(* The student's requests. *)

OpenPrompts(u) == {p \in Prompts : UserOf[p] = u /\ status[p] \in Open}
CreatedBefore(S, p) == {q \in S : createdAt[q] < createdAt[p]}

(* findPendingPromptForUser: the first rows, as they are now, with their      *)
(* schedules as they are now.                                                 *)
StartFetch(r, u) ==
  /\ pc[r] = "idle"
  /\ OpenPrompts(u) # {}
  /\ LET found == {p \in OpenPrompts(u) : Cardinality(CreatedBefore(OpenPrompts(u), p)) < FetchLimit}
     IN /\ list' = [list EXCEPT ![r] = found]
        /\ seen' = [seen EXCEPT ![r] = [p \in Prompts |->
             IF p \in found THEN [status |-> status[p], departure |-> Departure(p)] ELSE Unread]]
  /\ Goto(r, "fetch")
  /\ UNCHANGED <<clock, rows, job, at, pushes, faults>>

(* A row that expired, by the departure it was read with, is marked and       *)
(* passed over; the first other row is shown, marked when it was not          *)
(* dispatched yet.                                                            *)
FetchNext(r) ==
  /\ pc[r] = "fetch"
  /\ \E p \in list[r] :
       /\ CreatedBefore(list[r], p) = {}
       /\ \/ /\ IsExpired(seen[r][p].departure)
             /\ SetStatus(p, "EXPIRED")
             /\ list' = [list EXCEPT ![r] = @ \ {p}]
             /\ UNCHANGED <<pc, at, seen>>
          \/ /\ ~IsExpired(seen[r][p].departure)
             /\ status' = IF seen[r][p].status = "DISPATCHED" THEN status
                          ELSE [status EXCEPT ![p] = "DISPATCHED"]
             /\ Finish(r)
  /\ UNCHANGED <<clock, response, createdAt, confirmation, job, pushes, faults>>

EndFetch(r) ==
  /\ pc[r] = "fetch"
  /\ list[r] = {}
  /\ Finish(r)
  /\ UNCHANGED <<clock, rows, job, pushes, faults>>

(* Mutated form of StartAnswer: the prompt need not exist. *)
StartAnswerUnchecked(r, p) ==
  /\ pc[r] = "idle"
  /\ at' = [at EXCEPT ![r] = p]
  /\ Goto(r, IF IsExpired(Departure(p)) THEN "expireAnswer" ELSE "answer")
  /\ UNCHANGED <<clock, rows, job, list, seen, pushes, faults>>

(* respondToPrompt: its read, then the transaction of both rows. *)
StartAnswer(r, p) ==
  /\ pc[r] = "idle"
  /\ status[p] # "none"
  /\ at' = [at EXCEPT ![r] = p]
  /\ Goto(r, IF IsExpired(Departure(p)) THEN "expireAnswer" ELSE "answer")
  /\ UNCHANGED <<clock, rows, job, list, seen, pushes, faults>>

ExpireAnswer(r) ==
  /\ pc[r] = "expireAnswer"
  /\ SetStatus(at[r], "EXPIRED")
  /\ Finish(r)
  /\ UNCHANGED <<clock, response, createdAt, confirmation, job, pushes, faults>>

(* Mutated form of CommitAnswer: a confirmation that exists is left as it is. *)
CommitAnswerOnce(r) ==
  /\ pc[r] = "answer"
  /\ \E willGo \in BOOLEAN :
       /\ response' = [response EXCEPT ![at[r]] = willGo]
       /\ confirmation' = [confirmation EXCEPT ![at[r]] = IF @ = None THEN willGo ELSE @]
  /\ SetStatus(at[r], "ANSWERED")
  /\ Finish(r)
  /\ UNCHANGED <<clock, createdAt, job, pushes, faults>>

CommitAnswer(r) ==
  /\ pc[r] = "answer"
  /\ \E willGo \in BOOLEAN :
       /\ response' = [response EXCEPT ![at[r]] = willGo]
       /\ confirmation' = [confirmation EXCEPT ![at[r]] = willGo]
  /\ SetStatus(at[r], "ANSWERED")
  /\ Finish(r)
  /\ UNCHANGED <<clock, createdAt, job, pushes, faults>>

(* confirmations confirm: the student confirms the schedule without a prompt. *)
Confirm(p) ==
  \E willGo \in BOOLEAN :
    /\ confirmation' = [confirmation EXCEPT ![p] = willGo]
    /\ UNCHANGED <<clock, status, response, createdAt, job, local, pushes, faults>>

-----------------------------------------------------------------------------
(* A statement fails in a worker: the try block marks the prompt, anything   *)
(* else throws.                                                              *)
CallFails(w) ==
  /\ faults < MaxFaults
  /\ \/ pc[w] \in {"push", "pushed"} /\ Goto(w, "fail")
     \/ pc[w] \in {"read", "expire", "fail"} /\ Goto(w, "threw")
  /\ faults' = faults + 1
  /\ UNCHANGED <<clock, rows, job, at, list, seen, pushes>>

(* The process stops; or a statement, or the call to Redis, fails in a cron  *)
(* run or a request, which ends with the exception.                          *)
Crash(x) ==
  /\ faults < MaxFaults
  /\ pc[x] # "idle"
  /\ Finish(x)
  /\ faults' = faults + 1
  /\ UNCHANGED <<clock, rows, job, pushes>>

CronStep(c) ==
  \/ NextStudent(c) \/ EndRun(c) \/ FindPrompt(c) \/ CreatePrompt(c)
  \/ CreateRefused(c) \/ ResetPrompt(c) \/ EnqueuePrompt(c)
WorkerStep(w) ==
  \/ TakeJob(w) \/ CompleteJob(w) \/ FailJob(w) \/ ReadPrompt(w) \/ ExpirePrompt(w)
  \/ Push(w) \/ MarkDispatched(w) \/ MarkFailed(w)
RequestStep(r) ==
  FetchNext(r) \/ EndFetch(r) \/ ExpireAnswer(r) \/ CommitAnswer(r)
Student ==
  \/ \E r \in Requests, u \in Users : StartFetch(r, u)
  \/ \E r \in Requests, p \in Prompts : StartAnswer(r, p)
  \/ \E p \in Prompts : Confirm(p)
Fault ==
  \/ \E w \in Workers : CallFails(w)
  \/ \E x \in Procs : Crash(x)
  \/ \E p \in Prompts : StallJob(p)

Next ==
  \/ Tick
  \/ \E s \in Schedules, t \in Timetables : Reschedule(s, t)
  \/ \E c \in CronRuns : StartRun(c) \/ CronStep(c)
  \/ \E w \in Workers : WorkerStep(w)
  \/ \E r \in Requests : RequestStep(r)
  \/ \E p \in Prompts : RecoverJob(p) \/ RemoveJob(p)
  \/ Student
  \/ Fault

Spec == Init /\ [][Next]_vars

(* The API and the worker run on; nothing makes the clock, a student or an   *)
(* administrator act.                                                        *)
Fairness ==
  /\ \A c \in CronRuns : WF_vars(CronStep(c))
  /\ \A w \in Workers : WF_vars(WorkerStep(w))

FairSpec == Spec /\ Fairness

-----------------------------------------------------------------------------
(* Every variable keeps its type. *)
TypeOK ==
  /\ now \in Nat /\ fired \subseteq Nat
  /\ departAt \in [Schedules -> Nat] /\ notifyAt \in [Schedules -> Nat]
  /\ earliest \in [Prompts -> Nat]
  /\ status \in [Prompts -> Statuses]
  /\ response \in [Prompts -> BOOLEAN \cup {None}]
  /\ createdAt \in [Prompts -> Nat]
  /\ confirmation \in [Prompts -> BOOLEAN \cup {None}]
  /\ job \in [Prompts -> Job(Workers)]
  /\ pc \in [Procs -> Locations]
  /\ at \in [Procs -> Prompts \cup {None}]
  /\ list \in [Procs -> SUBSET Prompts]
  /\ seen \in [Procs -> [Prompts -> [status : Statuses, departure : Nat]]]
  /\ \A x \in Procs : pc[x] \notin {"idle", "each", "fetch"} => at[x] \in Prompts
  /\ \A p \in Prompts : createdAt[p] = 0 <=> status[p] = "none"
  /\ pushes \in [Prompts -> Nat] /\ faults \in Nat

(* A prompt the student has not answered can be fetched in the app until the   *)
(* departure, whoever read or marked it in between and whatever failed: the   *)
(* fallback of a push that was not sent.  When the departure is moved while   *)
(* the prompt exists, until the earliest it has been: who read the schedule   *)
(* with that one may expire the prompt then, and nothing reopens it.          *)
OpenUntilOver ==
  \A p \in Prompts :
    /\ status[p] # "none"
    /\ response[p] = None
    /\ now <= earliest[p]
    => status[p] \in Open

(* Whatever fails, overlaps, is moved or is lost, the pipeline implements what *)
(* the student is promised: each statement of it is one step of a prompt that *)
(* is offered, answered with its confirmation or withdrawn, or none at all.   *)
Promise == INSTANCE StudentPrompts
             WITH until <- earliest,
                  asked <- {p \in Prompts : status[p] # "none"},
                  offered <- {p \in Prompts : status[p] \in Open}
PromiseSpec == Promise!Spec

(* When nothing fails, a student is pushed a prompt at most once, though the *)
(* cron may prepare and enqueue it again after its notice was rescheduled.   *)
PushedOnce == faults = 0 => \A p \in Prompts : pushes[p] <= 1

(* When nothing fails, every student on the list of a cron run gets a prompt *)
(* that leaves PENDING: pushed, shown in the app, answered or expired.       *)
EveryStudentNotified ==
  \A p \in Prompts :
    (\E c \in CronRuns : p \in list[c]) ~> (status[p] \notin {"none", "PENDING"})
=============================================================================
