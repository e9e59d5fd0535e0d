----------------------- MODULE NotificationPromptsProofs -----------------------
(***************************************************************************)
(* Proofs about NotificationPrompts for every number of prompts, workers,  *)
(* cron runs, requests and faults: every variable keeps its type, an       *)
(* unanswered prompt stays open until the earliest departure its schedule  *)
(* has had, a prompt is pushed once when nothing fails, and whatever fails *)
(* the pipeline implements what StudentPrompts promises.                   *)
(***************************************************************************)
EXTENDS NotificationPrompts, FiniteSetTheorems, TLAPS

(* The types.                                                                *)
RowsOK ==
  /\ status \in [Prompts -> Statuses]
  /\ response \in [Prompts -> BOOLEAN \cup {None}]
  /\ createdAt \in [Prompts -> Nat]
  /\ confirmation \in [Prompts -> BOOLEAN \cup {None}]
  /\ \A p \in Prompts : createdAt[p] = 0 <=> status[p] = "none"

LocalsOK ==
  /\ pc \in [Procs -> Locations]
  /\ at \in [Procs -> Prompts \cup {None}]
  /\ list \in [Procs -> SUBSET Prompts]
  /\ seen \in [Procs -> [Prompts -> [status : Statuses, departure : Nat]]]
  /\ \A x \in Procs : pc[x] \notin {"idle", "each", "fetch"} => at[x] \in Prompts

ClockOK ==
  /\ now \in Nat /\ fired \subseteq Nat
  /\ departAt \in [Schedules -> Nat] /\ notifyAt \in [Schedules -> Nat]
  /\ earliest \in [Prompts -> Nat]

QueueOK ==
  job \in [Prompts -> Job(Workers)] /\ pushes \in [Prompts -> Nat] /\ faults \in Nat

LEMMA TypeParts == TypeOK <=> RowsOK /\ LocalsOK /\ ClockOK /\ QueueOK
BY DEF TypeOK, RowsOK, LocalsOK, ClockOK, QueueOK

(* What becomes of a job is a job. *)
LEMMA JobTypes ==
  ASSUME NEW j \in Job(Workers), NEW w \in Workers
  PROVE  /\ Added(j) \in Job(Workers) /\ Taken(j, w) \in Job(Workers)
         /\ Completed(j) \in Job(Workers) /\ Failed(j, MaxAttempts) \in Job(Workers)
         /\ Stalled(j) \in Job(Workers) /\ NoJob \in Job(Workers)
BY DEF Job, JobStates, JobIn, Added, Taken, Completed, Failed, Stalled, NoJob

LEMMA StalledType ==
  ASSUME NEW j \in Job(Workers) PROVE Stalled(j) \in Job(Workers) /\ NoJob \in Job(Workers)
                                      /\ Added(j) \in Job(Workers)
BY DEF Job, JobStates, JobIn, Stalled, NoJob, Added

(* A call that is over leaves the local variables with their types, and so does *)
(* one that moves on.                                                         *)
LEMMA FinishKeepsLocals ==
  ASSUME LocalsOK, NEW x \in Procs, Finish(x) PROVE LocalsOK'
BY DEF LocalsOK, Finish, Goto, Locations, Unread, Statuses

LEMMA MoveKeepsLocals ==
  ASSUME LocalsOK, NEW x \in Procs, NEW location \in Locations, Goto(x, location),
         at' \in [Procs -> Prompts \cup {None}], list' \in [Procs -> SUBSET Prompts],
         seen' \in [Procs -> [Prompts -> [status : Statuses, departure : Nat]]],
         \A y \in Procs \ {x} : at'[y] = at[y],
         location \notin {"idle", "each", "fetch"} => at'[x] \in Prompts
  PROVE  LocalsOK'
BY DEF LocalsOK, Goto

(* A prompt that exists keeps existing whatever its status becomes. *)
LEMMA StatusKeepsRows ==
  ASSUME RowsOK, NEW p \in Prompts, status[p] # "none", NEW s \in Statuses \ {"none"},
         SetStatus(p, s), UNCHANGED <<response, createdAt, confirmation>>
  PROVE  RowsOK'
BY DEF RowsOK, SetStatus

LEMMA DepartureType == ClockOK => \A p \in Prompts : Departure(p) \in Nat
BY DEF ClockOK, Departure, Schedules

(* Who is about to mark a prompt works on one that exists. *)
Marking == {"expire", "push", "pushed", "fail", "reset", "answer", "expireAnswer"}

Exist ==
  \A x \in Procs :
    /\ pc[x] \in Marking => status[at[x]] # "none"
    /\ pc[x] = "fetch" => \A p \in list[x] : status[p] # "none"

LEMMA StepKeepsExist ==
  ASSUME LocalsOK, Exist, NEW x \in Procs,
         \A p \in Prompts : status[p] # "none" => status'[p] # "none",
         \A y \in Procs \ {x} : pc'[y] = pc[y] /\ at'[y] = at[y] /\ list'[y] = list[y],
         pc'[x] \in Marking => status'[at'[x]] # "none",
         pc'[x] = "fetch" => \A p \in list'[x] : status'[p] # "none"
  PROVE  Exist'
<1> SUFFICES ASSUME NEW y \in Procs
             PROVE  /\ pc'[y] \in Marking => status'[at'[y]] # "none"
                    /\ pc'[y] = "fetch" => \A p \in list'[y] : status'[p] # "none"
  BY DEF Exist
<1>1. CASE y = x
  BY <1>1
<1>2. CASE y # x
  <2>1. pc[y] \in Marking => at[y] \in Prompts
    BY DEF LocalsOK, Marking
  <2>2. list[y] \subseteq Prompts
    BY DEF LocalsOK
  <2>3. QED
    BY <1>2, <2>1, <2>2 DEF Exist
<1>3. QED
  BY <1>1, <1>2

(* The same of a call that ends. *)
LEMMA FinishKeepsExist ==
  ASSUME LocalsOK, Exist, NEW x \in Procs, Finish(x),
         \A p \in Prompts : status[p] # "none" => status'[p] # "none"
  PROVE  Exist'
<1>1. /\ pc'[x] = "idle"
      /\ \A y \in Procs \ {x} : pc'[y] = pc[y] /\ at'[y] = at[y] /\ list'[y] = list[y]
  BY DEF Finish, Goto, LocalsOK
<1>2. QED
  BY <1>1, StepKeepsExist DEF Marking

TypeInv == RowsOK /\ LocalsOK /\ ClockOK /\ QueueOK /\ Exist

LEMMA CronKeepsTypes ==
  ASSUME TypeInv, NEW c \in CronRuns, StartRun(c) \/ CronStep(c)
  PROVE  TypeInv'
<1> c \in Procs
  BY DEF Procs
<1> USE DEF TypeInv
<1>1. CASE StartRun(c)
  <2>1. /\ Goto(c, "each") /\ UNCHANGED <<rows, job, at, seen, pushes, faults, now, departAt, notifyAt, earliest>>
        /\ list' = [list EXCEPT ![c] = DueNow] /\ fired' = fired \cup {now}
    BY <1>1 DEF StartRun
  <2>2. LocalsOK'
    BY <2>1, MoveKeepsLocals DEF LocalsOK, Locations, DueNow
  <2>3. Exist'
    BY <2>1, StepKeepsExist DEF LocalsOK, Goto, Marking, rows
  <2>4. QED
    BY <2>1, <2>2, <2>3 DEF RowsOK, ClockOK, QueueOK, rows
<1>2. CASE NextStudent(c)
  <2>1. PICK p \in list[c] :
          /\ at' = [at EXCEPT ![c] = p] /\ list' = [list EXCEPT ![c] = @ \ {p}]
          /\ Goto(c, "find") /\ UNCHANGED <<clock, rows, job, seen, pushes, faults>>
    BY <1>2 DEF NextStudent
  <2>2. LocalsOK'
    BY <2>1, MoveKeepsLocals DEF LocalsOK, Locations
  <2>3. Exist'
    BY <2>1, StepKeepsExist DEF LocalsOK, Goto, Marking, rows
  <2>4. QED
    BY <2>1, <2>2, <2>3 DEF RowsOK, ClockOK, QueueOK, rows, clock
<1>3. CASE EndRun(c) \/ CreateRefused(c)
  <2>1. Finish(c) /\ UNCHANGED <<clock, rows, job, pushes, faults>>
    BY <1>3 DEF EndRun, CreateRefused
  <2>2. QED
    BY <2>1, FinishKeepsLocals, FinishKeepsExist DEF RowsOK, ClockOK, QueueOK, rows, clock
<1>4. CASE FindPrompt(c)
  <2>1. PICK location \in {"create", "enqueue", "reset", "each"} :
          /\ Goto(c, location)
          /\ location = "reset" => status[at[c]] = "FAILED"
    BY <1>4 DEF FindPrompt
  <2>2. at[c] \in Prompts /\ UNCHANGED <<clock, rows, job, at, list, seen, pushes, faults>>
    BY <1>4 DEF FindPrompt, LocalsOK
  <2>3. LocalsOK'
    BY <2>1, <2>2, MoveKeepsLocals DEF LocalsOK, Locations
  <2>4. Exist'
    BY <2>1, <2>2, StepKeepsExist DEF LocalsOK, Goto, Marking, rows
  <2>5. QED
    BY <2>2, <2>3, <2>4 DEF RowsOK, ClockOK, QueueOK, rows, clock
<1>5. CASE CreatePrompt(c)
  <2>1. /\ at[c] \in Prompts /\ Goto(c, "enqueue") /\ status[at[c]] = "none"
        /\ status' = [status EXCEPT ![at[c]] = "PENDING"]
        /\ createdAt' = [createdAt EXCEPT
                           ![at[c]] = Cardinality({p \in Prompts : createdAt[p] # 0}) + 1]
        /\ earliest' = [earliest EXCEPT ![at[c]] = Departure(at[c])]
        /\ UNCHANGED <<now, departAt, notifyAt, fired, response, confirmation, job, at, list,
                       seen, pushes, faults>>
    BY <1>5 DEF CreatePrompt, SetStatus, LocalsOK
  <2>2. Cardinality({p \in Prompts : createdAt[p] # 0}) \in Nat
    BY PromptsAssumption, FS_Subset, FS_CardinalityType
  <2>3. RowsOK'
    <3>1. createdAt' \in [Prompts -> Nat] /\ createdAt'[at[c]] # 0
      BY <2>1, <2>2 DEF RowsOK
    <3>2. QED
      BY <2>1, <3>1 DEF RowsOK, Statuses
  <2>4. LocalsOK'
    BY <2>1, MoveKeepsLocals DEF LocalsOK, Locations
  <2>5. Exist'
    <3>1. \A p \in Prompts : status[p] # "none" => status'[p] # "none"
      BY <2>1 DEF RowsOK
    <3>2. pc'[c] = "enqueue" /\ \A y \in Procs \ {c} : pc'[y] = pc[y]
      BY <2>1 DEF Goto, LocalsOK
    <3>3. QED
      BY <2>1, <3>1, <3>2, StepKeepsExist DEF Marking
  <2>6. ClockOK'
    BY <2>1, DepartureType DEF ClockOK
  <2>7. QED
    BY <2>1, <2>3, <2>4, <2>5, <2>6 DEF QueueOK
<1>6. CASE ResetPrompt(c)
  <2>1. /\ at[c] \in Prompts /\ status[at[c]] # "none" /\ SetStatus(at[c], "PENDING")
        /\ Goto(c, "enqueue")
        /\ UNCHANGED <<clock, response, createdAt, confirmation, job, at, list, seen, pushes, faults>>
    BY <1>6 DEF ResetPrompt, LocalsOK, Exist, Marking
  <2>2. RowsOK'
    BY <2>1, StatusKeepsRows DEF Statuses
  <2>3. LocalsOK'
    BY <2>1, MoveKeepsLocals DEF LocalsOK, Locations
  <2>4. Exist'
    <3>1. \A p \in Prompts : status[p] # "none" => status'[p] # "none"
      BY <2>1 DEF SetStatus, RowsOK
    <3>2. pc'[c] = "enqueue" /\ \A y \in Procs \ {c} : pc'[y] = pc[y]
      BY <2>1 DEF Goto, LocalsOK
    <3>3. QED
      BY <2>1, <3>1, <3>2, StepKeepsExist DEF Marking
  <2>5. QED
    BY <2>1, <2>2, <2>3, <2>4 DEF ClockOK, QueueOK, clock
<1>7. CASE EnqueuePrompt(c)
  <2>1. /\ at[c] \in Prompts /\ job' = [job EXCEPT ![at[c]] = Added(@)] /\ Goto(c, "each")
        /\ UNCHANGED <<clock, rows, at, list, seen, pushes, faults>>
    BY <1>7 DEF EnqueuePrompt, LocalsOK
  <2>2. QueueOK'
    BY <2>1, StalledType DEF QueueOK
  <2>3. LocalsOK'
    BY <2>1, MoveKeepsLocals DEF LocalsOK, Locations
  <2>4. Exist'
    BY <2>1, StepKeepsExist DEF LocalsOK, Goto, Marking, rows
  <2>5. QED
    BY <2>1, <2>2, <2>3, <2>4 DEF RowsOK, ClockOK, rows, clock
<1>8. QED
  BY <1>1, <1>2, <1>3, <1>4, <1>5, <1>6, <1>7 DEF CronStep

(* The three ways the worker and the requests leave a row: they move on, they *)
(* end, or they write a status by id.                                         *)
LEMMA MoveKeepsTypes ==
  ASSUME TypeInv, NEW x \in Procs, NEW location \in Locations \ {"fetch"}, Goto(x, location),
         UNCHANGED <<clock, rows, at, list, seen>>, QueueOK',
         location \notin {"idle", "each"} => at[x] \in Prompts,
         location \in Marking => status[at[x]] # "none"
  PROVE  TypeInv'
<1> USE DEF TypeInv
<1>1. LocalsOK'
  BY MoveKeepsLocals DEF LocalsOK
<1>2. \A y \in Procs : pc'[y] = IF y = x THEN location ELSE pc[y]
  BY DEF Goto, LocalsOK
<1>3. Exist'
  BY <1>2, StepKeepsExist DEF rows
<1>4. QED
  BY <1>1, <1>3 DEF RowsOK, ClockOK, rows, clock

LEMMA EndKeepsTypes ==
  ASSUME TypeInv, NEW x \in Procs, Finish(x), UNCHANGED <<clock, rows>>, QueueOK'
  PROVE  TypeInv'
BY FinishKeepsLocals, FinishKeepsExist DEF TypeInv, RowsOK, ClockOK, rows, clock

LEMMA MarkKeepsTypes ==
  ASSUME TypeInv, NEW x \in Procs, NEW p \in Prompts, status[p] # "none",
         NEW s \in Statuses \ {"none"}, SetStatus(p, s),
         UNCHANGED <<clock, createdAt, job, pushes, faults>>,
         response' \in [Prompts -> BOOLEAN \cup {None}],
         confirmation' \in [Prompts -> BOOLEAN \cup {None}],
         \/ Finish(x)
         \/ /\ at[x] \in Prompts
            /\ \E location \in Locations \ (Marking \cup {"fetch"}) : Goto(x, location)
            /\ UNCHANGED <<at, list, seen>>
  PROVE  TypeInv'
<1> USE DEF TypeInv
<1>1. \A q \in Prompts : status[q] # "none" => status'[q] # "none"
  BY DEF SetStatus, RowsOK
<1>2. RowsOK'
  BY DEF SetStatus, RowsOK
<1>3. ClockOK' /\ QueueOK'
  BY DEF ClockOK, QueueOK, clock
<1>4. CASE Finish(x)
  BY <1>1, <1>2, <1>3, <1>4, FinishKeepsLocals, FinishKeepsExist
<1>5. CASE ~Finish(x)
  <2>1. PICK location \in Locations \ (Marking \cup {"fetch"}) :
          at[x] \in Prompts /\ Goto(x, location) /\ UNCHANGED <<at, list, seen>>
    BY <1>5
  <2>2. LocalsOK'
    BY <2>1, MoveKeepsLocals DEF LocalsOK
  <2>3. \A y \in Procs : pc'[y] = IF y = x THEN location ELSE pc[y]
    BY <2>1 DEF Goto, LocalsOK
  <2>4. Exist'
    BY <1>1, <2>1, <2>3, StepKeepsExist
  <2>5. QED
    BY <1>2, <1>3, <2>2, <2>4
<1>6. QED
  BY <1>4, <1>5

LEMMA WorkerKeepsTypes ==
  ASSUME TypeInv, NEW w \in Workers, WorkerStep(w)
  PROVE  TypeInv'
<1> w \in Procs
  BY DEF Procs
<1> USE DEF TypeInv
<1>1. CASE TakeJob(w)
  <2>1. PICK p \in Prompts :
          /\ job' = [job EXCEPT ![p] = Taken(@, w)] /\ at' = [at EXCEPT ![w] = p]
          /\ Goto(w, "read") /\ UNCHANGED <<clock, rows, list, seen, pushes, faults>>
    BY <1>1 DEF TakeJob
  <2>2. QueueOK'
    BY <2>1, JobTypes DEF QueueOK
  <2>3. LocalsOK'
    BY <2>1, MoveKeepsLocals DEF LocalsOK, Locations
  <2>4. Exist'
    BY <2>1, StepKeepsExist DEF LocalsOK, Goto, Marking, rows
  <2>5. QED
    BY <2>1, <2>2, <2>3, <2>4 DEF RowsOK, ClockOK, rows, clock
<1>2. CASE CompleteJob(w) \/ FailJob(w)
  <2>1. PICK outcome \in {Completed(job[at[w]]), Failed(job[at[w]], MaxAttempts)} :
          at[w] \in Prompts /\ SettleJob(w, outcome)
    BY <1>2 DEF CompleteJob, FailJob, LocalsOK
  <2>2. outcome \in Job(Workers)
    BY <2>1, JobTypes DEF QueueOK
  <2>3. QueueOK'
    BY <2>1, <2>2 DEF SettleJob, QueueOK
  <2>4. QED
    BY <2>1, <2>3, EndKeepsTypes DEF SettleJob
<1>3. CASE ReadPrompt(w)
  <2>1. PICK location \in {"returned", "expire", "push"} :
          /\ Goto(w, location)
          /\ location \in Marking => status[at[w]] # "none"
    BY <1>3 DEF ReadPrompt, Marking
  <2>2. at[w] \in Prompts /\ UNCHANGED <<clock, rows, job, at, list, seen, pushes, faults>>
    BY <1>3 DEF ReadPrompt, LocalsOK
  <2>3. QueueOK'
    BY <2>2 DEF QueueOK
  <2>4. QED
    BY <2>1, <2>2, <2>3, MoveKeepsTypes DEF Locations
<1>4. CASE ExpirePrompt(w) \/ MarkDispatched(w) \/ MarkFailed(w)
  <2>1. PICK s \in {"EXPIRED", "DISPATCHED", "FAILED"}, location \in {"returned", "threw"} :
          SetStatus(at[w], s) /\ Goto(w, location)
    BY <1>4 DEF ExpirePrompt, MarkDispatched, MarkFailed
  <2>2. /\ pc[w] \in Marking /\ pc[w] \notin {"idle", "each", "fetch"}
        /\ UNCHANGED <<clock, response, createdAt, confirmation, job, at, list, seen,
                       pushes, faults>>
    BY <1>4 DEF ExpirePrompt, MarkDispatched, MarkFailed, Marking
  <2>3. at[w] \in Prompts /\ status[at[w]] # "none"
    BY <2>2 DEF LocalsOK, Exist
  <2>4. response \in [Prompts -> BOOLEAN \cup {None}]
        /\ confirmation \in [Prompts -> BOOLEAN \cup {None}]
    BY DEF RowsOK
  <2>5. s \in Statuses \ {"none"} /\ location \in Locations \ (Marking \cup {"fetch"})
    BY DEF Statuses, Locations, Marking
  <2>6. QED
    BY <2>1, <2>2, <2>3, <2>4, <2>5, MarkKeepsTypes
<1>5. CASE Push(w)
  <2>1. /\ at[w] \in Prompts /\ status[at[w]] # "none" /\ Goto(w, "pushed")
        /\ UNCHANGED <<clock, rows, job, at, list, seen, faults>>
    BY <1>5 DEF Push, LocalsOK, Exist, Marking
  <2>2. QueueOK'
    BY <1>5, <2>1 DEF Push, QueueOK
  <2>3. QED
    BY <2>1, <2>2, MoveKeepsTypes DEF Locations
<1>6. QED
  BY <1>1, <1>2, <1>3, <1>4, <1>5 DEF WorkerStep

LEMMA RequestKeepsTypes ==
  ASSUME TypeInv, NEW r \in Requests, RequestStep(r)
  PROVE  TypeInv'
<1> r \in Procs
  BY DEF Procs
<1> USE DEF TypeInv
<1>1. CASE FetchNext(r)
  <2>1. PICK p \in list[r] :
          \/ /\ SetStatus(p, "EXPIRED") /\ list' = [list EXCEPT ![r] = @ \ {p}]
             /\ UNCHANGED <<pc, at, seen>>
          \/ /\ status' = status \/ SetStatus(p, "DISPATCHED")
             /\ Finish(r)
    BY <1>1 DEF FetchNext, SetStatus
  <2>2. /\ pc[r] = "fetch"
        /\ UNCHANGED <<clock, response, createdAt, confirmation, job, pushes, faults>>
    BY <1>1 DEF FetchNext
  <2>3. p \in Prompts /\ status[p] # "none"
    BY <2>2 DEF LocalsOK, Exist
  <2>4. QueueOK' /\ ClockOK'
    BY <2>2 DEF QueueOK, ClockOK, clock
  <2>5. response' \in [Prompts -> BOOLEAN \cup {None}]
        /\ confirmation' \in [Prompts -> BOOLEAN \cup {None}]
    BY <2>2 DEF RowsOK
  <2>6. CASE /\ SetStatus(p, "EXPIRED") /\ list' = [list EXCEPT ![r] = @ \ {p}]
             /\ UNCHANGED <<pc, at, seen>>
    <3>1. RowsOK'
      BY <2>2, <2>3, <2>6, StatusKeepsRows DEF Statuses
    <3>2. LocalsOK'
      BY <2>6 DEF LocalsOK
    <3>3. \A q \in Prompts : status[q] # "none" => status'[q] # "none"
      BY <2>6 DEF SetStatus, RowsOK
    <3>4. /\ list'[r] \subseteq list[r] /\ list[r] \subseteq Prompts
          /\ \A y \in Procs \ {r} : list'[y] = list[y]
      BY <2>6 DEF LocalsOK
    <3>5. \A q \in list'[r] : status'[q] # "none"
      BY <2>2, <3>3, <3>4 DEF Exist
    <3>6. Exist'
      BY <2>2, <2>6, <3>3, <3>4, <3>5, StepKeepsExist DEF Marking
    <3>7. QED
      BY <2>4, <3>1, <3>2, <3>6
  <2>7. CASE SetStatus(p, "DISPATCHED") /\ Finish(r)
    <3>1. "DISPATCHED" \in Statuses \ {"none"}
      BY DEF Statuses
    <3>2. QED
      BY <2>2, <2>3, <2>5, <2>7, <3>1, MarkKeepsTypes
  <2>8. CASE status' = status /\ Finish(r)
    BY <2>2, <2>4, <2>8, EndKeepsTypes DEF rows
  <2>9. QED
    BY <2>1, <2>6, <2>7, <2>8
<1>2. CASE EndFetch(r)
  <2>1. QueueOK'
    BY <1>2 DEF EndFetch, QueueOK
  <2>2. QED
    BY <1>2, <2>1, EndKeepsTypes DEF EndFetch
<1>3. CASE ExpireAnswer(r) \/ CommitAnswer(r)
  <2>1. PICK s \in {"EXPIRED", "ANSWERED"} : SetStatus(at[r], s)
    BY <1>3 DEF ExpireAnswer, CommitAnswer
  <2>2. /\ pc[r] \in Marking /\ pc[r] \notin {"idle", "each", "fetch"}
        /\ Finish(r) /\ UNCHANGED <<clock, createdAt, job, pushes, faults>>
    BY <1>3 DEF ExpireAnswer, CommitAnswer, Marking
  <2>3. at[r] \in Prompts /\ status[at[r]] # "none"
    BY <2>2 DEF LocalsOK, Exist
  <2>4. response' \in [Prompts -> BOOLEAN \cup {None}]
        /\ confirmation' \in [Prompts -> BOOLEAN \cup {None}]
    BY <1>3 DEF ExpireAnswer, CommitAnswer, RowsOK
  <2>5. s \in Statuses \ {"none"}
    BY DEF Statuses
  <2>6. QED
    BY <2>1, <2>2, <2>3, <2>4, <2>5, MarkKeepsTypes
<1>4. QED
  BY <1>1, <1>2, <1>3 DEF RequestStep

LEMMA StudentKeepsTypes ==
  ASSUME TypeInv, Student
  PROVE  TypeInv'
<1> USE DEF TypeInv
<1>1. ASSUME NEW r \in Requests, NEW u \in Users, StartFetch(r, u)
      PROVE  TypeInv'
  <2> r \in Procs
    BY DEF Procs
  <2>1. PICK found \in SUBSET OpenPrompts(u) :
          /\ list' = [list EXCEPT ![r] = found]
          /\ seen' = [seen EXCEPT ![r] = [p \in Prompts |->
               IF p \in found THEN [status |-> status[p], departure |-> Departure(p)] ELSE Unread]]
    BY <1>1 DEF StartFetch
  <2>2. Goto(r, "fetch") /\ UNCHANGED <<clock, rows, job, at, pushes, faults>>
    BY <1>1 DEF StartFetch
  <2>3. \A p \in found : p \in Prompts /\ status[p] # "none"
    BY DEF OpenPrompts, Open
  <2>4. /\ seen' \in [Procs -> [Prompts -> [status : Statuses, departure : Nat]]]
        /\ list' \in [Procs -> SUBSET Prompts]
    <3>1. \A p \in Prompts :
            [status |-> status[p], departure |-> Departure(p)] \in [status : Statuses, departure : Nat]
      BY DepartureType DEF RowsOK
    <3>2. Unread \in [status : Statuses, departure : Nat]
      BY DEF Unread, Statuses
    <3>3. QED
      BY <2>1, <2>3, <3>1, <3>2 DEF LocalsOK
  <2>5. LocalsOK'
    BY <2>2, <2>4, MoveKeepsLocals DEF LocalsOK, Locations
  <2>6. Exist'
    BY <2>1, <2>2, <2>3, StepKeepsExist DEF LocalsOK, Goto, Marking, rows
  <2>7. QED
    BY <2>2, <2>5, <2>6 DEF RowsOK, ClockOK, QueueOK, rows, clock
<1>2. ASSUME NEW r \in Requests, NEW p \in Prompts, StartAnswer(r, p)
      PROVE  TypeInv'
  <2> r \in Procs
    BY DEF Procs
  <2>1. PICK location \in {"expireAnswer", "answer"} : Goto(r, location)
    BY <1>2 DEF StartAnswer
  <2>2. /\ status[p] # "none" /\ at' = [at EXCEPT ![r] = p]
        /\ UNCHANGED <<clock, rows, job, list, seen, pushes, faults>>
    BY <1>2 DEF StartAnswer
  <2>3. LocalsOK'
    BY <2>1, <2>2, MoveKeepsLocals DEF LocalsOK, Locations
  <2>4. Exist'
    BY <2>1, <2>2, StepKeepsExist DEF LocalsOK, Goto, Marking, rows
  <2>5. QED
    BY <2>2, <2>3, <2>4 DEF RowsOK, ClockOK, QueueOK, rows, clock
<1>3. ASSUME NEW p \in Prompts, Confirm(p)
      PROVE  TypeInv'
  <2>1. UNCHANGED <<clock, status, response, createdAt, job, local, pushes, faults>>
        /\ confirmation' \in [Prompts -> BOOLEAN \cup {None}]
    BY <1>3 DEF Confirm, RowsOK
  <2>2. QED
    BY <2>1 DEF RowsOK, ClockOK, QueueOK, LocalsOK, Exist, clock, local
<1>4. QED
  BY <1>1, <1>2, <1>3 DEF Student

LEMMA FaultKeepsTypes ==
  ASSUME TypeInv, Fault
  PROVE  TypeInv'
<1> USE DEF TypeInv
<1>1. ASSUME NEW w \in Workers, CallFails(w)
      PROVE  TypeInv'
  <2> w \in Procs
    BY DEF Procs
  <2>1. PICK location \in {"fail", "threw"} :
          /\ Goto(w, location)
          /\ location = "fail" => pc[w] \in {"push", "pushed"}
    BY <1>1 DEF CallFails
  <2>2. /\ pc[w] \notin {"idle", "each", "fetch"} /\ faults' = faults + 1
        /\ UNCHANGED <<clock, rows, job, at, list, seen, pushes>>
    BY <1>1 DEF CallFails
  <2>3. QueueOK'
    BY <2>2 DEF QueueOK
  <2>4. at[w] \in Prompts /\ (location \in Marking => status[at[w]] # "none")
    BY <2>1, <2>2 DEF LocalsOK, Exist, Marking
  <2>5. QED
    BY <2>1, <2>2, <2>3, <2>4, MoveKeepsTypes DEF Locations
<1>2. ASSUME NEW x \in Procs, Crash(x)
      PROVE  TypeInv'
  <2>1. QueueOK'
    BY <1>2 DEF Crash, QueueOK
  <2>2. QED
    BY <1>2, <2>1, EndKeepsTypes DEF Crash
<1>3. ASSUME NEW p \in Prompts, StallJob(p)
      PROVE  TypeInv'
  <2>1. UNCHANGED <<clock, rows, local, pushes>> /\ QueueOK'
    BY <1>3, StalledType DEF StallJob, QueueOK
  <2>2. QED
    BY <2>1 DEF RowsOK, ClockOK, LocalsOK, Exist, clock, rows, local
<1>4. QED
  BY <1>1, <1>2, <1>3 DEF Fault

LEMMA TypeInvInit == Init => TypeInv
BY TimesAssumption
   DEF Init, TypeInv, RowsOK, LocalsOK, ClockOK, QueueOK, Exist, Marking, Nothing, Unread, Statuses,
       Locations, NoJob, JobIn, Job, JobStates

LEMMA NextKeepsTypes == TypeInv /\ [Next]_vars => TypeInv'
<1> SUFFICES ASSUME TypeInv, [Next]_vars PROVE TypeInv'
  OBVIOUS
<1> USE DEF TypeInv
<1>1. CASE Tick \/ \E s \in Schedules, t \in Timetables : Reschedule(s, t)
  <2>1. UNCHANGED <<rows, job, local, pushes, faults>> /\ ClockOK'
    <3>1. CASE Tick
      BY <3>1 DEF Tick, ClockOK
    <3>2. ASSUME NEW s \in Schedules, NEW t \in Timetables, Reschedule(s, t)
          PROVE  UNCHANGED <<rows, job, local, pushes, faults>> /\ ClockOK'
      <4>1. t.departure \in Nat /\ t.notice \in Nat
        BY TimesAssumption
      <4>2. QED
        BY <3>2, <4>1 DEF Reschedule, ClockOK
    <3>3. QED
      BY <1>1, <3>1, <3>2
  <2>2. QED
    BY <2>1 DEF RowsOK, LocalsOK, QueueOK, Exist, rows, local
<1>2. CASE \E p \in Prompts : RecoverJob(p) \/ RemoveJob(p)
  <2>1. UNCHANGED <<clock, rows, local, pushes, faults>> /\ QueueOK'
    BY <1>2, StalledType DEF RecoverJob, RemoveJob, QueueOK
  <2>2. QED
    BY <2>1 DEF RowsOK, ClockOK, LocalsOK, Exist, clock, rows, local
<1>3. CASE UNCHANGED vars
  BY <1>3 DEF vars, RowsOK, LocalsOK, ClockOK, QueueOK, Exist, clock, rows, local
<1>4. QED
  BY <1>1, <1>2, <1>3, CronKeepsTypes, WorkerKeepsTypes, RequestKeepsTypes, StudentKeepsTypes,
     FaultKeepsTypes DEF Next

(* Every variable keeps its type: in particular whoever marks a prompt works  *)
(* on one, and a prompt that was created stays created whoever updates its row *)
(* by id.                                                                     *)
THEOREM PromptTypes == Spec => []TypeOK
<1>1. TypeInv => TypeOK
  BY TypeParts DEF TypeInv
<1>2. QED
  BY TypeInvInit, NextKeepsTypes, <1>1, PTL DEF Spec
-----------------------------------------------------------------------------
(* Why an open prompt stays open: a process only goes on to mark a prompt      *)
(* expired after a departure passed that its schedule had while the prompt     *)
(* existed, and neither time nor the earliest of them goes back.               *)
Over(p) == now > earliest[p]

EarliestOK == \A p \in Prompts : status[p] # "none" => earliest[p] <= Departure(p)

ExpiryJustified ==
  \A x \in Procs :
    /\ pc[x] \in {"expire", "expireAnswer"} => Over(at[x])
    /\ pc[x] = "fetch" => \A p \in list[x] : earliest[p] <= seen[x][p].departure

RowsJustified ==
  \A p \in Prompts : /\ status[p] = "EXPIRED" => Over(p)
                     /\ status[p] = "ANSWERED" => response[p] # None

Inv == EarliestOK /\ ExpiryJustified /\ RowsJustified

LEMMA InvInit == Init => Inv
BY DEF Init, Inv, EarliestOK, ExpiryJustified, RowsJustified, Nothing, Procs

(* What a process was justified in doing it still is, while the clock goes on *)
(* and departures of prompts that exist are moved.                            *)
LEMMA StaysJustified ==
  ASSUME TypeInv, Inv, NEW X \in SUBSET Procs, now' \in Nat, now' >= now,
         earliest' \in [Prompts -> Nat],
         \A p \in Prompts : status[p] # "none" => earliest'[p] <= earliest[p],
         \A y \in Procs \ X :
           pc'[y] = pc[y] /\ at'[y] = at[y] /\ list'[y] = list[y] /\ seen'[y] = seen[y],
         \A x \in X :
           /\ pc'[x] \in {"expire", "expireAnswer"} => now' > earliest'[at'[x]]
           /\ pc'[x] = "fetch" => \A p \in list'[x] : earliest'[p] <= seen'[x][p].departure
  PROVE  ExpiryJustified'
<1> SUFFICES ASSUME NEW y \in Procs
             PROVE  /\ pc'[y] \in {"expire", "expireAnswer"} => now' > earliest'[at'[y]]
                    /\ pc'[y] = "fetch" =>
                         \A p \in list'[y] : earliest'[p] <= seen'[y][p].departure
  BY DEF ExpiryJustified, Over
<1>1. CASE y \in X
  BY <1>1
<1>2. CASE y \notin X
  <2>1. pc'[y] = pc[y] /\ at'[y] = at[y] /\ list'[y] = list[y] /\ seen'[y] = seen[y]
    BY <1>2
  <2>2. now \in Nat /\ earliest \in [Prompts -> Nat]
    BY DEF TypeInv, ClockOK
  <2>3. ASSUME pc[y] \in {"expire", "expireAnswer"}
        PROVE  now' > earliest'[at[y]]
    <3>1. at[y] \in Prompts /\ status[at[y]] # "none" /\ now > earliest[at[y]]
      BY <2>3 DEF TypeInv, LocalsOK, Exist, Marking, Inv, ExpiryJustified, Over
    <3>2. QED
      BY <2>2, <3>1
  <2>4. ASSUME pc[y] = "fetch", NEW p \in list[y]
        PROVE  earliest'[p] <= seen[y][p].departure
    <3>1. p \in Prompts /\ status[p] # "none" /\ earliest[p] <= seen[y][p].departure
      BY <2>4 DEF TypeInv, LocalsOK, Exist, Inv, ExpiryJustified
    <3>2. seen[y][p].departure \in Nat
      BY <3>1 DEF TypeInv, LocalsOK
    <3>3. QED
      BY <2>2, <3>1, <3>2
  <2>5. QED
    BY <2>1, <2>3, <2>4
<1>3. QED
  BY <1>1, <1>2

(* The clock, an administrator, the queue and the students' confirmations    *)
(* leave the rows and the processes alone.                                   *)
LEMMA OutsideKeepsInv ==
  ASSUME TypeInv, Inv, now' \in Nat, now' >= now, earliest' \in [Prompts -> Nat],
         \A p \in Prompts : earliest'[p] <= earliest[p], EarliestOK',
         UNCHANGED <<status, response, local>>
  PROVE  Inv'
<1>1. ExpiryJustified'
  <2>1. \A y \in Procs :
          pc'[y] = pc[y] /\ at'[y] = at[y] /\ list'[y] = list[y] /\ seen'[y] = seen[y]
    BY DEF local
  <2>2. {} \in SUBSET Procs
    OBVIOUS
  <2>3. QED
    BY <2>1, <2>2, StaysJustified
<1>2. RowsJustified'
  <2>1. now \in Nat /\ earliest \in [Prompts -> Nat]
    BY DEF TypeInv, ClockOK
  <2>2. QED
    BY <2>1 DEF Inv, RowsJustified, Over
<1>3. QED
  BY <1>1, <1>2 DEF Inv

(* A process that moves on, or ends: what it writes to a row, and where it    *)
(* goes, is justified.                                                        *)
LEMMA StepKeepsInv ==
  ASSUME TypeInv, Inv, NEW x \in Procs, UNCHANGED <<now, departAt, earliest>>,
         \A p \in Prompts :
           \/ status'[p] = status[p] /\ response'[p] = response[p]
           \/ status[p] # "none" /\ status'[p] \in Open
           \/ status[p] # "none" /\ status'[p] = "EXPIRED" /\ Over(p)
           \/ status[p] # "none" /\ status'[p] = "ANSWERED" /\ response'[p] # None,
         \A y \in Procs \ {x} :
           pc'[y] = pc[y] /\ at'[y] = at[y] /\ list'[y] = list[y] /\ seen'[y] = seen[y],
         pc'[x] \in {"expire", "expireAnswer"} => Over(at'[x]),
         pc'[x] = "fetch" => \A p \in list'[x] : earliest[p] <= seen'[x][p].departure
  PROVE  Inv'
<1>1. now \in Nat /\ earliest \in [Prompts -> Nat]
  BY DEF TypeInv, ClockOK
<1>2. EarliestOK'
  BY DEF Inv, EarliestOK, Departure
<1>3. ExpiryJustified'
  <2>1. {x} \in SUBSET Procs
    OBVIOUS
  <2>2. \A p \in Prompts : earliest'[p] <= earliest[p]
    BY <1>1
  <2>3. now' >= now /\ now' \in Nat /\ earliest' \in [Prompts -> Nat]
    BY <1>1
  <2>4. \A z \in {x} :
          /\ pc'[z] \in {"expire", "expireAnswer"} => now' > earliest'[at'[z]]
          /\ pc'[z] = "fetch" => \A p \in list'[z] : earliest'[p] <= seen'[z][p].departure
    BY DEF Over
  <2>5. QED
    BY <2>1, <2>2, <2>3, <2>4, StaysJustified
<1>4. RowsJustified'
  BY DEF Inv, RowsJustified, Over, Open
<1>5. QED
  BY <1>2, <1>3, <1>4 DEF Inv

(* The same of one that neither writes a row nor sees a departure.            *)
LEMMA MoveKeepsInv ==
  ASSUME TypeInv, Inv, NEW x \in Procs, UNCHANGED <<now, departAt, earliest, status, response>>,
         \A y \in Procs \ {x} : at'[y] = at[y] /\ list'[y] = list[y] /\ seen'[y] = seen[y],
         NEW location \in Locations \ {"expire", "expireAnswer", "fetch"}, Goto(x, location)
  PROVE  Inv'
<1>1. pc'[x] = location /\ \A y \in Procs \ {x} : pc'[y] = pc[y]
  BY DEF Goto, TypeInv, LocalsOK
<1>2. QED
  BY <1>1, StepKeepsInv

LEMMA FinishMoves ==
  ASSUME TypeInv, NEW x \in Procs, Finish(x)
  PROVE  /\ pc'[x] = "idle"
         /\ \A y \in Procs \ {x} :
              pc'[y] = pc[y] /\ at'[y] = at[y] /\ list'[y] = list[y] /\ seen'[y] = seen[y]
BY DEF Finish, Goto, TypeInv, LocalsOK

LEMMA FinishKeepsInv ==
  ASSUME TypeInv, Inv, NEW x \in Procs, UNCHANGED <<clock, rows>>, Finish(x)
  PROVE  Inv'
BY FinishMoves, StepKeepsInv DEF rows, clock

LEMMA CronKeepsInv ==
  ASSUME TypeInv, TypeInv', Inv, NEW c \in CronRuns, StartRun(c) \/ CronStep(c)
  PROVE  Inv'
<1> c \in Procs
  BY DEF Procs
<1>1. CASE EndRun(c) \/ CreateRefused(c)
  BY <1>1, FinishKeepsInv DEF EndRun, CreateRefused
<1>2. CASE StartRun(c) \/ NextStudent(c) \/ EnqueuePrompt(c)
  <2>1. /\ UNCHANGED <<now, departAt, earliest, status, response>>
        /\ \E location \in {"each", "find"} : Goto(c, location)
    BY <1>2 DEF StartRun, NextStudent, EnqueuePrompt, rows, clock
  <2>2. \A y \in Procs \ {c} : at'[y] = at[y] /\ list'[y] = list[y] /\ seen'[y] = seen[y]
    BY <1>2 DEF StartRun, NextStudent, EnqueuePrompt, TypeInv, LocalsOK
  <2>3. QED
    BY <2>1, <2>2, MoveKeepsInv DEF Locations
<1>3. CASE FindPrompt(c)
  <2>1. PICK location \in {"create", "enqueue", "reset", "each"} : Goto(c, location)
    BY <1>3 DEF FindPrompt
  <2>2. UNCHANGED <<now, departAt, earliest, status, response, at, list, seen>>
    BY <1>3 DEF FindPrompt, rows, clock
  <2>3. QED
    BY <2>1, <2>2, MoveKeepsInv DEF Locations
<1>4. CASE ResetPrompt(c)
  <2>1. /\ at[c] \in Prompts /\ status[at[c]] # "none" /\ Goto(c, "enqueue")
        /\ UNCHANGED <<now, departAt, earliest, response, at, list, seen>>
        /\ SetStatus(at[c], "PENDING")
    BY <1>4 DEF ResetPrompt, TypeInv, LocalsOK, Exist, Marking, clock
  <2>2. \A p \in Prompts : \/ status'[p] = status[p]
                           \/ status[p] # "none" /\ status'[p] \in Open
    BY <2>1 DEF SetStatus, TypeInv, RowsOK, Open
  <2>3. pc'[c] = "enqueue" /\ \A y \in Procs \ {c} : pc'[y] = pc[y]
    BY <2>1 DEF Goto, TypeInv, LocalsOK
  <2>4. QED
    BY <2>1, <2>2, <2>3, StepKeepsInv
<1>5. CASE CreatePrompt(c)
  <2>1. /\ at[c] \in Prompts /\ status[at[c]] = "none" /\ Goto(c, "enqueue")
        /\ UNCHANGED <<now, departAt, response, at, list, seen>>
        /\ status' = [status EXCEPT ![at[c]] = "PENDING"]
        /\ earliest' = [earliest EXCEPT ![at[c]] = Departure(at[c])]
    BY <1>5 DEF CreatePrompt, SetStatus, TypeInv, LocalsOK
  <2>2. /\ now \in Nat /\ earliest \in [Prompts -> Nat] /\ status \in [Prompts -> Statuses]
        /\ earliest' \in [Prompts -> Nat] /\ Departure(at[c]) \in Nat
    BY <2>1, DepartureType DEF TypeInv, ClockOK, RowsOK
  <2>3. /\ \A p \in Prompts : Departure(p)' = Departure(p)
        /\ \A p \in Prompts : p # at[c] => status'[p] = status[p] /\ earliest'[p] = earliest[p]
        /\ status'[at[c]] = "PENDING" /\ earliest'[at[c]] = Departure(at[c])
    BY <2>1, <2>2 DEF Departure
  <2>4. EarliestOK'
    BY <2>1, <2>2, <2>3 DEF Inv, EarliestOK
  <2>5. RowsJustified'
    BY <2>1, <2>3 DEF Inv, RowsJustified, Over
  <2>6. ExpiryJustified'
    <3>1. {c} \in SUBSET Procs /\ now' \in Nat /\ now' >= now
      BY <2>1, <2>2
    <3>2. \A p \in Prompts : status[p] # "none" => earliest'[p] <= earliest[p]
      BY <2>1, <2>2, <2>3
    <3>3. pc'[c] = "enqueue" /\ \A y \in Procs \ {c} : pc'[y] = pc[y]
      BY <2>1 DEF Goto, TypeInv, LocalsOK
    <3>4. QED
      BY <2>1, <2>2, <3>1, <3>2, <3>3, StaysJustified
  <2>7. QED
    BY <2>4, <2>5, <2>6 DEF Inv
<1>6. QED
  BY <1>1, <1>2, <1>3, <1>4, <1>5 DEF CronStep

LEMMA WorkerKeepsInv ==
  ASSUME TypeInv, Inv, NEW w \in Workers, WorkerStep(w)
  PROVE  Inv'
<1> w \in Procs
  BY DEF Procs
<1>1. CASE TakeJob(w) \/ Push(w)
  <2>1. /\ UNCHANGED <<now, departAt, earliest, status, response>>
        /\ \E location \in {"read", "pushed"} : Goto(w, location)
    BY <1>1 DEF TakeJob, Push, rows, clock
  <2>2. \A y \in Procs \ {w} : at'[y] = at[y] /\ list'[y] = list[y] /\ seen'[y] = seen[y]
    BY <1>1 DEF TakeJob, Push, TypeInv, LocalsOK
  <2>3. QED
    BY <2>1, <2>2, MoveKeepsInv DEF Locations
<1>2. CASE CompleteJob(w) \/ FailJob(w)
  BY <1>2, FinishKeepsInv DEF CompleteJob, FailJob, SettleJob
<1>3. CASE ReadPrompt(w)
  <2>1. PICK location \in {"returned", "expire", "push"} :
          /\ Goto(w, location)
          /\ location = "expire" => /\ IsExpired(Departure(at[w]))
                                    /\ status[at[w]] \in {"PENDING", "FAILED"}
    BY <1>3 DEF ReadPrompt
  <2>2. at[w] \in Prompts /\ UNCHANGED <<now, departAt, earliest, status, response, at, list, seen>>
    BY <1>3 DEF ReadPrompt, rows, clock, TypeInv, LocalsOK
  <2>3. location = "expire" => Over(at[w])
    <3>1. now \in Nat /\ earliest[at[w]] \in Nat /\ Departure(at[w]) \in Nat
      BY <2>2, DepartureType DEF TypeInv, ClockOK
    <3>2. location = "expire" => earliest[at[w]] <= Departure(at[w])
      BY <2>1, <2>2 DEF Inv, EarliestOK
    <3>3. QED
      BY <2>1, <3>1, <3>2 DEF IsExpired, Over
  <2>4. pc'[w] = location /\ \A y \in Procs \ {w} : pc'[y] = pc[y]
    BY <2>1 DEF Goto, TypeInv, LocalsOK
  <2>5. QED
    BY <2>2, <2>3, <2>4, StepKeepsInv DEF Over
<1>4. CASE ExpirePrompt(w) \/ MarkDispatched(w) \/ MarkFailed(w)
  <2>1. /\ at[w] \in Prompts /\ status[at[w]] # "none"
        /\ UNCHANGED <<now, departAt, earliest, response, at, list, seen>>
        /\ \E location \in {"returned", "threw"} : Goto(w, location)
    BY <1>4 DEF ExpirePrompt, MarkDispatched, MarkFailed, TypeInv, LocalsOK, Exist, Marking, clock
  <2>2. PICK s \in {"EXPIRED", "DISPATCHED", "FAILED"} :
          SetStatus(at[w], s) /\ (s = "EXPIRED" => pc[w] = "expire")
    BY <1>4 DEF ExpirePrompt, MarkDispatched, MarkFailed
  <2>3. s = "EXPIRED" => Over(at[w])
    BY <2>2 DEF Inv, ExpiryJustified
  <2>4. \A p \in Prompts : status'[p] = IF p = at[w] THEN s ELSE status[p]
    BY <2>2 DEF SetStatus, TypeInv, RowsOK
  <2>5. pc'[w] \in {"returned", "threw"} /\ \A y \in Procs \ {w} : pc'[y] = pc[y]
    BY <2>1 DEF Goto, TypeInv, LocalsOK
  <2>6. QED
    BY <2>1, <2>3, <2>4, <2>5, StepKeepsInv DEF Open
<1>5. QED
  BY <1>1, <1>2, <1>3, <1>4 DEF WorkerStep

LEMMA StudentKeepsInv ==
  ASSUME TypeInv, Inv, NEW r \in Requests,
         \/ RequestStep(r)
         \/ \E u \in Users : StartFetch(r, u)
         \/ \E p \in Prompts : StartAnswer(r, p)
  PROVE  Inv'
<1> r \in Procs
  BY DEF Procs
<1>1. ASSUME NEW u \in Users, StartFetch(r, u)
      PROVE  Inv'
  <2>1. PICK found \in SUBSET OpenPrompts(u) :
          /\ list' = [list EXCEPT ![r] = found]
          /\ seen' = [seen EXCEPT ![r] = [p \in Prompts |->
               IF p \in found THEN [status |-> status[p], departure |-> Departure(p)] ELSE Unread]]
    BY <1>1 DEF StartFetch
  <2>2. Goto(r, "fetch") /\ UNCHANGED <<now, departAt, earliest, status, response, at>>
    BY <1>1 DEF StartFetch, rows, clock
  <2>3. pc'[r] = "fetch" /\ \A y \in Procs \ {r} : pc'[y] = pc[y]
    BY <2>2 DEF Goto, TypeInv, LocalsOK
  <2>4. \A y \in Procs \ {r} : list'[y] = list[y] /\ seen'[y] = seen[y]
    BY <2>1 DEF TypeInv, LocalsOK
  <2>5. \A p \in list'[r] : earliest[p] <= seen'[r][p].departure
    <3>1. \A p \in found : p \in Prompts /\ status[p] # "none"
      BY DEF OpenPrompts, Open
    <3>2. list'[r] = found /\ \A p \in found : seen'[r][p].departure = Departure(p)
      BY <2>1, <3>1 DEF TypeInv, LocalsOK
    <3>3. QED
      BY <3>1, <3>2 DEF Inv, EarliestOK
  <2>6. QED
    BY <2>2, <2>3, <2>4, <2>5, StepKeepsInv
<1>2. CASE FetchNext(r)
  <2>1. PICK p \in list[r] :
          \/ /\ IsExpired(seen[r][p].departure) /\ SetStatus(p, "EXPIRED")
             /\ list' = [list EXCEPT ![r] = @ \ {p}] /\ UNCHANGED <<pc, at, seen>>
          \/ /\ status' = status \/ SetStatus(p, "DISPATCHED")
             /\ Finish(r)
    BY <1>2 DEF FetchNext, SetStatus
  <2>2. /\ pc[r] = "fetch" /\ p \in Prompts /\ status[p] # "none"
        /\ UNCHANGED <<now, departAt, earliest, response>>
    BY <1>2 DEF FetchNext, TypeInv, LocalsOK, Exist, clock
  <2>3. CASE (status' = status \/ SetStatus(p, "DISPATCHED")) /\ Finish(r)
    <3>1. \A q \in Prompts : \/ status'[q] = status[q]
                             \/ status[q] # "none" /\ status'[q] \in Open
      BY <2>2, <2>3 DEF SetStatus, Open, TypeInv, RowsOK
    <3>2. QED
      BY <2>2, <2>3, <3>1, FinishMoves, StepKeepsInv
  <2>4. CASE /\ IsExpired(seen[r][p].departure) /\ SetStatus(p, "EXPIRED")
             /\ list' = [list EXCEPT ![r] = @ \ {p}] /\ UNCHANGED <<pc, at, seen>>
    <3>1. Over(p)
      <4>1. now \in Nat /\ earliest[p] \in Nat /\ seen[r][p].departure \in Nat
        BY <2>2 DEF TypeInv, ClockOK, LocalsOK
      <4>2. earliest[p] <= seen[r][p].departure
        BY <2>2 DEF Inv, ExpiryJustified
      <4>3. QED
        BY <2>4, <4>1, <4>2 DEF IsExpired, Over
    <3>2. \A q \in Prompts : status'[q] = IF q = p THEN "EXPIRED" ELSE status[q]
      BY <2>4 DEF SetStatus, TypeInv, RowsOK
    <3>3. list'[r] \subseteq list[r] /\ \A y \in Procs \ {r} : list'[y] = list[y]
      BY <2>4 DEF TypeInv, LocalsOK
    <3>4. \A q \in list'[r] : earliest[q] <= seen'[r][q].departure
      BY <2>2, <2>4, <3>3 DEF Inv, ExpiryJustified
    <3>5. pc'[r] = "fetch"
      BY <2>2, <2>4
    <3>6. QED
      BY <2>2, <2>4, <3>1, <3>2, <3>3, <3>4, <3>5, StepKeepsInv
  <2>5. QED
    BY <2>1, <2>3, <2>4
<1>3. CASE EndFetch(r)
  BY <1>3, FinishKeepsInv DEF EndFetch
<1>4. ASSUME NEW p \in Prompts, StartAnswer(r, p)
      PROVE  Inv'
  <2>1. /\ status[p] # "none" /\ at' = [at EXCEPT ![r] = p]
        /\ UNCHANGED <<now, departAt, earliest, status, response, list, seen>>
        /\ pc' = [pc EXCEPT ![r] =
                    IF IsExpired(Departure(p)) THEN "expireAnswer" ELSE "answer"]
    BY <1>4 DEF StartAnswer, Goto, rows, clock
  <2>2. /\ at'[r] = p /\ \A y \in Procs \ {r} : pc'[y] = pc[y] /\ at'[y] = at[y]
        /\ \/ pc'[r] = "answer"
           \/ pc'[r] = "expireAnswer" /\ IsExpired(Departure(p))
    BY <2>1 DEF TypeInv, LocalsOK
  <2>3. IsExpired(Departure(p)) => Over(p)
    <3>1. now \in Nat /\ earliest[p] \in Nat /\ Departure(p) \in Nat
      BY DepartureType DEF TypeInv, ClockOK
    <3>2. earliest[p] <= Departure(p)
      BY <2>1 DEF Inv, EarliestOK
    <3>3. QED
      BY <3>1, <3>2 DEF IsExpired, Over
  <2>4. QED
    BY <2>1, <2>2, <2>3, StepKeepsInv
<1>5. CASE ExpireAnswer(r)
  <2>1. /\ at[r] \in Prompts /\ status[at[r]] # "none" /\ Over(at[r])
        /\ SetStatus(at[r], "EXPIRED") /\ Finish(r)
        /\ UNCHANGED <<now, departAt, earliest, response>>
    BY <1>5 DEF ExpireAnswer, TypeInv, LocalsOK, Exist, Marking, Inv, ExpiryJustified, clock
  <2>2. \A q \in Prompts : status'[q] = IF q = at[r] THEN "EXPIRED" ELSE status[q]
    BY <2>1 DEF SetStatus, TypeInv, RowsOK
  <2>3. QED
    BY <2>1, <2>2, FinishMoves, StepKeepsInv
<1>6. CASE CommitAnswer(r)
  <2>1. PICK willGo \in BOOLEAN : response' = [response EXCEPT ![at[r]] = willGo]
    BY <1>6 DEF CommitAnswer
  <2>2. /\ at[r] \in Prompts /\ status[at[r]] # "none"
        /\ SetStatus(at[r], "ANSWERED") /\ Finish(r)
        /\ UNCHANGED <<now, departAt, earliest>>
    BY <1>6 DEF CommitAnswer, TypeInv, LocalsOK, Exist, Marking, clock
  <2>3. \A q \in Prompts : status'[q] = IF q = at[r] THEN "ANSWERED" ELSE status[q]
    BY <2>2 DEF SetStatus, TypeInv, RowsOK
  <2>4. /\ \A q \in Prompts : q # at[r] => response'[q] = response[q]
        /\ response'[at[r]] # None
    BY <2>1, <2>2, NoneNotBoolean DEF TypeInv, RowsOK
  <2>5. QED
    BY <2>2, <2>3, <2>4, FinishMoves, StepKeepsInv
<1>7. QED
  BY <1>1, <1>2, <1>3, <1>4, <1>5, <1>6 DEF RequestStep

(* Crashes and errors end a call, or send a worker to mark its prompt failed. *)
LEMMA FaultKeepsInv ==
  ASSUME TypeInv, Inv,
         \/ \E w \in Workers : CallFails(w)
         \/ \E x \in Procs : Crash(x)
  PROVE  Inv'
<1>1. CASE \E x \in Procs : Crash(x)
  BY <1>1, FinishKeepsInv DEF Crash
<1>2. ASSUME NEW w \in Workers, CallFails(w)
      PROVE  Inv'
  <2>1. PICK location \in {"fail", "threw"} : Goto(w, location)
    BY <1>2 DEF CallFails
  <2>2. w \in Procs /\ UNCHANGED <<now, departAt, earliest, status, response, at, list, seen>>
    BY <1>2 DEF CallFails, rows, clock, Procs
  <2>3. QED
    BY <2>1, <2>2, MoveKeepsInv DEF Locations
<1>3. QED
  BY <1>1, <1>2

(* A departure that is moved sooner takes what is remembered along, and one    *)
(* that is moved later does not.                                              *)
LEMMA RescheduleEarliest ==
  ASSUME TypeInv, Inv, NEW s \in Schedules, NEW t \in Timetables, Reschedule(s, t)
  PROVE  /\ earliest' \in [Prompts -> Nat] /\ EarliestOK'
         /\ \A p \in Prompts : earliest'[p] <= earliest[p]
<1>1. /\ departAt \in [Schedules -> Nat] /\ earliest \in [Prompts -> Nat]
      /\ t.departure \in Nat
  BY TimesAssumption DEF TypeInv, ClockOK
<1>2. \A p \in Prompts :
        earliest'[p] = IF ScheduleOf[p] = s /\ t.departure < earliest[p]
                         THEN t.departure ELSE earliest[p]
  BY DEF Reschedule
<1>3. earliest' \in [Prompts -> Nat]
  BY <1>1 DEF Reschedule
<1>4. \A p \in Prompts : Departure(p)' = IF ScheduleOf[p] = s THEN t.departure ELSE Departure(p)
  BY <1>1 DEF Reschedule, Departure, Schedules
<1>5. status' = status
  BY DEF Reschedule, rows
<1>6. \A p \in Prompts : Departure(p) \in Nat
  BY DepartureType DEF TypeInv
<1>7. EarliestOK'
  BY <1>1, <1>2, <1>4, <1>5, <1>6 DEF Inv, EarliestOK
<1>8. QED
  BY <1>1, <1>2, <1>3, <1>7

-----------------------------------------------------------------------------
LEMMA PromptInvariant == Spec => [](TypeInv /\ Inv)
<1>1. TypeInv /\ Inv /\ [Next]_vars => (TypeInv /\ Inv)'
  <2> SUFFICES ASSUME TypeInv, TypeInv', Inv, [Next]_vars PROVE Inv'
    BY NextKeepsTypes
  <2>1. now \in Nat /\ earliest \in [Prompts -> Nat]
    BY DEF TypeInv, ClockOK
  <2>2. ASSUME NEW s \in Schedules, NEW t \in Timetables, Reschedule(s, t)
        PROVE  Inv'
    <3>1. now' \in Nat /\ now' >= now /\ UNCHANGED <<status, response, local>>
      BY <2>1, <2>2 DEF Reschedule, rows
    <3>2. QED
      BY <2>2, <3>1, RescheduleEarliest, OutsideKeepsInv
  <2>3. CASE \/ Tick
             \/ \E p \in Prompts : RecoverJob(p) \/ RemoveJob(p) \/ StallJob(p) \/ Confirm(p)
             \/ UNCHANGED vars
    <3>1. now' \in Nat /\ now' >= now /\ UNCHANGED <<departAt, earliest, status, response, local>>
      BY <2>1, <2>3 DEF Tick, RecoverJob, RemoveJob, StallJob, Confirm, vars, rows, clock
    <3>2. EarliestOK' /\ \A p \in Prompts : earliest'[p] <= earliest[p]
      BY <2>1, <3>1 DEF Inv, EarliestOK, Departure
    <3>3. QED
      BY <2>1, <3>1, <3>2, OutsideKeepsInv
  <2>4. CASE Next
    BY <2>2, <2>3, <2>4, CronKeepsInv, WorkerKeepsInv, StudentKeepsInv, FaultKeepsInv
       DEF Next, Student, Fault
  <2>5. QED
    BY <2>3, <2>4
<1>2. QED
  BY TypeInvInit, InvInit, <1>1, PTL DEF Spec

(* An unanswered prompt stays open until the earliest departure its schedule   *)
(* has had since the prompt exists, in every instance.                         *)
THEOREM StaysOpen == Spec => []OpenUntilOver
<1>1. TypeInv /\ Inv => OpenUntilOver
  <2> SUFFICES ASSUME TypeInv, Inv, NEW p \in Prompts, status[p] # "none", response[p] = None,
                      now <= earliest[p]
               PROVE  status[p] \in Open
    BY DEF OpenUntilOver
  <2>1. now \in Nat /\ earliest[p] \in Nat
    BY DEF TypeInv, ClockOK
  <2>2. ~Over(p)
    BY <2>1 DEF Over
  <2>3. status[p] \in Statuses \ {"none", "ANSWERED", "EXPIRED"}
    BY <2>2 DEF TypeInv, RowsOK, Inv, RowsJustified
  <2>4. QED
    BY <2>3 DEF Statuses, Open
<1>2. QED
  BY PromptInvariant, <1>1, PTL
-----------------------------------------------------------------------------
(* One push.  While nothing fails, the slot that works on a prompt is the one  *)
(* that holds its job, so no two slots are on one prompt; and what was pushed  *)
(* is marked before its job is let go, so the next slot that reads it stops.   *)
Settled == {"DISPATCHED", "ANSWERED", "EXPIRED"}

NoFailure ==
  /\ \A x \in Procs : pc[x] \notin {"fail", "threw", "reset"}
  /\ \A w \in Workers : pc[w] \in {"idle", "read", "expire", "push", "pushed", "returned"}
  /\ \A p \in Prompts : status[p] # "FAILED"

SlotHoldsJob ==
  \A w \in Workers :
    pc[w] # "idle" => /\ at[w] \in Prompts
                      /\ job[at[w]].state = "active" /\ job[at[w]].owner = w

JobHasSlot ==
  \A p \in Prompts :
    job[p].state = "active" => /\ job[p].owner \in Workers /\ at[job[p].owner] = p
                               /\ pc[job[p].owner] # "idle"

PushIsMarked ==
  \A p \in Prompts :
    pushes[p] # 0 => \/ status[p] \in Settled
                     \/ \E w \in Workers : pc[w] = "pushed" /\ at[w] = p

PushIsNew ==
  /\ \A p \in Prompts : pushes[p] <= 1
  /\ \A w \in Workers : pc[w] = "push" => pushes[at[w]] = 0

Calm == NoFailure /\ SlotHoldsJob /\ JobHasSlot /\ PushIsMarked /\ PushIsNew
OnceInv == TypeInv /\ (faults = 0 => Calm)

(* The cron and the requests leave the slots alone, only enqueue what has no   *)
(* job, and only make a prompt PENDING when they create it.                    *)
LEMMA OthersKeepCalm ==
  ASSUME TypeInv, Calm, NEW x \in CronRuns \cup Requests, pushes' = pushes,
         \A y \in Procs \ {x} : pc'[y] = pc[y] /\ at'[y] = at[y],
         pc'[x] \notin {"fail", "threw", "reset"},
         \A p \in Prompts : \/ status'[p] = status[p]
                            \/ status'[p] \in Settled
                            \/ status[p] = "none" /\ status'[p] = "PENDING",
         \A p \in Prompts : \/ job'[p] = job[p]
                            \/ job[p].state = "none" /\ job'[p].state = "waiting"
  PROVE  Calm'
<1> USE DEF Calm
<1>1. \A w \in Workers : w \in Procs /\ w # x
  BY ProcsAssumption DEF Procs
<1>2. \A w \in Workers : pc'[w] = pc[w] /\ at'[w] = at[w]
  BY <1>1
<1>3. NoFailure'
  BY <1>2 DEF NoFailure, Settled
<1>4. SlotHoldsJob'
  BY <1>2 DEF SlotHoldsJob
<1>5. JobHasSlot'
  BY <1>2 DEF JobHasSlot
<1>6. PushIsMarked'
  BY <1>2 DEF PushIsMarked, Settled
<1>7. PushIsNew'
  BY <1>2 DEF PushIsNew
<1>8. QED
  BY <1>3, <1>4, <1>5, <1>6, <1>7

LEMMA OutsideKeepsCalm ==
  ASSUME Calm, UNCHANGED <<status, local, pushes>>,
         \A p \in Prompts : \/ job'[p] = job[p]
                            \/ job[p].state # "active" /\ job'[p].state # "active"
  PROVE  Calm'
BY DEF Calm, NoFailure, SlotHoldsJob, JobHasSlot, PushIsMarked, PushIsNew, local

LEMMA CronKeepsCalm ==
  ASSUME TypeInv, Calm, NEW c \in CronRuns, StartRun(c) \/ CronStep(c)
  PROVE  Calm'
<1> c \in Procs /\ c \in CronRuns \cup Requests
  BY DEF Procs
<1>1. pushes' = pushes
  BY DEF StartRun, CronStep, NextStudent, EndRun, FindPrompt, CreatePrompt, CreateRefused,
         ResetPrompt, EnqueuePrompt
<1>2. pc[c] # "reset" /\ \A p \in Prompts : status[p] # "FAILED"
  BY DEF Calm, NoFailure
<1>3. pc[c] \notin {"idle", "each", "fetch"} => at[c] \in Prompts
  BY DEF TypeInv, LocalsOK
<1>4. \E location \in {"idle", "each", "find", "create", "enqueue"} : Goto(c, location)
  BY <1>2, <1>3 DEF StartRun, CronStep, NextStudent, EndRun, FindPrompt, CreatePrompt,
     CreateRefused, ResetPrompt, EnqueuePrompt, Finish
<1>5. \A y \in Procs \ {c} : at'[y] = at[y]
  BY DEF StartRun, CronStep, NextStudent, EndRun, FindPrompt, CreatePrompt, CreateRefused,
         ResetPrompt, EnqueuePrompt, Finish, TypeInv, LocalsOK
<1>6. \A p \in Prompts : \/ status'[p] = status[p]
                         \/ status[p] = "none" /\ status'[p] = "PENDING"
  BY <1>2 DEF StartRun, CronStep, NextStudent, EndRun, FindPrompt, CreatePrompt, CreateRefused,
     ResetPrompt, EnqueuePrompt, rows, SetStatus, TypeInv, RowsOK
<1>7. \A p \in Prompts : \/ job'[p] = job[p]
                         \/ job[p].state = "none" /\ job'[p].state = "waiting"
  BY DEF StartRun, CronStep, NextStudent, EndRun, FindPrompt, CreatePrompt, CreateRefused,
         ResetPrompt, EnqueuePrompt, Added, JobIn, TypeInv, QueueOK
<1>8. \A y \in Procs : y # c => pc'[y] = pc[y]
  BY <1>4 DEF Goto, TypeInv, LocalsOK
<1>9. pc'[c] \notin {"fail", "threw", "reset"}
  BY <1>4 DEF Goto, TypeInv, LocalsOK
<1>10. QED
  BY <1>1, <1>5, <1>6, <1>7, <1>8, <1>9, OthersKeepCalm

LEMMA StudentKeepsCalm ==
  ASSUME TypeInv, Calm, NEW r \in Requests,
         \/ RequestStep(r)
         \/ \E u \in Users : StartFetch(r, u)
         \/ \E p \in Prompts : StartAnswer(r, p)
  PROVE  Calm'
<1> r \in Procs /\ r \in CronRuns \cup Requests
  BY DEF Procs
<1>1. pushes' = pushes /\ job' = job
  BY DEF RequestStep, FetchNext, EndFetch, ExpireAnswer, CommitAnswer, StartFetch, StartAnswer
<1>2. \A y \in Procs \ {r} : pc'[y] = pc[y] /\ at'[y] = at[y]
  BY DEF RequestStep, FetchNext, EndFetch, ExpireAnswer, CommitAnswer, StartFetch, StartAnswer,
         Finish, Goto, TypeInv, LocalsOK
<1>3. pc'[r] \in {"idle", "fetch", "answer", "expireAnswer"}
  BY DEF RequestStep, FetchNext, EndFetch, ExpireAnswer, CommitAnswer, StartFetch, StartAnswer,
         Finish, Goto, TypeInv, LocalsOK
<1>4. \A p \in Prompts : status'[p] = status[p] \/ status'[p] \in Settled
  BY DEF RequestStep, FetchNext, EndFetch, ExpireAnswer, CommitAnswer, StartFetch, StartAnswer,
         SetStatus, rows, Settled, TypeInv, RowsOK
<1>5. QED
  BY <1>1, <1>2, <1>3, <1>4, OthersKeepCalm

(* What one slot does to its own prompt leaves the other slots on theirs.      *)
LEMMA SlotsApart ==
  ASSUME Calm, NEW v \in Workers, NEW w \in Workers, v # w, pc[v] # "idle", pc[w] # "idle"
  PROVE  at[v] # at[w]
BY DEF Calm, SlotHoldsJob

LEMMA WorkerKeepsCalm ==
  ASSUME TypeInv, Calm, NEW w \in Workers, WorkerStep(w)
  PROVE  Calm'
<1> w \in Procs /\ \A v \in Workers : v \in Procs
  BY DEF Procs
<1> USE DEF Calm
<1>1. CASE TakeJob(w)
  <2>1. PICK p \in Prompts :
          /\ pc[w] = "idle" /\ job[p].state = "waiting"
          /\ job' = [job EXCEPT ![p] = Taken(@, w)]
          /\ at' = [at EXCEPT ![w] = p] /\ Goto(w, "read")
          /\ status' = status /\ pushes' = pushes
    BY <1>1 DEF TakeJob, rows
  <2>2. /\ \A x \in Procs : /\ pc'[x] = IF x = w THEN "read" ELSE pc[x]
                            /\ at'[x] = IF x = w THEN p ELSE at[x]
        /\ \A q \in Prompts : q # p => job'[q] = job[q]
        /\ job'[p].state = "active" /\ job'[p].owner = w
    BY <2>1 DEF Goto, Taken, JobIn, TypeInv, LocalsOK, QueueOK
  <2>3. NoFailure'
    BY <2>1, <2>2 DEF NoFailure
  <2>4. SlotHoldsJob'
    <3>1. \A v \in Workers \ {w} : pc[v] # "idle" => at[v] # p
      BY <2>1 DEF SlotHoldsJob
    <3>2. QED
      BY <2>2, <3>1 DEF SlotHoldsJob
  <2>5. JobHasSlot'
    BY <2>1, <2>2 DEF JobHasSlot
  <2>6. PushIsMarked'
    BY <2>1, <2>2 DEF PushIsMarked
  <2>7. PushIsNew'
    BY <2>1, <2>2 DEF PushIsNew
  <2>8. QED
    BY <2>3, <2>4, <2>5, <2>6, <2>7
<1>2. CASE CompleteJob(w) \/ FailJob(w)
  <2>1. /\ pc[w] = "returned" /\ at[w] \in Prompts /\ Finish(w)
        /\ job' = [job EXCEPT ![at[w]] = Completed(@)]
        /\ status' = status /\ pushes' = pushes
    BY <1>2 DEF CompleteJob, FailJob, SettleJob, NoFailure, SlotHoldsJob, rows
  <2>2. /\ \A x \in Procs : /\ pc'[x] = IF x = w THEN "idle" ELSE pc[x]
                            /\ x # w => at'[x] = at[x]
        /\ \A q \in Prompts : q # at[w] => job'[q] = job[q]
        /\ job'[at[w]].state = "completed"
    BY <2>1 DEF Finish, Goto, Completed, JobIn, TypeInv, LocalsOK, QueueOK
  <2>3. NoFailure'
    BY <2>1, <2>2 DEF NoFailure
  <2>4. SlotHoldsJob'
    <3>1. \A v \in Workers \ {w} : pc[v] # "idle" => at[v] # at[w]
      BY <2>1, SlotsApart
    <3>2. QED
      BY <2>2, <3>1 DEF SlotHoldsJob
  <2>5. JobHasSlot'
    <3>1. \A q \in Prompts : q # at[w] /\ job[q].state = "active" => job[q].owner # w
      BY DEF JobHasSlot
    <3>2. QED
      BY <2>2, <3>1 DEF JobHasSlot
  <2>6. PushIsMarked'
    BY <2>1, <2>2 DEF PushIsMarked
  <2>7. PushIsNew'
    BY <2>1, <2>2 DEF PushIsNew
  <2>8. QED
    BY <2>3, <2>4, <2>5, <2>6, <2>7
<1>3. CASE ReadPrompt(w)
  <2>1. PICK location \in {"returned", "expire", "push"} :
          /\ Goto(w, location)
          /\ location = "push" => status[at[w]] \in {"PENDING", "FAILED"}
    BY <1>3 DEF ReadPrompt
  <2>2. /\ pc[w] = "read" /\ UNCHANGED <<status, job, at, pushes>>
    BY <1>3 DEF ReadPrompt, rows
  <2>3. \A x \in Procs : pc'[x] = IF x = w THEN location ELSE pc[x]
    BY <2>1 DEF Goto, TypeInv, LocalsOK
  <2>4. NoFailure' /\ SlotHoldsJob' /\ JobHasSlot'
    BY <2>2, <2>3 DEF NoFailure, SlotHoldsJob, JobHasSlot
  <2>5. PushIsMarked'
    BY <2>2, <2>3 DEF PushIsMarked
  <2>6. location = "push" => pushes[at[w]] = 0
    <3>1. at[w] \in Prompts /\ \A v \in Workers : pc[v] = "pushed" => at[v] # at[w]
      BY <2>2, SlotsApart DEF SlotHoldsJob
    <3>2. QED
      BY <2>1, <3>1 DEF PushIsMarked, Settled
  <2>7. PushIsNew'
    BY <2>2, <2>3, <2>6 DEF PushIsNew
  <2>8. QED
    BY <2>4, <2>5, <2>7
<1>4. CASE ExpirePrompt(w) \/ MarkDispatched(w) \/ MarkFailed(w)
  <2>1. /\ at[w] \in Prompts /\ pc[w] # "idle" /\ Goto(w, "returned")
        /\ UNCHANGED <<job, at, pushes>>
        /\ \E s \in Settled : SetStatus(at[w], s)
    BY <1>4 DEF ExpirePrompt, MarkDispatched, MarkFailed, NoFailure, SlotHoldsJob, Settled
  <2>2. /\ \A x \in Procs : pc'[x] = IF x = w THEN "returned" ELSE pc[x]
        /\ \A q \in Prompts : q # at[w] => status'[q] = status[q]
        /\ status'[at[w]] \in Settled
    BY <2>1 DEF Goto, SetStatus, TypeInv, LocalsOK, RowsOK
  <2>3. NoFailure' /\ SlotHoldsJob' /\ JobHasSlot'
    BY <2>1, <2>2 DEF NoFailure, SlotHoldsJob, JobHasSlot, Settled
  <2>4. PushIsMarked'
    BY <2>1, <2>2 DEF PushIsMarked
  <2>5. PushIsNew'
    BY <2>1, <2>2 DEF PushIsNew
  <2>6. QED
    BY <2>3, <2>4, <2>5
<1>5. CASE Push(w)
  <2>1. /\ at[w] \in Prompts /\ pc[w] = "push" /\ Goto(w, "pushed")
        /\ UNCHANGED <<status, job, at>> /\ pushes[at[w]] = 0
    BY <1>5 DEF Push, SlotHoldsJob, PushIsNew, rows
  <2>2. /\ \A x \in Procs : pc'[x] = IF x = w THEN "pushed" ELSE pc[x]
        /\ \A q \in Prompts : q # at[w] => pushes'[q] = pushes[q]
        /\ pushes'[at[w]] \in {0, 1}
    BY <1>5, <2>1 DEF Push, Goto, TypeInv, LocalsOK, QueueOK
  <2>3. NoFailure' /\ SlotHoldsJob' /\ JobHasSlot'
    BY <2>1, <2>2 DEF NoFailure, SlotHoldsJob, JobHasSlot
  <2>4. PushIsMarked'
    BY <2>1, <2>2 DEF PushIsMarked
  <2>5. PushIsNew'
    <3>1. \A v \in Workers \ {w} : pc[v] = "push" => at[v] # at[w] /\ at[v] \in Prompts
      BY <2>1, SlotsApart DEF SlotHoldsJob
    <3>2. QED
      BY <2>1, <2>2, <3>1 DEF PushIsNew
  <2>6. QED
    BY <2>3, <2>4, <2>5
<1>6. QED
  BY <1>1, <1>2, <1>3, <1>4, <1>5 DEF WorkerStep

LEMMA OnceInit == Init => OnceInv
BY TypeInvInit
   DEF Init, OnceInv, Calm, NoFailure, SlotHoldsJob, JobHasSlot, PushIsMarked, PushIsNew, Procs,
       Nothing, NoJob, JobIn

LEMMA OnceNext == OnceInv /\ [Next]_vars => OnceInv'
<1> SUFFICES ASSUME TypeInv, faults = 0 => Calm, [Next]_vars PROVE (faults = 0 => Calm)'
  BY NextKeepsTypes DEF OnceInv
<1>1. faults \in Nat
  BY DEF TypeInv, QueueOK
<1>2. CASE Fault
  <2>1. faults' = faults + 1
    BY <1>2 DEF Fault, CallFails, Crash, StallJob
  <2>2. QED
    BY <1>1, <2>1
<1>3. ASSUME NEW c \in CronRuns, StartRun(c) \/ CronStep(c)
      PROVE  (faults = 0 => Calm)'
  <2>1. faults' = faults
    BY <1>3 DEF StartRun, CronStep, NextStudent, EndRun, FindPrompt, CreatePrompt, CreateRefused,
       ResetPrompt, EnqueuePrompt
  <2>2. QED
    BY <1>3, <2>1, CronKeepsCalm
<1>4. ASSUME NEW w \in Workers, WorkerStep(w)
      PROVE  (faults = 0 => Calm)'
  <2>1. faults' = faults
    BY <1>4 DEF WorkerStep, TakeJob, CompleteJob, FailJob, SettleJob, ReadPrompt, ExpirePrompt, Push,
       MarkDispatched, MarkFailed
  <2>2. QED
    BY <1>4, <2>1, WorkerKeepsCalm
<1>5. ASSUME NEW r \in Requests,
             \/ RequestStep(r)
             \/ \E u \in Users : StartFetch(r, u)
             \/ \E p \in Prompts : StartAnswer(r, p)
      PROVE  (faults = 0 => Calm)'
  <2>1. faults' = faults
    BY <1>5 DEF RequestStep, FetchNext, EndFetch, ExpireAnswer, CommitAnswer, StartFetch, StartAnswer
  <2>2. QED
    BY <1>5, <2>1, StudentKeepsCalm
<1>6. CASE \/ Tick
           \/ \E s \in Schedules, t \in Timetables : Reschedule(s, t)
           \/ \E p \in Prompts : Confirm(p)
           \/ UNCHANGED vars
  <2>1. UNCHANGED <<status, local, pushes, job, faults>>
    BY <1>6 DEF Tick, Reschedule, Confirm, vars, rows
  <2>2. QED
    BY <2>1, OutsideKeepsCalm
<1>7. ASSUME NEW p \in Prompts, RecoverJob(p)
      PROVE  (faults = 0 => Calm)'
  <2>1. ~Calm /\ faults' = faults
    BY <1>7 DEF RecoverJob, Calm, JobHasSlot
  <2>2. QED
    BY <2>1
<1>8. ASSUME NEW p \in Prompts, RemoveJob(p)
      PROVE  (faults = 0 => Calm)'
  <2>1. UNCHANGED <<status, local, pushes, faults>>
    BY <1>8 DEF RemoveJob, rows
  <2>2. \A q \in Prompts : \/ job'[q] = job[q]
                           \/ job[q].state # "active" /\ job'[q].state # "active"
    BY <1>8 DEF RemoveJob, NoJob, JobIn, TypeInv, QueueOK
  <2>3. QED
    BY <2>1, <2>2, OutsideKeepsCalm
<1>9. QED
  BY <1>2, <1>3, <1>4, <1>5, <1>6, <1>7, <1>8 DEF Next, Student

(* When nothing fails a student is pushed a prompt at most once, however many  *)
(* slots, runs and students act and however often its notice is rescheduled.   *)
THEOREM PromptPushedOnce == Spec => []PushedOnce
<1>1. OnceInv => PushedOnce
  BY DEF OnceInv, Calm, PushIsNew, PushedOnce
<1>2. QED
  BY OnceInit, OnceNext, <1>1, PTL DEF Spec
-----------------------------------------------------------------------------
(* What the pipeline promises.  A statement that writes the status of a prompt *)
(* that exists offers it, or withdraws it.                                    *)
LEMMA MarkedOpen ==
  ASSUME TypeInv, NEW p \in Prompts, status[p] # "none", NEW s \in Open, SetStatus(p, s),
         UNCHANGED <<now, earliest, response, confirmation>>
  PROVE  [Promise!Next]_(Promise!vars)
<1> DEFINE asked == {q \in Prompts : status[q] # "none"}
           offered == {q \in Prompts : status[q] \in Open}
<1>1. \A q \in Prompts : status'[q] = IF q = p THEN s ELSE status[q]
  BY DEF SetStatus, TypeInv, RowsOK
<1>2. s # "none"
  BY DEF Open
<1>3. asked' = asked /\ p \in asked /\ offered' = offered \cup {p}
  BY <1>1, <1>2
<1>4. CASE p \in offered
  BY <1>3, <1>4 DEF Promise!vars
<1>5. CASE p \notin offered
  BY <1>3, <1>5 DEF Promise!Next, Promise!OfferAgain
<1>6. QED
  BY <1>4, <1>5

LEMMA MarkedExpired ==
  ASSUME TypeInv, Inv, NEW p \in Prompts, status[p] # "none", SetStatus(p, "EXPIRED"), Over(p),
         UNCHANGED <<now, earliest, response, confirmation>>
  PROVE  [Promise!Next]_(Promise!vars)
<1> DEFINE asked == {q \in Prompts : status[q] # "none"}
           offered == {q \in Prompts : status[q] \in Open}
<1>1. \A q \in Prompts : status'[q] = IF q = p THEN "EXPIRED" ELSE status[q]
  BY DEF SetStatus, TypeInv, RowsOK
<1>2. asked' = asked /\ offered' = offered \ {p}
  BY <1>1 DEF Open
<1>3. now > earliest[p]
  BY DEF Over
<1>4. CASE p \in offered
  BY <1>2, <1>3, <1>4 DEF Promise!Next, Promise!Withdraw
<1>5. CASE p \notin offered
  BY <1>2, <1>5 DEF Promise!vars
<1>6. QED
  BY <1>4, <1>5

(* The rows of the prompts are left alone. *)
LEMMA Unmarked ==
  ASSUME UNCHANGED <<now, earliest, status, response, confirmation>>
  PROVE  UNCHANGED Promise!vars
BY DEF Promise!vars

LEMMA CronPromises ==
  ASSUME TypeInv, NEW c \in CronRuns, StartRun(c) \/ CronStep(c)
  PROVE  [Promise!Next]_(Promise!vars)
<1> DEFINE asked == {q \in Prompts : status[q] # "none"}
           offered == {q \in Prompts : status[q] \in Open}
<1>1. CASE \/ StartRun(c) \/ NextStudent(c) \/ EndRun(c) \/ FindPrompt(c)
           \/ CreateRefused(c) \/ EnqueuePrompt(c)
  BY <1>1, Unmarked
     DEF StartRun, NextStudent, EndRun, FindPrompt, CreateRefused, EnqueuePrompt, rows, clock
<1>2. CASE CreatePrompt(c)
  <2>1. /\ at[c] \in Prompts /\ status[at[c]] = "none"
        /\ UNCHANGED <<now, response, confirmation>>
        /\ SetStatus(at[c], "PENDING")
        /\ earliest' = [earliest EXCEPT ![at[c]] = Departure(at[c])]
    BY <1>2 DEF CreatePrompt, TypeInv, LocalsOK, Procs
  <2>2. \A q \in Prompts : status'[q] = IF q = at[c] THEN "PENDING" ELSE status[q]
    BY <2>1 DEF SetStatus, TypeInv, RowsOK
  <2>3. asked' = asked \cup {at[c]} /\ offered' = offered \cup {at[c]} /\ at[c] \notin asked
    BY <2>1, <2>2 DEF Open
  <2>4. /\ earliest'[at[c]] \in Nat
        /\ earliest' = [earliest EXCEPT ![at[c]] = earliest'[at[c]]]
    BY <2>1, DepartureType DEF TypeInv, ClockOK
  <2>5. QED
    BY <2>1, <2>3, <2>4 DEF Promise!Next, Promise!Ask
<1>3. CASE ResetPrompt(c)
  <2>1. /\ at[c] \in Prompts /\ status[at[c]] # "none"
        /\ UNCHANGED <<now, earliest, response, confirmation>> /\ SetStatus(at[c], "PENDING")
    BY <1>3 DEF ResetPrompt, TypeInv, LocalsOK, Exist, Marking, clock, Procs
  <2>2. QED
    BY <2>1, MarkedOpen DEF Open
<1>4. QED
  BY <1>1, <1>2, <1>3 DEF CronStep

LEMMA WorkerPromises ==
  ASSUME TypeInv, Inv, NEW w \in Workers, WorkerStep(w)
  PROVE  [Promise!Next]_(Promise!vars)
<1>1. CASE TakeJob(w) \/ CompleteJob(w) \/ FailJob(w) \/ ReadPrompt(w) \/ Push(w)
  BY <1>1, Unmarked DEF TakeJob, CompleteJob, FailJob, SettleJob, ReadPrompt, Push, rows, clock
<1>2. CASE ExpirePrompt(w)
  <2>1. /\ at[w] \in Prompts /\ status[at[w]] # "none" /\ Over(at[w])
        /\ UNCHANGED <<now, earliest, response, confirmation>> /\ SetStatus(at[w], "EXPIRED")
    BY <1>2 DEF ExpirePrompt, TypeInv, LocalsOK, Exist, Marking, Inv, ExpiryJustified, clock, Procs
  <2>2. QED
    BY <2>1, MarkedExpired
<1>3. CASE MarkDispatched(w) \/ MarkFailed(w)
  <2>1. PICK s \in {"DISPATCHED", "FAILED"} : SetStatus(at[w], s)
    BY <1>3 DEF MarkDispatched, MarkFailed
  <2>2. /\ at[w] \in Prompts /\ status[at[w]] # "none"
        /\ UNCHANGED <<now, earliest, response, confirmation>>
    BY <1>3 DEF MarkDispatched, MarkFailed, TypeInv, LocalsOK, Exist, Marking, clock, Procs
  <2>3. QED
    BY <2>1, <2>2, MarkedOpen DEF Open
<1>4. QED
  BY <1>1, <1>2, <1>3 DEF WorkerStep

LEMMA StudentPromises ==
  ASSUME TypeInv, Inv, Student \/ \E r \in Requests : RequestStep(r)
  PROVE  [Promise!Next]_(Promise!vars)
<1> DEFINE asked == {q \in Prompts : status[q] # "none"}
           offered == {q \in Prompts : status[q] \in Open}
<1>1. ASSUME NEW r \in Requests,
             \/ EndFetch(r)
             \/ \E u \in Users : StartFetch(r, u)
             \/ \E p \in Prompts : StartAnswer(r, p)
      PROVE  UNCHANGED Promise!vars
  BY <1>1, Unmarked DEF EndFetch, StartFetch, StartAnswer, rows, clock
<1>2. ASSUME NEW r \in Requests, FetchNext(r)
      PROVE  [Promise!Next]_(Promise!vars)
  <2>1. PICK p \in list[r] :
          \/ IsExpired(seen[r][p].departure) /\ SetStatus(p, "EXPIRED")
          \/ status' = status
          \/ SetStatus(p, "DISPATCHED")
    BY <1>2 DEF FetchNext, SetStatus
  <2>2. /\ p \in Prompts /\ status[p] # "none"
        /\ UNCHANGED <<now, earliest, response, confirmation>>
    BY <1>2 DEF FetchNext, TypeInv, LocalsOK, Exist, clock, Procs
  <2>3. IsExpired(seen[r][p].departure) => Over(p)
    <3>1. now \in Nat /\ earliest[p] \in Nat /\ seen[r][p].departure \in Nat
      BY <2>2 DEF TypeInv, ClockOK, LocalsOK, Procs
    <3>2. earliest[p] <= seen[r][p].departure
      BY <1>2, <2>1 DEF FetchNext, Inv, ExpiryJustified, Procs
    <3>3. QED
      BY <3>1, <3>2 DEF IsExpired, Over
  <2>4. QED
    BY <2>1, <2>2, <2>3, MarkedExpired, MarkedOpen, Unmarked DEF Open
<1>3. ASSUME NEW r \in Requests, ExpireAnswer(r)
      PROVE  [Promise!Next]_(Promise!vars)
  <2>1. /\ at[r] \in Prompts /\ status[at[r]] # "none" /\ Over(at[r])
        /\ UNCHANGED <<now, earliest, response, confirmation>> /\ SetStatus(at[r], "EXPIRED")
    BY <1>3 DEF ExpireAnswer, TypeInv, LocalsOK, Exist, Marking, Inv, ExpiryJustified, clock, Procs
  <2>2. QED
    BY <2>1, MarkedExpired
<1>4. ASSUME NEW r \in Requests, CommitAnswer(r)
      PROVE  Promise!Next
  <2>1. /\ at[r] \in Prompts /\ status[at[r]] # "none" /\ UNCHANGED <<now, earliest>>
        /\ SetStatus(at[r], "ANSWERED")
    BY <1>4 DEF CommitAnswer, TypeInv, LocalsOK, Exist, Marking, clock, Procs
  <2>2. \E willGo \in BOOLEAN :
          /\ response' = [response EXCEPT ![at[r]] = willGo]
          /\ confirmation' = [confirmation EXCEPT ![at[r]] = willGo]
    BY <1>4 DEF CommitAnswer
  <2>3. \A q \in Prompts : status'[q] = IF q = at[r] THEN "ANSWERED" ELSE status[q]
    BY <2>1 DEF SetStatus, TypeInv, RowsOK
  <2>4. asked' = asked /\ offered' = offered \ {at[r]} /\ at[r] \in asked
    BY <2>1, <2>3 DEF Open
  <2>5. QED
    BY <2>1, <2>2, <2>4 DEF Promise!Next, Promise!Answer
<1>5. ASSUME NEW p \in Prompts, Confirm(p)
      PROVE  Promise!Next
  <2>1. /\ \E willGo \in BOOLEAN : confirmation' = [confirmation EXCEPT ![p] = willGo]
        /\ UNCHANGED <<now, earliest, status, response>>
    BY <1>5 DEF Confirm, clock
  <2>2. asked' = asked /\ offered' = offered
    BY <2>1
  <2>3. QED
    BY <2>1, <2>2 DEF Promise!Next, Promise!Confirm
<1>6. QED
  BY <1>1, <1>2, <1>3, <1>4, <1>5 DEF Student, RequestStep

(* The pipeline implements the promise, in every instance: whatever cron runs,  *)
(* workers and requests interleave, whatever crashes, stalls or fails, and      *)
(* however departures are moved, each step is one step of one prompt of the    *)
(* student, a departure moved sooner, or none; and a prompt is withdrawn only  *)
(* after the earliest departure it has had.                                    *)
THEOREM ImplementsPromise == Spec => PromiseSpec
<1>1. Init => Promise!Init
  BY DEF Init, Promise!Init, Nothing, Open
<1>2. TypeInv /\ Inv /\ [Next]_vars => [Promise!Next]_(Promise!vars)
  <2> SUFFICES ASSUME TypeInv, Inv, [Next]_vars
               PROVE  [Promise!Next]_(Promise!vars)
    OBVIOUS
  <2>1. CASE Tick
    <3>1. now' = now + 1 /\ UNCHANGED <<earliest, status, response, confirmation>>
      BY <2>1 DEF Tick, rows
    <3>2. QED
      BY <3>1 DEF Promise!Next, Promise!Pass
  <2>2. ASSUME NEW s \in Schedules, NEW t \in Timetables, Reschedule(s, t)
        PROVE  Promise!Next
    <3>1. UNCHANGED <<now, status, response, confirmation>>
      BY <2>2 DEF Reschedule, rows
    <3>2. QED
      BY <2>2, <3>1, RescheduleEarliest DEF Promise!Next, Promise!Advance
  <2>3. CASE \/ \E p \in Prompts : RecoverJob(p) \/ RemoveJob(p)
             \/ Fault
             \/ UNCHANGED vars
    BY <2>3, Unmarked DEF RecoverJob, RemoveJob, Fault, CallFails, Crash, StallJob,
                          vars, rows, clock
  <2>4. QED
    BY <2>1, <2>2, <2>3, CronPromises, WorkerPromises, StudentPromises DEF Next
<1>3. QED
  BY <1>1, <1>2, PromptInvariant, PTL
     DEF Spec, PromiseSpec, Promise!Spec
=============================================================================
