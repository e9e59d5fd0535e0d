------------------------------ MODULE QueuedJob ------------------------------
(***************************************************************************)
(* One BullMQ job as this code uses it: it is added under an id of its     *)
(* own, has a number of attempts, and stays in Redis for a while after it  *)
(* is over (queue/queue.service.ts).  BullMQ is a library: its part is     *)
(* modelled from that use.                                                 *)
(***************************************************************************)
EXTENDS Naturals, Null

JobStates == {"none", "waiting", "active", "completed", "failed"}
Job(owners) == [state : JobStates, runs : Nat, stalls : Nat, owner : owners \cup {None}]

JobIn(state, runs, stalls, owner) ==
  [state |-> state, runs |-> runs, stalls |-> stalls, owner |-> owner]
NoJob == JobIn("none", 0, 0, None)

(* add is a no-op while a job with the id exists, finished or not. *)
Added(j) == IF j.state # "none" THEN j ELSE JobIn("waiting", 0, 0, None)

Taken(j, worker) == JobIn("active", j.runs, j.stalls, worker)

Completed(j) == JobIn("completed", j.runs, j.stalls, None)

(* One attempt is used up; the backoff only delays the next. *)
Failed(j, attempts) ==
  JobIn(IF j.runs + 1 < attempts THEN "waiting" ELSE "failed", j.runs + 1, j.stalls, None)

(* The lock of an active job lapsed: once it is retried, then it fails. *)
Stalled(j) ==
  JobIn(IF j.stalls = 0 THEN "waiting" ELSE "failed", j.runs, j.stalls + 1, None)
=============================================================================
