------------------------------ MODULE JobQueue ------------------------------
(***************************************************************************)
(* The jobs table of PostgreSQL and every statement that changes a row of  *)
(* it: the API's submit, cancel and DLQ retry (apps/api) and the worker    *)
(* process's claim loop, executor, lease heartbeat and stale-lease sweep   *)
(* (apps/worker).                                                          *)
(*                                                                         *)
(* One SQL statement is one step, except the claim: its SELECT ... FOR     *)
(* UPDATE SKIP LOCKED holds a row lock that other statements meet, so the  *)
(* lock and the commit are two steps.  Everything the worker awaits is a   *)
(* step boundary.  A process that restarts draws a new random workerId     *)
(* (worker.ts:11), so a worker here is one incarnation of a process.       *)
(*                                                                         *)
(* Time is not counted.  A lease is "live" or "lapsed"; Lapse lets one run *)
(* out when nobody renews it, Stall when somebody should have (a process   *)
(* or a network that pauses for more than 30 s).  scheduled_at is "due" or *)
(* in the "future".  Metrics, the delivery of pg_notify and the caches are *)
(* left out: here a notification is a database call that may fail.         *)
(***************************************************************************)
EXTENDS Integers, FiniteSets

CONSTANTS
  Jobs,         \* row ids of the jobs table
  Tenants,      \* row ids of the tenants table
  Workers,      \* incarnations of worker processes (workerId)
  TenantOf,     \* jobs.tenant_id
  Priority,     \* jobs.priority
  MaxAttempts,  \* jobs.max_attempts
  Quota,        \* tenants.max_concurrent_jobs
  Concurrency,  \* WORKER_CONCURRENCY
  MaxFaults,    \* bound: database calls of workers that fail
  MaxStalls,    \* bound: leases that lapse although their holder lives
  MaxRetries,   \* bound: DLQ retries
  NoWorker,     \* NULL in jobs.worker_id
  NoJob         \* claimJob's null

ASSUME JobsFinite == IsFiniteSet(Jobs) /\ NoJob \notin Jobs
ASSUME WorkersFinite == IsFiniteSet(Workers) /\ NoWorker \notin Workers
ASSUME ColumnTypes ==
  /\ TenantOf \in [Jobs -> Tenants]
  /\ Priority \in [Jobs -> Int]
  /\ MaxAttempts \in [Jobs -> Int]
  /\ Quota \in [Tenants -> Int]
ASSUME BoundTypes ==
  /\ Concurrency \in Nat
  /\ MaxFaults \in Nat
  /\ MaxStalls \in Nat
  /\ MaxRetries \in Nat

VARIABLES
  row,     \* row[j]: the columns of job j that anything reads
  claims,  \* claims[j]: how often j was claimed, so that claims have names
  life,    \* life[w]: the state of process w
  poll,    \* poll[w]: where runWorkerLoop of w is
  execs,   \* the calls of executeJob in flight
  leaked,  \* leaked[w]: jobs with a heartbeat timer nobody will ever clear
  spent    \* how much of each bound is used up

vars == <<row, claims, life, poll, execs, leaked, spent>>

Statuses == {"pending", "running", "completed", "failed", "dead_letter"}

Rows == [status : Statuses \cup {"absent"}, attempts : Nat,
         worker : Workers \cup {NoWorker}, lease : {"none", "live", "lapsed"},
         payload : {"plain", "fail"}, scheduled : {"future", "due"}]

Polls ==
  [pc : {"idle", "polled", "claimed"}, tenants : SUBSET Tenants, job : {NoJob}]
    \cup [pc : {"locked"}, tenants : SUBSET Tenants, job : Jobs]

Execs == [worker : Workers, job : Jobs, claim : Nat,
          pc : {"claimed", "working", "acking", "acked", "nacking", "nacked"},
          stolen : BOOLEAN, payload : {"plain", "fail"}]

Kinds == {"faults", "stalls", "retries"}

\* No row with this id has been inserted yet.
Absent == [status |-> "absent", attempts |-> 0, worker |-> NoWorker,
           lease |-> "none", payload |-> "plain", scheduled |-> "future"]

Idle == [pc |-> "idle", tenants |-> {}, job |-> NoJob]

Init ==
  /\ row = [j \in Jobs |-> Absent]
  /\ claims = [j \in Jobs |-> 0]
  /\ life = [w \in Workers |-> "new"]
  /\ poll = [w \in Workers |-> Idle]
  /\ execs = {}
  /\ leaked = [w \in Workers |-> {}]
  /\ spent = [kind \in Kinds |-> 0]

-----------------------------------------------------------------------------
(* What the statements read and write. *)

Alive(w) == life[w] \in {"up", "stopping", "stopped"}

Running(t) == {j \in Jobs : TenantOf[j] = t /\ row[j].status = "running"}

\* Rows under the FOR UPDATE lock of a claim that has not committed.
Locked == {poll[w].job : w \in {v \in Workers : poll[v].pc = "locked"}}

\* Mutant: the quota is compared with <=.
EligibleAtQuota == {t \in Tenants : Cardinality(Running(t)) <= Quota[t]}

\* The tenants getEligibleTenantIds returns.
Eligible == {t \in Tenants : Cardinality(Running(t)) < Quota[t]}

\* Mutant: the subquery lets claims meet on one row (no SKIP LOCKED).
CandidatesShared(w) ==
  {j \in Jobs : /\ row[j].status = "pending"
                /\ row[j].scheduled = "due"
                /\ TenantOf[j] \in poll[w].tenants}

Candidates(w) ==
  {j \in Jobs : /\ row[j].status = "pending"
                /\ row[j].scheduled = "due"
                /\ TenantOf[j] \in poll[w].tenants
                /\ j \notin Locked}

\* What the claim's subquery may return; ties in priority go by scheduled_at,
\* which is not modelled.
Claimable(w) ==
  {j \in Candidates(w) : \A k \in Candidates(w) : Priority[j] >= Priority[k]}

ClaimedRow(r, w) ==
  [r EXCEPT !.status = "running", !.attempts = @ + 1, !.worker = w, !.lease = "live"]

\* Mutant: worker_id is left on the row.
SweptRowKeepsWorker(r) == [r EXCEPT !.status = "pending", !.lease = "none"]

SweptRow(r) ==
  [r EXCEPT !.status = "pending", !.worker = NoWorker, !.lease = "none"]

\* Mutant: a renewal that comes late is refused.
RenewMatchesInTime(r, w) == r.worker = w /\ r.status = "running" /\ r.lease = "live"

RenewMatches(r, w) == r.worker = w /\ r.status = "running"

\* Mutant: the row is found by its id alone.
OwnerMatchesAnybody(r, e) == r.status = "running"

\* The WHERE clause that the ack and the nack share: no test of the status.
OwnerMatches(r, e) == r.worker = e.worker

\* Mutant: a status the table's CHECK does not know.
AckedRowTypo(r, e) == IF OwnerMatches(r, e) THEN [r EXCEPT !.status = "complete"] ELSE r

AckedRow(r, e) == IF OwnerMatches(r, e) THEN [r EXCEPT !.status = "completed"] ELSE r

\* Mutant: one attempt too few.
NackedRowEarly(r, e) ==
  IF ~ OwnerMatches(r, e) THEN r
  ELSE IF r.attempts + 1 >= MaxAttempts[e.job] THEN [r EXCEPT !.status = "dead_letter"]
  ELSE SweptRow(r)

\* Mutant: one attempt too many.
NackedRowLate(r, e) ==
  IF ~ OwnerMatches(r, e) THEN r
  ELSE IF r.attempts > MaxAttempts[e.job] THEN [r EXCEPT !.status = "dead_letter"]
  ELSE SweptRow(r)

NackedRow(r, e) ==
  IF ~ OwnerMatches(r, e) THEN r
  ELSE IF r.attempts >= MaxAttempts[e.job] THEN [r EXCEPT !.status = "dead_letter"]
  ELSE SweptRow(r)

RetriedRow(r) ==
  [r EXCEPT !.status = "pending", !.attempts = 0, !.worker = NoWorker,
            !.lease = "none", !.payload = "plain", !.scheduled = "due"]

\* One more use of a bound.
Spend(kind, bound) ==
  /\ spent[kind] < bound
  /\ spent' = [spent EXCEPT ![kind] = @ + 1]

-----------------------------------------------------------------------------
(* The API's writes. *)

\* submitJob's INSERT; payload is "fail" when payload.fail is true.
Submit(j, payload, scheduled) ==
  /\ row[j].status = "absent"
  /\ row' = [row EXCEPT ![j] = [Absent EXCEPT !.status = "pending", !.payload = payload,
                                      !.scheduled = scheduled]]
  /\ UNCHANGED <<claims, life, poll, execs, leaked, spent>>

\* scheduled_at arrives.
BecomeDue(j) ==
  /\ row[j].status # "absent" /\ row[j].scheduled = "future"
  /\ row' = [row EXCEPT ![j].scheduled = "due"]
  /\ UNCHANGED <<claims, life, poll, execs, leaked, spent>>

\* Mutant: the status is read first and the UPDATE does not test it again.
CancelBlindly(j) ==
  /\ row[j].status = "pending"
  /\ row' = [row EXCEPT ![j].status = "failed"]
  /\ UNCHANGED <<claims, life, poll, execs, leaked, spent>>

\* cancelJob's UPDATE; it waits while a claim holds the row's lock.
Cancel(j) ==
  /\ row[j].status = "pending" /\ j \notin Locked
  /\ row' = [row EXCEPT ![j].status = "failed"]
  /\ UNCHANGED <<claims, life, poll, execs, leaked, spent>>

\* POST /dlq/:id/retry.
RetryDlq(j) ==
  /\ row[j].status = "dead_letter"
  /\ Spend("retries", MaxRetries)
  /\ row' = [row EXCEPT ![j] = RetriedRow(@)]
  /\ UNCHANGED <<claims, life, poll, execs, leaked>>

-----------------------------------------------------------------------------
(* The life of a worker process. *)

Start(w) ==
  /\ life[w] = "new"
  /\ life' = [life EXCEPT ![w] = "up"]
  /\ UNCHANGED <<row, claims, poll, execs, leaked, spent>>

\* SIGTERM or SIGINT sets stopped; the loop reads it when it comes round.
Stop(w) ==
  /\ life[w] = "up"
  /\ \E v \in Workers \ {w} : life[v] \in {"new", "up"}
  /\ life' = [life EXCEPT ![w] = "stopping"]
  /\ UNCHANGED <<row, claims, poll, execs, leaked, spent>>

\* The loop ends and clears the sweep's timer.  Executions go on: the metrics
\* server keeps the process alive until it is killed.
LoopExit(w) ==
  /\ life[w] = "stopping" /\ poll[w].pc = "idle"
  /\ life' = [life EXCEPT ![w] = "stopped"]
  /\ UNCHANGED <<row, claims, poll, execs, leaked, spent>>

\* A process that ends takes its loop, its executions, its timers and the row
\* lock of its open statement with it.
End(w, how) ==
  /\ life' = [life EXCEPT ![w] = how]
  /\ poll' = [poll EXCEPT ![w] = Idle]
  /\ execs' = {e \in execs : e.worker # w}
  /\ leaked' = [leaked EXCEPT ![w] = {}]
  /\ UNCHANGED <<row, claims>>

\* Crash, OOM kill or docker's SIGKILL after the grace period.  Some
\* incarnation is left: compose restarts the container, and a restart without
\* end is not a bounded model.
Kill(w) ==
  /\ Alive(w)
  /\ \E v \in Workers \ {w} : life[v] \in {"new", "up"}
  /\ End(w, "killed")
  /\ UNCHANGED spent

Beating(w) == leaked[w] # {} \/ \E e \in execs : e.worker = w /\ e.pc = "working"

\* A database error in the sweep's or a heartbeat's timer callback: both are
\* promises nobody handles, which ends a Node process.
UnhandledRejection(w) ==
  /\ life[w] \in {"up", "stopping"} \/ (life[w] = "stopped" /\ Beating(w))
  /\ \E v \in Workers \ {w} : life[v] \in {"new", "up"}
  /\ Spend("faults", MaxFaults)
  /\ End(w, "crashed")

-----------------------------------------------------------------------------
(* runWorkerLoop and claimJob. *)

Executing(w) == {e \in execs : e.worker = w}

\* The quota query; claimJob comes later and does not look at quotas again.
GetEligibleTenantIds(w) ==
  /\ life[w] = "up" /\ poll[w].pc = "idle"
  /\ Cardinality(Executing(w)) < Concurrency
  /\ poll' = [poll EXCEPT ![w] = [pc |-> "polled", tenants |-> Eligible, job |-> NoJob]]
  /\ UNCHANGED <<row, claims, life, execs, leaked, spent>>

\* No eligible tenant or no claimable row.
ClaimNothing(w) ==
  /\ poll[w].pc = "polled" /\ Candidates(w) = {}
  /\ poll' = [poll EXCEPT ![w] = Idle]
  /\ UNCHANGED <<row, claims, life, execs, leaked, spent>>

\* The subquery picks a row and locks it, skipping the rows others locked.
ClaimLock(w, j) ==
  /\ poll[w].pc = "polled" /\ j \in Claimable(w)
  /\ poll' = [poll EXCEPT ![w].pc = "locked", ![w].job = j]
  /\ UNCHANGED <<row, claims, life, execs, leaked, spent>>

\* The row that RETURNING hands to worker w.
NewExecution(w) ==
  [worker |-> w, job |-> poll[w].job, claim |-> claims[poll[w].job] + 1,
   pc |-> "claimed", stolen |-> FALSE, payload |-> row[poll[w].job].payload]

\* The UPDATE commits and RETURNING hands the row to the worker.
ClaimCommit(w) ==
  LET j == poll[w].job IN
  /\ poll[w].pc = "locked"
  /\ row' = [row EXCEPT ![j] = ClaimedRow(@, w)]
  /\ claims' = [claims EXCEPT ![j] = @ + 1]
  /\ execs' = execs \cup {NewExecution(w)}
  /\ poll' = [poll EXCEPT ![w] = [pc |-> "claimed", tenants |-> {}, job |-> NoJob]]
  /\ UNCHANGED <<life, leaked, spent>>

\* The claim's transaction fails and rolls back; the loop catches the error.
ClaimFails(w) ==
  /\ poll[w].pc \in {"polled", "locked"}
  /\ Spend("faults", MaxFaults)
  /\ poll' = [poll EXCEPT ![w] = Idle]
  /\ UNCHANGED <<row, claims, life, execs, leaked>>

-----------------------------------------------------------------------------
(* executeJob. *)

Become(e, f) == execs' = (execs \ {e}) \cup {f}
Advance(e, pc) == Become(e, [e EXCEPT !.pc = pc])
Finish(e) == execs' = execs \ {e}

\* The claim was notified: executeJob starts and with it the heartbeat.
StartExecution(e) ==
  /\ e.pc = "claimed"
  /\ Advance(e, "working")
  /\ poll' = [poll EXCEPT ![e.worker] = Idle]
  /\ UNCHANGED <<row, claims, life, leaked, spent>>

\* The claim committed, but claimJob throws (its answer or its notification is
\* lost): the loop drops the job and nobody executes it.
ClaimNotifyFails(e) ==
  /\ e.pc = "claimed"
  /\ Spend("faults", MaxFaults)
  /\ Finish(e)
  /\ poll' = [poll EXCEPT ![e.worker] = Idle]
  /\ UNCHANGED <<row, claims, life, leaked>>

\* A beat of the execution's heartbeat.
Renew(e) ==
  /\ e.pc = "working"
  /\ IF RenewMatches(row[e.job], e.worker)
     THEN row' = [row EXCEPT ![e.job].lease = "live"] /\ UNCHANGED execs
     ELSE Become(e, [e EXCEPT !.stolen = TRUE]) /\ UNCHANGED row
  /\ UNCHANGED <<claims, life, poll, leaked, spent>>

\* A beat of a timer that outlived its execution.
RenewLeaked(w, j) ==
  /\ j \in leaked[w]
  /\ RenewMatches(row[j], w)
  /\ row' = [row EXCEPT ![j].lease = "live"]
  /\ UNCHANGED <<claims, life, poll, execs, leaked, spent>>

\* clearInterval is skipped once the lease was seen stolen.
LeaveTimer(e) ==
  leaked' = IF e.stolen THEN [leaked EXCEPT ![e.worker] = @ \cup {e.job}] ELSE leaked

\* simulateWork returns: a stolen job is abandoned, another one is acked.
WorkDone(e) ==
  /\ e.pc = "working" /\ e.payload # "fail"
  /\ IF e.stolen THEN Finish(e) ELSE Advance(e, "acking")
  /\ LeaveTimer(e)
  /\ UNCHANGED <<row, claims, life, poll, spent>>

\* simulateWork throws: the catch block nacks, stolen or not.
WorkFails(e) ==
  /\ e.pc = "working" /\ e.payload = "fail"
  /\ Advance(e, "nacking")
  /\ LeaveTimer(e)
  /\ UNCHANGED <<row, claims, life, poll, spent>>

\* The ack's UPDATE; with no row updated there is nothing to notify.
Ack(e) ==
  /\ e.pc = "acking"
  /\ row' = [row EXCEPT ![e.job] = AckedRow(@, e)]
  /\ IF OwnerMatches(row[e.job], e) THEN Advance(e, "acked") ELSE Finish(e)
  /\ UNCHANGED <<claims, life, poll, leaked, spent>>

\* The ack fails, before or after it took effect: the catch block nacks.
AckFails(e) ==
  /\ e.pc = "acking"
  /\ Spend("faults", MaxFaults)
  /\ \/ UNCHANGED row
     \/ row' = [row EXCEPT ![e.job] = AckedRow(@, e)]
  /\ Advance(e, "nacking")
  /\ UNCHANGED <<claims, life, poll, leaked>>

\* The notification of the ack or of the nack is sent, and executeJob returns;
\* after a nack it returns as well when the notification fails.
Notify(e) ==
  /\ e.pc \in {"acked", "nacked"}
  /\ Finish(e)
  /\ UNCHANGED <<row, claims, life, poll, leaked, spent>>

\* The notification of an ack that took effect fails, inside the try block.
AckNotifyFails(e) ==
  /\ e.pc = "acked"
  /\ Spend("faults", MaxFaults)
  /\ Advance(e, "nacking")
  /\ UNCHANGED <<row, claims, life, poll, leaked>>

\* The nack's UPDATE.
Nack(e) ==
  /\ e.pc = "nacking"
  /\ row' = [row EXCEPT ![e.job] = NackedRow(@, e)]
  /\ IF OwnerMatches(row[e.job], e) THEN Advance(e, "nacked") ELSE Finish(e)
  /\ UNCHANGED <<claims, life, poll, leaked, spent>>

\* The nack fails, before or after it took effect; the loop logs the error.
NackFails(e) ==
  /\ e.pc = "nacking"
  /\ Spend("faults", MaxFaults)
  /\ \/ UNCHANGED row
     \/ row' = [row EXCEPT ![e.job] = NackedRow(@, e)]
  /\ Finish(e)
  /\ UNCHANGED <<claims, life, poll, leaked>>

-----------------------------------------------------------------------------
(* Leases and the sweep. *)

\* Somebody may still renew or settle the claim that row j records.
Held(j) ==
  \E w \in Workers :
    /\ w = row[j].worker
    /\ j \in leaked[w] \/ \E e \in Executing(w) : e.job = j

RunningLive(j) == row[j].status = "running" /\ row[j].lease = "live"

\* 30 s pass without a renewal.  Only a running row's lease is ever read.
Lapse(j) ==
  /\ RunningLive(j) /\ ~ Held(j)
  /\ row' = [row EXCEPT ![j].lease = "lapsed"]
  /\ UNCHANGED <<claims, life, poll, execs, leaked, spent>>

\* 30 s pass while the holder lives but is held up.
Stall(j) ==
  /\ RunningLive(j) /\ Held(j)
  /\ Spend("stalls", MaxStalls)
  /\ row' = [row EXCEPT ![j].lease = "lapsed"]
  /\ UNCHANGED <<claims, life, poll, execs, leaked>>

\* Mutant: the sweep does not look at the lease.
StaleWhileLive(r) == r.status = "running"

Stale(r) == r.status = "running" /\ r.lease = "lapsed"

\* Mutant: a worker takes back only what it claimed itself.
RecoverOwnLeases(w) ==
  /\ life[w] \in {"up", "stopping"}
  /\ \E j \in Jobs : Stale(row[j]) /\ row[j].worker = w
  /\ row' = [j \in Jobs |-> IF Stale(row[j]) /\ row[j].worker = w THEN SweptRow(row[j]) ELSE row[j]]
  /\ UNCHANGED <<claims, life, poll, execs, leaked, spent>>

\* One UPDATE takes every stale lease back; neither the attempts nor whose
\* lease it was are looked at, and nobody is notified.
RecoverStaleLeases(w) ==
  /\ life[w] \in {"up", "stopping"}
  /\ \E j \in Jobs : Stale(row[j])
  /\ row' = [j \in Jobs |-> IF Stale(row[j]) THEN SweptRow(row[j]) ELSE row[j]]
  /\ UNCHANGED <<claims, life, poll, execs, leaked, spent>>

-----------------------------------------------------------------------------
ApiStep(j) ==
  \/ \E payload \in {"plain", "fail"}, scheduled \in {"future", "due"} : Submit(j, payload, scheduled)
  \/ Cancel(j)
  \/ RetryDlq(j)

ClockStep(j) == BecomeDue(j) \/ Lapse(j) \/ Stall(j)

LifeStep(w) == Start(w) \/ Stop(w) \/ LoopExit(w) \/ Kill(w) \/ UnhandledRejection(w)

LoopStep(w) ==
  \/ GetEligibleTenantIds(w)
  \/ ClaimNothing(w)
  \/ \E j \in Jobs : ClaimLock(w, j)
  \/ ClaimCommit(w)

\* A step of an execution that meets no fault.
ExecStep(e) ==
  StartExecution(e) \/ WorkDone(e) \/ WorkFails(e) \/ Ack(e) \/ Nack(e) \/ Notify(e)

ExecFault(e) == ClaimNotifyFails(e) \/ AckFails(e) \/ AckNotifyFails(e) \/ NackFails(e)

Next ==
  \/ \E j \in Jobs : ApiStep(j) \/ ClockStep(j)
  \/ \E w \in Workers :
       \/ LifeStep(w)
       \/ LoopStep(w)
       \/ ClaimFails(w)
       \/ RecoverStaleLeases(w)
       \/ \E j \in Jobs : RenewLeaked(w, j)
  \/ \E e \in execs : ExecStep(e) \/ ExecFault(e) \/ Renew(e)

Spec == Init /\ [][Next]_vars

\* Processes start, loops and sweeps keep turning, executions go on, leases
\* nobody renews lapse and scheduled_at arrives.  Nothing says that a heartbeat
\* is on time, that a fault happens or that a user acts.
Fairness ==
  /\ \A w \in Workers :
       /\ WF_vars(Start(w))
       /\ WF_vars(LoopStep(w))
       /\ WF_vars(RecoverStaleLeases(w))
       /\ \A j \in Jobs : WF_vars(\E e \in execs : e.worker = w /\ e.job = j /\ ExecStep(e))
  /\ \A j \in Jobs : WF_vars(Lapse(j)) /\ WF_vars(BecomeDue(j))

FairSpec == Spec /\ Fairness

-----------------------------------------------------------------------------
(* Correctness. *)

\* Every variable holds values of its type.
TypeOK ==
  /\ row \in [Jobs -> Rows]
  /\ claims \in [Jobs -> Nat]
  /\ life \in [Workers -> {"new", "up", "stopping", "stopped", "killed", "crashed"}]
  /\ poll \in [Workers -> Polls]
  /\ execs \subseteq Execs
  /\ leaked \in [Workers -> SUBSET Jobs]
  /\ spent \in [Kinds -> Nat]

\* A row names a worker and a lease exactly when it was claimed and not given
\* back: the ack, the nack and the heartbeat find a job by its worker_id alone,
\* so a worker_id left behind on a pending or cancelled row would let an old
\* execution settle it (claimer.ts:13-20, executor.ts:72-82, worker.ts:16-20).
Shape(r) ==
  /\ r.status \in {"absent", "pending", "failed"} => r.worker = NoWorker
  /\ r.status \in {"running", "completed", "dead_letter"} => r.worker # NoWorker
  /\ (r.worker = NoWorker) <=> (r.lease = "none")

RowShape == \A j \in Jobs : Shape(row[j])

\* A row that a claim has locked stays pending and in a tenant the claim may
\* take from until the claim commits, and no other claim locks it: SKIP LOCKED
\* and the lock together make the claim's pick still good when it is written
\* (claimer.ts:12-32).
LocksHold ==
  \A w \in Workers :
    poll[w].pc = "locked" =>
      /\ row[poll[w].job].status = "pending"
      /\ TenantOf[poll[w].job] \in poll[w].tenants
      /\ \A v \in Workers : poll[v].pc = "locked" /\ poll[v].job = poll[w].job => v = w

Working(j) == {e \in execs : e.job = j /\ e.pc \in {"claimed", "working"}}

\* One job is worked on by at most one execution, and by one more for every
\* time a live holder let its lease run out: faults, crashes and lost answers
\* alone never run a job twice at a time (claimer.ts:12-32, worker.ts:15-20).
ExecutionsBounded ==
  \A j \in Jobs : Cardinality(Working(j)) <= 1 + spent["stalls"]

\* The claim that row j records is the one execution e was started for.
Owns(e) ==
  /\ row[e.job].status = "running"
  /\ row[e.job].worker = e.worker
  /\ claims[e.job] = e.claim

\* An execution that was told its lease is stolen never owns the job again, so
\* that returning without an ack abandons nothing (executor.ts:36-44).
StolenMeansLost == \A e \in execs : e.stolen => ~ Owns(e)

\* What is dead-lettered has used up its attempts, whoever nacked it and
\* however late (executor.ts:72-82).
DeadLetterExhausted ==
  \A j \in Jobs : row[j].status = "dead_letter" => row[j].attempts >= MaxAttempts[j]

\* The quota is read before the claim and not again, so a tenant may exceed it:
\* by one job less than there are workers, and never by more
\* (worker.ts:26-36, 46-47).
QuotaOvershoot ==
  \A t \in Tenants :
    Cardinality(Running(t)) > 0 => Cardinality(Running(t)) <= Quota[t] - 1 + Cardinality(Workers)

\* The tries a job is allowed: one at least, since nobody looks at max_attempts
\* before a claim, and the API takes any number.
Allowed(j) == IF MaxAttempts[j] >= 1 THEN MaxAttempts[j] ELSE 1

\* max_attempts is a bound on the tries of a job but for what no nack sees: each
\* worker that was killed, each lease that lapsed and each call that failed may
\* add one, because the sweep puts a job back whatever its attempts (worker.ts:16-20,
\* executor.ts:75, job.routes.ts:23; README.md:138, 211).
AttemptsBounded ==
  \A j \in Jobs :
    row[j].attempts <= Allowed(j) + spent["stalls"] + spent["faults"]
                         + Cardinality({w \in Workers : life[w] = "killed"})

\* A cancelled job stays cancelled: no claim, sweep, late ack or late nack
\* touches it (job.service.ts:137-142).
CancelledIsFinal ==
  [][\A j \in Jobs : row[j].status = "failed" => row'[j].status = "failed"]_vars

\* A running job is taken from its worker only by an execution of that same
\* worker or after its lease ran out (worker.ts:16-20, executor.ts:50-54, 72-82).
HolderDecides ==
  [][\A j \in Jobs :
       (row[j].status = "running" /\ row'[j].status # "running") =>
         \/ row[j].lease = "lapsed"
         \/ \E e \in Executing(row[j].worker) : e.job = j /\ e.pc \in {"acking", "nacking"}]_vars

\* While no live holder's lease has run out, an execution owns its job from
\* the claim until it settles it, and its acked job stays as the ack left it:
\* whatever fails, crashes or is lost (claimer.ts:12-32, executor.ts:50-82).
OwnershipWithoutStalls ==
  spent["stalls"] = 0 =>
    \A e \in execs :
      /\ e.pc \in {"claimed", "working", "acking"} => Owns(e)
      /\ e.pc = "acked" => row[e.job].status = "completed" /\ claims[e.job] = e.claim

Settled(j) == row[j].status \in {"completed", "failed", "dead_letter"}

\* A heartbeat left over from an old execution is all that job j has.
LeftRunning(j) ==
  row[j].status = "running" /\ \E w \in Workers : row[j].worker = w /\ j \in leaked[w]

\* Every submitted job is completed, cancelled or dead-lettered in the end,
\* through crashes, shutdowns, stolen leases and failing calls; the one way out
\* is a leftover heartbeat that keeps a job of its tenant running for ever, and
\* with it a place of the quota (worker.ts:15-36, 38-66, executor.ts:27-106).
JobsSettle ==
  \A j \in Jobs :
    row[j].status # "absent" ~>
      Settled(j) \/ [](\E k \in Jobs : TenantOf[k] = TenantOf[j] /\ LeftRunning(k))

\* The lifecycle the README draws, as long as nothing fails or stalls.
Lifecycle ==
  INSTANCE JobLifecycle WITH
    status   <- [j \in Jobs |-> row[j].status],
    attempts <- [j \in Jobs |-> row[j].attempts],
    claim    <- claims

ImplementsLifecycle == Lifecycle!Spec

-----------------------------------------------------------------------------
(* What the README says of the program and the program does not keep. *)

\* No arrow leaves completed (README.md:202-212).
CompletedIsFinal ==
  [][\A j \in Jobs : row[j].status = "completed" => row'[j].status = "completed"]_vars

\* The ack of an execution whose job was reclaimed is a no-op (README.md:645).
LateAckIsDropped ==
  [][\A j \in Jobs :
       (row[j].status = "running" /\ row'[j].status = "completed") =>
         \E e \in execs : e.job = j /\ e.pc = "acking" /\ Owns(e)]_vars

\* A running job is acked or its lease expires and it is reclaimed
\* (README.md:752, 1090).
RunningIsTransient == \A j \in Jobs : row[j].status = "running" ~> row[j].status # "running"

=============================================================================
