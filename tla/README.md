# A TLA+ verification of the task queue

This directory holds TLA+ models of the distributed task queue in this
repository (an API in several replicas, workers, PostgreSQL, Redis and a
dashboard), the TLC configurations that check them on small instances, and
theorems about them that TLAPS proves for every instance. Paths in this file
are relative to `apps/api/src` (API), `apps/worker/src` (worker) and
`apps/dashboard/src` (dashboard); `README.md:n` is a line of the repository's
README.

## 1. The system and its parts

| Part | State | Operations | Talks to |
|---|---|---|---|
| jobs table (`001_init.sql`) | one row per job: status, attempts, worker_id, lease_expires_at, scheduled_at, payload | single SQL statements of the API and of workers | everything below |
| submission, reads, cancel, DLQ retry (`job.service.ts`, `*.routes.ts`) | none | INSERT .. ON CONFLICT, SELECT with fallback to the replica, two conditional UPDATEs | jobs table, counts cache, sockets of its own replica |
| worker loop (`worker.ts`, `claimer.ts`) | `running`, `stopped`, workerId | quota query, claim, start of an execution, graceful stop | jobs table, pg_notify |
| executor (`executor.ts`) | one call per job: `stolen`, a timer | work, ack, nack, notification | jobs table, pg_notify |
| heartbeat (`leaser.ts`) | a timer per execution | renew the lease every 10 s, or report it stolen | jobs table |
| sweep (`worker.ts:15-24`) | a timer per worker | put running jobs with an expired lease back to pending | jobs table |
| rate limiter (`rateLimit.ts`) | a sorted set with a TTL per tenant, in Redis | a pipeline of four commands; two more to reject | Redis, shared by all replicas |
| counts cache (`countsCache.ts`) | a key with a TTL per tenant, in Redis | GET, SETEX, DEL, the last two not awaited | jobs table, listeners |
| live updates (`websocket.ts`) | the sockets of one replica | LISTEN, invalidate, broadcast | pg_notify, dashboards |
| dashboard (`useJobCounts.ts`, `useJobs.ts`, `useWebSocket.ts`, pages) | counts, pages of jobs, a socket | refetch, append a page, patch a row, reconnect | API replicas through nginx |
| tenant cache and authentication (`tenantCache.ts`, `auth.ts`) | a key per API key, TTL 300 s | read through | Redis, tenants table |
| metrics (`metrics.ts`, `prometheus.ts`) | counters and gauges per process | inc, dec | Prometheus |

The parts meet in the jobs table and in Redis, never in memory: what makes the
system hard is that every `await` of every process is a point where all the
others may run, that processes die between two statements, and that several
calls are sent and not awaited.

### What makes each part correct, and what is hard about it

* **Jobs and workers.** A job is claimed by one worker at a time, settled by
  the execution that holds it, retried until its attempts are used up, taken
  back when its worker is gone, never touched after a cancel, and settled in
  the end. Hard: a claim against another claim or a cancel on one row; a
  crash, a failed statement or a lost answer between claim, work, ack and
  notification; executions that wake up after their lease ran out; timers that
  outlive their execution; a quota that is read before it is used.
* **Rate limiter.** At most `rate_limit_per_minute` requests are accepted in
  any minute; the key's TTL loses nothing that counts; Retry-After is long
  enough. Hard: pipelines of all replicas interleave on one key, clocks are
  read before a pipeline runs, the TTL is set last, commands fail.
* **Counts and live updates.** What is cached is not outdated for longer than
  its TTL; an invalidation follows every change; pages end up with the current
  counts. Hard: counts read before a change and stored after its invalidation,
  replies out of order, lost notifications and connections, changes nobody
  announces.
* **Pagination and job table.** Pages without gaps or duplicates while rows come
  and change; a table that shows what the server has. Hard: a cursor coarser
  than the column it is compared with, replies out of order, messages between
  the reading of a row and its reply, two copies of what is listed.
* **Submission.** One job per idempotency key, the original returned to everybody,
  each created job counted once. Hard: two INSERTs of one key where the first is
  not committed, a commit whose answer is lost, the read after a conflict that
  falls back to a replica which lags.
* **Metrics.** Gauges and counters that agree with the table. Hard: each process
  moves its own numbers, at statements that may match no row, throw, or never be
  reached, and takes them along when it ends.
* **Lease timing.** A working heartbeat is never too late, and no job stands still
  for longer than the README says. Hard: timers of several processes, statements
  that take time and take effect after their process has died.

## 2. Modules

| Module | Models | Used by |
|---|---|---|
| `JobQueue` | the jobs table, the API's writes, worker processes | `MCJobQueue`, `JobQueueProofs` |
| `JobLifecycle` | what the repository's README promises of a job, without workers or leases | `JobQueue` (`Lifecycle == INSTANCE ..`) |
| `RateLimiter` | `rateLimitMiddleware` and its key | `MCRateLimiter`, `RateLimiterProofs` |
| `LiveCounts` | counts cache, notifications, push, refetch | `MCLiveCounts`, `LiveCountsProofs` |
| `JobPages` | `GET /jobs`, `GET /dlq`, the lists of the dashboard and of an API client | `MCJobPages`, `JobPagesProofs` |
| `QueueMetrics` | the pending and running gauges and the counter of completions, on top of `JobQueue` | `MCQueueMetrics`, `QueueMetricsProofs` |
| `Submission` | `POST /jobs`, `GET /jobs/:id`, `readWithFallback` | `MCSubmission`, `SubmissionProofs` |
| `SubmitOnce` | what the repository's README promises of idempotency keys | `Submission` (`Once == INSTANCE ..`) |
| `LeaseTiming` | one job's lease with a clock: heartbeat, sweep, death | `MCLeaseTiming`, `LeaseTimingProofs` |
| `MC*` | model values, functions of constants and symmetry for TLC | the `.cfg` files |
| `*Proofs` | theorems and their proofs, section 6 | |

`PROJECT.json` maps each definition to its lines of code. Operators whose
comment begins with "Mutant" are plausible bugs; they are used by no run and
show what each property catches.

### JobQueue

`row[j]` keeps the columns of a job that any statement reads: `status` (with
`absent` before the INSERT), `attempts`, `worker`, `lease` (`none`, `live` or
`lapsed`), `payload` (`fail` when `payload.fail` is true), and `scheduled`
(`future` or `due`). `claims[j]` is a history variable, the number of claims so
far; it gives each claim a name and no action reads it except to name the next.
A worker is one incarnation of a process, because `workerId` is drawn anew on
every start (`worker.ts:11`). `life[w]`, `poll[w]`, `execs` and `leaked[w]` are
its process state, the position of its loop, its calls of `executeJob`, and the
heartbeat timers that nothing will clear.

* One SQL statement is one step, for PostgreSQL makes it atomic. The claim is
  two: `ClaimLock` (the `SELECT .. FOR UPDATE SKIP LOCKED`) and `ClaimCommit`,
  because other statements meet the lock in between: another claim skips the
  row, a cancel waits for it.
* The loop: `GetEligibleTenantIds`, then `ClaimNothing` or `ClaimLock`,
  `ClaimCommit`, `StartExecution`; `ClaimFails` and `ClaimNotifyFails` are the
  two ways into the loop's catch block, before and after the commit.
* `executeJob`: `WorkDone` or `WorkFails`, `Ack`, `Notify`, and the catch block
  `Nack`, `Notify`. `AckFails`, `AckNotifyFails` and `NackFails` are the calls
  that fail, each with and without effect where an answer can be lost. The ack
  and the nack share `OwnerMatches`, the WHERE clause `id AND worker_id`, which
  does not test the status. `LeaveTimer` is the `clearInterval` that is skipped
  for a stolen lease.
* Time is not counted. `Lapse` lets a lease run out that nobody can renew,
  `Stall` one whose holder lives but is late; the second is budgeted and is what
  "a pause of 30 s" means here.
* `Kill` ends a process at any point, `Stop` and `LoopExit` are the graceful
  shutdown, `UnhandledRejection` is a database error inside a timer callback,
  whose promise nobody handles. All of them leave some incarnation that is up
  or can start: containers are restarted, and a finite model cannot restart
  without end.

Abstracted: priorities are numbers but ties by `scheduled_at` go either way;
only `fail` is known of a payload; error texts and timestamps are left out, and
metrics are in `QueueMetrics`. A `max_attempts` or quota of any integer is allowed, as in the schema.

### JobLifecycle

Status, attempts and number of claims of each job, and the moves the
repository's README draws (README.md:202-216): submit, cancel, claim, complete,
fail to pending or to dead_letter, DLQ retry, and the recovery of any set of
running jobs. `JobQueue` implements it (`ImplementsLifecycle`) as long as no
worker's database call fails and no live worker's lease lapses; section 5 shows
what happens otherwise.

### QueueMetrics

Extends `JobQueue`: each step of `MetricsNext` is a step of the queue together with
what its process reports. `metric[w]` are the numbers of one worker, which a crash
forgets; `apiPending` is the gauge of all API processes. `moved` is history: rows
that a nack or a sweep queued again, and rows that were completed. Statements
move a number after their `await` returned, so a call that throws moves nothing.
For the API the two are steps of their own: `ApiCommits` is the INSERT, the cancel
or the DLQ retry, which leaves one more statement `unanswered`, and `ApiAnswered`
moves the gauge, later or, when the answer is lost, never. A worker's statement
and its number are one step, and a lost answer is one of `JobQueue`'s faults.

Abstracted: the tenants (labels), the counters that go with a nack, the renewals
and the histogram; the API's processes do not end. `Stop` and `LoopExit` are left
out of `MetricsNext`: a shutdown reports nothing.

### Submission and SubmitOnce

`request[r]` is a client and its request: `sent`, `inserted` (the row is in, not
committed), `created` (the commit's answer is under way), `primary` and `replica`
(the two attempts of `readWithFallback`, for the SELECT after a conflict and for
`GET /jobs/:id`), then `answered`, `missing` (404) or `failed` (500). A second
INSERT of a key waits (`Blocked`) until the first commits or is rolled back, as
PostgreSQL's unique index makes it. `log` is what the primary committed, and the
replica has applied a prefix of it. `InsertFails` is a rollback or a lost answer,
depending on where it hits. A job is named by its client and try.

`SubmitOnce` knows keys, jobs and answers: a key gets one job, once, and who is
answered is given that job. The mapping leaves out clients without a key.

Abstracted: the job's columns, and which replica of the API serves. A client that
gives up waiting is not a step: its second post is another client of that key.

### LeaseTiming

One job; `row.left` is what is left of its lease. `process[w].next` counts down to
the next sweep and `exec[w].ticks` to the next renewal. What a timer sends is a
statement under way (`sweeps[w]`, `renewals[w]`, by age) that takes effect or fails
within `Late` ticks, even if its process has died; `setInterval` does not wait for
the statement before. `Abandon` and `AckFails` are the calls that fail in the loop
and in an execution, `SweepFails` and `RenewalFails` those in a timer, whose
rejection ends the process (`Rejected`) as `Die` does. `Tick` is
enabled when nothing is due, so no statement is later than `Late` and no timer
late at all: the properties are about punctual processes, and a process that is
not is `JobQueue`'s `Stall`. `orphaned`, `deaths` and `lost` are history: the time
the job has been running without an executor, and how many processes ended and how
many sweeps failed in that time.

### RateLimiter

Each command of the ioredis pipeline is a step (`Trim`, `Add`, `Count`,
`Expire`), for a pipeline is not a transaction; `Arrive` reads the clock before
it, `Undo` and `Reject` are the second and third round trip of a request over
the limit. `PipelineBreaks` and `UndoFails` lead to the catch block, which lets
the request through. The sorted set is the set of requests with a member in it,
scored by the clock they read; Redis deletes an empty set with its TTL
(`SetMembers`). `Delay` is how long a pipeline may take; `Tick` waits for
nothing else.

### LiveCounts

The counts are abstracted to the number of status changes so far, `db`.
`WorkerChange`, `Sweep`, `CancelOrRetry` and `Submit` are the changes: the first
owes a `pg_notify`, the second announces nothing, the other two invalidate, and
the third pushes to the sockets of its own replica. `Notify`, `Hear` and
`Invalidate` are the way to the replicas. A page has a socket (`Connect`) and is
sent nothing until its tenant has been looked up (`Authenticate`); `ReplicaDies`
closes sockets and forgets what a replica had to do, and the UPDATE of a cancel or
the INSERT of a submission may take effect with its answer lost, so that nothing
is invalidated. `fetch[f]` is a request for counts:
`GetHit` or `GetMiss`, `Read`, `Return` (which sends SETEX without awaiting it),
`Answer`. `queue[r]` is what a replica has sent to Redis and does not await;
Redis executes it in order (`Execute`), and a replica's GET waits for its turn.
Every copy of the counts that is cached or on its way to the cache carries
`outdated`, the ticks since it was superseded, and `excused`, a history flag: a
change that these counts miss was invalidated before they were stored, or is
never invalidated. `waiting` is history too: the pages that were authenticated
when a worker changed a job and have sent no request since.

### JobPages

The table of one tenant's jobs, one client with its list, and the requests and
messages between them. `view` is the client, chosen once: the dashboard (all
jobs), the dead letter page (`GET /jobs?status=dead_letter`), or a client of
`GET /dlq`, which sorts by `updated_at`; `key[j]` is the column that is sorted
by. An INSERT takes its time (`Stamp`) before it is visible (`Commit`), so rows
may appear behind a page that was read already. `Read` is the statement of
`listJobs` and `GET /dlq` with the cursor, the extra row and the truncation of
`JSON.stringify` on a `Date`. `Replace`, `Extend` and `Fail` are the three ends
of `fetchPage`, in any order of the replies; `Patch` and `Reload` the message
handlers of the two pages; `OnSubmitted`, `HandleCancel` and `OnRetried` the refetches
after the user's own actions. Messages may be reordered, for each process notifies for itself and
a replica pushes its own cancels and retries directly.

React applies what `setJobs` was told when it renders, in the order it was told,
while `jobIdsRef` is a plain reference. A first page and `removeJob` change the
reference at once, a further page in its updater, which may run after later
replies and messages have been handled. So `list` is what the list will be after
the next render, `ids` is the reference now, `unrendered` are the jobs of further
pages whose updaters have not run, and `Render` runs them. What an updater filters
follows from what was handled before it (`Fresh`). `Early` is a message for a row
whose updater has not run: `hasJob` does not know it, and it is a refetch.

`base`, `brought`, `mixed` and `missed` are history: `base` are the jobs a list owes
(there when its first page was read, not changed since, skipped by no cursor);
`brought` are the jobs its pages had, and `Lacked` those of them that are not in
the list; `mixed` says that a page was appended that had been asked for before the
list was replaced; `missed` are rows no message will correct. They name exactly
where the code does not deliver, see section 5: without any one of them TLC refutes
`NoGaps`, `EndIsTheEnd` or `RowsAreCorrected`.

Abstracted: statuses are dead letter or not; the buttons of a row are those of the
last render; the tabs filter only what is drawn. `StrictMode` (`main.tsx:9`), which in
a development build runs an updater twice, is left out: production builds do not.

## 3. Runs

| Run | Instance | Shows |
|---|---|---|
| `queue_one_job` | 1 job, 2 attempts, 2 workers of concurrency 2, 1 fault, 1 stall, 1 DLQ retry, with metrics | `TypeOK`, `MetricsTypeOK`, `RowShape`, `ExecutionsBounded`, `StolenMeansLost`, `DeadLetterExhausted`, `OwnershipWithoutStalls`, `AttemptsBounded`, `RunningGaugeDrift`, `PendingGaugeDrift`, `CompletedDrift`, `HolderDecides`, `CancelledIsFinal` |
| `queue_calm` | 3 jobs of one tenant, 2 attempts, quota 1, 2 workers of concurrency 2, 1 DLQ retry, crashes and shutdowns | `QuotaOvershoot`, `LocksHold`, `ImplementsLifecycle` |
| `queue_live` | 1 job, 2 attempts, 2 workers of concurrency 2, 1 fault, 1 stall, crashes and shutdowns, fairness | `JobsSettle` |
| `rate_window` | 4 requests, limit 2, window of 3 half seconds (a TTL of 5), delay 1, 6 half seconds, a broken pipeline, a failing undo | `TypeOK`, `AnyWindow`, `KeyOutlivesWindow`, `RetryAfterHonest` |
| `counts_cache` | 1 page, 2 replicas, 2 requests, 2 disturbances: changes by anybody and at most 1 loss | `TypeOK`, `CacheAgeBounded`, `StaleOnlyByRace`, `PageIsTold` |
| `pages` | each client, 2 old jobs and a new one, pages of 1 row, 2 moments, 2 requests, 2 changes, 1 refetch by the user, renders at any time | `TypeOK`, `EachJobOnce`, `NoGaps`, `EndIsTheEnd`, `RowsAreCorrected` |
| `submission` | 2 clients with one key and 1 without, 2 tries each, 2 failing statements, fairness | `TypeOK`, `MissedOnlyByFailure`, `SubmittedCounted`, `ImplementsSubmitOnce`, `EveryoneAnswered` |
| `lease_timing` | 3 workers, a tick of 5 s (lease 6, beat 2, sweep 3), statements of at most 1 tick, 3 faults | `TypeOK`, `LeaseHolds`, `RecoveredInTime` |
| `completed_not_final`, `late_ack_lands`, `running_forever`, `counts_diverge` | the smallest instances with the behaviour | findings, section 5 |

Why these bounds are enough to be interesting:

* A job with two attempts goes through nack, retry, dead letter and a DLQ
  retry; two executions per worker let a worker reclaim the job its own stale
  execution still holds, which is what `worker_id` alone cannot tell apart.
  One stall is enough for two executions of a job at a time. A fault may hit
  any single call; the properties about faults were the ones to shape the
  model.
* Claims of two workers meet on a row, and skip to the next, when there are three
  jobs; the quota needs three jobs and two workers to be exceeded by more than
  one, if it could be.
* One job is enough for the metrics, whose drift is a matter of one execution's
  path; with a fault, a stall and a crash the two gauges and the counter drift in
  every direction their properties allow.
* Four requests with a limit of two leave two that race for the last slot
  while one leaves the window. The TTL of a key that is first written at time 0 is 5
  and time goes on to 6, so that trims, keys that expire, keys that are written
  again and requests in flight at the deadline all happen.
* Two requests for counts make one store stale counts while the other reads;
  two replicas make an invalidation of one pass a request of the other. Two
  disturbances are two changes, or a change and a loss before or after it: what a
  third would add was looked at once, with the same result, in a longer run.
* Pages of one row make a list of three rows out of three pages. Both moments are of one
  millisecond: the cursor of the later is cut to the earlier, where the table may have
  rows too, that of the earlier is exact. Two requests are a refetch that overtakes a
  refetch or a `loadMore`, before or after a render; two changes of a job are a
  message that is late.
* Two clients of a key race, one of them retries after a failure, and two
  failures make a request fall back to the replica and be refused by both
  databases, or lose an INSERT's answer and then the read of its job.
* With a lease of 6 and a beat of 2 ticks, one tick of delay is the most that
  `Timely` allows: with a lease of 5 ticks, or 2 ticks of delay, TLC refutes
  `LeaseHolds`. Three workers are a holder that dies, one that dies when it was
  about to sweep, and one that has just started. Three faults are a lost claim and
  two failing sweeps, or a failing renewal and a failing sweep and one more;
  `RecoveredInTime` is met up to one tick.

Deadlock is checked for LiveCounts and LeaseTiming, where a clock ticks for ever.
In the other instances the work does come to an end: all jobs settled and all
incarnations spent, or all requests answered and the bounds used up.

## 4. Fairness

`JobQueue`: weak fairness of the start of a process, of the steps of a loop
(`LoopStep`, a loop without an end), of the sweep (an interval timer), of each
execution's next step (promises that settle), of `Lapse` and of `BecomeDue` (the
clock). None is assumed of heartbeats (a late one is exactly the hazard), of
users, of crashes or of failing calls. A claim is `LoopStep` as a whole, so that
a worker need not win any particular row. `LiveCounts`: weak fairness of
notifications, of Redis, of requests, of connecting, of the lookup of a socket's
tenant and of time: whatever was sent arrives. `Submission`: weak fairness of the
API's and the primary's next step for each request (`Serve`); nothing is assumed
of clients or of replication. The other modules state no liveness. Strong fairness
is assumed nowhere.

`JobsSettle` has an exception, `LeftRunning`: when a call fails, a timer that
nobody clears may keep a job running for ever, and with it a place of its tenant's
quota. In the instance checked that is the only way for a job not to be settled;
`running_forever` shows it happen.

## 5. What the code does and its documentation does not say

Each is a run that TLC finds violated, with a finding in `PROJECT.json`.

* `completed_not_final`: the ack's notification is awaited inside the `try`
  (`executor.ts:58`). When it fails the catch block nacks, the nack does not
  test the status, and a completed job is pending again and runs once more.
* `late_ack_lands`: the ack of an execution whose lease was stolen is dropped
  only when another worker has the job. When the same worker reclaimed it, the
  late ack settles the new claim's job (`executor.ts:52`).
* `running_forever`: `clearInterval` is skipped for a stolen lease
  (`executor.ts:64`), also on the path that returns early (`executor.ts:41`). The
  timer keeps renewing by `worker_id`, and a later claim of that worker that
  nobody executes stays running for ever.
* `counts_diverge`: counts read before a change may be stored after its
  invalidation (`job.service.ts:132`). The page refetches once per message, gets
  them, and shows them until the next change.

Seen in the models, without a run of their own:

* Jobs. The sweep does not look at attempts (`worker.ts:16`): a job that takes its
  worker down is tried past `max_attempts`, against README.md:138 and 211, and is
  never dead-lettered (`AttemptsBounded` says by how many tries). The quota is a soft
  cap (`QuotaOvershoot` says how soft; README.md:700 says so, README.md:1148 calls the
  count safe). A failing sweep or heartbeat ends the process, against README.md:726
  (`UnhandledRejection`).
* Recovery. A crashed worker's job may wait longer than the 45 s that README.md:216,
  635, 777 and 1094 promise. They count neither what the last renewal and the sweep
  take themselves, nor another process that ends shortly before its own sweep was due
  (up to 15 s more each time, the interval of whoever is left), nor a sweep that fails
  and ends its process (`worker.ts:15-24, 41`). `RecoveredInTime` has a term for each,
  and without any one of them TLC refutes it.
* Metrics. The sum of `jobs_pending_gauge` is not the number of pending jobs, against
  README.md:313 and 322: neither a nack nor a sweep adds what it queues again, and the
  API adds or subtracts nothing for a statement that committed when the answer is lost
  (`job.service.ts:22-48, 137-144`, `dlq.routes.ts:42-64`; `PendingGaugeDrift`). An
  abandoned execution stays in `jobs_running_gauge` (`RunningGaugeDrift`). An ack that
  matches no row is counted as a completion (`CompletedDrift`).
* Submission. A submission may be answered 201 without a body, and a client may get a
  404 for the job it was just given, when the primary fails a read and the replica
  lags, against README.md:139 and 667 (`MissedOnlyByFailure`).
* Live updates. A page is told nothing between its first request and the lookup of its
  tenant, and does not ask again (`Authenticate`). A cancel or a DLQ retry is pushed by
  one replica only, against README.md:254 (`CancelOrRetry`). The sweep pushes and
  invalidates nothing, against README.md:241 (`Sweep`).
* Rate limit. Two requests over an empty window with a limit of one may both be
  rejected, for each is counted by the other before it is undone, against
  README.md:229 (`Count`, `Undo`).
* Pages of the server. Rows that share a millisecond with the last row of a page are on
  no page, and a row that commits behind a page that was read is not seen either,
  against README.md:170 and 1174 (`Skipped`, `base`).
* Pages of the dashboard. A page asked for before a refetch and appended after it leaves
  a gap that goes on until the next refetch (`mixed`). On the dead letter page a
  message about an earlier change takes out a row that is dead letter again, for only
  the message is looked at (`DLQ.tsx:15`, `Lacked`). A further page whose updater runs
  after the list was replaced or its row removed leaves jobs in `jobIdsRef` that the
  list does not have: later pages leave them out, and messages about them change
  nothing, until the next refetch (`useJobs.ts:31-37`; `Render`, `Lacked`). A row read
  before a change and rendered after its message keeps the old status, against
  README.md:270 (`missed`).

## 6. What is proved

All theorems hold for any number of jobs, tenants, workers, replicas, pages and
requests, for any quota, attempts, limit, TTL, page size and period, and for any
bound on faults, stalls, losses and retries. Every invariant and action property
that a passing run checks, and both refinements, are stated by one of them; what
is left to TLC is liveness, section 7.

### `JobQueueProofs`

Assumed of the constants: jobs and workers are finite sets without the null
values, columns have their types, bounds are natural numbers.

The steps are first described row by row and loop by loop (`RowSteps`,
`PollSteps`, `ExecsFrom`, `ClaimsSteps`): how any step of the system may change
one row, one worker's loop, the executions and the claim numbers. The
invariants are then shown against these few forms, not against every action.

* `TypeCorrect` (`TypeOK` is inductive), `RowShapeHolds` and `LocksAreHeld` come
  from `RowInv == TypeOK /\ RowShape /\ LocksHold`. Neither of the last two is
  inductive alone: a late ack spares a locked row because a pending row names no
  worker, and a claim, which commits without looking again, gives a worker only
  to a row that is pending because it is locked.
* `CancelledStays` and `HoldersDecide` are action properties that follow from
  `RowInv`: the ack and the nack find a row by `worker_id`, and a cancelled row
  has none.
* `DeadLettersExhausted` is inductive with `RowInv`: only a nack that tested the
  attempts makes a dead letter, and the statements that reset the attempts or
  claim the row give it another status.
* `StolenIsLost`: the claim number tells an execution from its successor.
  `ClaimsNamed` says that no execution has a number that was not given yet and no
  two executions of a job have the same; with it `StolenMeansLost` is inductive,
  for a row that lost a claim never gets back to it.
* `OwnershipHolds`: `OwnInv` adds what is `Kept` for each execution as long as
  nobody stalled: the row records its claim and its worker, is not stale, and
  has the status that the execution's position says.
* `ExecutionsAreBounded`: an execution is `InFlight` until it has nacked, for until
  then it may change the row. `Paid` says that there are never more of them than
  one and the stalls so far, and that when there are as many the row is `Secured`:
  running or completed under the worker of one of them and not stale, so that no
  sweep and no claim adds another before a stall is spent or one of them nacks.
* `AttemptsAreBounded`: a sweep does not look at attempts, so they are bounded by
  what made sweeps possible. `Budget` is what was spent: stalls, faults and killed
  workers. `Tried(j)` says that attempts stay one below `Allowed(j)` (`max_attempts`,
  but never less than one) plus the budget, or reach it when the row is settled or
  an execution owns it and its lease is good. Such an execution goes on until its
  row changes, unless the budget grows (`OwnerGoesOn`), since once it has settled
  its claim it owns nothing (`SettledOnce`); then the nack looks at the attempts.
* `QuotaOvershootBounded`: the number of running jobs is not inductive, for many
  workers may be past the quota query. `QuotaInv` bounds the running jobs of a
  tenant together with the loops that were told it is eligible and have not
  claimed yet (`Load`), at most one per worker; a claim turns one of the latter
  into one of the former.
* `QueueImplementsLifecycle`: assuming `MaxFaults = 0` and `MaxStalls = 0` every
  step of the queue is a step or a stutter of `JobLifecycle`. `CalmInv` adds to
  `OwnInv` that an execution about to nack has a running row, which fails as soon
  as the notification of an ack may.

### `RateLimiterProofs`

Assumed: finitely many requests, and `Timing`: a pipeline takes less than a
window and no longer than the TTL's spare second.

* `TypeCorrect`: the part that is no mere typing is that Retry-After is at least
  a second, which needs that the oldest score of a set that is not empty exists.
* `KeyOutlives`: the TTL never takes an accepted request's slot before its window
  is over, unless a pipeline that takes time may break between ZADD and EXPIRE
  (`KeyRefreshed`). The invariant is `KeyInv`. `Covered` says that a slot whose
  pipeline has ended is covered by the TTL. A request in flight may sit in a key
  whose TTL is nearly over; then, says `Chain`, an older request in flight has a
  slot in the same key and refreshes the TTL before it ends.
* `AnyWindowHolds`: `WindowInv` is `AnyWindow` for the requests that are accepted
  or whose count says they will be. A count changes it, and finds in the set all
  that were admitted in a window with its request, because by `KeyInv` neither
  the TTL nor a trim has taken them.
* `RetryAfterIsHonest`, an action property of the rejection. `RoomInv` says that
  slots of admitted requests, once there is one, are never more than the limit: a
  count admits only when it found no more, and nothing but a count adds to them.
  Retry-After, rounded up, reaches the moment when the oldest slot leaves the
  window (`RetryReaches`), which leaves fewer than the limit.

### `SubmissionProofs`

Assumed: finitely many clients, each with a key or none, and at least one try.

* `TypeCorrect`.
* `OneJobPerKey` is the refinement `ImplementsSubmitOnce`, step by step: each step
  of the API and its databases is a step of `SubmitOnce` or a stutter. `KeyInv`
  is the invariant behind it: what a request holds is `Given` by its position and
  `Rightly` its own, a request past a conflict has a committed row to find
  (`Conflicted`), and the unique index keeps a key to one committed row
  (`Single`) and an insertion alone with its key (`Alone`). None of the last three
  is inductive alone: `Alone` lets a commit keep `Single`, and `Single` makes the
  row that a conflict reads the only one.
* `MissedOnlyByFailureHolds`: a 201 without a body or a 404 needs the replica, and
  the replica is asked only after the primary failed. `Paid` counts those that
  have missed and those that still may (`AtRisk`) against the faults.
* `SubmittedCountedHolds`: `Tally` relates the counter, the committed jobs and the
  INSERTs whose answer is under way (`Unanswered`); a lost answer is a fault.

### `LeaseTimingProofs`

Assumed: `Timely == Beat + 3 * Late < Lease` (the code has 10 s and 30 s, so
statements of at most 6 s), periods of at least a tick, finitely many incarnations.

* `TypeCorrect`.
* `LeaseAlwaysHolds`: `Punctual` says that no beat is later than `Beat` and no
  statement older than `Late`, `Owned` that the row is its executor's. `Covered` is
  the point: of the lease no more than `Gone` is used up wherever the execution is
  in its cycle, unless a renewal is on its way, which was sent when no more than
  `Late + Beat` was. The three `Late` are the claim's answer (or the renewal
  before the last beat), an ack that fails and the nack after it.
* `RecoveredInTimeHolds`: an orphaned job is taken back by `LatestSweep`, which every
  process that ends meanwhile puts off by an interval, and every sweep that fails by
  what a statement takes. `Recovering` names the sweep that will do it: one that is
  on its way, or the next of a process that is up, of which there is one as long as
  a job is running (`SomeoneUp`). A sweep on its way may fail: its process then
  ends, and that puts off `LatestSweep`; when the process has ended before, the
  interval must be left over (`Counted`). `LastLease` says that a renewal still
  on its way is at least as old as the orphan, so the lease is granted for the last
  time when the job has been an orphan for no longer than `Late`.

### `LiveCountsProofs`

Assumed: bounds are natural numbers, null values are no pages or replicas.

* `TypeCorrect`; `QueueInv` is the part that is not typing: a SETEX in a replica's
  queue is that of a request that has read, is there once, and was not superseded
  before it read (`Queued`, `Young`).
* `CacheAgeBoundedHolds`: age and remaining TTL of a cached copy never exceed the
  TTL and the time a request takes (`CacheYoung`), with or without losses.
* `PageIsToldHolds`: `WaitingAuthed` says that who is waiting still has an
  authenticated socket unless something was lost; so the push reaches it.
* `StaleOnlyByRaceHolds`: `Excused` says the same of counts that are not stored yet
  as the property says of the cache, since it is these that become the cache,
  unless an invalidation is `UnderWay`; `AtReplica` that there is a replica for a
  notification to reach.

### `JobPagesProofs`

Assumed: finitely many jobs, numbered in the order of their ids; a page has at
least a row; a Date is no finer than a column's timestamp.

What a page is, of the jobs beyond a cursor, is said once (`IsPage`, shown of
LIMIT, `data` and `nextCursor` in `PageOfRows`): sorted, without a gap up to its
last row, and complete or followed by a cursor. The invariants say of each request
what the list will be when its reply comes.

* `TypeCorrect`: that `Clocked` rows have a time and none is from the future is
  what makes a cursor's timestamp one.
* `EachJobOnceHolds`: on the dashboard `jobIdsRef`, with what is still to be rendered,
  filters what is appended, so that every listed job is in either is enough (`Once`).
  A client of the API filters nothing: it follows one cursor after the other
  (`OneByOne`), and every job it has got stays before its cursor (`Behind`), since a
  change moves a job to the front and truncation moves a cursor to earlier times.
* `PagesHaveNoGaps` and `NoMoreIsAll`: `GapInv`. What a list owes comes in order
  (`Gapless`) and what its pages have not brought is beyond its cursor (`Complete`),
  and so it will be after each reply under way, unless that is a stale page. `Current`
  ties a request to the cursor of the list it will be appended to, `OneMore` keeps
  two next pages from being asked for at a time. What the pages did bring and the
  list lacks is excused, so `Behind` also keeps the pages from bringing it again.
* `RowsGetCorrected`: `RightInv` says of the rows of a reply what the property says
  of the list, with their own excuses; a message that arrives excuses every reply
  that was read before, and a row that is not rendered yet.

### `QueueMetricsProofs`

Assumed: what `JobQueueProofs` assumes; its theorems hold of the queue in
`QueueMetrics`, whose steps are steps of the queue.

* `MetricsTypeCorrect`: a worker's pending gauge is never positive, for a worker only
  subtracts from it.
* `RunningGaugeHolds` and `CompletedCountHolds`: an execution that has lost its
  job, or holds one the sweep may take, is `Doomed`. Each was paid for by a lapsed
  lease or a failed call, and misleads either number once at most, when it ends;
  so a number's error and the doomed executions are bounded together.
* `PendingGaugeHolds`: while no process has ended the gauge, the claims on their way
  to `executeJob`, the jobs queued again by nacks and sweeps and the statements of
  the API that are not answered are an exact account of the pending jobs
  (`Surplus`), but for claims whose notification failed, one fault each. Sums over processes are folds of the library, whose
  value is reached by the least counterexample, for induction with a predicate
  is not available.

## 7. What is only model-checked

* `JobsSettle` and `EveryoneAnswered` are liveness under fairness, which is out
  of the prover's reach, as is ENABLED.
* The runs of section 5 are counterexamples: `CompletedIsFinal`,
  `LateAckIsDropped`, `RunningIsTransient` and `CountsConverge` do not hold.

## 8. What is not modelled

Partly modelled: the metrics, as said in section 2; the migration, of which the
columns, defaults and constraints are modelled and the run at the start of each
replica (idempotent statements) is not.

Left out for good: the tenant cache and authentication (no operation of the
program changes a tenant), `quota.service.ts` (only its own test calls it), logging, tracing, the
presentational components, and the configuration of nginx, PostgreSQL,
Prometheus and compose, from which the modules take two assumptions: requests
go to any replica, and containers are restarted.
