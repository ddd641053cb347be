---------------------------- MODULE QueueMetrics ----------------------------
(***************************************************************************)
(* What the processes tell Prometheus of the queue: jobs_pending_gauge,    *)
(* jobs_running_gauge and jobs_completed_total (worker/metrics.ts,         *)
(* api/metrics/prometheus.ts), moved by the steps of JobQueue that move    *)
(* them in the code.                                                       *)
(*                                                                         *)
(* Each process keeps its own numbers and loses them when it ends; what    *)
(* Prometheus sums is what the processes alive report.  The API moves its  *)
(* gauge when a statement is answered, and other steps come between the    *)
(* commit and the answer, which may be lost.  The API's processes are      *)
(* taken together and do not end here.  The labels (tenants) are left out, *)
(* and so are the counters that go with a nack, the renewals and the       *)
(* durations; jobs_submitted_total is in Submission.                       *)
(***************************************************************************)
EXTENDS JobQueue, Functions

VARIABLES
  apiPending,  \* jobs_pending_gauge of the API
  unanswered,  \* statements of the API that committed and whose answer is on
               \* its way, or lost: how many add a pending job, and remove one
  metric,      \* metric[w]: the counter and the gauges of worker w
  moved        \* history: how often a row was completed, and queued again by
               \* a nack or a sweep

reported == <<apiPending, unanswered, metric>>
metricsVars == <<vars, reported, moved>>

NoMoves == [pending |-> 0, running |-> 0, completed |-> 0]
NothingMoved == [requeued |-> 0, completed |-> 0]
AllAnswered == [added |-> 0, removed |-> 0]

MetricsInit ==
  /\ Init
  /\ apiPending = 0 /\ unanswered = AllAnswered
  /\ metric = [w \in Workers |-> NoMoves]
  /\ moved = NothingMoved

-----------------------------------------------------------------------------
(* What the code adds, and where. *)

\* A statement of the API that adds a pending job, or removes one, commits.
Commits(what) ==
  /\ unanswered' = [unanswered EXCEPT ![what] = @ + 1]
  /\ UNCHANGED <<apiPending, metric>>

\* Mutant: a job that comes back from the dead letters is not counted.
RetryCommitsUncounted == UNCHANGED reported

RetryCommits == Commits("added")

\* The answer comes and the gauge moves.
ApiMoves(what, n) ==
  /\ unanswered[what] > 0
  /\ unanswered' = [unanswered EXCEPT ![what] = @ - 1]
  /\ apiPending' = apiPending + n
  /\ UNCHANGED metric

\* A process that ends takes its numbers with it.
Forget(w) == metric' = [metric EXCEPT ![w] = NoMoves] /\ UNCHANGED <<apiPending, unanswered>>

\* Mutant: jobs_pending_gauge goes the way of jobs_running_gauge.
StartMovesAlike(w) ==
  /\ metric' = [metric EXCEPT ![w].running = @ + 1, ![w].pending = @ + 1]
  /\ UNCHANGED <<apiPending, unanswered>>

StartMoves(w) ==
  /\ metric' = [metric EXCEPT ![w].running = @ + 1, ![w].pending = @ - 1]
  /\ UNCHANGED <<apiPending, unanswered>>

\* Mutant: the gauge is left to the nack.
AckMovesHalf(w) ==
  metric' = [metric EXCEPT ![w].completed = @ + 1] /\ UNCHANGED <<apiPending, unanswered>>

\* Once the ack's UPDATE has returned, whether it matched a row or not.
AckMoves(w) ==
  /\ metric' = [metric EXCEPT ![w].completed = @ + 1, ![w].running = @ - 1]
  /\ UNCHANGED <<apiPending, unanswered>>

\* Mutant: what is over is counted as completed.
NackMovesAck(w) == AckMoves(w)

NackMoves(w) ==
  metric' = [metric EXCEPT ![w].running = @ - 1] /\ UNCHANGED <<apiPending, unanswered>>

-----------------------------------------------------------------------------
(* The steps of JobQueue, with what they report. *)

ApiCommits(j) ==
  \/ /\ \E payload \in {"plain", "fail"}, scheduled \in {"future", "due"} : Submit(j, payload, scheduled)
     /\ Commits("added")
  \/ Cancel(j) /\ Commits("removed")
  \/ RetryDlq(j) /\ RetryCommits

\* The request's await returns.  No fairness: an answer that is lost is one that
\* never comes.
ApiAnswered ==
  /\ ApiMoves("added", 1) \/ ApiMoves("removed", -1)
  /\ UNCHANGED vars

ExecReports(e) ==
  \/ StartExecution(e) /\ StartMoves(e.worker)
  \/ Ack(e) /\ AckMoves(e.worker)
  \/ Nack(e) /\ NackMoves(e.worker)

\* A stolen execution returns, a call throws, a job is claimed, renewed or
\* swept: nothing is reported.  A shutdown reports nothing either and leads to
\* nothing that a process which happens not to poll would not do: Stop and
\* LoopExit are left out here.
Silent ==
  /\ \/ \E j \in Jobs : ClockStep(j)
     \/ \E w \in Workers :
          \/ Start(w)
          \/ LoopStep(w) \/ ClaimFails(w)
          \/ RecoverStaleLeases(w)
          \/ \E j \in Jobs : RenewLeaked(w, j)
     \/ \E e \in execs : WorkDone(e) \/ WorkFails(e) \/ Notify(e) \/ ExecFault(e) \/ Renew(e)
  /\ UNCHANGED reported

Turned(from, to) == Cardinality({j \in Jobs : row[j].status \in from /\ row'[j].status = to})

Observe ==
  IF row' = row THEN UNCHANGED moved
  ELSE moved' = [requeued  |-> moved.requeued + Turned({"running", "completed"}, "pending"),
                 completed |-> moved.completed + Turned({"running"}, "completed")]

MetricsNext ==
  /\ \/ Silent
     \/ \E j \in Jobs : ApiCommits(j)
     \/ ApiAnswered
     \/ \E w \in Workers : (Kill(w) \/ UnhandledRejection(w)) /\ Forget(w)
     \/ \E e \in execs : ExecReports(e)
  /\ Observe

MetricsSpec == MetricsInit /\ [][MetricsNext]_metricsVars

-----------------------------------------------------------------------------
(* Correctness. *)

\* Every variable of this module holds values of its type; what a worker tells of
\* pending jobs is never positive, for it only takes from them (executor.ts:30).
MetricsTypeOK ==
  /\ apiPending \in Int /\ unanswered \in [added : Nat, removed : Nat]
  /\ metric \in [Workers -> [pending : {n \in Int : n <= 0}, running : Int, completed : Nat]]
  /\ moved \in [requeued : Nat, completed : Nat]

InProgress(w) == {e \in Executing(w) : e.pc \in {"working", "acking", "nacking"}}

\* jobs_running_gauge of a process is the number of jobs it executes, up to one
\* for every lease that lapsed under a live holder (an abandoned execution is
\* never subtracted) and for every call that failed (subtracted twice, or not
\* at all) (executor.ts:29, 41-44, 56, 84; README.md:326).
RunningGaugeDrift ==
  \A w \in Workers :
    LET drift == metric[w].running - Cardinality(InProgress(w)) IN
    - spent["faults"] <= drift /\ drift <= spent["stalls"] + spent["faults"]

Sum(name) == SumFunction([w \in Workers |-> metric[w][name]])

NobodyEnded == \A w \in Workers : life[w] \notin {"killed", "crashed"}

PendingDrift == apiPending + Sum("pending") - Cardinality({j \in Jobs : row[j].status = "pending"})

\* As long as no worker's process has ended, the sum of jobs_pending_gauge is too
\* high only by claims on their way to executeJob, by claims whose answer was lost
\* and by cancels whose answer is on its way or lost, and too low only by jobs
\* that a nack or a sweep queued again, which nobody adds, and by submissions and
\* retries whose answer is on its way or lost (executor.ts:30, 72-85,
\* worker.ts:15-20, job.service.ts:22-48, 137-144, dlq.routes.ts:42-64;
\* README.md:313, 322).
PendingGaugeDrift ==
  NobodyEnded =>
    /\ PendingDrift <= Cardinality({e \in execs : e.pc = "claimed"}) + spent["faults"] + unanswered.removed
    /\ PendingDrift >= - (moved.requeued + unanswered.added)

\* jobs_completed_total counts a completion that was none only for a job that
\* was taken from the execution that acks it: at most once for each lease that
\* lapsed under a live holder, and once for each failed call, whose nack may
\* hit a successor's job.  While no process has ended it misses only an ack
\* that failed after it took effect (executor.ts:50-55).
CompletedDrift ==
  LET drift == Sum("completed") - moved.completed IN
  /\ drift <= spent["stalls"] + spent["faults"]
  /\ NobodyEnded => drift >= - spent["faults"]

=============================================================================
