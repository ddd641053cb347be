------------------------- MODULE QueueMetricsProofs -------------------------
(***************************************************************************)
(* Theorems about QueueMetrics.  A gauge goes wrong where a step of the    *)
(* queue moves a job and reports nothing, or reports what did not happen;  *)
(* so each proof pairs the error of a gauge with the executions that may   *)
(* still add to it:                                                        *)
(*   - Doomed executions have lost their job and do not know it, or hold   *)
(*     one that the sweep may take.  Each was paid for by a lapsed lease   *)
(*     or a failed ack and misleads the running gauge and the counter of   *)
(*     completions once at most, so that error + Doomed stays bounded;     *)
(*   - a claim on its way to executeJob is a job that has left the pending *)
(*     ones before the gauge was told, and so is each statement of the API *)
(*     whose answer has not come.  With those and with the jobs queued     *)
(*     again added up, the pending gauge is exact (Surplus) but for the    *)
(*     claims whose answer was lost.                                       *)
(***************************************************************************)
EXTENDS QueueMetrics, JobQueueProofs, WellFoundedInduction

-----------------------------------------------------------------------------
(* Sums. *)

\* The library's definition of a sum over a part of a finite set, as a function
\* of the part: one element of it is chosen and added to the sum of the others.
Picks(s) == CHOOSE x \in s : TRUE

Sums(S, g, sum) ==
  sum = [s \in SUBSET S |-> IF s = {} THEN 0 ELSE g[Picks(s)] + sum[s \ {Picks(s)}]]

\* A set of naturals that is not empty has a least element.
LEMMA LeastNumber ==
  ASSUME NEW S, S \subseteq Nat, S # {}
  PROVE  \E n \in S : \A m \in S : m >= n
<1>1. IsWellFoundedOn(OpToRel(<, Nat), Nat)
  BY NatLessThanWellFounded
<1>2. PICK n \in S : \A m \in S : ~ (<<m, n>> \in OpToRel(<, Nat))
  BY <1>1, WFMin
<1>3. \A m \in S : ~ (m < n)
  BY <1>2 DEF OpToRel
<1> QED BY <1>3

\* One element of a set, and what is left of it.
LEMMA PickedOne ==
  ASSUME NEW S, IsFiniteSet(S), NEW s \in SUBSET S, s # {}
  PROVE  /\ Picks(s) \in s /\ s \ {Picks(s)} \in SUBSET S
         /\ Cardinality(s) \in Nat /\ Cardinality(s \ {Picks(s)}) \in Nat
         /\ Cardinality(s \ {Picks(s)}) < Cardinality(s)
<1> DEFINE p == Picks(s)
<1>1. IsFiniteSet(s) /\ p \in s
  BY FS_Subset DEF Picks
<1> HIDE DEF p
<1>2. IsFiniteSet(s \ {p}) /\ Cardinality(s \ {p}) = Cardinality(s) - 1
  BY <1>1, FS_RemoveElement
<1>3. Cardinality(s) \in Nat /\ Cardinality(s \ {p}) \in Nat
  BY <1>1, <1>2, FS_CardinalityType
<1>4. Cardinality(s \ {p}) < Cardinality(s) /\ s \ {p} \in SUBSET S
  BY <1>2, <1>3
<1> QED BY <1>1, <1>3, <1>4 DEF p

\* Such a function exists: the sums of the parts with n elements give those of
\* the parts with one more.
LEMMA SumsExist ==
  ASSUME NEW S, IsFiniteSet(S), NEW g PROVE \E sum : Sums(S, g, sum)
<1> DEFINE Small(n) == {s \in SUBSET S : Cardinality(s) <= n}
           UpTo(n, sum) == sum = [s \in Small(n) |-> IF s = {} THEN 0 ELSE g[Picks(s)] + sum[s \ {Picks(s)}]]
           Missing == {n \in Nat : ~ \E sum : UpTo(n, sum)}
<1>0. \A s \in SUBSET S : IsFiniteSet(s) /\ Cardinality(s) \in Nat
  BY FS_Subset, FS_CardinalityType
<1>1. \A s \in SUBSET S : s # {} => /\ Picks(s) \in s /\ s \ {Picks(s)} \in SUBSET S
                                    /\ Cardinality(s \ {Picks(s)}) = Cardinality(s) - 1
  BY <1>0, FS_RemoveElement DEF Picks
<1>2. Missing = {}
  <2> SUFFICES ASSUME Missing # {} PROVE FALSE
    OBVIOUS
  <2>1. PICK n \in Missing : \A m \in Missing : m >= n
    BY LeastNumber
  <2>2. CASE n = 0
    <3>1. Small(0) = {{}}
      BY <1>0, FS_EmptySet
    <3>2. UpTo(0, [s \in Small(0) |-> 0])
      BY <3>1
    <3> QED BY <2>1, <2>2, <3>2
  <2>3. CASE n # 0
    <3>1. n - 1 \in Nat /\ n - 1 \notin Missing
      <4>1. n \in Nat
        BY <2>1
      <4>2. n - 1 \in Nat /\ ~ (n - 1 >= n)
        BY <2>3, <4>1
      <4> HIDE DEF Missing
      <4> QED BY <2>1, <4>2
    <3>2. PICK sum : UpTo(n - 1, sum)
      BY <3>1
    <3> DEFINE next == [s \in Small(n) |-> IF s = {} THEN 0 ELSE g[Picks(s)] + sum[s \ {Picks(s)}]]
    <3>3. \A s \in Small(n - 1) : s \in Small(n) /\ next[s] = sum[s]
      <4>1. Small(n - 1) \subseteq Small(n)
        BY <1>0, <3>1
      <4> QED BY <3>2, <4>1
    <3>4. \A s \in Small(n) : s # {} => s \ {Picks(s)} \in Small(n - 1)
      BY <1>0, <1>1, <3>1
    <3>5. UpTo(n, next)
      BY <3>3, <3>4
    <3> QED BY <2>1, <3>5
  <2> QED BY <2>2, <2>3
<1>3. Cardinality(S) \in Nat /\ Small(Cardinality(S)) = SUBSET S
  BY <1>0, FS_Subset
<1>4. PICK sum : UpTo(Cardinality(S), sum)
  BY <1>2, <1>3
<1>5. Sums(S, g, sum)
  BY <1>3, <1>4 DEF Sums
<1> QED BY <1>5

LEMMA SumIs ==
  ASSUME NEW S, IsFiniteSet(S), NEW g, DOMAIN g = S
  PROVE  \E sum : Sums(S, g, sum) /\ SumFunction(g) = sum[S]
<1> DEFINE sums == CHOOSE sum : Sums(S, g, sum)
<1>1. Sums(S, g, sums)
  BY SumsExist
<1>2. SumFunction(g) = sums[S]
  BY DEF Sums, SumFunction, SumFunctionOnSet, FoldFunctionOnSet, MapThenFoldSet, Picks
<1> QED BY <1>1, <1>2

\* The sum changes by what one summand changes by.
LEMMA SumMoves ==
  ASSUME NEW S, IsFiniteSet(S), NEW g \in [S -> Int], NEW h \in [S -> Int],
         NEW w \in S, \A v \in S \ {w} : h[v] = g[v]
  PROVE  /\ SumFunction(g) \in Int
         /\ SumFunction(h) = SumFunction(g) + h[w] - g[w]
<1>1. PICK a : Sums(S, g, a) /\ SumFunction(g) = a[S]
  BY SumIs
<1>2. PICK b : Sums(S, h, b) /\ SumFunction(h) = b[S]
  BY SumIs
<1> DEFINE Moved(s) == IF w \in s THEN h[w] - g[w] ELSE 0
           Good(s) == a[s] \in Int /\ b[s] = a[s] + Moved(s)
           Bad == {s \in SUBSET S : ~ Good(s)}
           Sizes == {Cardinality(s) : s \in Bad}
<1>3. \A s \in SUBSET S : s # {} => a[s] = g[Picks(s)] + a[s \ {Picks(s)}] /\ b[s] = h[Picks(s)] + b[s \ {Picks(s)}]
  BY <1>1, <1>2 DEF Sums
<1>4. a[{}] = 0 /\ b[{}] = 0
  BY <1>1, <1>2 DEF Sums
<1>5. Bad = {}
  <2> SUFFICES ASSUME Bad # {} PROVE FALSE
    OBVIOUS
  <2>1. Sizes # {} /\ Sizes \subseteq Nat
    BY FS_Subset, FS_CardinalityType
  <2>2. PICK n \in Sizes : \A m \in Sizes : m >= n
    BY <2>1, LeastNumber
  <2>3. PICK s \in Bad : n = Cardinality(s)
    BY <2>2
  <2>4. s # {}
    <3>1. Moved({}) = 0
      OBVIOUS
    <3>2. Good({})
      BY <1>4, <3>1
    <3> HIDE DEF Good
    <3> QED BY <2>3, <3>2
  <2> DEFINE p == Picks(s)
             rest == s \ {p}
  <2>5. p \in s /\ p \in S /\ rest \in SUBSET S /\ Cardinality(rest) < Cardinality(s)
        /\ Cardinality(rest) \in Nat /\ Cardinality(s) \in Nat
    BY <2>3, <2>4, PickedOne
  <2>6. Good(rest)
    BY <2>2, <2>3, <2>5
  <2>7. a[s] = g[p] + a[rest] /\ b[s] = h[p] + b[rest]
    BY <1>3, <2>3, <2>4
  <2>8. Good(s)
    <3>1. g[p] \in Int /\ h[p] \in Int /\ g[w] \in Int /\ h[w] \in Int
      BY <2>5
    <3>2. CASE p = w
      BY <2>5, <2>6, <2>7, <3>1, <3>2
    <3>3. CASE p # w
      BY <2>5, <2>6, <2>7, <3>1, <3>3
    <3> QED BY <3>2, <3>3
  <2> QED BY <2>3, <2>8
<1> QED BY <1>1, <1>2, <1>5

\* Nothing reported sums up to nothing.
LEMMA SumOfNothing ==
  ASSUME NEW S, IsFiniteSet(S) PROVE SumFunction([v \in S |-> 0]) = 0
<1> DEFINE g == [v \in S |-> 0]
<1>1. PICK a : Sums(S, g, a) /\ SumFunction(g) = a[S]
  BY SumIs
<1> DEFINE Bad == {s \in SUBSET S : a[s] # 0}
           Sizes == {Cardinality(s) : s \in Bad}
<1>2. Bad = {}
  <2> SUFFICES ASSUME Bad # {} PROVE FALSE
    OBVIOUS
  <2>1. Sizes # {} /\ Sizes \subseteq Nat
    BY FS_Subset, FS_CardinalityType
  <2>2. PICK n \in Sizes : \A m \in Sizes : m >= n
    BY <2>1, LeastNumber
  <2>3. PICK s \in Bad : n = Cardinality(s)
    BY <2>2
  <2>4. s # {}
    BY <1>1, <2>3 DEF Sums
  <2>5. /\ Picks(s) \in S /\ s \ {Picks(s)} \in SUBSET S /\ Cardinality(s \ {Picks(s)}) < Cardinality(s)
        /\ Cardinality(s \ {Picks(s)}) \in Nat /\ Cardinality(s) \in Nat
    BY <2>3, <2>4, PickedOne
  <2>6. a[s \ {Picks(s)}] = 0
    BY <2>2, <2>3, <2>5
  <2>7. a[s] = g[Picks(s)] + a[s \ {Picks(s)}]
    BY <1>1, <2>3, <2>4 DEF Sums
  <2> QED BY <2>3, <2>5, <2>6, <2>7
<1> QED BY <1>1, <1>2

-----------------------------------------------------------------------------
(* The steps of the queue, and types. *)

\* What reports is a step of the queue.
LEMMA QueueSteps == [MetricsNext]_metricsVars => [Next]_vars
<1>1. MetricsNext => [Next]_vars
  <2>1. Silent => Next
    BY DEF Silent, Next, LifeStep, ExecStep
  <2>2. \A j \in Jobs : ApiCommits(j) => Next
    BY DEF ApiCommits, Next, ApiStep
  <2>3. \A w \in Workers : Kill(w) \/ UnhandledRejection(w) => Next
    BY DEF Next, LifeStep
  <2>4. \A e \in execs : ExecReports(e) => Next
    BY DEF ExecReports, Next, ExecStep
  <2> QED BY <2>1, <2>2, <2>3, <2>4 DEF MetricsNext, ApiAnswered
<1> QED BY <1>1 DEF metricsVars, vars

\* Of the queue, what the metrics depend on.
QueueInv == OwnInv /\ StolenMeansLost /\ DeadLetterExhausted /\ IsFiniteSet(execs)

LEMMA QueueInvAlways == MetricsSpec => []QueueInv
<1>1. MetricsSpec => Spec
  <2>1. MetricsInit => Init
    BY DEF MetricsInit
  <2> QED BY <2>1, QueueSteps, PTL DEF MetricsSpec, Spec
<1>2. Spec => []IsFiniteSet(execs)
  <2>1. Init => IsFiniteSet(execs)
    BY FS_EmptySet DEF Init
  <2>2. OwnInv /\ IsFiniteSet(execs) /\ [Next]_vars => IsFiniteSet(execs)'
    BY ExecsFinite DEF OwnInv, RowInv
  <2> QED BY <2>1, <2>2, OwnInvAlways, PTL DEF Spec
<1> QED BY <1>1, <1>2, OwnInvAlways, StolenIsLost, DeadLettersExhausted, PTL DEF QueueInv

\* How many rows a step turns, and that the history counts them.
LEMMA TurnedType == ASSUME NEW from, NEW to PROVE Turned(from, to) \in Nat
<1>1. {j \in Jobs : row[j].status \in from /\ row'[j].status = to} \subseteq Jobs
  OBVIOUS
<1> QED BY <1>1, JobsFinite, FS_Subset, FS_CardinalityType DEF Turned

LEMMA MovedBy ==
  ASSUME MetricsTypeOK, [MetricsNext]_metricsVars
  PROVE  /\ moved'.requeued = moved.requeued + Turned({"running", "completed"}, "pending")
         /\ moved'.completed = moved.completed + Turned({"running"}, "completed")
         /\ moved' \in [requeued : Nat, completed : Nat]
<1>1. CASE row' = row /\ moved' = moved
  <2>1. Turned({"running", "completed"}, "pending") = 0 /\ Turned({"running"}, "completed") = 0
    <3>1. ASSUME NEW from, NEW to, to \notin from PROVE Turned(from, to) = 0
      <4>1. {j \in Jobs : row[j].status \in from /\ row'[j].status = to} = {}
        BY <1>1, <3>1
      <4> QED BY <4>1, FS_EmptySet DEF Turned
    <3> QED BY <3>1
  <2> QED BY <1>1, <2>1 DEF MetricsTypeOK
<1>2. CASE Observe /\ row' # row
  BY <1>2, TurnedType DEF Observe, MetricsTypeOK
<1> QED BY <1>1, <1>2 DEF MetricsNext, Observe, metricsVars, vars

\* The steps that report, and what.
LEMMA MetricSteps ==
  ASSUME TypeOK, [MetricsNext]_metricsVars
  PROVE  \/ UNCHANGED reported
         \/ \E what \in {"added", "removed"} : Commits(what)
         \/ \E what \in {"added", "removed"}, n \in {-1, 1} : ApiMoves(what, n)
         \/ \E w \in Workers : (Kill(w) \/ UnhandledRejection(w)) /\ Forget(w)
         \/ \E e \in execs : ExecReports(e)
BY DEF MetricsNext, Silent, ApiCommits, RetryCommits, ApiAnswered, metricsVars, reported

LEMMA TypeStep ==
  ASSUME TypeOK, MetricsTypeOK, [MetricsNext]_metricsVars
  PROVE  MetricsTypeOK'
<1>1. moved' \in [requeued : Nat, completed : Nat]
  BY MovedBy
<1>2. \A w \in Workers :
        /\ metric[w] \in [pending : {n \in Int : n <= 0}, running : Int, completed : Nat]
        /\ metric[w].pending \in Int /\ metric[w].pending <= 0
        /\ metric[w].running \in Int /\ metric[w].completed \in Nat
  BY DEF MetricsTypeOK
<1>3. /\ apiPending \in Int /\ unanswered \in [added : Nat, removed : Nat]
      /\ unanswered.added \in Nat /\ unanswered.removed \in Nat
  BY DEF MetricsTypeOK
<1>4. /\ apiPending' \in Int /\ unanswered' \in [added : Nat, removed : Nat]
  <2>1. CASE UNCHANGED <<apiPending, unanswered>>
    BY <1>3, <2>1
  <2>2. ASSUME NEW what \in {"added", "removed"}, Commits(what)
        PROVE  apiPending' \in Int /\ unanswered' \in [added : Nat, removed : Nat]
    BY <1>3, <2>2 DEF Commits
  <2>3. ASSUME NEW what \in {"added", "removed"}, NEW n \in {-1, 1}, ApiMoves(what, n)
        PROVE  apiPending' \in Int /\ unanswered' \in [added : Nat, removed : Nat]
    BY <1>3, <2>3 DEF ApiMoves
  <2> QED BY <2>1, <2>2, <2>3, MetricSteps DEF reported, Forget, ExecReports, StartMoves, AckMoves, NackMoves
<1>5. metric' \in [Workers -> [pending : {n \in Int : n <= 0}, running : Int, completed : Nat]]
  <2>1. CASE metric' = metric
    BY <2>1 DEF MetricsTypeOK
  <2>2. CASE \E w \in Workers : Forget(w)
    BY <2>2 DEF Forget, NoMoves, MetricsTypeOK
  <2>3. ASSUME NEW e \in execs, ExecReports(e)
        PROVE  metric' \in [Workers -> [pending : {n \in Int : n <= 0}, running : Int, completed : Nat]]
    <3>1. e.worker \in Workers
      BY DEF TypeOK, Execs
    <3>2. /\ metric \in [Workers -> [pending : Int, running : Int, completed : Nat]]
          /\ \A w \in Workers : metric[w].pending <= 0 /\ metric[w].pending - 1 <= 0
      BY <1>2 DEF MetricsTypeOK
    <3>3. metric' \in [Workers -> [pending : Int, running : Int, completed : Nat]]
      BY <1>2, <2>3, <3>1, <3>2 DEF ExecReports, StartMoves, AckMoves, NackMoves
    <3>4. ASSUME NEW w \in Workers PROVE metric'[w].pending \in {metric[w].pending, metric[w].pending - 1}
      BY <2>3, <3>1, <3>2 DEF ExecReports, StartMoves, AckMoves, NackMoves
    <3>5. \A w \in Workers : metric'[w] \in [pending : {n \in Int : n <= 0}, running : Int, completed : Nat]
      BY <3>2, <3>3, <3>4
    <3> QED BY <3>3, <3>5
  <2> QED BY <2>1, <2>2, <2>3, MetricSteps DEF reported, Commits, ApiMoves
<1> QED BY <1>1, <1>4, <1>5 DEF MetricsTypeOK

LEMMA InitMetrics == MetricsInit => MetricsTypeOK
BY DEF MetricsInit, MetricsTypeOK, NoMoves, NothingMoved, AllAnswered

LEMMA TypeAlways == MetricsSpec => [](QueueInv /\ MetricsTypeOK)
<1>1. QueueInv /\ MetricsTypeOK /\ [MetricsNext]_metricsVars => MetricsTypeOK'
  BY TypeStep DEF QueueInv, OwnInv, RowInv
<1> QED BY <1>1, InitMetrics, QueueInvAlways, PTL DEF MetricsSpec

\* Every variable holds values of its type: the counter is a natural number, and what
\* a worker tells of pending jobs is never positive (executor.ts:30, 55), whatever the
\* processes report and whichever of them end.
THEOREM MetricsTypeCorrect == MetricsSpec => []MetricsTypeOK
BY TypeAlways, PTL

-----------------------------------------------------------------------------
(* Executions that lost their job, or are about to: each was paid for by a     *)
(* lease that lapsed under a live holder or by a call that failed, and each    *)
(* misleads a gauge or the counter at most once.                               *)

Sound(e) == Owns(e) /\ ~ Stale(row[e.job])

Settling == {"claimed", "working", "acking", "nacking"}

\* The executions of some workers that may settle what is not theirs any more.
Doomed(V) == {e \in execs : e.worker \in V /\ e.pc \in Settling /\ ~ Sound(e)}

LEMMA InvParts ==
  ASSUME QueueInv
  PROVE  /\ TypeOK /\ RowInv /\ ClaimsNamed /\ RowShape /\ LocksHold /\ StolenMeansLost
         /\ IsFiniteSet(execs)
         /\ \A e \in execs : e \in Execs /\ e.job \in Jobs /\ e.worker \in Workers /\ row[e.job] \in Rows
BY DEF QueueInv, OwnInv, RowInv, TypeOK, Execs

\* Two sound executions of a job are one.
LEMMA SoundOnce ==
  ASSUME QueueInv, NEW e \in execs, NEW f \in execs, Sound(e), Sound(f), e.job = f.job
  PROVE  e = f
BY InvParts DEF Sound, Owns, ClaimsNamed

\* What a step changes is one row, or rows whose lease lapsed.
LEMMA OneRow ==
  ASSUME TypeOK, [Next]_vars, NEW j \in Jobs, NEW k \in Jobs,
         row'[j] # row[j], row'[k] # row[k], ~ Stale(row[j]), ~ Stale(row[k])
  PROVE  j = k
<1>1. CASE UNCHANGED vars
  BY <1>1 DEF vars
<1>2. ASSUME NEW i \in Jobs, ApiStep(i) \/ ClockStep(i) PROVE j = k
  BY <1>2 DEF ApiStep, Submit, Cancel, RetryDlq, ClockStep, BecomeDue, Lapse, Stall, TypeOK
<1>3. ASSUME NEW w \in Workers,
             \/ LifeStep(w) \/ LoopStep(w) \/ ClaimFails(w) \/ RecoverStaleLeases(w)
             \/ \E i \in Jobs : RenewLeaked(w, i)
      PROVE  j = k
  <2>1. CASE LifeStep(w)
    BY <2>1 DEF LifeStep, Start, Stop, LoopExit, Kill, UnhandledRejection, End
  <2>2. CASE LoopStep(w) \/ ClaimFails(w)
    BY <2>2 DEF LoopStep, GetEligibleTenantIds, ClaimNothing, ClaimLock, ClaimCommit, ClaimFails, TypeOK
  <2>3. CASE RecoverStaleLeases(w)
    BY <2>3 DEF RecoverStaleLeases
  <2>4. CASE \E i \in Jobs : RenewLeaked(w, i)
    BY <2>4 DEF RenewLeaked, TypeOK
  <2> QED BY <1>3, <2>1, <2>2, <2>3, <2>4
<1>4. ASSUME NEW e \in execs, ExecStep(e) \/ ExecFault(e) \/ Renew(e) PROVE j = k
  BY <1>4 DEF ExecStep, ExecFault, Renew, StartExecution, WorkDone, WorkFails, Ack, Nack, Notify,
       ClaimNotifyFails, AckFails, AckNotifyFails, NackFails, TypeOK
<1> QED BY <1>1, <1>2, <1>3, <1>4 DEF Next

\* What ends the soundness of an execution that goes on: a lease that lapses, or
\* another execution of its worker that settles the job.
LEMMA SoundBreaks ==
  ASSUME QueueInv, [Next]_vars, NEW f \in execs, f \in execs', Sound(f), ~ Sound(f)'
  PROVE  /\ row'[f.job] # row[f.job]
         /\ \/ spent'["stalls"] > spent["stalls"]
            \/ \E e \in execs : /\ e.job = f.job /\ e.worker = f.worker
                                /\ e.pc \in {"acking", "nacking"} /\ e \notin execs'
<1> DEFINE k == f.job
<1>1. /\ TypeOK /\ RowInv /\ k \in Jobs /\ f.worker \in Workers /\ row[k] \in Rows /\ RowStep(k)
      /\ claims \in [Jobs -> Nat]
  BY InvParts, RowSteps DEF TypeOK
<1>2. row[k].status = "running" /\ row[k].worker = f.worker /\ claims[k] = f.claim /\ ~ Stale(row[k])
  BY DEF Sound, Owns
<1>3. \A w \in Workers : poll[w].pc = "locked" => poll[w].job # k
  BY <1>1, <1>2 DEF RowInv, LocksHold
<1>4. claims'[k] = claims[k]
  BY <1>1, <1>2, ClaimsSteps
<1>5. ~ (row'[k].status = "running" /\ row'[k].worker = f.worker /\ ~ Stale(row'[k]))
  BY <1>2, <1>4 DEF Sound, Owns, Stale
<1>6. row'[k] # row[k] /\ row'[k] # [row[k] EXCEPT !.scheduled = "due"] /\ row'[k] # [row[k] EXCEPT !.lease = "live"]
  BY <1>1, <1>2, <1>5 DEF Rows, Stale
<1>7. Held(k)
  BY <1>1, <1>2 DEF Held, Executing
<1>8. \A e \in execs : row'[k] = AckedRow(row[k], e) \/ row'[k] = NackedRow(row[k], e) => e.worker = f.worker
  BY <1>2, <1>6 DEF AckedRow, NackedRow, OwnerMatches
<1> QED BY <1>1, <1>2, <1>3, <1>6, <1>7, <1>8 DEF RowStep

\* A step that starts no execution in a doomed state dooms at most one, for which a
\* lease lapsed or another doomed one ends.
LEMMA DoomedStays ==
  ASSUME QueueInv, [Next]_vars, NEW V, \A f \in Doomed(V)' : f \in execs
  PROVE  \/ Doomed(V)' \subseteq Doomed(V)
         \/ \E f \in execs : /\ spent'["stalls"] > spent["stalls"]
                             /\ Doomed(V)' \subseteq Doomed(V) \cup {f}
         \/ \E f \in execs, e \in Doomed(V) :
              e \notin execs' /\ Doomed(V)' \subseteq (Doomed(V) \ {e}) \cup {f}
<1> SUFFICES ASSUME NEW f \in Doomed(V)', f \notin Doomed(V)
             PROVE  \/ spent'["stalls"] > spent["stalls"] /\ Doomed(V)' \subseteq Doomed(V) \cup {f}
                    \/ \E e \in Doomed(V) :
                         e \notin execs' /\ Doomed(V)' \subseteq (Doomed(V) \ {e}) \cup {f}
  OBVIOUS
<1>1. \A g \in Doomed(V)' : /\ g \in execs /\ g \in execs' /\ g.worker \in V /\ g.pc \in Settling /\ ~ Sound(g)'
                            /\ g \notin Doomed(V) => Sound(g)
  BY DEF Doomed, Sound, Owns, Stale
<1>2. \A g \in Doomed(V)' : g \notin Doomed(V) => row'[g.job] # row[g.job] /\ ~ Stale(row[g.job]) /\ g.job \in Jobs
  BY <1>1, SoundBreaks, InvParts DEF Sound
<1>3. Doomed(V)' \subseteq Doomed(V) \cup {f}
  BY <1>1, <1>2, OneRow, SoundOnce, InvParts
<1>4. ASSUME NEW e \in execs, e.job = f.job, e.worker = f.worker, e.pc \in {"acking", "nacking"}, e \notin execs'
      PROVE  e \in Doomed(V)
  <2>1. ~ Sound(e)
    BY <1>1, <1>4, SoundOnce
  <2> QED BY <1>1, <1>4, <2>1 DEF Doomed, Settling
<1>5. ASSUME NEW e \in Doomed(V), e \notin execs'
      PROVE  Doomed(V)' \subseteq (Doomed(V) \ {e}) \cup {f}
  BY <1>1, <1>3, <1>5
<1> QED BY <1>1, <1>3, <1>4, <1>5, SoundBreaks

LEMMA Counts ==
  ASSUME NEW A, IsFiniteSet(A), NEW B, NEW f
  PROVE  /\ Cardinality(A) \in Nat
         /\ B \subseteq A => IsFiniteSet(B) /\ Cardinality(B) \in Nat /\ Cardinality(B) <= Cardinality(A)
         /\ B \subseteq A \cup {f} => IsFiniteSet(B) /\ Cardinality(B) \in Nat /\ Cardinality(B) <= Cardinality(A) + 1
         /\ \A e \in A : B \subseteq A \ {e} =>
              IsFiniteSet(B) /\ Cardinality(B) \in Nat /\ Cardinality(B) <= Cardinality(A) - 1
         /\ \A e \in A : B \subseteq (A \ {e}) \cup {f} =>
              IsFiniteSet(B) /\ Cardinality(B) \in Nat /\ Cardinality(B) <= Cardinality(A)
<1>1. Cardinality(A) \in Nat
  BY FS_CardinalityType
<1>2. B \subseteq A => IsFiniteSet(B) /\ Cardinality(B) \in Nat /\ Cardinality(B) <= Cardinality(A)
  BY FS_Subset, FS_CardinalityType
<1>3. ASSUME NEW C, IsFiniteSet(C), B \subseteq C \cup {f}
      PROVE  IsFiniteSet(B) /\ Cardinality(B) \in Nat /\ Cardinality(B) <= Cardinality(C) + 1
  <2>1. IsFiniteSet(C \cup {f}) /\ Cardinality(C) \in Nat /\ Cardinality(C \cup {f}) \in Nat
    BY <1>3, FS_AddElement, FS_CardinalityType
  <2>2. Cardinality(C \cup {f}) <= Cardinality(C) + 1
    BY <1>3, <2>1, FS_AddElement
  <2>3. IsFiniteSet(B) /\ Cardinality(B) \in Nat /\ Cardinality(B) <= Cardinality(C \cup {f})
    BY <1>3, <2>1, FS_Subset, FS_CardinalityType
  <2> QED BY <2>1, <2>2, <2>3
<1>4. ASSUME NEW e \in A
      PROVE  IsFiniteSet(A \ {e}) /\ Cardinality(A \ {e}) = Cardinality(A) - 1 /\ Cardinality(A \ {e}) \in Nat
  BY FS_RemoveElement, FS_CardinalityType
<1>5. ASSUME NEW e \in A, B \subseteq A \ {e}
      PROVE  IsFiniteSet(B) /\ Cardinality(B) \in Nat /\ Cardinality(B) <= Cardinality(A) - 1
  BY <1>4, <1>5, FS_Subset, FS_CardinalityType
<1>6. ASSUME NEW e \in A, B \subseteq (A \ {e}) \cup {f}
      PROVE  IsFiniteSet(B) /\ Cardinality(B) \in Nat /\ Cardinality(B) <= Cardinality(A)
  <2>1. IsFiniteSet(A \ {e}) /\ Cardinality(A \ {e}) = Cardinality(A) - 1
    BY <1>4, <1>6
  <2>2. Cardinality(B) <= Cardinality(A \ {e}) + 1 /\ IsFiniteSet(B) /\ Cardinality(B) \in Nat
    BY <1>3, <1>6, <2>1
  <2> QED BY <1>1, <2>1, <2>2
<1> QED BY <1>1, <1>2, <1>3, <1>5, <1>6

\* An execution whose record is replaced while the table stays.
LEMMA DoomedReplaced ==
  ASSUME UNCHANGED <<row, claims>>, NEW e \in execs, NEW f, execs' = (execs \ {e}) \cup {f},
         f.job = e.job, f.claim = e.claim, f.worker = e.worker, NEW V
  PROVE  /\ e.pc \in Settling =>
              Doomed(V)' \subseteq Doomed(V) \/ (e \in Doomed(V) /\ Doomed(V)' \subseteq (Doomed(V) \ {e}) \cup {f})
         /\ Doomed(V)' \subseteq Doomed(V) \cup {f}
<1>1. \A g : Sound(g)' <=> Sound(g)
  BY DEF Sound, Owns, Stale
<1>2. Sound(f) <=> Sound(e)
  BY DEF Sound, Owns
<1> QED BY <1>1, <1>2 DEF Doomed

\* What the one call that may fail without being an end dooms.
LEMMA DoomedByAck ==
  ASSUME QueueInv, [Next]_vars, NEW e \in execs, NEW f, execs' = (execs \ {e}) \cup {f},
         e \notin execs', e.pc = "acking",
         row' = [row EXCEPT ![e.job] = AckedRow(@, e)], spent'["stalls"] = spent["stalls"], NEW V
  PROVE  \/ Doomed(V)' \subseteq Doomed(V) \cup {f}
         \/ \E g \in execs : e \in Doomed(V) /\ Doomed(V)' \subseteq ((Doomed(V) \ {e}) \cup {f}) \cup {g}
<1>1. \A g \in Doomed(V)' : /\ g # f => g \in execs /\ g \in execs' /\ g # e /\ g.worker \in V /\ g.pc \in Settling
                            /\ ~ Sound(g)'
  BY DEF Doomed, Sound, Owns, Stale
<1>2. ASSUME NEW g \in Doomed(V)', g # f, g \notin Doomed(V)
      PROVE  /\ g \in execs /\ Sound(g) /\ g.job = e.job /\ g.worker = e.worker /\ e \in Doomed(V)
  <2>1. Sound(g) /\ g \in execs /\ g \in execs' /\ ~ Sound(g)' /\ g # e /\ g.worker \in V
    BY <1>1, <1>2 DEF Doomed
  <2>2. row'[g.job] # row[g.job] /\ \E d \in execs : d.job = g.job /\ d.worker = g.worker /\ d \notin execs'
    BY <2>1, SoundBreaks, InvParts DEF TypeOK, Kinds
  <2>3. g.job = e.job /\ g.worker = e.worker
    BY <2>2
  <2>4. ~ Sound(e)
    BY <2>1, <2>3, SoundOnce
  <2> QED BY <2>1, <2>3, <2>4 DEF Doomed, Settling
<1>3. \A g, h \in Doomed(V)' : g # f /\ h # f /\ g \notin Doomed(V) /\ h \notin Doomed(V) => g = h
  BY <1>2, SoundOnce
<1>4. CASE \E g \in Doomed(V)' : g # f /\ g \notin Doomed(V)
  BY <1>1, <1>2, <1>3, <1>4
<1> QED BY <1>4

\* Executions are doomed one at a time, by a lease that lapses under a live holder or
\* by a failing ack.
LEMMA DoomedCount ==
  ASSUME QueueInv, [Next]_vars, NEW V
  PROVE  /\ IsFiniteSet(Doomed(V)) /\ Cardinality(Doomed(V)) \in Nat /\ Cardinality(Doomed(V)') \in Nat
         /\ \/ Cardinality(Doomed(V)') <= Cardinality(Doomed(V))
            \/ /\ Cardinality(Doomed(V)') <= Cardinality(Doomed(V)) + 1
               /\ \/ spent'["stalls"] > spent["stalls"]
                  \/ \E e \in execs : AckFails(e) \/ AckNotifyFails(e)
<1> DEFINE D == Doomed(V)
           Counted ==
             \/ Cardinality(D') <= Cardinality(D)
             \/ /\ Cardinality(D') <= Cardinality(D) + 1
                /\ \/ spent'["stalls"] > spent["stalls"]
                   \/ \E e \in execs : AckFails(e) \/ AckNotifyFails(e)
<1>1. IsFiniteSet(D) /\ IsFiniteSet(D') /\ Cardinality(D) \in Nat /\ Cardinality(D') \in Nat
  <2>1. IsFiniteSet(execs) /\ IsFiniteSet(execs')
    BY InvParts, ExecsFinite
  <2>2. D \subseteq execs /\ D' \subseteq execs'
    BY DEF Doomed
  <2> QED BY <2>1, <2>2, FS_Subset, FS_CardinalityType
<1>2. \A f, e : /\ D' \subseteq D => Counted
                /\ e \in D /\ D' \subseteq (D \ {e}) \cup {f} => Counted
                /\ D' \subseteq D \cup {f} => Cardinality(D') <= Cardinality(D) + 1
  BY <1>1, Counts
<1>3. (\A f \in D' : f \in execs) => Counted
  BY <1>2, DoomedStays
<1> HIDE DEF Counted
<1>4. ASSUME UNCHANGED vars PROVE Counted
  BY <1>3, <1>4 DEF vars, Doomed
<1>5. ASSUME NEW j \in Jobs, ApiStep(j) \/ ClockStep(j) PROVE Counted
  <2>1. execs' = execs
    BY <1>5 DEF ApiStep, Submit, Cancel, RetryDlq, ClockStep, BecomeDue, Lapse, Stall
  <2> QED BY <1>3, <2>1 DEF Doomed
<1>6. ASSUME NEW w \in Workers,
             \/ LifeStep(w) \/ LoopStep(w) \/ ClaimFails(w) \/ RecoverStaleLeases(w)
             \/ \E j \in Jobs : RenewLeaked(w, j)
      PROVE  Counted
  <2>1. CASE ClaimCommit(w)
    <3>1. poll[w].job \in Jobs /\ row[poll[w].job] \in Rows
      BY <2>1, InvParts, ClaimsSteps DEF ClaimCommit, TypeOK, Polls
    <3>2. \A f \in D' : f \in execs' /\ ~ Sound(f)'
      BY DEF Doomed, Sound, Owns, Stale
    <3>3. execs' = execs \cup {NewExecution(w)}
      BY <2>1 DEF ClaimCommit
    <3>4. \A f : f = NewExecution(w) => Sound(f)'
      <4>1. \A f : f = NewExecution(w) => f.job = poll[w].job /\ f.worker = w /\ f.claim = claims[poll[w].job] + 1
        BY DEF NewExecution
      <4>2. /\ row'[poll[w].job].status = "running" /\ row'[poll[w].job].worker = w
            /\ row'[poll[w].job].lease = "live"
            /\ claims'[poll[w].job] = claims[poll[w].job] + 1
        BY <2>1, <3>1, InvParts DEF ClaimCommit, ClaimedRow, Rows, TypeOK
      <4> QED BY <4>1, <4>2 DEF Sound, Owns, Stale
    <3> QED BY <1>3, <3>2, <3>3, <3>4
  <2>2. CASE ~ ClaimCommit(w)
    <3>1. execs' \subseteq execs
      BY <1>6, <2>2 DEF LifeStep, Start, Stop, LoopExit, Kill, UnhandledRejection, End, LoopStep,
         GetEligibleTenantIds, ClaimNothing, ClaimLock, ClaimFails, RecoverStaleLeases, RenewLeaked
    <3> QED BY <1>3, <3>1 DEF Doomed
  <2> QED BY <2>1, <2>2
<1>7. ASSUME NEW e \in execs, ExecStep(e) \/ ExecFault(e) \/ Renew(e)
      PROVE  Counted
  <2>0. /\ e \in Execs /\ TypeOK /\ spent["stalls"] \in Nat
        /\ \A pc : LET f == [e EXCEPT !.pc = pc] IN
             f.pc = pc /\ f.job = e.job /\ f.claim = e.claim /\ f.worker = e.worker
        /\ LET f == [e EXCEPT !.stolen = TRUE] IN
             f.pc = e.pc /\ f.job = e.job /\ f.claim = e.claim /\ f.worker = e.worker
    BY InvParts DEF Execs, TypeOK, Kinds
  <2>1. CASE Finish(e)
    BY <1>3, <2>1 DEF Finish, Doomed
  <2>2. ASSUME NEW f, execs' = (execs \ {e}) \cup {f}, f.pc \in {"acked", "nacked"}
        PROVE  Counted
    BY <1>3, <2>2 DEF Doomed, Settling
  <2>3. ASSUME UNCHANGED <<row, claims>>, e.pc \in Settling, NEW f, execs' = (execs \ {e}) \cup {f},
               f.job = e.job, f.claim = e.claim, f.worker = e.worker
        PROVE  Counted
    <3>1. D' \subseteq D \/ (e \in D /\ D' \subseteq (D \ {e}) \cup {f})
      BY <2>3, DoomedReplaced
    <3> QED BY <1>2, <3>1
  <2>4. CASE StartExecution(e) \/ WorkFails(e) \/ WorkDone(e)
    <3>1. /\ UNCHANGED <<row, claims>> /\ e.pc \in Settling
          /\ Finish(e) \/ \E pc : Advance(e, pc)
      BY <2>4 DEF StartExecution, WorkFails, WorkDone, Settling
    <3>2. ASSUME NEW pc, Advance(e, pc) PROVE Counted
      <4> DEFINE f == [e EXCEPT !.pc = pc]
      <4>1. f.job = e.job /\ f.claim = e.claim /\ f.worker = e.worker
        BY <2>0
      <4>2. execs' = (execs \ {e}) \cup {f}
        BY <3>2 DEF Advance, Become
      <4> HIDE DEF f
      <4> QED BY <2>3, <3>1, <4>1, <4>2
    <3> QED BY <2>1, <3>1, <3>2
  <2>5. CASE Renew(e)
    <3>1. CASE UNCHANGED execs
      BY <1>3, <3>1 DEF Doomed
    <3> QED BY <2>0, <2>3, <2>5, <3>1 DEF Renew, Become, Settling
  <2>6. CASE Ack(e) \/ Nack(e)
    BY <2>0, <2>1, <2>2, <2>6 DEF Ack, Nack, Advance, Become
  <2>7. CASE Notify(e) \/ ClaimNotifyFails(e) \/ NackFails(e)
    BY <2>1, <2>7 DEF Notify, ClaimNotifyFails, NackFails
  <2>8. CASE AckNotifyFails(e)
    <3> DEFINE f == [e EXCEPT !.pc = "nacking"]
    <3>1. D' \subseteq D \cup {f}
      BY <2>0, <2>8, DoomedReplaced DEF AckNotifyFails, Advance, Become
    <3> QED BY <1>2, <2>8, <3>1 DEF Counted
  <2>9. CASE AckFails(e)
    <3> DEFINE f == [e EXCEPT !.pc = "nacking"]
    <3>0. f.job = e.job /\ f.claim = e.claim /\ f.worker = e.worker
      BY <2>0
    <3>1. /\ execs' = (execs \ {e}) \cup {f} /\ e.pc = "acking" /\ claims' = claims
          /\ row' = row \/ row' = [row EXCEPT ![e.job] = AckedRow(@, e)]
          /\ spent'["stalls"] = spent["stalls"]
      BY <2>0, <2>9 DEF AckFails, Advance, Become, Spend, TypeOK, Kinds
    <3>2. e \notin execs'
      BY <2>0, <2>9, <3>1, AdvanceRemoves DEF AckFails
    <3> HIDE DEF f
    <3>3. CASE row' = row
      BY <2>3, <3>0, <3>1, <3>3 DEF Settling
    <3>4. CASE row' = [row EXCEPT ![e.job] = AckedRow(@, e)]
      <4>1. \/ D' \subseteq D \cup {f}
            \/ \E g \in execs : e \in D /\ D' \subseteq ((D \ {e}) \cup {f}) \cup {g}
        BY <3>1, <3>2, <3>4, DoomedByAck
      <4>2. ASSUME NEW g \in execs, e \in D, D' \subseteq ((D \ {e}) \cup {f}) \cup {g}
            PROVE  Cardinality(D') <= Cardinality(D) + 1
        <5> DEFINE C == (D \ {e}) \cup {f}
        <5>1. IsFiniteSet(C) /\ Cardinality(C) \in Nat /\ Cardinality(C) <= Cardinality(D)
          BY <1>1, <4>2, Counts
        <5>2. Cardinality(D') <= Cardinality(C) + 1
          BY <4>2, <5>1, Counts
        <5> QED BY <1>1, <5>1, <5>2
      <4> QED BY <1>2, <2>9, <4>1, <4>2 DEF Counted
    <3> QED BY <3>1, <3>3, <3>4
  <2> QED BY <1>7, <2>4, <2>5, <2>6, <2>7, <2>8, <2>9 DEF ExecStep, ExecFault
<1>8. Counted
  BY <1>4, <1>5, <1>6, <1>7 DEF Next
<1> QED BY <1>1, <1>8 DEF Counted

-----------------------------------------------------------------------------
(* The gauge of running jobs. *)

Gap(w) == metric[w].running - Cardinality(InProgress(w))

\* An execution's record is replaced by one of its own claim, which is not there yet.
LEMMA Replacement ==
  ASSUME QueueInv, NEW e \in execs, NEW f, f.job = e.job, f.claim = e.claim, f.worker = e.worker,
         execs' = (execs \ {e}) \cup {f}, NEW w
  PROVE  /\ e.worker # w => InProgress(w)' = InProgress(w)
         /\ e.worker = w =>
              InProgress(w)' = (InProgress(w) \ {e}) \cup (IF f.pc \in {"working", "acking", "nacking"} THEN {f} ELSE {})
         /\ f \in execs => f = e
<1>1. f \in execs => f = e
  BY InvParts DEF ClaimsNamed
<1> QED BY <1>1 DEF InProgress, Executing

LEMMA InProgressFinite ==
  ASSUME QueueInv, NEW w
  PROVE  IsFiniteSet(InProgress(w)) /\ Cardinality(InProgress(w)) \in Nat
<1>1. InProgress(w) \subseteq execs
  BY DEF InProgress, Executing
<1> QED BY <1>1, InvParts, FS_Subset, FS_CardinalityType

\* What the steps of an execution make of the number of jobs in progress.
LEMMA ProgressOf ==
  ASSUME QueueInv, NEW e \in execs, NEW w
  PROVE  /\ (e.worker # w \/ e.pc \notin {"working", "acking", "nacking"}) /\ Finish(e) =>
              Cardinality(InProgress(w)') = Cardinality(InProgress(w))
         /\ e.worker = w /\ e.pc \in {"working", "acking", "nacking"} /\ Finish(e) =>
              Cardinality(InProgress(w)') = Cardinality(InProgress(w)) - 1
         /\ \A f : f.job = e.job /\ f.claim = e.claim /\ f.worker = e.worker /\ Become(e, f) =>
              /\ e.worker # w => Cardinality(InProgress(w)') = Cardinality(InProgress(w))
              /\ /\ e.worker = w
                 /\ e.pc \in {"working", "acking", "nacking"} /\ f.pc \in {"working", "acking", "nacking"}
                 => Cardinality(InProgress(w)') = Cardinality(InProgress(w))
              /\ /\ e.worker = w
                 /\ e.pc \in {"working", "acking", "nacking"} /\ f.pc \notin {"working", "acking", "nacking"}
                 => Cardinality(InProgress(w)') = Cardinality(InProgress(w)) - 1
              /\ /\ e.worker = w
                 /\ e.pc \notin {"working", "acking", "nacking"} /\ f.pc \in {"working", "acking", "nacking"}
                 => Cardinality(InProgress(w)') = Cardinality(InProgress(w)) + 1
<1> DEFINE P == InProgress(w)
           Busy == {"working", "acking", "nacking"}
<1>1. IsFiniteSet(P) /\ Cardinality(P) \in Nat
  BY InProgressFinite
<1>2. e \in P <=> e.worker = w /\ e.pc \in Busy
  BY DEF InProgress, Executing
<1>3. Finish(e) => P' = P \ {e}
  BY DEF InProgress, Executing, Finish
<1>4. e \in P => IsFiniteSet(P \ {e}) /\ Cardinality(P \ {e}) = Cardinality(P) - 1
  BY <1>1, FS_RemoveElement
<1>5. e \notin P => P \ {e} = P
  OBVIOUS
<1>6. ASSUME NEW f, f.job = e.job, f.claim = e.claim, f.worker = e.worker, Become(e, f)
      PROVE  /\ e.worker # w => Cardinality(P') = Cardinality(P)
             /\ e.worker = w /\ e.pc \in Busy /\ f.pc \in Busy => Cardinality(P') = Cardinality(P)
             /\ e.worker = w /\ e.pc \in Busy /\ f.pc \notin Busy => Cardinality(P') = Cardinality(P) - 1
             /\ e.worker = w /\ e.pc \notin Busy /\ f.pc \in Busy => Cardinality(P') = Cardinality(P) + 1
  <2>1. /\ e.worker # w => P' = P
        /\ e.worker = w => P' = (P \ {e}) \cup (IF f.pc \in Busy THEN {f} ELSE {})
        /\ f \in execs => f = e
    BY <1>6, Replacement DEF Become
  <2>2. f \notin P \ {e}
    BY <2>1 DEF InProgress, Executing
  <2>3. IsFiniteSet(P \ {e}) /\ Cardinality((P \ {e}) \cup {f}) = Cardinality(P \ {e}) + 1
    BY <1>1, <1>4, <1>5, <2>2, FS_AddElement
  <2>4. CASE e.worker = w /\ e.pc \in Busy /\ f.pc \in Busy
    <3>1. P' = (P \ {e}) \cup {f}
      BY <2>1, <2>4
    <3>2. e \in P
      BY <1>2, <2>4
    <3>3. Cardinality(P \ {e}) = Cardinality(P) - 1
      BY <1>4, <3>2
    <3>4. Cardinality(P') = Cardinality(P \ {e}) + 1
      BY <2>3, <3>1
    <3> QED BY <1>1, <2>4, <3>3, <3>4
  <2>5. CASE e.worker = w /\ e.pc \in Busy /\ f.pc \notin Busy
    <3>1. P' = P \ {e}
      BY <2>1, <2>5
    <3> QED BY <1>2, <1>4, <2>5, <3>1
  <2>6. CASE e.worker = w /\ e.pc \notin Busy /\ f.pc \in Busy
    <3>1. P' = (P \ {e}) \cup {f} /\ P \ {e} = P
      BY <1>2, <1>5, <2>1, <2>6
    <3> QED BY <2>3, <2>6, <3>1
  <2> QED BY <2>1, <2>4, <2>5, <2>6
<1> QED BY <1>2, <1>3, <1>4, <1>5, <1>6

LEMMA ProgressByAdvance ==
  ASSUME QueueInv, NEW e \in execs, NEW w, NEW pc, Advance(e, pc)
  PROVE  /\ e.worker # w => Cardinality(InProgress(w)') = Cardinality(InProgress(w))
         /\ e.worker = w =>
              /\ e.pc \in {"working", "acking", "nacking"} /\ pc \in {"working", "acking", "nacking"}
                   => Cardinality(InProgress(w)') = Cardinality(InProgress(w))
              /\ e.pc \in {"working", "acking", "nacking"} /\ pc \notin {"working", "acking", "nacking"}
                   => Cardinality(InProgress(w)') = Cardinality(InProgress(w)) - 1
              /\ e.pc \notin {"working", "acking", "nacking"} /\ pc \in {"working", "acking", "nacking"}
                   => Cardinality(InProgress(w)') = Cardinality(InProgress(w)) + 1
<1> DEFINE f == [e EXCEPT !.pc = pc]
<1>1. f.pc = pc /\ f.job = e.job /\ f.claim = e.claim /\ f.worker = e.worker
  BY InvParts DEF Execs
<1>2. Become(e, f)
  BY DEF Advance
<1> HIDE DEF f
<1> QED BY <1>1, <1>2, ProgressOf

\* An execution that was told its lease is stolen returns without a word.
Abandons(e) == WorkDone(e) /\ e.stolen

\* What one step makes of the gap between a process's gauge and what it executes.
LEMMA GapSteps ==
  ASSUME QueueInv, MetricsTypeOK, [MetricsNext]_metricsVars, NEW w \in Workers
  PROVE  \/ Gap(w)' = Gap(w)
         \/ Gap(w)' = Gap(w) + 1 /\ \E e \in execs : e.worker = w /\ (NackFails(e) \/ Abandons(e))
         \/ Gap(w)' = Gap(w) - 1 /\ \E e \in execs : AckNotifyFails(e)
         \/ Gap(w)' = 0 /\ (Kill(w) \/ UnhandledRejection(w))
<1> DEFINE P == InProgress(w)
           Busy == {"working", "acking", "nacking"}
<1>1. /\ IsFiniteSet(P) /\ Cardinality(P) \in Nat /\ metric[w].running \in Int
      /\ metric \in [Workers -> [pending : {n \in Int : n <= 0}, running : Int, completed : Nat]]
  BY InProgressFinite DEF MetricsTypeOK
<1>2. Cardinality(P') = Cardinality(P) /\ metric'[w].running = metric[w].running => Gap(w)' = Gap(w)
  BY DEF Gap
<1>3. CASE UNCHANGED metricsVars
  BY <1>3 DEF metricsVars, vars, reported, Gap, InProgress, Executing
<1>4. ASSUME NEW j \in Jobs, ApiCommits(j) \/ (ClockStep(j) /\ UNCHANGED reported)
      PROVE  Gap(w)' = Gap(w)
  <2>1. execs' = execs /\ metric' = metric
    <3>1. CASE ApiCommits(j)
      BY <3>1 DEF ApiCommits, Commits, RetryCommits, Submit, Cancel, RetryDlq
    <3>2. CASE ClockStep(j) /\ UNCHANGED reported
      BY <3>2 DEF ClockStep, BecomeDue, Lapse, Stall, reported
    <3> QED BY <1>4, <3>1, <3>2
  <2> QED BY <2>1 DEF Gap, InProgress, Executing
<1>5. ASSUME UNCHANGED reported, NEW v \in Workers,
             \/ Start(v) \/ LoopStep(v) \/ ClaimFails(v) \/ RecoverStaleLeases(v)
             \/ \E j \in Jobs : RenewLeaked(v, j)
      PROVE  Gap(w)' = Gap(w)
  <2>1. execs' = execs \/ execs' = execs \cup {NewExecution(v)}
    BY <1>5 DEF Start, LoopStep, GetEligibleTenantIds, ClaimNothing, ClaimLock, ClaimCommit, ClaimFails,
       RecoverStaleLeases, RenewLeaked
  <2>2. NewExecution(v).pc = "claimed"
    BY DEF NewExecution
  <2>3. P' = P
    BY <2>1, <2>2 DEF InProgress, Executing
  <2> QED BY <1>2, <1>5, <2>3 DEF reported
<1>6. ASSUME NEW v \in Workers, Kill(v) \/ UnhandledRejection(v), Forget(v)
      PROVE  Gap(w)' = Gap(w) \/ (Gap(w)' = 0 /\ (Kill(w) \/ UnhandledRejection(w)))
  <2>1. execs' = {e \in execs : e.worker # v} /\ metric' = [metric EXCEPT ![v] = NoMoves]
    BY <1>6 DEF Kill, UnhandledRejection, End, Forget
  <2>2. CASE v = w
    <3>1. P' = {} /\ metric'[w].running = 0
      BY <1>1, <2>1, <2>2 DEF InProgress, Executing, NoMoves
    <3>2. Cardinality(P') = 0
      BY <3>1, FS_EmptySet
    <3> QED BY <1>6, <2>2, <3>1, <3>2 DEF Gap
  <2>3. CASE v # w
    <3>1. P' = P /\ metric'[w] = metric[w]
      BY <1>1, <2>1, <2>3 DEF InProgress, Executing
    <3> QED BY <1>2, <3>1
  <2> QED BY <2>2, <2>3
<1>7. ASSUME NEW e \in execs
      PROVE  /\ e \in Execs /\ e.worker \in Workers
             /\ \A pc : LET f == [e EXCEPT !.pc = pc] IN
                  f.pc = pc /\ f.job = e.job /\ f.claim = e.claim /\ f.worker = e.worker
             /\ LET f == [e EXCEPT !.stolen = TRUE] IN
                  f.pc = e.pc /\ f.job = e.job /\ f.claim = e.claim /\ f.worker = e.worker
  BY InvParts DEF Execs
<1>8. ASSUME NEW e \in execs, ExecReports(e) PROVE Gap(w)' = Gap(w)
  <2>1. CASE StartExecution(e) /\ StartMoves(e.worker)
    <3>1. e.worker # w => Cardinality(P') = Cardinality(P)
      BY <2>1, ProgressByAdvance DEF StartExecution
    <3>2. e.worker = w => Cardinality(P') = Cardinality(P) + 1
      BY <2>1, ProgressByAdvance DEF StartExecution
    <3>3. metric'[w].running = metric[w].running + (IF e.worker = w THEN 1 ELSE 0)
      BY <1>1, <1>7, <2>1 DEF StartMoves
    <3> QED BY <1>1, <3>1, <3>2, <3>3 DEF Gap
  <2>2. CASE (Ack(e) /\ AckMoves(e.worker)) \/ (Nack(e) /\ NackMoves(e.worker))
    <3>1. e.worker # w => Cardinality(P') = Cardinality(P)
      BY <2>2, ProgressOf, ProgressByAdvance DEF Ack, Nack
    <3>2. e.worker = w => Cardinality(P') = Cardinality(P) - 1
      BY <2>2, ProgressOf, ProgressByAdvance DEF Ack, Nack
    <3>3. metric'[w].running = metric[w].running - (IF e.worker = w THEN 1 ELSE 0)
      BY <1>1, <1>7, <2>2 DEF AckMoves, NackMoves
    <3> QED BY <1>1, <3>1, <3>2, <3>3 DEF Gap
  <2> QED BY <1>8, <2>1, <2>2 DEF ExecReports
<1>9. ASSUME UNCHANGED reported, NEW e \in execs, WorkDone(e) \/ WorkFails(e) \/ Notify(e) \/ ExecFault(e) \/ Renew(e)
      PROVE  \/ Gap(w)' = Gap(w)
             \/ Gap(w)' = Gap(w) + 1 /\ e.worker = w /\ (NackFails(e) \/ Abandons(e))
             \/ Gap(w)' = Gap(w) - 1 /\ AckNotifyFails(e)
  <2>1. metric'[w].running = metric[w].running
    BY <1>9 DEF reported
  <2>2. CASE NackFails(e) \/ Abandons(e)
    <3>1. Cardinality(P') = Cardinality(P) \/ (e.worker = w /\ Cardinality(P') = Cardinality(P) - 1)
      BY <2>2, ProgressOf DEF NackFails, Abandons, WorkDone
    <3> QED BY <1>1, <2>1, <2>2, <3>1 DEF Gap
  <2>3. CASE AckNotifyFails(e)
    <3>1. Cardinality(P') = Cardinality(P) \/ Cardinality(P') = Cardinality(P) + 1
      BY <2>3, ProgressByAdvance DEF AckNotifyFails
    <3> QED BY <1>1, <2>1, <2>3, <3>1 DEF Gap
  <2>4. CASE Notify(e) \/ ClaimNotifyFails(e)
    <3>1. Cardinality(P') = Cardinality(P)
      BY <2>4, ProgressOf DEF Notify, ClaimNotifyFails
    <3> QED BY <1>2, <2>1, <3>1
  <2>5. CASE AckFails(e) \/ WorkFails(e) \/ (WorkDone(e) /\ ~ e.stolen)
    <3>1. Cardinality(P') = Cardinality(P)
      BY <2>5, ProgressByAdvance DEF AckFails, WorkFails, WorkDone
    <3> QED BY <1>2, <2>1, <3>1
  <2>6. CASE Renew(e)
    <3>1. Cardinality(P') = Cardinality(P)
      <4>1. CASE execs' = execs
        BY <4>1 DEF InProgress, Executing
      <4>2. CASE execs' # execs
        <5> DEFINE f == [e EXCEPT !.stolen = TRUE]
        <5>1. f.pc = e.pc /\ f.job = e.job /\ f.claim = e.claim /\ f.worker = e.worker
          BY <1>7
        <5>2. Become(e, f) /\ e.pc = "working"
          BY <2>6, <4>2 DEF Renew
        <5> HIDE DEF f
        <5> QED BY <5>1, <5>2, ProgressOf
      <4> QED BY <4>1, <4>2
    <3> QED BY <1>2, <2>1, <3>1
  <2> QED BY <1>9, <2>2, <2>3, <2>4, <2>5, <2>6 DEF ExecFault, Abandons
<1>10. CASE ApiAnswered
  BY <1>2, <1>10 DEF ApiAnswered, ApiMoves, vars, InProgress, Executing
<1> QED BY <1>3, <1>4, <1>5, <1>6, <1>8, <1>9, <1>10 DEF MetricsNext, Silent

\* What the failing calls use up.
LEMMA FaultsSpent ==
  ASSUME QueueInv, [Next]_vars
  PROVE  /\ spent["faults"] \in Nat /\ spent["stalls"] \in Nat /\ spent'["faults"] \in Nat /\ spent'["stalls"] \in Nat
         /\ spent'["faults"] >= spent["faults"] /\ spent'["stalls"] >= spent["stalls"]
         /\ \A e \in execs : AckFails(e) \/ AckNotifyFails(e) \/ NackFails(e) \/ ClaimNotifyFails(e) =>
              spent'["faults"] = spent["faults"] + 1 /\ spent'["stalls"] = spent["stalls"]
<1>1. TypeOK /\ spent \in [Kinds -> Nat] /\ spent' \in [Kinds -> Nat]
  BY InvParts, NextType DEF TypeOK
<1>2. Spend("faults", MaxFaults) => spent'["faults"] = spent["faults"] + 1 /\ spent'["stalls"] = spent["stalls"]
  BY <1>1 DEF Spend, Kinds
<1> QED BY <1>1, <1>2, SpentGrows DEF Kinds, AckFails, AckNotifyFails, NackFails, ClaimNotifyFails

\* A call that ends an execution, and one that does not.
LEMMA NotBoth ==
  ASSUME QueueInv, NEW e \in execs, NackFails(e), NEW g \in execs
  PROVE  ~ AckFails(g) /\ ~ AckNotifyFails(g)
<1> SUFFICES ASSUME AckFails(g) \/ AckNotifyFails(g) PROVE FALSE
  OBVIOUS
<1>1. g.pc # "nacking" /\ g \notin execs'
  BY InvParts, AdvanceRemoves DEF AckFails, AckNotifyFails
<1> QED BY <1>1 DEF NackFails, Finish

\* What is left of the doomed executions when one of them ends and the table stays.
LEMMA DoomedEnds ==
  ASSUME QueueInv, NEW e \in execs, ~ Sound(e), e.pc \in Settling, NEW V, e.worker \in V,
         execs' \subseteq execs \ {e}, UNCHANGED <<row, claims>>
  PROVE  Cardinality(Doomed(V)') <= Cardinality(Doomed(V)) - 1
<1>1. \A g : Sound(g)' <=> Sound(g)
  BY DEF Sound, Owns, Stale
<1>2. e \in Doomed(V) /\ Doomed(V)' \subseteq Doomed(V) \ {e}
  BY <1>1 DEF Doomed
<1>3. IsFiniteSet(Doomed(V))
  <2>1. Doomed(V) \subseteq execs
    BY DEF Doomed
  <2> QED BY <2>1, InvParts, FS_Subset
<1> QED BY <1>2, <1>3, Counts

RunningInv ==
  \A w \in Workers :
    /\ - spent["faults"] <= Gap(w)
    /\ Gap(w) + Cardinality(Doomed({w})) <= spent["stalls"] + spent["faults"]

LEMMA RunningStep ==
  ASSUME QueueInv, MetricsTypeOK, RunningInv, [MetricsNext]_metricsVars
  PROVE  RunningInv'
<1> SUFFICES ASSUME NEW w \in Workers
             PROVE  /\ - spent'["faults"] <= Gap(w)'
                    /\ Gap(w)' + Cardinality(Doomed({w})') <= spent'["stalls"] + spent'["faults"]
  BY DEF RunningInv
<1> DEFINE D == Doomed({w})
           d == Cardinality(D)
           n == Cardinality(D')
           s == spent["stalls"]
           f == spent["faults"]
           fx == spent'["faults"]
           sx == spent'["stalls"]
<1>1. [Next]_vars
  BY QueueSteps
<1>2. f \in Nat /\ s \in Nat /\ fx \in Nat /\ sx \in Nat /\ fx >= f /\ sx >= s
  BY <1>1, FaultsSpent
<1>3. Gap(w) \in Int
  BY InProgressFinite DEF Gap, MetricsTypeOK
<1>4. /\ d \in Nat /\ n \in Nat
      /\ \/ n <= d
         \/ n <= d + 1 /\ (sx > s \/ \E e \in execs : AckFails(e) \/ AckNotifyFails(e))
  BY <1>1, DoomedCount
<1>5. n <= d \/ (n <= d + 1 /\ sx + fx >= s + f + 1)
  BY <1>1, <1>2, <1>4, FaultsSpent
<1>6. - f <= Gap(w) /\ Gap(w) + d <= s + f
  BY DEF RunningInv
<1> HIDE DEF D, d, n, s, f, fx, sx
<1>7. CASE Gap(w)' = Gap(w)
  BY <1>2, <1>3, <1>4, <1>5, <1>6, <1>7 DEF D, d, n, s, f, fx, sx
<1>8. ASSUME NEW e \in execs, e.worker = w, NackFails(e), Gap(w)' = Gap(w) + 1
      PROVE  - fx <= Gap(w)' /\ Gap(w)' + n <= sx + fx
  <2>1. fx = f + 1 /\ sx = s
    BY <1>1, <1>8, FaultsSpent DEF s, f, fx, sx
  <2>2. n <= d
    BY <1>2, <1>4, <1>8, <2>1, NotBoth
  <2> QED BY <1>2, <1>3, <1>4, <1>6, <1>8, <2>1, <2>2
<1>9. ASSUME NEW e \in execs, e.worker = w, Abandons(e), Gap(w)' = Gap(w) + 1
      PROVE  - fx <= Gap(w)' /\ Gap(w)' + n <= sx + fx
  <2>1. /\ ~ Sound(e) /\ e.pc \in Settling /\ e.worker \in {w}
        /\ execs' \subseteq execs \ {e} /\ UNCHANGED <<row, claims>>
    BY <1>9, InvParts DEF Abandons, WorkDone, Finish, Settling, StolenMeansLost, Sound
  <2>2. n <= d - 1
    BY <2>1, DoomedEnds DEF n, d, D
  <2> QED BY <1>2, <1>3, <1>4, <1>6, <1>9, <2>2
<1>10. ASSUME NEW e \in execs, AckNotifyFails(e), Gap(w)' = Gap(w) - 1
       PROVE  - fx <= Gap(w)' /\ Gap(w)' + n <= sx + fx
  <2>1. fx = f + 1 /\ sx = s
    BY <1>1, <1>10, FaultsSpent DEF s, f, fx, sx
  <2> QED BY <1>2, <1>3, <1>4, <1>6, <1>10, <2>1
<1>11. CASE Gap(w)' = 0 /\ (Kill(w) \/ UnhandledRejection(w))
  <2>1. execs' = {e \in execs : e.worker # w}
    BY <1>11 DEF Kill, UnhandledRejection, End
  <2>2. D' = {}
    BY <2>1 DEF D, Doomed
  <2>3. n = 0
    BY <2>2, FS_EmptySet DEF n
  <2> QED BY <1>2, <1>11, <2>3 DEF D, d, n, s, f, fx, sx
<1> QED BY <1>7, <1>8, <1>9, <1>10, <1>11, GapSteps DEF D, d, n, s, f, fx, sx

\* The gauge of running jobs of a process is off the number it executes by one at most
\* for each lease that lapsed under a live holder and each call that failed, and it is
\* never too low for a lease's sake (executor.ts:29, 41-44, 56, 84).
THEOREM RunningGaugeHolds == MetricsSpec => []RunningGaugeDrift
<1>1. MetricsInit => RunningInv
  <2> SUFFICES ASSUME MetricsInit, NEW w \in Workers
               PROVE  /\ - spent["faults"] <= Gap(w)
                      /\ Gap(w) + Cardinality(Doomed({w})) <= spent["stalls"] + spent["faults"]
    BY DEF RunningInv
  <2>1. execs = {} /\ metric[w].running = 0 /\ spent["faults"] = 0 /\ spent["stalls"] = 0
    BY DEF MetricsInit, Init, NoMoves, Kinds
  <2>2. InProgress(w) = {} /\ Doomed({w}) = {}
    BY <2>1 DEF InProgress, Executing, Doomed
  <2> QED BY <2>1, <2>2, FS_EmptySet DEF Gap
<1>2. QueueInv /\ MetricsTypeOK /\ RunningInv /\ [MetricsNext]_metricsVars => RunningInv'
  BY RunningStep
<1>3. QueueInv /\ MetricsTypeOK /\ RunningInv => RunningGaugeDrift
  <2> SUFFICES ASSUME QueueInv, MetricsTypeOK, RunningInv, NEW w \in Workers
               PROVE  - spent["faults"] <= Gap(w) /\ Gap(w) <= spent["stalls"] + spent["faults"]
    BY DEF RunningGaugeDrift, Gap
  <2>1. Cardinality(Doomed({w})) \in Nat
    <3>1. Doomed({w}) \subseteq execs
      BY DEF Doomed
    <3> QED BY <3>1, InvParts, FS_Subset, FS_CardinalityType
  <2>2. Gap(w) \in Int /\ spent["faults"] \in Nat /\ spent["stalls"] \in Nat
    BY InProgressFinite, InvParts DEF Gap, MetricsTypeOK, TypeOK, Kinds
  <2> QED BY <2>1, <2>2 DEF RunningInv
<1> QED BY <1>1, <1>2, <1>3, TypeAlways, PTL DEF MetricsSpec

-----------------------------------------------------------------------------
(* The counter of completions. *)

LEMMA SumType ==
  ASSUME NEW m \in [Workers -> [pending : {n \in Int : n <= 0}, running : Int, completed : Nat]],
         NEW name \in {"pending", "completed"}
  PROVE  SumFunction([w \in Workers |-> m[w][name]]) \in Int
<1> DEFINE g == [w \in Workers |-> m[w][name]]
<1>1. g \in [Workers -> Int]
  OBVIOUS
<1>2. CASE Workers = {}
  <2>1. g = [w \in Workers |-> 0]
    BY <1>2
  <2> QED BY <2>1, SumOfNothing, WorkersFinite
<1>3. ASSUME NEW w \in Workers PROVE SumFunction(g) \in Int
  BY <1>1, SumMoves, WorkersFinite
<1> QED BY <1>2, <1>3

\* What one process reports is added to the sum, and what it takes along is lost.
LEMMA SumSteps ==
  ASSUME MetricsTypeOK, MetricsTypeOK', NEW name \in {"pending", "completed"},
         NEW w \in Workers, \A v \in Workers \ {w} : metric'[v] = metric[v]
  PROVE  Sum(name)' = Sum(name) + metric'[w][name] - metric[w][name]
<1> DEFINE g == [v \in Workers |-> metric[v][name]]
           h == [v \in Workers |-> metric'[v][name]]
<1>1. g \in [Workers -> Int] /\ h \in [Workers -> Int]
  BY DEF MetricsTypeOK
<1>2. \A v \in Workers \ {w} : h[v] = g[v]
  OBVIOUS
<1>3. SumFunction(h) = SumFunction(g) + h[w] - g[w]
  BY <1>1, <1>2, SumMoves, WorkersFinite
<1> QED BY <1>3 DEF Sum

Reported(e) == Ack(e) /\ AckMoves(e.worker)

\* A row is completed by an ack, or by one whose answer is lost.
LEMMA CompletedSteps ==
  ASSUME QueueInv, [MetricsNext]_metricsVars, NEW j \in Jobs,
         row[j].status = "running", row'[j].status = "completed"
  PROVE  \E e \in execs : /\ e.job = j /\ row' = [row EXCEPT ![j] = AckedRow(@, e)]
                          /\ OwnerMatches(row[j], e)
                          /\ Reported(e) \/ AckFails(e)
<1>1. row \in [Jobs -> Rows] /\ row[j] \in Rows /\ TypeOK /\ row'[j] # row[j]
  BY InvParts DEF TypeOK
<1>2. /\ \A change \in {[row[j] EXCEPT !.scheduled = "due"], [row[j] EXCEPT !.lease = "lapsed"],
                         [row[j] EXCEPT !.lease = "live"]} : change.status = "running"
      /\ SweptRow(row[j]).status = "pending" /\ RetriedRow(row[j]).status = "pending"
      /\ \A w \in Workers : ClaimedRow(row[j], w).status = "running"
      /\ \A e : NackedRow(row[j], e).status # "completed"
  BY <1>1 DEF Rows, SweptRow, RetriedRow, ClaimedRow, NackedRow
<1>3. CASE UNCHANGED metricsVars
  BY <1>1, <1>3 DEF metricsVars, vars
<1>4. ASSUME NEW k \in Jobs, ApiStep(k) \/ ClockStep(k) PROVE FALSE
  <2>1. CASE ClockStep(k)
    BY <1>1, <1>2, <2>1 DEF ClockStep, BecomeDue, Lapse, Stall
  <2>2. CASE ApiStep(k)
    BY <1>1, <1>2, <2>2 DEF ApiStep, Submit, Cancel, RetryDlq
  <2> QED BY <1>4, <2>1, <2>2
<1>5. ASSUME NEW w \in Workers,
             \/ LifeStep(w) \/ LoopStep(w) \/ ClaimFails(w) \/ RecoverStaleLeases(w)
             \/ \E k \in Jobs : RenewLeaked(w, k)
      PROVE  FALSE
  <2>1. CASE LifeStep(w)
    BY <1>1, <2>1 DEF LifeStep, Start, Stop, LoopExit, Kill, UnhandledRejection, End
  <2>2. CASE LoopStep(w) \/ ClaimFails(w)
    BY <1>1, <1>2, <2>2 DEF LoopStep, GetEligibleTenantIds, ClaimNothing, ClaimLock, ClaimCommit, ClaimFails
  <2>3. CASE RecoverStaleLeases(w)
    BY <1>1, <1>2, <2>3 DEF RecoverStaleLeases
  <2>4. CASE \E k \in Jobs : RenewLeaked(w, k)
    BY <1>1, <1>2, <2>4 DEF RenewLeaked
  <2> QED BY <1>5, <2>1, <2>2, <2>3, <2>4
<1>6. ASSUME NEW e \in execs,
             \/ StartExecution(e) \/ Nack(e) \/ WorkDone(e) \/ WorkFails(e) \/ Notify(e)
             \/ ClaimNotifyFails(e) \/ AckNotifyFails(e) \/ NackFails(e) \/ Renew(e)
      PROVE  FALSE
  <2>1. e.job \in Jobs
    BY InvParts
  <2>2. \/ row' = row
        \/ row' = [row EXCEPT ![e.job] = NackedRow(@, e)]
        \/ row' = [row EXCEPT ![e.job].lease = "live"]
    BY <1>6 DEF StartExecution, Nack, WorkDone, WorkFails, Notify, ClaimNotifyFails,
       AckNotifyFails, NackFails, Renew
  <2>3. \/ row'[j] = NackedRow(row[j], e)
        \/ row'[j] = [row[j] EXCEPT !.lease = "live"]
    BY <1>1, <2>1, <2>2
  <2> QED BY <1>2, <2>3
<1>7. ASSUME NEW e \in execs, Ack(e) \/ AckFails(e)
      PROVE  /\ e.job = j /\ row' = [row EXCEPT ![j] = AckedRow(@, e)]
             /\ OwnerMatches(row[j], e)
  BY <1>1, <1>7, InvParts DEF Ack, AckFails, AckedRow
<1>8. CASE Silent
  BY <1>4, <1>5, <1>6, <1>7, <1>8 DEF Silent, ClockStep, ExecFault, LifeStep
<1>9. CASE ApiAnswered \/ \E k \in Jobs : ApiCommits(k)
  BY <1>1, <1>4, <1>9 DEF ApiAnswered, ApiCommits, ApiStep, vars
<1>10. CASE \E w \in Workers : Kill(w) \/ UnhandledRejection(w)
  BY <1>5, <1>10 DEF LifeStep
<1>11. CASE \E e \in execs : ExecReports(e)
  BY <1>6, <1>7, <1>11 DEF ExecReports, Reported
<1> QED BY <1>3, <1>8, <1>9, <1>10, <1>11 DEF MetricsNext

\* At most one row at a step, for a reported ack or a fault.
LEMMA TurnedCompleted ==
  ASSUME QueueInv, [MetricsNext]_metricsVars
  PROVE  \/ Turned({"running"}, "completed") = 0
         \/ /\ Turned({"running"}, "completed") = 1
            /\ \E e \in execs : Reported(e) \/ AckFails(e)
<1> DEFINE T == {j \in Jobs : row[j].status \in {"running"} /\ row'[j].status = "completed"}
<1>1. CASE T = {}
  BY <1>1, FS_EmptySet DEF Turned
<1>2. ASSUME NEW j \in T PROVE T = {j} /\ \E e \in execs : Reported(e) \/ AckFails(e)
  <2>1. PICK e \in execs : row' = [row EXCEPT ![j] = AckedRow(@, e)] /\ (Reported(e) \/ AckFails(e))
    BY CompletedSteps
  <2>2. \A k \in Jobs : k # j => row'[k] = row[k]
    BY <2>1, InvParts DEF TypeOK
  <2> QED BY <2>1, <2>2
<1>3. \A j : T = {j} => Cardinality(T) = 1
  BY FS_Singleton
<1> QED BY <1>1, <1>2, <1>3 DEF Turned

\* When a process has ended, that remains so.
LEMMA EndedStays ==
  ASSUME QueueInv, [Next]_vars, NobodyEnded'
  PROVE  NobodyEnded /\ \A w \in Workers : ~ Kill(w) /\ ~ UnhandledRejection(w)
<1>1. TypeOK /\ life \in [Workers -> {"new", "up", "stopping", "stopped", "killed", "crashed"}]
  BY InvParts DEF TypeOK
<1>2. \A w \in Workers : ~ Kill(w) /\ ~ UnhandledRejection(w)
  BY <1>1 DEF Kill, UnhandledRejection, End, NobodyEnded
<1>3. life' = life \/ \E w \in Workers : LifeStep(w)
  <2>1. ASSUME NEW j \in Jobs, ApiStep(j) \/ ClockStep(j) PROVE life' = life
    BY <2>1 DEF ApiStep, Submit, Cancel, RetryDlq, ClockStep, BecomeDue, Lapse, Stall
  <2>2. ASSUME NEW w \in Workers,
               LoopStep(w) \/ ClaimFails(w) \/ RecoverStaleLeases(w) \/ \E j \in Jobs : RenewLeaked(w, j)
        PROVE  life' = life
    BY <2>2 DEF LoopStep, GetEligibleTenantIds, ClaimNothing, ClaimLock, ClaimCommit, ClaimFails,
         RecoverStaleLeases, RenewLeaked
  <2>3. ASSUME NEW e \in execs, ExecStep(e) \/ ExecFault(e) \/ Renew(e) PROVE life' = life
    BY <2>3 DEF ExecStep, ExecFault, Renew, StartExecution, WorkDone, WorkFails, Ack, Nack, Notify,
         ClaimNotifyFails, AckFails, AckNotifyFails, NackFails
  <2> QED BY <2>1, <2>2, <2>3 DEF Next, vars
<1>4. ASSUME NEW w \in Workers, LifeStep(w)
      PROVE  \A v \in Workers : life[v] \in {"killed", "crashed"} => life'[v] = life[v]
  BY <1>1, <1>2, <1>4 DEF LifeStep, Start, Stop, LoopExit
<1> QED BY <1>2, <1>3, <1>4 DEF NobodyEnded

Drift == Sum("completed") - moved.completed

\* What one step makes of the difference between the counter and the table.
LEMMA DriftSteps ==
  ASSUME QueueInv, MetricsTypeOK, [MetricsNext]_metricsVars
  PROVE  /\ Drift \in Int /\ Drift' \in Int
         /\ \/ \E e \in execs : /\ Reported(e) /\ Drift <= Drift'
                                /\ Drift' <= Drift + 1 - Turned({"running"}, "completed")
            \/ /\ Drift' <= Drift
               /\ NobodyEnded' => \/ Drift' >= Drift
                                  \/ Drift' >= Drift - 1 /\ \E e \in execs : AckFails(e)
<1> DEFINE T == Turned({"running"}, "completed")
<1>1. MetricsTypeOK' /\ TypeOK /\ [Next]_vars
  BY TypeStep, InvParts, QueueSteps
<1>2. /\ Sum("completed") \in Int /\ Sum("completed")' \in Int
      /\ moved.completed \in Nat /\ moved'.completed = moved.completed + T
      /\ moved'.completed \in Nat
  <2>1. Sum("completed") \in Int
    BY SumType DEF Sum, MetricsTypeOK
  <2>2. Sum("completed")' \in Int
    BY <1>1, SumType DEF Sum, MetricsTypeOK
  <2> QED BY <1>1, <2>1, <2>2, MovedBy DEF MetricsTypeOK
<1>3. Drift' = Drift + (Sum("completed")' - Sum("completed")) - T /\ Drift \in Int /\ Drift' \in Int
  BY <1>2, TurnedType DEF Drift
<1>4. \A w \in Workers : metric[w].completed \in Nat /\ metric'[w].completed \in Nat
  BY <1>1 DEF MetricsTypeOK
<1>5. T \in {0, 1} /\ (T = 1 => \E e \in execs : Reported(e) \/ AckFails(e))
  BY TurnedCompleted
<1>6. ASSUME NEW e \in execs, Reported(e)
      PROVE  Drift <= Drift' /\ Drift' <= Drift + 1 - T
  <2>1. /\ e.worker \in Workers
        /\ metric' = [metric EXCEPT ![e.worker].completed = @ + 1, ![e.worker].running = @ - 1]
    BY <1>6, InvParts DEF Reported, AckMoves
  <2>2. /\ \A v \in Workers \ {e.worker} : metric'[v] = metric[v]
        /\ metric'[e.worker].completed = metric[e.worker].completed + 1
    BY <2>1 DEF MetricsTypeOK
  <2>3. Sum("completed")' = Sum("completed") + 1
    <3>1. Sum("completed")' = Sum("completed") + metric'[e.worker].completed - metric[e.worker].completed
      BY <1>1, <2>1, <2>2, SumSteps
    <3>2. metric[e.worker].completed \in Nat
      BY <1>4, <2>1
    <3> QED BY <1>2, <2>2, <3>1, <3>2
  <2> QED BY <1>2, <1>3, <1>5, <2>3
<1>7. ASSUME ~ \E e \in execs : Reported(e)
      PROVE  /\ Sum("completed")' <= Sum("completed")
             /\ NobodyEnded' => Sum("completed")' = Sum("completed")
  <2>1. CASE metric' = metric
    BY <1>2, <2>1 DEF Sum
  <2>2. ASSUME NEW w \in Workers, Kill(w) \/ UnhandledRejection(w), Forget(w)
        PROVE  Sum("completed")' <= Sum("completed") /\ ~ NobodyEnded'
    <3>1. (\A v \in Workers \ {w} : metric'[v] = metric[v]) /\ metric'[w].completed = 0
      BY <2>2 DEF Forget, NoMoves, MetricsTypeOK
    <3>2. Sum("completed")' = Sum("completed") + 0 - metric[w].completed
      BY <1>1, <3>1, SumSteps
    <3>3. ~ NobodyEnded'
      BY <1>1, <2>2, EndedStays
    <3> QED BY <1>2, <1>4, <3>2, <3>3
  <2>3. ASSUME NEW e \in execs, (StartExecution(e) /\ StartMoves(e.worker)) \/ (Nack(e) /\ NackMoves(e.worker))
        PROVE  Sum("completed")' = Sum("completed")
    <3>1. e.worker \in Workers
      BY InvParts
    <3>2. /\ \A v \in Workers \ {e.worker} : metric'[v] = metric[v]
          /\ metric'[e.worker].completed = metric[e.worker].completed
      BY <2>3, <3>1 DEF StartMoves, NackMoves, MetricsTypeOK
    <3>3. Sum("completed")' = Sum("completed") + metric'[e.worker].completed - metric[e.worker].completed
      BY <1>1, <3>1, <3>2, SumSteps
    <3> QED BY <1>2, <1>4, <3>1, <3>2, <3>3
  <2> QED BY <1>1, <1>2, <1>7, <2>1, <2>2, <2>3, MetricSteps DEF ExecReports, Reported, Commits, ApiMoves, reported
<1>8. CASE ~ \E e \in execs : Reported(e)
  <2>1. T = 1 => \E e \in execs : AckFails(e)
    BY <1>5, <1>8
  <2> QED BY <1>2, <1>3, <1>5, <1>7, <1>8, <2>1
<1> QED BY <1>3, <1>6, <1>8

\* An ack that completes nothing is a doomed execution's last.
LEMMA DoomedByNothing ==
  ASSUME QueueInv, [Next]_vars, NEW e \in execs, Ack(e),
         ~ (row[e.job].status = "running" /\ OwnerMatches(row[e.job], e))
  PROVE  Cardinality(Doomed(Workers)') <= Cardinality(Doomed(Workers)) - 1
<1> DEFINE D == Doomed(Workers)
           f == [e EXCEPT !.pc = "acked"]
<1>1. e \in Execs /\ e.job \in Jobs /\ e.worker \in Workers /\ TypeOK /\ row \in [Jobs -> Rows]
  BY InvParts DEF TypeOK
<1>2. e \in D
  BY <1>1 DEF Doomed, Settling, Sound, Owns, OwnerMatches, Ack
<1>3. e \notin execs' /\ \A g \in execs' : g \in execs \/ g.pc = "acked"
  <2>1. e.pc = "acking" /\ f.pc = "acked"
    BY <1>1 DEF Ack, Execs
  <2> QED BY <1>1, <2>1, AdvanceRemoves DEF Ack, Finish, Advance, Become
<1>4. \A j \in Jobs : row'[j] # row[j] => row[j].status # "running"
  BY <1>1 DEF Ack, AckedRow, OwnerMatches
<1>5. ASSUME NEW g \in D' PROVE g \in D \ {e}
  <2>1. g \in execs' /\ g \in execs /\ g # e /\ g.worker \in Workers /\ g.pc \in Settling /\ ~ Sound(g)'
    BY <1>3 DEF Doomed, Sound, Owns, Stale, Settling
  <2>2. ~ Sound(g)
    BY <1>4, <2>1, SoundBreaks, InvParts DEF Sound, Owns
  <2> QED BY <2>1, <2>2 DEF Doomed
<1>6. IsFiniteSet(D)
  BY DoomedCount
<1> QED BY <1>2, <1>5, <1>6, Counts

CompletedInv ==
  /\ Drift + Cardinality(Doomed(Workers)) <= spent["stalls"] + spent["faults"]
  /\ NobodyEnded => Drift >= - spent["faults"]

LEMMA CompletedStep ==
  ASSUME QueueInv, MetricsTypeOK, CompletedInv, [MetricsNext]_metricsVars
  PROVE  CompletedInv'
<1> DEFINE d == Cardinality(Doomed(Workers))
           n == Cardinality(Doomed(Workers)')
           s == spent["stalls"]
           f == spent["faults"]
           fx == spent'["faults"]
           sx == spent'["stalls"]
           T == Turned({"running"}, "completed")
<1>1. [Next]_vars
  BY QueueSteps
<1>2. /\ f \in Nat /\ s \in Nat /\ fx \in Nat /\ sx \in Nat /\ fx >= f /\ sx >= s
      /\ (\E e \in execs : AckFails(e)) => fx = f + 1
  BY <1>1, FaultsSpent
<1>3. Drift \in Int /\ Drift' \in Int
  BY DriftSteps
<1>4. /\ d \in Nat /\ n \in Nat
      /\ n <= d \/ (n <= d + 1 /\ sx + fx >= s + f + 1)
  <2>1. /\ d \in Nat /\ n \in Nat
        /\ \/ n <= d
           \/ n <= d + 1 /\ (sx > s \/ \E e \in execs : AckFails(e) \/ AckNotifyFails(e))
    BY <1>1, DoomedCount
  <2> QED BY <1>1, <1>2, <2>1, FaultsSpent
<1>5. Drift + d <= s + f /\ (NobodyEnded => Drift >= - f)
  BY DEF CompletedInv
<1>6. NobodyEnded' => NobodyEnded
  BY <1>1, EndedStays
<1>7. ASSUME NEW e \in execs, Reported(e), T = 0
      PROVE  n <= d - 1
  <2>1. ~ (row[e.job].status = "running" /\ OwnerMatches(row[e.job], e))
    <3> SUFFICES ASSUME row[e.job].status = "running", OwnerMatches(row[e.job], e) PROVE FALSE
      OBVIOUS
    <3>1. e.job \in Jobs /\ row'[e.job].status = "completed"
      BY <1>7, InvParts DEF Reported, Ack, AckedRow, TypeOK, Rows
    <3>2. {j \in Jobs : row[j].status \in {"running"} /\ row'[j].status = "completed"} # {}
      BY <3>1
    <3>3. IsFiniteSet({j \in Jobs : row[j].status \in {"running"} /\ row'[j].status = "completed"})
      BY JobsFinite, FS_Subset
    <3> QED BY <1>7, <3>2, <3>3, FS_EmptySet DEF Turned
  <2> QED BY <1>1, <1>7, <2>1, DoomedByNothing DEF Reported
<1>8. T = 0 \/ T = 1
  BY TurnedCompleted
<1>9. CASE \E e \in execs : Reported(e) /\ Drift <= Drift' /\ Drift' <= Drift + 1 - T
  <2>1. PICK e \in execs : Reported(e) /\ Drift <= Drift' /\ Drift' <= Drift + 1 - T
    BY <1>9
  <2>2. Drift' + n <= sx + fx
    <3>1. CASE T = 0
      BY <1>2, <1>3, <1>4, <1>5, <1>7, <2>1, <3>1
    <3>2. CASE T = 1
      BY <1>2, <1>3, <1>4, <1>5, <2>1, <3>2
    <3> QED BY <1>8, <3>1, <3>2
  <2>3. NobodyEnded' => Drift' >= - fx
    BY <1>2, <1>3, <1>5, <1>6, <2>1
  <2> QED BY <2>2, <2>3 DEF CompletedInv
<1>10. CASE /\ Drift' <= Drift
            /\ NobodyEnded' => \/ Drift' >= Drift
                               \/ Drift' >= Drift - 1 /\ \E e \in execs : AckFails(e)
  <2>1. Drift' + n <= sx + fx
    BY <1>2, <1>3, <1>4, <1>5, <1>10
  <2>2. NobodyEnded' => Drift' >= - fx
    BY <1>2, <1>3, <1>5, <1>6, <1>10
  <2> QED BY <2>1, <2>2 DEF CompletedInv
<1> QED BY <1>9, <1>10, DriftSteps

\* The counter is ahead of the table by one at most for each lease that lapsed under a
\* live holder and each call that failed, and while no process has ended it is behind by
\* no more than the acks whose answers were lost (executor.ts:50-55).
THEOREM CompletedCountHolds == MetricsSpec => []CompletedDrift
<1>1. MetricsInit => CompletedInv
  <2> SUFFICES ASSUME MetricsInit PROVE CompletedInv
    OBVIOUS
  <2>1. execs = {} /\ moved.completed = 0 /\ spent["faults"] = 0 /\ spent["stalls"] = 0
    BY DEF MetricsInit, Init, NothingMoved, Kinds
  <2>2. [w \in Workers |-> metric[w]["completed"]] = [w \in Workers |-> 0]
    BY DEF MetricsInit, NoMoves
  <2>3. Sum("completed") = 0
    BY <2>2, SumOfNothing, WorkersFinite DEF Sum
  <2>4. Doomed(Workers) = {}
    BY <2>1 DEF Doomed
  <2> QED BY <2>1, <2>3, <2>4, FS_EmptySet DEF CompletedInv, Drift
<1>2. QueueInv /\ MetricsTypeOK /\ CompletedInv /\ [MetricsNext]_metricsVars => CompletedInv'
  BY CompletedStep
<1>3. QueueInv /\ MetricsTypeOK /\ CompletedInv => CompletedDrift
  <2> SUFFICES ASSUME QueueInv, MetricsTypeOK, CompletedInv PROVE CompletedDrift
    OBVIOUS
  <2>1. Cardinality(Doomed(Workers)) \in Nat
    <3>1. Doomed(Workers) \subseteq execs
      BY DEF Doomed
    <3> QED BY <3>1, InvParts, FS_Subset, FS_CardinalityType
  <2>2. Sum("completed") \in Int /\ moved.completed \in Nat /\ spent["faults"] \in Nat /\ spent["stalls"] \in Nat
    BY SumType, InvParts DEF Sum, MetricsTypeOK, TypeOK, Kinds
  <2> QED BY <2>1, <2>2 DEF CompletedInv, CompletedDrift, Drift
<1> QED BY <1>1, <1>2, <1>3, TypeAlways, PTL DEF MetricsSpec

-----------------------------------------------------------------------------
(* The gauge of pending jobs. *)

Pending == {j \in Jobs : row[j].status = "pending"}

Requeued == {j \in Jobs : row[j].status \in {"running", "completed"} /\ row'[j].status = "pending"}

\* Claims on their way to executeJob.
Claimed == {e \in execs : e.pc = "claimed"}

LEMMA PendingSizes ==
  ASSUME QueueInv
  PROVE  /\ IsFiniteSet(Pending) /\ IsFiniteSet(Claimed)
         /\ Cardinality(Pending) \in Nat /\ Cardinality(Claimed) \in Nat
<1>1. Pending \subseteq Jobs /\ Claimed \subseteq execs
  BY DEF Pending, Claimed
<1> QED BY <1>1, InvParts, JobsFinite, FS_Subset, FS_CardinalityType

\* The steps of the queue but the API's and the commit of a claim.
Ordinary ==
  \/ UNCHANGED vars
  \/ \E j \in Jobs : ClockStep(j)
  \/ \E w \in Workers :
       \/ LifeStep(w)
       \/ GetEligibleTenantIds(w) \/ ClaimNothing(w) \/ ClaimFails(w)
       \/ RecoverStaleLeases(w)
       \/ \E j \in Jobs : ClaimLock(w, j) \/ RenewLeaked(w, j)
  \/ \E e \in execs : ExecStep(e) \/ ExecFault(e) \/ Renew(e)

\* At such a step a row turns pending only when it ran or was completed, and no
\* row ceases to be.
LEMMA Requeues ==
  ASSUME QueueInv, Ordinary, NEW j \in Jobs
  PROVE  /\ row[j].status = "pending" => row'[j].status = "pending"
         /\ row'[j].status = "pending" => row[j].status \in {"pending", "running", "completed"}
<1>1. /\ row \in [Jobs -> Rows] /\ row[j] \in Rows /\ TypeOK /\ Shape(row[j])
      /\ row[j].status = "dead_letter" => row[j].attempts >= MaxAttempts[j]
  BY InvParts DEF TypeOK, RowShape, QueueInv, DeadLetterExhausted
<1>2. \A change \in {[row[j] EXCEPT !.scheduled = "due"], [row[j] EXCEPT !.lease = "lapsed"],
                     [row[j] EXCEPT !.lease = "live"]} : change.status = row[j].status
  BY <1>1 DEF Rows
<1>3. CASE UNCHANGED vars
  BY <1>3 DEF vars
<1>4. ASSUME NEW k \in Jobs, ClockStep(k)
      PROVE  row'[j].status = row[j].status
  BY <1>1, <1>2, <1>4 DEF ClockStep, BecomeDue, Lapse, Stall
<1>5. ASSUME NEW w \in Workers,
             \/ LifeStep(w) \/ GetEligibleTenantIds(w) \/ ClaimNothing(w) \/ ClaimFails(w)
             \/ \E k \in Jobs : ClaimLock(w, k) \/ RenewLeaked(w, k)
      PROVE  row'[j].status = row[j].status
  <2>1. row' = row \/ \E k \in Jobs : RenewLeaked(w, k)
    BY <1>5 DEF LifeStep, Start, Stop, LoopExit, Kill, UnhandledRejection, End,
       GetEligibleTenantIds, ClaimNothing, ClaimLock, ClaimFails
  <2> QED BY <1>1, <1>2, <2>1 DEF RenewLeaked
<1>6. ASSUME NEW w \in Workers, RecoverStaleLeases(w)
      PROVE  row'[j] = row[j] \/ row[j].status = "running"
  BY <1>6 DEF RecoverStaleLeases, Stale
<1>7. ASSUME NEW e \in execs, ExecStep(e) \/ ExecFault(e) \/ Renew(e)
      PROVE  \/ row'[j] = row[j] \/ row'[j] = [row[j] EXCEPT !.lease = "live"]
             \/ e.job = j /\ (row'[j] = AckedRow(row[j], e) \/ row'[j] = NackedRow(row[j], e))
  BY <1>1, <1>7, InvParts DEF ExecStep, ExecFault, Renew, StartExecution, WorkDone, WorkFails, Ack, Nack, Notify,
     ClaimNotifyFails, AckFails, AckNotifyFails, NackFails
<1>8. ASSUME NEW e \in execs, e.job = j
      PROVE  /\ row[j].status = "pending" => AckedRow(row[j], e) = row[j] /\ NackedRow(row[j], e) = row[j]
             /\ AckedRow(row[j], e).status = "pending" => row[j].status = "pending"
             /\ NackedRow(row[j], e).status = "pending" => row[j].status \in {"pending", "running", "completed"}
  <2>1. e.worker # NoWorker
    BY InvParts, WorkersFinite
  <2>2. OwnerMatches(row[j], e) => row[j].status \in {"running", "completed", "dead_letter"}
    BY <1>1, <2>1 DEF Shape, OwnerMatches, Rows, Statuses
  <2>3. /\ [row[j] EXCEPT !.status = "completed"].status = "completed"
        /\ [row[j] EXCEPT !.status = "dead_letter"].status = "dead_letter"
    BY <1>1 DEF Rows
  <2> QED BY <1>1, <1>8, <2>2, <2>3 DEF AckedRow, NackedRow
<1>9. (\E e \in execs : ExecStep(e) \/ ExecFault(e) \/ Renew(e)) =>
        /\ row[j].status = "pending" => row'[j].status = "pending"
        /\ row'[j].status = "pending" => row[j].status \in {"pending", "running", "completed"}
  <2> SUFFICES ASSUME NEW e \in execs, ExecStep(e) \/ ExecFault(e) \/ Renew(e)
               PROVE  /\ row[j].status = "pending" => row'[j].status = "pending"
                      /\ row'[j].status = "pending" => row[j].status \in {"pending", "running", "completed"}
    OBVIOUS
  <2>1. CASE row'[j].status = row[j].status
    BY <2>1
  <2>2. CASE e.job = j /\ (row'[j] = AckedRow(row[j], e) \/ row'[j] = NackedRow(row[j], e))
    BY <1>8, <2>2
  <2>3. [row[j] EXCEPT !.lease = "live"].status = row[j].status
    BY <1>2
  <2> QED BY <1>7, <2>1, <2>2, <2>3
<1> QED BY <1>3, <1>4, <1>5, <1>6, <1>9 DEF Ordinary

\* What such a step adds to the pending jobs is what the history counts.
LEMMA PendingGrows ==
  ASSUME QueueInv, Ordinary
  PROVE  Cardinality(Pending') = Cardinality(Pending) + Turned({"running", "completed"}, "pending")
<1>1. Pending' = Pending \cup Requeued /\ Pending \cap Requeued = {}
  BY Requeues DEF Pending, Requeued
<1>2. IsFiniteSet(Pending) /\ IsFiniteSet(Requeued)
  <2>1. Requeued \subseteq Jobs
    BY DEF Requeued
  <2> QED BY <2>1, PendingSizes, JobsFinite, FS_Subset
<1>3. Turned({"running", "completed"}, "pending") = Cardinality(Requeued)
  BY DEF Turned, Requeued
<1>4. /\ Cardinality(Pending \cup Requeued) =
              Cardinality(Pending) + Cardinality(Requeued) - Cardinality(Pending \cap Requeued)
      /\ Cardinality(Pending) \in Nat /\ Cardinality(Requeued) \in Nat
  BY <1>2, FS_Union, FS_CardinalityType
<1>5. Cardinality(Pending \cap Requeued) = 0
  BY <1>1, FS_EmptySet
<1> QED BY <1>1, <1>3, <1>4, <1>5

\* What the API and the claim make of the pending jobs, of which the history knows nothing.
LEMMA PendingMoves ==
  ASSUME QueueInv, NEW j \in Jobs, \A k \in Jobs \ {j} : row'[k] = row[k]
  PROVE  /\ row[j].status \in {"absent", "dead_letter"} /\ row'[j].status = "pending" =>
              /\ Cardinality(Pending') = Cardinality(Pending) + 1
              /\ Turned({"running", "completed"}, "pending") = 0
         /\ row[j].status = "pending" /\ row'[j].status # "pending" =>
              /\ Cardinality(Pending') = Cardinality(Pending) - 1
              /\ Turned({"running", "completed"}, "pending") = 0
<1>1. IsFiniteSet(Pending) /\ Cardinality(Pending) \in Nat
  BY PendingSizes
<1>2. ASSUME Requeued = {} PROVE Turned({"running", "completed"}, "pending") = 0
  BY <1>2, FS_EmptySet DEF Turned, Requeued
<1>3. CASE row[j].status \in {"absent", "dead_letter"} /\ row'[j].status = "pending"
  <2>1. Pending' = Pending \cup {j} /\ j \notin Pending /\ Requeued = {}
    BY <1>3 DEF Pending, Requeued
  <2> QED BY <1>1, <1>2, <1>3, <2>1, FS_AddElement
<1>4. CASE row[j].status = "pending" /\ row'[j].status # "pending"
  <2>1. Pending' = Pending \ {j} /\ j \in Pending /\ Requeued = {}
    BY <1>4 DEF Pending, Requeued
  <2> QED BY <1>1, <1>2, <1>4, <2>1, FS_RemoveElement
<1> QED BY <1>3, <1>4

\* How the claims on their way change.
LEMMA ClaimedSteps ==
  ASSUME QueueInv, NEW e \in execs
  PROVE  /\ e.pc # "claimed" /\ (ExecStep(e) \/ ExecFault(e) \/ Renew(e)) => Claimed' = Claimed
         /\ StartExecution(e) \/ ClaimNotifyFails(e) => Cardinality(Claimed') = Cardinality(Claimed) - 1
<1>1. /\ e \in Execs
      /\ \A pc : [e EXCEPT !.pc = pc].pc = pc
      /\ [e EXCEPT !.stolen = TRUE].pc = e.pc
  BY InvParts DEF Execs
<1>2. ASSUME e.pc # "claimed", ExecStep(e) \/ ExecFault(e) \/ Renew(e)
      PROVE  Claimed' = Claimed
  <2>1. \/ execs' = execs \/ execs' = execs \ {e}
        \/ \E f : f.pc # "claimed" /\ execs' = (execs \ {e}) \cup {f}
    <3>1. CASE Renew(e)
      BY <1>1, <1>2, <3>1 DEF Renew, Become
    <3>2. CASE ExecStep(e)
      BY <1>1, <1>2, <3>2 DEF ExecStep, StartExecution, WorkDone, WorkFails, Ack, Nack, Notify, Advance, Become, Finish
    <3>3. CASE ExecFault(e)
      BY <1>1, <1>2, <3>3 DEF ExecFault, ClaimNotifyFails, AckFails, AckNotifyFails, NackFails, Advance, Become, Finish
    <3> QED BY <1>2, <3>1, <3>2, <3>3
  <2> QED BY <1>2, <2>1 DEF Claimed
<1>3. ASSUME StartExecution(e) \/ ClaimNotifyFails(e)
      PROVE  Cardinality(Claimed') = Cardinality(Claimed) - 1
  <2>1. e \in Claimed /\ Claimed' = Claimed \ {e}
    <3>1. \/ \E f : f.pc # "claimed" /\ execs' = (execs \ {e}) \cup {f}
          \/ execs' = execs \ {e}
      BY <1>1, <1>3 DEF StartExecution, ClaimNotifyFails, Advance, Become, Finish
    <3>2. e.pc = "claimed"
      BY <1>3 DEF StartExecution, ClaimNotifyFails
    <3> QED BY <3>1, <3>2 DEF Claimed
  <2> QED BY <2>1, PendingSizes, FS_RemoveElement
<1> QED BY <1>2, <1>3

LEMMA ClaimedByCommit ==
  ASSUME QueueInv, NEW w \in Workers, ClaimCommit(w)
  PROVE  Cardinality(Claimed') = Cardinality(Claimed) + 1
<1> DEFINE f == NewExecution(w)
<1>1. f.pc = "claimed" /\ f.job = poll[w].job /\ f.claim = claims[poll[w].job] + 1
  BY DEF NewExecution
<1>2. poll[w].job \in Jobs /\ claims[poll[w].job] \in Nat
  BY InvParts DEF ClaimCommit, TypeOK, Polls
<1>3. f \notin execs
  BY <1>1, <1>2, InvParts DEF ClaimsNamed, Execs
<1>4. Claimed' = Claimed \cup {f} /\ f \notin Claimed
  BY <1>1, <1>3 DEF Claimed, ClaimCommit
<1> QED BY <1>4, PendingSizes, FS_AddElement

\* What the gauges have too much, but for what they will be told, if it is not lost, and
\* for the jobs queued again.
Surplus ==
  PendingDrift + moved.requeued - Cardinality(Claimed) + unanswered.added - unanswered.removed

\* The parts of Surplus are numbers, and the history moves with the rows.
LEMMA SurplusType ==
  ASSUME QueueInv, MetricsTypeOK, [MetricsNext]_metricsVars
  PROVE  /\ Surplus = apiPending + Sum("pending") - Cardinality(Pending) + moved.requeued
                        - Cardinality(Claimed) + unanswered.added - unanswered.removed
         /\ Surplus' = apiPending' + Sum("pending")' - Cardinality(Pending') + moved.requeued
                         + Turned({"running", "completed"}, "pending") - Cardinality(Claimed')
                         + unanswered'.added - unanswered'.removed
         /\ apiPending \in Int /\ apiPending' \in Int
         /\ unanswered.added \in Nat /\ unanswered.removed \in Nat
         /\ unanswered'.added \in Nat /\ unanswered'.removed \in Nat
         /\ Sum("pending") \in Int /\ Sum("pending")' \in Int
         /\ Cardinality(Pending) \in Nat /\ Cardinality(Pending') \in Nat
         /\ Cardinality(Claimed) \in Nat /\ Cardinality(Claimed') \in Nat
         /\ moved.requeued \in Nat /\ Turned({"running", "completed"}, "pending") \in Nat
         /\ metric' = metric => Sum("pending")' = Sum("pending")
<1>1. MetricsTypeOK' /\ TypeOK /\ [Next]_vars /\ TypeOK'
  BY TypeStep, InvParts, QueueSteps, NextType
<1>2. Sum("pending") \in Int
  BY SumType DEF Sum, MetricsTypeOK
<1>3. Sum("pending")' \in Int
  BY <1>1, SumType DEF Sum, MetricsTypeOK
<1>4. /\ Cardinality(Pending) \in Nat /\ Cardinality(Claimed) \in Nat
  BY PendingSizes
<1>5. /\ Cardinality(Pending') \in Nat /\ Cardinality(Claimed') \in Nat
  <2>1. IsFiniteSet(execs')
    BY <1>1, InvParts, ExecsFinite
  <2>2. Pending' \subseteq Jobs /\ Claimed' \subseteq execs'
    BY DEF Pending, Claimed
  <2> QED BY <2>1, <2>2, JobsFinite, FS_Subset, FS_CardinalityType
<1>6. /\ apiPending \in Int /\ apiPending' \in Int /\ moved.requeued \in Nat
      /\ unanswered.added \in Nat /\ unanswered.removed \in Nat
      /\ unanswered'.added \in Nat /\ unanswered'.removed \in Nat
  BY <1>1 DEF MetricsTypeOK
<1>7. moved'.requeued = moved.requeued + Turned({"running", "completed"}, "pending")
      /\ Turned({"running", "completed"}, "pending") \in Nat
  BY MovedBy, TurnedType
<1>8. Surplus = apiPending + Sum("pending") - Cardinality(Pending) + moved.requeued
                  - Cardinality(Claimed) + unanswered.added - unanswered.removed
  BY DEF Surplus, PendingDrift, Pending
<1>9. Surplus' = apiPending' + Sum("pending")' - Cardinality(Pending') + moved'.requeued
                   - Cardinality(Claimed') + unanswered'.added - unanswered'.removed
  BY DEF Surplus, PendingDrift, Pending
<1>10. metric' = metric => Sum("pending")' = Sum("pending")
  BY DEF Sum
<1> QED BY <1>2, <1>3, <1>4, <1>5, <1>6, <1>7, <1>8, <1>9, <1>10

\* A submit and a DLQ retry add a job to the pending ones, a cancel takes one, and the
\* gauge is to follow.
LEMMA SurplusByApi ==
  ASSUME QueueInv, MetricsTypeOK, [MetricsNext]_metricsVars, NEW j \in Jobs, ApiCommits(j)
  PROVE  Surplus' = Surplus
<1> DEFINE P == Cardinality(Pending)
           Q == Cardinality(Pending')
           T == Turned({"running", "completed"}, "pending")
<1>1. row \in [Jobs -> Rows] /\ row[j] \in Rows /\ unanswered \in [added : Nat, removed : Nat]
  BY InvParts DEF TypeOK, MetricsTypeOK
<1>2. /\ execs' = execs /\ metric' = metric /\ apiPending' = apiPending
      /\ \A k \in Jobs \ {j} : row'[k] = row[k]
  BY <1>1 DEF ApiCommits, Submit, Cancel, RetryDlq, Commits, RetryCommits
<1>3. CASE /\ Commits("added")
           /\ row[j].status \in {"absent", "dead_letter"} /\ row'[j].status = "pending"
  <2>1. Q = P + 1 /\ T = 0
    BY <1>2, <1>3, PendingMoves
  <2>2. unanswered'.added = unanswered.added + 1 /\ unanswered'.removed = unanswered.removed
    BY <1>1, <1>3 DEF Commits
  <2> QED BY <1>2, <2>1, <2>2, SurplusType DEF Claimed
<1>4. CASE /\ Commits("removed")
           /\ row[j].status = "pending" /\ row'[j].status # "pending"
  <2>1. Q = P - 1 /\ T = 0
    BY <1>2, <1>4, PendingMoves
  <2>2. unanswered'.removed = unanswered.removed + 1 /\ unanswered'.added = unanswered.added
    BY <1>1, <1>4 DEF Commits
  <2> QED BY <1>2, <2>1, <2>2, SurplusType DEF Claimed
<1>5. ASSUME NEW payload \in {"plain", "fail"}, NEW scheduled \in {"future", "due"},
             Submit(j, payload, scheduled)
      PROVE  row[j].status \in {"absent", "dead_letter"} /\ row'[j].status = "pending"
  BY <1>1, <1>5 DEF Submit, Absent
<1>6. ASSUME Cancel(j)
      PROVE  row[j].status = "pending" /\ row'[j].status # "pending"
  BY <1>1, <1>6 DEF Cancel, Rows
<1>7. ASSUME RetryDlq(j)
      PROVE  row[j].status \in {"absent", "dead_letter"} /\ row'[j].status = "pending"
  BY <1>1, <1>7 DEF RetryDlq, RetriedRow, Rows
<1> QED BY <1>3, <1>4, <1>5, <1>6, <1>7 DEF ApiCommits, RetryCommits

\* An answer moves the gauge by what the commit left to be told.
LEMMA SurplusByAnswer ==
  ASSUME QueueInv, MetricsTypeOK, [MetricsNext]_metricsVars, ApiAnswered
  PROVE  Surplus' = Surplus
<1>1. row' = row /\ execs' = execs /\ metric' = metric
  BY DEF ApiAnswered, ApiMoves, vars
<1>2. Pending' = Pending /\ Claimed' = Claimed /\ Turned({"running", "completed"}, "pending") = 0
  <2>1. Requeued = {}
    BY <1>1 DEF Requeued
  <2> QED BY <1>1, <2>1, FS_EmptySet DEF Pending, Claimed, Turned, Requeued
<1>3. unanswered \in [added : Nat, removed : Nat]
  BY DEF MetricsTypeOK
<1>4. CASE ApiMoves("added", 1)
  <2>1. /\ unanswered'.added = unanswered.added - 1 /\ unanswered'.removed = unanswered.removed
        /\ apiPending' = apiPending + 1
    BY <1>3, <1>4 DEF ApiMoves
  <2> QED BY <1>1, <1>2, <2>1, SurplusType
<1>5. CASE ApiMoves("removed", -1)
  <2>1. /\ unanswered'.removed = unanswered.removed - 1 /\ unanswered'.added = unanswered.added
        /\ apiPending' = apiPending - 1
    BY <1>3, <1>5, SurplusType DEF ApiMoves
  <2> QED BY <1>1, <1>2, <2>1, SurplusType
<1> QED BY <1>4, <1>5 DEF ApiAnswered

\* A commit takes a job from the pending ones and sets a claim on its way; its start
\* ends that and takes one from the gauge.
LEMMA SurplusByClaim ==
  ASSUME QueueInv, MetricsTypeOK, [MetricsNext]_metricsVars,
         NEW w \in Workers, ClaimCommit(w), UNCHANGED reported
  PROVE  Surplus' = Surplus
<1> DEFINE j == poll[w].job
<1>1. row \in [Jobs -> Rows] /\ j \in Jobs /\ row[j].status = "pending"
  BY InvParts DEF TypeOK, Polls, LocksHold, ClaimCommit
<1>2. /\ row'[j].status # "pending"
      /\ \A k \in Jobs \ {j} : row'[k] = row[k]
  BY <1>1 DEF ClaimCommit, ClaimedRow, Rows
<1>3. /\ Cardinality(Pending') = Cardinality(Pending) - 1
      /\ Turned({"running", "completed"}, "pending") = 0
  BY <1>1, <1>2, PendingMoves
<1>4. Cardinality(Claimed') = Cardinality(Claimed) + 1
  BY ClaimedByCommit
<1> QED BY <1>3, <1>4, SurplusType DEF reported

LEMMA SurplusByReport ==
  ASSUME QueueInv, MetricsTypeOK, [MetricsNext]_metricsVars, NEW e \in execs, ExecReports(e)
  PROVE  Surplus' = Surplus
<1>1. MetricsTypeOK' /\ e.worker \in Workers
  BY TypeStep, InvParts
<1>2. ExecStep(e) /\ Ordinary
  BY DEF ExecReports, ExecStep, Ordinary
<1>3. Cardinality(Pending') = Cardinality(Pending) + Turned({"running", "completed"}, "pending")
  BY <1>2, PendingGrows
<1>4. /\ apiPending' = apiPending /\ unanswered' = unanswered
      /\ \A v \in Workers \ {e.worker} : metric'[v] = metric[v]
      /\ metric[e.worker].pending \in Int /\ metric'[e.worker].pending \in Int
  BY <1>1 DEF ExecReports, StartMoves, AckMoves, NackMoves, MetricsTypeOK
<1>5. Sum("pending")' = Sum("pending") + metric'[e.worker].pending - metric[e.worker].pending
  BY <1>1, <1>4, SumSteps
<1>6. CASE StartExecution(e) /\ StartMoves(e.worker)
  <2>1. metric'[e.worker].pending = metric[e.worker].pending - 1
    BY <1>1, <1>6 DEF StartMoves, MetricsTypeOK
  <2>2. Cardinality(Claimed') = Cardinality(Claimed) - 1
    BY <1>6, ClaimedSteps
  <2>3. Sum("pending")' = Sum("pending") - 1
    BY <1>4, <1>5, <2>1, SurplusType
  <2> QED BY <1>3, <1>4, <2>2, <2>3, SurplusType
<1>7. CASE (Ack(e) /\ AckMoves(e.worker)) \/ (Nack(e) /\ NackMoves(e.worker))
  <2>1. metric'[e.worker].pending = metric[e.worker].pending
    BY <1>1, <1>7 DEF AckMoves, NackMoves, MetricsTypeOK
  <2>2. Claimed' = Claimed
    BY <1>2, <1>7, ClaimedSteps DEF Ack, Nack
  <2> QED BY <1>3, <1>4, <1>5, <2>1, <2>2, SurplusType
<1> QED BY <1>6, <1>7 DEF ExecReports

\* Of what is not reported, only a claim whose answer is lost leaves the gauge too high.
LEMMA SurplusInSilence ==
  ASSUME QueueInv, MetricsTypeOK, [MetricsNext]_metricsVars, Silent \/ UNCHANGED metricsVars
  PROVE  \/ Surplus' = Surplus
         \/ Surplus' = Surplus + 1 /\ \E e \in execs : ClaimNotifyFails(e)
<1>1. UNCHANGED reported
  BY DEF Silent, metricsVars, reported
<1>2. CASE \E w \in Workers : ClaimCommit(w)
  BY <1>1, <1>2, SurplusByClaim
<1>3. ASSUME Ordinary, Claimed' = Claimed PROVE Surplus' = Surplus
  BY <1>1, <1>3, PendingGrows, SurplusType DEF reported
<1>4. ASSUME NEW e \in execs, ClaimNotifyFails(e) PROVE Surplus' = Surplus + 1
  <2>1. Ordinary
    BY <1>4 DEF Ordinary, ExecFault
  <2>2. Cardinality(Claimed') = Cardinality(Claimed) - 1
    BY <1>4, ClaimedSteps
  <2> QED BY <1>1, <2>1, <2>2, PendingGrows, SurplusType DEF reported
<1>5. CASE UNCHANGED metricsVars
  BY <1>3, <1>5 DEF Ordinary, Claimed, metricsVars, vars
<1>6. ASSUME NEW j \in Jobs, ClockStep(j) PROVE Surplus' = Surplus
  <2>1. execs' = execs
    BY <1>6 DEF ClockStep, BecomeDue, Lapse, Stall
  <2> QED BY <1>3, <1>6, <2>1 DEF Ordinary, Claimed
<1>7. ASSUME NEW w \in Workers,
             \/ Start(w) \/ GetEligibleTenantIds(w) \/ ClaimNothing(w) \/ ClaimFails(w)
             \/ RecoverStaleLeases(w)
             \/ \E j \in Jobs : ClaimLock(w, j) \/ RenewLeaked(w, j)
      PROVE  Surplus' = Surplus
  <2>1. execs' = execs
    BY <1>7 DEF Start, GetEligibleTenantIds, ClaimNothing, ClaimFails, RecoverStaleLeases, ClaimLock, RenewLeaked
  <2>2. Ordinary
    BY <1>7 DEF Ordinary, LifeStep
  <2> QED BY <1>3, <2>1, <2>2 DEF Claimed
<1>8. ASSUME NEW e \in execs,
             \/ WorkDone(e) \/ WorkFails(e) \/ Notify(e)
             \/ AckFails(e) \/ AckNotifyFails(e) \/ NackFails(e) \/ Renew(e)
      PROVE  Surplus' = Surplus
  <2>1. e.pc # "claimed"
    BY <1>8 DEF WorkDone, WorkFails, Notify, AckFails, AckNotifyFails, NackFails, Renew
  <2>2. ExecStep(e) \/ ExecFault(e) \/ Renew(e)
    BY <1>8 DEF ExecStep, ExecFault
  <2> QED BY <1>3, <2>1, <2>2, ClaimedSteps DEF Ordinary
<1> QED BY <1>2, <1>4, <1>5, <1>6, <1>7, <1>8 DEF Silent, LoopStep, ExecFault

PendingInv == NobodyEnded => 0 <= Surplus /\ Surplus <= spent["faults"]

LEMMA PendingStep ==
  ASSUME QueueInv, MetricsTypeOK, PendingInv, [MetricsNext]_metricsVars
  PROVE  PendingInv'
<1> SUFFICES ASSUME NobodyEnded' PROVE 0 <= Surplus' /\ Surplus' <= spent'["faults"]
  BY DEF PendingInv
<1>1. [Next]_vars /\ Surplus \in Int
  BY QueueSteps, SurplusType
<1>2. NobodyEnded /\ \A w \in Workers : ~ Kill(w) /\ ~ UnhandledRejection(w)
  BY <1>1, EndedStays
<1>3. \/ Surplus' = Surplus
      \/ Surplus' = Surplus + 1 /\ \E e \in execs : ClaimNotifyFails(e)
  BY <1>2, SurplusByApi, SurplusByAnswer, SurplusByReport, SurplusInSilence DEF MetricsNext
<1>4. /\ spent["faults"] \in Nat /\ spent'["faults"] \in Nat /\ spent'["faults"] >= spent["faults"]
      /\ (\E e \in execs : ClaimNotifyFails(e)) => spent'["faults"] = spent["faults"] + 1
  BY <1>1, FaultsSpent
<1>5. 0 <= Surplus /\ Surplus <= spent["faults"]
  BY <1>2 DEF PendingInv
<1> QED BY <1>1, <1>3, <1>4, <1>5

\* While no worker's process has ended, the sum of jobs_pending_gauge differs from the
\* number of pending jobs by the claims on their way, by the claims whose answer was
\* lost, by the statements of the API whose answer has not come, or never will, and by
\* the jobs that a nack or a sweep queued again, and by nothing else (executor.ts:30,
\* 72-85, worker.ts:15-20, job.service.ts:22-48, 137-144, dlq.routes.ts:42-64).
THEOREM PendingGaugeHolds == MetricsSpec => []PendingGaugeDrift
<1>1. MetricsInit => PendingInv
  <2> SUFFICES ASSUME MetricsInit PROVE PendingInv
    OBVIOUS
  <2>1. /\ execs = {} /\ moved.requeued = 0 /\ spent["faults"] = 0 /\ apiPending = 0
        /\ unanswered.added = 0 /\ unanswered.removed = 0
        /\ \A j \in Jobs : row[j].status = "absent"
    BY DEF MetricsInit, Init, NothingMoved, AllAnswered, Kinds, Absent
  <2>2. [w \in Workers |-> metric[w]["pending"]] = [w \in Workers |-> 0]
    BY DEF MetricsInit, NoMoves
  <2>3. Sum("pending") = 0
    BY <2>2, SumOfNothing, WorkersFinite DEF Sum
  <2>4. Pending = {} /\ Claimed = {}
    BY <2>1 DEF Pending, Claimed
  <2>5. Surplus = 0 + 0 - Cardinality({}) + 0 - Cardinality({}) + 0 - 0
    BY <2>1, <2>3, <2>4 DEF Surplus, PendingDrift, Pending
  <2> QED BY <2>1, <2>5, FS_EmptySet DEF PendingInv
<1>2. QueueInv /\ MetricsTypeOK /\ PendingInv /\ [MetricsNext]_metricsVars => PendingInv'
  BY PendingStep
<1>3. QueueInv /\ MetricsTypeOK /\ PendingInv => PendingGaugeDrift
  <2> SUFFICES ASSUME QueueInv, MetricsTypeOK, PendingInv, NobodyEnded
               PROVE  /\ PendingDrift <= Cardinality(Claimed) + spent["faults"] + unanswered.removed
                      /\ PendingDrift >= - (moved.requeued + unanswered.added)
    BY DEF PendingGaugeDrift, Claimed
  <2>1. /\ apiPending \in Int /\ Sum("pending") \in Int /\ Cardinality(Pending) \in Nat
        /\ Cardinality(Claimed) \in Nat /\ moved.requeued \in Nat /\ spent["faults"] \in Nat
        /\ unanswered.added \in Nat /\ unanswered.removed \in Nat
    BY SumType, PendingSizes, InvParts DEF Sum, MetricsTypeOK, TypeOK, Kinds
  <2>2. PendingDrift \in Int
    BY <2>1 DEF PendingDrift, Pending
  <2> QED BY <2>1, <2>2 DEF PendingInv, Surplus
<1> QED BY <1>1, <1>2, <1>3, TypeAlways, PTL DEF MetricsSpec

=============================================================================
