--------------------------- MODULE JobQueueProofs ---------------------------
(* Proofs about JobQueue, for every set of jobs, tenants and workers. *)
EXTENDS JobQueue, FiniteSetTheorems, TLAPS

\* What a statement makes of a row is a row.
LEMMA ClaimedRowType == ASSUME NEW r \in Rows, NEW w \in Workers PROVE ClaimedRow(r, w) \in Rows
<1>1. r.attempts + 1 \in Nat
  BY DEF Rows
<1> QED BY <1>1 DEF Rows, Statuses, ClaimedRow

LEMMA SweptRowType == ASSUME NEW r \in Rows PROVE SweptRow(r) \in Rows
BY DEF Rows, Statuses, SweptRow

LEMMA AckedRowType == ASSUME NEW r \in Rows, NEW e PROVE AckedRow(r, e) \in Rows
BY DEF Rows, Statuses, AckedRow

LEMMA NackedRowType == ASSUME NEW r \in Rows, NEW e PROVE NackedRow(r, e) \in Rows
<1>1. [r EXCEPT !.status = "dead_letter"] \in Rows
  BY DEF Rows, Statuses
<1> QED BY <1>1, SweptRowType DEF NackedRow

LEMMA RetriedRowType == ASSUME NEW r \in Rows PROVE RetriedRow(r) \in Rows
BY DEF Rows, Statuses, RetriedRow

\* The types of the two rows that are not made from an old one.
LEMMA RowsConstant ==
  /\ Absent \in Rows
  /\ \A payload \in {"plain", "fail"}, scheduled \in {"future", "due"} :
       [Absent EXCEPT !.status = "pending", !.payload = payload, !.scheduled = scheduled] \in Rows
BY DEF Absent, Rows, Statuses

LEMMA InitType == Init => TypeOK
<1>1. Idle \in Polls
  BY DEF Idle, Polls
<1> QED BY <1>1, RowsConstant DEF Init, TypeOK

\* Spending a bound keeps the counters' type.
LEMMA SpendType ==
  ASSUME spent \in [Kinds -> Nat], NEW kind \in Kinds, NEW bound, Spend(kind, bound)
  PROVE  spent' \in [Kinds -> Nat]
BY DEF Spend

LEMMA ApiType == ASSUME TypeOK, NEW j \in Jobs, ApiStep(j) PROVE TypeOK'
<1>1. row[j] \in Rows
  BY DEF TypeOK
<1>2. CASE \E payload \in {"plain", "fail"}, scheduled \in {"future", "due"} : Submit(j, payload, scheduled)
  <2>1. PICK payload \in {"plain", "fail"}, scheduled \in {"future", "due"} : Submit(j, payload, scheduled)
    BY <1>2
  <2>2. row' \in [Jobs -> Rows]
    BY <2>1, RowsConstant DEF Submit, TypeOK
  <2> QED BY <2>1, <2>2 DEF Submit, TypeOK
<1>3. CASE Cancel(j)
  <2>1. [row[j] EXCEPT !.status = "failed"] \in Rows
    BY <1>1 DEF Rows, Statuses
  <2>2. row' \in [Jobs -> Rows]
    BY <1>3, <2>1 DEF Cancel, TypeOK
  <2> QED BY <1>3, <2>2 DEF Cancel, TypeOK
<1>4. CASE RetryDlq(j)
  <2>1. RetriedRow(row[j]) \in Rows
    BY <1>1, RetriedRowType
  <2>2. row' \in [Jobs -> Rows]
    BY <1>4, <2>1 DEF RetryDlq, TypeOK
  <2>3. spent' \in [Kinds -> Nat]
    BY <1>4, SpendType DEF RetryDlq, Kinds, TypeOK
  <2> QED BY <1>4, <2>2, <2>3 DEF RetryDlq, TypeOK
<1> QED BY <1>2, <1>3, <1>4 DEF ApiStep

LEMMA ClockType == ASSUME TypeOK, NEW j \in Jobs, ClockStep(j) PROVE TypeOK'
<1>1. row[j] \in Rows
  BY DEF TypeOK
<1>2. /\ [row[j] EXCEPT !.scheduled = "due"] \in Rows
      /\ [row[j] EXCEPT !.lease = "lapsed"] \in Rows
  BY <1>1 DEF Rows
<1>3. CASE BecomeDue(j)
  BY <1>2, <1>3 DEF BecomeDue, TypeOK
<1>4. CASE Lapse(j)
  BY <1>2, <1>4 DEF Lapse, TypeOK
<1>5. CASE Stall(j)
  <2>1. spent' \in [Kinds -> Nat]
    BY <1>5, SpendType DEF Stall, Kinds, TypeOK
  <2> QED BY <1>2, <1>5, <2>1 DEF Stall, TypeOK
<1> QED BY <1>3, <1>4, <1>5 DEF ClockStep

LEMMA LifeType == ASSUME TypeOK, NEW w \in Workers, LifeStep(w) PROVE TypeOK'
<1>1. CASE Start(w) \/ Stop(w) \/ LoopExit(w)
  BY <1>1 DEF Start, Stop, LoopExit, TypeOK
<1>2. ASSUME NEW how \in {"killed", "crashed"}, End(w, how), spent' \in [Kinds -> Nat]
      PROVE  TypeOK'
  <2>1. Idle \in Polls
    BY DEF Idle, Polls
  <2>2. life' \in [Workers -> {"new", "up", "stopping", "stopped", "killed", "crashed"}]
    BY <1>2 DEF End, TypeOK
  <2>3. /\ poll' \in [Workers -> Polls]
        /\ leaked' \in [Workers -> SUBSET Jobs]
        /\ execs' \subseteq Execs
    BY <1>2, <2>1 DEF End, TypeOK
  <2> QED BY <1>2, <2>2, <2>3 DEF End, TypeOK
<1>3. CASE Kill(w)
  BY <1>2, <1>3 DEF Kill, TypeOK
<1>4. CASE UnhandledRejection(w)
  <2>1. spent' \in [Kinds -> Nat]
    BY <1>4, SpendType DEF UnhandledRejection, Kinds, TypeOK
  <2> QED BY <1>2, <1>4, <2>1 DEF UnhandledRejection
<1> QED BY <1>1, <1>3, <1>4 DEF LifeStep

LEMMA LoopType ==
  ASSUME TypeOK, NEW w \in Workers, LoopStep(w) \/ ClaimFails(w)
  PROVE  TypeOK'
<1>1. poll[w] \in Polls /\ Idle \in Polls
  BY DEF TypeOK, Idle, Polls
<1>2. CASE GetEligibleTenantIds(w)
  <2>1. [pc |-> "polled", tenants |-> Eligible, job |-> NoJob] \in Polls
    BY DEF Polls, Eligible
  <2> QED BY <1>2, <2>1 DEF GetEligibleTenantIds, TypeOK
<1>3. CASE ClaimNothing(w)
  BY <1>1, <1>3 DEF ClaimNothing, TypeOK
<1>4. CASE \E j \in Jobs : ClaimLock(w, j)
  <2>1. PICK j \in Jobs : ClaimLock(w, j)
    BY <1>4
  <2>2. [poll[w] EXCEPT !.pc = "locked", !.job = j] \in Polls
    BY <1>1 DEF Polls
  <2>3. poll' \in [Workers -> Polls]
    BY <2>1, <2>2 DEF ClaimLock, TypeOK
  <2> QED BY <2>1, <2>3 DEF ClaimLock, TypeOK
<1>5. CASE ClaimCommit(w)
  <2> DEFINE j == poll[w].job
             e == NewExecution(w)
  <2>1. j \in Jobs
    BY <1>1, <1>5 DEF ClaimCommit, Polls
  <2>2. row[j] \in Rows /\ claims[j] \in Nat
    BY <2>1 DEF TypeOK
  <2>3. row' \in [Jobs -> Rows]
    BY <1>5, <2>1, <2>2, ClaimedRowType DEF ClaimCommit, TypeOK
  <2>4. claims' \in [Jobs -> Nat]
    BY <1>5, <2>1, <2>2 DEF ClaimCommit, TypeOK
  <2>5. e \in Execs
    BY <2>1, <2>2 DEF NewExecution, Execs, Rows
  <2>6. execs' \subseteq Execs
    BY <1>5, <2>5 DEF ClaimCommit, TypeOK
  <2>7. [pc |-> "claimed", tenants |-> {}, job |-> NoJob] \in Polls
    BY DEF Polls
  <2>8. poll' \in [Workers -> Polls]
    BY <1>5, <2>7 DEF ClaimCommit, TypeOK
  <2> QED BY <1>5, <2>3, <2>4, <2>6, <2>8 DEF ClaimCommit, TypeOK
<1>6. CASE ClaimFails(w)
  <2>1. spent' \in [Kinds -> Nat]
    BY <1>6, SpendType DEF ClaimFails, Kinds, TypeOK
  <2> QED BY <1>1, <1>6, <2>1 DEF ClaimFails, TypeOK
<1> QED BY <1>2, <1>3, <1>4, <1>5, <1>6 DEF LoopStep

\* What an execution may become.
LEMMA ExecsClosed ==
  ASSUME NEW e \in Execs,
         NEW pc \in {"claimed", "working", "acking", "acked", "nacking", "nacked"}
  PROVE  /\ [e EXCEPT !.pc = pc] \in Execs
         /\ [e EXCEPT !.stolen = TRUE] \in Execs
BY DEF Execs

LEMMA ExecType ==
  ASSUME TypeOK, NEW e \in execs, ExecStep(e) \/ ExecFault(e) \/ Renew(e)
  PROVE  TypeOK'
<1>1. e \in Execs /\ e.job \in Jobs /\ e.worker \in Workers
  BY DEF TypeOK, Execs
<1>2. row[e.job] \in Rows /\ Idle \in Polls
  BY <1>1 DEF TypeOK, Idle, Polls
<1>3. ASSUME Advance(e, "working") \/ Advance(e, "acking") \/ Advance(e, "acked")
               \/ Advance(e, "nacking") \/ Advance(e, "nacked") \/ Finish(e)
      PROVE  execs' \subseteq Execs
  BY <1>1, <1>3, ExecsClosed DEF Advance, Become, Finish, TypeOK
<1>4. /\ [row EXCEPT ![e.job] = AckedRow(@, e)] \in [Jobs -> Rows]
      /\ [row EXCEPT ![e.job] = NackedRow(@, e)] \in [Jobs -> Rows]
  BY <1>1, <1>2, AckedRowType, NackedRowType DEF TypeOK
<1>5. CASE StartExecution(e)
  BY <1>2, <1>3, <1>5 DEF StartExecution, TypeOK
<1>6. CASE WorkDone(e) \/ WorkFails(e)
  <2>1. leaked' \in [Workers -> SUBSET Jobs]
    BY <1>1, <1>6 DEF WorkDone, WorkFails, LeaveTimer, TypeOK
  <2>2. execs' \subseteq Execs
    BY <1>3, <1>6 DEF WorkDone, WorkFails
  <2> QED BY <1>6, <2>1, <2>2 DEF WorkDone, WorkFails, TypeOK
<1>7. CASE Ack(e)
  BY <1>3, <1>4, <1>7 DEF Ack, TypeOK
<1>8. CASE Nack(e)
  BY <1>3, <1>4, <1>8 DEF Nack, TypeOK
<1>9. CASE Notify(e)
  BY <1>3, <1>9 DEF Notify, TypeOK
<1>10. CASE ExecFault(e)
  <2>1. spent' \in [Kinds -> Nat]
    BY <1>10, SpendType DEF ExecFault, ClaimNotifyFails, AckFails, AckNotifyFails, NackFails, Kinds, TypeOK
  <2>2. CASE ClaimNotifyFails(e)
    BY <1>2, <1>3, <2>1, <2>2 DEF ClaimNotifyFails, TypeOK
  <2>3. CASE AckFails(e)
    BY <1>3, <1>4, <2>1, <2>3 DEF AckFails, TypeOK
  <2>4. CASE AckNotifyFails(e)
    BY <1>3, <2>1, <2>4 DEF AckNotifyFails, TypeOK
  <2>5. CASE NackFails(e)
    BY <1>3, <1>4, <2>1, <2>5 DEF NackFails, TypeOK
  <2> QED BY <1>10, <2>2, <2>3, <2>4, <2>5 DEF ExecFault
<1>11. CASE Renew(e)
  <2>1. [row[e.job] EXCEPT !.lease = "live"] \in Rows
    BY <1>2 DEF Rows
  <2>2. row' \in [Jobs -> Rows]
    BY <1>1, <1>11, <2>1 DEF Renew, TypeOK
  <2>3. execs' \subseteq Execs
    BY <1>1, <1>11, ExecsClosed DEF Renew, Become, TypeOK
  <2> QED BY <1>11, <2>2, <2>3 DEF Renew, TypeOK
<1> QED BY <1>5, <1>6, <1>7, <1>8, <1>9, <1>10, <1>11 DEF ExecStep

LEMMA SweepType ==
  ASSUME TypeOK, NEW w \in Workers,
         RecoverStaleLeases(w) \/ \E j \in Jobs : RenewLeaked(w, j)
  PROVE  TypeOK'
<1>1. CASE RecoverStaleLeases(w)
  <2>1. row' \in [Jobs -> Rows]
    BY <1>1, SweptRowType DEF RecoverStaleLeases, TypeOK
  <2> QED BY <1>1, <2>1 DEF RecoverStaleLeases, TypeOK
<1>2. CASE \E j \in Jobs : RenewLeaked(w, j)
  <2>1. PICK j \in Jobs : RenewLeaked(w, j)
    BY <1>2
  <2>2. [row[j] EXCEPT !.lease = "live"] \in Rows
    BY DEF Rows, TypeOK
  <2> QED BY <2>1, <2>2 DEF RenewLeaked, TypeOK
<1> QED BY <1>1, <1>2

LEMMA NextType == TypeOK /\ [Next]_vars => TypeOK'
<1> SUFFICES ASSUME TypeOK, [Next]_vars PROVE TypeOK'
  OBVIOUS
<1>1. CASE UNCHANGED vars
  BY <1>1 DEF vars, TypeOK
<1>2. CASE Next
  BY <1>2, ApiType, ClockType, LifeType, LoopType, ExecType, SweepType DEF Next
<1> QED BY <1>1, <1>2

\* The variables keep their types, for any numbers of jobs, workers and tenants
\* and any bounds on faults.
THEOREM TypeCorrect == Spec => []TypeOK
BY InitType, NextType, PTL DEF Spec

-----------------------------------------------------------------------------
(* How one step may change one row: every statement, with what it tested. *)

RowStep(k) ==
  \/ row'[k] = row[k]
  \/ /\ row[k].status = "absent"
     /\ row'[k].status = "pending" /\ row'[k].worker = NoWorker /\ row'[k].lease = "none"
     /\ row'[k].attempts = 0
  \/ row[k].status # "absent" /\ row'[k] = [row[k] EXCEPT !.scheduled = "due"]
  \/ row[k].status = "pending" /\ k \notin Locked /\ row'[k] = [row[k] EXCEPT !.status = "failed"]
  \/ row[k].status = "dead_letter" /\ row'[k] = RetriedRow(row[k])
  \/ /\ RunningLive(k) /\ row'[k] = [row[k] EXCEPT !.lease = "lapsed"]
     /\ ~ Held(k) \/ spent'["stalls"] > spent["stalls"]
  \/ \E w \in Workers : /\ poll[w].pc = "locked" /\ poll[w].job = k
                        /\ row'[k] = ClaimedRow(row[k], w)
                        /\ poll'[w].pc = "claimed" /\ ClaimCommit(w)
  \/ \E w \in Workers : RenewMatches(row[k], w) /\ row'[k] = [row[k] EXCEPT !.lease = "live"]
  \/ \E e \in execs : e.job = k /\ e.pc = "acking" /\ row'[k] = AckedRow(row[k], e) /\ e \notin execs'
  \/ \E e \in execs : e.job = k /\ e.pc = "nacking" /\ row'[k] = NackedRow(row[k], e) /\ e \notin execs'
  \/ Stale(row[k]) /\ row'[k] = SweptRow(row[k])

\* An execution that goes on leaves its old record behind.
LEMMA AdvanceRemoves ==
  ASSUME TypeOK, NEW e \in execs, NEW pc, pc # e.pc, Advance(e, pc)
  PROVE  e \notin execs'
<1>1. [e EXCEPT !.pc = pc].pc = pc
  BY DEF TypeOK, Execs
<1> QED BY <1>1 DEF Advance, Become

LEMMA RowSteps == ASSUME TypeOK, [Next]_vars, NEW k \in Jobs PROVE RowStep(k)
<1> USE DEF RowStep
<1>1. CASE UNCHANGED vars
  BY <1>1 DEF vars
<1>2. CASE \E j \in Jobs : ApiStep(j) \/ ClockStep(j)
  <2>1. PICK j \in Jobs : ApiStep(j) \/ ClockStep(j)
    BY <1>2
  <2>2. CASE \E payload \in {"plain", "fail"}, scheduled \in {"future", "due"} : Submit(j, payload, scheduled)
    <3>1. PICK payload \in {"plain", "fail"}, scheduled \in {"future", "due"} : Submit(j, payload, scheduled)
      BY <2>2
    <3> QED BY <3>1 DEF Submit, Absent, TypeOK
  <2>3. CASE Cancel(j)
    BY <2>3 DEF Cancel, TypeOK
  <2>4. CASE RetryDlq(j)
    BY <2>4 DEF RetryDlq, TypeOK
  <2>5. CASE BecomeDue(j)
    BY <2>5 DEF BecomeDue, TypeOK
  <2>6. CASE Lapse(j)
    BY <2>6 DEF Lapse, RunningLive, TypeOK
  <2>7. CASE Stall(j)
    <3>1. spent'["stalls"] > spent["stalls"]
      BY <2>7 DEF Stall, Spend, Kinds, TypeOK
    <3> QED BY <2>7, <3>1 DEF Stall, RunningLive, TypeOK
  <2> QED BY <2>1, <2>2, <2>3, <2>4, <2>5, <2>6, <2>7 DEF ApiStep, ClockStep
<1>3. ASSUME NEW w \in Workers,
             \/ LifeStep(w) \/ LoopStep(w) \/ ClaimFails(w) \/ RecoverStaleLeases(w)
             \/ \E j \in Jobs : RenewLeaked(w, j)
      PROVE  RowStep(k)
  <2>1. CASE LifeStep(w)
    BY <2>1 DEF LifeStep, Start, Stop, LoopExit, Kill, UnhandledRejection, End
  <2>2. CASE ClaimCommit(w)
    <3>1. poll'[w].pc = "claimed"
      BY <2>2 DEF ClaimCommit, TypeOK
    <3> QED BY <2>2, <3>1 DEF ClaimCommit, TypeOK
  <2>3. CASE GetEligibleTenantIds(w) \/ ClaimNothing(w) \/ (\E j \in Jobs : ClaimLock(w, j)) \/ ClaimFails(w)
    BY <2>3 DEF GetEligibleTenantIds, ClaimNothing, ClaimLock, ClaimFails
  <2>4. CASE RecoverStaleLeases(w)
    BY <2>4 DEF RecoverStaleLeases
  <2>5. CASE \E j \in Jobs : RenewLeaked(w, j)
    BY <2>5 DEF RenewLeaked, TypeOK
  <2> QED BY <1>3, <2>1, <2>2, <2>3, <2>4, <2>5 DEF LoopStep
<1>4. ASSUME NEW e \in execs, ExecStep(e) \/ ExecFault(e) \/ Renew(e)
      PROVE  RowStep(k)
  <2>1. e.job \in Jobs /\ e.worker \in Workers
    BY DEF TypeOK, Execs
  <2>2. CASE Renew(e)
    BY <2>1, <2>2 DEF Renew, TypeOK
  <2>3. CASE Ack(e) \/ AckFails(e)
    <3>1. e.pc = "acking" /\ e \notin execs'
      BY <2>3, AdvanceRemoves DEF Ack, AckFails, Finish
    <3> QED BY <2>1, <2>3, <3>1 DEF Ack, AckFails, TypeOK
  <2>4. CASE Nack(e) \/ NackFails(e)
    <3>1. e.pc = "nacking" /\ e \notin execs'
      BY <2>4, AdvanceRemoves DEF Nack, NackFails, Finish
    <3> QED BY <2>1, <2>4, <3>1 DEF Nack, NackFails, TypeOK
  <2>5. CASE StartExecution(e) \/ WorkDone(e) \/ WorkFails(e) \/ Notify(e)
              \/ ClaimNotifyFails(e) \/ AckNotifyFails(e)
    BY <2>5 DEF StartExecution, WorkDone, WorkFails, Notify, ClaimNotifyFails, AckNotifyFails
  <2> QED BY <1>4, <2>2, <2>3, <2>4, <2>5 DEF ExecStep, ExecFault
<1> QED BY <1>1, <1>2, <1>3, <1>4 DEF Next

\* How one step may change where the loop of one worker is.
PollStep(w) ==
  \/ poll'[w] = poll[w]
  \/ poll'[w].pc # "locked"
  \/ \E j \in Claimable(w) :
       /\ poll[w].pc = "polled"
       /\ poll'[w].pc = "locked" /\ poll'[w].job = j /\ poll'[w].tenants = poll[w].tenants
       /\ row' = row
       /\ \A v \in Workers \ {w} : poll'[v] = poll[v]

LEMMA PollSteps == ASSUME TypeOK, [Next]_vars, NEW w \in Workers PROVE PollStep(w)
<1> USE DEF PollStep
<1>1. CASE UNCHANGED poll
  BY <1>1
<1>2. CASE \E v \in Workers : LoopStep(v) \/ ClaimFails(v)
  <2>1. PICK v \in Workers : LoopStep(v) \/ ClaimFails(v)
    BY <1>2
  <2>2. Idle.pc = "idle"
    BY DEF Idle
  <2>3. CASE \E j \in Jobs : ClaimLock(v, j)
    <3>1. PICK j \in Jobs : ClaimLock(v, j)
      BY <2>3
    <3>2. poll[v] \in Polls
      BY DEF TypeOK
    <3>3. /\ [poll[v] EXCEPT !.pc = "locked", !.job = j].pc = "locked"
          /\ [poll[v] EXCEPT !.pc = "locked", !.job = j].job = j
          /\ [poll[v] EXCEPT !.pc = "locked", !.job = j].tenants = poll[v].tenants
      BY <3>2 DEF Polls
    <3> QED BY <3>1, <3>3 DEF ClaimLock, TypeOK
  <2>4. CASE GetEligibleTenantIds(v) \/ ClaimCommit(v)
    BY <2>4 DEF GetEligibleTenantIds, ClaimCommit, TypeOK
  <2>5. CASE ClaimNothing(v) \/ ClaimFails(v)
    BY <2>2, <2>5 DEF ClaimNothing, ClaimFails, TypeOK
  <2> QED BY <2>1, <2>3, <2>4, <2>5 DEF LoopStep
<1>3. CASE \E v \in Workers : Kill(v) \/ UnhandledRejection(v)
  BY <1>3 DEF Kill, UnhandledRejection, End, Idle, TypeOK
<1>4. CASE \E e \in execs : StartExecution(e) \/ ClaimNotifyFails(e)
  BY <1>4 DEF StartExecution, ClaimNotifyFails, Idle, TypeOK
<1>5. ASSUME [Next]_vars
      PROVE  \/ UNCHANGED poll
             \/ \E v \in Workers : LoopStep(v) \/ ClaimFails(v)
             \/ \E v \in Workers : Kill(v) \/ UnhandledRejection(v)
             \/ \E e \in execs : StartExecution(e) \/ ClaimNotifyFails(e)
  <2>1. CASE UNCHANGED vars
    BY <2>1 DEF vars
  <2>2. CASE \E j \in Jobs : ApiStep(j) \/ ClockStep(j)
    BY <2>2 DEF ApiStep, Submit, Cancel, RetryDlq, ClockStep, BecomeDue, Lapse, Stall
  <2>3. ASSUME NEW v \in Workers,
               \/ LifeStep(v) \/ RecoverStaleLeases(v)
               \/ \E j \in Jobs : RenewLeaked(v, j)
        PROVE  UNCHANGED poll \/ Kill(v) \/ UnhandledRejection(v)
    BY <2>3 DEF LifeStep, Start, Stop, LoopExit, RecoverStaleLeases, RenewLeaked
  <2>4. ASSUME NEW e \in execs, ExecStep(e) \/ ExecFault(e) \/ Renew(e)
        PROVE  UNCHANGED poll \/ StartExecution(e) \/ ClaimNotifyFails(e)
    BY <2>4 DEF ExecStep, ExecFault, WorkDone, WorkFails, Ack, Nack, Notify, AckFails,
                AckNotifyFails, NackFails, Renew
  <2> QED BY <1>5, <2>1, <2>2, <2>3, <2>4 DEF Next
<1> QED BY <1>1, <1>2, <1>3, <1>4, <1>5

-----------------------------------------------------------------------------
(* Rows and locks. *)

\* Shapes and locks need one another: a late ack spares a locked row because a
\* pending row names no worker, and a claim gives a worker only to a row that
\* is pending because it is locked.
RowInv == TypeOK /\ RowShape /\ LocksHold

LEMMA RowInvInit == Init => RowInv
<1> SUFFICES ASSUME Init PROVE RowInv
  OBVIOUS
<1>1. RowShape
  BY DEF Init, RowShape, Shape, Absent
<1>2. LocksHold
  BY DEF Init, LocksHold, Idle
<1> QED BY <1>1, <1>2, InitType DEF RowInv

LEMMA ShapeStep ==
  ASSUME RowInv, [Next]_vars, NEW k \in Jobs
  PROVE  Shape(row'[k])
<1>1. row[k] \in Rows /\ Shape(row[k])
  BY DEF RowInv, TypeOK, RowShape
<1>2. RowStep(k)
  BY RowSteps DEF RowInv
<1> USE <1>1 DEF Shape
<1>3. CASE row'[k] = row[k]
  BY <1>3
<1>4. CASE row'[k].status = "pending" /\ row'[k].worker = NoWorker /\ row'[k].lease = "none"
  BY <1>4
<1>5. CASE row'[k] = [row[k] EXCEPT !.scheduled = "due"]
  BY <1>5 DEF Rows
<1>6. CASE row[k].status = "pending" /\ row'[k] = [row[k] EXCEPT !.status = "failed"]
  BY <1>6 DEF Rows
<1>7. CASE row'[k] = RetriedRow(row[k])
  BY <1>7 DEF Rows, RetriedRow
<1>8. CASE RunningLive(k) /\ row'[k] = [row[k] EXCEPT !.lease = "lapsed"]
  BY <1>8 DEF Rows, RunningLive
<1>9. CASE \E w \in Workers : row'[k] = ClaimedRow(row[k], w)
  BY <1>9, WorkersFinite DEF Rows, ClaimedRow
<1>10. CASE \E w \in Workers : RenewMatches(row[k], w) /\ row'[k] = [row[k] EXCEPT !.lease = "live"]
  BY <1>10, WorkersFinite DEF Rows, RenewMatches
<1>11. CASE \E e \in execs : row'[k] = AckedRow(row[k], e)
  <2>1. PICK e \in execs : row'[k] = AckedRow(row[k], e)
    BY <1>11
  <2>2. e.worker \in Workers
    BY DEF RowInv, TypeOK, Execs
  <2> QED BY <2>1, <2>2, WorkersFinite DEF Rows, AckedRow, OwnerMatches
<1>12. CASE \E e \in execs : row'[k] = NackedRow(row[k], e)
  <2>1. PICK e \in execs : row'[k] = NackedRow(row[k], e)
    BY <1>12
  <2>2. e.worker \in Workers
    BY DEF RowInv, TypeOK, Execs
  <2>3. Shape(SweptRow(row[k]))
    BY DEF Rows, SweptRow
  <2>4. CASE row'[k] = [row[k] EXCEPT !.status = "dead_letter"] /\ row[k].worker = e.worker
    BY <2>2, <2>4, WorkersFinite DEF Rows
  <2> QED BY <2>1, <2>3, <2>4 DEF NackedRow, OwnerMatches
<1>13. CASE row'[k] = SweptRow(row[k])
  BY <1>13 DEF Rows, SweptRow
<1> QED BY <1>2, <1>3, <1>4, <1>5, <1>6, <1>7, <1>8, <1>9, <1>10, <1>11, <1>12, <1>13 DEF RowStep

\* A locked row stays pending until the claim that locked it ends.
LEMMA LockedRowStays ==
  ASSUME RowInv, [Next]_vars, NEW w \in Workers, poll[w].pc = "locked", poll'[w] = poll[w]
  PROVE  row'[poll[w].job].status = "pending"
<1> DEFINE k == poll[w].job
<1>1. k \in Jobs
  BY DEF RowInv, TypeOK, Polls
<1>2. row[k] \in Rows /\ row[k].status = "pending" /\ row[k].worker = NoWorker
  BY <1>1 DEF RowInv, TypeOK, LocksHold, RowShape, Shape
<1>3. k \in Locked
  BY DEF Locked
<1>4. RowStep(k)
  BY <1>1, RowSteps DEF RowInv
<1>5. \A v \in Workers : poll[v].pc = "locked" /\ poll[v].job = k => v = w
  BY DEF RowInv, LocksHold
<1>6. \A e \in execs : ~ OwnerMatches(row[k], e)
  BY <1>2, WorkersFinite DEF OwnerMatches, RowInv, TypeOK, Execs
<1>7. \A e \in execs : AckedRow(row[k], e) = row[k] /\ NackedRow(row[k], e) = row[k]
  BY <1>6 DEF AckedRow, NackedRow
<1>8. CASE row'[k] = [row[k] EXCEPT !.scheduled = "due"]
  BY <1>2, <1>8 DEF Rows
<1>9. \A v \in Workers : ~ RenewMatches(row[k], v)
  BY <1>2 DEF RenewMatches
<1> QED BY <1>2, <1>3, <1>4, <1>5, <1>7, <1>8, <1>9 DEF RowStep, RunningLive, Stale

LEMMA LocksStep == ASSUME RowInv, [Next]_vars PROVE LocksHold'
<1> SUFFICES ASSUME NEW w \in Workers, poll'[w].pc = "locked"
             PROVE  /\ row'[poll'[w].job].status = "pending"
                    /\ TenantOf[poll'[w].job] \in poll'[w].tenants
                    /\ \A v \in Workers : poll'[v].pc = "locked" /\ poll'[v].job = poll'[w].job => v = w
  BY DEF LocksHold
<1>0. \A v \in Workers : PollStep(v)
  BY PollSteps DEF RowInv
<1>1. CASE poll'[w] = poll[w]
  <2>1. row'[poll[w].job].status = "pending" /\ TenantOf[poll[w].job] \in poll[w].tenants
    BY <1>1, LockedRowStays DEF RowInv, LocksHold
  <2>2. ASSUME NEW v \in Workers, poll'[v].pc = "locked", poll'[v].job = poll[w].job
        PROVE  v = w
    <3>1. CASE poll'[v] = poll[v]
      BY <1>1, <2>2, <3>1 DEF RowInv, LocksHold
    <3>2. CASE poll'[v] # poll[v]
      <4>1. poll'[v].job \in Claimable(v)
        BY <1>0, <2>2, <3>2 DEF PollStep
      <4>2. poll[w].job \notin Locked
        BY <2>2, <4>1 DEF Claimable, Candidates
      <4> QED BY <1>1, <4>2 DEF Locked
    <3> QED BY <3>1, <3>2
  <2> QED BY <1>1, <2>1, <2>2
<1>2. CASE poll'[w] # poll[w]
  <2>1. PICK j \in Claimable(w) :
          /\ poll'[w].job = j /\ poll'[w].tenants = poll[w].tenants /\ row' = row
          /\ \A v \in Workers \ {w} : poll'[v] = poll[v]
    BY <1>0, <1>2 DEF PollStep
  <2>2. row[j].status = "pending" /\ TenantOf[j] \in poll[w].tenants /\ j \notin Locked
    BY DEF Claimable, Candidates
  <2> QED BY <2>1, <2>2 DEF Locked
<1> QED BY <1>1, <1>2

LEMMA RowInvStep == RowInv /\ [Next]_vars => RowInv'
<1> SUFFICES ASSUME RowInv, [Next]_vars PROVE RowInv'
  OBVIOUS
<1>1. TypeOK'
  BY NextType DEF RowInv
<1>2. RowShape'
  BY ShapeStep DEF RowShape, Shape
<1> QED BY <1>1, <1>2, LocksStep DEF RowInv

LEMMA RowInvAlways == Spec => []RowInv
BY RowInvInit, RowInvStep, PTL DEF Spec

\* A worker_id stands on exactly the rows that a claim still has a say in.
THEOREM RowShapeHolds == Spec => []RowShape
<1>1. RowInv => RowShape
  BY DEF RowInv
<1> QED BY <1>1, RowInvAlways, PTL

\* A cancelled job stays cancelled.
THEOREM CancelledStays == Spec => CancelledIsFinal
<1>1. ASSUME RowInv, [Next]_vars, NEW j \in Jobs, row[j].status = "failed"
      PROVE  row'[j].status = "failed"
  <2>1. row[j] \in Rows /\ row[j].worker = NoWorker
    BY <1>1 DEF RowInv, TypeOK, RowShape, Shape
  <2>2. RowStep(j)
    BY <1>1, RowSteps DEF RowInv
  <2>3. \A e \in execs : ~ OwnerMatches(row[j], e)
    BY <1>1, <2>1, WorkersFinite DEF OwnerMatches, RowInv, TypeOK, Execs
  <2>4. \A e \in execs : AckedRow(row[j], e) = row[j] /\ NackedRow(row[j], e) = row[j]
    BY <2>3 DEF AckedRow, NackedRow
  <2>5. \A w \in Workers : poll[w].pc = "locked" => poll[w].job # j
    BY <1>1 DEF RowInv, LocksHold
  <2>6. CASE row'[j] = [row[j] EXCEPT !.scheduled = "due"]
    BY <1>1, <2>1, <2>6 DEF Rows
  <2> QED BY <1>1, <2>2, <2>4, <2>5, <2>6 DEF RowStep, RunningLive, Stale, RenewMatches
<1>2. RowInv /\ [Next]_vars =>
        [\A j \in Jobs : row[j].status = "failed" => row'[j].status = "failed"]_vars
  BY <1>1
<1> QED BY <1>2, RowInvAlways, PTL DEF Spec, CancelledIsFinal

\* Only its worker's own executions, or the end of its lease, take a running
\* job from a worker.
THEOREM HoldersDecide == Spec => HolderDecides
<1> DEFINE Taken(j) ==
      (row[j].status = "running" /\ row'[j].status # "running") =>
         \/ row[j].lease = "lapsed"
         \/ \E e \in Executing(row[j].worker) : e.job = j /\ e.pc \in {"acking", "nacking"}
<1>1. ASSUME RowInv, [Next]_vars, NEW j \in Jobs
      PROVE  Taken(j)
  <2> SUFFICES ASSUME row[j].status = "running", row'[j].status # "running", row[j].lease # "lapsed"
               PROVE  \E e \in Executing(row[j].worker) : e.job = j /\ e.pc \in {"acking", "nacking"}
    OBVIOUS
  <2>1. row[j] \in Rows
    BY <1>1 DEF RowInv, TypeOK
  <2>2. RowStep(j)
    BY <1>1, RowSteps DEF RowInv
  <2>3. \A w \in Workers : poll[w].pc = "locked" => poll[w].job # j
    BY <1>1 DEF RowInv, LocksHold
  <2>4. /\ row'[j] # [row[j] EXCEPT !.scheduled = "due"]
        /\ row'[j] # [row[j] EXCEPT !.lease = "lapsed"]
        /\ row'[j] # [row[j] EXCEPT !.lease = "live"]
    BY <2>1 DEF Rows
  <2>5. PICK e \in execs :
          /\ e.job = j /\ e.pc \in {"acking", "nacking"}
          /\ row'[j] = AckedRow(row[j], e) \/ row'[j] = NackedRow(row[j], e)
    BY <2>2, <2>3, <2>4 DEF RowStep, Stale
  <2>6. OwnerMatches(row[j], e)
    BY <2>5 DEF AckedRow, NackedRow
  <2> QED BY <2>5, <2>6 DEF OwnerMatches, Executing
<1>2. RowInv /\ [Next]_vars => [\A j \in Jobs : Taken(j)]_vars
  BY <1>1
<1> QED BY <1>2, RowInvAlways, PTL DEF Spec, HolderDecides

\* What is dead-lettered has no attempts left.
THEOREM DeadLettersExhausted == Spec => []DeadLetterExhausted
<1>1. Init => DeadLetterExhausted
  BY DEF Init, DeadLetterExhausted, Absent
<1>2. ASSUME RowInv, DeadLetterExhausted, [Next]_vars, NEW j \in Jobs, row'[j].status = "dead_letter"
      PROVE  row'[j].attempts >= MaxAttempts[j]
  <2>1. row[j] \in Rows
    BY <1>2 DEF RowInv, TypeOK
  <2>2. RowStep(j)
    BY <1>2, RowSteps DEF RowInv
  <2>3. /\ RetriedRow(row[j]).status = "pending"
        /\ SweptRow(row[j]).status = "pending"
        /\ \A w \in Workers : ClaimedRow(row[j], w).status = "running"
        /\ [row[j] EXCEPT !.status = "failed"].status = "failed"
        /\ [row[j] EXCEPT !.status = "completed"].status = "completed"
    BY <2>1 DEF Rows, RetriedRow, SweptRow, ClaimedRow
  <2>4. \A change \in {[row[j] EXCEPT !.scheduled = "due"], [row[j] EXCEPT !.lease = "lapsed"],
                        [row[j] EXCEPT !.lease = "live"]} :
          change.status = row[j].status /\ change.attempts = row[j].attempts
    BY <2>1 DEF Rows
  <2>5. [row[j] EXCEPT !.status = "dead_letter"].attempts = row[j].attempts
    BY <2>1 DEF Rows
  <2>6. \A e \in execs : e.job = j /\ row'[j] = NackedRow(row[j], e) => row'[j].attempts >= MaxAttempts[j]
    BY <1>2, <2>3, <2>5 DEF NackedRow, DeadLetterExhausted
  <2>7. \A e \in execs : row'[j] = AckedRow(row[j], e) => row'[j] = row[j]
    BY <1>2, <2>3 DEF AckedRow
  <2>8. row'[j] = row[j] => row'[j].attempts >= MaxAttempts[j]
    BY <1>2 DEF DeadLetterExhausted
  <2>9. /\ ~ (row'[j].status = "pending") /\ ~ (row'[j] = RetriedRow(row[j])) /\ ~ (row'[j] = SweptRow(row[j]))
        /\ ~ (row'[j] = [row[j] EXCEPT !.status = "failed"])
        /\ \A w \in Workers : ~ (row'[j] = ClaimedRow(row[j], w))
    BY <1>2, <2>3
  <2>10. \A change \in {[row[j] EXCEPT !.scheduled = "due"], [row[j] EXCEPT !.lease = "lapsed"],
                         [row[j] EXCEPT !.lease = "live"]} :
           row'[j] = change => row'[j].attempts >= MaxAttempts[j]
    <3>1. row[j].status = "dead_letter" => row[j].attempts >= MaxAttempts[j]
      BY <1>2 DEF DeadLetterExhausted
    <3> QED BY <1>2, <2>4, <3>1, Zenon
  <2> QED BY <2>2, <2>6, <2>7, <2>8, <2>9, <2>10, Zenon DEF RowStep
<1>3. RowInv /\ DeadLetterExhausted /\ [Next]_vars => DeadLetterExhausted'
  BY <1>2 DEF DeadLetterExhausted
<1> QED BY <1>1, <1>3, RowInvAlways, PTL DEF Spec

\* What a claim has locked nobody else takes, cancels or settles.
THEOREM LocksAreHeld == Spec => []LocksHold
<1>1. RowInv => LocksHold
  BY DEF RowInv
<1> QED BY <1>1, RowInvAlways, PTL

-----------------------------------------------------------------------------
(* Executions and the claims they were started for. *)

\* Where an execution that is new in execs' comes from.
NextOf(e, f) ==
  /\ execs' = (execs \ {e}) \cup {f}
  /\ f.job = e.job /\ f.claim = e.claim /\ f.worker = e.worker
  /\ claims' = claims
  /\ f.stolen = e.stolen \/ (row' = row /\ ~ RenewMatches(row[e.job], e.worker))
  /\ \/ e.pc = "claimed" /\ f.pc = "working" /\ row' = row
     \/ e.pc = "working" /\ f.pc \in {"working", "acking", "nacking"} /\ row' = row
     \/ /\ e.pc = "acking" /\ f.pc = "acked" /\ OwnerMatches(row[e.job], e)
        /\ row' = [row EXCEPT ![e.job] = AckedRow(@, e)]
     \/ /\ e.pc = "acking" /\ f.pc = "nacking"
        /\ row' = row \/ row' = [row EXCEPT ![e.job] = AckedRow(@, e)]
     \/ e.pc = "acked" /\ f.pc = "nacking" /\ row' = row
     \/ /\ e.pc = "nacking" /\ f.pc = "nacked" /\ OwnerMatches(row[e.job], e)
        /\ row' = [row EXCEPT ![e.job] = NackedRow(@, e)]

ExecFrom(f) ==
  \/ f \in execs
  \/ \E e \in execs : NextOf(e, f)
  \/ \E w \in Workers : ClaimCommit(w) /\ f = NewExecution(w)

LEMMA AdvanceTo ==
  ASSUME TypeOK, NEW e \in execs, NEW pc, Advance(e, pc), NEW f \in execs', f \notin execs
  PROVE  /\ f.pc = pc /\ f.job = e.job /\ f.claim = e.claim /\ f.worker = e.worker
         /\ f.stolen = e.stolen
         /\ execs' = (execs \ {e}) \cup {f}
<1>1. e \in Execs
  BY DEF TypeOK
<1>2. f = [e EXCEPT !.pc = pc]
  BY DEF Advance, Become
<1> QED BY <1>1, <1>2 DEF Advance, Become, Execs

LEMMA ExecsFrom == ASSUME TypeOK, [Next]_vars, NEW f \in execs' PROVE ExecFrom(f)
<1> SUFFICES ASSUME f \notin execs PROVE ExecFrom(f)
  BY DEF ExecFrom
<1> USE DEF ExecFrom
<1>1. CASE UNCHANGED vars
  BY <1>1 DEF vars
<1>2. CASE \E j \in Jobs : ApiStep(j) \/ ClockStep(j)
  BY <1>2 DEF ApiStep, Submit, Cancel, RetryDlq, ClockStep, BecomeDue, Lapse, Stall
<1>3. ASSUME NEW w \in Workers,
             \/ LifeStep(w) \/ LoopStep(w) \/ ClaimFails(w) \/ RecoverStaleLeases(w)
             \/ \E j \in Jobs : RenewLeaked(w, j)
      PROVE  ExecFrom(f)
  <2>1. CASE LifeStep(w)
    BY <2>1 DEF LifeStep, Start, Stop, LoopExit, Kill, UnhandledRejection, End
  <2>2. CASE ClaimCommit(w)
    BY <2>2 DEF ClaimCommit
  <2>3. CASE GetEligibleTenantIds(w) \/ ClaimNothing(w) \/ (\E j \in Jobs : ClaimLock(w, j)) \/ ClaimFails(w)
    BY <2>3 DEF GetEligibleTenantIds, ClaimNothing, ClaimLock, ClaimFails
  <2>4. CASE RecoverStaleLeases(w) \/ \E j \in Jobs : RenewLeaked(w, j)
    BY <2>4 DEF RecoverStaleLeases, RenewLeaked
  <2> QED BY <1>3, <2>1, <2>2, <2>3, <2>4 DEF LoopStep
<1>4. ASSUME NEW e \in execs, ExecStep(e) \/ ExecFault(e) \/ Renew(e)
      PROVE  ExecFrom(f)
  <2> SUFFICES NextOf(e, f)
    OBVIOUS
  <2> USE DEF NextOf
  <2>1. e \in Execs
    BY DEF TypeOK
  <2>2. CASE StartExecution(e)
    BY <2>2, AdvanceTo DEF StartExecution
  <2>3. CASE WorkDone(e) \/ WorkFails(e)
    BY <2>3, AdvanceTo DEF WorkDone, WorkFails, Finish
  <2>4. CASE Ack(e)
    BY <2>4, AdvanceTo DEF Ack, Finish
  <2>5. CASE Nack(e)
    BY <2>5, AdvanceTo DEF Nack, Finish
  <2>6. CASE Notify(e) \/ ClaimNotifyFails(e) \/ NackFails(e)
    BY <2>6 DEF Notify, ClaimNotifyFails, NackFails, Finish
  <2>7. CASE AckFails(e)
    BY <2>7, AdvanceTo DEF AckFails
  <2>8. CASE AckNotifyFails(e)
    BY <2>8, AdvanceTo DEF AckNotifyFails
  <2>9. CASE Renew(e)
    <3>1. /\ f = [e EXCEPT !.stolen = TRUE] /\ execs' = (execs \ {e}) \cup {f}
          /\ row' = row /\ claims' = claims /\ e.pc = "working"
          /\ ~ RenewMatches(row[e.job], e.worker)
      BY <2>9 DEF Renew, Become
    <3>2. f.pc = e.pc /\ f.job = e.job /\ f.claim = e.claim /\ f.worker = e.worker
      BY <2>1, <3>1 DEF Execs
    <3> QED BY <3>1, <3>2
  <2> QED BY <1>4, <2>2, <2>3, <2>4, <2>5, <2>6, <2>7, <2>8, <2>9 DEF ExecStep, ExecFault
<1> QED BY <1>1, <1>2, <1>3, <1>4 DEF Next

\* Claims are counted only by the claim that commits on a pending row.
LEMMA ClaimsSteps ==
  ASSUME RowInv, [Next]_vars
  PROVE  \/ claims' = claims
         \/ \E w \in Workers :
              /\ ClaimCommit(w) /\ poll[w].job \in Jobs
              /\ row[poll[w].job].status = "pending"
              /\ claims' = [claims EXCEPT ![poll[w].job] = @ + 1]
<1>1. CASE UNCHANGED vars
  BY <1>1 DEF vars
<1>2. CASE \E j \in Jobs : ApiStep(j) \/ ClockStep(j)
  BY <1>2 DEF ApiStep, Submit, Cancel, RetryDlq, ClockStep, BecomeDue, Lapse, Stall
<1>3. ASSUME NEW w \in Workers, ClaimCommit(w)
      PROVE  /\ poll[w].job \in Jobs /\ row[poll[w].job].status = "pending"
             /\ claims' = [claims EXCEPT ![poll[w].job] = @ + 1]
  BY <1>3 DEF ClaimCommit, RowInv, TypeOK, LocksHold, Polls
<1>4. ASSUME NEW w \in Workers,
             \/ LifeStep(w) \/ LoopStep(w) \/ ClaimFails(w) \/ RecoverStaleLeases(w)
             \/ \E j \in Jobs : RenewLeaked(w, j)
      PROVE  claims' = claims \/ ClaimCommit(w)
  BY <1>4 DEF LifeStep, Start, Stop, LoopExit, Kill, UnhandledRejection, End, LoopStep,
       GetEligibleTenantIds, ClaimNothing, ClaimLock, ClaimFails, RecoverStaleLeases, RenewLeaked
<1>5. ASSUME NEW e \in execs, ExecStep(e) \/ ExecFault(e) \/ Renew(e)
      PROVE  claims' = claims
  BY <1>5 DEF ExecStep, ExecFault, Renew, StartExecution, WorkDone, WorkFails, Ack, Nack, Notify,
       ClaimNotifyFails, AckFails, AckNotifyFails, NackFails
<1> QED BY <1>1, <1>2, <1>3, <1>4, <1>5 DEF Next

\* No two executions were started for the same claim.
ClaimsNamed ==
  \A e \in execs :
    /\ e.claim <= claims[e.job]
    /\ \A f \in execs : f.job = e.job /\ f.claim = e.claim => f = e

LEMMA ClaimsNamedStep == RowInv /\ ClaimsNamed /\ [Next]_vars => ClaimsNamed'
<1> SUFFICES ASSUME RowInv, ClaimsNamed, [Next]_vars PROVE ClaimsNamed'
  OBVIOUS
<1>1. \A f \in execs' : ExecFrom(f)
  BY ExecsFrom DEF RowInv
<1>2. \A e \in execs : e.job \in Jobs /\ e.claim \in Nat /\ claims[e.job] \in Nat
  BY DEF RowInv, TypeOK, Execs
<1>3. CASE \E e \in execs, f \in execs' : NextOf(e, f)
  <2>1. PICK e \in execs, f \in execs' : NextOf(e, f)
    BY <1>3
  <2> QED BY <2>1 DEF NextOf, ClaimsNamed
<1>4. CASE \E w \in Workers : ClaimCommit(w)
  <2>1. PICK w \in Workers : ClaimCommit(w)
    BY <1>4
  <2>2. poll[w].job \in Jobs /\ claims[poll[w].job] \in Nat
    BY <2>1 DEF ClaimCommit, RowInv, TypeOK, Polls
  <2>3. /\ execs' = execs \cup {NewExecution(w)}
        /\ claims' = [claims EXCEPT ![poll[w].job] = @ + 1]
        /\ claims \in [Jobs -> Nat]
    BY <2>1 DEF ClaimCommit, RowInv, TypeOK
  <2>4. NewExecution(w).job = poll[w].job /\ NewExecution(w).claim = claims[poll[w].job] + 1
    BY DEF NewExecution
  <2>5. \A e \in execs : e.job = poll[w].job => e.claim < claims[poll[w].job] + 1
    BY <1>2, <2>2 DEF ClaimsNamed
  <2>6. \A e \in execs : e.claim <= claims'[e.job]
    BY <1>2, <2>2, <2>3 DEF ClaimsNamed
  <2>7. NewExecution(w).claim = claims'[poll[w].job]
    BY <2>2, <2>3, <2>4
  <2> QED BY <1>2, <2>2, <2>3, <2>4, <2>5, <2>6, <2>7 DEF ClaimsNamed
<1>5. CASE execs' \subseteq execs /\ ~ \E w \in Workers : ClaimCommit(w)
  <2>1. claims' = claims
    BY <1>5, ClaimsSteps
  <2> QED BY <1>5, <2>1 DEF ClaimsNamed
<1> QED BY <1>1, <1>3, <1>4, <1>5 DEF ExecFrom

\* An execution that owns its job owned it a step before.
LEMMA OwnsBefore ==
  ASSUME RowInv, ClaimsNamed, [Next]_vars, NEW f, Owns(f)',
         NEW e \in execs, e.job = f.job, e.claim = f.claim, e.worker = f.worker
  PROVE  Owns(e)
<1>1. row'[f.job].status = "running" /\ row'[f.job].worker = f.worker /\ claims'[f.job] = f.claim
  BY DEF Owns
<1> DEFINE k == e.job
<1>2. /\ k \in Jobs /\ row[k] \in Rows /\ claims[k] \in Nat /\ e.claim \in Nat
      /\ claims \in [Jobs -> Nat] /\ e.claim <= claims[k]
  BY DEF RowInv, TypeOK, Execs, ClaimsNamed
<1>3. claims'[k] = claims[k] /\ ~ \E w \in Workers : ClaimCommit(w) /\ poll[w].job = k
  BY <1>1, <1>2, ClaimsSteps DEF ClaimCommit
<1>4. RowStep(k)
  BY <1>2, RowSteps DEF RowInv
<1>5. /\ RetriedRow(row[k]).status = "pending"
      /\ SweptRow(row[k]).status = "pending"
      /\ [row[k] EXCEPT !.status = "failed"].status = "failed"
      /\ [row[k] EXCEPT !.status = "completed"].status = "completed"
      /\ [row[k] EXCEPT !.status = "dead_letter"].status = "dead_letter"
  BY <1>2 DEF Rows, RetriedRow, SweptRow
<1>6. \A change \in {[row[k] EXCEPT !.scheduled = "due"], [row[k] EXCEPT !.lease = "lapsed"],
                      [row[k] EXCEPT !.lease = "live"]} :
        change.status = row[k].status /\ change.worker = row[k].worker
  BY <1>2 DEF Rows
<1>7. \A g \in execs : /\ AckedRow(row[k], g).status = "running" => AckedRow(row[k], g) = row[k]
                       /\ NackedRow(row[k], g).status = "running" => NackedRow(row[k], g) = row[k]
  BY <1>5 DEF AckedRow, NackedRow
<1>8. row'[k].status = "running" /\ row'[k].worker = e.worker
  BY <1>1
<1>9. \/ row'[k] = row[k]
      \/ row'[k] = [row[k] EXCEPT !.scheduled = "due"]
      \/ row'[k] = [row[k] EXCEPT !.lease = "lapsed"]
      \/ row'[k] = [row[k] EXCEPT !.lease = "live"]
  <2>1. ~ (row'[k] = RetriedRow(row[k])) /\ ~ (row'[k] = SweptRow(row[k]))
        /\ ~ (row'[k] = [row[k] EXCEPT !.status = "failed"])
    BY <1>5, <1>8
  <2>2. \A g \in execs : /\ row'[k] = AckedRow(row[k], g) => row'[k] = row[k]
                         /\ row'[k] = NackedRow(row[k], g) => row'[k] = row[k]
    BY <1>7, <1>8
  <2>3. ~ (row'[k].status = "pending") /\ ~ \E w \in Workers : ClaimCommit(w) /\ poll[w].job = k
    BY <1>3, <1>8
  <2> QED BY <1>4, <2>1, <2>2, <2>3, Zenon DEF RowStep
<1>10. row[k].status = "running" /\ row[k].worker = e.worker
  BY <1>6, <1>8, <1>9
<1> QED BY <1>1, <1>3, <1>10 DEF Owns

\* The row of an execution that was told its lease is stolen has another claim,
\* and a row gets back to an old claim never.
THEOREM StolenIsLost == Spec => []StolenMeansLost
<1> DEFINE Inv == RowInv /\ ClaimsNamed /\ StolenMeansLost
<1>1. Init => Inv
  BY RowInvInit DEF Init, ClaimsNamed, StolenMeansLost
<1>2. ASSUME Inv, [Next]_vars, NEW f \in execs', f.stolen, Owns(f)'
      PROVE  FALSE
  <2>0. RowInv /\ TypeOK /\ ClaimsNamed /\ StolenMeansLost
    BY <1>2 DEF RowInv
  <2>1. row'[f.job].status = "running" /\ row'[f.job].worker = f.worker /\ claims'[f.job] = f.claim
    BY <1>2 DEF Owns
  <2>2. ASSUME NEW e \in execs, e.job = f.job, e.claim = f.claim, e.worker = f.worker
        PROVE  Owns(e)
    BY <1>2, <2>0, <2>2, OwnsBefore
  <2>3. ExecFrom(f)
    BY <1>2, <2>0, ExecsFrom
  <2>4. f \notin execs
    BY <1>2, <2>0, <2>2 DEF StolenMeansLost
  <2>5. PICK e \in execs : NextOf(e, f)
    BY <1>2, <2>3, <2>4 DEF ExecFrom, NewExecution
  <2>6. Owns(e)
    BY <2>2, <2>5 DEF NextOf
  <2>7. ~ e.stolen /\ RenewMatches(row[e.job], e.worker)
    BY <2>0, <2>6 DEF StolenMeansLost, Owns, RenewMatches
  <2>8. e.stolen \in BOOLEAN /\ f.stolen \in BOOLEAN
    BY <1>2, <2>0, NextType DEF TypeOK, Execs
  <2> QED BY <1>2, <2>5, <2>7, <2>8 DEF NextOf
<1>3. Inv /\ [Next]_vars => Inv'
  BY <1>2, RowInvStep, ClaimsNamedStep DEF StolenMeansLost
<1>4. Inv => StolenMeansLost
  OBVIOUS
<1> QED BY <1>1, <1>3, <1>4, PTL DEF Spec

-----------------------------------------------------------------------------
(* Ownership: until a live holder's lease runs out, an execution that has   *)
(* not settled its job is the one the row records.                          *)

LEMMA SpentGrows ==
  ASSUME TypeOK, [Next]_vars, NEW k \in Kinds
  PROVE  spent'[k] >= spent[k] /\ spent[k] \in Nat
<1>1. spent[k] \in Nat
  BY DEF TypeOK
<1>2. ASSUME NEW kind \in Kinds, NEW bound, Spend(kind, bound)
      PROVE  spent'[k] >= spent[k]
  BY <1>2 DEF TypeOK, Kinds, Spend
<1>3. \/ spent' = spent
      \/ \E kind \in Kinds, bound \in {MaxFaults, MaxStalls, MaxRetries} : Spend(kind, bound)
  <2>1. CASE UNCHANGED vars
    BY <2>1 DEF vars
  <2>2. ASSUME NEW j \in Jobs, ApiStep(j) \/ ClockStep(j)
        PROVE  spent' = spent \/ \E kind \in Kinds, bound \in {MaxFaults, MaxStalls, MaxRetries} : Spend(kind, bound)
    BY <2>2 DEF ApiStep, Submit, Cancel, RetryDlq, ClockStep, BecomeDue, Lapse, Stall, Kinds
  <2>3. ASSUME NEW w \in Workers,
               \/ LifeStep(w) \/ LoopStep(w) \/ ClaimFails(w) \/ RecoverStaleLeases(w)
               \/ \E j \in Jobs : RenewLeaked(w, j)
        PROVE  spent' = spent \/ \E kind \in Kinds, bound \in {MaxFaults, MaxStalls, MaxRetries} : Spend(kind, bound)
    BY <2>3 DEF LifeStep, Start, Stop, LoopExit, Kill, UnhandledRejection, LoopStep,
         GetEligibleTenantIds, ClaimNothing, ClaimLock, ClaimCommit, ClaimFails,
         RecoverStaleLeases, RenewLeaked, Kinds
  <2>4. ASSUME NEW e \in execs, ExecStep(e) \/ ExecFault(e) \/ Renew(e)
        PROVE  spent' = spent \/ \E kind \in Kinds, bound \in {MaxFaults, MaxStalls, MaxRetries} : Spend(kind, bound)
    BY <2>4 DEF ExecStep, ExecFault, Renew, StartExecution, WorkDone, WorkFails, Ack, Nack, Notify,
         ClaimNotifyFails, AckFails, AckNotifyFails, NackFails, Kinds
  <2> QED BY <2>1, <2>2, <2>3, <2>4 DEF Next
<1> QED BY <1>1, <1>2, <1>3

\* What holds of an execution that has not nacked, and of its row.
Kept(e) ==
  e.pc # "nacked" =>
    /\ claims[e.job] = e.claim
    /\ row[e.job].worker = e.worker
    /\ ~ Stale(row[e.job])
    /\ e.pc \in {"claimed", "working", "acking"} => row[e.job].status = "running"
    /\ e.pc = "acked" => row[e.job].status = "completed"
    /\ e.pc = "nacking" => row[e.job].status \in {"running", "completed"}

OwnInv ==
  /\ RowInv
  /\ ClaimsNamed
  /\ spent["stalls"] = 0 => \A e \in execs : Kept(e)

\* An execution that is left alone is kept.
LEMMA KeptOnes ==
  ASSUME OwnInv, [Next]_vars, spent["stalls"] = 0, spent'["stalls"] = 0,
         NEW f \in execs, f \in execs', f.pc # "nacked"
  PROVE  /\ claims'[f.job] = f.claim
         /\ row'[f.job].worker = f.worker
         /\ row'[f.job].status = row[f.job].status
         /\ ~ Stale(row'[f.job])
<1> DEFINE k == f.job
           r == row[k]
<1>1. Kept(f) /\ RowInv /\ ClaimsNamed
  BY DEF OwnInv
<1>2. k \in Jobs /\ f.worker \in Workers /\ f \in Executing(f.worker)
  BY <1>1 DEF RowInv, TypeOK, Execs, Executing
<1>3. r \in Rows
  BY <1>1, <1>2 DEF RowInv, TypeOK
<1>4. r.status \in {"running", "completed"} /\ r.worker = f.worker /\ ~ Stale(r)
  <2>1. f.pc \in {"claimed", "working", "acking", "acked", "nacking"}
    BY <1>1 DEF RowInv, TypeOK, Execs
  <2> QED BY <1>1, <2>1 DEF Kept
<1>5. claims'[k] = claims[k]
  <2>1. CASE claims' = claims
    BY <2>1
  <2>2. CASE \E w \in Workers :
              /\ ClaimCommit(w) /\ poll[w].job \in Jobs
              /\ row[poll[w].job].status = "pending"
              /\ claims' = [claims EXCEPT ![poll[w].job] = @ + 1]
    BY <1>1, <1>2, <1>4, <2>2 DEF RowInv, TypeOK
  <2> QED BY <1>1, <2>1, <2>2, ClaimsSteps
<1>6. \A e \in execs : e.job = k /\ e.pc \in {"acking", "nacking"} => e = f
  BY <1>1 DEF OwnInv, Kept, ClaimsNamed
<1>7. Held(k)
  BY <1>2, <1>4 DEF Held
<1>8. RowStep(k)
  BY <1>1, <1>2, RowSteps DEF RowInv
<1>9. \A w \in Workers : poll[w].pc = "locked" => poll[w].job # k
  BY <1>1, <1>4 DEF RowInv, LocksHold
<1>10. \/ row'[k] = r
       \/ row'[k] = [r EXCEPT !.scheduled = "due"]
       \/ row'[k] = [r EXCEPT !.lease = "live"]
  BY <1>4, <1>6, <1>7, <1>8, <1>9 DEF RowStep
<1>11. /\ row'[k].worker = r.worker /\ row'[k].status = r.status
       /\ ~ Stale(row'[k])
  BY <1>3, <1>4, <1>10 DEF Rows, Stale
<1> QED BY <1>1, <1>4, <1>5, <1>11 DEF Kept

LEMMA OwnInvStep == OwnInv /\ [Next]_vars => OwnInv'
<1> SUFFICES ASSUME OwnInv, [Next]_vars PROVE OwnInv'
  OBVIOUS
<1>1. RowInv' /\ ClaimsNamed'
  BY RowInvStep, ClaimsNamedStep DEF OwnInv
<1>2. ASSUME spent'["stalls"] = 0, NEW f \in execs'
      PROVE  Kept(f)'
  <2> USE DEF Kept
  <2>1. spent["stalls"] = 0
    BY <1>2, SpentGrows DEF OwnInv, RowInv, Kinds
  <2>2. ExecFrom(f)
    BY ExecsFrom DEF OwnInv, RowInv
  <2>3. CASE f \in execs
    BY <1>2, <2>1, <2>3, KeptOnes DEF OwnInv
  <2>4. ASSUME NEW e \in execs, NextOf(e, f)
        PROVE  Kept(f)'
    <3>1. Kept(e) /\ row[e.job] \in Rows /\ e.job \in Jobs /\ row \in [Jobs -> Rows]
      BY <2>1 DEF OwnInv, RowInv, TypeOK, Execs
    <3>2. CASE row' = row /\ f.pc \in {"working", "acking", "nacking"}
      <4>1. claims'[f.job] = f.claim /\ row'[f.job] = row[e.job] /\ f.worker = e.worker /\ e.pc # "nacked"
        BY <2>4, <3>1, <3>2 DEF NextOf
      <4> QED BY <2>4, <3>1, <3>2, <4>1 DEF NextOf, Stale
    <3>3. CASE e.pc = "acking" /\ row' = [row EXCEPT ![e.job] = AckedRow(@, e)]
      <4>1. row'[e.job] = [row[e.job] EXCEPT !.status = "completed"]
        BY <3>1, <3>3 DEF AckedRow, OwnerMatches
      <4>2. /\ row'[e.job].status = "completed"
            /\ row'[e.job].worker = row[e.job].worker
        BY <3>1, <4>1 DEF Rows
      <4> QED BY <2>4, <3>1, <3>3, <4>2 DEF NextOf, Stale
    <3>4. CASE f.pc = "nacked"
      BY <3>4
    <3>5. \/ row' = row /\ f.pc \in {"working", "acking", "nacking"}
          \/ f.pc = "nacked"
          \/ e.pc = "acking" /\ row' = [row EXCEPT ![e.job] = AckedRow(@, e)]
      BY <2>4 DEF NextOf
    <3> QED BY <3>2, <3>3, <3>4, <3>5
  <2>5. ASSUME NEW w \in Workers, ClaimCommit(w), f = NewExecution(w)
        PROVE  Kept(f)'
    <3> DEFINE k == poll[w].job
    <3>1. /\ k \in Jobs /\ row[k] \in Rows /\ claims[k] \in Nat
          /\ row \in [Jobs -> Rows] /\ claims \in [Jobs -> Nat]
      BY <2>5 DEF ClaimCommit, OwnInv, RowInv, TypeOK, Polls
    <3>2. row'[k] = ClaimedRow(row[k], w) /\ claims'[k] = claims[k] + 1
      BY <2>5, <3>1 DEF ClaimCommit
    <3>3. row'[k].status = "running" /\ row'[k].worker = w /\ row'[k].lease = "live"
      BY <3>1, <3>2 DEF ClaimedRow, Rows
    <3>4. f.job = k /\ f.claim = claims[k] + 1 /\ f.worker = w /\ f.pc = "claimed"
      BY <2>5 DEF NewExecution
    <3> QED BY <3>2, <3>3, <3>4 DEF Stale
  <2> QED BY <2>2, <2>3, <2>4, <2>5 DEF ExecFrom
<1> QED BY <1>1, <1>2 DEF OwnInv

LEMMA OwnInvAlways == Spec => []OwnInv
<1>1. Init => OwnInv
  BY RowInvInit DEF Init, OwnInv, ClaimsNamed
<1> QED BY <1>1, OwnInvStep, PTL DEF Spec

\* As long as no live holder lets a lease run out, an execution owns its job
\* from the claim to the settling, whatever else fails.
THEOREM OwnershipHolds == Spec => []OwnershipWithoutStalls
<1>1. OwnInv => OwnershipWithoutStalls
  BY DEF OwnInv, OwnershipWithoutStalls, Owns, Kept
<1> QED BY <1>1, OwnInvAlways, PTL

-----------------------------------------------------------------------------
(* How many executions one job has: each may put its job back once, and it  *)
(* ends when it does; for any more that are in flight a live holder let its *)
(* lease run out.                                                           *)

\* The executions that may still change the row of j.
InFlight(j) == {e \in execs : e.job = j /\ e.pc # "nacked"}

\* A row that no sweep, nack or claim takes from all of its executions.
Secured(j) ==
  /\ row[j].status \in {"running", "completed"} /\ ~ Stale(row[j])
  /\ \E e \in InFlight(j) : e.worker = row[j].worker

Paid(j) ==
  /\ Cardinality(InFlight(j)) <= 1 + spent["stalls"]
  /\ Cardinality(InFlight(j)) > spent["stalls"] => Secured(j)

FlightInv == IsFiniteSet(execs) /\ \A j \in Jobs : Paid(j)

\* One execution is replaced, or one is added, at a step; the others stay or end.
LEMMA ExecsFinite ==
  ASSUME TypeOK, [Next]_vars, IsFiniteSet(execs)
  PROVE  IsFiniteSet(execs')
<1>1. \A f \in execs' : ExecFrom(f)
  BY ExecsFrom
<1>2. CASE execs' \subseteq execs
  BY <1>2, FS_Subset
<1>3. ASSUME NEW f \in execs', NEW e \in execs, NextOf(e, f) PROVE IsFiniteSet(execs')
  BY <1>3, FS_RemoveElement, FS_AddElement DEF NextOf
<1>4. ASSUME NEW w \in Workers, ClaimCommit(w) PROVE IsFiniteSet(execs')
  BY <1>4, FS_AddElement DEF ClaimCommit
<1> QED BY <1>1, <1>2, <1>3, <1>4 DEF ExecFrom

\* What one step makes of the executions of one job.
LEMMA InFlightSteps ==
  ASSUME TypeOK, [Next]_vars, NEW j \in Jobs
  PROVE  \/ InFlight(j)' \subseteq InFlight(j)
         \/ \E e \in InFlight(j), f \in execs' :
              NextOf(e, f) /\ f.pc # "nacked" /\ InFlight(j)' = (InFlight(j) \ {e}) \cup {f}
         \/ \E w \in Workers :
              /\ ClaimCommit(w) /\ poll[w].job = j
              /\ InFlight(j)' = InFlight(j) \cup {NewExecution(w)}
<1> SUFFICES ASSUME NEW f \in InFlight(j)', f \notin InFlight(j)
             PROVE  \/ \E e \in InFlight(j), g \in execs' :
                         NextOf(e, g) /\ g.pc # "nacked" /\ InFlight(j)' = (InFlight(j) \ {e}) \cup {g}
                    \/ \E w \in Workers :
                         /\ ClaimCommit(w) /\ poll[w].job = j
                         /\ InFlight(j)' = InFlight(j) \cup {NewExecution(w)}
  OBVIOUS
<1>1. f \in execs' /\ f.job = j /\ f.pc # "nacked" /\ f \notin execs /\ ExecFrom(f)
  BY ExecsFrom DEF InFlight
<1>2. ASSUME NEW e \in execs, NextOf(e, f)
      PROVE  e \in InFlight(j) /\ InFlight(j)' = (InFlight(j) \ {e}) \cup {f}
  <2>1. e.job = j /\ e.pc # "nacked" /\ execs' = (execs \ {e}) \cup {f}
    BY <1>1, <1>2 DEF NextOf
  <2> QED BY <1>1, <2>1 DEF InFlight
<1>3. ASSUME NEW w \in Workers, ClaimCommit(w), f = NewExecution(w)
      PROVE  poll[w].job = j /\ InFlight(j)' = InFlight(j) \cup {NewExecution(w)}
  <2>1. execs' = execs \cup {f}
    BY <1>3 DEF ClaimCommit
  <2> QED BY <1>1, <1>3, <2>1 DEF InFlight, NewExecution
<1> QED BY <1>1, <1>2, <1>3 DEF ExecFrom

\* The row of a job that loses no execution and has one of the worker it names.
LEMMA SecuredStays ==
  ASSUME RowInv, [Next]_vars, NEW j \in Jobs, Secured(j), InFlight(j)' = InFlight(j),
         ~ (spent'["stalls"] > spent["stalls"])
  PROVE  Secured(j)'
<1> DEFINE r == row[j]
<1>1. r \in Rows /\ RowStep(j) /\ r.status \in {"running", "completed"} /\ ~ Stale(r)
  BY RowSteps DEF RowInv, TypeOK, Secured
<1>2. PICK e \in InFlight(j) : e.worker = r.worker
  BY DEF Secured
<1>3. Held(j)
  BY <1>2 DEF RowInv, TypeOK, Execs, InFlight, Held, Executing
<1>4. \A w \in Workers : poll[w].pc = "locked" => poll[w].job # j
  BY <1>1 DEF RowInv, LocksHold
<1>5. \A g \in execs : g.job = j /\ g.pc \in {"acking", "nacking"} => g \in execs'
  BY DEF InFlight
<1>6. \/ row'[j] = r
      \/ row'[j] = [r EXCEPT !.scheduled = "due"]
      \/ row'[j] = [r EXCEPT !.lease = "live"]
  BY <1>1, <1>3, <1>4, <1>5 DEF RowStep
<1>7. row'[j].worker = r.worker /\ row'[j].status = r.status /\ ~ Stale(row'[j])
  BY <1>1, <1>6 DEF Rows, Stale
<1> QED BY <1>1, <1>2, <1>7 DEF Secured, Stale

LEMMA PaidStep ==
  ASSUME RowInv, FlightInv, [Next]_vars, NEW j \in Jobs
  PROVE  Paid(j)'
<1> DEFINE n == Cardinality(InFlight(j))
           m == Cardinality(InFlight(j)')
           s == spent["stalls"]
<1>1. TypeOK /\ IsFiniteSet(execs) /\ IsFiniteSet(execs') /\ Paid(j)
  BY ExecsFinite DEF RowInv, FlightInv
<1>2. IsFiniteSet(InFlight(j)) /\ IsFiniteSet(InFlight(j)') /\ n \in Nat /\ m \in Nat
  <2>1. InFlight(j) \subseteq execs /\ InFlight(j)' \subseteq execs'
    BY DEF InFlight
  <2> QED BY <1>1, <2>1, FS_Subset, FS_CardinalityType
<1>3. s \in Nat /\ s' \in Nat /\ s' >= s
  BY <1>1, SpentGrows, NextType DEF TypeOK, Kinds
<1>4. n <= 1 + s /\ (n > s => Secured(j))
  BY <1>1 DEF Paid
<1>5. CASE InFlight(j)' = InFlight(j)
  <2>1. m = n
    BY <1>5
  <2>2. s' > s \/ (n > s' => Secured(j)')
    BY <1>3, <1>4, <1>5, <1>2, SecuredStays
  <2> QED BY <1>2, <1>3, <1>4, <2>1, <2>2 DEF Paid
<1>6. CASE InFlight(j)' \subseteq InFlight(j) /\ InFlight(j)' # InFlight(j)
  <2>1. m < n
    BY <1>2, <1>6, FS_Subset
  <2> QED BY <1>2, <1>3, <1>4, <2>1 DEF Paid
<1>7. ASSUME NEW e \in InFlight(j), NEW f \in execs', NextOf(e, f), f.pc # "nacked",
             InFlight(j)' = (InFlight(j) \ {e}) \cup {f}
      PROVE  Paid(j)'
  <2>1. m <= n
    <3> DEFINE rest == InFlight(j) \ {e}
    <3>1. IsFiniteSet(rest) /\ Cardinality(rest) = n - 1
      BY <1>2, FS_RemoveElement
    <3>2. Cardinality(rest \cup {f}) <= Cardinality(rest) + 1
      <4>1. Cardinality(rest) \in Int
        BY <1>2, <3>1
      <4> QED BY <3>1, <4>1, FS_AddElement
    <3>3. m = Cardinality(rest \cup {f})
      BY <1>7
    <3> QED BY <1>2, <3>1, <3>2, <3>3
  <2>2. ASSUME Secured(j) PROVE Secured(j)'
    <3>1. e.job = j /\ row[j] \in Rows /\ row \in [Jobs -> Rows]
      BY <1>1 DEF InFlight, TypeOK
    <3>2. row'[j] = row[j] \/ row'[j] = AckedRow(row[j], e)
      BY <1>7, <3>1 DEF NextOf
    <3>3. /\ row'[j].worker = row[j].worker /\ ~ Stale(row'[j])
          /\ row'[j].status \in {"running", "completed"}
      BY <2>2, <3>1, <3>2 DEF AckedRow, Rows, Stale, Secured
    <3>4. f.worker = e.worker
      BY <1>7 DEF NextOf
    <3>5. \E g \in InFlight(j)' : g.worker = row'[j].worker
      BY <1>7, <2>2, <3>3, <3>4 DEF Secured
    <3> QED BY <3>3, <3>5 DEF Secured, Stale
  <2> QED BY <1>2, <1>3, <1>4, <2>1, <2>2 DEF Paid
<1>8. ASSUME NEW w \in Workers, ClaimCommit(w), poll[w].job = j,
             InFlight(j)' = InFlight(j) \cup {NewExecution(w)}
      PROVE  Paid(j)'
  <2>1. row[j] \in Rows /\ row \in [Jobs -> Rows] /\ row[j].status = "pending"
    BY <1>1, <1>8 DEF ClaimCommit, RowInv, TypeOK, LocksHold
  <2>2. n <= s
    BY <1>2, <1>3, <1>4, <2>1 DEF Secured
  <2>3. m <= n + 1
    BY <1>2, <1>8, FS_AddElement
  <2>4. row'[j] = ClaimedRow(row[j], w)
    BY <1>8, <2>1 DEF ClaimCommit
  <2>5. row'[j].status = "running" /\ row'[j].worker = w /\ row'[j].lease = "live"
    BY <2>1, <2>4 DEF ClaimedRow, Rows
  <2>6. NewExecution(w).worker = w
    BY DEF NewExecution
  <2>7. Secured(j)'
    BY <1>8, <2>5, <2>6 DEF Secured, Stale
  <2> QED BY <1>2, <1>3, <2>2, <2>3, <2>7 DEF Paid
<1> QED BY <1>1, <1>5, <1>6, <1>7, <1>8, InFlightSteps

\* One job is worked on by at most one execution and one more for every lease
\* that a live holder let run out, whatever fails or crashes and however late
\* an execution acks or nacks.
THEOREM ExecutionsAreBounded == Spec => []ExecutionsBounded
<1>1. Init => FlightInv
  <2> SUFFICES ASSUME Init, NEW j \in Jobs PROVE Paid(j) /\ IsFiniteSet(execs)
    BY FS_EmptySet DEF FlightInv, Init
  <2>1. execs = {} /\ InFlight(j) = {} /\ spent["stalls"] = 0
    BY DEF Init, InFlight, Kinds
  <2> QED BY <2>1, FS_EmptySet DEF Paid
<1>2. RowInv /\ FlightInv /\ [Next]_vars => FlightInv'
  <2> SUFFICES ASSUME RowInv, FlightInv, [Next]_vars PROVE FlightInv'
    OBVIOUS
  <2>1. IsFiniteSet(execs')
    BY ExecsFinite DEF RowInv, FlightInv
  <2>2. \A j \in Jobs : Paid(j)'
    BY PaidStep
  <2> QED BY <2>1, <2>2 DEF FlightInv
<1>3. RowInv /\ FlightInv => ExecutionsBounded
  <2> SUFFICES ASSUME RowInv, FlightInv, NEW j \in Jobs
               PROVE  Cardinality(Working(j)) <= 1 + spent["stalls"]
    BY DEF ExecutionsBounded
  <2>1. Working(j) \subseteq InFlight(j) /\ InFlight(j) \subseteq execs
    BY DEF Working, InFlight
  <2>2. IsFiniteSet(InFlight(j)) /\ IsFiniteSet(Working(j))
    BY <2>1, FS_Subset DEF FlightInv
  <2>3. /\ Cardinality(Working(j)) <= Cardinality(InFlight(j))
        /\ Cardinality(Working(j)) \in Nat /\ Cardinality(InFlight(j)) \in Nat
    BY <2>1, <2>2, FS_Subset, FS_CardinalityType
  <2> QED BY <2>3 DEF FlightInv, Paid, RowInv, TypeOK, Kinds
<1> QED BY <1>1, <1>2, <1>3, RowInvAlways, PTL DEF Spec

-----------------------------------------------------------------------------
(* Attempts: a job is tried once more than it is allowed only for a claim   *)
(* that no nack ended, and each such claim is paid for by a lost lease, a   *)
(* failed call or a killed worker.                                          *)

Killed == {w \in Workers : life[w] = "killed"}

Budget == spent["stalls"] + spent["faults"] + Cardinality(Killed)

LEMMA BudgetGrows ==
  ASSUME TypeOK, [Next]_vars
  PROVE  /\ Budget \in Nat /\ Budget' \in Nat /\ Budget' >= Budget
         /\ spent'["stalls"] > spent["stalls"] => Budget' > Budget
         /\ spent'["faults"] > spent["faults"] => Budget' > Budget
         /\ \A w \in Workers : Kill(w) => Budget' > Budget
<1>1. /\ spent["stalls"] \in Nat /\ spent["faults"] \in Nat /\ spent'["stalls"] \in Nat /\ spent'["faults"] \in Nat
      /\ spent'["stalls"] >= spent["stalls"] /\ spent'["faults"] >= spent["faults"]
  BY SpentGrows, NextType DEF TypeOK, Kinds
<1>2. /\ IsFiniteSet(Killed) /\ IsFiniteSet(Killed') /\ Cardinality(Killed) \in Nat /\ Cardinality(Killed') \in Nat
  <2>1. Killed \subseteq Workers /\ Killed' \subseteq Workers
    BY DEF Killed
  <2> QED BY <2>1, WorkersFinite, FS_Subset, FS_CardinalityType
<1>3. ASSUME NEW w \in Workers, Kill(w)
      PROVE  Cardinality(Killed') = Cardinality(Killed) + 1
  <2>1. w \notin Killed /\ Killed' = Killed \cup {w}
    BY <1>3 DEF Kill, Alive, End, Killed, TypeOK
  <2> QED BY <1>2, <2>1, FS_AddElement
<1>4. Killed \subseteq Killed'
  <2>1. life' = life \/ \E w \in Workers : LifeStep(w)
    <3>1. ASSUME NEW j \in Jobs, ApiStep(j) \/ ClockStep(j) PROVE life' = life
      BY <3>1 DEF ApiStep, Submit, Cancel, RetryDlq, ClockStep, BecomeDue, Lapse, Stall
    <3>2. ASSUME NEW w \in Workers,
                 LoopStep(w) \/ ClaimFails(w) \/ RecoverStaleLeases(w) \/ \E j \in Jobs : RenewLeaked(w, j)
          PROVE  life' = life
      BY <3>2 DEF LoopStep, GetEligibleTenantIds, ClaimNothing, ClaimLock, ClaimCommit, ClaimFails,
           RecoverStaleLeases, RenewLeaked
    <3>3. ASSUME NEW e \in execs, ExecStep(e) \/ ExecFault(e) \/ Renew(e) PROVE life' = life
      BY <3>3 DEF ExecStep, ExecFault, Renew, StartExecution, WorkDone, WorkFails, Ack, Nack, Notify,
           ClaimNotifyFails, AckFails, AckNotifyFails, NackFails
    <3> QED BY <3>1, <3>2, <3>3 DEF Next, vars
  <2>2. ASSUME NEW w \in Workers, LifeStep(w) PROVE Killed \subseteq Killed'
    <3>1. life[w] # "killed" /\ \E how : life' = [life EXCEPT ![w] = how]
      BY <2>2 DEF LifeStep, Start, Stop, LoopExit, Kill, Alive, UnhandledRejection, End
    <3> QED BY <3>1 DEF Killed, TypeOK
  <2> QED BY <2>1, <2>2 DEF Killed
<1>5. Cardinality(Killed') >= Cardinality(Killed)
  BY <1>2, <1>4, FS_Subset
<1> QED BY <1>1, <1>2, <1>3, <1>5 DEF Budget

\* Only the claim that commits counts an attempt.
LEMMA AttemptsSteps ==
  ASSUME RowInv, [Next]_vars, NEW j \in Jobs
  PROVE  \/ row'[j].attempts <= row[j].attempts
         \/ \E w \in Workers : ClaimCommit(w) /\ poll[w].job = j
<1>1. row[j] \in Rows /\ row[j].attempts \in Nat /\ RowStep(j)
  BY RowSteps DEF RowInv, TypeOK, Rows
<1>2. /\ RetriedRow(row[j]).attempts = 0
      /\ SweptRow(row[j]).attempts = row[j].attempts
      /\ [row[j] EXCEPT !.scheduled = "due"].attempts = row[j].attempts
      /\ [row[j] EXCEPT !.lease = "lapsed"].attempts = row[j].attempts
      /\ [row[j] EXCEPT !.lease = "live"].attempts = row[j].attempts
      /\ [row[j] EXCEPT !.status = "failed"].attempts = row[j].attempts
      /\ [row[j] EXCEPT !.status = "completed"].attempts = row[j].attempts
      /\ [row[j] EXCEPT !.status = "dead_letter"].attempts = row[j].attempts
  BY <1>1 DEF Rows, RetriedRow, SweptRow
<1>3. \A e \in execs : /\ AckedRow(row[j], e).attempts = row[j].attempts
                       /\ NackedRow(row[j], e).attempts = row[j].attempts
  BY <1>2 DEF AckedRow, NackedRow
<1>4. \/ row'[j].attempts = 0 \/ row'[j].attempts = row[j].attempts
      \/ \E w \in Workers : ClaimCommit(w) /\ poll[w].job = j
  BY <1>1, <1>2, <1>3 DEF RowStep
<1> QED BY <1>1, <1>4

\* Once an execution has settled its claim, the claim does not run.
SettledOnce == \A e \in execs : e.pc \in {"acked", "nacked"} => ~ Owns(e)

LEMMA SettledOnceStep ==
  ASSUME RowInv, ClaimsNamed, SettledOnce, [Next]_vars
  PROVE  SettledOnce'
<1> SUFFICES ASSUME NEW f \in execs', f.pc \in {"acked", "nacked"}, Owns(f)' PROVE FALSE
  BY DEF SettledOnce, Owns
<1>1. ExecFrom(f)
  BY ExecsFrom DEF RowInv
<1>2. f \notin execs
  BY OwnsBefore DEF SettledOnce
<1>3. ASSUME NEW e \in execs, NextOf(e, f) PROVE FALSE
  <2>1. e.job \in Jobs /\ e.job = f.job /\ row[e.job] \in Rows /\ row \in [Jobs -> Rows]
    BY <1>3 DEF NextOf, RowInv, TypeOK, Execs
  <2>2. /\ OwnerMatches(row[e.job], e)
        /\ row'[e.job] = AckedRow(row[e.job], e) \/ row'[e.job] = NackedRow(row[e.job], e)
    BY <1>3, <2>1 DEF NextOf
  <2>3. row'[e.job].status \in {"completed", "dead_letter", "pending"}
    BY <2>1, <2>2 DEF AckedRow, NackedRow, SweptRow, Rows
  <2> QED BY <2>1, <2>3 DEF Owns
<1> QED BY <1>1, <1>2, <1>3 DEF ExecFrom, NewExecution

\* An execution that owns a running job goes on, unless its end is paid for.
LEMMA OwnerGoesOn ==
  ASSUME RowInv, ClaimsNamed, StolenMeansLost, SettledOnce, [Next]_vars, NEW e \in execs, Owns(e),
         row'[e.job].status = "running", row'[e.job].worker = row[e.job].worker, ~ (Budget' > Budget)
  PROVE  \E f \in execs' : f.job = e.job /\ Owns(f)'
<1>1. /\ TypeOK /\ e \in Execs /\ e.job \in Jobs /\ row[e.job] \in Rows /\ row \in [Jobs -> Rows]
      /\ e.stolen \in BOOLEAN
  BY DEF RowInv, TypeOK, Execs
<1>2. claims'[e.job] = claims[e.job]
  BY <1>1, ClaimsSteps DEF Owns, RowInv, TypeOK
<1>3. ASSUME NEW f \in execs', f.job = e.job, f.claim = e.claim, f.worker = e.worker
      PROVE  \E g \in execs' : g.job = e.job /\ Owns(g)'
  <2>1. Owns(f)'
    BY <1>2, <1>3 DEF Owns
  <2> QED BY <1>3, <2>1
<1>4. CASE e \in execs'
  BY <1>3, <1>4
<1>5. ASSUME NEW pc, Advance(e, pc) PROVE \E f \in execs' : f.job = e.job /\ Owns(f)'
  <2> DEFINE f == [e EXCEPT !.pc = pc]
  <2>1. f \in execs' /\ f.job = e.job /\ f.claim = e.claim /\ f.worker = e.worker
    BY <1>1, <1>5 DEF Advance, Become, Execs
  <2> HIDE DEF f
  <2> QED BY <1>3, <2>1
<1>6. spent["faults"] \in Nat /\ ~ Spend("faults", MaxFaults)
  <2>1. Spend("faults", MaxFaults) => spent'["faults"] > spent["faults"]
    BY <1>1 DEF Spend, TypeOK, Kinds
  <2> QED BY <1>1, <2>1, BudgetGrows DEF TypeOK, Kinds
<1>7. ~ e.stolen /\ OwnerMatches(row[e.job], e) /\ RenewMatches(row[e.job], e.worker)
  BY DEF StolenMeansLost, Owns, OwnerMatches, RenewMatches
<1>8. CASE UNCHANGED vars \/ \E j \in Jobs : ApiStep(j) \/ ClockStep(j)
  BY <1>4, <1>8 DEF vars, ApiStep, Submit, Cancel, RetryDlq, ClockStep, BecomeDue, Lapse, Stall
<1>9. ASSUME NEW w \in Workers,
             \/ LifeStep(w) \/ LoopStep(w) \/ ClaimFails(w) \/ RecoverStaleLeases(w)
             \/ \E j \in Jobs : RenewLeaked(w, j)
      PROVE  e \in execs'
  <2>1. ~ Kill(w) /\ ~ UnhandledRejection(w)
    BY <1>1, <1>6, BudgetGrows DEF UnhandledRejection
  <2> QED BY <1>9, <2>1 DEF LifeStep, Start, Stop, LoopExit, LoopStep, GetEligibleTenantIds, ClaimNothing,
           ClaimLock, ClaimCommit, ClaimFails, RecoverStaleLeases, RenewLeaked
<1>10. ASSUME NEW g \in execs, ExecStep(g) \/ ExecFault(g) \/ Renew(g)
       PROVE  \E f \in execs' : f.job = e.job /\ Owns(f)'
  <2>1. ~ ExecFault(g)
    BY <1>6 DEF ExecFault, ClaimNotifyFails, AckFails, AckNotifyFails, NackFails
  <2>2. CASE g # e
    <3>1. e \in execs'
      BY <1>10, <2>1, <2>2 DEF ExecStep, StartExecution, WorkDone, WorkFails, Ack, Nack, Notify, Renew,
           Advance, Become, Finish
    <3> QED BY <1>4, <3>1
  <2>3. CASE g = e
    <3>1. CASE StartExecution(e) \/ WorkFails(e)
      BY <1>5, <3>1 DEF StartExecution, WorkFails
    <3>2. CASE WorkDone(e)
      BY <1>5, <1>7, <3>2 DEF WorkDone
    <3>3. CASE Ack(e)
      <4>1. row'[e.job] = [row[e.job] EXCEPT !.status = "completed"]
        BY <1>1, <1>7, <3>3 DEF Ack, AckedRow
      <4>2. row'[e.job].status = "completed"
        BY <1>1, <4>1 DEF Rows
      <4> QED BY <4>2
    <3>4. CASE Nack(e)
      <4>1. row'[e.job] = [row[e.job] EXCEPT !.status = "dead_letter"] \/ row'[e.job] = SweptRow(row[e.job])
        BY <1>1, <1>7, <3>4 DEF Nack, NackedRow
      <4>2. row'[e.job].status \in {"dead_letter", "pending"}
        BY <1>1, <4>1 DEF Rows, SweptRow
      <4> QED BY <4>2
    <3>5. CASE Notify(e)
      BY <3>5 DEF Notify, SettledOnce
    <3>6. CASE Renew(e)
      BY <1>4, <1>7, <3>6 DEF Renew
    <3> QED BY <1>10, <2>1, <2>3, <3>1, <3>2, <3>3, <3>4, <3>5, <3>6 DEF ExecStep
  <2> QED BY <2>2, <2>3
<1> QED BY <1>4, <1>8, <1>9, <1>10 DEF Next

\* The last try a job is allowed, or one that was paid for, is over only when
\* it is settled, or when it is paid for again.
Tried(j) ==
  \/ row[j].attempts <= Allowed(j) - 1 + Budget
  \/ /\ row[j].attempts <= Allowed(j) + Budget
     /\ \/ row[j].status \in {"completed", "dead_letter"}
        \/ ~ Stale(row[j]) /\ \E e \in execs : e.job = j /\ Owns(e)

LEMMA TriedStep ==
  ASSUME RowInv, ClaimsNamed, StolenMeansLost, SettledOnce, [Next]_vars, NEW j \in Jobs, Tried(j)
  PROVE  Tried(j)'
<1> DEFINE a == row[j].attempts
           m == Allowed(j)
<1>1. /\ TypeOK /\ row[j] \in Rows /\ row \in [Jobs -> Rows] /\ a \in Nat /\ row'[j].attempts \in Nat
      /\ m \in Nat /\ m >= 1 /\ MaxAttempts[j] \in Int /\ MaxAttempts[j] <= m
      /\ Budget \in Nat /\ Budget' \in Nat /\ Budget' >= Budget
  <2>1. TypeOK /\ TypeOK'
    BY NextType DEF RowInv
  <2> QED BY <2>1, BudgetGrows, ColumnTypes DEF TypeOK, Rows, Allowed
<1>2. a <= m + Budget
  BY <1>1 DEF Tried
<1>3. ASSUME NEW w \in Workers, ClaimCommit(w), poll[w].job = j
      PROVE  Tried(j)'
  <2>1. row[j].status = "pending" /\ claims[j] \in Nat /\ claims \in [Jobs -> Nat]
    BY <1>3 DEF ClaimCommit, RowInv, TypeOK, LocksHold
  <2>2. a <= m - 1 + Budget
    BY <2>1 DEF Tried, Owns
  <2>3. row'[j] = ClaimedRow(row[j], w) /\ claims'[j] = claims[j] + 1 /\ NewExecution(w) \in execs'
    BY <1>1, <1>3, <2>1 DEF ClaimCommit
  <2>4. row'[j].status = "running" /\ row'[j].worker = w /\ row'[j].lease = "live" /\ row'[j].attempts = a + 1
    BY <1>1, <2>3 DEF ClaimedRow, Rows
  <2>5. NewExecution(w).job = j /\ NewExecution(w).worker = w /\ NewExecution(w).claim = claims[j] + 1
    BY <1>3 DEF NewExecution
  <2>6. \E e \in execs' : e.job = j /\ Owns(e)'
    BY <2>3, <2>4, <2>5 DEF Owns
  <2>7. row'[j].attempts <= m + Budget'
    BY <1>1, <2>2, <2>4
  <2>8. ~ Stale(row'[j])
    BY <2>4 DEF Stale
  <2> QED BY <2>6, <2>7, <2>8 DEF Tried, Stale, Allowed, Owns
<1>4. ASSUME row'[j].attempts <= a, Budget' > Budget
      PROVE  Tried(j)'
  <2>1. row'[j].attempts <= m - 1 + Budget'
    BY <1>1, <1>2, <1>4
  <2> QED BY <2>1 DEF Tried, Allowed
<1>5. ASSUME row'[j].attempts <= a, a <= m - 1 + Budget
      PROVE  Tried(j)'
  <2>1. row'[j].attempts <= m - 1 + Budget'
    BY <1>1, <1>5
  <2> QED BY <2>1 DEF Tried, Allowed
<1>6. ASSUME row'[j].attempts <= a, row'[j].status \in {"completed", "dead_letter"}
      PROVE  Tried(j)'
  <2>1. row'[j].attempts <= m + Budget'
    BY <1>1, <1>2, <1>6
  <2> QED BY <1>6, <2>1 DEF Tried, Allowed
<1>7. ASSUME row'[j].attempts <= a, ~ (Budget' > Budget),
             row[j].status \in {"completed", "dead_letter"} \/ (~ Stale(row[j]) /\ \E e \in execs : e.job = j /\ Owns(e)),
             ~ \E w \in Workers : ClaimCommit(w) /\ poll[w].job = j
      PROVE  Tried(j)'
  <2>1. RowStep(j) /\ row[j].status \in {"completed", "dead_letter", "running"}
    BY <1>7, RowSteps DEF RowInv, Owns
  <2>2. CASE \E e \in execs : e.job = j /\ row'[j] = AckedRow(row[j], e) /\ row'[j] # row[j]
    <3>1. row'[j].status = "completed"
      BY <1>1, <2>2 DEF AckedRow, Rows
    <3> QED BY <1>6, <1>7, <3>1
  <2>3. CASE \E e \in execs : e.job = j /\ row'[j] = NackedRow(row[j], e) /\ row'[j] # row[j]
    <3>1. CASE a >= MaxAttempts[j]
      <4>1. row'[j].status = "dead_letter"
        BY <1>1, <2>3, <3>1 DEF NackedRow, Rows
      <4> QED BY <1>6, <1>7, <4>1
    <3>2. CASE ~ (a >= MaxAttempts[j])
      <4>1. a <= m - 1 + Budget
        BY <1>1, <3>2
      <4> QED BY <1>5, <1>7, <4>1
    <3> QED BY <3>1, <3>2
  <2>4. CASE row'[j] = RetriedRow(row[j])
    <3>1. row'[j].attempts = 0
      BY <1>1, <2>4 DEF RetriedRow, Rows
    <3>2. row'[j].attempts <= m - 1 + Budget'
      BY <1>1, <3>1
    <3> QED BY <3>2 DEF Tried, Allowed
  <2>5. CASE row'[j].status = row[j].status /\ row[j].status \in {"completed", "dead_letter"}
    BY <1>6, <1>7, <2>5
  <2>6. CASE /\ row[j].status = "running"
             /\ \/ row'[j] = row[j]
                \/ row'[j] = [row[j] EXCEPT !.scheduled = "due"]
                \/ row'[j] = [row[j] EXCEPT !.lease = "live"]
    <3>1. PICK e \in execs : e.job = j /\ Owns(e)
      BY <1>7, <2>6
    <3>2. row'[j].status = "running" /\ row'[j].worker = row[j].worker /\ ~ Stale(row'[j])
      BY <1>1, <1>7, <2>6 DEF Rows, Stale
    <3>3. \E f \in execs' : f.job = j /\ Owns(f)'
      BY <1>7, <3>1, <3>2, OwnerGoesOn
    <3>4. row'[j].attempts <= m + Budget'
      BY <1>1, <1>2, <1>7
    <3> QED BY <3>2, <3>3, <3>4 DEF Tried, Allowed, Stale, Owns
  <2>7. row[j].status = "running" => Held(j) /\ ~ Stale(row[j])
    BY <1>1, <1>7 DEF Owns, Held, Executing, TypeOK, Execs
  <2>8. ~ (spent'["stalls"] > spent["stalls"])
    BY <1>1, <1>7, BudgetGrows
  <2>9. row[j].status # "running" => ~ RunningLive(j) /\ ~ Stale(row[j])
    BY DEF RunningLive, Stale
  <2>10. /\ [row[j] EXCEPT !.scheduled = "due"].status = row[j].status
         /\ [row[j] EXCEPT !.lease = "live"].status = row[j].status
    BY <1>1 DEF Rows
  <2> QED BY <1>7, <2>1, <2>2, <2>3, <2>4, <2>5, <2>6, <2>7, <2>8, <2>9, <2>10 DEF RowStep
<1> QED BY <1>3, <1>4, <1>5, <1>7, AttemptsSteps DEF Tried

\* A job is tried as often as it is allowed and once more for every worker that
\* was killed, every lease a live holder let run out and every call that failed.
THEOREM AttemptsAreBounded == Spec => []AttemptsBounded
<1> DEFINE Known == RowInv /\ ClaimsNamed /\ StolenMeansLost
           Inv == SettledOnce /\ \A j \in Jobs : Tried(j)
<1>1. Init => Inv
  <2> SUFFICES ASSUME Init, NEW j \in Jobs PROVE SettledOnce /\ Tried(j)
    BY DEF Init, SettledOnce
  <2>1. Killed = {} /\ spent["stalls"] = 0 /\ spent["faults"] = 0 /\ execs = {} /\ row[j].attempts = 0
    BY DEF Init, Killed, Kinds, Absent
  <2>2. Budget = 0
    BY <2>1, FS_EmptySet DEF Budget
  <2>3. Allowed(j) \in Nat /\ Allowed(j) >= 1
    BY ColumnTypes DEF Allowed
  <2> QED BY <2>1, <2>2, <2>3 DEF SettledOnce, Tried
<1>2. Known /\ Inv /\ [Next]_vars => Inv'
  BY SettledOnceStep, TriedStep
<1>3. Known /\ Inv => AttemptsBounded
  <2> SUFFICES ASSUME Known, Inv, NEW j \in Jobs
               PROVE  row[j].attempts <= Allowed(j) + spent["stalls"] + spent["faults"] + Cardinality(Killed)
    BY DEF AttemptsBounded, Killed
  <2>1. /\ row[j].attempts \in Nat /\ Allowed(j) \in Nat
        /\ spent["stalls"] \in Nat /\ spent["faults"] \in Nat
    BY ColumnTypes DEF RowInv, TypeOK, Rows, Allowed, Kinds
  <2>2. Cardinality(Killed) \in Nat
    <3>1. Killed \subseteq Workers
      BY DEF Killed
    <3> QED BY <3>1, WorkersFinite, FS_Subset, FS_CardinalityType
  <2>3. Tried(j)
    OBVIOUS
  <2> QED BY <2>1, <2>2, <2>3 DEF Tried, Budget
<1>4. OwnInv => RowInv /\ ClaimsNamed
  BY DEF OwnInv
<1> QED BY <1>1, <1>2, <1>3, <1>4, OwnInvAlways, StolenIsLost, PTL DEF Spec

-----------------------------------------------------------------------------
(* The quota: a worker that was told a tenant is eligible holds a slot until *)
(* it has claimed.  Slots and running jobs together stay below the quota     *)
(* plus one slot for every worker.                                           *)

Slots(t) == {w \in Workers : poll[w].pc \in {"polled", "locked"} /\ t \in poll[w].tenants}

Load(t) == Cardinality(Running(t)) + Cardinality(Slots(t))

QuotaInv == \A t \in Tenants : Load(t) > 0 => Load(t) <= Quota[t] - 1 + Cardinality(Workers)

LEMMA Finiteness ==
  /\ \A t : IsFiniteSet(Running(t)) /\ Cardinality(Running(t)) \in Nat
  /\ \A t : IsFiniteSet(Slots(t)) /\ Cardinality(Slots(t)) \in Nat
           /\ Cardinality(Slots(t)) <= Cardinality(Workers)
  /\ Cardinality(Workers) \in Nat
<1>1. \A t : Running(t) \subseteq Jobs /\ Slots(t) \subseteq Workers
  BY DEF Running, Slots
<1> QED BY <1>1, JobsFinite, WorkersFinite, FS_Subset, FS_CardinalityType

\* A job starts to run only by the claim that commits.
LEMMA RunningFrom ==
  ASSUME RowInv, [Next]_vars, NEW t \in Tenants, NEW j \in Running(t)', j \notin Running(t)
  PROVE  \E w \in Workers : ClaimCommit(w) /\ poll[w].pc = "locked" /\ poll[w].job = j
<1>1. j \in Jobs /\ row[j] \in Rows /\ row[j].status # "running" /\ row'[j].status = "running"
  BY DEF Running, RowInv, TypeOK
<1>2. RowStep(j)
  BY <1>1, RowSteps DEF RowInv
<1>3. /\ RetriedRow(row[j]).status = "pending"
      /\ SweptRow(row[j]).status = "pending"
      /\ [row[j] EXCEPT !.status = "failed"].status = "failed"
      /\ [row[j] EXCEPT !.status = "completed"].status = "completed"
      /\ [row[j] EXCEPT !.status = "dead_letter"].status = "dead_letter"
      /\ [row[j] EXCEPT !.scheduled = "due"].status = row[j].status
      /\ [row[j] EXCEPT !.lease = "lapsed"].status = row[j].status
      /\ [row[j] EXCEPT !.lease = "live"].status = row[j].status
  BY <1>1 DEF Rows, RetriedRow, SweptRow
<1> QED BY <1>1, <1>2, <1>3 DEF RowStep, AckedRow, NackedRow

\* A slot is taken only by the query that found the tenant below its quota.
LEMMA SlotsFrom ==
  ASSUME TypeOK, [Next]_vars, NEW t \in Tenants, NEW w \in Slots(t)', w \notin Slots(t)
  PROVE  GetEligibleTenantIds(w) /\ t \in Eligible
<1>0. w \in Workers /\ poll'[w].pc \in {"polled", "locked"} /\ t \in poll'[w].tenants
  BY DEF Slots
<1>1. poll'[w] # poll[w] /\ poll[w] \in Polls /\ Idle.pc = "idle" /\ Idle.tenants = {}
  BY <1>0 DEF Slots, TypeOK, Idle
<1>2. CASE UNCHANGED vars
  BY <1>1, <1>2 DEF vars
<1>3. CASE \E j \in Jobs : ApiStep(j) \/ ClockStep(j)
  BY <1>1, <1>3 DEF ApiStep, Submit, Cancel, RetryDlq, ClockStep, BecomeDue, Lapse, Stall
<1>4. ASSUME NEW v \in Workers,
             \/ LifeStep(v) \/ LoopStep(v) \/ ClaimFails(v) \/ RecoverStaleLeases(v)
             \/ \E j \in Jobs : RenewLeaked(v, j)
      PROVE  GetEligibleTenantIds(w) /\ t \in Eligible
  <2>1. CASE LifeStep(v)
    BY <1>0, <1>1, <2>1 DEF LifeStep, Start, Stop, LoopExit, Kill, UnhandledRejection, End, TypeOK
  <2>2. CASE RecoverStaleLeases(v) \/ \E j \in Jobs : RenewLeaked(v, j)
    BY <1>1, <2>2 DEF RecoverStaleLeases, RenewLeaked
  <2>3. CASE ClaimNothing(v) \/ ClaimFails(v) \/ ClaimCommit(v)
    BY <1>0, <1>1, <2>3 DEF ClaimNothing, ClaimFails, ClaimCommit, TypeOK
  <2>4. CASE \E j \in Jobs : ClaimLock(v, j)
    <3>1. PICK j \in Jobs : ClaimLock(v, j)
      BY <2>4
    <3>2. v = w
      <4>1. \A u \in Workers \ {v} : poll'[u] = poll[u]
        BY <3>1 DEF ClaimLock, TypeOK
      <4> QED BY <1>0, <1>1, <4>1
    <3>3. [poll[w] EXCEPT !.pc = "locked", !.job = j].tenants = poll[w].tenants
      BY <1>1 DEF Polls
    <3>4. poll[w].pc = "polled" /\ poll'[w].tenants = poll[w].tenants
      BY <1>0, <3>1, <3>2, <3>3 DEF ClaimLock, TypeOK
    <3> QED BY <1>0, <3>4 DEF Slots
  <2>5. CASE GetEligibleTenantIds(v)
    BY <1>0, <1>1, <2>5 DEF GetEligibleTenantIds, TypeOK
  <2> QED BY <1>4, <2>1, <2>2, <2>3, <2>4, <2>5 DEF LoopStep
<1>5. ASSUME NEW e \in execs, ExecStep(e) \/ ExecFault(e) \/ Renew(e)
      PROVE  FALSE
  BY <1>0, <1>1, <1>5 DEF ExecStep, ExecFault, Renew, StartExecution, WorkDone, WorkFails, Ack, Nack,
       Notify, ClaimNotifyFails, AckFails, AckNotifyFails, NackFails, TypeOK
<1> QED BY <1>2, <1>3, <1>4, <1>5 DEF Next

LEMMA QuotaInvStep == RowInv /\ QuotaInv /\ [Next]_vars => QuotaInv'
<1> SUFFICES ASSUME RowInv, QuotaInv, [Next]_vars, NEW t \in Tenants
             PROVE  (Load(t) > 0 => Load(t) <= Quota[t] - 1 + Cardinality(Workers))'
  BY DEF QuotaInv
<1> USE Finiteness
<1>0. TypeOK /\ Quota[t] \in Int
  BY ColumnTypes DEF RowInv
<1>1. /\ IsFiniteSet(Running(t)') /\ Cardinality(Running(t)') \in Nat
      /\ IsFiniteSet(Slots(t)') /\ Cardinality(Slots(t)') \in Nat
      /\ Cardinality(Slots(t)') <= Cardinality(Workers)
  <2>1. Running(t)' \subseteq Jobs /\ Slots(t)' \subseteq Workers
    BY DEF Running, Slots
  <2> QED BY <2>1, JobsFinite, WorkersFinite, FS_Subset, FS_CardinalityType
<1>2. Load(t)' = Cardinality(Running(t)') + Cardinality(Slots(t)')
  BY DEF Load
<1>3. CASE Running(t)' \subseteq Running(t) /\ Slots(t)' \subseteq Slots(t)
  <2>1. /\ Cardinality(Running(t)') <= Cardinality(Running(t))
        /\ Cardinality(Slots(t)') <= Cardinality(Slots(t))
    BY <1>3, FS_Subset
  <2> QED BY <1>0, <1>1, <1>2, <2>1 DEF QuotaInv, Load
<1>4. CASE \E w \in Workers : ClaimCommit(w)
  <2>1. PICK w \in Workers : ClaimCommit(w)
    BY <1>4
  <2> DEFINE j == poll[w].job
  <2>2. /\ poll[w].pc = "locked" /\ j \in Jobs /\ row[j].status = "pending"
        /\ TenantOf[j] \in poll[w].tenants
    BY <2>1 DEF ClaimCommit, RowInv, LocksHold, TypeOK, Polls
  <2>3. Slots(t)' = Slots(t) \ {w}
    BY <2>1 DEF ClaimCommit, Slots, RowInv, TypeOK
  <2>4. Running(t)' \subseteq Running(t) \cup {j}
    <3>1. \A k \in Jobs : k # j => row'[k] = row[k]
      BY <2>1 DEF ClaimCommit, RowInv, TypeOK
    <3> QED BY <3>1 DEF Running
  <2>5. CASE TenantOf[j] = t
    <3>1. w \in Slots(t) /\ j \notin Running(t)
      BY <2>2, <2>5 DEF Slots, Running
    <3>2. Cardinality(Slots(t)') = Cardinality(Slots(t)) - 1
      BY <2>3, <3>1, FS_RemoveElement
    <3>3. Cardinality(Running(t) \cup {j}) = Cardinality(Running(t)) + 1 /\ IsFiniteSet(Running(t) \cup {j})
      BY <3>1, FS_AddElement
    <3>4. Cardinality(Running(t)') <= Cardinality(Running(t)) + 1
      BY <2>4, <3>3, FS_Subset
    <3>5. Load(t) > 0 /\ Load(t)' <= Load(t)
      <4>1. Cardinality(Slots(t)) # 0
        BY <3>1, FS_EmptySet
      <4> QED BY <1>1, <1>2, <3>2, <3>4, <4>1 DEF Load
    <3> QED BY <1>0, <1>1, <1>2, <3>5 DEF QuotaInv, Load
  <2>6. CASE TenantOf[j] # t
    <3>1. Running(t)' \subseteq Running(t)
      BY <2>4, <2>6 DEF Running
    <3> QED BY <1>3, <2>3, <3>1
  <2> QED BY <2>5, <2>6
<1>5. CASE ~ (\E w \in Workers : ClaimCommit(w)) /\ ~ (Slots(t)' \subseteq Slots(t))
  <2>1. PICK w \in Slots(t)' : w \notin Slots(t)
    BY <1>5
  <2>2. GetEligibleTenantIds(w) /\ t \in Eligible
    BY <1>0, <2>1, SlotsFrom
  <2>3. Cardinality(Running(t)) < Quota[t]
    BY <2>2 DEF Eligible
  <2>4. Running(t)' \subseteq Running(t)
    BY <1>5, RunningFrom
  <2>5. Cardinality(Running(t)') <= Cardinality(Running(t))
    BY <2>4, FS_Subset
  <2> QED BY <1>0, <1>1, <1>2, <2>3, <2>5
<1>6. CASE ~ (\E w \in Workers : ClaimCommit(w)) /\ Slots(t)' \subseteq Slots(t)
  <2>1. Running(t)' \subseteq Running(t)
    BY <1>6, RunningFrom
  <2> QED BY <1>3, <1>6, <2>1
<1> QED BY <1>4, <1>5, <1>6

\* However the count and the claims of all workers interleave, a tenant runs at
\* most its quota and one job less than there are workers.
THEOREM QuotaOvershootBounded == Spec => []QuotaOvershoot
<1>1. Init => QuotaInv
  <2> SUFFICES ASSUME Init, NEW t \in Tenants PROVE Load(t) = 0
    BY DEF QuotaInv
  <2>1. Running(t) = {} /\ Slots(t) = {}
    BY DEF Init, Running, Slots, Absent, Idle
  <2> QED BY <2>1, FS_EmptySet DEF Load
<1>2. RowInv /\ QuotaInv /\ [Next]_vars => QuotaInv'
  BY QuotaInvStep
<1>3. QuotaInv => QuotaOvershoot
  BY Finiteness, ColumnTypes DEF QuotaInv, QuotaOvershoot, Load
<1> QED BY <1>1, <1>2, <1>3, RowInvAlways, PTL DEF Spec

-----------------------------------------------------------------------------
(* Refinement: without faults and stalls the lifecycle is the README's.     *)

Calm == MaxFaults = 0 /\ MaxStalls = 0

CalmInv ==
  /\ OwnInv
  /\ spent["stalls"] = 0
  /\ \A e \in execs : e.pc = "nacking" => row[e.job].status = "running"
  /\ \A j \in Jobs : row[j].status = "absent" => row[j].attempts = 0

\* Nothing fails and nobody stalls.
LEMMA CalmSteps ==
  ASSUME Calm, TypeOK, [Next]_vars
  PROVE  /\ spent["stalls"] = 0 => spent'["stalls"] = 0
         /\ \A j \in Jobs : ~ Stall(j)
         /\ \A w \in Workers : ~ UnhandledRejection(w) /\ ~ ClaimFails(w)
         /\ \A e \in execs : ~ ExecFault(e)
<1>1. spent["faults"] \in Nat /\ spent["stalls"] \in Nat
  BY DEF TypeOK, Kinds
<1>2. ~ Spend("faults", MaxFaults) /\ ~ Spend("stalls", MaxStalls)
  BY <1>1 DEF Spend, Calm
<1>3. /\ \A j \in Jobs : ~ Stall(j)
      /\ \A w \in Workers : ~ UnhandledRejection(w) /\ ~ ClaimFails(w)
      /\ \A e \in execs : ~ ExecFault(e)
  BY <1>2 DEF Stall, UnhandledRejection, ClaimFails, ExecFault, ClaimNotifyFails, AckFails,
       AckNotifyFails, NackFails
<1>4. spent' = spent \/ Spend("retries", MaxRetries)
  BY <1>3 DEF Next, vars, ApiStep, Submit, Cancel, RetryDlq, ClockStep, BecomeDue, Lapse,
       LifeStep, Start, Stop, LoopExit, Kill, LoopStep, GetEligibleTenantIds, ClaimNothing,
       ClaimLock, ClaimCommit, RecoverStaleLeases, RenewLeaked, ExecStep, Renew,
       StartExecution, WorkDone, WorkFails, Ack, Nack, Notify
<1> QED BY <1>1, <1>3, <1>4 DEF Spend, TypeOK, Kinds

\* No statement removes a row.
LEMMA RowsStay ==
  ASSUME RowInv, [Next]_vars, NEW j \in Jobs, row'[j].status = "absent"
  PROVE  row[j].status = "absent" /\ row'[j].attempts = row[j].attempts
<1>1. row[j] \in Rows /\ RowStep(j)
  BY RowSteps DEF RowInv, TypeOK
<1>2. /\ RetriedRow(row[j]).status = "pending"
      /\ SweptRow(row[j]).status = "pending"
      /\ \A w \in Workers : ClaimedRow(row[j], w).status = "running"
      /\ [row[j] EXCEPT !.status = "failed"].status = "failed"
      /\ [row[j] EXCEPT !.status = "completed"].status = "completed"
      /\ [row[j] EXCEPT !.status = "dead_letter"].status = "dead_letter"
  BY <1>1 DEF Rows, RetriedRow, SweptRow, ClaimedRow
<1>3. \A change \in {[row[j] EXCEPT !.scheduled = "due"], [row[j] EXCEPT !.lease = "lapsed"],
                      [row[j] EXCEPT !.lease = "live"]} :
        change.status = row[j].status /\ change.attempts = row[j].attempts
  BY <1>1 DEF Rows
<1>4. \A e \in execs : /\ row'[j] = AckedRow(row[j], e) => row'[j] = row[j]
                       /\ row'[j] = NackedRow(row[j], e) => row'[j] = row[j]
  BY <1>2 DEF AckedRow, NackedRow
<1>5. /\ ~ (row'[j].status = "pending") /\ ~ (row'[j] = RetriedRow(row[j])) /\ ~ (row'[j] = SweptRow(row[j]))
      /\ ~ (row'[j] = [row[j] EXCEPT !.status = "failed"])
      /\ \A w \in Workers : ~ (row'[j] = ClaimedRow(row[j], w))
  BY <1>2
<1>6. \A change \in {row[j], [row[j] EXCEPT !.scheduled = "due"], [row[j] EXCEPT !.lease = "lapsed"],
                      [row[j] EXCEPT !.lease = "live"]} :
        row'[j] = change => row[j].status = "absent" /\ row'[j].attempts = row[j].attempts
  BY <1>3
<1> QED BY <1>1, <1>4, <1>5, <1>6, Zenon DEF RowStep

LEMMA CalmInvStep == ASSUME Calm, CalmInv, [Next]_vars PROVE CalmInv'
<1>1. OwnInv' /\ TypeOK /\ RowInv
  BY OwnInvStep DEF CalmInv, OwnInv, RowInv
<1>2. spent'["stalls"] = 0
  BY <1>1, CalmSteps DEF CalmInv
<1>3. ASSUME NEW f \in execs', f.pc = "nacking"
      PROVE  row'[f.job].status = "running"
  <2>1. ExecFrom(f)
    BY <1>1, ExecsFrom
  <2>2. CASE f \in execs
    BY <1>2, <1>3, <2>2, KeptOnes DEF CalmInv
  <2>3. ASSUME NEW e \in execs, NextOf(e, f), e.pc = "working"
        PROVE  row'[f.job].status = "running"
    BY <2>3 DEF NextOf, CalmInv, OwnInv, Kept
  <2>4. ASSUME NEW e \in execs, NextOf(e, f), e.pc # "working", f \notin execs
        PROVE  FALSE
    <3>1. e.pc \in {"acking", "acked"}
      BY <1>3, <2>4 DEF NextOf
    <3>2. execs' # execs /\ f \in execs' /\ ~ UNCHANGED vars
      BY <2>4 DEF NextOf, vars
    <3>3. \A j \in Jobs : ~ (ApiStep(j) \/ ClockStep(j))
      BY <3>2 DEF ApiStep, Submit, Cancel, RetryDlq, ClockStep, BecomeDue, Lapse, Stall
    <3>4. ASSUME NEW w \in Workers
          PROVE  ~ (\/ LifeStep(w) \/ LoopStep(w) \/ ClaimFails(w) \/ RecoverStaleLeases(w)
                    \/ \E j \in Jobs : RenewLeaked(w, j))
      BY <1>3, <2>4, <3>2 DEF LifeStep, Start, Stop, LoopExit, Kill, UnhandledRejection, End, LoopStep,
           GetEligibleTenantIds, ClaimNothing, ClaimLock, ClaimCommit, NewExecution, ClaimFails,
           RecoverStaleLeases, RenewLeaked
    <3>5. PICK g \in execs : ExecStep(g) \/ Renew(g)
      BY <1>1, <3>2, <3>3, <3>4, CalmSteps DEF Next
    <3>6. g = e
      BY <2>4, <3>5 DEF NextOf, ExecStep, StartExecution, WorkDone, WorkFails, Ack, Nack, Notify, Renew,
           Advance, Become, Finish
    <3>7. g \in Execs
      BY <1>1 DEF TypeOK
    <3>8. Ack(e) \/ Notify(e)
      BY <3>1, <3>5, <3>6 DEF ExecStep, StartExecution, WorkDone, WorkFails, Nack, Renew
    <3>9. f.pc = "acked"
      BY <1>1, <2>4, <3>8, AdvanceTo DEF Ack, Notify, Finish
    <3> QED BY <1>3, <3>9
  <2> QED BY <1>3, <2>1, <2>2, <2>3, <2>4 DEF ExecFrom, NewExecution
<1>4. ASSUME NEW j \in Jobs, row'[j].status = "absent"
      PROVE  row'[j].attempts = 0
  BY <1>1, <1>4, RowsStay DEF CalmInv
<1> QED BY <1>1, <1>2, <1>3, <1>4 DEF CalmInv

\* The lifecycle moves as one row's status does.
LEMMA StatusMove ==
  ASSUME row \in [Jobs -> Rows], NEW j \in Jobs, NEW r \in Rows, row' = [row EXCEPT ![j] = r]
  PROVE  /\ [k \in Jobs |-> row'[k].status] = [[k \in Jobs |-> row[k].status] EXCEPT ![j] = r.status]
         /\ [k \in Jobs |-> row'[k].attempts] = [[k \in Jobs |-> row[k].attempts] EXCEPT ![j] = r.attempts]
         /\ r.attempts = row[j].attempts =>
              [k \in Jobs |-> row'[k].attempts] = [k \in Jobs |-> row[k].attempts]
         /\ r.status = row[j].status =>
              [k \in Jobs |-> row'[k].status] = [k \in Jobs |-> row[k].status]
OBVIOUS

\* Every step of the queue is a step of the lifecycle or none.
LEMMA LifecycleStep ==
  ASSUME Calm, CalmInv, [Next]_vars
  PROVE  [Lifecycle!Next]_(Lifecycle!vars)
<1> DEFINE st == [j \in Jobs |-> row[j].status]
           at == [j \in Jobs |-> row[j].attempts]
           Same == st' = st /\ at' = at /\ claims' = claims
<1> USE DEF Lifecycle!Next, Lifecycle!vars, Lifecycle!Move
<1>0. RowInv /\ TypeOK /\ row \in [Jobs -> Rows]
  BY DEF CalmInv, OwnInv, RowInv, TypeOK
<1>one. ASSUME NEW j \in Jobs, Lifecycle!Claim(j) \/ Lifecycle!Complete(j) \/ Lifecycle!Fail(j)
        PROVE  [Lifecycle!Next]_(Lifecycle!vars)
  BY <1>one
<1>many. ASSUME NEW lost \in SUBSET Jobs, Lifecycle!Recover(lost)
         PROVE  [Lifecycle!Next]_(Lifecycle!vars)
  BY <1>many
<1>1. CASE row' = row /\ claims' = claims
  BY <1>1
<1>2. ASSUME NEW j \in Jobs, ApiStep(j) \/ ClockStep(j)
      PROVE  [Lifecycle!Next]_(Lifecycle!vars)
  <2>0. row[j] \in Rows
    BY <1>0
  <2>1. CASE \E payload \in {"plain", "fail"}, scheduled \in {"future", "due"} : Submit(j, payload, scheduled)
    <3>1. PICK payload \in {"plain", "fail"}, scheduled \in {"future", "due"} : Submit(j, payload, scheduled)
      BY <2>1
    <3> DEFINE r == [Absent EXCEPT !.status = "pending", !.payload = payload, !.scheduled = scheduled]
    <3>2. r \in Rows /\ r.status = "pending" /\ r.attempts = 0
      BY RowsConstant DEF Absent
    <3>3. row[j].attempts = 0 /\ row[j].status = "absent"
      BY <3>1 DEF Submit, CalmInv
    <3>4. st' = [st EXCEPT ![j] = "pending"] /\ at' = at
      BY <1>0, <3>1, <3>2, <3>3, StatusMove DEF Submit
    <3>5. Lifecycle!Submit(j)
      BY <3>1, <3>3, <3>4 DEF Lifecycle!Submit, Submit
    <3> QED BY <3>5
  <2>2. CASE Cancel(j)
    <3> DEFINE r == [row[j] EXCEPT !.status = "failed"]
    <3>1. r \in Rows /\ r.status = "failed" /\ r.attempts = row[j].attempts
      BY <2>0 DEF Rows, Statuses
    <3>2. st' = [st EXCEPT ![j] = "failed"] /\ at' = at
      BY <1>0, <2>2, <3>1, StatusMove DEF Cancel
    <3>3. Lifecycle!Cancel(j)
      BY <2>2, <3>2 DEF Lifecycle!Cancel, Cancel
    <3> QED BY <3>3
  <2>3. CASE RetryDlq(j)
    <3> DEFINE r == RetriedRow(row[j])
    <3>1. r \in Rows /\ r.status = "pending" /\ r.attempts = 0
      BY <2>0, RetriedRowType DEF RetriedRow, Rows
    <3>2. st' = [st EXCEPT ![j] = "pending"] /\ at' = [at EXCEPT ![j] = 0]
      BY <1>0, <2>3, <3>1, StatusMove DEF RetryDlq
    <3>3. Lifecycle!Retry(j)
      BY <2>3, <3>2 DEF Lifecycle!Retry, RetryDlq
    <3> QED BY <3>3
  <2>4. CASE BecomeDue(j) \/ Lapse(j)
    <3>1. PICK r \in {[row[j] EXCEPT !.scheduled = "due"], [row[j] EXCEPT !.lease = "lapsed"]} :
            row' = [row EXCEPT ![j] = r] /\ claims' = claims
      BY <2>4 DEF BecomeDue, Lapse
    <3>2. r \in Rows /\ r.status = row[j].status /\ r.attempts = row[j].attempts
      BY <2>0 DEF Rows
    <3>3. Same
      BY <1>0, <3>1, <3>2, StatusMove
    <3> QED BY <3>3
  <2> QED BY <1>0, <1>2, <2>1, <2>2, <2>3, <2>4, CalmSteps DEF ApiStep, ClockStep
<1>3. ASSUME NEW w \in Workers, ClaimCommit(w)
      PROVE  [Lifecycle!Next]_(Lifecycle!vars)
  <2>0. PICK j \in Jobs : j = poll[w].job
    BY <1>0, <1>3 DEF ClaimCommit, TypeOK, Polls
  <2> DEFINE r == ClaimedRow(row[j], w)
  <2>1. j \in Jobs /\ row[j] \in Rows /\ row[j].status = "pending"
    BY <1>0, <1>3, <2>0 DEF ClaimCommit, RowInv, TypeOK, LocksHold
  <2>2. r \in Rows /\ r.status = "running" /\ r.attempts = row[j].attempts + 1
    BY <2>1, ClaimedRowType DEF ClaimedRow, Rows
  <2>3. row' = [row EXCEPT ![j] = r] /\ claims' = [claims EXCEPT ![j] = @ + 1]
    BY <1>3, <2>0 DEF ClaimCommit
  <2>4. st' = [st EXCEPT ![j] = "running"] /\ at' = [at EXCEPT ![j] = @ + 1]
    BY <1>0, <2>1, <2>2, <2>3, StatusMove
  <2>5. Lifecycle!Claim(j)
    BY <2>1, <2>3, <2>4 DEF Lifecycle!Claim
  <2> QED BY <1>one, <2>1, <2>5
<1>4. ASSUME NEW w \in Workers, RecoverStaleLeases(w)
      PROVE  [Lifecycle!Next]_(Lifecycle!vars)
  <2>0. PICK lost \in SUBSET Jobs : lost = {j \in Jobs : Stale(row[j])}
    OBVIOUS
  <2>1. lost # {} /\ lost \in SUBSET Jobs /\ \A j \in lost : row[j].status = "running"
    BY <1>4, <2>0 DEF RecoverStaleLeases, Stale
  <2>2. \A j \in Jobs : /\ row[j] \in Rows
                        /\ SweptRow(row[j]).status = "pending"
                        /\ SweptRow(row[j]).attempts = row[j].attempts
    BY <1>0 DEF SweptRow, Rows
  <2>3. st' = [j \in Jobs |-> IF j \in lost THEN "pending" ELSE st[j]] /\ at' = at
    BY <1>4, <2>0, <2>2 DEF RecoverStaleLeases
  <2>4. Lifecycle!Recover(lost)
    BY <1>4, <2>1, <2>3 DEF Lifecycle!Recover, RecoverStaleLeases
  <2> QED BY <1>many, <2>1, <2>4
<1>5. ASSUME NEW j \in Jobs, row[j].status = "running", row' = [row EXCEPT ![j].lease = "live"], claims' = claims
      PROVE  [Lifecycle!Next]_(Lifecycle!vars)
  <2> DEFINE r == [row[j] EXCEPT !.lease = "live"]
  <2>1. r \in Rows /\ r.status = row[j].status /\ r.attempts = row[j].attempts
    BY <1>0 DEF Rows
  <2>2. Same
    BY <1>0, <1>5, <2>1, StatusMove
  <2> QED BY <2>2
<1>6. ASSUME NEW w \in Workers,
             \/ LifeStep(w) \/ LoopStep(w) \/ ClaimFails(w) \/ RecoverStaleLeases(w)
             \/ \E j \in Jobs : RenewLeaked(w, j)
      PROVE  [Lifecycle!Next]_(Lifecycle!vars)
  <2>1. CASE LifeStep(w) \/ ClaimFails(w)
    BY <1>1, <2>1 DEF LifeStep, Start, Stop, LoopExit, Kill, UnhandledRejection, End, ClaimFails
  <2>2. CASE LoopStep(w)
    BY <1>1, <1>3, <2>2 DEF LoopStep, GetEligibleTenantIds, ClaimNothing, ClaimLock
  <2>3. CASE \E j \in Jobs : RenewLeaked(w, j)
    BY <1>5, <2>3 DEF RenewLeaked, RenewMatches
  <2> QED BY <1>4, <1>6, <2>1, <2>2, <2>3
<1>7. ASSUME NEW e \in execs, ExecStep(e) \/ Renew(e)
      PROVE  [Lifecycle!Next]_(Lifecycle!vars)
  <2>0. e.job \in Jobs /\ row[e.job] \in Rows /\ Kept(e)
    BY <1>0 DEF CalmInv, OwnInv, TypeOK, Execs
  <2>1. CASE Renew(e)
    BY <1>1, <1>5, <2>0, <2>1 DEF Renew, RenewMatches
  <2>2. CASE Ack(e)
    <3> DEFINE r == [row[e.job] EXCEPT !.status = "completed"]
    <3>1. row[e.job].status = "running" /\ row' = [row EXCEPT ![e.job] = r] /\ claims' = claims
      BY <2>0, <2>2 DEF Ack, AckedRow, OwnerMatches, Kept
    <3>2. r \in Rows /\ r.status = "completed" /\ r.attempts = row[e.job].attempts
      BY <2>0 DEF Rows, Statuses
    <3>3. st' = [st EXCEPT ![e.job] = "completed"] /\ at' = at
      BY <1>0, <2>0, <3>1, <3>2, StatusMove
    <3>4. Lifecycle!Complete(e.job)
      BY <2>0, <3>1, <3>3 DEF Lifecycle!Complete
    <3> QED BY <1>one, <2>0, <3>4
  <2>3. CASE Nack(e)
    <3> DEFINE j == e.job
               r == NackedRow(row[j], e)
               to == IF row[j].attempts >= MaxAttempts[j] THEN "dead_letter" ELSE "pending"
    <3>1. /\ row[j].status = "running" /\ OwnerMatches(row[j], e)
          /\ row' = [row EXCEPT ![j] = r] /\ claims' = claims
      BY <2>0, <2>3 DEF Nack, OwnerMatches, Kept, CalmInv
    <3>2. r \in Rows
      BY <2>0, NackedRowType
    <3>3. r.status = to /\ r.attempts = row[j].attempts
      BY <2>0, <3>1 DEF NackedRow, SweptRow, Rows
    <3>4. st' = [st EXCEPT ![j] = to] /\ at' = at
      BY <1>0, <2>0, <3>1, <3>2, <3>3, StatusMove
    <3>5. Lifecycle!Fail(j)
      BY <2>0, <3>1, <3>4 DEF Lifecycle!Fail
    <3> QED BY <1>one, <2>0, <3>5
  <2>4. CASE StartExecution(e) \/ WorkDone(e) \/ WorkFails(e) \/ Notify(e)
    BY <1>1, <2>4 DEF StartExecution, WorkDone, WorkFails, Notify
  <2> QED BY <1>7, <2>1, <2>2, <2>3, <2>4 DEF ExecStep
<1> QED BY <1>0, <1>1, <1>2, <1>6, <1>7, CalmSteps DEF Next, vars

\* Where no database call of a worker fails and no live worker lets a lease run
\* out, the queue does what the README says of a job and nothing else.
THEOREM QueueImplementsLifecycle == Calm => (Spec => ImplementsLifecycle)
<1> SUFFICES ASSUME Calm PROVE Spec => ImplementsLifecycle
  OBVIOUS
<1>1. Init => Lifecycle!Init
  BY DEF Init, Absent, Lifecycle!Init
<1>2. Init => CalmInv
  BY RowInvInit DEF Init, CalmInv, OwnInv, ClaimsNamed, Kinds, Absent
<1>3. CalmInv /\ [Next]_vars => CalmInv'
  BY CalmInvStep
<1>4. CalmInv /\ [Next]_vars => [Lifecycle!Next]_(Lifecycle!vars)
  BY LifecycleStep
<1> QED BY <1>1, <1>2, <1>3, <1>4, PTL DEF Spec, ImplementsLifecycle, Lifecycle!Spec

=============================================================================
