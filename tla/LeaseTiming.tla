---------------------------- MODULE LeaseTiming ----------------------------
(***************************************************************************)
(* JobQueue's leases with a clock: one job, the lease its row has, the     *)
(* heartbeat timers that renew it (leaser.ts), the sweep timers that take  *)
(* it back (worker.ts:15-24, 41) and processes that die.                   *)
(*                                                                         *)
(* A timer fires on time; what it sends takes effect or fails within Late  *)
(* ticks, also when its process has died meanwhile.  Nobody catches what a *)
(* timer's statement throws, so the failure ends its process.  setInterval *)
(* does not wait for the statement before.  Time stands still while        *)
(* something is due, so the properties say what punctual timers and        *)
(* statements no slower than Late guarantee.  JobQueue has no clock: its   *)
(* Stall is the case that LeaseHolds excludes here.                        *)
(***************************************************************************)
EXTENDS Integers

CONSTANTS
  Workers,   \* incarnations of worker processes
  Lease,     \* 30 s, in ticks
  Beat,      \* HEARTBEAT_INTERVAL_SECONDS, in ticks
  Interval,  \* STALE_LEASE_CHECK_INTERVAL_SECONDS, in ticks
  Late,      \* bound: ticks until a statement takes effect
  MaxFaults, \* bound: statements that fail
  NoWorker   \* NULL in jobs.worker_id

ASSUME Incarnations == NoWorker \notin Workers
ASSUME Periods == Lease \in Nat /\ Beat \in Nat \ {0} /\ Interval \in Nat \ {0}
ASSUME BoundTypes == Late \in Nat /\ MaxFaults \in Nat
\* The lease outlasts one beat although the claim, an ack that fails and the nack
\* after it take as long as they may.
ASSUME Timely == Beat + 3 * Late < Lease

VARIABLES
  row,       \* the job: its status, its worker, the ticks its lease is good for
  process,   \* process[w]: whether it is up, and the ticks to its next sweep
  exec,      \* exec[w]: the execution of the job, the ticks to its next beat or
             \* the ticks it has waited for a statement
  renewals,  \* renewals[w]: how long the renewals under way have been
  sweeps,    \* sweeps[w]: how long the sweeps under way have been
  orphaned,  \* history: for how long the job has been running and nobody's,
  deaths,    \* how many processes ended meanwhile,
  lost,      \* and how many sweeps failed
  faults     \* how much of MaxFaults is used up

history == <<orphaned, deaths, lost>>
vars == <<row, process, exec, renewals, sweeps, history, faults>>

Free(status) == [status |-> status, worker |-> NoWorker, left |-> 0]
NoExec == [pc |-> "none", ticks |-> 0]

Init ==
  /\ row = Free("pending")
  /\ process = [w \in Workers |-> [life |-> "new", next |-> 0]]
  /\ exec = [w \in Workers |-> NoExec]
  /\ renewals = [w \in Workers |-> {}]
  /\ sweeps = [w \in Workers |-> {}]
  /\ orphaned = 0 /\ deaths = 0 /\ lost = 0
  /\ faults = 0

Up(w) == process[w].life = "up"

Orphaned == row.status = "running" /\ \A w \in Workers : row.worker = w => exec[w].pc = "none"

-----------------------------------------------------------------------------
(* Processes and their sweeps. *)

Start(w) ==
  /\ process[w].life = "new"
  /\ process' = [process EXCEPT ![w] = [life |-> "up", next |-> Interval]]
  /\ UNCHANGED <<row, exec, renewals, sweeps, history, faults>>

\* Some process stays up; statements on their way go on.
End(w) ==
  /\ Up(w) /\ \E v \in Workers \ {w} : Up(v)
  /\ process' = [process EXCEPT ![w] = [life |-> "dead", next |-> 0]]
  /\ exec' = [exec EXCEPT ![w] = NoExec]
  /\ deaths' = IF Orphaned THEN deaths + 1 ELSE deaths

Die(w) ==
  /\ End(w)
  /\ UNCHANGED <<row, renewals, sweeps, orphaned, lost, faults>>

SendSweep(w) ==
  /\ Up(w) /\ process[w].next = 0
  /\ process' = [process EXCEPT ![w].next = Interval]
  /\ sweeps' = [sweeps EXCEPT ![w] = @ \cup {0}]
  /\ UNCHANGED <<row, exec, renewals, history, faults>>

\* recoverStaleLeases takes effect.
Sweep(w, age) ==
  /\ age \in sweeps[w]
  /\ sweeps' = [sweeps EXCEPT ![w] = @ \ {age}]
  /\ row' = IF row.status = "running" /\ row.left = 0 THEN Free("pending") ELSE row
  /\ UNCHANGED <<process, exec, renewals, history, faults>>

\* Nobody awaits what setInterval calls: a rejection ends the process, unless
\* it ended before.
Rejected(w) == End(w) \/ (~ Up(w) /\ UNCHANGED <<process, exec, deaths>>)

\* recoverStaleLeases throws and has recovered nothing.
SweepFails(w, age) ==
  /\ age \in sweeps[w] /\ faults < MaxFaults
  /\ faults' = faults + 1
  /\ sweeps' = [sweeps EXCEPT ![w] = @ \ {age}]
  /\ lost' = IF Orphaned THEN lost + 1 ELSE lost
  /\ Rejected(w)
  /\ UNCHANGED <<row, renewals, orphaned>>

-----------------------------------------------------------------------------
(* The execution and its heartbeat. *)

\* Mutant: the claim grants more than the heartbeat renews.
ClaimedLeaseLong == 2 * Lease

ClaimedLease == Lease

Claim(w) ==
  /\ Up(w) /\ exec[w] = NoExec
  /\ row.status = "pending"
  /\ row' = [status |-> "running", worker |-> w, left |-> ClaimedLease]
  /\ exec' = [exec EXCEPT ![w] = [pc |-> "claimed", ticks |-> 0]]
  /\ orphaned' = 0 /\ deaths' = 0 /\ lost' = 0
  /\ UNCHANGED <<process, renewals, sweeps, faults>>

\* The claim's answer or its notification is lost, or the nack fails: the row is
\* running and nobody executes the job.
Abandon(w) ==
  /\ exec[w].pc \in {"claimed", "nacking"} /\ faults < MaxFaults
  /\ faults' = faults + 1
  /\ exec' = [exec EXCEPT ![w] = NoExec]
  /\ UNCHANGED <<row, process, renewals, sweeps, history>>

\* Mutant: the beat is as long as the lease.
NextBeatLong == Lease

NextBeat == Beat

\* The claim is answered and notified, executeJob starts the timer.
StartHeartbeat(w) ==
  /\ exec[w].pc = "claimed"
  /\ exec' = [exec EXCEPT ![w] = [pc |-> "working", ticks |-> NextBeat]]
  /\ UNCHANGED <<row, process, renewals, sweeps, history, faults>>

SendRenewal(w) ==
  /\ exec[w].pc = "working" /\ exec[w].ticks = 0
  /\ exec' = [exec EXCEPT ![w].ticks = NextBeat]
  /\ renewals' = [renewals EXCEPT ![w] = @ \cup {0}]
  /\ UNCHANGED <<row, process, sweeps, history, faults>>

\* renewLease takes effect, if the row is still its worker's.
Renew(w, age) ==
  /\ age \in renewals[w]
  /\ renewals' = [renewals EXCEPT ![w] = @ \ {age}]
  /\ row' = IF row.status = "running" /\ row.worker = w THEN [row EXCEPT !.left = Lease] ELSE row
  /\ UNCHANGED <<process, exec, sweeps, history, faults>>

\* renewLease throws, in a timer like the sweep's.
RenewalFails(w, age) ==
  /\ age \in renewals[w] /\ faults < MaxFaults
  /\ faults' = faults + 1
  /\ renewals' = [renewals EXCEPT ![w] = @ \ {age}]
  /\ Rejected(w)
  /\ UNCHANGED <<row, sweeps, orphaned, lost>>

\* The work ends and with it the timer: an ack follows, or a nack.
StopHeartbeat(w, pc) ==
  /\ exec[w].pc = "working"
  /\ exec' = [exec EXCEPT ![w] = [pc |-> pc, ticks |-> 0]]
  /\ UNCHANGED <<row, process, renewals, sweeps, history, faults>>

\* The ack fails and a nack follows (the ack that took effect all the same is
\* JobQueue's).
AckFails(w) ==
  /\ exec[w].pc = "acking" /\ faults < MaxFaults
  /\ faults' = faults + 1
  /\ exec' = [exec EXCEPT ![w] = [pc |-> "nacking", ticks |-> 0]]
  /\ UNCHANGED <<row, process, renewals, sweeps, history>>

\* The ack or the nack takes effect.  Nothing here depends on the worker_id that
\* an ack and the last nack leave behind.
Settle(w, status) ==
  /\ \/ exec[w].pc = "acking" /\ status = "settled"
     \/ exec[w].pc = "nacking" /\ status \in {"pending", "settled"}
  /\ row' = IF row.worker = w THEN Free(status) ELSE row
  /\ exec' = [exec EXCEPT ![w] = NoExec]
  /\ UNCHANGED <<process, renewals, sweeps, history, faults>>

-----------------------------------------------------------------------------
(* The clock. *)

\* Nothing has to happen before the next tick.
NothingDue ==
  /\ \A w \in Workers :
       /\ Up(w) => process[w].next > 0
       /\ exec[w].pc = "working" => exec[w].ticks > 0
       /\ exec[w].pc \in {"claimed", "acking", "nacking"} => exec[w].ticks < Late
       /\ \A age \in renewals[w] \cup sweeps[w] : age < Late

\* Mutant: a lease that is over goes on counting.
DownPastZero(n) == n - 1

Down(n) == IF n > 0 THEN n - 1 ELSE 0

Older(ages) == {age + 1 : age \in ages}

Waited(e) ==
  CASE e.pc = "none"    -> e
    [] e.pc = "working" -> [e EXCEPT !.ticks = @ - 1]
    [] OTHER            -> [e EXCEPT !.ticks = @ + 1]

Tick ==
  /\ NothingDue
  /\ row' = [row EXCEPT !.left = Down(@)]
  /\ process' = [w \in Workers |-> IF Up(w) THEN [process[w] EXCEPT !.next = @ - 1] ELSE process[w]]
  /\ exec' = [w \in Workers |-> Waited(exec[w])]
  /\ renewals' = [w \in Workers |-> Older(renewals[w])]
  /\ sweeps' = [w \in Workers |-> Older(sweeps[w])]
  /\ orphaned' = IF Orphaned THEN orphaned + 1 ELSE 0
  /\ UNCHANGED <<deaths, lost, faults>>

Next ==
  \/ \E w \in Workers :
       \/ Start(w) \/ Die(w) \/ SendSweep(w)
       \/ Claim(w) \/ Abandon(w) \/ StartHeartbeat(w) \/ SendRenewal(w) \/ AckFails(w)
       \/ \E age \in 0 .. Late : Sweep(w, age) \/ SweepFails(w, age) \/ Renew(w, age) \/ RenewalFails(w, age)
       \/ \E pc \in {"acking", "nacking"} : StopHeartbeat(w, pc)
       \/ \E status \in {"pending", "settled"} : Settle(w, status)
  \/ Tick

Spec == Init /\ [][Next]_vars

-----------------------------------------------------------------------------
(* Correctness. *)

\* Every variable holds values of its type; nothing is later than it may be.
TypeOK ==
  /\ row \in [status : {"pending", "running", "settled"}, worker : Workers \cup {NoWorker}, left : 0 .. Lease]
  /\ process \in [Workers -> [life : {"new", "up", "dead"}, next : 0 .. Interval]]
  /\ exec \in [Workers -> [pc : {"none", "claimed", "working", "acking", "nacking"}, ticks : Nat]]
  /\ renewals \in [Workers -> SUBSET (0 .. Late)]
  /\ sweeps \in [Workers -> SUBSET (0 .. Late)]
  /\ orphaned \in Nat /\ deaths \in Nat /\ lost \in 0 .. faults
  /\ faults \in 0 .. MaxFaults

\* Whoever executes the job has it and its lease is good, from the claim until
\* the ack or nack takes effect: the heartbeat, which starts only when the claim
\* is answered and notified, is fast enough (claimer.ts:16, executor.ts:15, 33,
\* leaser.ts:12, 32-37; README.md:216).
LeaseHolds ==
  \A w \in Workers :
    exec[w].pc # "none" => row.status = "running" /\ row.worker = w /\ row.left > 0

\* A job whose worker died, or whose claim was lost, is pending again within a
\* lease and a sweep interval (45 s), and what the last renewal and the sweep
\* take.  Only a process that ends while the job waits, whose sweep may
\* have been near, costs another interval, and a sweep that fails what it took
\* (worker.ts:15-24, 41): README.md:216, 635, 777 and 1094 promise 45 s of every
\* crash.
RecoveredInTime ==
  orphaned < Lease + 2 * Late + Interval * (1 + deaths) + Late * lost

=============================================================================
