---------------------------- MODULE JobLifecycle ----------------------------
(***************************************************************************)
(* What the README promises of a job (Job Lifecycle, DLQ retry, crash      *)
(* recovery), without workers, leases or timers: a job is submitted once,  *)
(* is claimed by one claim at a time, is settled by the claim that holds   *)
(* it, is retried until its attempts are used up and then dead-lettered.   *)
(* completed and failed are final.  JobQueue is shown to implement this    *)
(* as long as no worker's database call fails and no live worker lets a    *)
(* lease run out.                                                          *)
(***************************************************************************)
EXTENDS Naturals

CONSTANTS
  Jobs,        \* row ids of the jobs table
  MaxAttempts  \* jobs.max_attempts

VARIABLES
  status,    \* status[j]: where job j is in its life
  attempts,  \* attempts[j]: how often it was tried since it was queued by a user
  claim      \* claim[j]: how often it was ever claimed

vars == <<status, attempts, claim>>

Init ==
  /\ status = [j \in Jobs |-> "absent"]
  /\ attempts = [j \in Jobs |-> 0]
  /\ claim = [j \in Jobs |-> 0]

Move(j, from, to) == status[j] = from /\ status' = [status EXCEPT ![j] = to]

Submit(j) == Move(j, "absent", "pending") /\ UNCHANGED <<attempts, claim>>

Cancel(j) == Move(j, "pending", "failed") /\ UNCHANGED <<attempts, claim>>

Claim(j) ==
  /\ Move(j, "pending", "running")
  /\ attempts' = [attempts EXCEPT ![j] = @ + 1]
  /\ claim' = [claim EXCEPT ![j] = @ + 1]

Complete(j) == Move(j, "running", "completed") /\ UNCHANGED <<attempts, claim>>

Fail(j) ==
  /\ Move(j, "running", IF attempts[j] >= MaxAttempts[j] THEN "dead_letter" ELSE "pending")
  /\ UNCHANGED <<attempts, claim>>

Retry(j) ==
  /\ Move(j, "dead_letter", "pending")
  /\ attempts' = [attempts EXCEPT ![j] = 0]
  /\ UNCHANGED claim

\* The jobs of workers that are gone are queued again, any number at once.
Recover(lost) ==
  /\ lost # {} /\ \A j \in lost : status[j] = "running"
  /\ status' = [j \in Jobs |-> IF j \in lost THEN "pending" ELSE status[j]]
  /\ UNCHANGED <<attempts, claim>>

Next ==
  \/ \E j \in Jobs :
       Submit(j) \/ Cancel(j) \/ Claim(j) \/ Complete(j) \/ Fail(j) \/ Retry(j)
  \/ \E lost \in SUBSET Jobs : Recover(lost)

Spec == Init /\ [][Next]_vars

=============================================================================
