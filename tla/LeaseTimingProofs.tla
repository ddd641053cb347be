------------------------- MODULE LeaseTimingProofs -------------------------
(***************************************************************************)
(* What LeaseTiming keeps for any number of workers, any lease, beat,      *)
(* interval and lateness with Beat + 3 * Late < Lease: its types, that the *)
(* lease of a job that is executed never lapses, and that an orphaned job  *)
(* is taken back in time.                                                  *)
(*                                                                         *)
(* Covered says how much of the lease may be gone wherever the execution   *)
(* is, unless a renewal is on its way; Recovering says which sweep will    *)
(* take an orphaned job back.                                              *)
(***************************************************************************)
EXTENDS LeaseTiming, TLAPS

RowTypes == [status : {"pending", "running", "settled"}, worker : Workers \cup {NoWorker}, left : 0 .. Lease]
ProcessTypes == [life : {"new", "up", "dead"}, next : 0 .. Interval]
ExecTypes == [pc : {"none", "claimed", "working", "acking", "nacking"}, ticks : Nat]

\* A statement waits for Late at most, a beat for Beat.
Punctual ==
  \A w \in Workers :
    exec[w].ticks <= IF exec[w].pc = "working" THEN Beat ELSE Late

\* Whoever executes the job has it.
Owned == \A w \in Workers : exec[w].pc # "none" => row.status = "running" /\ row.worker = w

\* How much of the lease may be gone since the claim, or since the renewal that
\* was sent before the last beat took effect.
Gone(e) ==
  CASE e.pc = "claimed" -> e.ticks
    [] e.pc = "working" -> Late + (Beat - e.ticks)
    [] e.pc = "acking"  -> Late + Beat + e.ticks
    [] e.pc = "nacking" -> Late + Beat + Late + e.ticks

\* Unless a renewal is on its way: it was sent with no more gone than Late + Beat.
Covered ==
  \A w \in Workers : exec[w].pc # "none" =>
    \/ row.left + Gone(exec[w]) >= Lease
    \/ \E age \in renewals[w] : row.left + Late + Beat + age >= Lease

\* Who is not up executes nothing.
Idle == \A w \in Workers : ~ Up(w) => exec[w].pc = "none"

LeaseInv == TypeOK /\ Punctual /\ Owned /\ Covered /\ Idle

\* It is enough that a lease outlasts everything that may be gone.
LEMMA CoveredHolds == LeaseInv => LeaseHolds
<1> SUFFICES ASSUME LeaseInv, NEW w \in Workers, exec[w].pc # "none"
             PROVE  row.status = "running" /\ row.worker = w /\ row.left > 0
  BY DEF LeaseHolds
<1>1. row.status = "running" /\ row.worker = w
  BY DEF LeaseInv, Owned
<1>2. /\ row.left \in Nat /\ exec[w].ticks \in Nat
      /\ exec[w].pc \in {"claimed", "working", "acking", "nacking"}
      /\ \A age \in renewals[w] : age \in Nat /\ age <= Late
  BY Periods, BoundTypes DEF LeaseInv, TypeOK
<1>3. CASE row.left + Gone(exec[w]) >= Lease
  <2>1. Gone(exec[w]) \in Int /\ Gone(exec[w]) <= Beat + 3 * Late
    BY <1>2, Periods, BoundTypes DEF Gone, LeaseInv, Punctual
  <2> QED BY <1>1, <1>2, <1>3, <2>1, Timely, Periods, BoundTypes
<1>4. CASE \E age \in renewals[w] : row.left + Late + Beat + age >= Lease
  BY <1>1, <1>2, <1>4, Timely, Periods, BoundTypes
<1> QED BY <1>3, <1>4 DEF LeaseInv, Covered

-----------------------------------------------------------------------------
(* Types. *)

LEMMA InitLease == Init => LeaseInv
<1> SUFFICES ASSUME Init PROVE LeaseInv
  OBVIOUS
<1>1. TypeOK
  BY Periods, BoundTypes DEF Init, TypeOK, Free, NoExec
<1> QED BY <1>1, BoundTypes DEF Init, LeaseInv, Punctual, Owned, Covered, Idle, NoExec

\* The rows, processes and executions under the names the proofs use.
LEMMA Types ==
  ASSUME TypeOK
  PROVE  /\ row \in RowTypes /\ process \in [Workers -> ProcessTypes] /\ exec \in [Workers -> ExecTypes]
         /\ renewals \in [Workers -> SUBSET (0 .. Late)] /\ sweeps \in [Workers -> SUBSET (0 .. Late)]
         /\ orphaned \in Nat /\ deaths \in Nat /\ lost \in Nat /\ faults \in Nat /\ faults <= MaxFaults
         /\ row.left \in Nat /\ row.left <= Lease
BY Periods, BoundTypes DEF TypeOK, RowTypes, ProcessTypes, ExecTypes

LEMMA RowsMade ==
  /\ \A status \in {"pending", "settled"} : Free(status) \in RowTypes
  /\ \A w \in Workers, left \in 0 .. Lease :
       [status |-> "running", worker |-> w, left |-> left] \in RowTypes
  /\ NoExec \in ExecTypes
BY Periods DEF Free, RowTypes, NoExec, ExecTypes

\* What has waited for less than Late is no older than Late after a tick.
LEMMA OlderTypes ==
  ASSUME NEW ages \in SUBSET (0 .. Late), \A age \in ages : age < Late
  PROVE  Older(ages) \in SUBSET (0 .. Late)
BY BoundTypes DEF Older

LEMMA StepType == ASSUME TypeOK, [Next]_vars PROVE TypeOK'
<1>1. /\ row \in RowTypes /\ process \in [Workers -> ProcessTypes] /\ exec \in [Workers -> ExecTypes]
      /\ renewals \in [Workers -> SUBSET (0 .. Late)] /\ sweeps \in [Workers -> SUBSET (0 .. Late)]
      /\ orphaned \in Nat /\ deaths \in Nat /\ lost \in 0 .. faults /\ faults \in 0 .. MaxFaults
  BY Types DEF TypeOK
<1>2. ASSUME row' \in RowTypes, process' \in [Workers -> ProcessTypes], exec' \in [Workers -> ExecTypes],
             renewals' \in [Workers -> SUBSET (0 .. Late)], sweeps' \in [Workers -> SUBSET (0 .. Late)],
             orphaned' \in Nat, deaths' \in Nat, lost' \in 0 .. faults', faults' \in 0 .. MaxFaults
      PROVE  TypeOK'
  BY <1>2 DEF TypeOK, RowTypes, ProcessTypes, ExecTypes
<1>3. CASE UNCHANGED vars
  BY <1>1, <1>2, <1>3 DEF vars, history
<1>4. ASSUME NEW w \in Workers, Start(w) \/ SendSweep(w) PROVE TypeOK'
  <2>1. process' \in [Workers -> ProcessTypes]
    BY <1>1, <1>4, Periods DEF Start, SendSweep, ProcessTypes
  <2>2. sweeps' \in [Workers -> SUBSET (0 .. Late)]
    BY <1>1, <1>4, BoundTypes DEF Start, SendSweep
  <2> QED BY <1>1, <1>2, <1>4, <2>1, <2>2 DEF Start, SendSweep, history
<1>11. ASSUME NEW w \in Workers, End(w) \/ Rejected(w)
       PROVE  process' \in [Workers -> ProcessTypes] /\ exec' \in [Workers -> ExecTypes] /\ deaths' \in Nat
  <2>1. CASE End(w)
    <3>1. process' \in [Workers -> ProcessTypes]
      BY <1>1, <2>1, Periods DEF End, ProcessTypes
    <3>2. exec' \in [Workers -> ExecTypes]
      BY <1>1, <2>1, RowsMade DEF End
    <3> QED BY <1>1, <2>1, <3>1, <3>2 DEF End
  <2> QED BY <1>1, <1>11, <2>1 DEF Rejected
<1>12. ASSUME NEW w \in Workers, Die(w) PROVE TypeOK'
  BY <1>1, <1>2, <1>11, <1>12 DEF Die
<1>13. ASSUME NEW w \in Workers, NEW age, SweepFails(w, age) PROVE TypeOK'
  <2>1. sweeps' \in [Workers -> SUBSET (0 .. Late)]
    BY <1>1, <1>13 DEF SweepFails
  <2>2. faults' \in 0 .. MaxFaults /\ lost' \in 0 .. faults'
    BY <1>1, <1>13, BoundTypes DEF SweepFails
  <2> QED BY <1>1, <1>2, <1>11, <1>13, <2>1, <2>2 DEF SweepFails
<1>14. ASSUME NEW w \in Workers, NEW age, RenewalFails(w, age) PROVE TypeOK'
  <2>1. renewals' \in [Workers -> SUBSET (0 .. Late)]
    BY <1>1, <1>14 DEF RenewalFails
  <2>2. faults' \in 0 .. MaxFaults /\ lost' \in 0 .. faults'
    BY <1>1, <1>14, BoundTypes DEF RenewalFails
  <2> QED BY <1>1, <1>2, <1>11, <1>14, <2>1, <2>2 DEF RenewalFails
<1>5. ASSUME NEW w \in Workers, Claim(w) PROVE TypeOK'
  <2>1. row' \in RowTypes
    BY <1>5, RowsMade, Periods DEF Claim, ClaimedLease
  <2>2. exec' \in [Workers -> ExecTypes]
    BY <1>1, <1>5 DEF Claim, ExecTypes
  <2>3. orphaned' \in Nat /\ deaths' \in Nat /\ lost' \in 0 .. faults'
    BY <1>1, <1>5 DEF Claim
  <2> QED BY <1>1, <1>2, <1>5, <2>1, <2>2, <2>3 DEF Claim
<1>6. ASSUME NEW w \in Workers,
             \/ Abandon(w) \/ StartHeartbeat(w) \/ SendRenewal(w) \/ AckFails(w)
             \/ \E pc \in {"acking", "nacking"} : StopHeartbeat(w, pc)
      PROVE  TypeOK'
  <2>1. exec' \in [Workers -> ExecTypes]
    BY <1>1, <1>6, RowsMade, Periods DEF Abandon, StartHeartbeat, SendRenewal, AckFails, StopHeartbeat,
       NextBeat, ExecTypes
  <2>2. renewals' \in [Workers -> SUBSET (0 .. Late)]
    BY <1>1, <1>6, BoundTypes DEF Abandon, StartHeartbeat, SendRenewal, AckFails, StopHeartbeat
  <2>3. faults' \in 0 .. MaxFaults /\ lost' \in 0 .. faults'
    BY <1>1, <1>6, BoundTypes DEF Abandon, StartHeartbeat, SendRenewal, AckFails, StopHeartbeat, history
  <2> QED BY <1>1, <1>2, <1>6, <2>1, <2>2, <2>3
          DEF Abandon, StartHeartbeat, SendRenewal, AckFails, StopHeartbeat, history
<1>7. ASSUME NEW w \in Workers, NEW age, Renew(w, age) PROVE TypeOK'
  <2>1. row' \in RowTypes
    BY <1>1, <1>7, Periods DEF Renew, RowTypes
  <2>2. renewals' \in [Workers -> SUBSET (0 .. Late)]
    BY <1>1, <1>7 DEF Renew
  <2> QED BY <1>1, <1>2, <1>7, <2>1, <2>2 DEF Renew, history
<1>8. ASSUME NEW w \in Workers, NEW status \in {"pending", "settled"}, Settle(w, status) PROVE TypeOK'
  <2>1. row' \in RowTypes /\ exec' \in [Workers -> ExecTypes]
    BY <1>1, <1>8, RowsMade DEF Settle
  <2> QED BY <1>1, <1>2, <1>8, <2>1 DEF Settle, history
<1>9. ASSUME NEW w \in Workers, NEW age, Sweep(w, age) PROVE TypeOK'
  <2>1. row' \in RowTypes
    BY <1>1, <1>9, RowsMade DEF Sweep
  <2>2. sweeps' \in [Workers -> SUBSET (0 .. Late)]
    BY <1>1, <1>9 DEF Sweep
  <2> QED BY <1>1, <1>2, <1>9, <2>1, <2>2 DEF Sweep, history
<1>10. CASE Tick
  <2>1. row' \in RowTypes
    BY <1>1, <1>10, Periods DEF Tick, Down, RowTypes
  <2>2. process' \in [Workers -> ProcessTypes]
    BY <1>1, <1>10, Periods DEF Tick, NothingDue, Up, ProcessTypes
  <2>3. exec' \in [Workers -> ExecTypes]
    <3>1. \A w \in Workers : Waited(exec[w]) \in ExecTypes
      BY <1>1, <1>10 DEF Tick, NothingDue, Waited, ExecTypes
    <3> QED BY <1>10, <3>1 DEF Tick
  <2>4. renewals' \in [Workers -> SUBSET (0 .. Late)]
    <3>1. \A w \in Workers : Older(renewals[w]) \in SUBSET (0 .. Late)
      BY <1>1, <1>10, OlderTypes DEF Tick, NothingDue
    <3> QED BY <1>10, <3>1 DEF Tick
  <2>5. sweeps' \in [Workers -> SUBSET (0 .. Late)]
    <3>1. \A w \in Workers : Older(sweeps[w]) \in SUBSET (0 .. Late)
      BY <1>1, <1>10, OlderTypes DEF Tick, NothingDue
    <3> QED BY <1>10, <3>1 DEF Tick
  <2>6. orphaned' \in Nat
    BY <1>1, <1>10 DEF Tick
  <2> QED BY <1>1, <1>2, <1>10, <2>1, <2>2, <2>3, <2>4, <2>5, <2>6 DEF Tick
<1> QED BY <1>3, <1>4, <1>5, <1>6, <1>7, <1>8, <1>9, <1>10, <1>12, <1>13, <1>14 DEF Next

\* The variables keep their types; no renewal and no sweep is later than it may be.
THEOREM TypeCorrect == Spec => []TypeOK
BY InitLease, StepType, PTL DEF Spec, LeaseInv

-----------------------------------------------------------------------------
(* Leases. *)

\* A renewal on its way stays on its way, a tick older, until it takes effect.
LEMMA OlderKeeps ==
  ASSUME NEW ages, NEW age \in ages
  PROVE  age + 1 \in Older(ages)
BY DEF Older

LEMMA StepIdle == ASSUME LeaseInv, [Next]_vars PROVE Idle'
<1>1. /\ process \in [Workers -> ProcessTypes] /\ exec \in [Workers -> ExecTypes]
      /\ \A v \in Workers : ~ Up(v) => exec[v].pc = "none"
  BY Types DEF LeaseInv, Idle
<1>2. ASSUME \A v \in Workers : (Up(v) => Up(v)') /\ (exec'[v].pc = "none" \/ exec[v].pc # "none")
      PROVE  Idle'
  BY <1>1, <1>2 DEF Idle
<1>3. CASE UNCHANGED <<process, exec>>
  BY <1>2, <1>3 DEF Up
<1>4. ASSUME NEW w \in Workers, Start(w) \/ SendSweep(w) PROVE Idle'
  <2>1. exec' = exec /\ \A v \in Workers : Up(v) => Up(v)'
    BY <1>1, <1>4 DEF Start, SendSweep, Up, ProcessTypes
  <2> QED BY <1>2, <2>1
<1>5. ASSUME NEW w \in Workers, End(w) PROVE Idle'
  <2>1. /\ exec'[w].pc = "none"
        /\ \A v \in Workers \ {w} : exec'[v] = exec[v] /\ process'[v] = process[v]
    BY <1>1, <1>5 DEF End, NoExec
  <2> QED BY <1>1, <2>1 DEF Idle, Up
<1>6. ASSUME NEW w \in Workers, Die(w) \/ \E age \in 0 .. Late : SweepFails(w, age) \/ RenewalFails(w, age)
      PROVE  Idle'
  BY <1>3, <1>5, <1>6 DEF Die, SweepFails, RenewalFails, Rejected
<1>7. ASSUME NEW w \in Workers, Claim(w) PROVE Idle'
  <2>1. Up(w)' /\ process' = process /\ \A v \in Workers \ {w} : exec'[v] = exec[v]
    BY <1>1, <1>7 DEF Claim, Up
  <2> QED BY <1>1, <2>1 DEF Idle, Up
<1>8. ASSUME NEW w \in Workers,
             \/ Abandon(w) \/ StartHeartbeat(w) \/ SendRenewal(w) \/ AckFails(w)
             \/ \E pc \in {"acking", "nacking"} : StopHeartbeat(w, pc)
             \/ \E status \in {"pending", "settled"} : Settle(w, status)
      PROVE  Idle'
  <2>1. process' = process /\ exec[w].pc # "none" /\ \A v \in Workers \ {w} : exec'[v] = exec[v]
    BY <1>1, <1>8 DEF Abandon, StartHeartbeat, SendRenewal, AckFails, StopHeartbeat, Settle
  <2> QED BY <1>1, <2>1 DEF Idle, Up
<1>9. CASE Tick
  <2>1. \A v \in Workers : exec'[v].pc = exec[v].pc
    <3>1. \A v \in Workers : exec'[v] = Waited(exec[v])
      BY <1>9 DEF Tick
    <3> QED BY <1>1, <3>1 DEF Waited, ExecTypes
  <2>2. \A v \in Workers : process'[v].life = process[v].life
    BY <1>1, <1>9 DEF Tick, ProcessTypes
  <2> QED BY <1>2, <2>1, <2>2 DEF Up
<1>10. ASSUME NEW w \in Workers, NEW age, Sweep(w, age) \/ Renew(w, age) PROVE Idle'
  BY <1>3, <1>10 DEF Sweep, Renew
<1> QED BY <1>3, <1>4, <1>6, <1>7, <1>8, <1>9, <1>10 DEF Next, vars

LEMMA TickLease ==
  ASSUME LeaseInv, TypeOK', Idle', Tick
  PROVE  LeaseInv'
<1>1. /\ row \in RowTypes /\ exec \in [Workers -> ExecTypes]
      /\ renewals \in [Workers -> SUBSET (0 .. Late)] /\ row.left \in Nat
  BY Types DEF LeaseInv
<1>2. /\ row'.status = row.status /\ row'.worker = row.worker
      /\ row'.left \in Nat /\ row'.left >= row.left - 1
  BY <1>1 DEF Tick, Down, RowTypes
<1>3. ASSUME NEW w \in Workers
      PROVE  /\ exec'[w].pc = exec[w].pc
             /\ exec[w].pc = "none" => exec'[w].ticks = exec[w].ticks
             /\ exec[w].pc = "working" => exec'[w].ticks = exec[w].ticks - 1 /\ exec[w].ticks > 0
             /\ exec[w].pc \in {"claimed", "acking", "nacking"} =>
                  exec'[w].ticks = exec[w].ticks + 1 /\ exec[w].ticks < Late
             /\ exec[w].pc \in {"none", "claimed", "working", "acking", "nacking"}
             /\ exec[w].ticks \in Nat
  <2>1. exec'[w] = Waited(exec[w])
    BY DEF Tick
  <2> QED BY <1>1, <2>1 DEF Tick, NothingDue, Waited, ExecTypes
<1>4. Punctual'
  <2> SUFFICES ASSUME NEW w \in Workers
               PROVE  exec'[w].ticks <= IF exec'[w].pc = "working" THEN Beat ELSE Late
    BY DEF Punctual
  <2>1. exec[w].ticks <= IF exec[w].pc = "working" THEN Beat ELSE Late
    BY DEF LeaseInv, Punctual
  <2> QED BY <1>3, <2>1, Periods, BoundTypes
<1>5. Owned'
  BY <1>2, <1>3 DEF LeaseInv, Owned
<1>6. Covered'
  <2> SUFFICES ASSUME NEW w \in Workers, exec'[w].pc # "none"
               PROVE  \/ row'.left + Gone(exec'[w]) >= Lease
                      \/ \E age \in renewals'[w] : row'.left + Late + Beat + age >= Lease
    BY DEF Covered, Gone
  <2>1. exec[w].pc # "none"
    BY <1>3
  <2>2. CASE row.left + Gone(exec[w]) >= Lease
    <3>1. Gone(exec'[w]) = Gone(exec[w]) + 1 /\ Gone(exec[w]) \in Int
      BY <1>3, <2>1, Periods, BoundTypes DEF Gone
    <3> QED BY <1>1, <1>2, <2>2, <3>1, Periods
  <2>3. CASE \E age \in renewals[w] : row.left + Late + Beat + age >= Lease
    <3>1. PICK age \in renewals[w] : row.left + Late + Beat + age >= Lease
      BY <2>3
    <3>2. age \in Int /\ age + 1 \in renewals'[w]
      BY <1>1, OlderKeeps DEF Tick
    <3>3. row'.left + Late + Beat + (age + 1) >= Lease
      BY <1>1, <1>2, <3>1, <3>2, Periods, BoundTypes
    <3> QED BY <3>2, <3>3
  <2> QED BY <2>1, <2>2, <2>3 DEF LeaseInv, Covered
<1> QED BY <1>4, <1>5, <1>6 DEF LeaseInv

LEMMA StepLease == LeaseInv /\ [Next]_vars => LeaseInv'
<1> SUFFICES ASSUME LeaseInv, [Next]_vars PROVE LeaseInv'
  OBVIOUS
<1>1. /\ TypeOK /\ TypeOK' /\ Idle' /\ row \in RowTypes /\ exec \in [Workers -> ExecTypes]
      /\ renewals \in [Workers -> SUBSET (0 .. Late)] /\ row.left \in Nat
  BY StepType, StepIdle, Types DEF LeaseInv
<1>2. LeaseHolds
  BY CoveredHolds
<1>3. CASE UNCHANGED <<row, exec, renewals>>
  BY <1>1, <1>3 DEF LeaseInv, Punctual, Owned, Covered
\* A step of one execution that leaves the row alone and sends at most a renewal.
<1>4. ASSUME NEW w \in Workers, row' = row,
             \A v \in Workers \ {w} : exec'[v] = exec[v] /\ renewals'[v] = renewals[v],
             renewals[w] \subseteq renewals'[w],
             exec'[w].ticks <= IF exec'[w].pc = "working" THEN Beat ELSE Late,
             exec'[w].pc # "none" => exec[w].pc # "none",
             exec'[w].pc # "none" /\ row.left + Gone(exec[w]) >= Lease =>
               \/ Gone(exec'[w]) >= Gone(exec[w]) /\ Gone(exec'[w]) \in Int /\ Gone(exec[w]) \in Int
               \/ \E age \in renewals'[w] : row'.left + Late + Beat + age >= Lease
      PROVE  LeaseInv'
  <2>1. Punctual'
    BY <1>4 DEF LeaseInv, Punctual
  <2>2. Owned'
    BY <1>4 DEF LeaseInv, Owned
  <2>3. Covered'
    <3> SUFFICES ASSUME NEW v \in Workers, exec'[v].pc # "none"
                 PROVE  \/ row'.left + Gone(exec'[v]) >= Lease
                        \/ \E age \in renewals'[v] : row'.left + Late + Beat + age >= Lease
      BY DEF Covered, Gone
    <3>1. CASE v # w
      BY <1>4, <3>1 DEF LeaseInv, Covered
    <3>2. CASE v = w /\ row.left + Gone(exec[w]) >= Lease
      BY <1>1, <1>4, <3>2, Periods
    <3>3. CASE v = w /\ \E age \in renewals[w] : row.left + Late + Beat + age >= Lease
      BY <1>4, <3>3
    <3> QED BY <1>4, <3>1, <3>2, <3>3 DEF LeaseInv, Covered
  <2> QED BY <1>1, <2>1, <2>2, <2>3 DEF LeaseInv
\* What a step of one execution needs to know of it.
<1>5. ASSUME NEW w \in Workers
      PROVE  /\ exec[w].pc \in {"none", "claimed", "working", "acking", "nacking"}
             /\ exec[w].ticks \in Nat
             /\ exec[w].ticks <= IF exec[w].pc = "working" THEN Beat ELSE Late
  BY <1>1 DEF ExecTypes, LeaseInv, Punctual
<1>6. ASSUME NEW w \in Workers, row' = row, renewals' = renewals,
             exec' = [exec EXCEPT ![w] = NoExec]
      PROVE  LeaseInv'
  <2>1. exec'[w] = NoExec /\ \A v \in Workers \ {w} : exec'[v] = exec[v]
    BY <1>1, <1>6
  <2> QED BY <1>4, <1>6, <2>1, BoundTypes DEF NoExec
<1>7. ASSUME NEW w \in Workers,
             \/ StartHeartbeat(w) \/ AckFails(w)
             \/ \E pc \in {"acking", "nacking"} : StopHeartbeat(w, pc)
      PROVE  LeaseInv'
  <2>1. row' = row /\ renewals' = renewals /\ \A v \in Workers \ {w} : exec'[v] = exec[v]
    BY <1>1, <1>7 DEF StartHeartbeat, AckFails, StopHeartbeat
  <2>2. \/ /\ exec[w].pc = "claimed"
           /\ exec'[w].pc = "working" /\ exec'[w].ticks = Beat
        \/ /\ exec[w].pc = "acking"
           /\ exec'[w].pc = "nacking" /\ exec'[w].ticks = 0
        \/ /\ exec[w].pc = "working"
           /\ exec'[w].pc \in {"acking", "nacking"} /\ exec'[w].ticks = 0
    BY <1>1, <1>7 DEF StartHeartbeat, AckFails, StopHeartbeat, NextBeat
  <2>3. Gone(exec'[w]) >= Gone(exec[w]) /\ Gone(exec'[w]) \in Int /\ Gone(exec[w]) \in Int
    BY <1>5, <2>2, Periods, BoundTypes DEF Gone
  <2>4. exec'[w].ticks <= IF exec'[w].pc = "working" THEN Beat ELSE Late
    BY <2>2, Periods, BoundTypes
  <2> QED BY <1>4, <2>1, <2>2, <2>3, <2>4
<1>8. ASSUME NEW w \in Workers, SendRenewal(w) PROVE LeaseInv'
  <2>1. /\ row' = row
        /\ \A v \in Workers \ {w} : exec'[v] = exec[v] /\ renewals'[v] = renewals[v]
        /\ renewals'[w] = renewals[w] \cup {0}
        /\ exec[w].pc = "working" /\ exec[w].ticks = 0
        /\ exec'[w].pc = "working" /\ exec'[w].ticks = Beat
    BY <1>1, <1>8 DEF SendRenewal, NextBeat, ExecTypes
  <2>2. row.left + Gone(exec[w]) >= Lease =>
          \E age \in renewals'[w] : row'.left + Late + Beat + age >= Lease
    <3>1. Gone(exec[w]) = Late + Beat
      BY <2>1, Periods, BoundTypes DEF Gone
    <3>2. row.left + Gone(exec[w]) >= Lease => row'.left + Late + Beat + 0 >= Lease
      BY <1>1, <2>1, <3>1, Periods, BoundTypes
    <3> QED BY <2>1, <3>2
  <2>3. exec'[w].ticks <= IF exec'[w].pc = "working" THEN Beat ELSE Late
    BY <2>1, Periods
  <2>4. exec[w].pc # "none" /\ renewals[w] \subseteq renewals'[w]
    BY <2>1
  <2> QED BY <1>4, <2>1, <2>2, <2>3, <2>4
<1>9. ASSUME NEW w \in Workers, NEW age, Renew(w, age) PROVE LeaseInv'
  <2>1. exec' = exec /\ \A v \in Workers \ {w} : renewals'[v] = renewals[v]
    BY <1>1, <1>9 DEF Renew
  <2>2. CASE \E v \in Workers : v = w /\ row.status = "running" /\ row.worker = w
    <3>1. row'.status = row.status /\ row'.worker = row.worker /\ row'.left = Lease
      BY <1>1, <1>9, <2>2 DEF Renew, RowTypes
    <3>2. \A v \in Workers : exec[v].pc # "none" => row'.left + Gone(exec'[v]) >= Lease
      BY <1>5, <2>1, <3>1, Periods, BoundTypes DEF Gone
    <3> QED BY <1>1, <2>1, <3>1, <3>2 DEF LeaseInv, Punctual, Owned, Covered
  <2>3. CASE ~ (row.status = "running" /\ row.worker = w)
    <3>1. row' = row /\ exec[w].pc = "none"
      BY <1>9, <2>3 DEF Renew, LeaseInv, Owned
    <3> QED BY <1>1, <2>1, <3>1 DEF LeaseInv, Punctual, Owned, Covered
  <2> QED BY <2>2, <2>3
<1>10. ASSUME NEW w \in Workers, Claim(w) PROVE LeaseInv'
  <2>1. \A v \in Workers : exec[v].pc = "none"
    BY <1>10 DEF Claim, LeaseInv, Owned
  <2>2. /\ row'.status = "running" /\ row'.worker = w /\ row'.left = Lease
        /\ exec'[w].pc = "claimed" /\ exec'[w].ticks = 0
        /\ \A v \in Workers \ {w} : exec'[v] = exec[v]
    BY <1>1, <1>10 DEF Claim, ClaimedLease
  <2>3. row'.left + Gone(exec'[w]) >= Lease
    BY <2>2, Periods DEF Gone
  <2>4. Punctual'
    BY <2>2, BoundTypes DEF LeaseInv, Punctual
  <2>5. Owned' /\ Covered'
    BY <2>1, <2>2, <2>3 DEF Owned, Covered
  <2> QED BY <1>1, <2>4, <2>5 DEF LeaseInv
<1>11. ASSUME NEW w \in Workers, NEW status \in {"pending", "settled"}, Settle(w, status) PROVE LeaseInv'
  <2>1. /\ row.worker = w /\ \A v \in Workers \ {w} : exec[v].pc = "none"
        /\ exec'[w] = NoExec /\ \A v \in Workers \ {w} : exec'[v] = exec[v]
    BY <1>1, <1>11 DEF Settle, LeaseInv, Owned
  <2>2. \A v \in Workers : exec'[v].pc = "none"
    BY <2>1 DEF NoExec
  <2>3. Punctual'
    BY <2>1, BoundTypes DEF NoExec, LeaseInv, Punctual
  <2> QED BY <1>1, <2>2, <2>3 DEF LeaseInv, Owned, Covered
<1>12. ASSUME NEW w \in Workers, NEW age, Sweep(w, age) PROVE LeaseInv'
  <2>1. CASE row' = row
    BY <1>3, <1>12, <2>1 DEF Sweep
  <2>2. CASE row.left = 0
    <3>1. \A v \in Workers : exec[v].pc = "none"
      BY <1>2, <2>2 DEF LeaseHolds
    <3> QED BY <1>1, <1>12, <3>1 DEF Sweep, LeaseInv, Punctual, Owned, Covered
  <2> QED BY <1>12, <2>1, <2>2 DEF Sweep
<1>13. ASSUME NEW w \in Workers, Start(w) \/ SendSweep(w) PROVE LeaseInv'
  BY <1>3, <1>13 DEF Start, SendSweep
<1>14. ASSUME NEW w \in Workers,
              Die(w) \/ Abandon(w) \/ (\E age \in 0 .. Late : SweepFails(w, age))
       PROVE  LeaseInv'
  BY <1>3, <1>6, <1>14 DEF Die, End, Abandon, SweepFails, Rejected
\* The execution whose renewal failed ends with its process.
<1>16. ASSUME NEW w \in Workers, NEW age, RenewalFails(w, age) PROVE LeaseInv'
  <2>1. row' = row /\ \A v \in Workers \ {w} : renewals'[v] = renewals[v]
    BY <1>1, <1>16 DEF RenewalFails
  <2>2. exec'[w].pc = "none" /\ exec'[w].ticks <= Late /\ \A v \in Workers \ {w} : exec'[v] = exec[v]
    <3>1. CASE End(w)
      BY <1>1, <3>1, BoundTypes DEF End, NoExec
    <3>2. CASE ~ Up(w) /\ exec' = exec
      BY <1>5, <3>2 DEF LeaseInv, Idle
    <3> QED BY <1>16, <3>1, <3>2 DEF RenewalFails, Rejected
  <2>3. Punctual'
    BY <2>2 DEF LeaseInv, Punctual
  <2>4. Owned' /\ Covered'
    BY <2>1, <2>2 DEF LeaseInv, Owned, Covered
  <2> QED BY <1>1, <2>3, <2>4 DEF LeaseInv
<1>15. CASE Tick
  BY <1>1, <1>15, TickLease
<1> QED BY <1>3, <1>7, <1>8, <1>9, <1>10, <1>11, <1>12, <1>13, <1>14, <1>15, <1>16 DEF Next, vars

\* Whoever executes the job has it and its lease is good until the ack or nack
\* takes effect (claimer.ts:16, executor.ts:15, 33, leaser.ts:12, 32-37), for any
\* periods with Beat + 3 * Late < Lease and any number of workers.
THEOREM LeaseAlwaysHolds == Spec => []LeaseHolds
BY InitLease, StepLease, CoveredHolds, PTL DEF Spec

-----------------------------------------------------------------------------
(* Recovery. *)

\* Before that an orphaned job is taken back.
LatestSweep == Lease + 2 * Late + Interval * (1 + deaths) + Late * lost

\* A job that is running was claimed by a process, and the last one does not die.
SomeoneUp == row.status = "running" => \E w \in Workers : Up(w)

\* The history counts from the moment the execution is gone.
Executed == \A w \in Workers : exec[w].pc # "none" => orphaned = 0

\* A renewal on its way is older than the orphan, so the lease is granted for the
\* last time while the orphan is not older than Late.
LastLease ==
  Orphaned =>
    /\ \A w \in Workers : row.worker = w => \A age \in renewals[w] : orphaned <= age
    /\ row.left > 0 => orphaned + row.left <= Lease + Late

\* The end of a process was counted, if its sweep is still on its way and will
\* take the job back.
Counted(w) == IF Up(w) THEN 0 ELSE Interval

\* The sweep that will take back a job without a lease: on its way, or the next
\* of a process that is up.
Recovering ==
  Orphaned /\ row.left = 0 =>
    \/ \E w \in Workers : \E age \in sweeps[w] : orphaned + Late - age + Counted(w) < LatestSweep
    \/ \E w \in Workers : Up(w) /\ orphaned + process[w].next + Late < LatestSweep

RecoveryInv == LeaseInv /\ SomeoneUp /\ Executed /\ LastLease /\ Recovering /\ RecoveredInTime

LEMMA LatestType ==
  ASSUME NEW d \in Nat, NEW n \in Nat
  PROVE  /\ Lease + 2 * Late + Interval * (1 + d) + Late * n \in Int
         /\ Lease + 2 * Late + Interval * (1 + d) + Late * n >= Lease + 2 * Late + Interval
<1>1. Interval * d \in Nat /\ Interval * (1 + d) = Interval + Interval * d
  BY Periods
<1>2. Late * n \in Nat
  BY BoundTypes
<1> QED BY <1>1, <1>2, Periods, BoundTypes

\* A process that ends puts the latest sweep off by an interval, a sweep that
\* fails by what it took.
LEMMA PutOff ==
  ASSUME deaths \in Nat, lost \in Nat, deaths' \in {deaths, deaths + 1}, lost' \in {lost, lost + 1}
  PROVE  /\ LatestSweep \in Int /\ LatestSweep >= Lease + 2 * Late + Interval
         /\ LatestSweep' = LatestSweep + (IF deaths' = deaths THEN 0 ELSE Interval)
                                       + (IF lost' = lost THEN 0 ELSE Late)
<1>1. LatestSweep \in Int /\ LatestSweep >= Lease + 2 * Late + Interval
  BY LatestType DEF LatestSweep
<1>2. ASSUME NEW k \in Nat, NEW d \in Nat
      PROVE  k * d \in Int /\ k * (1 + d) \in Int /\ k * (1 + (d + 1)) = k * (1 + d) + k /\ k * (d + 1) = k * d + k
  OBVIOUS
<1>3. /\ Interval * (1 + deaths) \in Int
      /\ Interval * (1 + (deaths + 1)) = Interval * (1 + deaths) + Interval
  BY <1>2, Periods
<1>4. /\ Late * lost \in Int
      /\ Late * (lost + 1) = Late * lost + Late
  BY <1>2, BoundTypes
<1>5. \A intervals, lates \in Int :
        /\ Lease + 2 * Late + (intervals + Interval) + lates = Lease + 2 * Late + intervals + lates + Interval
        /\ Lease + 2 * Late + intervals + (lates + Late) = Lease + 2 * Late + intervals + lates + Late
        /\ Lease + 2 * Late + (intervals + Interval) + (lates + Late)
             = Lease + 2 * Late + intervals + lates + Interval + Late
        /\ Lease + 2 * Late + intervals + lates \in Int
  BY Periods, BoundTypes
<1>6. CASE deaths' = deaths /\ lost' = lost
  BY <1>1, <1>6 DEF LatestSweep
<1>7. CASE deaths' = deaths + 1 /\ lost' = lost
  <2>1. LatestSweep' = LatestSweep + Interval
    BY <1>3, <1>4, <1>5, <1>7 DEF LatestSweep
  <2> QED BY <1>1, <1>7, <2>1, Periods
<1>8. CASE deaths' = deaths /\ lost' = lost + 1
  <2>1. LatestSweep' = LatestSweep + Late
    BY <1>3, <1>4, <1>5, <1>8 DEF LatestSweep
  <2> QED BY <1>1, <1>8, <2>1, BoundTypes
<1>9. CASE deaths' = deaths + 1 /\ lost' = lost + 1
  <2>1. LatestSweep' = LatestSweep + Interval + Late
    BY <1>3, <1>4, <1>5, <1>9 DEF LatestSweep
  <2> QED BY <1>1, <1>9, <2>1, Periods, BoundTypes
<1> QED BY <1>6, <1>7, <1>8, <1>9

\* No process ends and no sweep fails.
LEMMA NotPutOff ==
  ASSUME TypeOK, UNCHANGED <<deaths, lost>>
  PROVE  LatestSweep' = LatestSweep /\ LatestSweep \in Int /\ LatestSweep >= Lease + 2 * Late + Interval
BY Types, PutOff DEF LatestSweep

\* Who has the job and executes it has a lease, and no history.
LEMMA NotOrphaned ==
  ASSUME RecoveryInv, row.status = "running", ~ Orphaned
  PROVE  orphaned = 0 /\ row.left > 0
<1>1. PICK w \in Workers : row.worker = w /\ exec[w].pc # "none"
  BY DEF Orphaned
<1> QED BY <1>1, CoveredHolds DEF RecoveryInv, LeaseHolds, Executed

LEMMA InitRecovery == Init => RecoveryInv
<1> SUFFICES ASSUME Init PROVE RecoveryInv
  OBVIOUS
<1>1. LeaseInv
  BY InitLease
<1>2. ~ Orphaned /\ row.status # "running"
  BY DEF Init, Free, Orphaned
<1>3. RecoveredInTime
  <2>1. orphaned = 0 /\ deaths \in Nat /\ lost \in Nat
    BY DEF Init
  <2> QED BY <2>1, LatestType, Periods, BoundTypes DEF RecoveredInTime
<1> QED BY <1>1, <1>2, <1>3 DEF Init, RecoveryInv, SomeoneUp, Executed, LastLease, Recovering

\* The job is not orphaned after the step: nobody ended, or the history is over.
LEMMA NotOrphanedThen ==
  ASSUME RecoveryInv, LeaseInv', ~ Orphaned',
         \/ orphaned' = 0
         \/ UNCHANGED history /\ \A w \in Workers : exec'[w].pc # "none" => exec[w].pc # "none",
         SomeoneUp'
  PROVE  RecoveryInv'
<1>1. Executed'
  BY DEF RecoveryInv, Executed, history
<1>2. RecoveredInTime'
  <2>1. CASE orphaned' = 0
    <3>1. deaths' \in Nat /\ lost' \in Nat
      BY BoundTypes DEF LeaseInv, TypeOK
    <3>2. \A latest \in Int : latest >= Lease + 2 * Late + Interval => 0 < latest
      BY Timely, Periods, BoundTypes
    <3>3. 0 < Lease + 2 * Late + Interval * (1 + deaths') + Late * lost'
      BY <3>1, <3>2, LatestType
    <3> QED BY <2>1, <3>3 DEF RecoveredInTime
  <2>2. CASE UNCHANGED history
    BY <2>2 DEF RecoveryInv, RecoveredInTime, history
  <2> QED BY <2>1, <2>2
<1> QED BY <1>1, <1>2 DEF RecoveryInv, LastLease, Recovering

\* The job is as orphaned as it was, or an execution ended and left it so.
LEMMA OrphanedThen ==
  ASSUME RecoveryInv, LeaseInv', row' = row, UNCHANGED history,
         \A w \in Workers : exec'[w].pc # "none" => exec[w].pc # "none",
         \A w \in Workers : renewals'[w] \subseteq renewals[w] \/ exec'[w].pc # "none",
         \A w \in Workers : Up(w) => Up(w)',
         Recovering => \/ UNCHANGED <<process, sweeps>>
                       \/ Recovering' \/ ~ Orphaned
  PROVE  RecoveryInv'
<1>1. SomeoneUp'
  BY DEF RecoveryInv, SomeoneUp
<1>2. Executed'
  BY DEF RecoveryInv, Executed, history
<1>3. LatestSweep' = LatestSweep /\ orphaned' = orphaned
  BY DEF LatestSweep, history
<1>4. RecoveredInTime'
  BY DEF RecoveryInv, RecoveredInTime, history
<1>5. CASE ~ Orphaned'
  BY <1>1, <1>2, <1>4, <1>5 DEF RecoveryInv, LastLease, Recovering
<1>6. CASE Orphaned /\ Orphaned'
  <2>1. LastLease'
    BY <1>3, <1>6 DEF RecoveryInv, LastLease, Orphaned
  <2>2. Recovering'
    BY <1>3, <1>6 DEF RecoveryInv, Recovering, Counted, Up
  <2> QED BY <1>1, <1>2, <1>4, <2>1, <2>2 DEF RecoveryInv
<1>7. CASE ~ Orphaned /\ Orphaned'
  <2>1. orphaned = 0 /\ row.left > 0
    BY <1>7, NotOrphaned DEF Orphaned
  <2>2. /\ row.left \in Nat /\ row.left <= Lease
        /\ \A w \in Workers : \A age \in renewals[w] : age \in Nat
        /\ \A w \in Workers : row.worker = w => exec'[w].pc = "none"
    BY <1>7, Types DEF RecoveryInv, LeaseInv, Orphaned
  <2>3. LastLease'
    BY <1>3, <2>1, <2>2, Periods, BoundTypes DEF LastLease
  <2>4. Recovering'
    BY <2>1, Periods DEF Recovering
  <2> QED BY <1>1, <1>2, <1>4, <2>3, <2>4 DEF RecoveryInv
<1> QED BY <1>5, <1>6, <1>7

\* A process ends, or a statement that it sent fails.
LEMMA EndRecovery ==
  ASSUME RecoveryInv, LeaseInv', NEW w \in Workers,
         Die(w) \/ \E age \in 0 .. Late : SweepFails(w, age) \/ RenewalFails(w, age)
  PROVE  RecoveryInv'
<1>1. /\ process \in [Workers -> ProcessTypes] /\ exec \in [Workers -> ExecTypes]
      /\ renewals \in [Workers -> SUBSET (0 .. Late)] /\ sweeps \in [Workers -> SUBSET (0 .. Late)]
      /\ orphaned \in Nat /\ row.left \in Nat /\ row.left <= Lease /\ deaths \in Nat /\ lost \in Nat
  BY Types DEF RecoveryInv, LeaseInv
<1>2. End(w) \/ (~ Up(w) /\ UNCHANGED <<process, exec, deaths>>)
  BY DEF Die, SweepFails, RenewalFails, Rejected
<1>3. /\ row' = row /\ orphaned' = orphaned
      /\ \A v \in Workers : renewals'[v] \subseteq renewals[v]
      /\ \A v \in Workers \ {w} : sweeps'[v] = sweeps[v]
      /\ sweeps'[w] = sweeps[w] \/ (Orphaned => lost' = lost + 1)
      /\ lost' \in {lost, lost + 1}
  BY <1>1 DEF Die, SweepFails, RenewalFails, history
<1>4. /\ ~ Up(w)' /\ \A v \in Workers \ {w} : process'[v] = process[v]
      /\ \A v \in Workers : exec'[v].pc # "none" => exec[v].pc # "none"
      /\ \A v \in Workers : exec[v].pc = "none" => exec'[v].pc = "none"
      /\ deaths' \in {deaths, deaths + 1}
      /\ Up(w) /\ Orphaned => deaths' = deaths + 1
  <2>1. CASE End(w)
    <3>1. /\ process'[w].life = "dead" /\ \A v \in Workers \ {w} : process'[v] = process[v]
          /\ exec'[w] = NoExec /\ \A v \in Workers \ {w} : exec'[v] = exec[v]
          /\ deaths' = IF Orphaned THEN deaths + 1 ELSE deaths
      BY <1>1, <2>1 DEF End
    <3> QED BY <3>1 DEF Up, NoExec
  <2>2. CASE ~ Up(w) /\ UNCHANGED <<process, exec, deaths>>
    BY <2>2 DEF Up
  <2> QED BY <1>2, <2>1, <2>2
<1>5. /\ LatestSweep \in Int /\ LatestSweep >= Lease + 2 * Late + Interval
      /\ LatestSweep' = LatestSweep + (IF deaths' = deaths THEN 0 ELSE Interval)
                                    + (IF lost' = lost THEN 0 ELSE Late)
  BY <1>1, <1>3, <1>4, PutOff
<1>6. orphaned < LatestSweep
  BY DEF RecoveryInv, RecoveredInTime, LatestSweep
<1>7. RecoveredInTime'
  <2>1. orphaned' < LatestSweep'
    BY <1>1, <1>3, <1>5, <1>6, Periods, BoundTypes
  <2> QED BY <2>1 DEF RecoveredInTime, LatestSweep
\* A process that stays up.
<1>8. row.status = "running" => \E u \in Workers \ {w} : Up(u) /\ Up(u)'
  <2> SUFFICES ASSUME row.status = "running" PROVE \E u \in Workers \ {w} : Up(u)
    BY <1>4 DEF Up
  <2> QED BY <1>2 DEF End, RecoveryInv, SomeoneUp
<1>9. SomeoneUp' /\ Executed'
  BY <1>3, <1>4, <1>8 DEF SomeoneUp, RecoveryInv, Executed
<1>10. CASE row.status # "running"
  BY <1>3, <1>7, <1>9, <1>10 DEF RecoveryInv, LastLease, Recovering, Orphaned
<1>11. CASE row.status = "running" /\ ~ Orphaned
  <2>1. orphaned = 0 /\ row.left > 0
    BY <1>11, NotOrphaned
  <2>2. \A v \in Workers : \A age \in renewals[v] : age \in Nat
    BY <1>1
  <2>3. LastLease' /\ Recovering'
    BY <1>1, <1>3, <2>1, <2>2, Periods, BoundTypes DEF LastLease, Recovering
  <2> QED BY <1>7, <1>9, <2>3 DEF RecoveryInv
<1>12. CASE Orphaned
  <2>1. LastLease'
    BY <1>3, <1>12 DEF RecoveryInv, LastLease
  <2>2. Recovering'
    <3> SUFFICES ASSUME row.left = 0
                 PROVE  \/ \E v \in Workers : \E age \in sweeps'[v] :
                              orphaned' + Late - age + Counted(v)' < LatestSweep'
                        \/ \E v \in Workers : Up(v)' /\ orphaned' + process'[v].next + Late < LatestSweep'
      BY <1>3 DEF Recovering
    <3>1. PICK u \in Workers \ {w} : Up(u)'
      BY <1>8, <1>12 DEF Orphaned
    <3>2. process'[u].next \in Nat /\ process'[u].next <= Interval
      BY <1>1, <1>4, <3>1, Periods DEF ProcessTypes
    \* That is in time, if its next sweep is an interval away at most.
    <3>3. CASE orphaned + Interval + Late < LatestSweep'
      BY <1>1, <1>3, <1>5, <3>1, <3>2, <3>3, Periods, BoundTypes
    <3>4. CASE \E v \in Workers : Up(v) /\ orphaned + process[v].next + Late < LatestSweep
      <4>1. PICK v \in Workers : Up(v) /\ orphaned + process[v].next + Late < LatestSweep
        BY <3>4
      <4>2. process[v].next \in Nat
        BY <1>1, <4>1 DEF ProcessTypes
      <4>3. CASE v = w
        <5>1. LatestSweep' >= LatestSweep + Interval
          BY <1>1, <1>4, <1>5, <1>12, <4>1, <4>3, Periods, BoundTypes
        <5>2. orphaned + Interval + Late < LatestSweep'
          BY <1>1, <1>5, <4>1, <4>2, <5>1, Periods, BoundTypes
        <5> QED BY <3>3, <5>2
      <4>4. CASE v # w
        <5>1. process'[v] = process[v] /\ Up(v)'
          BY <1>4, <4>1, <4>4 DEF Up
        <5>2. orphaned' + process'[v].next + Late < LatestSweep'
          BY <1>1, <1>3, <1>5, <4>1, <4>2, <5>1, Periods, BoundTypes
        <5> QED BY <5>1, <5>2
      <4> QED BY <4>3, <4>4
    <3>5. CASE \E v \in Workers : \E age \in sweeps[v] : orphaned + Late - age + Counted(v) < LatestSweep
      <4>1. PICK v \in Workers : \E age \in sweeps[v] : orphaned + Late - age + Counted(v) < LatestSweep
        BY <3>5
      <4>2. PICK age \in sweeps[v] : orphaned + Late - age + Counted(v) < LatestSweep
        BY <4>1
      <4>3. age \in Nat /\ age <= Late
        BY <1>1, <4>2, BoundTypes
      \* Whether it ended now or before.
      <4>4. ASSUME v = w PROVE orphaned + Late - age + Interval < LatestSweep + (IF deaths' = deaths THEN 0 ELSE Interval)
        <5>1. CASE Up(w)
          <6>1. Counted(v) = 0 /\ deaths' = deaths + 1
            BY <1>4, <1>12, <4>4, <5>1 DEF Counted
          <6> QED BY <1>1, <1>5, <4>2, <4>3, <6>1, Periods, BoundTypes
        <5>2. CASE ~ Up(w)
          <6>1. Counted(v) = Interval
            BY <4>4, <5>2 DEF Counted
          <6> QED BY <1>1, <1>4, <1>5, <4>2, <4>3, <6>1, Periods, BoundTypes
        <5> QED BY <5>1, <5>2
      <4>5. CASE v = w /\ sweeps'[w] = sweeps[w]
        <5>1. Counted(v)' = Interval
          BY <1>4, <4>5 DEF Counted
        <5>2. orphaned' + Late - age + Counted(v)' < LatestSweep'
          BY <1>1, <1>3, <1>5, <4>3, <4>4, <4>5, <5>1, Periods, BoundTypes
        <5> QED BY <4>2, <4>5, <5>2
      <4>6. CASE v = w /\ lost' = lost + 1
        <5>1. orphaned + Interval + Late < LatestSweep'
          BY <1>1, <1>5, <4>3, <4>4, <4>6, Periods, BoundTypes
        <5> QED BY <3>3, <5>1
      <4>7. CASE v # w
        <5>1. Counted(v)' = Counted(v) /\ sweeps'[v] = sweeps[v] /\ Counted(v) \in Int
          BY <1>3, <1>4, <4>7, Periods DEF Counted, Up
        <5>2. orphaned' + Late - age + Counted(v)' < LatestSweep'
          BY <1>1, <1>3, <1>5, <4>2, <4>3, <5>1, Periods, BoundTypes
        <5> QED BY <4>2, <5>1, <5>2
      <4> QED BY <1>3, <1>12, <4>5, <4>6, <4>7
    <3> QED BY <1>12, <3>4, <3>5 DEF RecoveryInv, Recovering
  <2> QED BY <1>7, <1>9, <2>1, <2>2 DEF RecoveryInv
<1> QED BY <1>10, <1>11, <1>12

LEMMA RenewRecovery ==
  ASSUME RecoveryInv, LeaseInv', NEW w \in Workers, NEW age, Renew(w, age)
  PROVE  RecoveryInv'
<1>1. /\ renewals \in [Workers -> SUBSET (0 .. Late)] /\ row \in RowTypes /\ orphaned \in Nat
  BY Types DEF RecoveryInv, LeaseInv
<1>2. /\ UNCHANGED <<process, exec, sweeps, history>> /\ orphaned' = orphaned
      /\ \A v \in Workers : renewals'[v] \subseteq renewals[v]
      /\ age \in renewals[w]
  BY <1>1 DEF Renew, history
<1>3. CASE row' = row
  BY <1>2, <1>3, OrphanedThen DEF Up
<1>4. CASE row' # row
  <2>1. /\ row.status = "running" /\ row.worker = w
        /\ row'.status = "running" /\ row'.worker = w /\ row'.left = Lease
    BY <1>1, <1>4 DEF Renew, RowTypes
  <2>2. Orphaned' <=> Orphaned
    BY <1>2, <2>1 DEF Orphaned
  <2>3. SomeoneUp' /\ Executed'
    BY <1>2, <2>1 DEF RecoveryInv, SomeoneUp, Executed, Up
  <2>4. RecoveredInTime'
    BY <1>2 DEF RecoveryInv, RecoveredInTime, history
  <2>5. LastLease'
    <3>1. age \in Nat /\ age <= Late
      BY <1>1, <1>2, BoundTypes
    <3>2. Orphaned => orphaned + Lease <= Lease + Late
      BY <1>1, <1>2, <2>1, <3>1, Periods, BoundTypes DEF RecoveryInv, LastLease
    <3> QED BY <1>2, <2>1, <2>2, <3>2 DEF RecoveryInv, LastLease
  <2>6. Recovering'
    BY <2>1, Timely, Periods, BoundTypes DEF Recovering
  <2> QED BY <2>3, <2>4, <2>5, <2>6 DEF RecoveryInv
<1> QED BY <1>3, <1>4

LEMMA TickRecovery ==
  ASSUME RecoveryInv, LeaseInv', Tick
  PROVE  RecoveryInv'
<1>1. /\ process \in [Workers -> ProcessTypes] /\ exec \in [Workers -> ExecTypes]
      /\ renewals \in [Workers -> SUBSET (0 .. Late)] /\ row \in RowTypes
      /\ sweeps \in [Workers -> SUBSET (0 .. Late)] /\ orphaned \in Nat /\ row.left \in Nat /\ row.left <= Lease
      /\ sweeps' \in [Workers -> SUBSET (0 .. Late)]
  BY Types DEF RecoveryInv, LeaseInv, TypeOK
<1>2. /\ row'.status = row.status /\ row'.worker = row.worker
      /\ row'.left = IF row.left > 0 THEN row.left - 1 ELSE 0
  BY <1>1 DEF Tick, Down, RowTypes
<1>3. \A w \in Workers : exec'[w].pc = exec[w].pc
  <2>1. \A w \in Workers : exec'[w] = Waited(exec[w])
    BY DEF Tick
  <2>2. ASSUME NEW e \in ExecTypes PROVE Waited(e).pc = e.pc
    BY DEF Waited, ExecTypes
  <2> QED BY <1>1, <2>1, <2>2
<1>4. ASSUME NEW w \in Workers, Up(w)
      PROVE  Up(w)' /\ process'[w].next = process[w].next - 1 /\ process[w].next \in Nat /\ process[w].next <= Interval
  <2>1. process'[w] = [process[w] EXCEPT !.next = @ - 1]
    BY <1>4 DEF Tick
  <2> QED BY <1>1, <1>4, <2>1, Periods DEF ProcessTypes, Up
<1>5. ASSUME NEW w \in Workers
      PROVE  process'[w].life = process[w].life
  BY <1>1 DEF Tick, ProcessTypes
<1>6. /\ LatestSweep' = LatestSweep /\ LatestSweep \in Int /\ LatestSweep >= Lease + 2 * Late + Interval
      /\ \A w \in Workers : Counted(w)' = Counted(w) /\ Counted(w) \in Nat
  BY <1>5, NotPutOff, Periods DEF Tick, RecoveryInv, LeaseInv, Counted, Up
<1>7. (Orphaned' <=> Orphaned) /\ orphaned' = IF Orphaned THEN orphaned + 1 ELSE 0
  BY <1>2, <1>3 DEF Tick, Orphaned
<1>8. SomeoneUp'
  BY <1>2, <1>4 DEF RecoveryInv, SomeoneUp
<1>9. Executed'
  BY <1>3, <1>7 DEF RecoveryInv, Executed, Orphaned, LeaseInv, Owned
<1>10. CASE ~ Orphaned
  <2>1. ~ Orphaned' /\ orphaned' = 0
    BY <1>7, <1>10
  <2> QED BY <1>8, <2>1, NotOrphanedThen
<1>11. CASE Orphaned
  <2>1. orphaned' = orphaned + 1
    BY <1>7, <1>11
  <2>2. LastLease'
    <3>1. ASSUME NEW w \in Workers, row.worker = w, NEW age \in renewals'[w]
          PROVE  orphaned' <= age
      <4>1. PICK younger \in renewals[w] : age = younger + 1
        BY <3>1 DEF Tick, Older
      <4>2. orphaned <= younger /\ younger \in Nat
        BY <1>1, <1>11, <3>1, BoundTypes DEF RecoveryInv, LastLease
      <4> QED BY <1>1, <2>1, <4>1, <4>2
    <3>2. row'.left > 0 => orphaned' + row'.left <= Lease + Late
      BY <1>1, <1>2, <1>11, <2>1, Periods, BoundTypes DEF RecoveryInv, LastLease
    <3> QED BY <1>2, <3>1, <3>2 DEF LastLease
  <2>3. CASE row.left > 1
    <3>1. orphaned + row.left <= Lease + Late
      BY <1>1, <1>11, <2>3 DEF RecoveryInv, LastLease
    <3>2. Recovering'
      BY <1>1, <1>2, <2>3 DEF Recovering
    <3>3. orphaned' < LatestSweep'
      BY <1>1, <1>6, <2>1, <2>3, <3>1, Periods, BoundTypes
    <3>4. RecoveredInTime'
      BY <3>3 DEF RecoveredInTime, LatestSweep
    <3> QED BY <1>8, <1>9, <2>2, <3>2, <3>4 DEF RecoveryInv
  <2>4. CASE row.left = 1
    <3>1. orphaned + 1 <= Lease + Late
      BY <1>1, <1>11, <2>4 DEF RecoveryInv, LastLease
    <3>2. PICK w \in Workers : Up(w)
      BY <1>11 DEF RecoveryInv, SomeoneUp, Orphaned
    <3>3. Up(w)' /\ process'[w].next \in Int /\ process'[w].next < Interval
      BY <1>4, <3>2, Periods
    <3>4. orphaned' + process'[w].next + Late < LatestSweep' /\ orphaned' < LatestSweep'
      BY <1>1, <1>6, <2>1, <3>1, <3>3, Periods, BoundTypes
    <3>5. Recovering'
      BY <3>2, <3>3, <3>4 DEF Recovering
    <3>6. RecoveredInTime'
      BY <3>4 DEF RecoveredInTime, LatestSweep
    <3> QED BY <1>8, <1>9, <2>2, <3>5, <3>6 DEF RecoveryInv
  <2>5. CASE row.left = 0
    <3>1. CASE \E w \in Workers : \E age \in sweeps[w] : orphaned + Late - age + Counted(w) < LatestSweep
      <4>1. PICK w \in Workers : \E age \in sweeps[w] : orphaned + Late - age + Counted(w) < LatestSweep
        BY <3>1
      <4>2. PICK age \in sweeps[w] : orphaned + Late - age + Counted(w) < LatestSweep
        BY <4>1
      <4>3. age \in Nat /\ age + 1 \in sweeps'[w]
        BY <1>1, <4>2, OlderKeeps DEF Tick
      <4>4. age + 1 <= Late
        BY <1>1, <4>3, BoundTypes
      <4>5. orphaned' + Late - (age + 1) + Counted(w)' < LatestSweep' /\ orphaned' < LatestSweep'
        BY <1>1, <1>6, <2>1, <4>2, <4>3, <4>4, Periods, BoundTypes
      <4>6. Recovering'
        BY <4>3, <4>5 DEF Recovering
      <4>7. RecoveredInTime'
        BY <4>5 DEF RecoveredInTime, LatestSweep
      <4> QED BY <1>8, <1>9, <2>2, <4>6, <4>7 DEF RecoveryInv
    <3>2. CASE \E w \in Workers : Up(w) /\ orphaned + process[w].next + Late < LatestSweep
      <4>1. PICK w \in Workers : Up(w) /\ orphaned + process[w].next + Late < LatestSweep
        BY <3>2
      <4>2. Up(w)' /\ process'[w].next = process[w].next - 1 /\ process[w].next \in Nat /\ process[w].next > 0
        BY <1>4, <4>1 DEF Tick, NothingDue
      <4>3. orphaned' + process'[w].next + Late < LatestSweep' /\ orphaned' < LatestSweep'
        BY <1>1, <1>6, <2>1, <4>1, <4>2, Periods, BoundTypes
      <4>4. Recovering'
        BY <4>2, <4>3 DEF Recovering
      <4>5. RecoveredInTime'
        BY <4>3 DEF RecoveredInTime, LatestSweep
      <4> QED BY <1>8, <1>9, <2>2, <4>4, <4>5 DEF RecoveryInv
    <3> QED BY <1>11, <2>5, <3>1, <3>2 DEF RecoveryInv, Recovering
  <2> QED BY <1>1, <2>3, <2>4, <2>5
<1> QED BY <1>10, <1>11

LEMMA StepRecovery == RecoveryInv /\ [Next]_vars => RecoveryInv'
<1> SUFFICES ASSUME RecoveryInv, [Next]_vars PROVE RecoveryInv'
  OBVIOUS
<1>1. LeaseInv /\ LeaseInv'
  BY StepLease DEF RecoveryInv
<1>2. /\ process \in [Workers -> ProcessTypes] /\ exec \in [Workers -> ExecTypes]
      /\ renewals \in [Workers -> SUBSET (0 .. Late)] /\ row \in RowTypes
      /\ sweeps \in [Workers -> SUBSET (0 .. Late)] /\ orphaned \in Nat
  BY <1>1, Types DEF LeaseInv
<1>3. CASE UNCHANGED vars
  BY <1>1, <1>3, OrphanedThen DEF vars, Up
<1>4. ASSUME NEW w \in Workers, Start(w) PROVE RecoveryInv'
  <2>1. \A v \in Workers : Up(v) => Up(v)' /\ process'[v].next = process[v].next
    BY <1>2, <1>4 DEF Start, Up
  <2>2. UNCHANGED <<row, exec, renewals, sweeps, history>> /\ orphaned' = orphaned
    BY <1>4 DEF Start, history
  <2>3. LatestSweep' = LatestSweep /\ LatestSweep \in Int
    BY <1>1, <2>2, NotPutOff DEF LeaseInv, history
  <2>4. Recovering => Recovering'
    <3> SUFFICES ASSUME Recovering, Orphaned, row.left = 0 PROVE Recovering'
      BY <2>2 DEF Recovering, Orphaned
    <3>1. CASE \E v \in Workers : \E age \in sweeps[v] : orphaned + Late - age + Counted(v) < LatestSweep
      <4>1. PICK v \in Workers : \E age \in sweeps[v] : orphaned + Late - age + Counted(v) < LatestSweep
        BY <3>1
      <4>2. PICK age \in sweeps[v] : orphaned + Late - age + Counted(v) < LatestSweep
        BY <4>1
      <4>3. age \in Int /\ Counted(v) \in Int /\ Counted(v)' \in Int /\ Counted(v)' <= Counted(v)
        BY <1>2, <2>1, <4>2, Periods DEF Counted
      <4>4. orphaned' + Late - age + Counted(v)' < LatestSweep'
        BY <1>2, <2>2, <2>3, <4>2, <4>3, BoundTypes
      <4> QED BY <2>2, <4>2, <4>4 DEF Recovering
    <3>2. CASE \E v \in Workers : Up(v) /\ orphaned + process[v].next + Late < LatestSweep
      BY <2>1, <2>2, <2>3, <3>2 DEF Recovering
    <3> QED BY <3>1, <3>2 DEF Recovering
  <2> QED BY <1>1, <2>1, <2>2, <2>3, <2>4, OrphanedThen
<1>5. ASSUME NEW w \in Workers, SendSweep(w) PROVE RecoveryInv'
  <2>1. /\ Up(w) /\ process[w].next = 0 /\ \A v \in Workers : Up(v)' <=> Up(v)
        /\ \A v \in Workers \ {w} : process'[v] = process[v] /\ sweeps'[v] = sweeps[v]
        /\ sweeps'[w] = sweeps[w] \cup {0}
        /\ UNCHANGED <<row, exec, renewals, history>> /\ orphaned' = orphaned
    BY <1>2, <1>5 DEF SendSweep, Up, ProcessTypes, history
  <2>2. LatestSweep' = LatestSweep /\ LatestSweep \in Int /\ \A v \in Workers : Counted(v)' = Counted(v)
    BY <1>1, <2>1, NotPutOff DEF LeaseInv, history, Counted
  <2>3. Recovering => Recovering'
    <3> SUFFICES ASSUME Recovering, Orphaned, row.left = 0 PROVE Recovering'
      BY <2>1 DEF Recovering, Orphaned
    <3>1. CASE \E v \in Workers : \E age \in sweeps[v] : orphaned + Late - age + Counted(v) < LatestSweep
      <4>1. \A v \in Workers : sweeps[v] \subseteq sweeps'[v]
        BY <2>1
      <4> QED BY <2>1, <2>2, <3>1, <4>1 DEF Recovering
    <3>2. CASE Up(w) /\ orphaned + process[w].next + Late < LatestSweep
      <4>1. orphaned' + Late - 0 + Counted(w)' < LatestSweep'
        BY <1>2, <2>1, <2>2, <3>2, BoundTypes DEF Counted
      <4> QED BY <2>1, <4>1 DEF Recovering
    <3>3. CASE \E v \in Workers \ {w} : Up(v) /\ orphaned + process[v].next + Late < LatestSweep
      BY <2>1, <2>2, <3>3 DEF Recovering
    <3> QED BY <3>1, <3>2, <3>3 DEF Recovering
  <2> QED BY <1>1, <2>1, <2>3, OrphanedThen
<1>6. ASSUME NEW w \in Workers,
             Die(w) \/ \E age \in 0 .. Late : SweepFails(w, age) \/ RenewalFails(w, age)
      PROVE  RecoveryInv'
  BY <1>1, <1>6, EndRecovery
<1>7. ASSUME NEW w \in Workers, Claim(w) PROVE RecoveryInv'
  <2>1. ~ Orphaned'
    BY <1>2, <1>7 DEF Claim, Orphaned
  <2>2. SomeoneUp' /\ orphaned' = 0
    BY <1>7 DEF Claim, SomeoneUp, Up
  <2> QED BY <1>1, <2>1, <2>2, NotOrphanedThen
<1>8. ASSUME NEW w \in Workers,
             \/ Abandon(w) \/ StartHeartbeat(w) \/ SendRenewal(w) \/ AckFails(w)
             \/ \E pc \in {"acking", "nacking"} : StopHeartbeat(w, pc)
      PROVE  RecoveryInv'
  <2>1. /\ UNCHANGED <<row, process, sweeps, history>>
        /\ \A v \in Workers \ {w} : exec'[v] = exec[v] /\ renewals'[v] = renewals[v]
        /\ exec[w].pc # "none"
    BY <1>2, <1>8 DEF Abandon, StartHeartbeat, SendRenewal, AckFails, StopHeartbeat
  <2>2. renewals'[w] \subseteq renewals[w] \/ exec'[w].pc # "none"
    BY <1>2, <1>8 DEF Abandon, StartHeartbeat, SendRenewal, AckFails, StopHeartbeat, ExecTypes
  <2> QED BY <1>1, <2>1, <2>2, OrphanedThen DEF Up
<1>9. ASSUME NEW w \in Workers, NEW age, Renew(w, age) PROVE RecoveryInv'
  BY <1>1, <1>9, RenewRecovery
<1>10. ASSUME NEW w \in Workers, NEW status \in {"pending", "settled"}, Settle(w, status) PROVE RecoveryInv'
  <2>1. row'.status # "running" /\ \A v \in Workers : exec'[v].pc # "none" => exec[v].pc # "none"
    <3>1. row.worker = w
      BY <1>1, <1>10 DEF Settle, LeaseInv, Owned
    <3> QED BY <1>2, <1>10, <3>1 DEF Settle, Free, NoExec
  <2>2. ~ Orphaned' /\ SomeoneUp'
    BY <2>1 DEF Orphaned, SomeoneUp
  <2> QED BY <1>1, <1>10, <2>1, <2>2, NotOrphanedThen DEF Settle
<1>11. ASSUME NEW w \in Workers, NEW age, Sweep(w, age) PROVE RecoveryInv'
  <2>1. UNCHANGED <<process, exec, renewals, history>>
    BY <1>11 DEF Sweep
  <2>2. CASE row.status = "running" /\ row.left = 0
    <3>1. row'.status # "running"
      BY <1>11, <2>2 DEF Sweep, Free
    <3>2. ~ Orphaned' /\ SomeoneUp'
      BY <3>1 DEF Orphaned, SomeoneUp
    <3> QED BY <1>1, <2>1, <3>2, NotOrphanedThen
  <2>3. CASE ~ (row.status = "running" /\ row.left = 0)
    <3>1. row' = row
      BY <1>11, <2>3 DEF Sweep
    <3>2. Recovering'
      BY <2>3, <3>1 DEF Recovering, Orphaned
    <3> QED BY <1>1, <2>1, <3>1, <3>2, OrphanedThen DEF Up
  <2> QED BY <2>2, <2>3
<1>12. CASE Tick
  BY <1>1, <1>12, TickRecovery
<1> QED BY <1>3, <1>4, <1>5, <1>6, <1>7, <1>8, <1>9, <1>10, <1>11, <1>12 DEF Next

\* A job whose worker died, or whose claim was lost, is pending again within a
\* lease, a sweep interval and what two statements take; a process that ends
\* while the job waits costs an interval, and a sweep that fails what it took
\* (worker.ts:15-24, 41), for any number of workers.
THEOREM RecoveredInTimeHolds == Spec => []RecoveredInTime
<1>1. RecoveryInv => RecoveredInTime
  BY DEF RecoveryInv
<1> QED BY <1>1, InitRecovery, StepRecovery, PTL DEF Spec

=============================================================================
