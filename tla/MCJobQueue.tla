----------------------------- MODULE MCJobQueue -----------------------------
(* JobQueue on small instances: the cfg files name the jobs and workers. *)
EXTENDS JobQueue, TLC

CONSTANTS
  T1, T2,      \* tenants
  J1, J2, J3,  \* jobs
  W1, W2, W3   \* incarnations of workers

\* J3 is the job of another tenant, where there is another.
SameTenant == [j \in Jobs |-> T1]
OtherTenant == [j \in Jobs |-> IF j = J3 THEN T2 ELSE T1]

FirstIsUrgent == [j \in Jobs |-> IF j = J1 THEN 1 ELSE 0]
SamePriority == [j \in Jobs |-> 0]

OneAttempt == [j \in Jobs |-> 1]
TwoAttempts == [j \in Jobs |-> 2]
QuotaOne == [t \in Tenants |-> 1]
QuotaTwo == [t \in Tenants |-> 2]

\* Which incarnation is which does not matter; nor which job is, where they
\* have the same columns.
WorkerSymmetry == Permutations(Workers)
RowSymmetry == Permutations(Workers) \cup Permutations(Jobs)

=============================================================================
