----------------------------- MODULE Submission -----------------------------
(***************************************************************************)
(* POST /jobs and GET /jobs/:id (job.routes.ts, job.service.ts:19-62) with  *)
(* readWithFallback (db/client.ts): several requests of one tenant, some    *)
(* with the same idempotency key, in any API processes; the primary, whose  *)
(* statements may fail before or after they took effect; and the replica,   *)
(* which applies what the primary commits, in that order and later.         *)
(*                                                                          *)
(* A job's id is the request and the try that inserted it.  The columns of  *)
(* a job other than its key, the gauge and the counts cache are elsewhere   *)
(* (JobQueue, QueueMetrics, LiveCounts).  A client that gives up waiting    *)
(* and posts again is another request with the same key.                    *)
(***************************************************************************)
EXTENDS Integers, Sequences, FiniteSets

CONSTANTS
  Requests,   \* clients, each with one job to submit
  Keys,       \* idempotency keys
  KeyOf,      \* idempotency_key of a request's body, or NoKey
  MaxTries,   \* bound: how often a client posts
  MaxFaults,  \* bound: statements that fail
  NoKey,      \* null
  NoJob,      \* no answer yet, or an error
  Nothing     \* a reply 201 without a body

Jobs == Requests \X (1 .. MaxTries)

ASSUME RequestTypes ==
  /\ IsFiniteSet(Requests) /\ NoKey \notin Keys
  /\ KeyOf \in [Requests -> Keys \cup {NoKey}]
ASSUME BoundTypes == MaxTries \in Nat \ {0} /\ MaxFaults \in Nat
ASSUME NotJobs == NoJob \notin Jobs /\ Nothing \notin Jobs /\ NoJob # Nothing

VARIABLES
  request,    \* request[r]: where it is, which try, what it asks for when it
              \* reads, and the job it was given
  log,        \* the jobs the primary committed, in that order
  applied,    \* how many of them the replica has
  submitted,  \* jobs_submitted_total
  faults      \* how much of MaxFaults is used up

vars == <<request, log, applied, submitted, faults>>

Init ==
  /\ request = [r \in Requests |-> [pc |-> "new", try |-> 1, query |-> "key", job |-> NoJob]]
  /\ log = <<>>
  /\ applied = 0
  /\ submitted = 0
  /\ faults = 0

Fault == faults < MaxFaults /\ faults' = faults + 1

Goto(r, pc) == request' = [request EXCEPT ![r].pc = pc]

At(r, pc) == request[r].pc = pc

-----------------------------------------------------------------------------
(* The client. *)

Post(r) ==
  /\ At(r, "new")
  /\ Goto(r, "sent")
  /\ UNCHANGED <<log, applied, submitted, faults>>

\* After an error, or a reply it can make nothing of.
Retry(r) ==
  /\ At(r, "failed") \/ (At(r, "answered") /\ request[r].job = Nothing)
  /\ request[r].try < MaxTries
  /\ request' = [request EXCEPT
       ![r] = [pc |-> "sent", try |-> @.try + 1, query |-> "key", job |-> NoJob]]
  /\ UNCHANGED <<log, applied, submitted, faults>>

\* GET /jobs/:id, any number of times.
Look(r) ==
  /\ request[r].pc \in {"answered", "missing"} /\ request[r].job \in Jobs
  /\ request' = [request EXCEPT ![r].pc = "primary", ![r].query = "id"]
  /\ UNCHANGED <<log, applied, submitted, faults>>

-----------------------------------------------------------------------------
(* submitJob's INSERT .. ON CONFLICT DO NOTHING RETURNING *. *)

Committed == {log[i] : i \in DOMAIN log}
Applied == {log[i] : i \in 1 .. applied}

\* The unique index on (tenant_id, idempotency_key) knows no null.
SameKey(r, q) == KeyOf[r] # NoKey /\ KeyOf[r] = KeyOf[q]

\* Mutant: an uncommitted row is a conflict already.
ConflictUncommitted(r) ==
  \/ \E j \in Committed : SameKey(r, j[1])
  \/ \E q \in Requests : At(q, "inserted") /\ SameKey(r, q)

Conflict(r) == \E j \in Committed : SameKey(r, j[1])

\* Mutant: those who wait make each other wait.
BlockedByAll(r) ==
  \E q \in Requests \ {r} : request[q].pc \in {"inserted", "sent"} /\ SameKey(r, q)

\* Mutant: there is no unique index to wait at.
BlockedNot(r) == FALSE

\* A row of the same key is not committed yet.
Blocked(r) == ~ Conflict(r) /\ \E q \in Requests : At(q, "inserted") /\ SameKey(r, q)

Insert(r) ==
  /\ At(r, "sent") /\ ~ Blocked(r)
  /\ Goto(r, IF Conflict(r) THEN "primary" ELSE "inserted")
  /\ UNCHANGED <<log, applied, submitted, faults>>

Commit(r) ==
  /\ At(r, "inserted")
  /\ log' = Append(log, <<r, request[r].try>>)
  /\ Goto(r, "created")
  /\ UNCHANGED <<applied, submitted, faults>>

\* The statement fails and is rolled back, or its answer is lost: a 500.
InsertFails(r) ==
  /\ request[r].pc \in {"sent", "inserted", "created"}
  /\ Fault
  /\ Goto(r, "failed")
  /\ UNCHANGED <<log, applied, submitted>>

\* RETURNING * reaches the API: the job is counted and is the reply.
Created(r) ==
  /\ At(r, "created")
  /\ request' = [request EXCEPT ![r].pc = "answered", ![r].job = <<r, request[r].try>>]
  /\ submitted' = submitted + 1
  /\ UNCHANGED <<log, applied, faults>>

-----------------------------------------------------------------------------
(* readWithFallback, for the job of a key and for the job of an id. *)

\* existing[0] of the rows with the key; there may be none.
OfKey(r, rows) ==
  LET existing == {j \in rows : SameKey(r, j[1])} IN
  IF existing = {} THEN Nothing ELSE CHOOSE j \in existing : TRUE

\* What the statement finds among the rows is the reply: an existing job, a 201
\* without a body, the job asked for or a 404.
Reply(r, rows) ==
  IF request[r].query = "key"
  THEN request' = [request EXCEPT ![r].pc = "answered", ![r].job = OfKey(r, rows)]
  ELSE Goto(r, IF request[r].job \in rows THEN "answered" ELSE "missing")

\* Mutant: a conflict is counted as a submission.
ReadPrimaryCounts(r) ==
  /\ At(r, "primary")
  /\ Reply(r, Committed)
  /\ submitted' = submitted + 1
  /\ UNCHANGED <<log, applied, faults>>

ReadPrimary(r) ==
  /\ At(r, "primary")
  /\ Reply(r, Committed)
  /\ UNCHANGED <<log, applied, submitted, faults>>

\* Any error of the primary.
PrimaryFails(r) ==
  /\ At(r, "primary")
  /\ Fault
  /\ Goto(r, "replica")
  /\ UNCHANGED <<log, applied, submitted>>

ReadReplica(r) ==
  /\ At(r, "replica")
  /\ Reply(r, Applied)
  /\ UNCHANGED <<log, applied, submitted, faults>>

\* Mutant: the second error is not caught, and no reply is sent.
ReplicaFailsUnanswered(r) ==
  /\ At(r, "replica")
  /\ Fault
  /\ Goto(r, "thrown")
  /\ UNCHANGED <<log, applied, submitted>>

\* The replica fails too: a 500.
ReplicaFails(r) ==
  /\ At(r, "replica")
  /\ Fault
  /\ Goto(r, IF request[r].query = "key" THEN "failed" ELSE "answered")
  /\ UNCHANGED <<log, applied, submitted>>

\* The replica receives the next commit.
Apply ==
  /\ applied < Len(log)
  /\ applied' = applied + 1
  /\ UNCHANGED <<request, log, submitted, faults>>

-----------------------------------------------------------------------------
\* A step of the API or of a database that meets no fault.
Serve(r) == Insert(r) \/ Commit(r) \/ Created(r) \/ ReadPrimary(r) \/ ReadReplica(r)

Next ==
  \/ \E r \in Requests :
       \/ Post(r) \/ Retry(r) \/ Look(r)
       \/ Serve(r)
       \/ InsertFails(r) \/ PrimaryFails(r) \/ ReplicaFails(r)
  \/ Apply

Spec == Init /\ [][Next]_vars

\* Statements return.  Nothing is said of clients, and nothing of the replica.
Fairness == \A r \in Requests : WF_vars(Serve(r))

FairSpec == Spec /\ Fairness

-----------------------------------------------------------------------------
(* Correctness. *)

\* Every variable holds values of its type, and the replica is a prefix.
TypeOK ==
  /\ request \in [Requests ->
       [pc : {"new", "sent", "inserted", "created", "primary", "replica", "answered", "missing", "failed"},
        try : 1 .. MaxTries, query : {"key", "id"}, job : Jobs \cup {NoJob, Nothing}]]
  /\ log \in Seq(Jobs)
  /\ applied \in 0 .. Len(log)
  /\ submitted \in Nat
  /\ faults \in 0 .. MaxFaults

\* One job per key, whatever is retried, fails, is lost or races, and whoever
\* is given a job for a key is given that one (job.service.ts:23-43;
\* README.md:139, 669).  A 201 without a body gives no job.
Once ==
  INSTANCE SubmitOnce WITH
    Callers <- {r \in Requests : KeyOf[r] # NoKey},
    jobOf   <- [k \in Keys |->
                  LET existing == {j \in Committed : KeyOf[j[1]] = k} IN
                  IF existing = {} THEN NoJob ELSE CHOOSE j \in existing : TRUE],
    answer  <- [r \in {q \in Requests : KeyOf[q] # NoKey} |->
                  IF request[r].job \in Jobs THEN request[r].job ELSE NoJob]

ImplementsSubmitOnce == Once!Spec

\* An INSERT that met a conflict has waited for the other row, so the SELECT
\* after it finds that row; and a client finds the job it was given.  A job is
\* missed (a 201 without a body, a 404) only where a read of the primary failed
\* and the replica was behind, once at most for each failure
\* (job.service.ts:32-43, 57-62, db/client.ts:23-30).
MissedOnlyByFailure ==
  Cardinality({r \in Requests : request[r].job = Nothing \/ At(r, "missing")}) <= faults

\* jobs_submitted_total counts the jobs that were created, once, and misses only
\* those whose INSERT's answer was lost (job.service.ts:36-47).
SubmittedCounted ==
  LET uncounted == Len(log) - submitted IN
  0 <= uncounted /\ uncounted <= Cardinality({r \in Requests : At(r, "created")}) + faults

Served(r) == request[r].pc \in {"answered", "missing", "failed"}

\* Every request is answered: who waits for another's row does not wait for ever
\* (job.service.ts:22-34, db/client.ts:20-31).
EveryoneAnswered == \A r \in Requests : At(r, "sent") \/ At(r, "primary") ~> Served(r)

=============================================================================
