-------------------------- MODULE SubmissionProofs --------------------------
(***************************************************************************)
(* What Submission keeps for any clients, keys and numbers of tries and    *)
(* faults: its types, one job per key (the refinement of SubmitOnce), how   *)
(* many jobs may be missed and how many are not counted.                   *)
(*                                                                         *)
(* KeyInv is the inductive invariant of the refinement: the unique index,  *)
(* which lets one insertion of a key through and makes the others wait,    *)
(* keeps Alone and Single, and they make `existing[0]` unambiguous.        *)
(***************************************************************************)
EXTENDS Submission, FiniteSetTheorems, TLAPS

Places == {"new", "sent", "inserted", "created", "primary", "replica", "answered", "missing", "failed"}

Fields == [pc : Places, try : 1 .. MaxTries, query : {"key", "id"}, job : Jobs \cup {NoJob, Nothing}]

\* Where a request is says what it was given.
Given ==
  \A r \in Requests :
    /\ request[r].pc \in {"new", "sent", "inserted", "created", "failed"} =>
         request[r].query = "key" /\ request[r].job = NoJob
    /\ request[r].pc \in {"primary", "replica"} /\ request[r].query = "key" => request[r].job = NoJob
    /\ request[r].pc \in {"primary", "replica"} /\ request[r].query = "id" => request[r].job \in Jobs
    /\ At(r, "answered") => request[r].job # NoJob
    /\ At(r, "missing") => request[r].job \in Jobs

\* A job that was given is committed, and it is the client's own or of its key.
Rightly ==
  \A r \in Requests :
    /\ request[r].job \in Jobs => request[r].job \in Committed /\ KeyOf[request[r].job[1]] = KeyOf[r]
    /\ At(r, "created") => <<r, request[r].try>> \in Committed

\* Who reads by key has met a committed row of the key.
Conflicted ==
  \A r \in Requests :
    request[r].pc \in {"primary", "replica"} /\ request[r].query = "key" => Conflict(r)

\* No two committed jobs have a key in common.
Single == \A i, j \in Committed : SameKey(i[1], j[1]) => i = j

\* An uncommitted row has its key alone.
Alone ==
  \A r \in Requests : At(r, "inserted") =>
    /\ ~ Conflict(r)
    /\ \A q \in Requests : At(q, "inserted") /\ SameKey(r, q) => q = r

KeyInv == TypeOK /\ Given /\ Rightly /\ Conflicted /\ Single /\ Alone

-----------------------------------------------------------------------------
(* Types, and what a commit does to the log. *)

\* The records of a request, under the name the proofs use.
LEMMA RequestType == TypeOK => request \in [Requests -> Fields]
BY DEF TypeOK, Fields, Places

\* What the primary has committed are jobs, and the replica has some of them.
LEMMA CommittedJobs == ASSUME TypeOK PROVE Committed \subseteq Jobs /\ Applied \subseteq Committed
BY DEF TypeOK, Committed, Applied

\* A commit adds one job, which the replica does not have yet.
LEMMA CommitAdds ==
  ASSUME TypeOK, NEW r \in Requests, Commit(r)
  PROVE  /\ Committed' = Committed \cup {<<r, request[r].try>>}
         /\ Len(log') = Len(log) + 1
         /\ log' \in Seq(Jobs)
         /\ <<r, request[r].try>> \in Jobs
<1> DEFINE job == <<r, request[r].try>>
<1>1. job \in Jobs
  BY DEF TypeOK, Jobs
<1> HIDE DEF job
<1>2. log \in Seq(Jobs) /\ log' = Append(log, job)
  BY DEF TypeOK, Commit, job
<1>3. Len(log') = Len(log) + 1 /\ log' \in Seq(Jobs) /\ DOMAIN log' = 1 .. Len(log) + 1
  BY <1>1, <1>2
<1>4. log'[Len(log) + 1] = job /\ \A i \in 1 .. Len(log) : log'[i] = log[i]
  BY <1>1, <1>2
<1>5. Len(log) \in Nat /\ DOMAIN log = 1 .. Len(log)
  BY <1>2
<1>6. Committed' = Committed \cup {job}
  <2>1. ASSUME NEW j \in Committed' PROVE j \in Committed \cup {job}
    <3>1. PICK i \in 1 .. Len(log) + 1 : j = log'[i]
      BY <1>3, <2>1 DEF Committed
    <3>2. CASE i = Len(log) + 1
      BY <1>4, <3>1, <3>2
    <3>3. CASE i \in 1 .. Len(log)
      BY <1>4, <1>5, <3>1, <3>3 DEF Committed
    <3> QED BY <1>5, <3>2, <3>3
  <2>2. ASSUME NEW j \in Committed \cup {job} PROVE j \in Committed'
    <3>1. CASE j = job
      BY <1>3, <1>4, <1>5, <3>1 DEF Committed
    <3>2. CASE j \in Committed
      <4>1. PICK i \in 1 .. Len(log) : j = log[i]
        BY <1>5, <3>2 DEF Committed
      <4>2. i \in 1 .. Len(log) + 1 /\ j = log'[i]
        BY <1>4, <1>5, <4>1
      <4> QED BY <1>3, <4>2 DEF Committed
    <3> QED BY <2>2, <3>1, <3>2
  <2> QED BY <2>1, <2>2
<1> QED BY <1>1, <1>3, <1>6 DEF job

LEMMA InitType == Init => TypeOK
<1>1. <<>> \in Seq(Jobs) /\ Len(<<>>) = 0
  OBVIOUS
<1> QED BY <1>1, BoundTypes DEF Init, TypeOK

\* existing[0] is a job of the rows, with the request's key.
LEMMA OfKeyFound ==
  ASSUME NEW r \in Requests, NEW rows
  PROVE  OfKey(r, rows) = Nothing \/ (OfKey(r, rows) \in rows /\ SameKey(r, OfKey(r, rows)[1]))
BY DEF OfKey

LEMMA ReplyType ==
  ASSUME TypeOK, NEW r \in Requests, NEW rows \in SUBSET Jobs, Reply(r, rows)
  PROVE  request' \in [Requests -> Fields]
<1>1. OfKey(r, rows) \in Jobs \cup {NoJob, Nothing}
  BY OfKeyFound
<1>2. request \in [Requests -> Fields]
  BY RequestType
<1> QED BY <1>1, <1>2 DEF Reply, Goto, Fields, Places

LEMMA StepType == TypeOK /\ [Next]_vars => TypeOK'
<1> SUFFICES ASSUME TypeOK, [Next]_vars PROVE TypeOK'
  OBVIOUS
<1>1. request \in [Requests -> Fields]
  BY RequestType
<1>2. ASSUME request' \in [Requests -> Fields], log' \in Seq(Jobs), applied' \in 0 .. Len(log'),
             submitted' \in Nat, faults' \in 0 .. MaxFaults
      PROVE  TypeOK'
  BY <1>2 DEF TypeOK, Fields, Places
<1>3. /\ log \in Seq(Jobs) /\ Len(log) \in Nat /\ applied \in 0 .. Len(log)
      /\ submitted \in Nat /\ faults \in 0 .. MaxFaults
  BY DEF TypeOK
<1>4. CASE UNCHANGED vars
  BY <1>1, <1>2, <1>3, <1>4 DEF vars
<1>5. ASSUME NEW r \in Requests, Post(r) \/ Retry(r) \/ Look(r) \/ Insert(r) PROVE TypeOK'
  <2>1. request' \in [Requests -> Fields]
    BY <1>1, <1>5, BoundTypes DEF Post, Retry, Look, Insert, Goto, Fields, Places
  <2> QED BY <1>2, <1>3, <1>5, <2>1 DEF Post, Retry, Look, Insert
<1>6. ASSUME NEW r \in Requests, Commit(r) PROVE TypeOK'
  <2>1. request' \in [Requests -> Fields]
    <3>1. request[r] \in Fields /\ request' = [request EXCEPT ![r].pc = "created"]
      BY <1>1, <1>6 DEF Commit, Goto
    <3>2. [request[r] EXCEPT !.pc = "created"] \in Fields
      BY <3>1 DEF Fields, Places
    <3> QED BY <1>1, <3>1, <3>2
  <2>2. log' \in Seq(Jobs) /\ Len(log') = Len(log) + 1
    BY <1>6, CommitAdds
  <2>3. UNCHANGED <<applied, submitted, faults>>
    BY <1>6 DEF Commit
  <2> QED BY <1>2, <1>3, <2>1, <2>2, <2>3
<1>7. ASSUME NEW r \in Requests, Created(r) PROVE TypeOK'
  <2>1. <<r, request[r].try>> \in Jobs
    BY <1>1 DEF Fields, Jobs
  <2>2. request' \in [Requests -> Fields]
    <3>1. request[r] \in Fields /\ "answered" \in Places
      BY <1>1 DEF Places
    <3>2. [request[r] EXCEPT !.pc = "answered", !.job = <<r, request[r].try>>] \in Fields
      BY <2>1, <3>1 DEF Fields
    <3>3. request' = [request EXCEPT ![r] = [request[r] EXCEPT !.pc = "answered", !.job = <<r, request[r].try>>]]
      BY <1>1, <1>7 DEF Created
    <3> QED BY <1>1, <3>2, <3>3
  <2> QED BY <1>2, <1>3, <1>7, <2>2 DEF Created
<1>8. ASSUME NEW r \in Requests, ReadPrimary(r) \/ ReadReplica(r) PROVE TypeOK'
  <2>1. request' \in [Requests -> Fields]
    BY <1>8, ReplyType, CommittedJobs DEF ReadPrimary, ReadReplica
  <2> QED BY <1>2, <1>3, <1>8, <2>1 DEF ReadPrimary, ReadReplica
<1>9. ASSUME NEW r \in Requests, InsertFails(r) \/ PrimaryFails(r) \/ ReplicaFails(r) PROVE TypeOK'
  <2>1. request' \in [Requests -> Fields]
    BY <1>1, <1>9 DEF InsertFails, PrimaryFails, ReplicaFails, Goto, Fields, Places
  <2>2. faults' \in 0 .. MaxFaults
    BY <1>3, <1>9, BoundTypes DEF InsertFails, PrimaryFails, ReplicaFails, Fault
  <2> QED BY <1>2, <1>3, <1>9, <2>1, <2>2 DEF InsertFails, PrimaryFails, ReplicaFails
<1>10. CASE Apply
  BY <1>1, <1>2, <1>3, <1>10 DEF Apply
<1> QED BY <1>4, <1>5, <1>6, <1>7, <1>8, <1>9, <1>10 DEF Next, Serve

\* The variables keep their types, and the replica stays a prefix of the
\* primary, for any clients and bounds.
THEOREM TypeCorrect == Spec => []TypeOK
BY InitType, StepType, PTL DEF Spec

-----------------------------------------------------------------------------
(* One job per key. *)

LEMMA InitKey == Init => KeyInv
<1> SUFFICES ASSUME Init PROVE KeyInv
  OBVIOUS
<1>1. TypeOK
  BY InitType
<1>2. Committed = {}
  BY DEF Init, Committed
<1>3. Given /\ Rightly /\ Conflicted /\ Alone
  BY NotJobs DEF Init, Given, Rightly, Conflicted, Alone, At
<1> QED BY <1>1, <1>2, <1>3 DEF KeyInv, Single

\* With the primary's log as it was, the parts about requests have only to be
\* looked at for the request that took the step.
LEMMA OneRequestSteps ==
  ASSUME KeyInv, TypeOK', NEW r \in Requests, log' = log,
         \A q \in Requests \ {r} : request'[q] = request[q],
         request'[r].pc \in {"new", "sent", "inserted", "failed"} =>
           request'[r].query = "key" /\ request'[r].job = NoJob,
         request'[r].pc \in {"primary", "replica"} /\ request'[r].query = "key" =>
           request'[r].job = NoJob /\ Conflict(r),
         request'[r].pc \in {"primary", "replica"} /\ request'[r].query = "id" => request'[r].job \in Jobs,
         request'[r].pc = "answered" => request'[r].job # NoJob,
         request'[r].pc = "missing" => request'[r].job \in Jobs,
         request'[r].job \in Jobs => request'[r].job \in Committed /\ KeyOf[request'[r].job[1]] = KeyOf[r],
         request'[r].pc # "created",
         request'[r].pc = "inserted" =>
           At(r, "inserted") \/ (~ Conflict(r) /\ \A q \in Requests : ~ (At(q, "inserted") /\ SameKey(r, q)))
  PROVE  KeyInv'
<1>1. Committed' = Committed /\ \A q \in Requests : Conflict(q)' <=> Conflict(q)
  BY DEF Committed, Conflict
<1>2. \A q \in Requests \ {r} : \A pc : At(q, pc)' <=> At(q, pc)
  BY DEF At
<1>3. Given'
  BY DEF KeyInv, Given, At
<1>4. Rightly'
  BY <1>1 DEF KeyInv, Rightly, At
<1>5. Conflicted'
  BY <1>1 DEF KeyInv, Conflicted
<1>6. Single'
  BY <1>1 DEF KeyInv, Single
<1>7. Alone'
  BY <1>1 DEF KeyInv, Alone, At, SameKey
<1> QED BY <1>3, <1>4, <1>5, <1>6, <1>7 DEF KeyInv

\* What a read replies: a job of the rows and of the request's key, or nothing.
LEMMA ReplyGives ==
  ASSUME KeyInv, NEW r \in Requests, NEW rows, rows \subseteq Committed,
         request[r].pc \in {"primary", "replica"}, Reply(r, rows)
  PROVE  /\ \A q \in Requests \ {r} : request'[q] = request[q]
         /\ request'[r].query = request[r].query
         /\ \/ /\ request[r].query = "key" /\ request'[r].pc = "answered"
               /\ \/ request'[r].job = Nothing /\ \A j \in rows : ~ SameKey(r, j[1])
                  \/ request'[r].job \in rows /\ SameKey(r, request'[r].job[1])
            \/ /\ request[r].query = "id" /\ request'[r].job = request[r].job
               /\ \/ request'[r].pc = "answered" /\ request[r].job \in rows
                  \/ request'[r].pc = "missing" /\ request[r].job \notin rows
<1>1. request \in [Requests -> Fields]
  BY RequestType DEF KeyInv
<1>2. request[r].query \in {"key", "id"}
  BY <1>1 DEF Fields
<1>3. CASE request[r].query = "key"
  <2>1. \/ OfKey(r, rows) = Nothing /\ \A j \in rows : ~ SameKey(r, j[1])
        \/ OfKey(r, rows) \in rows /\ SameKey(r, OfKey(r, rows)[1])
    BY DEF OfKey
  <2>2. request' = [request EXCEPT ![r].pc = "answered", ![r].job = OfKey(r, rows)]
    BY <1>3 DEF Reply
  <2>3. request'[r].pc = "answered" /\ request'[r].job = OfKey(r, rows) /\ request'[r].query = "key"
    BY <1>1, <1>3, <2>2 DEF Fields
  <2> QED BY <1>1, <1>3, <2>1, <2>2, <2>3
<1>4. CASE request[r].query = "id"
  BY <1>1, <1>4 DEF Reply, Goto, Fields
<1> QED BY <1>2, <1>3, <1>4

LEMMA ReplyKey ==
  ASSUME KeyInv, TypeOK', NEW r \in Requests, NEW rows, rows \subseteq Committed,
         request[r].pc \in {"primary", "replica"}, Reply(r, rows), log' = log
  PROVE  KeyInv'
<1>1. Committed \subseteq Jobs
  BY CommittedJobs DEF KeyInv
<1>2. /\ request[r].query = "id" => request[r].job \in Jobs
      /\ request[r].job \in Jobs => request[r].job \in Committed /\ KeyOf[request[r].job[1]] = KeyOf[r]
  BY DEF KeyInv, Given, Rightly
<1>3. request'[r].pc \in {"answered", "missing"} /\ request'[r].job # NoJob
  BY <1>1, <1>2, ReplyGives, NotJobs
<1>4. request'[r].pc = "missing" => request'[r].job \in Jobs
  BY <1>2, ReplyGives
<1>5. request'[r].job \in Jobs => request'[r].job \in Committed /\ KeyOf[request'[r].job[1]] = KeyOf[r]
  BY <1>1, <1>2, ReplyGives, NotJobs DEF SameKey
<1>6. \A q \in Requests \ {r} : request'[q] = request[q]
  BY ReplyGives
<1> QED BY <1>3, <1>4, <1>5, <1>6, OneRequestSteps

LEMMA CommitKey == ASSUME KeyInv, TypeOK', NEW r \in Requests, Commit(r) PROVE KeyInv'
<1> DEFINE job == <<r, request[r].try>>
<1>1. Committed' = Committed \cup {job} /\ Committed \subseteq Jobs
  BY CommitAdds, CommittedJobs DEF KeyInv
<1>2. request \in [Requests -> Fields] /\ At(r, "inserted")
  BY RequestType DEF KeyInv, Commit
<1>3. \A q \in Requests \ {r} : request'[q] = request[q]
  BY <1>2 DEF Commit, Goto
<1>4. /\ request'[r].pc = "created" /\ request'[r].try = request[r].try
      /\ request'[r].query = request[r].query /\ request'[r].job = request[r].job
  BY <1>2 DEF Commit, Goto, Fields
<1>5. request[r].query = "key" /\ request[r].job = NoJob
  BY <1>2 DEF KeyInv, Given, At
<1>6. Given'
  BY <1>3, <1>4, <1>5 DEF KeyInv, Given, At
<1>7. Rightly'
  BY <1>1, <1>3, <1>4, <1>5, NotJobs DEF KeyInv, Rightly, At
<1>8. Conflicted'
  BY <1>1, <1>3, <1>4 DEF KeyInv, Conflicted, Conflict
<1>9. ~ Conflict(r) /\ \A q \in Requests : At(q, "inserted") /\ SameKey(r, q) => q = r
  BY <1>2 DEF KeyInv, Alone
<1>10. job[1] = r
  OBVIOUS
<1>11. Single'
  <2> SUFFICES ASSUME NEW i \in Committed', NEW j \in Committed', SameKey(i[1], j[1])
               PROVE  i = j
    BY DEF Single, SameKey
  <2>1. CASE i \in Committed /\ j \in Committed
    BY <2>1 DEF KeyInv, Single
  <2>2. CASE i = job /\ j = job
    BY <2>2
  <2>3. CASE i = job /\ j \in Committed
    BY <1>9, <1>10, <2>3 DEF Conflict
  <2>4. CASE i \in Committed /\ j = job
    <3>1. SameKey(r, i[1])
      BY <1>10, <2>4 DEF SameKey
    <3> QED BY <1>9, <2>4, <3>1 DEF Conflict
  <2> QED BY <1>1, <2>1, <2>2, <2>3, <2>4
<1>12. Alone'
  <2> SUFFICES ASSUME NEW q \in Requests, At(q, "inserted")'
               PROVE  /\ \A j \in Committed' : ~ SameKey(q, j[1])
                      /\ \A p \in Requests : At(p, "inserted")' /\ SameKey(q, p) => p = q
    BY DEF Alone, Conflict, SameKey
  <2>1. q # r /\ At(q, "inserted")
    BY <1>3, <1>4 DEF At
  <2>2. ~ SameKey(q, r)
    BY <1>9, <2>1 DEF SameKey
  <2>3. \A j \in Committed' : ~ SameKey(q, j[1])
    BY <1>1, <1>10, <2>1, <2>2 DEF KeyInv, Alone, Conflict
  <2>4. \A p \in Requests : At(p, "inserted")' => At(p, "inserted")
    BY <1>3, <1>4 DEF At
  <2> QED BY <2>1, <2>3, <2>4 DEF KeyInv, Alone
<1> QED BY <1>6, <1>7, <1>8, <1>11, <1>12 DEF KeyInv

LEMMA StepKey == KeyInv /\ [Next]_vars => KeyInv'
<1> SUFFICES ASSUME KeyInv, [Next]_vars PROVE KeyInv'
  OBVIOUS
<1>1. TypeOK /\ TypeOK' /\ request \in [Requests -> Fields]
  BY StepType, RequestType DEF KeyInv
<1>2. CASE UNCHANGED <<request, log>>
  <2>1. Committed' = Committed
    BY <1>2 DEF Committed
  <2> QED BY <1>1, <1>2, <2>1 DEF KeyInv, Given, Rightly, Conflicted, Single, Alone, At, Conflict
<1>3. ASSUME NEW r \in Requests, Post(r) PROVE KeyInv'
  <2>1. /\ request'[r] = [request[r] EXCEPT !.pc = "sent"] /\ log' = log
        /\ \A q \in Requests \ {r} : request'[q] = request[q]
    BY <1>1, <1>3 DEF Post, Goto
  <2> QED BY <1>1, <1>3, <2>1, OneRequestSteps, NotJobs DEF Post, KeyInv, Given, At, Fields
<1>4. ASSUME NEW r \in Requests, Retry(r) PROVE KeyInv'
  <2>1. /\ request'[r] = [pc |-> "sent", try |-> request[r].try + 1, query |-> "key", job |-> NoJob]
        /\ \A q \in Requests \ {r} : request'[q] = request[q]
        /\ log' = log
    BY <1>1, <1>4 DEF Retry
  <2> QED BY <1>1, <2>1, OneRequestSteps, NotJobs
<1>5. ASSUME NEW r \in Requests, Look(r) PROVE KeyInv'
  <2>1. /\ request'[r] = [request[r] EXCEPT !.pc = "primary", !.query = "id"] /\ log' = log
        /\ \A q \in Requests \ {r} : request'[q] = request[q]
    BY <1>1, <1>5 DEF Look
  <2>2. request[r] \in Fields
    BY <1>1
  <2>3. request'[r].pc = "primary" /\ request'[r].query = "id" /\ request'[r].job = request[r].job
    BY <2>1, <2>2 DEF Fields
  <2>4. /\ request[r].job \in Jobs
        /\ request[r].job \in Committed /\ KeyOf[request[r].job[1]] = KeyOf[r]
    BY <1>5 DEF Look, KeyInv, Rightly
  <2> QED BY <1>1, <2>1, <2>3, <2>4, OneRequestSteps
<1>6. ASSUME NEW r \in Requests, Insert(r) PROVE KeyInv'
  <2>1. /\ request'[r] = [request[r] EXCEPT !.pc = IF Conflict(r) THEN "primary" ELSE "inserted"]
        /\ \A q \in Requests \ {r} : request'[q] = request[q]
        /\ log' = log
    BY <1>1, <1>6 DEF Insert, Goto
  <2>2. /\ request'[r].pc = IF Conflict(r) THEN "primary" ELSE "inserted"
        /\ request'[r].query = request[r].query /\ request'[r].job = request[r].job
    BY <1>1, <2>1 DEF Fields
  <2>3. request[r].query = "key" /\ request[r].job = NoJob
    BY <1>6 DEF Insert, KeyInv, Given, At
  <2>4. Conflict(r) \/ \A q \in Requests : ~ (At(q, "inserted") /\ SameKey(r, q))
    BY <1>6 DEF Insert, Blocked
  <2> QED BY <1>1, <2>1, <2>2, <2>3, <2>4, OneRequestSteps, NotJobs
<1>7. ASSUME NEW r \in Requests, Commit(r) PROVE KeyInv'
  BY <1>1, <1>7, CommitKey
<1>8. ASSUME NEW r \in Requests, Created(r) PROVE KeyInv'
  <2> DEFINE job == <<r, request[r].try>>
  <2>1. job \in Committed /\ job \in Jobs /\ job[1] = r
    BY <1>1, <1>8, CommittedJobs DEF Created, KeyInv, Rightly
  <2>2. /\ request' = [request EXCEPT ![r].pc = "answered", ![r].job = job] /\ log' = log
    BY <1>8 DEF Created
  <2> HIDE DEF job
  <2>3. /\ request'[r].pc = "answered" /\ request'[r].job = job
        /\ \A q \in Requests \ {r} : request'[q] = request[q]
    BY <1>1, <2>2 DEF Fields
  <2> QED BY <1>1, <2>1, <2>2, <2>3, OneRequestSteps, NotJobs
<1>9. ASSUME NEW r \in Requests, ReadPrimary(r) PROVE KeyInv'
  BY <1>1, <1>9, ReplyKey DEF ReadPrimary, At
<1>10. ASSUME NEW r \in Requests, ReadReplica(r) PROVE KeyInv'
  BY <1>1, <1>10, ReplyKey, CommittedJobs DEF ReadReplica, At
<1>11. ASSUME NEW r \in Requests, InsertFails(r) \/ ReplicaFails(r) \/ PrimaryFails(r) PROVE KeyInv'
  <2>1. PICK pc \in {"failed", "answered", "replica"} :
          /\ Goto(r, pc) /\ log' = log
          /\ pc = "failed" => \/ request[r].pc \in {"sent", "inserted", "created"}
                              \/ request[r].pc = "replica" /\ request[r].query = "key"
          /\ pc = "answered" => request[r].pc = "replica" /\ request[r].query # "key"
          /\ pc = "replica" => request[r].pc = "primary"
    BY <1>11 DEF InsertFails, ReplicaFails, PrimaryFails, At
  <2>2. /\ request'[r].pc = pc /\ request'[r].query = request[r].query /\ request'[r].job = request[r].job
        /\ \A q \in Requests \ {r} : request'[q] = request[q]
        /\ request[r].query \in {"key", "id"}
    BY <1>1, <2>1 DEF Goto, Fields
  <2>3. /\ request[r].pc \in {"sent", "inserted", "created"} \/ (pc = "failed" /\ request[r].query = "key") =>
             request[r].query = "key" /\ request[r].job = NoJob
        /\ pc = "answered" => request[r].job # NoJob
    BY <2>1, <2>2, NotJobs DEF KeyInv, Given
  <2>4. pc = "replica" => /\ request[r].query = "key" => request[r].job = NoJob /\ Conflict(r)
                          /\ request[r].query = "id" => request[r].job \in Jobs
    BY <2>1 DEF KeyInv, Given, Conflicted
  <2>5. request[r].job \in Jobs => request[r].job \in Committed /\ KeyOf[request[r].job[1]] = KeyOf[r]
    BY DEF KeyInv, Rightly
  <2> QED BY <1>1, <2>1, <2>2, <2>3, <2>4, <2>5, OneRequestSteps, NotJobs
<1>12. CASE Apply
  BY <1>2, <1>12 DEF Apply
<1> QED BY <1>2, <1>3, <1>4, <1>5, <1>6, <1>7, <1>8, <1>9, <1>10, <1>11, <1>12 DEF Next, Serve, vars

\* Retries, failures and races never make a second job for a key, and no request
\* is given a job that is not committed or is another key's (job.service.ts:23-43).
THEOREM KeyInvariant == Spec => []KeyInv
BY InitKey, StepKey, PTL DEF Spec

-----------------------------------------------------------------------------
(* The refinement. *)

Callers == {r \in Requests : KeyOf[r] # NoKey}
Existing(k) == {j \in Committed : KeyOf[j[1]] = k}
JobOf(k) == IF Existing(k) = {} THEN NoJob ELSE CHOOSE j \in Existing(k) : TRUE
AnswerOf(r) == IF request[r].job \in Jobs THEN request[r].job ELSE NoJob

\* The job of a key is the committed one, if there is one.
LEMMA TheJobOf ==
  ASSUME KeyInv, NEW k \in Keys
  PROVE  /\ JobOf(k) = NoJob <=> \A j \in Committed : KeyOf[j[1]] # k
         /\ \A j \in Committed : KeyOf[j[1]] = k => JobOf(k) = j
<1>1. Committed \subseteq Jobs /\ k # NoKey
  BY CommittedJobs, RequestTypes DEF KeyInv
<1>2. JobOf(k) \in Existing(k) \/ (JobOf(k) = NoJob /\ Existing(k) = {})
  BY DEF JobOf
<1>3. \A i, j \in Existing(k) : i = j
  BY <1>1 DEF KeyInv, Single, SameKey, Existing
<1> QED BY <1>1, <1>2, <1>3, NotJobs DEF Existing

\* What one step may do to the jobs of the keys: nothing, or a first one.
LEMMA JobOfSteps ==
  ASSUME KeyInv, KeyInv', [Next]_vars
  PROVE  \/ \A k \in Keys : JobOf(k)' = JobOf(k)
         \/ \E k \in Keys, j \in Jobs :
              /\ JobOf(k) = NoJob /\ JobOf(k)' = j
              /\ \A other \in Keys : JobOf(other) # j
              /\ \A other \in Keys \ {k} : JobOf(other)' = JobOf(other)
              /\ \A r \in Requests : AnswerOf(r)' = AnswerOf(r)
<1>1. CASE log' = log
  BY <1>1 DEF JobOf, Existing, Committed
<1>2. ASSUME NEW r \in Requests, Commit(r)
      PROVE  \/ \A k \in Keys : JobOf(k)' = JobOf(k)
             \/ \E k \in Keys, j \in Jobs :
                  /\ JobOf(k) = NoJob /\ JobOf(k)' = j
                  /\ \A other \in Keys : JobOf(other) # j
                  /\ \A other \in Keys \ {k} : JobOf(other)' = JobOf(other)
                  /\ \A q \in Requests : AnswerOf(q)' = AnswerOf(q)
  <2> DEFINE job == <<r, request[r].try>>
             k == KeyOf[r]
  <2>1. Committed' = Committed \cup {job} /\ job \in Jobs /\ job[1] = r
    BY <1>2, CommitAdds DEF KeyInv
  <2> HIDE DEF job
  <2>2. \A other \in Keys : other # k => Existing(other)' = Existing(other)
    BY <2>1 DEF Existing
  <2>3. ASSUME NEW other \in Keys, other # k PROVE JobOf(other)' = JobOf(other)
    <3>1. Existing(other)' = Existing(other)
      BY <2>2, <2>3
    <3> QED BY <3>1 DEF JobOf
  <2>4. CASE k \in Keys
    <3>1. \A j \in Committed : KeyOf[j[1]] # k
      BY <1>2, <2>4, RequestTypes DEF Commit, KeyInv, Alone, Conflict, SameKey
    <3>2. JobOf(k) = NoJob
      BY <2>4, <3>1, TheJobOf
    <3>3. JobOf(k)' = job
      <4>1. Existing(k)' = {job}
        BY <2>1, <3>1 DEF Existing
      <4> QED BY <4>1 DEF JobOf
    <3>4. \A other \in Keys : JobOf(other) # job
      <4> SUFFICES ASSUME NEW other \in Keys, JobOf(other) = job PROVE FALSE
        OBVIOUS
      <4>1. job \in Existing(other)
        BY <2>1, NotJobs DEF JobOf
      <4> QED BY <2>1, <3>1, <4>1 DEF Existing
    <3>5. \A q \in Requests : request'[q].job = request[q].job
      BY <1>2, RequestType DEF Commit, Goto, KeyInv, Fields
    <3>6. \A q \in Requests : AnswerOf(q)' = AnswerOf(q)
      BY <3>5 DEF AnswerOf
    <3> HIDE DEF k
    <3> QED BY <2>1, <2>3, <2>4, <3>2, <3>3, <3>4, <3>6
  <2>5. CASE k \notin Keys
    BY <2>3, <2>5
  <2> QED BY <2>4, <2>5
<1>3. log' = log \/ \E r \in Requests : Commit(r)
  BY DEF Next, vars, Serve, Post, Retry, Look, Insert, Created, ReadPrimary, ReadReplica,
     InsertFails, PrimaryFails, ReplicaFails, Apply
<1> QED BY <1>1, <1>2, <1>3

\* What one step may do to the answers: nothing, or one gets the job of its key.
LEMMA AnswerSteps ==
  ASSUME KeyInv, KeyInv', [Next]_vars
  PROVE  \/ \A r \in Requests : AnswerOf(r)' = AnswerOf(r)
         \/ \E r \in Requests :
              /\ log' = log
              /\ AnswerOf(r) = NoJob
              /\ AnswerOf(r)' \in Committed /\ KeyOf[AnswerOf(r)'[1]] = KeyOf[r]
              /\ \A q \in Requests \ {r} : AnswerOf(q)' = AnswerOf(q)
<1>1. request \in [Requests -> Fields]
  BY RequestType DEF KeyInv
<1>2. CASE \A r \in Requests : request'[r].job = request[r].job
  BY <1>2 DEF AnswerOf
<1>3. ASSUME NEW r \in Requests, request[r].job \notin Jobs, log' = log,
             \A q \in Requests \ {r} : request'[q] = request[q]
      PROVE  \/ \A q \in Requests : AnswerOf(q)' = AnswerOf(q)
             \/ \E p \in Requests :
                  /\ log' = log
                  /\ AnswerOf(p) = NoJob
                  /\ AnswerOf(p)' \in Committed /\ KeyOf[AnswerOf(p)'[1]] = KeyOf[p]
                  /\ \A q \in Requests \ {p} : AnswerOf(q)' = AnswerOf(q)
  <2>1. /\ AnswerOf(r) = NoJob
        /\ \A q \in Requests \ {r} : AnswerOf(q)' = AnswerOf(q)
    BY <1>3 DEF AnswerOf
  <2>2. CASE request'[r].job \in Jobs
    <3>1. request'[r].job \in Committed /\ KeyOf[request'[r].job[1]] = KeyOf[r]
      BY <1>3, <2>2 DEF KeyInv, Rightly, Committed
    <3> QED BY <1>3, <2>1, <2>2, <3>1 DEF AnswerOf
  <2>3. CASE request'[r].job \notin Jobs
    BY <2>1, <2>3 DEF AnswerOf
  <2> QED BY <2>2, <2>3
<1>4. ASSUME NEW r \in Requests, \E rows \in {Committed, Applied} : Reply(r, rows),
             request[r].pc \in {"primary", "replica"}, log' = log
      PROVE  \/ \A q \in Requests : request'[q].job = request[q].job
             \/ request[r].job \notin Jobs /\ \A q \in Requests \ {r} : request'[q] = request[q]
  <2>1. PICK rows : rows \subseteq Committed /\ Reply(r, rows)
    BY <1>4, CommittedJobs DEF KeyInv
  <2>2. request[r].query = "key" => request[r].job = NoJob
    BY <1>4 DEF KeyInv, Given
  <2> QED BY <1>4, <2>1, <2>2, ReplyGives, NotJobs
<1>5. ASSUME NEW r \in Requests, ReadPrimary(r) \/ ReadReplica(r)
      PROVE  \/ \A q \in Requests : request'[q].job = request[q].job
             \/ /\ request[r].job \notin Jobs /\ log' = log
                /\ \A q \in Requests \ {r} : request'[q] = request[q]
  BY <1>4, <1>5 DEF ReadPrimary, ReadReplica, At
<1>6. ASSUME NEW r \in Requests, Created(r) \/ Retry(r)
      PROVE  /\ request[r].job \notin Jobs /\ log' = log
             /\ \A q \in Requests \ {r} : request'[q] = request[q]
  <2>1. request[r].job \in {NoJob, Nothing}
    BY <1>6 DEF Created, Retry, KeyInv, Given, At
  <2> QED BY <1>1, <1>6, <2>1, NotJobs DEF Created, Retry
<1>7. ASSUME NEW r \in Requests,
             \/ Post(r) \/ Look(r) \/ Insert(r) \/ Commit(r)
             \/ InsertFails(r) \/ PrimaryFails(r) \/ ReplicaFails(r)
      PROVE  \A q \in Requests : request'[q].job = request[q].job
  BY <1>1, <1>7 DEF Post, Look, Insert, Commit, InsertFails, PrimaryFails, ReplicaFails, Goto, Fields
<1>8. CASE UNCHANGED request
  BY <1>2, <1>8
<1> QED BY <1>2, <1>3, <1>5, <1>6, <1>7, <1>8 DEF Next, Serve, Apply, vars

LEMMA InitOnce == Init => Once!Init
<1> SUFFICES ASSUME Init PROVE Once!Init
  OBVIOUS
<1>1. Committed = {}
  BY DEF Init, Committed
<1>2. \A k \in Keys : JobOf(k) = NoJob
  BY <1>1 DEF JobOf, Existing
<1>3. \A r \in Requests : AnswerOf(r) = NoJob
  BY NotJobs DEF Init, AnswerOf
<1>4. [k \in Keys |-> JobOf(k)] = [k \in Keys |-> NoJob]
  BY <1>2
<1>5. [r \in Callers |-> AnswerOf(r)] = [r \in Callers |-> NoJob]
  BY <1>3 DEF Callers
<1> QED BY <1>4, <1>5 DEF Once!Init, JobOf, Existing, AnswerOf, Callers

\* The mapped variables, under the names above.
LEMMA MappedJobs ==
  Once!vars = <<[k \in Keys |-> JobOf(k)], [r \in Callers |-> AnswerOf(r)]>>
BY DEF Once!vars, JobOf, Existing, AnswerOf, Callers

LEMMA MappedCreate ==
  ASSUME NEW k \in Keys, NEW j \in Jobs, JobOf(k) = NoJob, JobOf(k)' = j,
         \A other \in Keys : JobOf(other) # j,
         \A other \in Keys \ {k} : JobOf(other)' = JobOf(other),
         \A r \in Callers : AnswerOf(r)' = AnswerOf(r)
  PROVE  Once!Create(k, j)
<1>1. [i \in Keys |-> JobOf(i)'] = [[i \in Keys |-> JobOf(i)] EXCEPT ![k] = j]
  OBVIOUS
<1>2. [r \in Callers |-> AnswerOf(r)'] = [r \in Callers |-> AnswerOf(r)]
  OBVIOUS
<1> QED BY <1>1, <1>2 DEF Once!Create, JobOf, Existing, AnswerOf, Callers

LEMMA MappedAnswer ==
  ASSUME NEW c \in Callers, AnswerOf(c) = NoJob, JobOf(KeyOf[c]) # NoJob,
         AnswerOf(c)' = JobOf(KeyOf[c]),
         \A r \in Callers \ {c} : AnswerOf(r)' = AnswerOf(r),
         \A k \in Keys : JobOf(k)' = JobOf(k)
  PROVE  Once!Answer(c)
<1>1. [r \in Callers |-> AnswerOf(r)'] = [[r \in Callers |-> AnswerOf(r)] EXCEPT ![c] = JobOf(KeyOf[c])]
  OBVIOUS
<1>2. [i \in Keys |-> JobOf(i)'] = [i \in Keys |-> JobOf(i)]
  OBVIOUS
<1>3. KeyOf[c] \in Keys
  BY RequestTypes DEF Callers
<1> QED BY <1>1, <1>2, <1>3 DEF Once!Answer, JobOf, Existing, AnswerOf, Callers

\* Every step creates the first job of a key, answers one caller with the job of
\* its key, or is not seen.
LEMMA StepOnce == KeyInv /\ KeyInv' /\ [Next]_vars => [Once!Next]_(Once!vars)
<1> SUFFICES ASSUME KeyInv, KeyInv', [Next]_vars
             PROVE  Once!Next \/ Once!vars' = Once!vars
  OBVIOUS
<1>1. CASE \E k \in Keys, j \in Jobs :
             /\ JobOf(k) = NoJob /\ JobOf(k)' = j
             /\ \A other \in Keys : JobOf(other) # j
             /\ \A other \in Keys \ {k} : JobOf(other)' = JobOf(other)
             /\ \A r \in Requests : AnswerOf(r)' = AnswerOf(r)
  <2>1. Callers \subseteq Requests
    BY DEF Callers
  <2>2. \E k \in Keys, j \in Jobs : Once!Create(k, j)
    BY <1>1, <2>1, MappedCreate
  <2> QED BY <2>2 DEF Once!Next
<1>2. CASE \A k \in Keys : JobOf(k)' = JobOf(k)
  <2>1. CASE \A c \in Callers : AnswerOf(c)' = AnswerOf(c)
    <3>1. /\ [k \in Keys |-> JobOf(k)'] = [k \in Keys |-> JobOf(k)]
          /\ [r \in Callers |-> AnswerOf(r)'] = [r \in Callers |-> AnswerOf(r)]
      BY <1>2, <2>1
    <3> QED BY <3>1 DEF Once!vars, JobOf, Existing, AnswerOf, Callers
  <2>2. ASSUME NEW c \in Callers, AnswerOf(c)' # AnswerOf(c) PROVE \E r \in Callers : Once!Answer(r)
    <3>1. c \in Requests /\ KeyOf[c] \in Keys
      BY RequestTypes DEF Callers
    <3>2. /\ log' = log
          /\ AnswerOf(c) = NoJob
          /\ AnswerOf(c)' \in Committed /\ KeyOf[AnswerOf(c)'[1]] = KeyOf[c]
          /\ \A q \in Requests \ {c} : AnswerOf(q)' = AnswerOf(q)
      BY <2>2, <3>1, AnswerSteps
    <3>3. AnswerOf(c)' = JobOf(KeyOf[c])
      BY <3>1, <3>2, TheJobOf
    <3>4. JobOf(KeyOf[c]) # NoJob
      BY <3>1, <3>2, TheJobOf
    <3>5. \A r \in Callers \ {c} : AnswerOf(r)' = AnswerOf(r)
      BY <3>2 DEF Callers
    <3> QED BY <1>2, <3>2, <3>3, <3>4, <3>5, MappedAnswer
  <2>3. CASE \E c \in Callers : AnswerOf(c)' # AnswerOf(c)
    <3>1. PICK r \in Callers : Once!Answer(r)
      BY <2>2, <2>3
    <3> QED BY <3>1 DEF Once!Next, Callers
  <2> QED BY <2>1, <2>3
<1> QED BY <1>1, <1>2, JobOfSteps

\* One job per key, whatever is retried, fails, is lost or races, and whoever is
\* given a job for a key is given that one: Submission implements SubmitOnce
\* (job.service.ts:23-43; README.md:139, 669), for any requests, keys and faults.
THEOREM OneJobPerKey == Spec => ImplementsSubmitOnce
<1>1. KeyInv /\ [Next]_vars => KeyInv'
  BY StepKey
<1>2. KeyInv /\ KeyInv' /\ [Next]_vars => [Once!Next]_(Once!vars)
  BY StepOnce
<1> QED BY <1>1, <1>2, InitKey, InitOnce, PTL DEF Spec, ImplementsSubmitOnce, Once!Spec

-----------------------------------------------------------------------------
(* What is missed, and what is not counted. *)

\* A set that grows by at most one element has at most one element more.
LEMMA GrowsByOne ==
  ASSUME NEW A, NEW B, NEW x, IsFiniteSet(A), B \subseteq A \cup {x}
  PROVE  /\ Cardinality(B) \in Nat /\ Cardinality(A) \in Nat
         /\ Cardinality(B) <= Cardinality(A) + 1
<1>1. Cardinality(A) \in Nat
  BY FS_CardinalityType
<1>2. /\ IsFiniteSet(A \cup {x})
      /\ Cardinality(A \cup {x}) = IF x \in A THEN Cardinality(A) ELSE Cardinality(A) + 1
  BY FS_AddElement
<1>3. IsFiniteSet(B) /\ Cardinality(B) <= Cardinality(A \cup {x})
  BY <1>2, FS_Subset
<1>4. Cardinality(B) \in Nat
  BY <1>3, FS_CardinalityType
<1> QED BY <1>1, <1>2, <1>3, <1>4

\* Requests that missed a job, or may miss one as they read from the replica: a
\* statement failed for each of them.
AtRisk == {r \in Requests : request[r].job = Nothing \/ At(r, "missing") \/ At(r, "replica")}

Paid == Cardinality(AtRisk) <= faults

MissInv == KeyInv /\ Paid

LEMMA InitMiss == Init => MissInv
<1> SUFFICES ASSUME Init PROVE MissInv
  OBVIOUS
<1>1. AtRisk = {}
  BY NotJobs DEF Init, AtRisk, At
<1> QED BY <1>1, FS_EmptySet, InitKey DEF MissInv, Paid, Init

LEMMA StepMiss == MissInv /\ [Next]_vars => MissInv'
<1> SUFFICES ASSUME MissInv, [Next]_vars PROVE MissInv'
  OBVIOUS
<1>1. KeyInv /\ KeyInv' /\ request \in [Requests -> Fields] /\ faults \in Nat
  BY StepKey, RequestType, BoundTypes DEF MissInv, KeyInv, TypeOK
<1>2. IsFiniteSet(AtRisk) /\ Cardinality(AtRisk) <= faults
  BY RequestTypes, FS_Subset DEF AtRisk, MissInv, Paid
<1>3. ASSUME AtRisk' \subseteq AtRisk, faults' = faults PROVE Paid'
  <2>1. IsFiniteSet(AtRisk') /\ Cardinality(AtRisk') <= Cardinality(AtRisk)
    BY <1>2, <1>3, FS_Subset
  <2>2. Cardinality(AtRisk') \in Nat /\ Cardinality(AtRisk) \in Nat
    BY <1>2, <2>1, FS_CardinalityType
  <2> QED BY <1>1, <1>2, <1>3, <2>1, <2>2 DEF Paid
<1>4. ASSUME NEW r \in Requests, AtRisk' \subseteq AtRisk \cup {r}, faults' = faults + 1 PROVE Paid'
  <2>1. /\ Cardinality(AtRisk') \in Nat /\ Cardinality(AtRisk) \in Nat
        /\ Cardinality(AtRisk') <= Cardinality(AtRisk) + 1
    BY <1>2, <1>4, GrowsByOne
  <2> QED BY <1>1, <1>2, <1>4, <2>1 DEF Paid
<1>5. ASSUME UNCHANGED <<request, faults>> PROVE Paid'
  BY <1>3, <1>5 DEF AtRisk, At
<1>6. ASSUME NEW r \in Requests,
             Post(r) \/ Retry(r) \/ Look(r) \/ Insert(r) \/ Commit(r) \/ Created(r)
      PROVE  Paid'
  <2>1. \A q \in Requests \ {r} : request'[q] = request[q]
    BY <1>1, <1>6 DEF Post, Retry, Look, Insert, Commit, Created, Goto
  <2>2. r \notin AtRisk'
    BY <1>1, <1>6, NotJobs DEF Post, Retry, Look, Insert, Commit, Created, Goto, AtRisk, At,
       KeyInv, Given, Fields, Jobs
  <2>3. AtRisk' \subseteq AtRisk
    BY <2>1, <2>2 DEF AtRisk, At
  <2> QED BY <1>3, <1>6, <2>3 DEF Post, Retry, Look, Insert, Commit, Created
<1>7. ASSUME NEW r \in Requests, ReadPrimary(r) PROVE Paid'
  <2>1. \A q \in Requests \ {r} : request'[q] = request[q]
    BY <1>1, <1>7, ReplyGives DEF ReadPrimary, At
  <2>2. request[r].query = "key" => \E j \in Committed : SameKey(r, j[1])
    BY <1>1, <1>7 DEF ReadPrimary, At, KeyInv, Conflicted, Conflict
  <2>3. request[r].query = "id" => request[r].job \in Committed
    BY <1>1, <1>7 DEF ReadPrimary, At, KeyInv, Given, Rightly
  <2>4. r \notin AtRisk'
    BY <1>1, <1>7, <2>2, <2>3, ReplyGives, CommittedJobs, NotJobs DEF ReadPrimary, At, KeyInv, AtRisk
  <2>5. AtRisk' \subseteq AtRisk
    BY <2>1, <2>4 DEF AtRisk, At
  <2> QED BY <1>3, <1>7, <2>5 DEF ReadPrimary
<1>8. ASSUME NEW r \in Requests, ReadReplica(r) PROVE Paid'
  <2>1. \A q \in Requests \ {r} : request'[q] = request[q]
    BY <1>1, <1>8, ReplyGives, CommittedJobs DEF ReadReplica, At, KeyInv
  <2>2. AtRisk' \subseteq AtRisk
    BY <1>8, <2>1 DEF ReadReplica, AtRisk, At
  <2> QED BY <1>3, <1>8, <2>2 DEF ReadReplica
<1>9. ASSUME NEW r \in Requests, InsertFails(r) \/ PrimaryFails(r) \/ ReplicaFails(r) PROVE Paid'
  <2>1. AtRisk' \subseteq AtRisk \cup {r}
    BY <1>1, <1>9 DEF InsertFails, PrimaryFails, ReplicaFails, Goto, AtRisk, At
  <2>2. faults' = faults + 1
    BY <1>9 DEF InsertFails, PrimaryFails, ReplicaFails, Fault
  <2> QED BY <1>4, <2>1, <2>2
<1>10. Paid'
  BY <1>5, <1>6, <1>7, <1>8, <1>9 DEF Next, Serve, Apply, vars
<1> QED BY <1>1, <1>10 DEF MissInv

\* A job is missed only where a read of the primary failed, once at most for each
\* failure (job.service.ts:32-43, 57-62, db/client.ts:23-30), for any requests.
THEOREM MissedOnlyByFailureHolds == Spec => []MissedOnlyByFailure
<1>1. MissInv => MissedOnlyByFailure
  <2> SUFFICES ASSUME MissInv PROVE MissedOnlyByFailure
    OBVIOUS
  <2> DEFINE Missed == {r \in Requests : request[r].job = Nothing \/ At(r, "missing")}
  <2>1. Missed \subseteq AtRisk /\ IsFiniteSet(AtRisk)
    BY RequestTypes, FS_Subset DEF AtRisk
  <2>2. /\ Cardinality(Missed) \in Nat /\ Cardinality(AtRisk) \in Nat
        /\ Cardinality(Missed) <= Cardinality(AtRisk)
    BY <2>1, FS_Subset, FS_CardinalityType
  <2>3. Cardinality(AtRisk) <= faults /\ faults \in Nat
    BY BoundTypes DEF MissInv, Paid, KeyInv, TypeOK
  <2> QED BY <2>2, <2>3 DEF MissedOnlyByFailure
<1> QED BY <1>1, InitMiss, StepMiss, PTL DEF Spec

\* Requests whose INSERT is committed and not answered.
Unanswered == {r \in Requests : At(r, "created")}

\* The count is behind the log by those, and by answers that were lost.
Tally ==
  /\ Cardinality(Unanswered) <= Len(log) - submitted
  /\ Len(log) - submitted <= Cardinality(Unanswered) + faults

CountInv == TypeOK /\ Tally

LEMMA InitCount == Init => CountInv
<1> SUFFICES ASSUME Init PROVE CountInv
  OBVIOUS
<1>1. Unanswered = {}
  BY DEF Init, Unanswered, At
<1>2. Cardinality(Unanswered) = 0
  BY <1>1, FS_EmptySet
<1>3. Len(log) = 0 /\ submitted = 0 /\ faults = 0
  BY DEF Init
<1> QED BY <1>2, <1>3, InitType DEF CountInv, Tally

LEMMA StepCount == CountInv /\ [Next]_vars => CountInv'
<1> SUFFICES ASSUME CountInv, [Next]_vars PROVE CountInv'
  OBVIOUS
<1>1. /\ TypeOK /\ TypeOK' /\ request \in [Requests -> Fields]
      /\ submitted \in Nat /\ faults \in Nat /\ Len(log) \in Nat
  BY StepType, RequestType, BoundTypes DEF CountInv, TypeOK
<1>2. /\ IsFiniteSet(Unanswered) /\ Cardinality(Unanswered) \in Nat
      /\ Cardinality(Unanswered) <= Len(log) - submitted
      /\ Len(log) - submitted <= Cardinality(Unanswered) + faults
  BY RequestTypes, FS_Subset, FS_CardinalityType DEF Unanswered, CountInv, Tally
<1>3. ASSUME Unanswered' = Unanswered, UNCHANGED <<log, submitted>>, faults' \in {faults, faults + 1}
      PROVE  Tally'
  BY <1>1, <1>2, <1>3 DEF Tally
<1>4. ASSUME UNCHANGED <<request, log, submitted, faults>> PROVE Tally'
  <2>1. Unanswered' = Unanswered
    BY <1>4 DEF Unanswered, At
  <2> QED BY <1>3, <1>4, <2>1
<1>5. ASSUME NEW r \in Requests,
             \/ Post(r) \/ Retry(r) \/ Look(r) \/ Insert(r)
             \/ ReadPrimary(r) \/ ReadReplica(r) \/ PrimaryFails(r) \/ ReplicaFails(r)
      PROVE  Tally'
  <2>1. /\ \A q \in Requests \ {r} : request'[q] = request[q]
        /\ request[r].pc # "created" /\ request'[r].pc # "created"
    BY <1>1, <1>5 DEF Post, Retry, Look, Insert, ReadPrimary, ReadReplica, PrimaryFails, ReplicaFails,
       Reply, Goto, At, Fields
  <2>2. Unanswered' = Unanswered
    BY <2>1 DEF Unanswered, At
  <2>3. UNCHANGED <<log, submitted>> /\ faults' \in {faults, faults + 1}
    BY <1>5 DEF Post, Retry, Look, Insert, ReadPrimary, ReadReplica, PrimaryFails, ReplicaFails, Fault
  <2> QED BY <1>3, <2>2, <2>3
<1>6. ASSUME NEW r \in Requests, Commit(r) PROVE Tally'
  <2>1. Unanswered' = Unanswered \cup {r} /\ r \notin Unanswered
    BY <1>1, <1>6 DEF Commit, Goto, At, Unanswered, Fields
  <2>2. Cardinality(Unanswered') = Cardinality(Unanswered) + 1
    BY <1>2, <2>1, FS_AddElement
  <2>3. Len(log') = Len(log) + 1 /\ UNCHANGED <<submitted, faults>>
    BY <1>1, <1>6, CommitAdds DEF Commit
  <2> QED BY <1>1, <1>2, <2>2, <2>3 DEF Tally
<1>7. ASSUME NEW r \in Requests, At(r, "created"), request'[r].pc # "created",
             \A q \in Requests \ {r} : request'[q] = request[q]
      PROVE  Cardinality(Unanswered') = Cardinality(Unanswered) - 1
  <2>1. Unanswered' = Unanswered \ {r} /\ r \in Unanswered
    BY <1>7 DEF Unanswered, At
  <2> QED BY <1>2, <2>1, FS_RemoveElement
<1>8. ASSUME NEW r \in Requests, Created(r) PROVE Tally'
  <2>1. /\ At(r, "created") /\ request'[r].pc # "created"
        /\ \A q \in Requests \ {r} : request'[q] = request[q]
    BY <1>1, <1>8 DEF Created, Fields
  <2>2. submitted' = submitted + 1 /\ UNCHANGED <<log, faults>>
    BY <1>8 DEF Created
  <2>3. Cardinality(Unanswered') = Cardinality(Unanswered) - 1
    BY <1>7, <2>1
  <2> QED BY <1>1, <1>2, <2>2, <2>3 DEF Tally
<1>9. ASSUME NEW r \in Requests, InsertFails(r) PROVE Tally'
  <2>1. /\ request'[r].pc # "created" /\ \A q \in Requests \ {r} : request'[q] = request[q]
        /\ faults' = faults + 1 /\ UNCHANGED <<log, submitted>>
    BY <1>1, <1>9 DEF InsertFails, Goto, Fault, Fields
  <2>2. CASE At(r, "created")
    <3>1. Cardinality(Unanswered') = Cardinality(Unanswered) - 1
      BY <1>7, <2>1, <2>2
    <3> QED BY <1>1, <1>2, <2>1, <3>1 DEF Tally
  <2>3. CASE ~ At(r, "created")
    <3>1. Unanswered' = Unanswered
      BY <2>1, <2>3 DEF Unanswered, At
    <3> QED BY <1>3, <2>1, <3>1
  <2> QED BY <2>2, <2>3
<1>10. Tally'
  BY <1>4, <1>5, <1>6, <1>8, <1>9 DEF Next, Serve, Apply, vars
<1> QED BY <1>1, <1>10 DEF CountInv

\* jobs_submitted_total counts created jobs, once each, and misses only those
\* whose INSERT's answer was lost (job.service.ts:36-47), for any requests.
THEOREM SubmittedCountedHolds == Spec => []SubmittedCounted
<1>1. CountInv => SubmittedCounted
  <2> SUFFICES ASSUME CountInv PROVE SubmittedCounted
    OBVIOUS
  <2>1. IsFiniteSet(Unanswered)
    BY RequestTypes, FS_Subset DEF Unanswered
  <2>2. Cardinality(Unanswered) \in Nat
    BY <2>1, FS_CardinalityType
  <2>3. Len(log) \in Nat /\ submitted \in Nat /\ faults \in Nat
    BY BoundTypes DEF CountInv, TypeOK
  <2> QED BY <2>2, <2>3 DEF CountInv, Tally, SubmittedCounted, Unanswered
<1> QED BY <1>1, InitCount, StepCount, PTL DEF Spec

=============================================================================
