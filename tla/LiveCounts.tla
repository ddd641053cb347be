----------------------------- MODULE LiveCounts -----------------------------
(***************************************************************************)
(* How the counts of a tenant's jobs reach its dashboards: the counts      *)
(* cache in Redis (countsCache.ts, getJobCounts), its invalidation, the    *)
(* LISTEN/NOTIFY fan-out to the API replicas, the WebSocket push           *)
(* (websocket.ts) and the page that refetches when it is told              *)
(* (Dashboard.tsx, useJobCounts.ts, useWebSocket.ts).                      *)
(*                                                                         *)
(* The counts are abstracted to a version: the number of status changes of *)
(* the tenant's jobs so far.  Calls marked "void" in the code are not      *)
(* awaited: they are sent, and executed at some later step; Redis executes *)
(* what one replica sends in the order it is sent.  Time is a set of ages  *)
(* that Tick moves on.  The read replica, which serves only when the       *)
(* primary is down, and the table of jobs are left out.                    *)
(***************************************************************************)
EXTENDS Integers, Sequences

CONSTANTS
  Dashboards,  \* open pages of one tenant
  Replicas,    \* API processes
  Fetches,     \* bound: requests for counts in flight
  Sources,     \* who changes jobs: a subset of {"worker", "cancel", "submit", "sweep"}
  TTL,         \* TTL_SECONDS, in ticks
  Delay,       \* bound: ticks from reading the counts to SETEX
  MaxChanges,  \* bound: status changes
  MaxLost,     \* bound: calls, messages, connections and processes lost
  MaxEvents,   \* bound: no change or loss after so many of both
  NoOne,       \* no replica, or no page
  NoValue      \* null

ASSUME Bounds ==
  /\ TTL \in Nat \ {0} /\ Delay \in Nat
  /\ MaxChanges \in Nat /\ MaxLost \in Nat /\ MaxEvents \in Nat
ASSUME Nobody == NoOne \notin Replicas \cup Dashboards \cup Fetches /\ NoValue \notin Int
ASSUME SourceNames == Sources \subseteq {"worker", "cancel", "submit", "sweep"}

VARIABLES
  db,        \* the version of the counts in PostgreSQL
  cache,     \* the key counts:<tenant>; excused: a change its counts miss was
             \* invalidated before they were stored, or never is
  fetch,     \* fetch[f]: a GET /jobs/counts
  queue,     \* queue[r]: what r has sent to Redis and does not await: Del, or
             \* the fetch whose counts are to be stored
  owed,      \* changes committed by workers whose pg_notify is still to come
  inbox,     \* inbox[r]: notifications on their way to replica r
  conn,      \* conn[d]: the replica that holds the page's WebSocket
  authed,    \* the pages whose socket has been given its tenant
  due,       \* due[d]: refetches the page has still to send
  shown,     \* shown[d]: the version the page shows
  waiting,   \* history: the pages that were authenticated when a worker changed a
             \* job and have sent no request since
  lost       \* how much of MaxLost is used up

vars == <<db, cache, fetch, queue, owed, inbox, conn, authed, due, shown, waiting, lost>>

Versions == 0 .. MaxChanges

Del == NoOne  \* DEL counts:<tenant>

Empty == [value |-> NoValue, left |-> 0, outdated |-> 0, excused |-> FALSE]
NoFetch == [pc |-> "idle", page |-> NoOne, at |-> NoOne, value |-> NoValue, age |-> 0,
            outdated |-> 0, excused |-> FALSE]

Init ==
  /\ db = 0
  /\ cache = Empty
  /\ fetch = [f \in Fetches |-> NoFetch]
  /\ queue = [r \in Replicas |-> <<>>] /\ owed = 0
  /\ inbox = [r \in Replicas |-> 0]
  /\ conn = [d \in Dashboards |-> NoOne]
  /\ authed = {}
  /\ due = [d \in Dashboards |-> 1]
  /\ shown = [d \in Dashboards |-> 0]
  /\ waiting = {}
  /\ lost = 0

Lose == lost < MaxLost /\ db + lost < MaxEvents /\ lost' = lost + 1

-----------------------------------------------------------------------------
(* Changes of job status. *)

Change(source) == source \in Sources /\ db < MaxChanges /\ db + lost < MaxEvents /\ db' = db + 1

\* A claim, an ack or a nack commits; its notification is a statement of its own.
WorkerChange ==
  /\ Change("worker")
  /\ owed' = owed + 1
  /\ waiting' = IF lost = 0 THEN waiting \cup authed ELSE waiting
  /\ UNCHANGED <<cache, fetch, queue, inbox, conn, authed, due, shown, lost>>

\* Counts read and not stored yet: an invalidation that comes now is too early.
Unstored(f) == fetch[f].pc \in {"read", "loaded", "answered"}

UnstoredExcused ==
  [f \in Fetches |-> IF Unstored(f) THEN [fetch[f] EXCEPT !.excused = TRUE] ELSE fetch[f]]

\* The sweep notifies nobody: no invalidation follows for the counts read so far.
Sweep ==
  /\ Change("sweep")
  /\ cache' = IF cache = Empty THEN Empty ELSE [cache EXCEPT !.excused = TRUE]
  /\ fetch' = UnstoredExcused
  /\ UNCHANGED <<queue, owed, inbox, conn, authed, due, shown, waiting, lost>>

\* The sockets that broadcast finds at r.
Sockets(r) == {d \in authed : conn[d] = r}

\* Each page in pages refetches, and once more if it acted.
Told(pages, actor) ==
  [d \in Dashboards |-> due[d] + (IF d \in pages THEN 1 ELSE 0) + (IF d = actor THEN 1 ELSE 0)]

\* Mutant: nothing is sent.
InvalidateNot(r) == queue

\* invalidateCounts: r sends a DEL.
Invalidate(r) == [queue EXCEPT ![r] = Append(@, Del)]

\* Replica r cancels or retries a job for a page or for another client: it
\* invalidates, and pushes to its own sockets only.  When the answer of the
\* UPDATE is lost it does neither, and the page refetches after the error.
CancelOrRetry(r, actor) ==
  /\ Change("cancel")
  /\ \/ queue' = Invalidate(r) /\ due' = Told(Sockets(r), actor) /\ UNCHANGED lost
     \/ Lose /\ due' = Told({}, actor) /\ UNCHANGED queue
  /\ UNCHANGED <<cache, fetch, owed, inbox, conn, authed, shown, waiting>>

\* A job submitted to replica r: the counts are invalidated, nothing is pushed.
\* The page of a submission that fails does not refetch.
Submit(r, actor) ==
  /\ Change("submit")
  /\ \/ queue' = Invalidate(r) /\ due' = Told({}, actor) /\ UNCHANGED lost
     \/ Lose /\ UNCHANGED <<queue, due>>
  /\ UNCHANGED <<cache, fetch, owed, inbox, conn, authed, shown, waiting>>

-----------------------------------------------------------------------------
(* Notifications and the push. *)

\* Mutant: one replica hears.
NotifiedOne == LET some == CHOOSE r \in Replicas : TRUE IN [inbox EXCEPT ![some] = @ + 1]

\* Every replica LISTENs.
Notified == [r \in Replicas |-> inbox[r] + 1]

\* pg_notify, or its failure.
Notify ==
  /\ owed > 0
  /\ owed' = owed - 1
  /\ \/ inbox' = Notified /\ UNCHANGED lost
     \/ Lose /\ UNCHANGED inbox
  /\ UNCHANGED <<db, cache, fetch, queue, conn, authed, due, shown, waiting>>

\* The listener of r invalidates (void) and broadcasts.
Hear(r) ==
  /\ inbox[r] > 0
  /\ inbox' = [inbox EXCEPT ![r] = @ - 1]
  /\ queue' = Invalidate(r)
  /\ due' = Told(Sockets(r), NoOne)
  /\ UNCHANGED <<db, cache, fetch, owed, conn, authed, shown, waiting, lost>>

\* The listener's connection breaks; it listens again, but what was sent is gone.
ListenerDrops(r) ==
  /\ inbox[r] > 0 /\ Lose
  /\ inbox' = [inbox EXCEPT ![r] = 0]
  /\ UNCHANGED <<db, cache, fetch, queue, owed, conn, authed, due, shown, waiting>>

Disconnect(d) ==
  /\ conn[d] # NoOne /\ Lose
  /\ conn' = [conn EXCEPT ![d] = NoOne]
  /\ authed' = authed \ {d}
  /\ UNCHANGED <<db, cache, fetch, queue, owed, inbox, due, shown, waiting>>

\* A process ends, for instance because the lookup of a socket's tenant throws
\* in the connection handler, and is started again: its sockets are closed, its
\* requests fail, what it has not sent or heard is gone.
ReplicaDies(r) ==
  /\ Lose
  /\ conn' = [d \in Dashboards |-> IF conn[d] = r THEN NoOne ELSE conn[d]]
  /\ authed' = authed \ Sockets(r)
  /\ fetch' = [f \in Fetches |-> IF fetch[f].at = r THEN NoFetch ELSE fetch[f]]
  /\ queue' = [queue EXCEPT ![r] = <<>>]
  /\ inbox' = [inbox EXCEPT ![r] = 0]
  /\ UNCHANGED <<db, cache, owed, due, shown, waiting>>

\* The page connects, at first or again, to any replica and does not refetch.
Connect(d, r) ==
  /\ conn[d] = NoOne
  /\ conn' = [conn EXCEPT ![d] = r]
  /\ UNCHANGED <<db, cache, fetch, queue, owed, inbox, authed, due, shown, waiting, lost>>

\* The tenant of the socket's key has been looked up: broadcast finds it.
Authenticate(d) ==
  /\ conn[d] # NoOne /\ d \notin authed
  /\ authed' = authed \cup {d}
  /\ UNCHANGED <<db, cache, fetch, queue, owed, inbox, conn, due, shown, waiting, lost>>

-----------------------------------------------------------------------------
(* Redis and the requests for counts. *)

\* The page sends a refetch, which nginx gives to some replica.
Send(f, d, r) ==
  /\ due[d] > 0 /\ fetch[f] = NoFetch
  /\ due' = [due EXCEPT ![d] = @ - 1]
  /\ fetch' = [fetch EXCEPT ![f] = [NoFetch EXCEPT !.pc = "sent", !.page = d, !.at = r]]
  /\ waiting' = waiting \ {d}
  /\ UNCHANGED <<db, cache, queue, owed, inbox, conn, authed, shown, lost>>

\* Mutant: null is taken for counts.
HitUnchecked == TRUE

Hit == cache # Empty

\* Mutant: a hit renews the entry.
CacheAfterHitRenewed == [cache EXCEPT !.left = TTL]

CacheAfterHit == cache

\* The replica has sent Redis nothing that is still to be executed.
Turn(f) == queue[fetch[f].at] = <<>>

\* GET finds the counts.
GetHit(f) ==
  /\ fetch[f].pc = "sent" /\ Turn(f) /\ Hit
  /\ fetch' = [fetch EXCEPT ![f].pc = "stored", ![f].value = cache.value]
  /\ cache' = CacheAfterHit
  /\ UNCHANGED <<db, queue, owed, inbox, conn, authed, due, shown, waiting, lost>>

\* GET finds nothing, or fails.
GetMiss(f) ==
  /\ fetch[f].pc = "sent" /\ Turn(f)
  /\ (~ Hit /\ UNCHANGED lost) \/ Lose
  /\ fetch' = [fetch EXCEPT ![f].pc = "missed"]
  /\ UNCHANGED <<db, cache, queue, owed, inbox, conn, authed, due, shown, waiting>>

\* PostgreSQL counts.
Read(f) ==
  /\ fetch[f].pc = "missed"
  /\ fetch' = [fetch EXCEPT ![f].pc = "read", ![f].value = db]
  /\ UNCHANGED <<db, cache, queue, owed, inbox, conn, authed, due, shown, waiting, lost>>

\* The counts reach the replica, which sends SETEX (void) and the reply.
Return(f) ==
  /\ fetch[f].pc = "read"
  /\ fetch' = [fetch EXCEPT ![f].pc = "loaded"]
  /\ queue' = [queue EXCEPT ![fetch[f].at] = Append(@, f)]
  /\ UNCHANGED <<db, cache, owed, inbox, conn, authed, due, shown, waiting, lost>>

ExecuteDel == cache' = Empty /\ fetch' = UnstoredExcused

Stored(f) ==
  [fetch EXCEPT ![f] = IF @.pc = "answered" THEN NoFetch
                       ELSE [@ EXCEPT !.pc = "stored", !.age = 0, !.outdated = 0, !.excused = FALSE]]

ExecuteSetex(f) ==
  /\ cache' = [value |-> fetch[f].value, left |-> TTL,
               outdated |-> fetch[f].outdated, excused |-> fetch[f].excused]
  /\ fetch' = Stored(f)

\* Redis executes the next command of r that nobody awaits, or it fails.
Execute(r) ==
  /\ queue[r] # <<>>
  /\ queue' = [queue EXCEPT ![r] = Tail(@)]
  /\ LET command == Head(queue[r]) IN
     \/ /\ IF command = Del THEN ExecuteDel ELSE ExecuteSetex(command)
        /\ UNCHANGED lost
     \/ /\ fetch' = IF command = Del THEN fetch ELSE Stored(command)
        /\ Lose /\ UNCHANGED cache
  /\ UNCHANGED <<db, owed, inbox, conn, authed, due, shown, waiting>>

\* The reply arrives and is shown, whatever is shown already; or it is lost,
\* and what is shown stays.
Answer(f) ==
  /\ fetch[f].pc \in {"loaded", "stored"}
  /\ \/ shown' = [shown EXCEPT ![fetch[f].page] = fetch[f].value] /\ UNCHANGED lost
     \/ Lose /\ UNCHANGED shown
  /\ fetch' = [fetch EXCEPT ![f] = IF @.pc = "stored" THEN NoFetch ELSE [@ EXCEPT !.pc = "answered"]]
  /\ UNCHANGED <<db, cache, queue, owed, inbox, conn, authed, due, waiting>>

-----------------------------------------------------------------------------
\* Ticks since a copy of the counts was superseded, a tick later.
Older(copy) == IF copy.value < db THEN copy.outdated + 1 ELSE 0

\* A tick: entries run out, copies get older.
Tick ==
  /\ \A f \in Fetches : Unstored(f) => fetch[f].age < Delay
  /\ cache' = IF cache.left <= 1 THEN Empty ELSE [cache EXCEPT !.left = @ - 1, !.outdated = Older(cache)]
  /\ fetch' = [f \in Fetches |-> IF Unstored(f) THEN [fetch[f] EXCEPT !.age = @ + 1, !.outdated = Older(fetch[f])]
                                ELSE fetch[f]]
  /\ UNCHANGED <<db, queue, owed, inbox, conn, authed, due, shown, waiting, lost>>

FetchStep(f) ==
  (\E d \in Dashboards, r \in Replicas : Send(f, d, r)) \/ GetHit(f) \/ GetMiss(f) \/ Read(f) \/ Return(f) \/ Answer(f)

Next ==
  \/ WorkerChange \/ Sweep
  \/ \E actor \in Dashboards \cup {NoOne}, r \in Replicas : Submit(r, actor) \/ CancelOrRetry(r, actor)
  \/ Notify \/ Tick
  \/ \E r \in Replicas : Hear(r) \/ ListenerDrops(r) \/ ReplicaDies(r) \/ Execute(r)
  \/ \E d \in Dashboards : Disconnect(d) \/ Authenticate(d) \/ \E r \in Replicas : Connect(d, r)
  \/ \E f \in Fetches : FetchStep(f)

Spec == Init /\ [][Next]_vars

\* Whatever was sent arrives, requests are answered and time goes on.
Fairness ==
  /\ WF_vars(Notify) /\ WF_vars(Tick)
  /\ \A r \in Replicas : WF_vars(Hear(r)) /\ WF_vars(Execute(r))
  /\ \A d \in Dashboards : WF_vars(\E r \in Replicas : Connect(d, r)) /\ WF_vars(Authenticate(d))
  /\ \A f \in Fetches : WF_vars(FetchStep(f))

FairSpec == Spec /\ Fairness

-----------------------------------------------------------------------------
(* Correctness. *)

\* Every variable holds values of its type.
TypeOK ==
  /\ db \in Versions
  /\ cache = Empty \/ cache \in [value : Versions, left : 1 .. TTL, outdated : Nat, excused : BOOLEAN]
  /\ fetch \in [Fetches -> [pc : {"idle", "sent", "missed", "read", "loaded", "stored", "answered"},
                            page : Dashboards \cup {NoOne}, at : Replicas \cup {NoOne},
                            value : Versions \cup {NoValue}, age : 0 .. Delay,
                            outdated : 0 .. Delay, excused : BOOLEAN]]
  /\ \A f \in Fetches : fetch[f].pc \in {"read", "loaded", "stored", "answered"} => fetch[f].value \in Versions
  /\ queue \in [Replicas -> Seq(Fetches \cup {Del})] /\ owed \in Nat /\ lost \in Nat
  /\ inbox \in [Replicas -> Nat]
  /\ conn \in [Dashboards -> Replicas \cup {NoOne}]
  /\ authed \in SUBSET {d \in Dashboards : conn[d] # NoOne}
  /\ waiting \in SUBSET Dashboards
  /\ due \in [Dashboards -> Nat]
  /\ shown \in [Dashboards -> Versions]

\* The cache never holds counts that were superseded longer ago than its TTL
\* and the time from reading them to storing them, whatever is lost and
\* however invalidations race with it (countsCache.ts:3, 26-32).
CacheAgeBounded == cache # Empty => cache.outdated <= TTL + Delay

\* The invalidations work, but for one race and the sweep: as long as no call is
\* lost, stale counts sit in the cache only while an invalidation is under way,
\* or when they were read before a change and stored after its invalidation, or
\* when the change was a sweep's (websocket.ts:21, job.service.ts:49, 119-132,
\* 145, worker.ts:15-20).
StaleOnlyByRace ==
  (lost = 0 /\ cache # Empty /\ cache.value < db) =>
    \/ cache.excused
    \/ owed > 0
    \/ \E r \in Replicas : inbox[r] > 0 \/ \E i \in DOMAIN queue[r] : queue[r][i] = Del

\* A page with an authenticated socket asks for the counts after every change by a
\* worker, whichever replica holds the socket: as long as nothing is lost, the
\* notification is still to come, or the refetch (websocket.ts:18-22, 52-57,
\* Dashboard.tsx:21-30, README.md:254).  Of what happened before its socket was
\* given a tenant, of sweeps and of what clients do elsewhere no page is told.
PageIsTold ==
  lost = 0 => \A d \in waiting : due[d] > 0 \/ owed > 0 \/ inbox[conn[d]] > 0

-----------------------------------------------------------------------------
(* What the README says of the program and the program does not keep. *)

\* Live counts, updated on every job change (README.md:264): when the changes
\* come to an end, and all came after the sockets had been authenticated, every
\* page shows the counts in the end.
CountsConverge ==
  [](authed # Dashboards => db = 0) => <>[](\A d \in Dashboards : shown[d] = db)

=============================================================================
