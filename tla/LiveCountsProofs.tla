-------------------------- MODULE LiveCountsProofs --------------------------
(***************************************************************************)
(* What LiveCounts keeps for any number of pages, replicas and requests,   *)
(* any TTL and any losses: its types, how old the cache's counts may be,   *)
(* that pages are told of changes, and where stale counts come from.       *)
(*                                                                         *)
(* QueueInv is about the commands that nobody awaits: a SETEX that is      *)
(* queued is that of a request whose counts are read, and is queued once.  *)
(***************************************************************************)
EXTENDS LiveCounts, SequenceTheorems, TLAPS

CacheTypes == [value : Versions, left : 1 .. TTL, outdated : Nat, excused : BOOLEAN]

Phases == {"idle", "sent", "missed", "read", "loaded", "stored", "answered"}

FetchTypes == [pc : Phases, page : Dashboards \cup {NoOne}, at : Replicas \cup {NoOne},
               value : Versions \cup {NoValue}, age : 0 .. Delay,
               outdated : 0 .. Delay, excused : BOOLEAN]

Commands == Fetches \cup {Del}

Has(s, x) == \E i \in DOMAIN s : s[i] = x

\* No request is in the sequence twice.
Distinct(s) == \A i, j \in DOMAIN s : s[i] = s[j] /\ s[i] \in Fetches => i = j

\* What is queued at a replica are its requests, with their counts, once each.
Queued ==
  \A r \in Replicas :
    /\ Distinct(queue[r])
    /\ \A f \in Fetches : Has(queue[r], f) => fetch[f].at = r /\ fetch[f].pc \in {"loaded", "answered"}

\* Counts on their way cannot have been superseded before they were read.
Young == \A f \in Fetches : fetch[f].outdated <= fetch[f].age

QueueInv == TypeOK /\ Queued /\ Young

\* A copy gets older as its lease on the cache gets shorter.
CacheYoung == cache # Empty => cache.outdated + cache.left <= TTL + Delay

AgeInv == QueueInv /\ CacheYoung

\* Who is waiting has a socket that its replica finds.
WaitingAuthed == lost = 0 => waiting \subseteq authed

ToldInv == QueueInv /\ WaitingAuthed /\ PageIsTold

\* An invalidation is under way.
UnderWay == owed > 0 \/ \E r \in Replicas : inbox[r] > 0 \/ Has(queue[r], Del)

\* Whoever can hold counts is at a replica, so a notification reaches one.
AtReplica ==
  /\ cache # Empty => Replicas # {}
  /\ \A f \in Fetches : fetch[f].pc # "idle" => fetch[f].at \in Replicas

\* Stale counts, stored or still to be stored, are excused or will be deleted.
Excused ==
  lost = 0 =>
    /\ cache # Empty /\ cache.value < db => cache.excused \/ UnderWay
    /\ \A f \in Fetches : Unstored(f) /\ fetch[f].value < db => fetch[f].excused \/ UnderWay

RaceInv == QueueInv /\ AtReplica /\ Excused

-----------------------------------------------------------------------------
(* Queues. *)

\* What Append adds, and nothing else, is new.
LEMMA AppendHas ==
  ASSUME NEW S, NEW s \in Seq(S), NEW x \in S
  PROVE  /\ Append(s, x) \in Seq(S)
         /\ \A y : Has(Append(s, x), y) <=> Has(s, y) \/ y = x
<1>1. /\ Append(s, x) \in Seq(S) /\ DOMAIN Append(s, x) = 1 .. Len(s) + 1 /\ DOMAIN s = 1 .. Len(s)
      /\ Len(s) \in Nat
  OBVIOUS
<1>2. Append(s, x)[Len(s) + 1] = x /\ \A i \in 1 .. Len(s) : Append(s, x)[i] = s[i]
  OBVIOUS
<1>3. ASSUME NEW y, Has(Append(s, x), y) PROVE Has(s, y) \/ y = x
  <2>1. PICK i \in 1 .. Len(s) + 1 : Append(s, x)[i] = y
    BY <1>1, <1>3 DEF Has
  <2>2. CASE i = Len(s) + 1
    BY <1>2, <2>1, <2>2
  <2>3. CASE i \in 1 .. Len(s)
    BY <1>1, <1>2, <2>1, <2>3 DEF Has
  <2> QED BY <1>1, <2>2, <2>3
<1>4. ASSUME NEW y, Has(s, y) PROVE Has(Append(s, x), y)
  <2>1. PICK i \in 1 .. Len(s) : s[i] = y
    BY <1>1, <1>4 DEF Has
  <2>2. i \in DOMAIN Append(s, x) /\ Append(s, x)[i] = y
    BY <1>1, <1>2, <2>1
  <2> QED BY <2>2 DEF Has
<1>5. Has(Append(s, x), x)
  <2>1. Len(s) + 1 \in DOMAIN Append(s, x)
    BY <1>1
  <2> QED BY <1>2, <2>1 DEF Has
<1> QED BY <1>1, <1>3, <1>4, <1>5

LEMMA AppendDistinct ==
  ASSUME NEW s \in Seq(Commands), Distinct(s), NEW x \in Commands, x \in Fetches => ~ Has(s, x)
  PROVE  Distinct(Append(s, x))
<1>1. /\ DOMAIN Append(s, x) = 1 .. Len(s) + 1 /\ DOMAIN s = 1 .. Len(s) /\ Len(s) \in Nat
      /\ Append(s, x)[Len(s) + 1] = x /\ \A i \in 1 .. Len(s) : Append(s, x)[i] = s[i]
  OBVIOUS
<1> SUFFICES ASSUME NEW i \in 1 .. Len(s) + 1, NEW j \in 1 .. Len(s) + 1,
                    Append(s, x)[i] = Append(s, x)[j], Append(s, x)[i] \in Fetches
             PROVE  i = j
  BY <1>1 DEF Distinct
<1>2. CASE i \in 1 .. Len(s) /\ j \in 1 .. Len(s)
  BY <1>1, <1>2 DEF Distinct
<1>3. CASE i = Len(s) + 1 /\ j \in 1 .. Len(s)
  BY <1>1, <1>3 DEF Has
<1>4. CASE j = Len(s) + 1 /\ i \in 1 .. Len(s)
  BY <1>1, <1>4 DEF Has
<1> QED BY <1>1, <1>2, <1>3, <1>4

\* Executing the first command leaves the others, and not that of a request.
LEMMA TailHas ==
  ASSUME NEW s \in Seq(Commands), s # <<>>, Distinct(s)
  PROVE  /\ Head(s) \in Commands /\ Has(s, Head(s)) /\ Tail(s) \in Seq(Commands) /\ Distinct(Tail(s))
         /\ \A y : Has(Tail(s), y) => Has(s, y)
         /\ \A y : Has(s, y) /\ y # Head(s) => Has(Tail(s), y)
         /\ Head(s) \in Fetches => ~ Has(Tail(s), Head(s))
<1>1. /\ Len(s) \in Nat /\ Len(s) > 0 /\ DOMAIN s = 1 .. Len(s)
      /\ Tail(s) \in Seq(Commands) /\ DOMAIN Tail(s) = 1 .. Len(s) - 1
      /\ \A i \in 1 .. Len(s) - 1 : Tail(s)[i] = s[i + 1]
      /\ Head(s) = s[1] /\ Head(s) \in Commands
  OBVIOUS
<1>2. \A i \in 1 .. Len(s) - 1 : i + 1 \in 1 .. Len(s)
  BY <1>1
<1>3. \A i \in 1 .. Len(s) : i # 1 => i - 1 \in 1 .. Len(s) - 1 /\ (i - 1) + 1 = i
  BY <1>1
<1>4. Has(s, Head(s))
  BY <1>1 DEF Has
<1>5. ASSUME NEW y, Has(Tail(s), y) PROVE \E i \in 1 .. Len(s) : i # 1 /\ s[i] = y
  <2>1. PICK i \in 1 .. Len(s) - 1 : Tail(s)[i] = y
    BY <1>1, <1>5 DEF Has
  <2>2. i + 1 # 1 /\ s[i + 1] = y
    BY <1>1, <2>1
  <2> QED BY <1>2, <2>2
<1>6. \A y : Has(Tail(s), y) => Has(s, y)
  BY <1>1, <1>5 DEF Has
<1>7. ASSUME NEW y, Has(s, y), y # Head(s) PROVE Has(Tail(s), y)
  <2>1. PICK i \in 1 .. Len(s) : s[i] = y /\ i # 1
    BY <1>1, <1>7 DEF Has
  <2>2. i - 1 \in DOMAIN Tail(s) /\ Tail(s)[i - 1] = y
    BY <1>1, <1>3, <2>1
  <2> QED BY <2>2 DEF Has
<1>8. Head(s) \in Fetches => ~ Has(Tail(s), Head(s))
  BY <1>1, <1>5 DEF Distinct
<1>9. Distinct(Tail(s))
  <2> SUFFICES ASSUME NEW i \in 1 .. Len(s) - 1, NEW j \in 1 .. Len(s) - 1,
                      Tail(s)[i] = Tail(s)[j], Tail(s)[i] \in Fetches
               PROVE  i = j
    BY <1>1 DEF Distinct
  <2>1. i + 1 = j + 1
    BY <1>1, <1>2 DEF Distinct
  <2> QED BY <2>1
<1> QED BY <1>1, <1>4, <1>6, <1>7, <1>8, <1>9

\* The empty queue.
LEMMA NothingQueued == <<>> \in Seq(Commands) /\ Distinct(<<>>) /\ \A y : ~ Has(<<>>, y)
BY DEF Distinct, Has

-----------------------------------------------------------------------------
(* Types. *)

\* The types under the names the proofs use.
LEMMA Types ==
  ASSUME TypeOK
  PROVE  /\ db \in Versions /\ db \in Nat /\ owed \in Nat /\ lost \in Nat
         /\ cache # Empty => cache \in CacheTypes
         /\ fetch \in [Fetches -> FetchTypes]
         /\ queue \in [Replicas -> Seq(Commands)] /\ inbox \in [Replicas -> Nat]
         /\ conn \in [Dashboards -> Replicas \cup {NoOne}]
         /\ due \in [Dashboards -> Nat] /\ authed \subseteq Dashboards
BY Bounds DEF TypeOK, CacheTypes, FetchTypes, Phases, Commands, Versions

LEMMA Constants ==
  /\ Empty \notin CacheTypes /\ Empty.left = 0 /\ Empty.value \notin Int
  /\ NoFetch \in FetchTypes /\ NoFetch.pc = "idle" /\ NoFetch.outdated = 0 /\ NoFetch.age = 0
  /\ Del \notin Fetches /\ Del \in Commands /\ 0 \in Versions
BY Bounds, Nobody DEF Empty, CacheTypes, NoFetch, FetchTypes, Phases, Del, Commands, Versions

LEMMA InitQueue == Init => QueueInv
<1> SUFFICES ASSUME Init PROVE QueueInv
  OBVIOUS
<1>1. TypeOK
  <2>1. /\ fetch \in [Fetches -> FetchTypes] /\ queue \in [Replicas -> Seq(Commands)]
        /\ \A f \in Fetches : fetch[f].pc = "idle"
    BY Constants, NothingQueued DEF Init
  <2> QED BY <2>1, Constants DEF Init, TypeOK, FetchTypes, Phases, Commands
<1> QED BY <1>1, Constants, NothingQueued DEF Init, QueueInv, Queued, Young

\* A step that only excuses requests changes nothing that QueueInv is about.
LEMMA ExcuseKeeps ==
  ASSUME TypeOK
  PROVE  /\ UnstoredExcused \in [Fetches -> FetchTypes]
         /\ \A f \in Fetches :
              /\ UnstoredExcused[f].pc = fetch[f].pc /\ UnstoredExcused[f].at = fetch[f].at
              /\ UnstoredExcused[f].value = fetch[f].value /\ UnstoredExcused[f].age = fetch[f].age
              /\ UnstoredExcused[f].outdated = fetch[f].outdated
              /\ Unstored(f) => UnstoredExcused[f].excused
<1>1. fetch \in [Fetches -> FetchTypes]
  BY Types
<1>2. ASSUME NEW f \in Fetches
      PROVE  LET excused == [fetch[f] EXCEPT !.excused = TRUE]
             IN  /\ excused \in FetchTypes /\ excused.pc = fetch[f].pc /\ excused.at = fetch[f].at
                 /\ excused.value = fetch[f].value /\ excused.age = fetch[f].age
                 /\ excused.outdated = fetch[f].outdated /\ excused.excused
  <2>1. fetch[f] \in FetchTypes
    BY <1>1
  <2> QED BY <2>1 DEF FetchTypes
<1>3. UnstoredExcused =
        [f \in Fetches |-> IF Unstored(f) THEN [fetch[f] EXCEPT !.excused = TRUE] ELSE fetch[f]]
  BY DEF UnstoredExcused
<1> QED BY <1>1, <1>2, <1>3

LEMMA TypeFromParts ==
  ASSUME db' \in Versions, cache' = Empty \/ cache' \in CacheTypes, fetch' \in [Fetches -> FetchTypes],
         \A f \in Fetches : fetch'[f].pc \in {"read", "loaded", "stored", "answered"} => fetch'[f].value \in Versions,
         queue' \in [Replicas -> Seq(Commands)], owed' \in Nat, lost' \in Nat, inbox' \in [Replicas -> Nat],
         conn' \in [Dashboards -> Replicas \cup {NoOne}],
         authed' \subseteq Dashboards, \A d \in authed' : conn'[d] # NoOne,
         waiting' \subseteq Dashboards, due' \in [Dashboards -> Nat], shown' \in [Dashboards -> Versions]
  PROVE  TypeOK'
BY DEF TypeOK, CacheTypes, FetchTypes, Phases, Commands, Versions

\* A step that queues no SETEX and leaves the requests alone that have one.
LEMMA QueuedSame ==
  ASSUME Queued, \A r \in Replicas : Distinct(queue'[r]),
         \A r \in Replicas, f \in Fetches : Has(queue'[r], f) =>
           /\ Has(queue[r], f)
           /\ fetch[f].pc \in {"loaded", "answered"} /\ fetch[f].at = r =>
                fetch'[f].pc \in {"loaded", "answered"} /\ fetch'[f].at = fetch[f].at
  PROVE  Queued'
BY DEF Queued, Has, Distinct

LEMMA InvalidateQueues ==
  ASSUME QueueInv, NEW r \in Replicas
  PROVE  /\ Invalidate(r) \in [Replicas -> Seq(Commands)]
         /\ \A p \in Replicas : Distinct(Invalidate(r)[p])
         /\ \A p \in Replicas, f \in Fetches : Has(Invalidate(r)[p], f) => Has(queue[p], f)
         /\ Has(Invalidate(r)[r], Del)
<1>1. queue \in [Replicas -> Seq(Commands)] /\ Distinct(queue[r])
  BY Types DEF QueueInv, Queued
<1>2. /\ Append(queue[r], Del) \in Seq(Commands) /\ Distinct(Append(queue[r], Del))
      /\ \A y : Has(Append(queue[r], Del), y) <=> Has(queue[r], y) \/ y = Del
  BY <1>1, Constants, AppendHas, AppendDistinct
<1>3. /\ Invalidate(r)[r] = Append(queue[r], Del)
      /\ \A p \in Replicas \ {r} : Invalidate(r)[p] = queue[p]
      /\ Invalidate(r) \in [Replicas -> Seq(Commands)]
  BY <1>1, <1>2 DEF Invalidate
<1>4. \A p \in Replicas : Distinct(Invalidate(r)[p])
  BY <1>2, <1>3 DEF QueueInv, Queued
<1>5. \A p \in Replicas : \A f \in Fetches : Has(Invalidate(r)[p], f) => Has(queue[p], f)
  <2> SUFFICES ASSUME NEW p \in Replicas, NEW f \in Fetches, Has(Invalidate(r)[p], f)
               PROVE  Has(queue[p], f)
    OBVIOUS
  <2>1. CASE p = r
    BY <1>2, <1>3, <2>1, Constants
  <2>2. CASE p # r
    BY <1>3, <2>2
  <2> QED BY <2>1, <2>2
<1>6. Has(Invalidate(r)[r], Del)
  BY <1>2, <1>3
<1> QED BY <1>3, <1>4, <1>5, <1>6

LEMMA ToldType ==
  ASSUME TypeOK, NEW pages, NEW actor
  PROVE  /\ Told(pages, actor) \in [Dashboards -> Nat]
         /\ \A d \in Dashboards : Told(pages, actor)[d] >= due[d]
         /\ \A d \in Dashboards : d \in pages => Told(pages, actor)[d] > 0
BY Types DEF Told

\* A change of a job's status.
LEMMA ChangeQueue ==
  ASSUME QueueInv,
         \/ WorkerChange \/ Sweep
         \/ \E r \in Replicas, actor \in Dashboards \cup {NoOne} : Submit(r, actor) \/ CancelOrRetry(r, actor)
  PROVE  QueueInv'
<1>1. db' \in Versions /\ UNCHANGED <<inbox, conn, authed, shown>>
  BY Types, Bounds DEF QueueInv, WorkerChange, Sweep, Submit, CancelOrRetry, Change, Versions
<1>2. /\ db \in Nat /\ owed \in Nat /\ lost \in Nat /\ (cache = Empty \/ cache \in CacheTypes)
      /\ fetch \in [Fetches -> FetchTypes] /\ queue \in [Replicas -> Seq(Commands)]
      /\ due \in [Dashboards -> Nat] /\ authed \subseteq Dashboards
  BY Types DEF QueueInv
<1>3. owed' \in Nat /\ lost' \in Nat
  BY <1>2 DEF WorkerChange, Sweep, Submit, CancelOrRetry, Lose
<1>4. due' \in [Dashboards -> Nat]
  BY <1>2, ToldType DEF WorkerChange, Sweep, Submit, CancelOrRetry, QueueInv
<1>5. waiting' \subseteq Dashboards
  BY <1>2 DEF WorkerChange, Sweep, Submit, CancelOrRetry, QueueInv, TypeOK
<1>6. cache' = Empty \/ cache' \in CacheTypes
  BY <1>2 DEF WorkerChange, Sweep, Submit, CancelOrRetry, CacheTypes
<1>7. fetch' \in {fetch, UnstoredExcused}
  BY DEF WorkerChange, Sweep, Submit, CancelOrRetry
<1>8. /\ fetch' \in [Fetches -> FetchTypes]
      /\ \A f \in Fetches :
           /\ fetch'[f].pc = fetch[f].pc /\ fetch'[f].at = fetch[f].at /\ fetch'[f].value = fetch[f].value
           /\ fetch'[f].age = fetch[f].age /\ fetch'[f].outdated = fetch[f].outdated
  BY <1>2, <1>7, ExcuseKeeps DEF QueueInv
<1>9. queue' = queue \/ \E r \in Replicas : queue' = Invalidate(r)
  BY DEF WorkerChange, Sweep, Submit, CancelOrRetry
<1>10. /\ queue' \in [Replicas -> Seq(Commands)]
       /\ \A p \in Replicas : Distinct(queue'[p])
       /\ \A p \in Replicas, f \in Fetches : Has(queue'[p], f) => Has(queue[p], f)
  BY <1>2, <1>9, InvalidateQueues DEF QueueInv, Queued
<1>11. Queued'
  BY <1>8, <1>10, QueuedSame DEF QueueInv
<1>12. Young'
  BY <1>8 DEF QueueInv, Young
<1>13. TypeOK'
  BY <1>1, <1>2, <1>3, <1>4, <1>5, <1>6, <1>8, <1>10, TypeFromParts DEF QueueInv, TypeOK
<1> QED BY <1>11, <1>12, <1>13 DEF QueueInv

\* Notifications, sockets and processes.
LEMMA FanOutQueue ==
  ASSUME QueueInv,
         \/ Notify
         \/ \E r \in Replicas : Hear(r) \/ ListenerDrops(r)
         \/ \E d \in Dashboards : Disconnect(d) \/ Authenticate(d) \/ \E r \in Replicas : Connect(d, r)
  PROVE  QueueInv'
<1>1. UNCHANGED <<db, cache, fetch, shown, waiting>>
  BY DEF Notify, Hear, ListenerDrops, Disconnect, Authenticate, Connect
<1>2. /\ owed \in Nat /\ lost \in Nat /\ (cache = Empty \/ cache \in CacheTypes)
      /\ fetch \in [Fetches -> FetchTypes] /\ queue \in [Replicas -> Seq(Commands)] /\ db \in Versions
      /\ due \in [Dashboards -> Nat] /\ authed \subseteq Dashboards /\ inbox \in [Replicas -> Nat]
      /\ conn \in [Dashboards -> Replicas \cup {NoOne}] /\ \A d \in authed : conn[d] # NoOne
  BY Types DEF QueueInv, TypeOK
<1>3. owed' \in Nat /\ lost' \in Nat
  BY <1>2 DEF Notify, Hear, ListenerDrops, Disconnect, Authenticate, Connect, Lose
<1>4. due' \in [Dashboards -> Nat]
  BY <1>2, ToldType DEF Notify, Hear, ListenerDrops, Disconnect, Authenticate, Connect, QueueInv
<1>5. inbox' \in [Replicas -> Nat]
  <2>1. CASE Notify
    BY <1>2, <2>1 DEF Notify, Notified
  <2>2. ASSUME NEW r \in Replicas, Hear(r) PROVE inbox' \in [Replicas -> Nat]
    BY <1>2, <2>2 DEF Hear
  <2>3. ASSUME NEW r \in Replicas, ListenerDrops(r) PROVE inbox' \in [Replicas -> Nat]
    BY <1>2, <2>3 DEF ListenerDrops
  <2>4. CASE inbox' = inbox
    BY <1>2, <2>4
  <2> QED BY <2>1, <2>2, <2>3, <2>4 DEF Disconnect, Authenticate, Connect
<1>6. /\ conn' \in [Dashboards -> Replicas \cup {NoOne}]
      /\ authed' \subseteq Dashboards /\ \A d \in authed' : conn'[d] # NoOne
  <2>1. CASE conn' = conn /\ authed' = authed
    BY <1>2, <2>1
  <2>2. ASSUME NEW d \in Dashboards, Disconnect(d)
        PROVE  conn' = [conn EXCEPT ![d] = NoOne] /\ authed' = authed \ {d}
    BY <2>2 DEF Disconnect
  <2>3. ASSUME NEW d \in Dashboards, Authenticate(d)
        PROVE  conn' = conn /\ authed' = authed \cup {d} /\ conn[d] # NoOne
    BY <2>3 DEF Authenticate
  <2>4. ASSUME NEW d \in Dashboards, NEW r \in Replicas, Connect(d, r)
        PROVE  conn' = [conn EXCEPT ![d] = r] /\ authed' = authed /\ r # NoOne
    BY <2>4, Nobody DEF Connect
  <2>5. ASSUME NEW d \in Dashboards, Disconnect(d) \/ Authenticate(d) \/ \E r \in Replicas : Connect(d, r)
        PROVE  /\ conn' \in [Dashboards -> Replicas \cup {NoOne}]
               /\ authed' \subseteq Dashboards /\ \A x \in authed' : conn'[x] # NoOne
    <3>1. conn' \in [Dashboards -> Replicas \cup {NoOne}] /\ authed' \subseteq Dashboards
      BY <1>2, <2>2, <2>3, <2>4, <2>5
    <3>2. CASE Disconnect(d)
      BY <1>2, <2>2, <3>2
    <3>3. CASE Authenticate(d)
      BY <1>2, <2>3, <3>3
    <3>4. ASSUME NEW r \in Replicas, Connect(d, r) PROVE \A x \in authed' : conn'[x] # NoOne
      BY <1>2, <2>4, <3>4
    <3> QED BY <2>5, <3>1, <3>2, <3>3, <3>4
  <2>6. (Notify \/ \E r \in Replicas : Hear(r) \/ ListenerDrops(r)) => conn' = conn /\ authed' = authed
    BY DEF Notify, Hear, ListenerDrops
  <2> QED BY <2>1, <2>5, <2>6
<1>7. queue' = queue \/ \E r \in Replicas : queue' = Invalidate(r)
  BY DEF Notify, Hear, ListenerDrops, Disconnect, Authenticate, Connect
<1>8. /\ queue' \in [Replicas -> Seq(Commands)]
      /\ \A p \in Replicas : Distinct(queue'[p])
      /\ \A p \in Replicas, f \in Fetches : Has(queue'[p], f) => Has(queue[p], f)
  <2>1. Queued
    BY DEF QueueInv
  <2>2. CASE queue' = queue
    BY <1>2, <2>1, <2>2 DEF Queued
  <2>3. ASSUME NEW r \in Replicas, queue' = Invalidate(r)
        PROVE  /\ queue' \in [Replicas -> Seq(Commands)]
               /\ \A p \in Replicas : Distinct(queue'[p])
               /\ \A p \in Replicas, f \in Fetches : Has(queue'[p], f) => Has(queue[p], f)
    BY <2>3, InvalidateQueues DEF QueueInv
  <2> QED BY <1>7, <2>2, <2>3
<1>9. Queued' /\ Young'
  BY <1>1, <1>8, QueuedSame DEF QueueInv, Young
<1>10. TypeOK'
  BY <1>1, <1>2, <1>3, <1>4, <1>5, <1>6, <1>8, TypeFromParts DEF QueueInv, TypeOK
<1> QED BY <1>9, <1>10 DEF QueueInv

LEMMA DeathQueue == ASSUME QueueInv, NEW r \in Replicas, ReplicaDies(r) PROVE QueueInv'
<1>1. UNCHANGED <<db, cache, owed, due, shown, waiting>>
  BY DEF ReplicaDies
<1>2. /\ lost \in Nat /\ (cache = Empty \/ cache \in CacheTypes)
      /\ fetch \in [Fetches -> FetchTypes] /\ queue \in [Replicas -> Seq(Commands)] /\ inbox \in [Replicas -> Nat]
      /\ conn \in [Dashboards -> Replicas \cup {NoOne}] /\ \A d \in authed : conn[d] # NoOne
      /\ authed \subseteq Dashboards
  BY Types DEF QueueInv, TypeOK
<1>3. lost' \in Nat
  BY <1>2 DEF ReplicaDies, Lose
<1>4. /\ conn' \in [Dashboards -> Replicas \cup {NoOne}]
      /\ authed' \subseteq Dashboards /\ \A d \in authed' : conn'[d] # NoOne
  BY <1>2 DEF ReplicaDies, Sockets
<1>5. /\ fetch' \in [Fetches -> FetchTypes]
      /\ \A f \in Fetches : fetch'[f] = NoFetch \/ (fetch'[f] = fetch[f] /\ fetch[f].at # r)
      /\ \A f \in Fetches : fetch[f].at # r => fetch'[f] = fetch[f]
  BY <1>2, Constants DEF ReplicaDies
<1>6. /\ queue' \in [Replicas -> Seq(Commands)] /\ inbox' \in [Replicas -> Nat]
      /\ queue'[r] = <<>> /\ \A p \in Replicas \ {r} : queue'[p] = queue[p]
  BY <1>2, NothingQueued DEF ReplicaDies
<1>7. Queued'
  <2>1. \A p \in Replicas : Distinct(queue'[p])
    BY <1>6, NothingQueued DEF QueueInv, Queued
  <2>2. \A p \in Replicas, f \in Fetches : Has(queue'[p], f) => Has(queue[p], f) /\ p # r
    BY <1>6, NothingQueued
  <2> QED BY <1>5, <2>1, <2>2, QueuedSame DEF QueueInv
<1>8. Young'
  BY <1>5, Constants DEF QueueInv, Young
<1>9. \A f \in Fetches : fetch'[f].pc \in {"read", "loaded", "stored", "answered"} => fetch'[f].value \in Versions
  BY <1>5, Constants DEF QueueInv, TypeOK
<1>10. TypeOK'
  BY <1>1, <1>2, <1>3, <1>4, <1>5, <1>6, <1>9, TypeFromParts DEF QueueInv, TypeOK
<1> QED BY <1>7, <1>8, <1>10 DEF QueueInv

\* A request's own steps: which records it goes through.
FetchBecomes(f) ==
  \/ /\ fetch[f] = NoFetch
     /\ \E d \in Dashboards, r \in Replicas :
          fetch'[f] = [NoFetch EXCEPT !.pc = "sent", !.page = d, !.at = r]
  \/ cache # Empty /\ fetch[f].pc = "sent" /\ fetch'[f] = [fetch[f] EXCEPT !.pc = "stored", !.value = cache.value]
  \/ fetch[f].pc = "sent" /\ fetch'[f] = [fetch[f] EXCEPT !.pc = "missed"]
  \/ fetch[f].pc = "missed" /\ fetch'[f] = [fetch[f] EXCEPT !.pc = "read", !.value = db]
  \/ fetch[f].pc = "read" /\ fetch'[f] = [fetch[f] EXCEPT !.pc = "loaded"]
  \/ fetch[f].pc = "stored" /\ fetch'[f] = NoFetch
  \/ fetch[f].pc = "loaded" /\ fetch'[f] = [fetch[f] EXCEPT !.pc = "answered"]

LEMMA FetchSteps ==
  ASSUME TypeOK, NEW f \in Fetches, FetchStep(f)
  PROVE  /\ FetchBecomes(f) /\ \A g \in Fetches \ {f} : fetch'[g] = fetch[g]
         /\ UNCHANGED <<db, cache, owed, inbox, conn, authed>>
         /\ queue' = queue \/ Return(f)
         /\ lost' = lost \/ Lose
<1>1. fetch \in [Fetches -> FetchTypes]
  BY Types
<1>2. CASE \E d \in Dashboards, r \in Replicas : Send(f, d, r)
  BY <1>1, <1>2 DEF Send, FetchBecomes
<1>3. CASE GetHit(f)
  <2>1. fetch'[f] = [fetch[f] EXCEPT !.pc = "stored", !.value = cache.value]
    BY <1>1, <1>3 DEF GetHit
  <2> QED BY <1>1, <1>3, <2>1 DEF GetHit, Hit, CacheAfterHit, FetchBecomes
<1>4. CASE GetMiss(f) \/ Read(f) \/ Return(f)
  BY <1>1, <1>4 DEF GetMiss, Read, Return, FetchBecomes
<1>5. CASE Answer(f)
  BY <1>1, <1>5 DEF Answer, FetchBecomes
<1> QED BY <1>2, <1>3, <1>4, <1>5 DEF FetchStep

LEMMA FetchQueue == ASSUME QueueInv, NEW f \in Fetches, FetchStep(f) PROVE QueueInv'
<1>1. /\ db \in Versions /\ owed \in Nat /\ lost \in Nat /\ (cache = Empty \/ cache \in CacheTypes)
      /\ fetch \in [Fetches -> FetchTypes] /\ queue \in [Replicas -> Seq(Commands)] /\ inbox \in [Replicas -> Nat]
      /\ conn \in [Dashboards -> Replicas \cup {NoOne}] /\ \A d \in authed : conn[d] # NoOne
      /\ authed \subseteq Dashboards /\ due \in [Dashboards -> Nat]
  BY Types DEF QueueInv, TypeOK
<1>2. /\ FetchBecomes(f) /\ \A g \in Fetches \ {f} : fetch'[g] = fetch[g]
      /\ UNCHANGED <<db, cache, owed, inbox, conn, authed>>
      /\ queue' = queue \/ Return(f)
      /\ lost' = lost \/ Lose
  BY FetchSteps DEF QueueInv
<1>3. lost' \in Nat
  BY <1>1, <1>2 DEF Lose
<1>4. fetch[f] \in FetchTypes /\ fetch[f].outdated <= fetch[f].age /\ (cache # Empty => cache.value \in Versions)
      /\ (fetch[f].pc \in {"read", "loaded", "stored", "answered"} => fetch[f].value \in Versions)
  BY <1>1 DEF QueueInv, Young, TypeOK, CacheTypes
<1>5. /\ fetch'[f] \in FetchTypes /\ fetch'[f].outdated <= fetch'[f].age
      /\ fetch'[f].pc \in {"read", "loaded", "stored", "answered"} => fetch'[f].value \in Versions
  <2>1. CASE fetch'[f] = NoFetch
    BY <2>1, Constants
  <2>6. CASE \E d \in Dashboards, r \in Replicas :
               fetch'[f] = [NoFetch EXCEPT !.pc = "sent", !.page = d, !.at = r]
    <3>1. PICK d \in Dashboards, r \in Replicas :
            fetch'[f] = [NoFetch EXCEPT !.pc = "sent", !.page = d, !.at = r]
      BY <2>6
    <3>2. NoFetch \in FetchTypes /\ NoFetch.outdated = 0 /\ NoFetch.age = 0
      BY Constants
    <3>3. fetch'[f] \in FetchTypes
      BY <3>1, <3>2 DEF FetchTypes, Phases
    <3>4. fetch'[f].pc = "sent" /\ fetch'[f].outdated = 0 /\ fetch'[f].age = 0
      BY <3>1, <3>2 DEF FetchTypes
    <3> QED BY <3>3, <3>4
  <2>2. CASE cache # Empty /\ fetch[f].pc = "sent" /\ fetch'[f] = [fetch[f] EXCEPT !.pc = "stored", !.value = cache.value]
    BY <1>4, <2>2 DEF FetchTypes, Phases
  <2>3. CASE fetch[f].pc = "sent" /\ fetch'[f] = [fetch[f] EXCEPT !.pc = "missed"]
    BY <1>4, <2>3 DEF FetchTypes, Phases
  <2>4. CASE fetch[f].pc = "missed" /\ fetch'[f] = [fetch[f] EXCEPT !.pc = "read", !.value = db]
    BY <1>1, <1>4, <2>4 DEF FetchTypes, Phases
  <2>5. CASE \/ fetch[f].pc = "read" /\ fetch'[f] = [fetch[f] EXCEPT !.pc = "loaded"]
             \/ fetch[f].pc = "loaded" /\ fetch'[f] = [fetch[f] EXCEPT !.pc = "answered"]
    BY <1>4, <2>5 DEF FetchTypes, Phases
  <2> QED BY <1>2, <2>1, <2>2, <2>3, <2>4, <2>5, <2>6 DEF FetchBecomes
<1>6. fetch' \in [Fetches -> FetchTypes]
  <2>1. \E g : fetch' = [fetch EXCEPT ![f] = g]
    <3>1. CASE \E d \in Dashboards, r \in Replicas : Send(f, d, r)
      BY <3>1 DEF Send
    <3>2. CASE GetMiss(f) \/ GetHit(f) \/ Read(f) \/ Return(f) \/ Answer(f)
      <4>1. fetch' = [fetch EXCEPT ![f] = fetch'[f]]
        BY <1>1, <3>2 DEF GetMiss, GetHit, Read, Return, Answer
      <4> QED BY <4>1
    <3> QED BY <3>1, <3>2 DEF FetchStep
  <2> QED BY <1>1, <1>5, <2>1
<1>7. due' \in [Dashboards -> Nat]
  <2>1. due' = due \/ \E d \in Dashboards : due[d] > 0 /\ due' = [due EXCEPT ![d] = @ - 1]
    BY DEF FetchStep, Send, GetHit, GetMiss, Read, Return, Answer
  <2> QED BY <1>1, <2>1
<1>8. waiting' \subseteq Dashboards
  BY DEF FetchStep, Send, GetHit, GetMiss, Read, Return, Answer, QueueInv, TypeOK
<1>9. shown' \in [Dashboards -> Versions]
  <2>1. \/ shown' = shown
        \/ fetch[f].pc \in {"loaded", "stored"} /\ shown' = [shown EXCEPT ![fetch[f].page] = fetch[f].value]
    BY DEF FetchStep, Send, GetHit, GetMiss, Read, Return, Answer
  <2> QED BY <1>4, <2>1 DEF QueueInv, TypeOK
<1>10. CASE queue' = queue
  <2>1. \A r \in Replicas, g \in Fetches : Has(queue'[r], g) =>
          /\ Has(queue[r], g)
          /\ fetch[g].pc \in {"loaded", "answered"} /\ fetch[g].at = r =>
               fetch'[g].pc \in {"loaded", "answered"} /\ fetch'[g].at = fetch[g].at
    <3>1. fetch[f].pc \in {"loaded", "answered"} => fetch'[f].pc = "answered" /\ fetch'[f].at = fetch[f].at
      BY <1>2, <1>4, Constants DEF FetchBecomes, FetchTypes
    <3> QED BY <1>2, <1>10, <3>1
  <2>2. \A r \in Replicas : Distinct(queue'[r])
    BY <1>10 DEF QueueInv, Queued
  <2>3. Queued'
    BY <2>1, <2>2, QueuedSame DEF QueueInv
  <2>4. Young'
    BY <1>2, <1>5 DEF QueueInv, Young
  <2>5. TypeOK'
    BY <1>1, <1>2, <1>3, <1>5, <1>6, <1>7, <1>8, <1>9, <1>10, TypeFromParts DEF QueueInv, TypeOK
  <2> QED BY <2>3, <2>4, <2>5 DEF QueueInv
<1>11. CASE Return(f)
  <2> DEFINE r == fetch[f].at
  <2>1. /\ fetch[f].pc = "read" /\ queue' = [queue EXCEPT ![r] = Append(@, f)]
        /\ fetch'[f].pc = "loaded" /\ fetch'[f].at = r
    BY <1>1, <1>11 DEF Return, FetchTypes
  <2>2. \A p \in Replicas \ {r} : queue'[p] = queue[p]
    BY <1>1, <2>1
  <2>3. \A p \in Replicas : ~ Has(queue[p], f)
    BY <2>1 DEF QueueInv, Queued
  <2>4. f \in Commands
    BY DEF Commands
  <2>5. CASE r \in Replicas
    <3>1. /\ queue'[r] = Append(queue[r], f) /\ Append(queue[r], f) \in Seq(Commands)
          /\ Distinct(Append(queue[r], f))
          /\ \A y : Has(Append(queue[r], f), y) <=> Has(queue[r], y) \/ y = f
      BY <1>1, <2>1, <2>3, <2>4, <2>5, AppendHas, AppendDistinct DEF QueueInv, Queued
    <3>2. queue' \in [Replicas -> Seq(Commands)]
      BY <1>1, <2>1, <3>1
    <3>3. Queued'
      <4> SUFFICES ASSUME NEW p \in Replicas
                   PROVE  /\ Distinct(queue'[p])
                          /\ \A g \in Fetches : Has(queue'[p], g) =>
                               fetch'[g].at = p /\ fetch'[g].pc \in {"loaded", "answered"}
        BY DEF Queued, Distinct, Has
      <4>1. CASE p = r
        BY <1>2, <2>1, <2>3, <3>1, <4>1 DEF QueueInv, Queued
      <4>2. CASE p # r
        BY <1>2, <2>2, <2>3, <4>2 DEF QueueInv, Queued
      <4> QED BY <4>1, <4>2
    <3>4. Young'
      BY <1>2, <1>5 DEF QueueInv, Young
    <3>5. TypeOK'
      BY <1>1, <1>2, <1>3, <1>5, <1>6, <1>7, <1>8, <1>9, <3>2, TypeFromParts DEF QueueInv, TypeOK
    <3> QED BY <3>3, <3>4, <3>5 DEF QueueInv
  <2>6. CASE r \notin Replicas
    <3>1. queue' = queue
      BY <1>1, <2>1, <2>6
    <3> QED BY <1>10, <3>1
  <2> QED BY <2>5, <2>6
<1> QED BY <1>2, <1>10, <1>11

\* What the first command of a replica is, and what is left.
LEMMA FirstCommand ==
  ASSUME QueueInv, NEW r \in Replicas, Execute(r)
  PROVE  /\ Head(queue[r]) \in Commands
         /\ queue' \in [Replicas -> Seq(Commands)]
         /\ \A p \in Replicas : Distinct(queue'[p])
         /\ \A p \in Replicas, y \in Commands : Has(queue'[p], y) => Has(queue[p], y)
         /\ \A p \in Replicas, y \in Commands : Has(queue[p], y) /\ y # Head(queue[r]) => Has(queue'[p], y)
         /\ Head(queue[r]) \in Fetches =>
              /\ fetch[Head(queue[r])].at = r /\ fetch[Head(queue[r])].pc \in {"loaded", "answered"}
              /\ \A p \in Replicas : ~ Has(queue'[p], Head(queue[r]))
<1> DEFINE s == queue[r]
<1>1. queue \in [Replicas -> Seq(Commands)] /\ s \in Seq(Commands) /\ s # <<>> /\ Distinct(s)
  BY Types DEF QueueInv, Queued, Execute
<1>2. queue' = [queue EXCEPT ![r] = Tail(s)]
  BY DEF Execute
<1> HIDE DEF s
<1>3. /\ Head(s) \in Commands /\ Has(s, Head(s)) /\ Tail(s) \in Seq(Commands) /\ Distinct(Tail(s))
      /\ \A y : Has(Tail(s), y) => Has(s, y)
      /\ \A y : Has(s, y) /\ y # Head(s) => Has(Tail(s), y)
      /\ Head(s) \in Fetches => ~ Has(Tail(s), Head(s))
  BY <1>1, TailHas
<1>4. queue' \in [Replicas -> Seq(Commands)] /\ queue'[r] = Tail(s) /\ \A p \in Replicas \ {r} : queue'[p] = queue[p]
  BY <1>1, <1>2, <1>3
<1> USE DEF s
<1>5. \A p \in Replicas : Distinct(queue'[p])
  BY <1>3, <1>4 DEF QueueInv, Queued
<1>6. \A p \in Replicas : \A y \in Commands :
        /\ Has(queue'[p], y) => Has(queue[p], y)
        /\ Has(queue[p], y) /\ y # Head(s) => Has(queue'[p], y)
  <2> SUFFICES ASSUME NEW p \in Replicas, NEW y \in Commands
               PROVE  /\ Has(queue'[p], y) => Has(queue[p], y)
                      /\ Has(queue[p], y) /\ y # Head(s) => Has(queue'[p], y)
    OBVIOUS
  <2>1. CASE p = r
    BY <1>3, <1>4, <2>1
  <2>2. CASE p # r
    BY <1>4, <2>2
  <2> QED BY <2>1, <2>2
<1>7. ASSUME Head(s) \in Fetches
      PROVE  /\ fetch[Head(s)].at = r /\ fetch[Head(s)].pc \in {"loaded", "answered"}
             /\ \A p \in Replicas : ~ Has(queue'[p], Head(s))
  <2>1. fetch[Head(s)].at = r /\ fetch[Head(s)].pc \in {"loaded", "answered"}
    BY <1>3, <1>7 DEF QueueInv, Queued
  <2>2. ASSUME NEW p \in Replicas, Has(queue'[p], Head(s)) PROVE FALSE
    <3>1. CASE p = r
      BY <1>3, <1>4, <1>7, <2>2, <3>1
    <3>2. CASE p # r
      <4>1. Has(queue[p], Head(s))
        BY <1>4, <2>2, <3>2
      <4> QED BY <1>7, <2>1, <3>2, <4>1 DEF QueueInv, Queued
    <3> QED BY <3>1, <3>2
  <2> QED BY <2>1, <2>2
<1> QED BY <1>3, <1>4, <1>5, <1>6, <1>7

\* What becomes of a request whose SETEX is executed or fails.
LEMMA StoredType ==
  ASSUME TypeOK, NEW f \in Fetches, fetch[f].pc \in {"loaded", "answered"}
  PROVE  /\ Stored(f) \in [Fetches -> FetchTypes]
         /\ \A g \in Fetches \ {f} : Stored(f)[g] = fetch[g]
         /\ \/ Stored(f)[f] = NoFetch
            \/ /\ Stored(f)[f].pc = "stored" /\ Stored(f)[f].value = fetch[f].value
               /\ Stored(f)[f].at = fetch[f].at
               /\ Stored(f)[f].age = 0 /\ Stored(f)[f].outdated = 0
<1>1. fetch \in [Fetches -> FetchTypes]
  BY Types
<1> DEFINE new == [fetch[f] EXCEPT !.pc = "stored", !.age = 0, !.outdated = 0, !.excused = FALSE]
<1>2. /\ new \in FetchTypes /\ new.pc = "stored" /\ new.value = fetch[f].value /\ new.at = fetch[f].at
      /\ new.age = 0 /\ new.outdated = 0
  <2>1. fetch[f] \in FetchTypes /\ 0 \in 0 .. Delay
    BY <1>1, Bounds
  <2> QED BY <2>1 DEF FetchTypes, Phases
<1>3. Stored(f) = [fetch EXCEPT ![f] = NoFetch] \/ Stored(f) = [fetch EXCEPT ![f] = new]
  BY DEF Stored
<1> HIDE DEF new
<1> QED BY <1>1, <1>2, <1>3, Constants

LEMMA ExecuteQueue == ASSUME QueueInv, NEW r \in Replicas, Execute(r) PROVE QueueInv'
<1> DEFINE command == Head(queue[r])
<1>1. /\ db \in Versions /\ owed \in Nat /\ lost \in Nat /\ (cache = Empty \/ cache \in CacheTypes)
      /\ fetch \in [Fetches -> FetchTypes] /\ inbox \in [Replicas -> Nat] /\ authed \subseteq Dashboards
      /\ conn \in [Dashboards -> Replicas \cup {NoOne}] /\ \A d \in authed : conn[d] # NoOne
  BY Types DEF QueueInv, TypeOK
<1>2. UNCHANGED <<db, owed, inbox, conn, authed, due, shown, waiting>> /\ (lost' = lost \/ Lose)
  BY DEF Execute
<1>3. lost' \in Nat
  BY <1>1, <1>2 DEF Lose
<1>4. /\ command \in Commands /\ queue' \in [Replicas -> Seq(Commands)]
      /\ \A p \in Replicas : Distinct(queue'[p])
      /\ \A p \in Replicas, f \in Fetches : Has(queue'[p], f) => Has(queue[p], f)
      /\ command \in Fetches =>
           /\ fetch[command].pc \in {"loaded", "answered"}
           /\ \A p \in Replicas : ~ Has(queue'[p], command)
  BY FirstCommand DEF Commands
<1>5. CASE command = Del
  <2>1. /\ cache' = Empty \/ cache' = cache
        /\ fetch' \in {fetch, UnstoredExcused}
    BY <1>5 DEF Execute, ExecuteDel
  <2>2. /\ fetch' \in [Fetches -> FetchTypes]
        /\ \A f \in Fetches :
             /\ fetch'[f].pc = fetch[f].pc /\ fetch'[f].at = fetch[f].at /\ fetch'[f].value = fetch[f].value
             /\ fetch'[f].age = fetch[f].age /\ fetch'[f].outdated = fetch[f].outdated
    BY <1>1, <2>1, ExcuseKeeps DEF QueueInv
  <2>3. Queued' /\ Young'
    BY <1>4, <2>2, QueuedSame DEF QueueInv, Young
  <2>4. \A f \in Fetches : fetch'[f].pc \in {"read", "loaded", "stored", "answered"} => fetch'[f].value \in Versions
    BY <2>2 DEF QueueInv, TypeOK
  <2>5. TypeOK'
    BY <1>1, <1>2, <1>3, <1>4, <2>1, <2>2, <2>4, TypeFromParts DEF QueueInv, TypeOK
  <2> QED BY <2>3, <2>5 DEF QueueInv
<1>6. CASE command \in Fetches
  <2>1. fetch' = Stored(command)
    BY <1>6, Constants DEF Execute, ExecuteSetex
  <2>2. fetch[command] \in FetchTypes /\ fetch[command].value \in Versions
    BY <1>1, <1>4, <1>6 DEF QueueInv, TypeOK
  <2>3. \/ cache' = cache
        \/ cache' = [value |-> fetch[command].value, left |-> TTL,
                     outdated |-> fetch[command].outdated, excused |-> fetch[command].excused]
    BY <1>6, Constants DEF Execute, ExecuteSetex
  <2>4. cache' = Empty \/ cache' \in CacheTypes
    BY <1>1, <2>2, <2>3, Bounds DEF FetchTypes, CacheTypes
  <2>5. /\ fetch' \in [Fetches -> FetchTypes]
        /\ \A g \in Fetches \ {command} : fetch'[g] = fetch[g]
        /\ \/ fetch'[command] = NoFetch
           \/ /\ fetch'[command].pc = "stored" /\ fetch'[command].value = fetch[command].value
              /\ fetch'[command].age = 0 /\ fetch'[command].outdated = 0
    BY <1>4, <1>6, <2>1, StoredType DEF QueueInv
  <2>6. Queued'
    <3>1. \A p \in Replicas, f \in Fetches : Has(queue'[p], f) => Has(queue[p], f) /\ fetch'[f] = fetch[f]
      BY <1>4, <1>6, <2>5
    <3> QED BY <1>4, <3>1, QueuedSame DEF QueueInv
  <2>7. Young'
    BY <2>5, Constants DEF QueueInv, Young
  <2>8. \A f \in Fetches : fetch'[f].pc \in {"read", "loaded", "stored", "answered"} => fetch'[f].value \in Versions
    BY <2>2, <2>5, Constants DEF QueueInv, TypeOK
  <2>9. TypeOK'
    BY <1>1, <1>2, <1>3, <1>4, <2>4, <2>5, <2>8, TypeFromParts DEF QueueInv, TypeOK
  <2> QED BY <2>6, <2>7, <2>9 DEF QueueInv
<1> QED BY <1>4, <1>5, <1>6 DEF Commands

\* A copy of the counts is superseded for no longer than it has been there.
LEMMA OlderType ==
  ASSUME NEW copy, copy.outdated \in Nat
  PROVE  Older(copy) \in Nat /\ Older(copy) <= copy.outdated + 1
BY DEF Older

LEMMA TickQueue == ASSUME QueueInv, Tick PROVE QueueInv'
<1>1. /\ db \in Versions /\ owed \in Nat /\ lost \in Nat /\ (cache = Empty \/ cache \in CacheTypes)
      /\ fetch \in [Fetches -> FetchTypes] /\ queue \in [Replicas -> Seq(Commands)] /\ inbox \in [Replicas -> Nat]
      /\ conn \in [Dashboards -> Replicas \cup {NoOne}] /\ \A d \in authed : conn[d] # NoOne
      /\ authed \subseteq Dashboards
  BY Types DEF QueueInv, TypeOK
<1>2. UNCHANGED <<db, queue, owed, inbox, conn, authed, due, shown, waiting, lost>>
  BY DEF Tick
<1>3. cache' = Empty \/ cache' \in CacheTypes
  <2>1. cache' = IF cache.left <= 1 THEN Empty
                 ELSE [cache EXCEPT !.left = cache.left - 1, !.outdated = Older(cache)]
    BY DEF Tick
  <2>2. CASE cache.left <= 1
    BY <2>1, <2>2
  <2>3. CASE ~ (cache.left <= 1)
    <3>1. cache # Empty
      BY <2>3, Constants
    <3>2. cache \in CacheTypes
      BY <1>1, <3>1
    <3>3. cache.left - 1 \in 1 .. TTL
      BY <2>3, <3>2, Bounds DEF CacheTypes
    <3>4. cache.outdated \in Nat
      BY <3>2 DEF CacheTypes
    <3>5. Older(cache) \in Nat
      BY <3>4, OlderType
    <3> QED BY <2>1, <2>3, <3>2, <3>3, <3>5 DEF CacheTypes
  <2> QED BY <2>2, <2>3
<1>4. ASSUME NEW f \in Fetches
      PROVE  /\ fetch'[f] \in FetchTypes /\ fetch'[f].outdated <= fetch'[f].age
             /\ fetch'[f].pc = fetch[f].pc /\ fetch'[f].at = fetch[f].at /\ fetch'[f].value = fetch[f].value
  <2>1. fetch[f] \in FetchTypes /\ fetch[f].outdated <= fetch[f].age
    BY <1>1 DEF QueueInv, Young
  <2>2. CASE ~ Unstored(f)
    BY <2>1, <2>2 DEF Tick
  <2>3. CASE Unstored(f)
    <3>1. fetch'[f] = [fetch[f] EXCEPT !.age = fetch[f].age + 1, !.outdated = Older(fetch[f])]
      BY <2>3 DEF Tick
    <3>2. fetch[f].age \in Nat /\ fetch[f].outdated \in Nat
      BY <2>1, Bounds DEF FetchTypes
    <3>3. fetch[f].age < Delay
      BY <2>3 DEF Tick
    <3>4. Older(fetch[f]) \in Nat /\ Older(fetch[f]) <= fetch[f].outdated + 1
      BY <3>2, OlderType
    <3>5. fetch[f].age + 1 \in 0 .. Delay /\ Older(fetch[f]) \in 0 .. Delay
      BY <2>1, <3>2, <3>3, <3>4, Bounds
    <3>6. fetch'[f].age = fetch[f].age + 1 /\ fetch'[f].outdated = Older(fetch[f])
      BY <2>1, <3>1 DEF FetchTypes
    <3>7. fetch'[f].outdated <= fetch'[f].age
      BY <2>1, <3>2, <3>4, <3>6
    <3> QED BY <2>1, <3>1, <3>5, <3>7 DEF FetchTypes
  <2> QED BY <2>2, <2>3
<1>5. fetch' \in [Fetches -> FetchTypes]
  <2>1. fetch' = [f \in Fetches |-> fetch'[f]]
    BY DEF Tick
  <2> QED BY <1>4, <2>1
<1>6. Queued' /\ Young'
  BY <1>2, <1>4 DEF QueueInv, Queued, Young
<1>7. TypeOK'
  BY <1>1, <1>2, <1>3, <1>4, <1>5, TypeFromParts DEF QueueInv, TypeOK
<1> QED BY <1>6, <1>7 DEF QueueInv

LEMMA StepQueue == QueueInv /\ [Next]_vars => QueueInv'
<1> SUFFICES ASSUME QueueInv, [Next]_vars PROVE QueueInv'
  OBVIOUS
<1>1. CASE UNCHANGED vars
  <2>1. UNCHANGED <<fetch, queue>> /\ TypeOK'
    BY <1>1 DEF vars, QueueInv, TypeOK, Unstored
  <2> QED BY <2>1 DEF QueueInv, Queued, Young
<1>2. CASE Next
  BY <1>2, ChangeQueue, FanOutQueue, DeathQueue, FetchQueue, ExecuteQueue, TickQueue DEF Next
<1> QED BY <1>1, <1>2

\* The variables keep their types, and a SETEX that is queued is that of a
\* request whose counts are read, for any pages, replicas and requests.
THEOREM TypeCorrect == Spec => []TypeOK
<1>1. QueueInv => TypeOK
  BY DEF QueueInv
<1> QED BY <1>1, InitQueue, StepQueue, PTL DEF Spec

-----------------------------------------------------------------------------
(* How old the counts in the cache may be. *)

\* Only Redis and the clock change what the cache's counts are worth.
LEMMA CacheSteps ==
  ASSUME TypeOK, Next
  PROVE  \/ cache' = cache \/ cache' = Empty
         \/ cache # Empty /\ cache' = [cache EXCEPT !.excused = TRUE]
         \/ Tick
         \/ \E r \in Replicas : Execute(r)
<1>1. CASE \/ WorkerChange \/ Sweep
           \/ \E r \in Replicas, actor \in Dashboards \cup {NoOne} : Submit(r, actor) \/ CancelOrRetry(r, actor)
  BY <1>1 DEF WorkerChange, Sweep, Submit, CancelOrRetry
<1>2. CASE \/ Notify
           \/ \E r \in Replicas : Hear(r) \/ ListenerDrops(r) \/ ReplicaDies(r)
           \/ \E d \in Dashboards : Disconnect(d) \/ Authenticate(d) \/ \E r \in Replicas : Connect(d, r)
  BY <1>2 DEF Notify, Hear, ListenerDrops, ReplicaDies, Disconnect, Authenticate, Connect
<1>3. CASE \E f \in Fetches : FetchStep(f)
  BY <1>3, FetchSteps
<1> QED BY <1>1, <1>2, <1>3 DEF Next

\* A command that Redis executes empties the cache, stores the counts of the
\* request that sent it, or leaves the cache as it is.
LEMMA ExecutedCache ==
  ASSUME QueueInv, NEW r \in Replicas, Execute(r)
  PROVE  \/ cache' = cache
         \/ Head(queue[r]) = Del /\ cache' = Empty
         \/ LET f == Head(queue[r]) IN
            /\ f \in Fetches /\ fetch[f].at = r /\ fetch[f].pc \in {"loaded", "answered"}
            /\ cache' = [value |-> fetch[f].value, left |-> TTL,
                         outdated |-> fetch[f].outdated, excused |-> fetch[f].excused]
<1>1. Head(queue[r]) \in Commands
  BY FirstCommand
<1>2. CASE Head(queue[r]) = Del
  BY <1>2 DEF Execute, ExecuteDel
<1>3. CASE Head(queue[r]) \in Fetches
  <2>1. fetch[Head(queue[r])].at = r /\ fetch[Head(queue[r])].pc \in {"loaded", "answered"}
    BY <1>3, FirstCommand
  <2>2. \/ cache' = cache
        \/ cache' = [value |-> fetch[Head(queue[r])].value, left |-> TTL,
                     outdated |-> fetch[Head(queue[r])].outdated, excused |-> fetch[Head(queue[r])].excused]
    BY <1>3, Constants DEF Execute, ExecuteSetex
  <2> QED BY <1>3, <2>1, <2>2
<1> QED BY <1>1, <1>2, <1>3 DEF Commands

LEMMA StepAge == AgeInv /\ [Next]_vars => CacheYoung'
<1> SUFFICES ASSUME AgeInv, [Next]_vars PROVE CacheYoung'
  OBVIOUS
<1>1. /\ QueueInv /\ fetch \in [Fetches -> FetchTypes] /\ TTL \in Nat /\ Delay \in Nat
      /\ cache # Empty => cache \in CacheTypes /\ cache.outdated + cache.left <= TTL + Delay
  BY Types, Bounds DEF AgeInv, QueueInv, CacheYoung
<1>2. CASE cache' = cache \/ cache' = Empty
  BY <1>1, <1>2 DEF CacheYoung
<1>3. CASE cache # Empty /\ cache' = [cache EXCEPT !.excused = TRUE]
  <2>1. cache'.outdated = cache.outdated /\ cache'.left = cache.left
    BY <1>1, <1>3 DEF CacheTypes
  <2> QED BY <1>1, <1>3, <2>1 DEF CacheYoung
<1>4. CASE Tick
  <2>1. cache' = IF cache.left <= 1 THEN Empty
                 ELSE [cache EXCEPT !.left = cache.left - 1, !.outdated = Older(cache)]
    BY <1>4 DEF Tick
  <2>2. CASE cache # Empty /\ ~ (cache.left <= 1)
    <3>1. cache.outdated \in Nat /\ cache.left \in Nat /\ cache \in CacheTypes
      BY <1>1, <2>2 DEF CacheTypes
    <3>2. Older(cache) \in Nat /\ Older(cache) <= cache.outdated + 1
      BY <3>1, OlderType
    <3>3. cache'.left = cache.left - 1 /\ cache'.outdated = Older(cache)
      BY <2>1, <2>2, <3>1 DEF CacheTypes
    <3> QED BY <1>1, <2>2, <3>1, <3>2, <3>3 DEF CacheYoung
  <2>3. CASE cache = Empty \/ cache.left <= 1
    BY <2>1, <2>3, Constants DEF CacheYoung
  <2> QED BY <2>2, <2>3
<1>5. ASSUME NEW r \in Replicas, Execute(r) PROVE CacheYoung'
  <2>1. CASE cache' = cache \/ cache' = Empty
    BY <1>2, <2>1
  <2>2. ASSUME NEW f \in Fetches,
               cache' = [value |-> fetch[f].value, left |-> TTL,
                         outdated |-> fetch[f].outdated, excused |-> fetch[f].excused]
        PROVE  CacheYoung'
    <3>1. fetch[f].outdated \in 0 .. Delay
      BY <1>1 DEF FetchTypes
    <3> QED BY <1>1, <2>2, <3>1 DEF CacheYoung
  <2> QED BY <1>1, <1>5, <2>1, <2>2, ExecutedCache
<1>6. CASE Next
  BY <1>1, <1>2, <1>3, <1>4, <1>5, <1>6, CacheSteps DEF QueueInv
<1>7. CASE UNCHANGED vars
  BY <1>2, <1>7 DEF vars
<1> QED BY <1>6, <1>7

\* The cache never holds counts that were superseded longer ago than its TTL
\* and the time from reading them to storing them: every tick that makes them
\* older takes one from their TTL, and what is stored is at most that late.
THEOREM CacheAgeBoundedHolds == Spec => []CacheAgeBounded
<1>1. Init => AgeInv
  BY InitQueue DEF Init, AgeInv, CacheYoung
<1>2. AgeInv /\ [Next]_vars => AgeInv'
  BY StepQueue, StepAge DEF AgeInv
<1>3. AgeInv => CacheAgeBounded
  <2> SUFFICES ASSUME AgeInv, cache # Empty PROVE cache.outdated <= TTL + Delay
    BY DEF CacheAgeBounded
  <2>1. cache \in CacheTypes /\ cache.outdated + cache.left <= TTL + Delay
    BY Types DEF AgeInv, QueueInv, CacheYoung
  <2> QED BY <2>1, Bounds DEF CacheTypes
<1> QED BY <1>1, <1>2, <1>3, PTL DEF Spec

-----------------------------------------------------------------------------
(* Pages are told. *)

\* As long as nothing is lost a step has lost nothing.
LEMMA Lossless ==
  ASSUME TypeOK, Next, lost' = 0
  PROVE  lost = 0 /\ ~ Lose
<1>1. lost \in Nat
  BY Types
<1>2. ~ Lose
  BY <1>1 DEF Lose
<1>3. lost' = lost
  <2>1. CASE \/ WorkerChange \/ Sweep
             \/ \E r \in Replicas, actor \in Dashboards \cup {NoOne} : Submit(r, actor) \/ CancelOrRetry(r, actor)
    BY <1>2, <2>1 DEF WorkerChange, Sweep, Submit, CancelOrRetry
  <2>2. CASE \/ Notify
             \/ \E r \in Replicas : Hear(r) \/ ListenerDrops(r) \/ ReplicaDies(r)
             \/ \E d \in Dashboards : Disconnect(d) \/ Authenticate(d) \/ \E r \in Replicas : Connect(d, r)
    BY <1>2, <2>2 DEF Notify, Hear, ListenerDrops, ReplicaDies, Disconnect, Authenticate, Connect
  <2>3. CASE Tick \/ \E r \in Replicas : Execute(r)
    BY <1>2, <2>3 DEF Tick, Execute
  <2>4. CASE \E f \in Fetches : FetchStep(f)
    BY <1>2, <2>4, FetchSteps
  <2> QED BY <2>1, <2>2, <2>3, <2>4 DEF Next
<1> QED BY <1>2, <1>3

\* Nothing that a page waits for is used up.
NoLess ==
  /\ UNCHANGED <<conn, authed, waiting>> /\ (owed > 0 => owed' > 0)
  /\ \A d \in Dashboards : due[d] > 0 => due'[d] > 0
  /\ \A r \in Replicas : inbox[r] > 0 => inbox'[r] > 0

LEMMA NoLessTold ==
  ASSUME ToldInv, lost = 0, NoLess
  PROVE  WaitingAuthed' /\ PageIsTold'
<1>1. /\ owed \in Nat /\ due \in [Dashboards -> Nat] /\ inbox \in [Replicas -> Nat] /\ waiting \subseteq authed
      /\ \A d \in authed : d \in Dashboards /\ conn[d] \in Replicas
      /\ \A d \in waiting : due[d] > 0 \/ owed > 0 \/ inbox[conn[d]] > 0
  BY Types DEF ToldInv, QueueInv, TypeOK, WaitingAuthed, PageIsTold
<1>2. WaitingAuthed'
  BY <1>1 DEF NoLess, WaitingAuthed
<1>3. ASSUME NEW d \in waiting
      PROVE  due'[d] > 0 \/ owed' > 0 \/ inbox'[conn'[d]] > 0
  <2>1. d \in Dashboards /\ conn[d] \in Replicas /\ conn'[d] = conn[d]
    BY <1>1 DEF NoLess
  <2> QED BY <1>1, <2>1 DEF NoLess
<1> QED BY <1>2, <1>3 DEF NoLess, PageIsTold

LEMMA StepTold == ToldInv /\ [Next]_vars => WaitingAuthed' /\ PageIsTold'
<1> SUFFICES ASSUME ToldInv, [Next]_vars, lost' = 0 PROVE WaitingAuthed' /\ PageIsTold'
  BY DEF WaitingAuthed, PageIsTold
<1>1. lost = 0 /\ (~ Lose \/ UNCHANGED vars)
  BY Lossless DEF ToldInv, QueueInv, vars
<1>2. /\ owed \in Nat /\ due \in [Dashboards -> Nat] /\ inbox \in [Replicas -> Nat] /\ waiting \subseteq authed
      /\ \A d \in authed : d \in Dashboards /\ conn[d] \in Replicas
      /\ \A d \in waiting : due[d] > 0 \/ owed > 0 \/ inbox[conn[d]] > 0
      /\ conn \in [Dashboards -> Replicas \cup {NoOne}]
      /\ \A d \in authed : conn[d] # NoOne
      /\ queue \in [Replicas -> Seq(Commands)]
  BY <1>1, Types DEF ToldInv, QueueInv, TypeOK, WaitingAuthed, PageIsTold
<1>3. CASE UNCHANGED vars
  <2>1. NoLess
    BY <1>2, <1>3 DEF vars, NoLess
  <2> QED BY <1>1, <2>1, NoLessTold
<1>4. CASE WorkerChange
  <2>1. owed' = owed + 1 /\ waiting' = waiting \cup authed /\ UNCHANGED authed
    BY <1>1, <1>4 DEF WorkerChange
  <2> QED BY <1>2, <2>1 DEF WaitingAuthed, PageIsTold
<1>5. CASE Sweep \/ Tick \/ \E r \in Replicas : Execute(r)
  <2>1. NoLess
    BY <1>2, <1>5 DEF Sweep, Tick, Execute, NoLess
  <2> QED BY <1>1, <2>1, NoLessTold
<1>6. ASSUME NEW r \in Replicas, NEW actor \in Dashboards \cup {NoOne}, Submit(r, actor) \/ CancelOrRetry(r, actor)
      PROVE  WaitingAuthed' /\ PageIsTold'
  <2>1. UNCHANGED <<owed, inbox, conn, authed, waiting>>
    BY <1>6 DEF Submit, CancelOrRetry
  <2>2. \E pages : due' = Told(pages, actor)
    BY <1>1, <1>6 DEF Submit, CancelOrRetry, Lose
  <2>3. \A d \in Dashboards : due[d] > 0 => due'[d] > 0
    BY <1>2, <2>2, ToldType DEF ToldInv, QueueInv
  <2>4. NoLess
    BY <1>2, <2>1, <2>3 DEF NoLess
  <2> QED BY <1>1, <2>4, NoLessTold
<1>7. CASE Notify
  <2>1. inbox' = Notified /\ UNCHANGED <<conn, authed, waiting>>
    BY <1>1, <1>7 DEF Notify, Lose
  <2>2. \A r \in Replicas : inbox'[r] > 0
    BY <1>2, <2>1 DEF Notified
  <2> QED BY <1>2, <2>1, <2>2 DEF WaitingAuthed, PageIsTold
<1>8. ASSUME NEW r \in Replicas, Hear(r) PROVE WaitingAuthed' /\ PageIsTold'
  <2>1. /\ inbox' = [inbox EXCEPT ![r] = inbox[r] - 1] /\ due' = Told(Sockets(r), NoOne)
        /\ UNCHANGED <<owed, conn, authed, waiting>>
    BY <1>8 DEF Hear
  <2>2. ASSUME NEW d \in waiting PROVE due'[d] > 0 \/ owed' > 0 \/ inbox'[conn'[d]] > 0
    <3>1. d \in Dashboards /\ d \in authed /\ conn[d] \in Replicas
      BY <1>2
    <3>2. due'[d] >= due[d] /\ (conn[d] = r => due'[d] > 0)
      BY <2>1, <3>1, ToldType DEF ToldInv, QueueInv, Sockets
    <3>3. conn[d] # r => inbox'[conn'[d]] = inbox[conn[d]]
      BY <1>2, <2>1, <3>1
    <3>4. due'[d] \in Nat /\ due[d] \in Nat
      BY <1>2, <2>1, <3>1, ToldType DEF ToldInv, QueueInv
    <3> QED BY <1>2, <2>1, <3>2, <3>3, <3>4
  <2> QED BY <1>2, <2>1, <2>2 DEF WaitingAuthed, PageIsTold
<1>9. CASE \/ \E r \in Replicas : ListenerDrops(r) \/ ReplicaDies(r)
           \/ \E d \in Dashboards : Disconnect(d)
  BY <1>1, <1>3, <1>9 DEF ListenerDrops, ReplicaDies, Disconnect
<1>10. ASSUME NEW d \in Dashboards, NEW r \in Replicas, Connect(d, r) PROVE WaitingAuthed' /\ PageIsTold'
  <2>1. conn' = [conn EXCEPT ![d] = r] /\ UNCHANGED <<due, owed, inbox, authed, waiting>> /\ d \notin authed
    BY <1>2, <1>10 DEF Connect
  <2>2. \A e \in waiting : conn'[e] = conn[e]
    BY <1>2, <2>1
  <2> QED BY <1>2, <2>1, <2>2 DEF WaitingAuthed, PageIsTold
<1>11. ASSUME NEW d \in Dashboards, Authenticate(d) PROVE WaitingAuthed' /\ PageIsTold'
  <2>1. authed' = authed \cup {d} /\ UNCHANGED <<due, owed, inbox, conn, waiting>>
    BY <1>11 DEF Authenticate
  <2> QED BY <1>2, <2>1 DEF WaitingAuthed, PageIsTold
<1>12. ASSUME NEW f \in Fetches, FetchStep(f) PROVE WaitingAuthed' /\ PageIsTold'
  <2>1. UNCHANGED <<owed, inbox, conn, authed>>
    BY <1>12, FetchSteps DEF ToldInv, QueueInv
  <2>2. CASE UNCHANGED <<due, waiting>>
    BY <1>2, <2>1, <2>2 DEF WaitingAuthed, PageIsTold
  <2>3. ASSUME NEW d \in Dashboards, NEW r \in Replicas, Send(f, d, r)
        PROVE  WaitingAuthed' /\ PageIsTold'
    <3>1. due' = [due EXCEPT ![d] = due[d] - 1] /\ waiting' = waiting \ {d}
      BY <2>3 DEF Send
    <3>2. \A e \in waiting' : e \in waiting /\ due'[e] = due[e]
      BY <1>2, <3>1
    <3> QED BY <1>2, <2>1, <3>2 DEF WaitingAuthed, PageIsTold
  <2> QED BY <1>12, <2>2, <2>3 DEF FetchStep, GetHit, GetMiss, Read, Return, Answer
<1> QED BY <1>3, <1>4, <1>5, <1>6, <1>7, <1>8, <1>9, <1>10, <1>11, <1>12 DEF Next

\* As long as nothing is lost, a page with an authenticated socket is told of
\* every change by a worker, whichever replica holds the socket: what it waits
\* for goes from the worker to every replica's inbox and from there to its due
\* refetches, and it cannot change replicas without a loss.
THEOREM PageIsToldHolds == Spec => []PageIsTold
<1>1. Init => ToldInv
  BY InitQueue DEF Init, ToldInv, WaitingAuthed, PageIsTold
<1>2. ToldInv /\ [Next]_vars => ToldInv'
  BY StepQueue, StepTold DEF ToldInv
<1>3. ToldInv => PageIsTold
  BY DEF ToldInv
<1> QED BY <1>1, <1>2, <1>3, PTL DEF Spec

-----------------------------------------------------------------------------
(* Where stale counts come from. *)

\* A tick leaves the requests what they are, but for their ages.
LEMMA TickFetch ==
  ASSUME TypeOK, Tick, NEW f \in Fetches
  PROVE  /\ fetch'[f].pc = fetch[f].pc /\ fetch'[f].at = fetch[f].at /\ fetch'[f].value = fetch[f].value
         /\ fetch'[f].excused = fetch[f].excused
<1>1. fetch[f] \in FetchTypes
  BY Types
<1>2. fetch'[f] = fetch[f] \/ fetch'[f] = [fetch[f] EXCEPT !.age = fetch[f].age + 1, !.outdated = Older(fetch[f])]
  BY DEF Tick
<1> QED BY <1>1, <1>2 DEF FetchTypes

\* A request's own step: how what is known of its counts changes.
LEMMA FetchStepFetch ==
  ASSUME TypeOK, NEW f \in Fetches, FetchStep(f)
  PROVE  /\ \/ fetch'[f].pc = "idle"
            \/ fetch[f].pc # "idle" /\ fetch'[f].at = fetch[f].at
            \/ fetch'[f].at \in Replicas
         /\ fetch'[f].pc \in {"read", "loaded", "answered"} =>
              \/ fetch'[f].value = db
              \/ Unstored(f) /\ fetch'[f].value = fetch[f].value /\ fetch'[f].excused = fetch[f].excused
<1>1. fetch[f] \in FetchTypes /\ FetchBecomes(f)
  BY Types, FetchSteps
<1>2. CASE \E d \in Dashboards, r \in Replicas :
             fetch'[f] = [NoFetch EXCEPT !.pc = "sent", !.page = d, !.at = r]
  <2>1. PICK d \in Dashboards, r \in Replicas :
          fetch'[f] = [NoFetch EXCEPT !.pc = "sent", !.page = d, !.at = r]
    BY <1>2
  <2>2. fetch'[f].pc = "sent" /\ fetch'[f].at = r
    BY <2>1 DEF NoFetch
  <2> QED BY <2>2
<1>3. CASE cache # Empty /\ fetch[f].pc = "sent" /\ fetch'[f] = [fetch[f] EXCEPT !.pc = "stored", !.value = cache.value]
  BY <1>1, <1>3 DEF FetchTypes
<1>4. CASE fetch[f].pc = "sent" /\ fetch'[f] = [fetch[f] EXCEPT !.pc = "missed"]
  BY <1>1, <1>4 DEF FetchTypes
<1>5. CASE fetch[f].pc = "missed" /\ fetch'[f] = [fetch[f] EXCEPT !.pc = "read", !.value = db]
  BY <1>1, <1>5 DEF FetchTypes
<1>6. CASE fetch[f].pc = "read" /\ fetch'[f] = [fetch[f] EXCEPT !.pc = "loaded"]
  BY <1>1, <1>6 DEF FetchTypes, Unstored
<1>7. CASE fetch'[f] = NoFetch
  BY <1>7, Constants
<1>8. CASE fetch[f].pc = "loaded" /\ fetch'[f] = [fetch[f] EXCEPT !.pc = "answered"]
  BY <1>1, <1>8 DEF FetchTypes, Unstored
<1> QED BY <1>1, <1>2, <1>3, <1>4, <1>5, <1>6, <1>7, <1>8 DEF FetchBecomes

LEMMA StepAtReplica == QueueInv /\ AtReplica /\ [Next]_vars => AtReplica'
<1> SUFFICES ASSUME QueueInv, AtReplica, [Next]_vars PROVE AtReplica'
  OBVIOUS
<1>1. TypeOK /\ fetch \in [Fetches -> FetchTypes]
  BY Types DEF QueueInv
<1>2. CASE UNCHANGED vars
  BY <1>2 DEF vars, AtReplica
<1>3. ASSUME Next, cache' # Empty PROVE Replicas # {}
  <2>1. CASE Tick
    <3>1. cache.left <= 1 => cache' = Empty
      BY <2>1 DEF Tick
    <3>2. cache # Empty
      BY <1>3, <3>1, Constants
    <3> QED BY <3>2 DEF AtReplica
  <2> QED BY <1>1, <1>3, <2>1, CacheSteps DEF AtReplica
<1>4. ASSUME Next, NEW f \in Fetches, fetch'[f].pc # "idle" PROVE fetch'[f].at \in Replicas
  <2>1. CASE fetch' = fetch \/ fetch' = UnstoredExcused
    BY <1>1, <1>4, <2>1, ExcuseKeeps DEF AtReplica
  <2>2. CASE Tick
    BY <1>1, <1>4, <2>2, TickFetch DEF AtReplica
  <2>3. ASSUME NEW r \in Replicas, ReplicaDies(r) PROVE fetch'[f].at \in Replicas
    <3>1. fetch'[f] = NoFetch \/ fetch'[f] = fetch[f]
      BY <2>3 DEF ReplicaDies
    <3> QED BY <1>4, <3>1, Constants DEF AtReplica
  <2>4. ASSUME NEW r \in Replicas, Execute(r), Head(queue[r]) \in Fetches, fetch' = Stored(Head(queue[r]))
        PROVE  fetch'[f].at \in Replicas
    <3> DEFINE g == Head(queue[r])
    <3>1. g \in Fetches /\ fetch[g].at = r /\ fetch[g].pc \in {"loaded", "answered"}
      BY <2>4, FirstCommand
    <3> HIDE DEF g
    <3>2. /\ \A h \in Fetches \ {g} : Stored(g)[h] = fetch[h]
          /\ Stored(g)[g] = NoFetch \/ Stored(g)[g].at = fetch[g].at
      BY <1>1, <3>1, StoredType
    <3>3. fetch' = Stored(g)
      BY <2>4 DEF g
    <3> QED BY <1>4, <3>1, <3>2, <3>3, Constants DEF AtReplica
  <2>5. ASSUME NEW r \in Replicas, Execute(r) PROVE fetch'[f].at \in Replicas
    <3>1. Head(queue[r]) \in Commands
      BY <2>5, FirstCommand
    <3>2. \/ fetch' = fetch \/ fetch' = UnstoredExcused
          \/ Head(queue[r]) \in Fetches /\ fetch' = Stored(Head(queue[r]))
      BY <2>5, <3>1 DEF Execute, ExecuteDel, ExecuteSetex, Commands
    <3> QED BY <2>1, <2>4, <2>5, <3>2
  <2>6. ASSUME NEW g \in Fetches, FetchStep(g) PROVE fetch'[f].at \in Replicas
    <3>1. f # g => fetch'[f] = fetch[f]
      BY <1>1, <2>6, FetchSteps
    <3> QED BY <1>1, <1>4, <2>6, <3>1, FetchStepFetch DEF AtReplica
  <2>7. CASE \/ WorkerChange \/ Sweep
             \/ \E r \in Replicas, actor \in Dashboards \cup {NoOne} : Submit(r, actor) \/ CancelOrRetry(r, actor)
    BY <2>1, <2>7 DEF WorkerChange, Sweep, Submit, CancelOrRetry
  <2>8. CASE \/ Notify
             \/ \E r \in Replicas : Hear(r) \/ ListenerDrops(r)
             \/ \E d \in Dashboards : Disconnect(d) \/ Authenticate(d) \/ \E r \in Replicas : Connect(d, r)
    BY <2>1, <2>8 DEF Notify, Hear, ListenerDrops, Disconnect, Authenticate, Connect
  <2> QED BY <1>4, <2>2, <2>3, <2>5, <2>6, <2>7, <2>8 DEF Next
<1> QED BY <1>2, <1>3, <1>4 DEF AtReplica

\* What has to be shown of a step: the stale counts that nothing is under way
\* to delete are excused.
LEMMA ExcusedBecause ==
  ASSUME \/ UnderWay'
         \/ /\ cache' # Empty /\ cache'.value < db' => cache'.excused
            /\ \A f \in Fetches : Unstored(f)' /\ fetch'[f].value < db' => fetch'[f].excused
  PROVE  Excused'
BY DEF Excused

\* A command of one replica that is not a DEL takes no DEL from a queue.
LEMMA DelStays ==
  ASSUME QueueInv, UnderWay, UNCHANGED <<owed, inbox>>,
         \/ queue' = queue
         \/ \E f \in Fetches : Return(f)
         \/ \E r \in Replicas : Execute(r) /\ Head(queue[r]) # Del
  PROVE  UnderWay'
<1>1. CASE owed > 0 \/ \E r \in Replicas : inbox[r] > 0
  BY <1>1 DEF UnderWay
<1>2. CASE \E p \in Replicas : Has(queue[p], Del)
  <2>1. PICK p \in Replicas : Has(queue[p], Del)
    BY <1>2
  <2>2. CASE queue' = queue
    BY <2>1, <2>2 DEF UnderWay
  <2>3. ASSUME NEW f \in Fetches, Return(f) PROVE UnderWay'
    <3>1. queue' = [queue EXCEPT ![fetch[f].at] = Append(queue[fetch[f].at], f)]
      BY <2>3 DEF Return
    <3>2. queue \in [Replicas -> Seq(Commands)] /\ f \in Commands
      BY Types DEF QueueInv, Commands
    <3>3. \A y : Has(queue[p], y) => Has(Append(queue[p], f), y)
      BY <3>2, AppendHas
    <3>4. Has(queue'[p], Del)
      BY <2>1, <3>1, <3>2, <3>3
    <3> QED BY <3>4 DEF UnderWay
  <2>4. ASSUME NEW r \in Replicas, Execute(r), Head(queue[r]) # Del PROVE UnderWay'
    <3>1. Has(queue'[p], Del)
      BY <2>1, <2>4, FirstCommand, Constants
    <3> QED BY <3>1 DEF UnderWay
  <2> QED BY <2>2, <2>3, <2>4
<1> QED BY <1>1, <1>2 DEF UnderWay

\* An invalidation that is sent is under way.
LEMMA InvalidateUnderWay ==
  ASSUME QueueInv, NEW r \in Replicas, queue' = Invalidate(r)
  PROVE  UnderWay'
<1>1. Has(queue'[r], Del)
  BY InvalidateQueues
<1> QED BY <1>1 DEF UnderWay

LEMMA StepExcused == RaceInv /\ [Next]_vars => Excused'
<1> SUFFICES ASSUME RaceInv, [Next]_vars, lost' = 0, ~ UnderWay' PROVE Excused'
  BY DEF Excused
<1>1. lost = 0 /\ (~ Lose \/ UNCHANGED vars)
  BY Lossless DEF RaceInv, QueueInv, vars
<1>2. /\ QueueInv /\ TypeOK /\ fetch \in [Fetches -> FetchTypes] /\ db \in Nat /\ owed \in Nat
      /\ inbox \in [Replicas -> Nat] /\ queue \in [Replicas -> Seq(Commands)]
      /\ cache # Empty => cache \in CacheTypes
  BY Types DEF RaceInv, QueueInv
<1>3. ASSUME ~ UnderWay
      PROVE  /\ cache # Empty /\ cache.value < db => cache.excused
             /\ \A f \in Fetches : Unstored(f) /\ fetch[f].value < db => fetch[f].excused
  BY <1>1, <1>3 DEF RaceInv, Excused
<1>4. CASE UNCHANGED <<db, cache, fetch>> /\ ~ UnderWay
  BY <1>3, <1>4 DEF Excused, Unstored
<1>5. CASE UNCHANGED vars
  <2>1. ~ UnderWay
    BY <1>5 DEF vars, UnderWay
  <2> QED BY <1>4, <1>5, <2>1 DEF vars
<1>6. CASE WorkerChange
  <2>1. owed' = owed + 1
    BY <1>6 DEF WorkerChange
  <2> QED BY <1>2, <2>1 DEF UnderWay
<1>7. CASE Sweep
  <2>1. cache' = (IF cache = Empty THEN Empty ELSE [cache EXCEPT !.excused = TRUE]) /\ fetch' = UnstoredExcused
    BY <1>7 DEF Sweep
  <2>2. cache' # Empty => cache'.excused
    BY <1>2, <2>1 DEF CacheTypes
  <2>3. \A f \in Fetches : Unstored(f)' => fetch'[f].excused
    BY <1>2, <2>1, ExcuseKeeps DEF Unstored
  <2> QED BY <2>2, <2>3, ExcusedBecause
<1>8. ASSUME NEW r \in Replicas, NEW actor \in Dashboards \cup {NoOne}, Submit(r, actor) \/ CancelOrRetry(r, actor)
      PROVE  FALSE
  <2>1. queue' = Invalidate(r)
    BY <1>1, <1>8 DEF Submit, CancelOrRetry, Lose
  <2> QED BY <1>2, <2>1, InvalidateUnderWay
<1>9. CASE Notify
  <2>1. inbox' = Notified /\ UNCHANGED <<db, cache, fetch>>
    BY <1>1, <1>9 DEF Notify, Lose
  <2>2. Replicas = {}
    BY <1>2, <2>1 DEF Notified, UnderWay
  <2>3. cache = Empty /\ \A f \in Fetches : ~ Unstored(f)
    BY <2>2 DEF RaceInv, AtReplica, Unstored
  <2> QED BY <2>1, <2>3, ExcusedBecause DEF Unstored
<1>10. ASSUME NEW r \in Replicas, Hear(r) PROVE FALSE
  <2>1. queue' = Invalidate(r)
    BY <1>10 DEF Hear
  <2> QED BY <1>2, <2>1, InvalidateUnderWay
<1>11. CASE \/ \E r \in Replicas : ListenerDrops(r) \/ ReplicaDies(r)
            \/ \E d \in Dashboards : Disconnect(d)
  BY <1>1, <1>5, <1>11 DEF ListenerDrops, ReplicaDies, Disconnect
<1>12. CASE \E d \in Dashboards : Authenticate(d) \/ \E r \in Replicas : Connect(d, r)
  <2>1. UNCHANGED <<db, cache, fetch, owed, inbox, queue>>
    BY <1>12 DEF Authenticate, Connect
  <2>2. ~ UnderWay
    BY <1>2, <2>1, DelStays
  <2> QED BY <1>4, <2>1, <2>2
<1>13. CASE Tick
  <2>1. UNCHANGED <<db, owed, inbox, queue>>
    BY <1>13 DEF Tick
  <2>2. ~ UnderWay
    BY <1>2, <2>1, DelStays
  <2>3. cache' = Empty \/ (cache # Empty /\ cache' = [cache EXCEPT !.left = cache.left - 1, !.outdated = Older(cache)])
    <3>1. cache' = IF cache.left <= 1 THEN Empty
                   ELSE [cache EXCEPT !.left = cache.left - 1, !.outdated = Older(cache)]
      BY <1>13 DEF Tick
    <3> QED BY <3>1, Constants
  <2>4. cache' = Empty \/ (cache # Empty /\ cache'.value = cache.value /\ cache'.excused = cache.excused)
    BY <1>2, <2>3 DEF CacheTypes
  <2>5. cache' # Empty /\ cache'.value < db' => cache'.excused
    BY <1>3, <2>1, <2>2, <2>4
  <2>6. \A f \in Fetches : Unstored(f)' /\ fetch'[f].value < db' => fetch'[f].excused
    BY <1>2, <1>3, <1>13, <2>1, <2>2, TickFetch DEF Unstored
  <2> QED BY <2>5, <2>6, ExcusedBecause
<1>14. ASSUME NEW r \in Replicas, Execute(r) PROVE Excused'
  <2>1. UNCHANGED <<db, owed, inbox>> /\ Head(queue[r]) \in Commands
    BY <1>14, FirstCommand, <1>2 DEF Execute
  <2>2. CASE Head(queue[r]) = Del
    <3>1. cache' = Empty /\ fetch' = UnstoredExcused
      BY <1>1, <1>14, <2>2 DEF Execute, ExecuteDel, Lose
    <3>2. \A f \in Fetches : Unstored(f)' => fetch'[f].excused
      BY <1>2, <3>1, ExcuseKeeps DEF Unstored
    <3> QED BY <3>1, <3>2, ExcusedBecause
  <2>3. CASE Head(queue[r]) \in Fetches
    <3> DEFINE g == Head(queue[r])
    <3>1. ~ UnderWay
      BY <1>2, <1>14, <2>1, <2>3, DelStays, Constants
    <3>2. /\ g \in Fetches /\ fetch[g].pc \in {"loaded", "answered"}
          /\ fetch' = Stored(g)
          /\ cache' = [value |-> fetch[g].value, left |-> TTL,
                       outdated |-> fetch[g].outdated, excused |-> fetch[g].excused]
      <4>1. g \in Fetches /\ fetch[g].pc \in {"loaded", "answered"} /\ g # Del
        BY <1>2, <1>14, <2>3, FirstCommand, Constants
      <4>2. ~ Lose
        BY <1>1, <1>2, <1>14 DEF Execute, Lose
      <4>3. ExecuteSetex(g)
        BY <1>14, <4>1, <4>2 DEF Execute
      <4> QED BY <4>1, <4>3 DEF ExecuteSetex
    <3> HIDE DEF g
    <3>3. cache'.value < db' => cache'.excused
      BY <1>3, <2>1, <3>1, <3>2 DEF Unstored
    <3>4. /\ \A f \in Fetches \ {g} : fetch'[f] = fetch[f]
          /\ fetch'[g].pc \in {"idle", "stored"}
      BY <1>2, <3>2, StoredType, Constants
    <3>5. \A f \in Fetches : Unstored(f)' /\ fetch'[f].value < db' => fetch'[f].excused
      BY <1>3, <2>1, <3>1, <3>4 DEF Unstored
    <3> QED BY <3>3, <3>5, ExcusedBecause
  <2> QED BY <2>1, <2>2, <2>3 DEF Commands
<1>15. ASSUME NEW g \in Fetches, FetchStep(g) PROVE Excused'
  <2>1. /\ UNCHANGED <<db, cache, owed, inbox>> /\ (queue' = queue \/ Return(g))
        /\ \A f \in Fetches \ {g} : fetch'[f] = fetch[f]
    BY <1>2, <1>15, FetchSteps
  <2>2. ~ UnderWay
    BY <1>2, <2>1, DelStays
  <2>3. fetch'[g].pc \in {"read", "loaded", "answered"} /\ fetch'[g].value < db' => fetch'[g].excused
    BY <1>2, <1>3, <1>15, <2>1, <2>2, FetchStepFetch
  <2>4. \A f \in Fetches : Unstored(f)' /\ fetch'[f].value < db' => fetch'[f].excused
    BY <1>3, <2>1, <2>2, <2>3 DEF Unstored
  <2> QED BY <1>3, <2>1, <2>2, <2>4, ExcusedBecause
<1> QED BY <1>5, <1>6, <1>7, <1>8, <1>9, <1>10, <1>11, <1>12, <1>13, <1>14, <1>15 DEF Next

\* The invalidations work, but for one race and the sweep: as long as nothing is
\* lost, stale counts in the cache are about to be deleted, or were read before
\* a change and stored after its invalidation, or miss a change of the sweep's.
\* Counts that are not stored yet carry the same excuse, and Redis executes what
\* one replica sends in order, so that no DEL is lost to a SETEX.
THEOREM StaleOnlyByRaceHolds == Spec => []StaleOnlyByRace
<1>1. Init => RaceInv
  <2> SUFFICES ASSUME Init PROVE RaceInv
    OBVIOUS
  <2>1. QueueInv /\ cache = Empty /\ \A f \in Fetches : fetch[f] = NoFetch
    BY InitQueue DEF Init
  <2> QED BY <2>1, Constants DEF RaceInv, AtReplica, Excused, Unstored
<1>2. RaceInv /\ [Next]_vars => RaceInv'
  BY StepQueue, StepAtReplica, StepExcused DEF RaceInv
<1>3. RaceInv => StaleOnlyByRace
  BY DEF RaceInv, Excused, StaleOnlyByRace, UnderWay, Has
<1> QED BY <1>1, <1>2, <1>3, PTL DEF Spec

=============================================================================
