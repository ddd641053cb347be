---------------------------- MODULE RateLimiter ----------------------------
(***************************************************************************)
(* The sliding window that rateLimitMiddleware keeps for one tenant in a   *)
(* sorted set of Redis (apps/api/src/middleware/rateLimit.ts).             *)
(*                                                                         *)
(* A pipeline of ioredis is not a transaction: other requests' commands    *)
(* may fall between its commands, so each command is a step.  Requests of  *)
(* all API replicas share the key.  Time is counted in ticks; a request    *)
(* reads its clock before the pipeline is sent, and Delay bounds how long  *)
(* after that the pipeline is executed.  Nothing bounds the commands that  *)
(* undo a rejected request.  A member's score is its request's clock.      *)
(***************************************************************************)
EXTENDS Integers, FiniteSets

CONSTANTS
  Requests,        \* requests of the tenant
  Limit,           \* tenants.rate_limit_per_minute
  Window,          \* WINDOW_MS, in ticks
  TicksPerSecond,  \* of EXPIRE's seconds and of Retry-After
  Delay,           \* bound: ticks from Date.now() to the end of the pipeline
  MaxTime,         \* bound: ticks
  MaxBroken,       \* bound: pipelines that break
  MaxUndoFaults    \* bound: undo commands that fail

ASSUME RequestsFinite == IsFiniteSet(Requests)
ASSUME Timing ==
  /\ Window \in Nat /\ TicksPerSecond \in Nat /\ Delay \in Nat
  /\ Delay < Window /\ 0 < TicksPerSecond /\ Delay <= TicksPerSecond
ASSUME OtherTypes ==
  /\ Limit \in Int
  /\ MaxTime \in Nat /\ MaxBroken \in Nat /\ MaxUndoFaults \in Nat

VARIABLES
  time,      \* the clock all replicas and Redis share
  zset,      \* the requests with a member in the key's sorted set
  deadline,  \* when the key expires; NoDeadline without a TTL
  req,       \* req[r]: where the middleware's call for request r is
  faults     \* how much of each bound on faults is used up

vars == <<time, zset, deadline, req, faults>>

NoDeadline == -1

\* Between reading the clock and the end of the pipeline.
InPipeline == {"sent", "trimmed", "added", "counted"}

States == InPipeline \cup {"idle", "accepted", "over", "undone", "rejected", "open"}

Idle == [pc |-> "idle", now |-> 0, count |-> 0, retry |-> 0]

Init ==
  /\ time = 0
  /\ zset = {}
  /\ deadline = NoDeadline
  /\ req = [r \in Requests |-> Idle]
  /\ faults = [broken |-> 0, undo |-> 0]

-----------------------------------------------------------------------------
Score(q) == req[q].now

\* Redis deletes a key, and with it its TTL, when its set gets empty.
SetMembers(members) ==
  /\ zset' = members
  /\ deadline' = IF members = {} THEN NoDeadline ELSE deadline

\* The middleware of r is called and reads the clock.
Arrive(r) ==
  /\ req[r].pc = "idle"
  /\ req' = [req EXCEPT ![r].pc = "sent", ![r].now = time]
  /\ UNCHANGED <<time, zset, deadline, faults>>

\* ZREMRANGEBYSCORE key 0 now-WINDOW_MS
Trim(r) ==
  /\ req[r].pc = "sent"
  /\ SetMembers({q \in zset : Score(q) > Score(r) - Window})
  /\ req' = [req EXCEPT ![r].pc = "trimmed"]
  /\ UNCHANGED <<time, faults>>

\* ZADD key now member
Add(r) ==
  /\ req[r].pc = "trimmed"
  /\ zset' = zset \cup {r}
  /\ req' = [req EXCEPT ![r].pc = "added"]
  /\ UNCHANGED <<time, deadline, faults>>

\* Mutant: the request is not counted itself.
CountedOthers(r) == Cardinality(zset \ {r})

Counted(r) == Cardinality(zset)

\* ZCARD key
Count(r) ==
  /\ req[r].pc = "added"
  /\ req' = [req EXCEPT ![r].pc = "counted", ![r].count = Counted(r)]
  /\ UNCHANGED <<time, zset, deadline, faults>>

\* Mutant: without the spare second.
TimeToLiveExact == Window

TimeToLive == Window + TicksPerSecond

\* EXPIRE of a key that is not there does nothing.
Refresh == deadline' = IF zset = {} THEN NoDeadline ELSE time + TimeToLive

\* EXPIRE key WINDOW_SECONDS+1 ends the pipeline; the middleware compares the
\* count with the limit and returns, or goes on to undo the request's slot.
Expire(r) ==
  /\ req[r].pc = "counted"
  /\ Refresh
  /\ req' = [req EXCEPT ![r].pc = IF req[r].count > Limit THEN "over" ELSE "accepted"]
  /\ UNCHANGED <<time, zset, faults>>

\* The pipeline breaks after any of its commands, or its answer is lost: the
\* middleware fails open.
PipelineBreaks(r) ==
  /\ req[r].pc \in InPipeline
  /\ faults.broken < MaxBroken
  /\ faults' = [faults EXCEPT !.broken = @ + 1]
  /\ UNCHANGED deadline \/ (req[r].pc = "counted" /\ Refresh)
  /\ req' = [req EXCEPT ![r].pc = "open"]
  /\ UNCHANGED <<time, zset>>

\* ZREM key member
Undo(r) ==
  /\ req[r].pc = "over"
  /\ SetMembers(zset \ {r})
  /\ req' = [req EXCEPT ![r].pc = "undone"]
  /\ UNCHANGED <<time, faults>>

Oldest(r) ==
  IF zset = {} THEN Score(r)
  ELSE CHOOSE s \in {Score(q) : q \in zset} : \A q \in zset : s <= Score(q)

\* Mutant: rounded down, and no least value.
RetryAfterFloor(r) == (Oldest(r) + Window - Score(r)) \div TicksPerSecond

\* Math.max(1, Math.ceil(...))
RetryAfter(r) ==
  LET seconds == - ((Score(r) - Oldest(r) - Window) \div TicksPerSecond)
  IN  IF seconds < 1 THEN 1 ELSE seconds

\* ZRANGE key 0 0, and the 429 with its Retry-After.
Reject(r) ==
  /\ req[r].pc = "undone"
  /\ req' = [req EXCEPT ![r].pc = "rejected", ![r].retry = RetryAfter(r)]
  /\ UNCHANGED <<time, zset, deadline, faults>>

\* ZREM or ZRANGE fails: the request goes through although it is over the limit.
UndoFails(r) ==
  /\ req[r].pc \in {"over", "undone"}
  /\ faults.undo < MaxUndoFaults
  /\ faults' = [faults EXCEPT !.undo = @ + 1]
  /\ \/ UNCHANGED <<zset, deadline>>
     \/ SetMembers(zset \ {r})
  /\ req' = [req EXCEPT ![r].pc = "open"]
  /\ UNCHANGED time

\* A tick; the key is gone at its deadline.
Tick ==
  /\ time < MaxTime
  /\ \A r \in Requests : req[r].pc \in InPipeline => time < Score(r) + Delay
  /\ time' = time + 1
  /\ IF time' = deadline THEN SetMembers({}) ELSE UNCHANGED <<zset, deadline>>
  /\ UNCHANGED <<req, faults>>

Next ==
  \/ \E r \in Requests :
       \/ Arrive(r) \/ Trim(r) \/ Add(r) \/ Count(r) \/ Expire(r)
       \/ PipelineBreaks(r)
       \/ Undo(r) \/ Reject(r) \/ UndoFails(r)
  \/ Tick

Spec == Init /\ [][Next]_vars

-----------------------------------------------------------------------------
(* Correctness. *)

\* Every variable holds values of its type; a rejected client is told to wait
\* a whole number of seconds and never none (rateLimit.ts:31).
TypeOK ==
  /\ time \in Nat
  /\ zset \subseteq Requests
  /\ deadline \in Nat \cup {NoDeadline}
  /\ req \in [Requests -> [pc : States, now : 0 .. time, count : Nat, retry : Nat]]
  /\ faults \in [broken : Nat, undo : Nat]
  /\ \A r \in Requests : req[r].pc = "rejected" => req[r].retry > 0

Accepted == {r \in Requests : req[r].pc = "accepted"}

\* A pipeline that breaks may leave a member without its EXPIRE.
KeyRefreshed == Delay = 0 \/ faults.broken = 0

\* The key's expiry never takes a slot that still counts: an accepted request
\* leaves the set only when a full window has passed over it, although requests
\* in flight are added to a key whose deadline is near (rateLimit.ts:4-5, 20-23).
KeyOutlivesWindow ==
  KeyRefreshed => \A r \in Accepted : r \in zset \/ Score(r) <= time - Window

\* Those accepted in the window that ends with r's clock.
AcceptedUpTo(r) == {q \in Accepted : Score(r) - (Window - Delay) < Score(q) /\ Score(q) <= Score(r)}

\* In any window, however requests race, at most Limit requests are accepted,
\* up to the time a pipeline takes (rateLimit.ts:17-28).
AnyWindow ==
  KeyRefreshed => \A r \in Accepted : Cardinality(AcceptedUpTo(r)) <= Limit

\* A client that waits as long as it is told finds room, unless others were
\* accepted meanwhile or the set holds slots that are not accepted requests'
\* (rateLimit.ts:29-31).
RetryAfterHonest ==
  [][\A r \in Requests :
       (Reject(r) /\ zset \subseteq Accepted /\ zset # {}) =>
         LET back == Score(r) + RetryAfter(r) * TicksPerSecond
         IN  Cardinality({q \in zset : Score(q) > back - Window}) < Limit]_vars

=============================================================================
