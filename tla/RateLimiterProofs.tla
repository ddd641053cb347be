------------------------- MODULE RateLimiterProofs -------------------------
(***************************************************************************)
(* What RateLimiter keeps for any number of requests, any limit and any    *)
(* window: its types, that the key's expiry loses no slot that counts,     *)
(* that no window holds more accepted requests than the limit, and that a  *)
(* rejected client is told to wait long enough.                            *)
(*                                                                         *)
(* KeyInv is the inductive invariant.  Its heart is Chain: the TTL of the  *)
(* key is refreshed at the end of a pipeline, so a request in flight may   *)
(* find its slot in a key that is about to expire; then an older request   *)
(* in flight has a slot in the same key and will refresh the TTL in time.  *)
(***************************************************************************)
EXTENDS RateLimiter, FiniteSetTheorems, WellFoundedInduction, TLAPS

Fields == [pc : States, now : Nat, count : Nat, retry : Nat]

\* TypeOK without the bound on a request's clock, which changes with time.
Types ==
  /\ time \in Nat
  /\ zset \subseteq Requests
  /\ deadline \in Nat \cup {NoDeadline}
  /\ req \in [Requests -> Fields]
  /\ faults \in [broken : Nat, undo : Nat]

\* Clocks are not ahead, and a pipeline is over after Delay.
Clocks ==
  \A r \in Requests :
    /\ req[r].now <= time
    /\ req[r].pc \in InPipeline => time <= req[r].now + Delay

\* The requests that may have a slot.
Slots == \A q \in zset : req[q].pc \in {"added", "counted", "accepted", "over", "open"}

Future == deadline # NoDeadline => time < deadline

Ended(q) == req[q].pc \in {"accepted", "over"} \/ (req[q].pc = "open" /\ faults.broken = 0)

\* A slot whose pipeline has ended is covered by the TTL.
Covered ==
  \A q \in zset :
    (deadline # NoDeadline /\ Ended(q)) => deadline >= req[q].now + Window + TicksPerSecond

Refreshing(p) == req[p].pc \in {"added", "counted"} /\ req[p].now + TicksPerSecond < deadline

Chain ==
  \A q \in Requests :
    (/\ faults.broken = 0
     /\ req[q].pc \in {"trimmed", "added", "counted"}
     /\ deadline # NoDeadline
     /\ req[q].now + TicksPerSecond >= deadline) => \E p \in zset : Refreshing(p)

Kept ==
  KeyRefreshed =>
    \A r \in Requests :
      req[r].pc \in {"added", "counted", "accepted"} => r \in zset \/ req[r].now <= time - Window

KeyInv == Types /\ Clocks /\ Slots /\ Future /\ Covered /\ Chain /\ Kept

LEMMA InitKey == Init => KeyInv
  BY Timing DEF Init, KeyInv, Types, Clocks, Slots, Future, Covered, Chain, Kept, Fields,
     States, InPipeline, Idle, NoDeadline

-----------------------------------------------------------------------------
(* Helpers. *)

\* A set of naturals that is not empty has a least element.
LEMMA LeastNatural ==
  ASSUME NEW S \in SUBSET Nat, S # {}
  PROVE  \E s \in S : \A t \in S : s <= t
<1> DEFINE R == {pair \in Nat \X Nat : pair[1] < pair[2]}
<1>1. OpToRel(<, Nat) = R
  BY DEF OpToRel
<1>2. IsWellFoundedOn(R, Nat)
  BY <1>1, NatLessThanWellFounded
<1>3. PICK s \in S : \A t \in S : ~ (<<t, s>> \in R)
  BY <1>2, WFMin
<1>4. \A t \in S : s <= t
  <2> SUFFICES ASSUME NEW t \in S
               PROVE  s <= t
    OBVIOUS
  <2>1. <<t, s>> \notin R /\ <<t, s>> \in Nat \X Nat
    BY <1>3
  <2>2. ~ (t < s)
    BY <2>1
  <2> QED
    BY <2>2
<1> QED
  BY <1>4

\* The oldest score is that of a slot, or the request's own.
LEMMA OldestType ==
  ASSUME Types, NEW r \in Requests
  PROVE  Oldest(r) \in Nat
<1>1. \A q \in Requests : Score(q) \in Nat
  BY DEF Types, Fields, Score
<1>2. CASE zset = {}
  BY <1>1, <1>2 DEF Oldest
<1>3. CASE zset # {}
  <2> DEFINE scores == {Score(q) : q \in zset}
  <2>1. scores \in SUBSET Nat /\ scores # {}
    BY <1>1, <1>3 DEF Types
  <2> HIDE DEF scores
  <2>2. \E s \in scores : \A t \in scores : s <= t
    BY <2>1, LeastNatural
  <2> USE DEF scores
  <2>3. \E s \in scores : \A q \in zset : s <= Score(q)
    BY <2>2
  <2>4. Oldest(r) \in scores
    BY <1>3, <2>3 DEF Oldest
  <2> QED
    BY <2>1, <2>4
<1> QED
  BY <1>2, <1>3

\* Retry-After is at least a second.
LEMMA RetryType ==
  ASSUME Types, NEW r \in Requests
  PROVE  RetryAfter(r) \in Nat /\ RetryAfter(r) > 0
<1>1. Oldest(r) \in Nat /\ Score(r) \in Nat
  BY OldestType DEF Types, Fields, Score
<1>2. (Score(r) - Oldest(r) - Window) \div TicksPerSecond \in Int
  BY <1>1, Timing
<1> QED
  BY <1>2 DEF RetryAfter

\* The sorted set and the TTL after a command that removes slots.
LEMMA RemovedSlots ==
  ASSUME Types, NEW members \in SUBSET zset, SetMembers(members)
  PROVE  /\ zset' = members
         /\ deadline' \in {NoDeadline, deadline}
  BY DEF SetMembers

\* A request that moves on keeps its clock, and the others stay as they are.
LEMMA Moved ==
  ASSUME Types, NEW r \in Requests, NEW pc \in States, req' = [req EXCEPT ![r].pc = pc]
  PROVE  /\ req' \in [Requests -> Fields]
         /\ \A q \in Requests : req'[q].now = req[q].now
         /\ \A q \in Requests : q # r => req'[q].pc = req[q].pc
         /\ req'[r].pc = pc
<1>1. req[r] \in Fields
  BY DEF Types
<1>2. [req[r] EXCEPT !.pc = pc] \in Fields
  BY <1>1 DEF Fields
<1>3. \A q \in Requests : req'[q] = IF q = r THEN [req[r] EXCEPT !.pc = pc] ELSE req[q]
  BY DEF Types
<1>4. req' \in [Requests -> Fields]
  BY <1>2 DEF Types
<1>5. [req[r] EXCEPT !.pc = pc].now = req[r].now /\ [req[r] EXCEPT !.pc = pc].pc = pc
  BY <1>1 DEF Fields
<1> QED
  BY <1>3, <1>4, <1>5

-----------------------------------------------------------------------------
(* KeyInv is inductive: one lemma per action. *)

LEMMA ArriveKey ==
  ASSUME KeyInv, NEW r \in Requests, Arrive(r)
  PROVE  KeyInv'
<1>1. req[r] \in Fields /\ time \in Nat
  BY DEF KeyInv, Types
<1>2. [req[r] EXCEPT !.pc = "sent", !.now = time] \in Fields
  BY <1>1 DEF Fields, States, InPipeline
<1>3. /\ req' = [req EXCEPT ![r] = [req[r] EXCEPT !.pc = "sent", !.now = time]]
      /\ [req[r] EXCEPT !.pc = "sent", !.now = time].pc = "sent"
      /\ [req[r] EXCEPT !.pc = "sent", !.now = time].now = time
  BY <1>1 DEF Arrive, KeyInv, Types, Fields
<1>4. /\ req' \in [Requests -> Fields]
      /\ \A q \in Requests : q # r => req'[q] = req[q]
      /\ req'[r].pc = "sent" /\ req'[r].now = time
  BY <1>2, <1>3 DEF KeyInv, Types
<1>5. r \notin zset /\ req[r].pc = "idle"
  BY DEF KeyInv, Slots, Arrive
<1>6. UNCHANGED <<time, zset, deadline, faults>>
  BY DEF Arrive
<1>7. Types'
  BY <1>4, <1>6 DEF KeyInv, Types
<1>8. Clocks'
  BY <1>1, <1>4, <1>6, Timing DEF KeyInv, Clocks
<1>9. Slots' /\ Future'
  BY <1>4, <1>5, <1>6 DEF KeyInv, Types, Slots, Future
<1>10. Covered'
  BY <1>4, <1>5, <1>6 DEF KeyInv, Types, Covered, Ended
<1>11. Chain'
  BY <1>4, <1>5, <1>6 DEF KeyInv, Types, Chain, Refreshing
<1>12. Kept'
  BY <1>4, <1>5, <1>6 DEF KeyInv, Types, Kept, KeyRefreshed
<1> QED
  BY <1>7, <1>8, <1>9, <1>10, <1>11, <1>12 DEF KeyInv

\* The scores that Trim removes are a window old; the slots of requests in
\* flight stay, so whoever trims a key whose TTL is nearly over finds either
\* no slot left, and no TTL, or the slot of a request that will refresh it.
LEMMA TrimKey ==
  ASSUME KeyInv, NEW r \in Requests, Trim(r)
  PROVE  KeyInv'
<1>1. /\ req' \in [Requests -> Fields]
      /\ \A q \in Requests : req'[q].now = req[q].now /\ req[q].now \in Nat
      /\ \A q \in Requests : q # r => req'[q].pc = req[q].pc
      /\ req'[r].pc = "trimmed" /\ req[r].pc = "sent"
  BY Moved DEF Trim, KeyInv, Types, Fields, States, InPipeline
<1>2. /\ zset' = {q \in zset : req[q].now > req[r].now - Window}
      /\ deadline' = IF zset' = {} THEN NoDeadline ELSE deadline
      /\ UNCHANGED <<time, faults>>
  BY DEF Trim, SetMembers, Score
<1>3. zset' \subseteq zset /\ zset \subseteq Requests /\ r \notin zset
  BY <1>1, <1>2 DEF KeyInv, Types, Slots
<1>4. req[r].now <= time /\ time \in Nat
  BY DEF KeyInv, Clocks, Types
<1>5. \A q \in zset : req[q].pc \in {"added", "counted"} => q \in zset'
  <2> SUFFICES ASSUME NEW q \in zset, req[q].pc \in {"added", "counted"}
               PROVE  req[q].now > req[r].now - Window
    BY <1>2
  <2>1. time <= req[q].now + Delay
    BY <1>3 DEF KeyInv, Clocks, InPipeline
  <2> QED
    BY <1>1, <1>3, <1>4, <2>1, Timing
<1>6. Types'
  BY <1>1, <1>2, <1>3 DEF KeyInv, Types
<1>7. Clocks'
  BY <1>1, <1>2 DEF KeyInv, Clocks, InPipeline
<1>8. Slots' /\ Future'
  BY <1>1, <1>2, <1>3 DEF KeyInv, Slots, Future
<1>9. Covered'
  BY <1>1, <1>2, <1>3 DEF KeyInv, Covered, Ended
<1>10. \A p \in zset : deadline' # NoDeadline /\ Refreshing(p) => p \in zset' /\ Refreshing(p)'
  BY <1>1, <1>2, <1>3, <1>5 DEF Refreshing
<1>11. Chain'
  <2> SUFFICES ASSUME NEW q \in Requests,
                      faults'.broken = 0,
                      req'[q].pc \in {"trimmed", "added", "counted"},
                      deadline' # NoDeadline,
                      req'[q].now + TicksPerSecond >= deadline'
               PROVE  \E p \in zset' : Refreshing(p)'
    BY DEF Chain
  <2>1. deadline # NoDeadline /\ deadline' = deadline /\ zset' # {} /\ faults.broken = 0
    BY <1>2
  <2>2. CASE q # r
    <3>1. \E p \in zset : Refreshing(p)
      BY <1>1, <2>1, <2>2 DEF KeyInv, Chain
    <3> QED
      BY <1>10, <2>1, <3>1
  <2>3. CASE q = r
    <3>1. PICK p \in zset' : TRUE
      BY <2>1
    <3>2. p \in zset /\ p \in Requests /\ req[p].now > req[r].now - Window
      BY <1>2, <1>3, <3>1
    <3>3. ~ Ended(p)
      <4>1. req[p].now + Window + TicksPerSecond > deadline
        BY <1>1, <2>1, <2>3, <3>2, Timing DEF KeyInv, Types, NoDeadline
      <4>2. Ended(p) => deadline >= req[p].now + Window + TicksPerSecond
        BY <2>1, <3>2 DEF KeyInv, Covered
      <4> QED
        BY <1>1, <2>1, <3>2, <4>1, <4>2, Timing DEF KeyInv, Types, NoDeadline
    <3>4. req[p].pc \in {"added", "counted"}
      BY <2>1, <3>2, <3>3 DEF KeyInv, Slots, Ended
    <3>5. CASE req[p].now + TicksPerSecond < deadline
      BY <1>10, <2>1, <3>2, <3>4, <3>5 DEF Refreshing
    <3>6. CASE req[p].now + TicksPerSecond >= deadline
      <4>1. \E o \in zset : Refreshing(o)
        BY <2>1, <3>2, <3>4, <3>6 DEF KeyInv, Chain
      <4> QED
        BY <1>10, <2>1, <4>1
    <3> QED
      BY <1>1, <2>1, <3>2, <3>5, <3>6, Timing DEF KeyInv, Types, NoDeadline
  <2> QED
    BY <2>2, <2>3
<1>12. Kept'
  <2> SUFFICES ASSUME KeyRefreshed', NEW q \in Requests,
                      req'[q].pc \in {"added", "counted", "accepted"}, q \notin zset'
               PROVE  req'[q].now <= time' - Window
    BY DEF Kept
  <2>1. KeyRefreshed /\ req[q].pc \in {"added", "counted", "accepted"}
    BY <1>1, <1>2 DEF KeyRefreshed
  <2>2. CASE q \in zset
    BY <1>1, <1>2, <1>4, <2>2, Timing
  <2>3. CASE q \notin zset
    BY <1>1, <1>2, <2>1, <2>3 DEF KeyInv, Kept
  <2> QED
    BY <2>2, <2>3
<1> QED
  BY <1>6, <1>7, <1>8, <1>9, <1>11, <1>12 DEF KeyInv

\* A slot added to a key with a TTL finds the key in the state Trim left.
LEMMA AddKey ==
  ASSUME KeyInv, NEW r \in Requests, Add(r)
  PROVE  KeyInv'
<1>1. /\ req' \in [Requests -> Fields]
      /\ \A q \in Requests : req'[q].now = req[q].now
      /\ \A q \in Requests : q # r => req'[q].pc = req[q].pc
      /\ req'[r].pc = "added" /\ req[r].pc = "trimmed"
  BY Moved DEF Add, KeyInv, States, InPipeline
<1>2. zset' = zset \cup {r} /\ UNCHANGED <<time, deadline, faults>>
  BY DEF Add
<1>3. zset \subseteq Requests /\ r \notin zset
  BY <1>1 DEF KeyInv, Types, Slots
<1>4. Types'
  BY <1>1, <1>2, <1>3 DEF KeyInv, Types
<1>5. Clocks'
  BY <1>1, <1>2 DEF KeyInv, Clocks, InPipeline
<1>6. Slots' /\ Future'
  BY <1>1, <1>2, <1>3 DEF KeyInv, Slots, Future
<1>7. Covered'
  BY <1>1, <1>2, <1>3 DEF KeyInv, Covered, Ended
<1>8. \A p \in zset : Refreshing(p) => Refreshing(p)'
  BY <1>1, <1>2, <1>3 DEF Refreshing
<1>9. Chain'
  BY <1>1, <1>2, <1>8 DEF KeyInv, Chain
<1>10. Kept'
  BY <1>1, <1>2 DEF KeyInv, Kept, KeyRefreshed
<1> QED
  BY <1>4, <1>5, <1>6, <1>7, <1>9, <1>10 DEF KeyInv

\* The sorted set is finite, so a count is a number.
LEMMA CountType ==
  ASSUME Types
  PROVE  IsFiniteSet(zset) /\ Cardinality(zset) \in Nat
  BY RequestsFinite, FS_Subset, FS_CardinalityType DEF Types

LEMMA CountKey ==
  ASSUME KeyInv, NEW r \in Requests, Count(r)
  PROVE  KeyInv'
<1>1. req[r] \in Fields /\ Cardinality(zset) \in Nat
  BY CountType DEF KeyInv, Types
<1>2. [req[r] EXCEPT !.pc = "counted", !.count = Cardinality(zset)] \in Fields
  BY <1>1 DEF Fields, States, InPipeline
<1>3. /\ req' = [req EXCEPT ![r] = [req[r] EXCEPT !.pc = "counted", !.count = Cardinality(zset)]]
      /\ [req[r] EXCEPT !.pc = "counted", !.count = Cardinality(zset)].pc = "counted"
      /\ [req[r] EXCEPT !.pc = "counted", !.count = Cardinality(zset)].now = req[r].now
  BY <1>1 DEF Count, Counted, KeyInv, Types, Fields
<1>4. /\ req' \in [Requests -> Fields]
      /\ \A q \in Requests : q # r => req'[q] = req[q]
      /\ req'[r].pc = "counted" /\ req[r].pc = "added"
      /\ req'[r].now = req[r].now
  BY <1>2, <1>3 DEF KeyInv, Types, Count
<1>5. UNCHANGED <<time, zset, deadline, faults>>
  BY DEF Count
<1>6. \A q \in Requests : req'[q].now = req[q].now /\ (q # r => req'[q].pc = req[q].pc)
  BY <1>4
<1>7. Types'
  BY <1>4, <1>5 DEF KeyInv, Types
<1>8. Clocks'
  BY <1>4, <1>5, <1>6 DEF KeyInv, Clocks, InPipeline
<1>9. Slots' /\ Future'
  BY <1>4, <1>5, <1>6 DEF KeyInv, Types, Slots, Future
<1>10. Covered'
  BY <1>4, <1>5, <1>6 DEF KeyInv, Types, Covered, Ended
<1>11. \A p \in zset : Refreshing(p) => Refreshing(p)'
  BY <1>4, <1>5, <1>6 DEF KeyInv, Types, Refreshing
<1>12. Chain'
  BY <1>4, <1>5, <1>6, <1>11 DEF KeyInv, Chain
<1>13. Kept'
  BY <1>4, <1>5, <1>6 DEF KeyInv, Kept, KeyRefreshed
<1> QED
  BY <1>7, <1>8, <1>9, <1>10, <1>12, <1>13 DEF KeyInv

\* A refreshed TTL covers every slot there is, for another window and a second.
LEMMA RefreshedKey ==
  ASSUME KeyInv, Refresh, UNCHANGED <<time, zset>>,
         \A q \in Requests : req'[q].now = req[q].now
  PROVE  /\ deadline' \in Nat \cup {NoDeadline}
         /\ Future'
         /\ \A q \in Requests :
              deadline' # NoDeadline =>
                /\ deadline' >= req'[q].now + Window + TicksPerSecond
                /\ req'[q].now + TicksPerSecond < deadline'
<1>1. \A q \in Requests : req[q].now \in Nat /\ req[q].now <= time
  BY DEF KeyInv, Types, Fields, Clocks
<1>2. time \in Nat
  BY DEF KeyInv, Types
<1>3. deadline' # NoDeadline => deadline' = time + (Window + TicksPerSecond)
  BY DEF Refresh, TimeToLive
<1> QED
  BY <1>1, <1>2, <1>3, Timing DEF Future, Refresh, TimeToLive, NoDeadline

LEMMA ExpireKey ==
  ASSUME KeyInv, NEW r \in Requests, Expire(r)
  PROVE  KeyInv'
<1>1. PICK pc \in {"over", "accepted"} : req' = [req EXCEPT ![r].pc = pc]
  BY DEF Expire
<1>2. /\ req' \in [Requests -> Fields]
      /\ \A q \in Requests : req'[q].now = req[q].now
      /\ \A q \in Requests : q # r => req'[q].pc = req[q].pc
      /\ req'[r].pc = pc
  BY <1>1, Moved DEF KeyInv, States, InPipeline
<1>3. Refresh /\ UNCHANGED <<time, zset, faults>> /\ req[r].pc = "counted"
  BY DEF Expire
<1>4. /\ deadline' \in Nat \cup {NoDeadline}
      /\ Future'
      /\ \A q \in Requests :
           deadline' # NoDeadline =>
             /\ deadline' >= req'[q].now + Window + TicksPerSecond
             /\ req'[q].now + TicksPerSecond < deadline'
  BY <1>2, <1>3, RefreshedKey
<1>5. Types' /\ zset \subseteq Requests
  BY <1>2, <1>3, <1>4 DEF KeyInv, Types
<1>6. Clocks'
  BY <1>2, <1>3 DEF KeyInv, Clocks, InPipeline
<1>7. Slots'
  BY <1>2, <1>3, <1>5 DEF KeyInv, Slots
<1>8. Covered'
  BY <1>3, <1>4, <1>5 DEF Covered
<1>9. Chain'
  <2> SUFFICES ASSUME NEW q \in Requests, deadline' # NoDeadline,
                      req'[q].now + TicksPerSecond >= deadline'
               PROVE  FALSE
    BY DEF Chain
  <2>1. req'[q].now \in Nat /\ deadline' \in Int /\ req'[q].now + TicksPerSecond < deadline'
    BY <1>2, <1>4 DEF Fields, NoDeadline
  <2> QED
    BY <2>1, Timing
<1>10. Kept'
  BY <1>1, <1>2, <1>3 DEF KeyInv, Kept, KeyRefreshed
<1> QED
  BY <1>4, <1>5, <1>6, <1>7, <1>8, <1>9, <1>10 DEF KeyInv

LEMMA PipelineBreaksKey ==
  ASSUME KeyInv, NEW r \in Requests, PipelineBreaks(r)
  PROVE  KeyInv'
<1>1. /\ req' \in [Requests -> Fields]
      /\ \A q \in Requests : req'[q].now = req[q].now
      /\ \A q \in Requests : q # r => req'[q].pc = req[q].pc
      /\ req'[r].pc = "open" /\ req[r].pc \in InPipeline
  BY Moved DEF PipelineBreaks, KeyInv, States
<1>2. /\ UNCHANGED <<time, zset>>
      /\ faults' = [faults EXCEPT !.broken = @ + 1]
      /\ UNCHANGED deadline \/ Refresh
  BY DEF PipelineBreaks
<1>3. faults.broken \in Nat /\ faults' \in [broken : Nat, undo : Nat] /\ faults'.broken # 0
  BY <1>2 DEF KeyInv, Types
<1>4. deadline' \in Nat \cup {NoDeadline} /\ Future' /\ Covered'
  <2>1. CASE Refresh
    BY <2>1, <1>1, <1>2, RefreshedKey DEF Covered, KeyInv, Types
  <2>2. CASE UNCHANGED deadline
    <3>1. \A q \in zset' : Ended(q)' => Ended(q) /\ q \in zset /\ req'[q].now = req[q].now
      BY <1>1, <1>2, <1>3 DEF Ended, KeyInv, Types
    <3> QED
      BY <1>2, <2>2, <3>1 DEF KeyInv, Types, Future, Covered
  <2> QED
    BY <1>2, <2>1, <2>2
<1>5. Types'
  BY <1>1, <1>2, <1>3, <1>4 DEF KeyInv, Types
<1>6. Clocks'
  BY <1>1, <1>2 DEF KeyInv, Clocks, InPipeline
<1>7. Slots'
  BY <1>1, <1>2 DEF KeyInv, Types, Slots
<1>8. Chain'
  BY <1>3 DEF Chain
<1>9. Kept'
  BY <1>1, <1>2, <1>3 DEF KeyInv, Kept, KeyRefreshed
<1> QED
  BY <1>4, <1>5, <1>6, <1>7, <1>8, <1>9 DEF KeyInv

\* Taking back the slot of a request whose pipeline has ended, or leaving it.
LEMMA TakenBackKey ==
  ASSUME KeyInv, NEW r \in Requests, NEW pc \in {"undone", "open"},
         req[r].pc \in {"over", "undone"},
         req' = [req EXCEPT ![r].pc = pc],
         \/ SetMembers(zset \ {r})
         \/ pc = "open" /\ UNCHANGED <<zset, deadline>>,
         time' = time, faults'.broken = faults.broken, faults' \in [broken : Nat, undo : Nat]
  PROVE  KeyInv'
<1>1. /\ req' \in [Requests -> Fields]
      /\ \A q \in Requests : req'[q].now = req[q].now
      /\ \A q \in Requests : q # r => req'[q].pc = req[q].pc
      /\ req'[r].pc = pc
  BY Moved DEF KeyInv, States
<1>2. /\ zset' \subseteq zset /\ zset \ {r} \subseteq zset'
      /\ deadline' \in {deadline, NoDeadline}
      /\ pc = "undone" => r \notin zset'
  BY DEF SetMembers
<1>3. zset \subseteq Requests /\ (r \in zset => req[r].pc = "over")
  BY DEF KeyInv, Types, Slots
<1>4. Types'
  BY <1>1, <1>2, <1>3 DEF KeyInv, Types
<1>5. Clocks'
  BY <1>1 DEF KeyInv, Clocks, InPipeline
<1>6. Slots' /\ Future'
  BY <1>1, <1>2, <1>3 DEF KeyInv, Slots, Future
<1>7. Covered'
  <2>1. \A q \in zset' : Ended(q)' => Ended(q)
    BY <1>1, <1>2, <1>3 DEF Ended
  <2> QED
    BY <1>1, <1>2, <1>3, <2>1 DEF KeyInv, Covered
<1>8. \A p \in zset : deadline' # NoDeadline /\ Refreshing(p) => p \in zset' /\ Refreshing(p)'
  BY <1>1, <1>2, <1>3 DEF Refreshing
<1>9. Chain'
  <2> SUFFICES ASSUME NEW q \in Requests,
                      faults'.broken = 0,
                      req'[q].pc \in {"trimmed", "added", "counted"},
                      deadline' # NoDeadline,
                      req'[q].now + TicksPerSecond >= deadline'
               PROVE  \E p \in zset' : Refreshing(p)'
    BY DEF Chain
  <2>1. q # r /\ deadline' = deadline
    BY <1>1, <1>2
  <2>2. \E p \in zset : Refreshing(p)
    BY <1>1, <2>1 DEF KeyInv, Chain
  <2> QED
    BY <1>8, <2>2
<1>10. Kept'
  BY <1>1, <1>2 DEF KeyInv, Kept, KeyRefreshed
<1> QED
  BY <1>4, <1>5, <1>6, <1>7, <1>9, <1>10 DEF KeyInv

LEMMA UndoKey ==
  ASSUME KeyInv, NEW r \in Requests, Undo(r)
  PROVE  KeyInv'
<1>1. faults' \in [broken : Nat, undo : Nat] /\ faults'.broken = faults.broken
  BY DEF Undo, KeyInv, Types
<1> QED
  BY <1>1, TakenBackKey DEF Undo

LEMMA UndoFailsKey ==
  ASSUME KeyInv, NEW r \in Requests, UndoFails(r)
  PROVE  KeyInv'
<1>1. faults' \in [broken : Nat, undo : Nat] /\ faults'.broken = faults.broken
  BY DEF UndoFails, KeyInv, Types
<1> QED
  BY <1>1, TakenBackKey DEF UndoFails

LEMMA RejectKey ==
  ASSUME KeyInv, NEW r \in Requests, Reject(r)
  PROVE  KeyInv'
<1>1. req[r] \in Fields /\ RetryAfter(r) \in Nat
  BY RetryType DEF KeyInv, Types
<1>2. [req[r] EXCEPT !.pc = "rejected", !.retry = RetryAfter(r)] \in Fields
  BY <1>1 DEF Fields, States
<1>3. /\ req' = [req EXCEPT ![r] = [req[r] EXCEPT !.pc = "rejected", !.retry = RetryAfter(r)]]
      /\ [req[r] EXCEPT !.pc = "rejected", !.retry = RetryAfter(r)].pc = "rejected"
      /\ [req[r] EXCEPT !.pc = "rejected", !.retry = RetryAfter(r)].now = req[r].now
  BY <1>1 DEF Reject, KeyInv, Types, Fields
<1>4. /\ req' \in [Requests -> Fields]
      /\ \A q \in Requests : q # r => req'[q] = req[q]
      /\ req'[r].pc = "rejected" /\ req[r].pc = "undone"
      /\ req'[r].now = req[r].now
  BY <1>2, <1>3 DEF KeyInv, Types, Reject
<1>5. UNCHANGED <<time, zset, deadline, faults>>
  BY DEF Reject
<1>6. \A q \in Requests : req'[q].now = req[q].now /\ (q # r => req'[q].pc = req[q].pc)
  BY <1>4
<1>7. r \notin zset /\ zset \subseteq Requests
  BY <1>4 DEF KeyInv, Types, Slots
<1>8. Types'
  BY <1>4, <1>5 DEF KeyInv, Types
<1>9. Clocks'
  BY <1>4, <1>5, <1>6 DEF KeyInv, Clocks, InPipeline
<1>10. Slots' /\ Future'
  BY <1>5, <1>6, <1>7 DEF KeyInv, Slots, Future
<1>11. Covered'
  BY <1>5, <1>6, <1>7 DEF KeyInv, Covered, Ended
<1>12. \A p \in zset : Refreshing(p) => Refreshing(p)'
  BY <1>5, <1>6, <1>7 DEF Refreshing
<1>13. Chain'
  BY <1>4, <1>5, <1>6, <1>12 DEF KeyInv, Chain
<1>14. Kept'
  BY <1>4, <1>5, <1>6 DEF KeyInv, Kept, KeyRefreshed
<1> QED
  BY <1>8, <1>9, <1>10, <1>11, <1>13, <1>14 DEF KeyInv

\* When the key expires, no request in flight has a slot in it: one that had
\* would have Chain's older one beside it, whose pipeline is over by then.
LEMMA TickKey ==
  ASSUME KeyInv, Tick
  PROVE  KeyInv'
<1>1. /\ time' = time + 1 /\ time \in Nat
      /\ UNCHANGED <<req, faults>>
      /\ \A q \in Requests : req[q].pc \in InPipeline => time < req[q].now + Delay
      /\ \A q \in Requests : req[q].now \in Nat /\ req[q].now <= time
  BY DEF Tick, Score, KeyInv, Types, Fields, Clocks
<1>2. /\ time' = deadline => zset' = {} /\ deadline' = NoDeadline
      /\ time' # deadline => UNCHANGED <<zset, deadline>>
  BY DEF Tick, SetMembers
<1>3. deadline \in Nat \cup {NoDeadline} /\ zset \subseteq Requests /\ Future
  BY DEF KeyInv, Types
<1>4. Types'
  BY <1>1, <1>2 DEF KeyInv, Types
<1>5. Clocks'
  BY <1>1, Timing DEF Clocks
<1>6. Slots' /\ Covered'
  BY <1>1, <1>2 DEF KeyInv, Slots, Covered, Ended
<1>7. Future'
  BY <1>1, <1>2, <1>3 DEF Future, NoDeadline
<1>8. Chain'
  BY <1>1, <1>2 DEF KeyInv, Chain, Refreshing
<1>9. Kept'
  <2> SUFFICES ASSUME KeyRefreshed, NEW r \in Requests,
                      req[r].pc \in {"added", "counted", "accepted"}
               PROVE  r \in zset' \/ req[r].now <= time' - Window
    BY <1>1 DEF Kept, KeyRefreshed
  <2>1. r \in zset \/ req[r].now <= time - Window
    BY DEF KeyInv, Kept
  <2>2. CASE time' # deadline \/ r \notin zset
    BY <1>1, <1>2, <2>1, <2>2, Timing
  <2>3. CASE time' = deadline /\ r \in zset /\ req[r].pc = "accepted"
    <3>1. deadline >= req[r].now + Window + TicksPerSecond
      BY <1>1, <2>3 DEF KeyInv, Covered, Ended, NoDeadline
    <3> QED
      BY <1>1, <2>3, <3>1, Timing
  <2>4. CASE time' = deadline /\ r \in zset /\ req[r].pc \in {"added", "counted"}
    <3>1. time < req[r].now + Delay
      BY <1>1, <2>4 DEF InPipeline
    <3>2. faults.broken = 0
      BY <1>1, <3>1 DEF KeyRefreshed
    <3>3. req[r].now + TicksPerSecond >= deadline /\ deadline # NoDeadline
      BY <1>1, <2>4, <3>1, Timing DEF NoDeadline
    <3>4. PICK p \in zset : Refreshing(p)
      BY <2>4, <3>2, <3>3 DEF KeyInv, Chain
    <3>5. time < req[p].now + Delay /\ req[p].now + TicksPerSecond < deadline
      BY <1>1, <1>3, <3>4 DEF Refreshing, InPipeline
    <3> QED
      BY <1>1, <1>3, <2>4, <3>4, <3>5, Timing
  <2> QED
    BY <2>2, <2>3, <2>4
<1> QED
  BY <1>4, <1>5, <1>6, <1>7, <1>8, <1>9 DEF KeyInv

LEMMA StepKey == KeyInv /\ [Next]_vars => KeyInv'
<1> SUFFICES ASSUME KeyInv, [Next]_vars
             PROVE  KeyInv'
  OBVIOUS
<1>1. CASE UNCHANGED vars
  BY <1>1 DEF vars, KeyInv, Types, Clocks, Slots, Future, Covered, Ended, Chain, Refreshing, Kept,
     KeyRefreshed
<1>2. CASE Tick
  BY <1>2, TickKey
<1>3. ASSUME NEW r \in Requests,
             \/ Arrive(r) \/ Trim(r) \/ Add(r) \/ Count(r) \/ Expire(r)
             \/ PipelineBreaks(r)
             \/ Undo(r) \/ Reject(r) \/ UndoFails(r)
      PROVE  KeyInv'
  BY <1>3, ArriveKey, TrimKey, AddKey, CountKey, ExpireKey, PipelineBreaksKey, UndoKey, RejectKey,
     UndoFailsKey
<1> QED
  BY <1>1, <1>2, <1>3 DEF Next

\* The key invariant holds of every state the limiter reaches (rateLimit.ts:17-39).
THEOREM KeyInvariant == Spec => []KeyInv
  BY InitKey, StepKey, PTL DEF Spec

-----------------------------------------------------------------------------
(* The properties that RateLimiter states. *)

\* An accepted request's slot outlives its window, whatever the key's TTL
\* (rateLimit.ts:4-5, 17-23).
THEOREM KeyOutlives == Spec => []KeyOutlivesWindow
<1>1. KeyInv => KeyOutlivesWindow
  BY DEF KeyInv, Kept, KeyOutlivesWindow, Accepted, Score
<1> QED
  BY <1>1, KeyInvariant, PTL

Waits == \A r \in Requests : req[r].pc = "rejected" => req[r].retry > 0

LEMMA StepWaits == KeyInv /\ Waits /\ [Next]_vars => Waits'
<1> SUFFICES ASSUME KeyInv, Waits, [Next]_vars, NEW q \in Requests, req'[q].pc = "rejected"
             PROVE  req'[q].retry > 0
  BY DEF Waits
<1>1. req \in [Requests -> Fields]
  BY DEF KeyInv, Types
<1>2. CASE UNCHANGED req
  BY <1>2 DEF Waits
<1>3. ASSUME NEW r \in Requests, NEW pc \in States \ {"rejected"}, req' = [req EXCEPT ![r].pc = pc]
      PROVE  req'[q].retry > 0
  <2>1. req'[r].pc = pc
    BY <1>3, Moved DEF KeyInv
  <2>2. q # r
    BY <1>3, <2>1
  <2>3. req'[q] = req[q]
    BY <1>1, <1>3, <2>2
  <2> QED
    BY <2>3 DEF Waits
<1>4. ASSUME NEW r \in Requests, Arrive(r)
      PROVE  req'[q].retry > 0
  <2>1. req[r] \in Fields /\ req' = [req EXCEPT ![r] = [req[r] EXCEPT !.pc = "sent", !.now = time]]
    BY <1>1, <1>4 DEF Arrive
  <2>2. [req[r] EXCEPT !.pc = "sent", !.now = time].pc = "sent"
    BY <2>1 DEF Fields
  <2>3. q # r
    BY <1>1, <2>1, <2>2
  <2> QED
    BY <1>1, <2>1, <2>3 DEF Waits
<1>5. ASSUME NEW r \in Requests, Count(r)
      PROVE  req'[q].retry > 0
  <2>1. /\ req[r] \in Fields
        /\ req' = [req EXCEPT ![r] = [req[r] EXCEPT !.pc = "counted", !.count = Cardinality(zset)]]
    BY <1>1, <1>5 DEF Count, Counted
  <2>2. [req[r] EXCEPT !.pc = "counted", !.count = Cardinality(zset)].pc = "counted"
    BY <2>1 DEF Fields
  <2>3. q # r
    BY <1>1, <2>1, <2>2
  <2> QED
    BY <1>1, <2>1, <2>3 DEF Waits
<1>6. ASSUME NEW r \in Requests, Reject(r)
      PROVE  req'[q].retry > 0
  <2>1. /\ req[r] \in Fields
        /\ req' = [req EXCEPT ![r] = [req[r] EXCEPT !.pc = "rejected", !.retry = RetryAfter(r)]]
    BY <1>1, <1>6 DEF Reject
  <2>2. [req[r] EXCEPT !.pc = "rejected", !.retry = RetryAfter(r)].retry = RetryAfter(r)
    BY <2>1 DEF Fields
  <2>3. RetryAfter(r) > 0
    BY RetryType DEF KeyInv
  <2> QED
    BY <1>1, <2>1, <2>2, <2>3 DEF Waits
<1>7. ASSUME NEW r \in Requests,
             \/ Trim(r) \/ Add(r) \/ Expire(r) \/ PipelineBreaks(r) \/ Undo(r) \/ UndoFails(r)
      PROVE  \E pc \in States \ {"rejected"} : req' = [req EXCEPT ![r].pc = pc]
  BY <1>7 DEF Trim, Add, Expire, PipelineBreaks, Undo, UndoFails, States, InPipeline
<1>8. CASE Tick
  BY <1>2, <1>8 DEF Tick
<1> QED
  BY <1>2, <1>3, <1>4, <1>5, <1>6, <1>7, <1>8 DEF Next, vars

\* The types, and that a rejected client waits at least a second
\* (rateLimit.ts:31), hold of every state the limiter reaches.
THEOREM TypeCorrect == Spec => []TypeOK
<1>1. Init => Waits
  BY DEF Init, Idle, Waits
<1>2. KeyInv /\ Waits => TypeOK
  <2> SUFFICES ASSUME KeyInv, Waits
               PROVE  TypeOK
    OBVIOUS
  <2>1. \A r \in Requests : req[r] \in [pc : States, now : 0 .. time, count : Nat, retry : Nat]
    BY DEF KeyInv, Types, Fields, Clocks
  <2> QED
    BY <2>1 DEF KeyInv, Types, TypeOK, Waits
<1>3. Spec => []Waits
  BY <1>1, StepWaits, KeyInvariant, PTL DEF Spec
<1> QED
  BY <1>2, <1>3, KeyInvariant, PTL

\* The requests that are accepted or whose count says they will be.
Admitted ==
  {r \in Requests : req[r].pc = "accepted" \/ (req[r].pc = "counted" /\ req[r].count <= Limit)}

AdmittedUpTo(r) ==
  {q \in Admitted : req[r].now - (Window - Delay) < req[q].now /\ req[q].now <= req[r].now}

WindowInv == KeyRefreshed => \A r \in Admitted : Cardinality(AdmittedUpTo(r)) <= Limit

\* A set of requests within another has no more elements.
LEMMA FewerRequests ==
  ASSUME NEW S \in SUBSET Requests, NEW T \in SUBSET S
  PROVE  Cardinality(T) <= Cardinality(S) /\ Cardinality(T) \in Nat /\ Cardinality(S) \in Nat
<1>1. IsFiniteSet(S)
  BY RequestsFinite, FS_Subset
<1> QED
  BY <1>1, FS_Subset, FS_CardinalityType

\* No clock of an admitted request changes, and only a count admits.
LEMMA AdmittedSteps ==
  ASSUME KeyInv, [Next]_vars
  PROVE  \/ \E r \in Requests : Count(r)
         \/ Admitted' \subseteq Admitted /\ \A q \in Admitted : req'[q].now = req[q].now
<1>1. req \in [Requests -> Fields]
  BY DEF KeyInv, Types
<1>2. CASE UNCHANGED req
  BY <1>2 DEF Admitted
<1>3. ASSUME NEW r \in Requests, NEW pc \in States, req' = [req EXCEPT ![r].pc = pc],
             pc = "counted" => FALSE,
             pc = "accepted" => r \in Admitted
      PROVE  Admitted' \subseteq Admitted /\ \A q \in Admitted : req'[q].now = req[q].now
  <2>1. \A q \in Requests : req'[q].now = req[q].now
    BY <1>3, Moved DEF KeyInv
  <2>2. \A q \in Requests : q # r => req'[q] = req[q]
    BY <1>1, <1>3
  <2>3. req'[r].pc = pc
    BY <1>3, Moved DEF KeyInv
  <2> QED
    BY <1>3, <2>1, <2>2, <2>3 DEF Admitted
<1>4. ASSUME NEW r \in Requests, Arrive(r)
      PROVE  Admitted' \subseteq Admitted /\ \A q \in Admitted : req'[q].now = req[q].now
  <2>1. req[r] \in Fields /\ req' = [req EXCEPT ![r] = [req[r] EXCEPT !.pc = "sent", !.now = time]]
    BY <1>1, <1>4 DEF Arrive
  <2>2. [req[r] EXCEPT !.pc = "sent", !.now = time].pc = "sent"
    BY <2>1 DEF Fields
  <2>3. r \notin Admitted' /\ r \notin Admitted /\ \A q \in Requests : q # r => req'[q] = req[q]
    BY <1>1, <1>4, <2>1, <2>2 DEF Admitted, Arrive
  <2> QED
    BY <2>3 DEF Admitted
<1>5. ASSUME NEW r \in Requests, Reject(r)
      PROVE  Admitted' \subseteq Admitted /\ \A q \in Admitted : req'[q].now = req[q].now
  <2>1. /\ req[r] \in Fields
        /\ req' = [req EXCEPT ![r] = [req[r] EXCEPT !.pc = "rejected", !.retry = RetryAfter(r)]]
    BY <1>1, <1>5 DEF Reject
  <2>2. [req[r] EXCEPT !.pc = "rejected", !.retry = RetryAfter(r)].pc = "rejected"
    BY <2>1 DEF Fields
  <2>3. r \notin Admitted' /\ r \notin Admitted /\ \A q \in Requests : q # r => req'[q] = req[q]
    BY <1>1, <1>5, <2>1, <2>2 DEF Admitted, Reject
  <2> QED
    BY <2>3 DEF Admitted
<1>6. ASSUME NEW r \in Requests,
             \/ Trim(r) \/ Add(r) \/ Expire(r) \/ PipelineBreaks(r) \/ Undo(r) \/ UndoFails(r)
      PROVE  \E pc \in States \ {"counted"} :
               req' = [req EXCEPT ![r].pc = pc] /\ (pc = "accepted" => r \in Admitted)
  <2>1. req[r].count \in Nat
    BY <1>1 DEF Fields
  <2> QED
    BY <1>6, <2>1, OtherTypes
    DEF Trim, Add, Expire, PipelineBreaks, Undo, UndoFails, States, InPipeline, Admitted
<1>7. CASE Tick
  BY <1>2, <1>7 DEF Tick
<1> QED
  BY <1>2, <1>3, <1>4, <1>5, <1>6, <1>7 DEF Next, vars

\* Whoever counts r finds in the set all that were admitted in a window with r.
LEMMA CountWindow ==
  ASSUME KeyInv, WindowInv, NEW r \in Requests, Count(r)
  PROVE  WindowInv'
<1>1. req[r] \in Fields /\ req \in [Requests -> Fields] /\ Cardinality(zset) \in Nat
  BY CountType DEF KeyInv, Types
<1>2. /\ req' = [req EXCEPT ![r] = [req[r] EXCEPT !.pc = "counted", !.count = Cardinality(zset)]]
      /\ [req[r] EXCEPT !.pc = "counted", !.count = Cardinality(zset)].pc = "counted"
      /\ [req[r] EXCEPT !.pc = "counted", !.count = Cardinality(zset)].count = Cardinality(zset)
      /\ [req[r] EXCEPT !.pc = "counted", !.count = Cardinality(zset)].now = req[r].now
  BY <1>1 DEF Count, Counted, Fields
<1>3. /\ \A q \in Requests : q # r => req'[q] = req[q]
      /\ req'[r].pc = "counted" /\ req'[r].count = Cardinality(zset)
      /\ req[r].pc = "added"
  BY <1>1, <1>2 DEF Count
<1>4. \A q \in Requests : req'[q].now = req[q].now /\ req[q].now \in Nat
  BY <1>1, <1>2 DEF Fields
<1>5. time \in Nat /\ time <= req[r].now + Delay
  BY <1>3 DEF KeyInv, Types, Clocks, InPipeline
<1>6. /\ r \in Admitted' <=> Cardinality(zset) <= Limit
      /\ \A q \in Requests : q # r => (q \in Admitted' <=> q \in Admitted)
      /\ r \notin Admitted
  BY <1>3 DEF Admitted
<1>7. SUFFICES ASSUME KeyRefreshed, NEW a \in Admitted'
               PROVE  Cardinality(AdmittedUpTo(a)') <= Limit
  BY DEF WindowInv, KeyRefreshed, Count
<1>8. CASE r \notin AdmittedUpTo(a)'
  <2>1. a # r
    BY <1>4, <1>8, Timing DEF AdmittedUpTo, Admitted
  <2>2. AdmittedUpTo(a)' = AdmittedUpTo(a) /\ a \in Admitted
    BY <1>4, <1>6, <1>8, <2>1 DEF AdmittedUpTo, Admitted
  <2> QED
    BY <1>7, <2>2 DEF WindowInv
<1>9. CASE r \in AdmittedUpTo(a)'
  <2>1. a \in Requests /\ req[r].now <= req[a].now /\ Cardinality(zset) <= Limit
    BY <1>4, <1>6, <1>9 DEF AdmittedUpTo, Admitted
  <2>2. ASSUME NEW q \in AdmittedUpTo(a)'
        PROVE  q \in zset
    <3>1. q \in Requests /\ req[q].pc \in {"added", "counted", "accepted"}
      BY <1>3, <2>2 DEF AdmittedUpTo, Admitted
    <3>2. req[q].now > req[a].now - (Window - Delay)
      BY <1>4, <2>1, <2>2, <3>1 DEF AdmittedUpTo
    <3>3. req[q].now > time - Window
      BY <1>4, <1>5, <2>1, <3>1, <3>2, Timing
    <3>4. q \in zset \/ req[q].now <= time - Window
      BY <1>7, <3>1 DEF KeyInv, Kept
    <3> QED
      BY <1>4, <1>5, <3>1, <3>3, <3>4, Timing
  <2>3. AdmittedUpTo(a)' \in SUBSET zset /\ zset \in SUBSET Requests
    BY <2>2 DEF KeyInv, Types
  <2>4. Cardinality(AdmittedUpTo(a)') <= Cardinality(zset) /\ Cardinality(AdmittedUpTo(a)') \in Nat
    BY <2>3, FewerRequests
  <2> QED
    BY <1>1, <2>1, <2>4, OtherTypes
<1> QED
  BY <1>8, <1>9

LEMMA StepWindow == KeyInv /\ WindowInv /\ [Next]_vars => WindowInv'
<1> SUFFICES ASSUME KeyInv, WindowInv, [Next]_vars
             PROVE  WindowInv'
  OBVIOUS
<1>1. CASE \E r \in Requests : Count(r)
  BY <1>1, CountWindow
<1>2. CASE Admitted' \subseteq Admitted /\ \A q \in Admitted : req'[q].now = req[q].now
  <2>1. KeyRefreshed' => KeyRefreshed
    <3>1. faults.broken \in Nat /\ (faults' = faults \/ faults'.broken = faults.broken \/ faults'.broken = faults.broken + 1)
      BY DEF KeyInv, Types, Next, vars, Arrive, Trim, Add, Count, Expire, PipelineBreaks, Undo,
         Reject, UndoFails, Tick
    <3> QED
      BY <3>1 DEF KeyRefreshed
  <2> SUFFICES ASSUME KeyRefreshed, NEW a \in Admitted'
               PROVE  Cardinality(AdmittedUpTo(a)') <= Limit
    BY <2>1 DEF WindowInv
  <2>2. a \in Admitted /\ AdmittedUpTo(a)' \in SUBSET AdmittedUpTo(a)
    BY <1>2 DEF AdmittedUpTo
  <2>3. AdmittedUpTo(a) \in SUBSET Requests
    BY DEF AdmittedUpTo, Admitted
  <2>4. /\ Cardinality(AdmittedUpTo(a)') <= Cardinality(AdmittedUpTo(a))
        /\ Cardinality(AdmittedUpTo(a)') \in Nat /\ Cardinality(AdmittedUpTo(a)) \in Nat
    BY <2>2, <2>3, FewerRequests
  <2> QED
    BY <2>2, <2>4, OtherTypes DEF WindowInv
<1> QED
  BY <1>1, <1>2, AdmittedSteps

\* However requests race, no window of Window - Delay holds more accepted
\* requests than the limit (rateLimit.ts:17-28).
THEOREM AnyWindowHolds == Spec => []AnyWindow
<1>1. Init => WindowInv
  BY DEF Init, Idle, WindowInv, Admitted
<1>2. Spec => []WindowInv
  BY <1>1, StepWindow, KeyInvariant, PTL DEF Spec
<1>3. KeyInv /\ WindowInv => AnyWindow
  <2> SUFFICES ASSUME KeyInv, WindowInv, KeyRefreshed, NEW r \in Accepted
               PROVE  Cardinality(AcceptedUpTo(r)) <= Limit
    BY DEF AnyWindow
  <2>1. r \in Admitted /\ AcceptedUpTo(r) \in SUBSET AdmittedUpTo(r) /\ AdmittedUpTo(r) \in SUBSET Requests
    BY DEF Accepted, Admitted, AcceptedUpTo, AdmittedUpTo, Score
  <2>2. /\ Cardinality(AcceptedUpTo(r)) <= Cardinality(AdmittedUpTo(r))
        /\ Cardinality(AcceptedUpTo(r)) \in Nat /\ Cardinality(AdmittedUpTo(r)) \in Nat
    BY <2>1, FewerRequests
  <2> QED
    BY <2>1, <2>2, OtherTypes DEF WindowInv
<1> QED
  BY <1>2, <1>3, KeyInvariant, PTL

-----------------------------------------------------------------------------
(* Retry-After. *)

\* Slots of admitted requests.  A rejected request takes no room that counts,
\* and one that is admitted has counted all of them.
Taken == zset \cap Admitted

RoomInv == Taken # {} => Cardinality(Taken) <= Limit

\* A count admits a request only when it found no more than Limit slots.
LEMMA CountRoom ==
  ASSUME KeyInv, RoomInv, NEW r \in Requests, Count(r)
  PROVE  RoomInv'
<1>1. req[r] \in Fields /\ req \in [Requests -> Fields] /\ Cardinality(zset) \in Nat
  BY CountType DEF KeyInv, Types
<1>2. /\ req' = [req EXCEPT ![r] = [req[r] EXCEPT !.pc = "counted", !.count = Cardinality(zset)]]
      /\ [req[r] EXCEPT !.pc = "counted", !.count = Cardinality(zset)].pc = "counted"
      /\ [req[r] EXCEPT !.pc = "counted", !.count = Cardinality(zset)].count = Cardinality(zset)
  BY <1>1 DEF Count, Counted, Fields
<1>3. /\ \A q \in Requests : q # r => req'[q] = req[q]
      /\ req'[r].pc = "counted" /\ req'[r].count = Cardinality(zset)
      /\ req[r].pc = "added" /\ zset' = zset
  BY <1>1, <1>2 DEF Count
<1>4. /\ r \in Admitted' <=> Cardinality(zset) <= Limit
      /\ \A q \in Requests : q # r => (q \in Admitted' <=> q \in Admitted)
      /\ r \notin Admitted
  BY <1>3 DEF Admitted
<1>5. CASE Cardinality(zset) <= Limit
  <2>1. Taken' \in SUBSET zset /\ zset \in SUBSET Requests
    BY <1>3 DEF Taken, KeyInv, Types
  <2>2. Cardinality(Taken') <= Cardinality(zset) /\ Cardinality(Taken') \in Nat
    BY <2>1, FewerRequests
  <2> QED
    BY <1>1, <1>5, <2>2, OtherTypes DEF RoomInv
<1>6. CASE ~ (Cardinality(zset) <= Limit)
  <2>1. Taken' = Taken
    BY <1>3, <1>4, <1>6 DEF Taken, Admitted
  <2> QED
    BY <2>1 DEF RoomInv
<1> QED
  BY <1>5, <1>6

LEMMA StepRoom == KeyInv /\ RoomInv /\ [Next]_vars => RoomInv'
<1> SUFFICES ASSUME KeyInv, RoomInv, [Next]_vars
             PROVE  RoomInv'
  OBVIOUS
<1>1. CASE \E r \in Requests : Count(r)
  BY <1>1, CountRoom
<1>2. CASE Admitted' \subseteq Admitted
  <2>1. \A q \in zset' : q \in zset \/ req[q].pc = "trimmed"
    BY DEF Next, vars, Arrive, Trim, Add, Count, Expire, PipelineBreaks, Undo, Reject, UndoFails,
       Tick, SetMembers
  <2>2. Taken' \in SUBSET Taken /\ Taken \in SUBSET Requests
    BY <1>2, <2>1 DEF Taken, Admitted
  <2>3. /\ Cardinality(Taken') <= Cardinality(Taken)
        /\ Cardinality(Taken') \in Nat /\ Cardinality(Taken) \in Nat
    BY <2>2, FewerRequests
  <2> QED
    BY <2>2, <2>3, OtherTypes DEF RoomInv
<1> QED
  BY <1>1, <1>2, AdmittedSteps

\* The oldest score is a member's, and no member's is less.
LEMMA OldestIsLeast ==
  ASSUME Types, NEW r \in Requests, zset # {}
  PROVE  /\ \E q \in zset : Score(q) = Oldest(r)
         /\ \A q \in zset : Oldest(r) <= Score(q)
<1> DEFINE scores == {Score(q) : q \in zset}
<1>1. scores \in SUBSET Nat /\ scores # {}
  BY DEF Types, Fields, Score
<1>2. \A s : s \in scores <=> \E q \in zset : s = Score(q)
  OBVIOUS
<1> HIDE DEF scores
<1>3. \E s \in scores : \A t \in scores : s <= t
  BY <1>1, LeastNatural
<1>4. \E s \in scores : \A q \in zset : s <= Score(q)
  BY <1>2, <1>3
<1>5. Oldest(r) = CHOOSE s \in scores : \A q \in zset : s <= Score(q)
  BY DEF Oldest, scores
<1>6. Oldest(r) \in scores /\ \A q \in zset : Oldest(r) <= Score(q)
  BY <1>4, <1>5
<1> QED
  BY <1>2, <1>6

\* Retry-After reaches the moment when the oldest slot leaves the window.
LEMMA RetryReaches ==
  ASSUME Types, NEW r \in Requests
  PROVE  LET back == Score(r) + RetryAfter(r) * TicksPerSecond
         IN  back \in Int /\ Oldest(r) <= back - Window
<1> DEFINE behind == Score(r) - Oldest(r) - Window
           seconds == - (behind \div TicksPerSecond)
<1>1. Oldest(r) \in Nat /\ Score(r) \in Nat
  BY OldestType DEF Types, Fields, Score
<1>2. behind \in Int /\ TicksPerSecond \in Nat /\ TicksPerSecond > 0
  BY <1>1, Timing
<1>3. /\ RetryAfter(r) = IF seconds < 1 THEN 1 ELSE seconds
      /\ seconds \in Int
  BY <1>2 DEF RetryAfter
<1> HIDE DEF behind
<1>4. (behind \div TicksPerSecond) * TicksPerSecond <= behind
  BY <1>2
<1>5. seconds * TicksPerSecond >= - behind
  BY <1>2, <1>4
<1> HIDE DEF seconds
<1>6. RetryAfter(r) \in Int /\ RetryAfter(r) >= seconds
  BY <1>3
<1>7. RetryAfter(r) * TicksPerSecond >= seconds * TicksPerSecond /\ RetryAfter(r) * TicksPerSecond \in Int
  BY <1>2, <1>3, <1>6
<1>8. RetryAfter(r) * TicksPerSecond >= - behind
  BY <1>2, <1>3, <1>5, <1>7
<1> QED
  BY <1>1, <1>7, <1>8, Timing DEF behind

\* A rejected client that comes back when it was told to finds fewer slots than
\* the limit, if nobody else was accepted meanwhile and all slots are accepted
\* requests' (rateLimit.ts:29-31).
THEOREM RetryAfterIsHonest == Spec => RetryAfterHonest
<1>1. Init => RoomInv
  BY DEF Init, RoomInv, Taken
<1>2. Spec => []RoomInv
  BY <1>1, StepRoom, KeyInvariant, PTL DEF Spec
<1>3. ASSUME KeyInv, RoomInv, NEW r \in Requests, zset \subseteq Accepted, zset # {}
      PROVE  LET back == Score(r) + RetryAfter(r) * TicksPerSecond
             IN  Cardinality({q \in zset : Score(q) > back - Window}) < Limit
  <2> DEFINE back == Score(r) + RetryAfter(r) * TicksPerSecond
             left == {q \in zset : Score(q) > back - Window}
  <2>1. Taken = zset /\ Cardinality(zset) <= Limit
    BY <1>3 DEF RoomInv, Taken, Accepted, Admitted
  <2>2. PICK oldest \in zset : Score(oldest) = Oldest(r)
    BY <1>3, OldestIsLeast DEF KeyInv
  <2>3. back \in Int /\ Oldest(r) <= back - Window /\ Oldest(r) \in Nat
    BY <1>3, RetryReaches, OldestType DEF KeyInv
  <2> HIDE DEF back
  <2>4. oldest \notin left
    BY <2>2, <2>3, Timing
  <2>5. left \in SUBSET (zset \ {oldest}) /\ zset \ {oldest} \in SUBSET Requests
    <3>1. zset \subseteq Requests /\ left \subseteq zset
      BY <1>3 DEF KeyInv, Types
    <3> HIDE DEF left
    <3> QED
      BY <2>4, <3>1
  <2>6. /\ Cardinality(left) <= Cardinality(zset \ {oldest})
        /\ Cardinality(left) \in Nat
    BY <2>5, FewerRequests
  <2>7. /\ IsFiniteSet(zset) /\ Cardinality(zset) \in Nat
        /\ Cardinality(zset \ {oldest}) = Cardinality(zset) - 1
    <3>1. IsFiniteSet(zset) /\ Cardinality(zset) \in Nat
      BY <1>3, CountType DEF KeyInv
    <3> QED
      BY <2>2, <3>1, FS_RemoveElement
  <2> QED
    BY <2>1, <2>6, <2>7, OtherTypes DEF back
<1>4. KeyInv /\ RoomInv /\ [Next]_vars =>
        [\A r \in Requests :
           (Reject(r) /\ zset \subseteq Accepted /\ zset # {}) =>
             LET back == Score(r) + RetryAfter(r) * TicksPerSecond
             IN  Cardinality({q \in zset : Score(q) > back - Window}) < Limit]_vars
  BY <1>3
<1> QED
  BY <1>2, <1>4, KeyInvariant, PTL DEF Spec, RetryAfterHonest

=============================================================================
