--------------------------- MODULE JobPagesProofs ---------------------------
(***************************************************************************)
(* What JobPages keeps for any number of jobs and requests and any page    *)
(* size: its types, that no list has a job twice, that pages leave no gap  *)
(* but those the model names, that a list without a next page is complete, *)
(* and that old statuses are corrected.                                    *)
(*                                                                         *)
(* A page is described once, by IsPage; the invariants say of a request    *)
(* what the list will be when its reply comes, whatever comes before.      *)
(***************************************************************************)
EXTENDS JobPages, FiniteSetTheorems, SequenceTheorems, TLAPS

Active(f) == fetch[f].pc # "idle"

\* A job with such a key is on a page after the cursor's.
Past(keys, cursor, j) ==
  cursor # NoCursor /\ (keys[j] < cursor.ts \/ (keys[j] = cursor.ts /\ j < cursor.id))

Beyond(cursor, j) == Past(key, cursor, j)

\* No row is from the future, and a row that is there has a time.
Clocked ==
  /\ \A j \in Jobs : key[j] <= now
  /\ \A j \in table : key[j] >= 0

\* What the client has, or is owed, is in the table.
Visible ==
  /\ brought \subseteq table /\ base \subseteq Matching
  /\ \A f \in Fetches : JobsOf(fetch[f].rows) \subseteq table /\ fetch[f].base \subseteq Matching

\* loadingMore lets one request for a next page out at a time.
OneMore ==
  \A f \in Fetches :
    /\ fetch[f].append => Active(f) /\ loadingMore
    /\ \A g \in Fetches : fetch[f].append /\ fetch[g].append => f = g

\* A request asks for the first page, or for the page after the list it will be
\* appended to, as long as that list is not replaced.
Current ==
  \A f \in Fetches :
    fetch[f].pc = "sent" =>
      /\ ~ fetch[f].append => fetch[f].cursor = NoCursor
      /\ (fetch[f].append /\ ~ fetch[f].stale) => fetch[f].cursor = nextCursor /\ nextCursor # NoCursor

\* A client of the API asks for one page after the other.
OneByOne ==
  view = "api" =>
    /\ inbox = {} /\ ~ mixed
    /\ \A f \in Fetches : ~ fetch[f].stale
    /\ \A f \in Fetches :
         (Active(f) /\ ~ fetch[f].append) =>
           /\ nextCursor = NoCursor /\ brought = {}
           /\ \A g \in Fetches : Active(g) => g = f

\* What a list was brought stays before its cursor: a change moves a job to the
\* front.
Behind ==
  /\ ~ mixed => \A j \in brought : ~ Beyond(nextCursor, j)
  /\ \A f \in Fetches : fetch[f].pc = "read" =>
       /\ \A j \in JobsOf(fetch[f].rows) : ~ Beyond(fetch[f].next, j)
       /\ (fetch[f].append /\ ~ fetch[f].stale /\ ~ mixed) =>
            \A j \in brought : ~ Beyond(fetch[f].next, j) /\ j \notin JobsOf(fetch[f].rows)

Distinct(rows) == \A m, n \in DOMAIN rows : rows[m].job = rows[n].job => m = n

Once ==
  /\ EachJobOnce /\ JobsOf(list) \subseteq brought
  /\ \A f \in Fetches : Distinct(fetch[f].rows)

\* Of these jobs those that are not known, nor skipped, are still to come.
Complete(keys, jobs, next, known, skipped) ==
  \A j \in jobs : j \in known \/ j \in skipped \/ Past(keys, next, j)

\* Before, for any keys.
Earlier(keys, i, j) == keys[i] > keys[j] \/ (keys[i] = keys[j] /\ i > j)

\* Of these jobs those that are not known come in order.
Gapless(keys, jobs, rows, known) ==
  \A j \in jobs, n \in DOMAIN rows :
    Earlier(keys, j, rows[n].job) => j \in known \/ \E m \in 1 .. n : rows[m].job = j

\* The list was brought what it owes, in order, or it will come.
ListGaps(keys, owed, known, rows, next, mix) ==
  ~ mix => Complete(keys, owed, next, known, {}) /\ Gapless(keys, owed, rows, known \ JobsOf(rows))

\* So will the list be that a reply makes.
ReplyGaps(keys, owed, known, mix, r) ==
  r.pc = "read" =>
    /\ ~ r.append =>
         /\ Complete(keys, r.base, r.next, JobsOf(r.rows), r.skipped)
         /\ Gapless(keys, r.base, r.rows, {})
    /\ (r.append /\ ~ r.stale /\ ~ mix) =>
         /\ Complete(keys, owed, r.next, known \cup JobsOf(r.rows), r.skipped)
         /\ Gapless(keys, owed, r.rows, known)

GapInv ==
  /\ ListGaps(key, base, brought, list, nextCursor, mixed)
  /\ \A f \in Fetches : ReplyGaps(key, base, brought, mixed, fetch[f])

\* A row is as the job is, or excused, or there is a message about it.
Right(deads, box, rows, excused) ==
  \A n \in DOMAIN rows :
    rows[n].dead # deads[rows[n].job] =>
      rows[n].job \in excused \/ \E msg \in box : msg.job = rows[n].job

AllDead(rows) == \A n \in DOMAIN rows : rows[n].dead

\* And the dead letter page shows dead letters only.
RightRows(deads, box, client, rows, excused) ==
  Right(deads, box, rows, excused) /\ (client = "dlq" => AllDead(rows))

RightReply(deads, box, client, r) ==
  /\ r.pc = "read" => Right(deads, box, r.rows, r.missed)
  /\ client = "dlq" => AllDead(r.rows)

RightInv ==
  view # "api" =>
    /\ RightRows(dead, inbox, view, list, missed)
    /\ \A f \in Fetches : RightReply(dead, inbox, view, fetch[f])

-----------------------------------------------------------------------------
(* Helpers. *)

Row == [job : Jobs, dead : BOOLEAN]

LEMMA RowTypes ==
  ASSUME NEW rows \in Rows
  PROVE  /\ DOMAIN rows = 1 .. Len(rows) /\ Len(rows) \in Nat
         /\ \A n \in DOMAIN rows : rows[n].job \in Jobs /\ rows[n].dead \in BOOLEAN
         /\ JobsOf(rows) \subseteq Jobs
         /\ \A j : j \in JobsOf(rows) <=> \E n \in DOMAIN rows : rows[n].job = j
<1>1. rows \in Seq(Row) /\ DOMAIN rows = 1 .. Len(rows) /\ Len(rows) \in Nat
  BY DEF Rows, Row
<1>2. \A n \in DOMAIN rows : rows[n] \in Row
  BY <1>1
<1>3. \A n \in DOMAIN rows : rows[n].job \in Jobs /\ rows[n].dead \in BOOLEAN
  BY <1>2 DEF Row
<1> QED
  BY <1>1, <1>3 DEF JobsOf

LEMMA CursorTypes ==
  ASSUME NEW cursor \in Cursors \cup {NoCursor}, cursor # NoCursor
  PROVE  cursor.ts \in Nat /\ cursor.id \in Nat
<1>1. cursor \in [ts : 0 .. MaxTime, id : Jobs]
  BY DEF Cursors
<1>2. cursor.ts \in 0 .. MaxTime /\ cursor.id \in Jobs
  BY <1>1
<1>3. \A t \in 0 .. MaxTime : t \in Nat
  BY Bounds
<1>4. \A j \in Jobs : j \in Nat
  BY Ids
<1> QED
  BY <1>2, <1>3, <1>4

\* The first n of a sequence.
LEMMA FirstRows ==
  ASSUME NEW S, NEW rows \in Seq(S), NEW n \in Nat
  PROVE  /\ FirstOf(rows, n) \in Seq(S)
         /\ Len(FirstOf(rows, n)) = IF n <= Len(rows) THEN n ELSE Len(rows)
         /\ \A i \in 1 .. Len(FirstOf(rows, n)) : FirstOf(rows, n)[i] = rows[i]
<1>1. Len(rows) \in Nat
  OBVIOUS
<1>2. Min({n, Len(rows)}) = IF n <= Len(rows) THEN n ELSE Len(rows)
  BY <1>1 DEF Min
<1> DEFINE k == IF n <= Len(rows) THEN n ELSE Len(rows)
<1>3. FirstOf(rows, n) = SubSeq(rows, 1, k)
  BY <1>2, Zenon DEF FirstOf
<1>4. k \in 0 .. Len(rows)
  BY <1>1
<1> HIDE DEF k
<1>5. /\ SubSeq(rows, 1, k) \in Seq(S) /\ Len(SubSeq(rows, 1, k)) = k
      /\ \A i \in 1 .. k : SubSeq(rows, 1, k)[i] = rows[i]
  BY <1>1, <1>4
<1> QED
  BY <1>3, <1>5 DEF k

\* The rows of a query, in order.
LEMMA Ordered ==
  ASSUME NEW S, IsFiniteSet(S), NEW all \in Sorted(S)
  PROVE  /\ all \in Seq(S) /\ DOMAIN all = 1 .. Len(all) /\ Len(all) \in Nat
         /\ \A j \in S : \E n \in DOMAIN all : all[n] = j
         /\ \A m, n \in DOMAIN all : m < n => Before(all[m], all[n])
<1>1. Cardinality(S) \in Nat
  BY FS_CardinalityType
<1>2. all \in [1 .. Cardinality(S) -> S]
  BY DEF Sorted, InOrder
<1>3. all \in Seq(S) /\ DOMAIN all = 1 .. Len(all) /\ Len(all) \in Nat
  BY <1>1, <1>2
<1>4. Range(all) = S /\ \A m, n \in DOMAIN all : m < n => Before(all[m], all[n])
  BY DEF Sorted, InOrder
<1> QED
  BY <1>3, <1>4 DEF Range

\* Places of a sequence, in order.
LEMMA Places ==
  ASSUME NEW rows \in Seq(Row), NEW P \in SUBSET DOMAIN rows, NEW places \in Rising(P)
  PROVE  /\ Picked(rows, places) \in Seq(Row)
         /\ DOMAIN Picked(rows, places) = DOMAIN places /\ places \in Seq(Nat)
         /\ Len(Picked(rows, places)) \in Nat
         /\ DOMAIN places = 1 .. Len(Picked(rows, places))
         /\ \A n \in DOMAIN places : places[n] \in P /\ Picked(rows, places)[n] = rows[places[n]]
         /\ \A p \in P : \E n \in DOMAIN places : places[n] = p
         /\ \A m, n \in DOMAIN places : m < n => places[m] < places[n]
<1>1. DOMAIN rows = 1 .. Len(rows) /\ Len(rows) \in Nat
  OBVIOUS
<1>2. IsFiniteSet(P)
  <2>1. IsFiniteSet(1 .. Len(rows)) /\ P \subseteq 1 .. Len(rows)
    BY <1>1, FS_Interval
  <2> QED
    BY <2>1, FS_Subset
<1>3. Cardinality(P) \in Nat
  BY <1>2, FS_CardinalityType
<1>4. places \in [1 .. Cardinality(P) -> P] /\ DOMAIN places = 1 .. Cardinality(P)
  BY DEF Rising, InOrder
<1>5. Range(places) = P /\ \A m, n \in DOMAIN places : m < n => places[m] < places[n]
  BY DEF Rising, InOrder
<1>6. Picked(rows, places) = [n \in 1 .. Cardinality(P) |-> rows[places[n]]]
  BY <1>4 DEF Picked
<1>7. \A n \in 1 .. Cardinality(P) : rows[places[n]] \in Row
  BY <1>1, <1>4
<1>8. Picked(rows, places) \in Seq(Row) /\ Len(Picked(rows, places)) = Cardinality(P)
  BY <1>3, <1>6, <1>7
<1>9. places \in Seq(Nat)
  BY <1>1, <1>3, <1>4
<1> QED
  BY <1>3, <1>4, <1>5, <1>6, <1>8, <1>9 DEF Range

\* A timestamp that went through a Date is not later.
LEMMA TruncatedTime ==
  ASSUME NEW t \in Nat
  PROVE  Truncated(t) \in Nat /\ Truncated(t) <= t
<1>1. PerMilli \in Nat /\ PerMilli > 0
  BY Sizes
<1>2. t \div PerMilli \in Nat /\ (t \div PerMilli) * PerMilli <= t
  BY <1>1
<1>3. (t \div PerMilli) * PerMilli \in Nat
  BY <1>1, <1>2
<1> QED
  BY <1>2, <1>3 DEF Truncated

\* One row comes before the other.
LEMMA BeforeOrders ==
  ASSUME key \in [Jobs -> Int], NEW i \in Jobs, NEW j \in Jobs
  PROVE  /\ i # j => Before(i, j) \/ Before(j, i)
         /\ ~ (Before(i, j) /\ Before(j, i))
         /\ \A k \in Jobs : Before(i, j) /\ Before(j, k) => Before(i, k)
  BY Ids DEF Before

\* What a page is, of the jobs beyond its cursor.
IsPage(jobs, data, next) ==
  /\ data \in Seq(jobs) /\ Len(data) \in Nat /\ Len(data) <= PageSize
  /\ \A m, n \in 1 .. Len(data) : m < n => Before(data[m], data[n])
  /\ \A j \in jobs, n \in 1 .. Len(data) : Before(j, data[n]) => \E m \in 1 .. n : data[m] = j
  /\ \A j \in jobs :
       \/ \E n \in 1 .. Len(data) : data[n] = j
       \/ next # NoCursor /\ Before(next.id, j)
  /\ next # NoCursor =>
       Len(data) = PageSize /\ next = [ts |-> Truncated(key[data[PageSize]]), id |-> data[PageSize]]

LEMMA PageOfRows ==
  ASSUME TypeOK, NEW S \in SUBSET Jobs, NEW all \in Sorted(S)
  PROVE  IsPage(S, Data(Limit(all)), CursorOf(Limit(all)))
<1> DEFINE rows == Limit(all)
           data == Data(rows)
           next == CursorOf(rows)
<1>1. IsFiniteSet(S) /\ key \in [Jobs -> Int]
  <2>1. IsFiniteSet(Jobs)
    BY Ids
  <2>2. IsFiniteSet(S)
    BY <2>1, FS_Subset
  <2>3. key \in [Jobs -> -1 .. MaxTime]
    BY DEF TypeOK
  <2> QED
    BY <2>2, <2>3
<1>2. /\ all \in Seq(S) /\ DOMAIN all = 1 .. Len(all) /\ Len(all) \in Nat
      /\ \A j \in S : \E n \in DOMAIN all : all[n] = j
      /\ \A m, n \in DOMAIN all : m < n => Before(all[m], all[n])
  BY <1>1, Ordered
<1>3. PageSize \in Nat /\ PageSize > 0 /\ PageSize + 1 \in Nat
  BY Sizes
<1>4. /\ rows \in Seq(S) /\ Len(rows) = IF PageSize + 1 <= Len(all) THEN PageSize + 1 ELSE Len(all)
      /\ \A i \in 1 .. Len(rows) : rows[i] = all[i]
  BY <1>2, <1>3, FirstRows DEF Limit
<1> HIDE DEF rows
<1>5. /\ data \in Seq(S) /\ Len(data) = IF PageSize <= Len(rows) THEN PageSize ELSE Len(rows)
      /\ \A i \in 1 .. Len(data) : data[i] = rows[i]
  BY <1>3, <1>4, FirstRows DEF Data
<1> HIDE DEF data
<1>6. /\ Len(data) \in Nat /\ Len(data) <= PageSize /\ Len(data) <= Len(all)
      /\ \A i \in 1 .. Len(data) : data[i] = all[i] /\ data[i] \in S
      /\ Len(all) <= PageSize => Len(data) = Len(all)
      /\ Len(all) > PageSize => Len(data) = PageSize /\ Len(rows) > PageSize
      /\ Len(all) <= PageSize => Len(rows) <= PageSize
  <2>1. /\ Len(all) \in Nat /\ Len(rows) = IF PageSize + 1 <= Len(all) THEN PageSize + 1 ELSE Len(all)
        /\ Len(data) = IF PageSize <= Len(rows) THEN PageSize ELSE Len(rows)
    BY <1>2, <1>4, <1>5
  <2>2. /\ Len(data) \in Nat /\ Len(data) <= PageSize /\ Len(data) <= Len(all) /\ Len(data) <= Len(rows)
        /\ Len(rows) \in Nat
        /\ Len(all) <= PageSize => Len(data) = Len(all) /\ Len(rows) <= PageSize
        /\ Len(all) > PageSize => Len(data) = PageSize /\ Len(rows) > PageSize
    BY <1>3, <2>1
  <2>3. ASSUME NEW i \in 1 .. Len(data) PROVE data[i] = all[i] /\ data[i] \in S
    <3>1. i \in 1 .. Len(rows)
      BY <2>2
    <3>2. data[i] \in S
      BY <1>5
    <3> QED
      BY <1>4, <1>5, <3>1, <3>2
  <2> QED
    BY <2>2, <2>3
<1>7. \A m, n \in 1 .. Len(data) : m < n => Before(data[m], data[n])
  BY <1>2, <1>6
<1>8. ASSUME NEW j \in S, NEW n \in 1 .. Len(data), Before(j, data[n])
      PROVE  \E m \in 1 .. n : data[m] = j
  <2>1. PICK p \in DOMAIN all : all[p] = j
    BY <1>2
  <2>2. n \in DOMAIN all /\ data[n] = all[n] /\ data[n] \in Jobs /\ j \in Jobs
    BY <1>2, <1>6
  <2>3. ~ Before(data[n], j)
    BY <1>1, <1>8, <2>2, BeforeOrders
  <2>4. ~ (n < p)
    BY <1>2, <2>1, <2>2, <2>3
  <2>5. p \in 1 .. n
    BY <1>2, <2>1, <2>2, <2>4
  <2>6. p \in 1 .. Len(data)
    BY <1>6, <2>5
  <2>7. data[p] = j
    BY <1>6, <2>1, <2>6
  <2> QED
    BY <2>5, <2>7
<1>9. next # NoCursor =>
        /\ Len(all) > PageSize
        /\ next = [ts |-> Truncated(key[data[PageSize]]), id |-> data[PageSize]]
  BY <1>3, <1>4, <1>5, <1>6 DEF CursorOf
<1>10. Len(all) > PageSize => next # NoCursor /\ next.id = data[PageSize]
  <2> SUFFICES ASSUME Len(all) > PageSize
               PROVE  next # NoCursor /\ next.id = data[PageSize]
    OBVIOUS
  <2>1. data[PageSize] \in S /\ rows[PageSize] = data[PageSize]
    BY <1>3, <1>5, <1>6
  <2>2. next = [ts |-> Truncated(key[data[PageSize]]), id |-> data[PageSize]]
    BY <1>6, <2>1 DEF CursorOf
  <2>3. key[data[PageSize]] \in Int /\ PerMilli \in Nat /\ PerMilli > 0
    BY <1>1, <2>1, Sizes
  <2>4. Truncated(key[data[PageSize]]) \in Int
    BY <2>3 DEF Truncated
  <2>5. data[PageSize] \in Int
    <3>1. \A j \in S : j \in Int
      BY Ids
    <3> QED
      BY <2>1, <3>1
  <2>6. next \in [ts : Int, id : Int] /\ next.id = data[PageSize]
    BY <2>2, <2>4, <2>5
  <2> QED
    BY <2>6, Ids
<1>11. ASSUME NEW j \in S, ~ \E n \in 1 .. Len(data) : data[n] = j
       PROVE  next # NoCursor /\ Before(next.id, j)
  <2>1. PICK p \in DOMAIN all : all[p] = j
    BY <1>2
  <2>2. p > Len(data)
    BY <1>2, <1>6, <1>11, <2>1
  <2>3. Len(all) > PageSize /\ Len(data) = PageSize
    BY <1>2, <1>3, <1>6, <2>1, <2>2
  <2>4. PageSize \in DOMAIN all /\ PageSize < p /\ data[PageSize] = all[PageSize]
    <3>1. PageSize \in 1 .. Len(data) /\ PageSize < p /\ Len(data) <= Len(all)
      BY <1>3, <1>6, <2>2, <2>3
    <3>2. PageSize \in 1 .. Len(all)
      BY <1>2, <1>6, <3>1
    <3> QED
      BY <1>2, <1>6, <3>1, <3>2
  <2>5. Before(data[PageSize], j)
    BY <1>2, <2>1, <2>4
  <2> QED
    BY <1>10, <2>3, <2>5
<1> HIDE DEF next
<1>12. next # NoCursor => Len(data) = PageSize
  BY <1>6, <1>9
<1> QED
  BY <1>5, <1>6, <1>7, <1>8, <1>9, <1>11, <1>12 DEF IsPage, data, next, rows

-----------------------------------------------------------------------------
(* What the actions do to the requests. *)

Reply(f, data, next) ==
  [pc |-> "read", append |-> fetch[f].append, cursor |-> NoCursor,
   rows |-> [n \in 1 .. Len(data) |-> [job |-> data[n], dead |-> dead[data[n]]]],
   next |-> next, base |-> IF fetch[f].append THEN {} ELSE Matching, skipped |-> Skipped(next),
   missed |-> fetch[f].missed, stale |-> fetch[f].stale]

LEMMA ReadReplies ==
  ASSUME TypeOK, Clocked, NEW f \in Fetches, Read(f)
  PROVE  \E data \in Seq(Jobs), next \in Cursors \cup {NoCursor} :
           /\ IsPage(After(fetch[f].cursor), data, next)
           /\ fetch'[f] = Reply(f, data, next)
           /\ \A g \in Fetches : g # f => fetch'[g] = fetch[g]
           /\ fetch' \in [Fetches -> Requests]
<1>1. fetch \in [Fetches -> Requests] /\ fetch[f] \in Requests
  BY DEF TypeOK
<1>2. After(fetch[f].cursor) \in SUBSET Jobs /\ Matching \in SUBSET Jobs /\ Matching \subseteq table
  BY DEF After, Matching, TypeOK
<1>3. PICK all \in Sorted(After(fetch[f].cursor)) :
        fetch' = [fetch EXCEPT ![f].pc = "read", ![f].cursor = NoCursor,
                    ![f].rows = [n \in DOMAIN Data(Limit(all)) |->
                                  [job |-> Data(Limit(all))[n], dead |-> dead[Data(Limit(all))[n]]]],
                    ![f].next = CursorOf(Limit(all)), ![f].skipped = Skipped(CursorOf(Limit(all))),
                    ![f].base = IF fetch[f].append THEN {} ELSE Matching]
  BY DEF Read
<1> DEFINE data == Data(Limit(all))
           next == CursorOf(Limit(all))
<1>4. IsPage(After(fetch[f].cursor), data, next)
  BY <1>2, PageOfRows
<1> HIDE DEF data, next
<1>5. data \in Seq(After(fetch[f].cursor)) /\ Len(data) \in Nat /\ DOMAIN data = 1 .. Len(data)
  BY <1>4 DEF IsPage
<1>6. data \in Seq(Jobs) /\ \A n \in 1 .. Len(data) : data[n] \in table /\ data[n] \in Jobs
  BY <1>2, <1>5 DEF After
<1>7. next \in Cursors \cup {NoCursor}
  <2> SUFFICES ASSUME next # NoCursor
               PROVE  next \in Cursors
    OBVIOUS
  <2>1. /\ Len(data) = PageSize /\ PageSize \in 1 .. Len(data)
        /\ next = [ts |-> Truncated(key[data[PageSize]]), id |-> data[PageSize]]
    BY <1>4, Sizes DEF IsPage
  <2>2. data[PageSize] \in Jobs /\ key[data[PageSize]] \in 0 .. MaxTime
    BY <1>6, <2>1 DEF Clocked, TypeOK
  <2>3. Truncated(key[data[PageSize]]) \in 0 .. MaxTime
    BY <2>2, TruncatedTime, Bounds
  <2> QED
    BY <2>1, <2>2, <2>3 DEF Cursors
<1>8. fetch' = [fetch EXCEPT ![f] = Reply(f, data, next)]
  <2>1. fetch' = [fetch EXCEPT ![f].pc = "read", ![f].cursor = NoCursor,
                    ![f].rows = [n \in 1 .. Len(data) |-> [job |-> data[n], dead |-> dead[data[n]]]],
                    ![f].next = next, ![f].skipped = Skipped(next),
                    ![f].base = IF fetch[f].append THEN {} ELSE Matching]
    BY <1>3, <1>5 DEF data, next
  <2> DEFINE rows == [n \in 1 .. Len(data) |-> [job |-> data[n], dead |-> dead[data[n]]]]
             base0 == IF fetch[f].append THEN {} ELSE Matching
             skipped == Skipped(next)
  <2>2. Reply(f, data, next) =
          [pc |-> "read", append |-> fetch[f].append, cursor |-> NoCursor, rows |-> rows,
           next |-> next, base |-> base0, skipped |-> skipped,
           missed |-> fetch[f].missed, stale |-> fetch[f].stale]
    BY DEF Reply
  <2>3. fetch' = [fetch EXCEPT ![f].pc = "read", ![f].cursor = NoCursor, ![f].rows = rows,
                    ![f].next = next, ![f].skipped = skipped, ![f].base = base0]
    BY <2>1
  <2> HIDE DEF rows, base0, skipped
  <2>4. fetch' = [fetch EXCEPT ![f] =
                   [pc |-> "read", append |-> fetch[f].append, cursor |-> NoCursor, rows |-> rows,
                    next |-> next, base |-> base0, skipped |-> skipped,
                    missed |-> fetch[f].missed, stale |-> fetch[f].stale]]
    <3>1. fetch[f] = [pc |-> fetch[f].pc, append |-> fetch[f].append, cursor |-> fetch[f].cursor,
                      rows |-> fetch[f].rows, next |-> fetch[f].next, base |-> fetch[f].base,
                      skipped |-> fetch[f].skipped, missed |-> fetch[f].missed, stale |-> fetch[f].stale]
      BY <1>1 DEF Requests
    <3>2. [fetch[f] EXCEPT !.pc = "read", !.cursor = NoCursor, !.rows = rows, !.next = next,
             !.skipped = skipped, !.base = base0] =
            [pc |-> "read", append |-> fetch[f].append, cursor |-> NoCursor, rows |-> rows,
             next |-> next, base |-> base0, skipped |-> skipped,
             missed |-> fetch[f].missed, stale |-> fetch[f].stale]
      <4> DEFINE R(pc, cursor, rows_, next_, base_, skipped_) ==
                   [pc |-> pc, append |-> fetch[f].append, cursor |-> cursor, rows |-> rows_,
                    next |-> next_, base |-> base_, skipped |-> skipped_,
                    missed |-> fetch[f].missed, stale |-> fetch[f].stale]
                 p1 == [fetch[f] EXCEPT !.pc = "read"]
                 p2 == [p1 EXCEPT !.cursor = NoCursor]
                 p3 == [p2 EXCEPT !.rows = rows]
                 p4 == [p3 EXCEPT !.next = next]
                 p5 == [p4 EXCEPT !.skipped = skipped]
                 p6 == [p5 EXCEPT !.base = base0]
      <4>0. [fetch[f] EXCEPT !.pc = "read", !.cursor = NoCursor, !.rows = rows, !.next = next,
               !.skipped = skipped, !.base = base0] = p6
        OBVIOUS
      <4>1. p1 = R("read", fetch[f].cursor, fetch[f].rows, fetch[f].next, fetch[f].base, fetch[f].skipped)
        BY <3>1
      <4> HIDE DEF p1
      <4>2. p2 = R("read", NoCursor, fetch[f].rows, fetch[f].next, fetch[f].base, fetch[f].skipped)
        BY <4>1
      <4> HIDE DEF p2
      <4>3. p3 = R("read", NoCursor, rows, fetch[f].next, fetch[f].base, fetch[f].skipped)
        BY <4>2
      <4> HIDE DEF p3
      <4>4. p4 = R("read", NoCursor, rows, next, fetch[f].base, fetch[f].skipped)
        BY <4>3
      <4> HIDE DEF p4
      <4>5. p5 = R("read", NoCursor, rows, next, fetch[f].base, skipped)
        BY <4>4
      <4> HIDE DEF p5
      <4>6. p6 = R("read", NoCursor, rows, next, base0, skipped)
        BY <4>5
      <4> HIDE DEF p6
      <4> QED
        BY <4>0, <4>6
    <3>3. fetch' = [fetch EXCEPT ![f] = [fetch[f] EXCEPT !.pc = "read", !.cursor = NoCursor, !.rows = rows,
             !.next = next, !.skipped = skipped, !.base = base0]]
      BY <1>1, <2>3
    <3> QED
      BY <3>2, <3>3
  <2> QED
    BY <2>2, <2>4
<1>9. Reply(f, data, next) \in Requests
  <2>1. \A n \in 1 .. Len(data) : [job |-> data[n], dead |-> dead[data[n]]] \in [job : Jobs, dead : BOOLEAN]
    BY <1>6 DEF TypeOK
  <2>2. [n \in 1 .. Len(data) |-> [job |-> data[n], dead |-> dead[data[n]]]] \in Rows
    BY <1>5, <2>1 DEF Rows
  <2>3. Skipped(next) \in SUBSET Jobs
    BY <1>2 DEF Skipped
  <2> QED
    BY <1>1, <1>2, <1>7, <2>2, <2>3 DEF Reply, Requests
<1> QED
  BY <1>1, <1>4, <1>6, <1>7, <1>8, <1>9

LEMMA SentRecord ==
  ASSUME NEW r, NEW rows, NEW none, NEW next, NEW stale, NEW cursor, NEW append, NEW pc0, NEW append0, NEW cursor0,
         r = [pc |-> pc0, append |-> append0, cursor |-> cursor0, rows |-> rows, next |-> next,
              base |-> none, skipped |-> none, missed |-> none, stale |-> stale]
  PROVE  [r EXCEPT !.pc = "sent", !.cursor = cursor, !.append = append] =
           [pc |-> "sent", append |-> append, cursor |-> cursor, rows |-> rows, next |-> next,
            base |-> none, skipped |-> none, missed |-> none, stale |-> stale]
<1> DEFINE p == [r EXCEPT !.pc = "sent"]
           q == [p EXCEPT !.cursor = cursor]
<1>1. p = [pc |-> "sent", append |-> append0, cursor |-> cursor0, rows |-> rows, next |-> next,
           base |-> none, skipped |-> none, missed |-> none, stale |-> stale]
  OBVIOUS
<1>2. [r EXCEPT !.pc = "sent", !.cursor = cursor, !.append = append] = [q EXCEPT !.append = append]
  OBVIOUS
<1> HIDE DEF p
<1>3. q = [pc |-> "sent", append |-> append0, cursor |-> cursor, rows |-> rows, next |-> next,
           base |-> none, skipped |-> none, missed |-> none, stale |-> stale]
  BY <1>1
<1> HIDE DEF q
<1> QED
  BY <1>2, <1>3

\* A request that is sent.
LEMMA AskedRequest ==
  ASSUME NEW cursor \in Cursors \cup {NoCursor}, NEW append \in BOOLEAN
  PROVE  /\ Asked(cursor, append) =
              [pc |-> "sent", append |-> append, cursor |-> cursor, rows |-> <<>>, next |-> NoCursor,
               base |-> {}, skipped |-> {}, missed |-> {}, stale |-> FALSE]
         /\ Asked(cursor, append) \in Requests /\ NoFetch \in Requests
<1>1. <<>> \in Rows
  BY DEF Rows
<1>2. NoFetch = [pc |-> "idle", append |-> FALSE, cursor |-> NoCursor, rows |-> <<>>, next |-> NoCursor,
                 base |-> {}, skipped |-> {}, missed |-> {}, stale |-> FALSE]
  BY DEF NoFetch
<1>3. Asked(cursor, append) =
        [pc |-> "sent", append |-> append, cursor |-> cursor, rows |-> <<>>, next |-> NoCursor,
         base |-> {}, skipped |-> {}, missed |-> {}, stale |-> FALSE]
  <2> DEFINE r == NoFetch
             rows == <<>>
             none == {}
             idle == "idle"
             no == FALSE
  <2>1. r = [pc |-> idle, append |-> no, cursor |-> NoCursor, rows |-> rows, next |-> NoCursor,
             base |-> none, skipped |-> none, missed |-> none, stale |-> no]
    BY <1>2
  <2>2. Asked(cursor, append) = [r EXCEPT !.pc = "sent", !.cursor = cursor, !.append = append]
    BY DEF Asked
  <2> HIDE DEF r, rows, none, idle, no
  <2>3. Asked(cursor, append) =
          [pc |-> "sent", append |-> append, cursor |-> cursor, rows |-> rows, next |-> NoCursor,
           base |-> none, skipped |-> none, missed |-> none, stale |-> no]
    BY <2>1, <2>2, SentRecord
  <2> QED
    BY <2>3 DEF rows, none, no
<1>4. NoFetch \in Requests
  BY <1>1, <1>2 DEF Requests
<1>5. Asked(cursor, append) \in Requests
  BY <1>1, <1>3 DEF Requests
<1> QED
  BY <1>3, <1>4, <1>5

\* The request stays what it was.
Like(r, s) ==
  /\ r.pc = s.pc /\ r.append = s.append /\ r.cursor = s.cursor /\ r.rows = s.rows
  /\ r.next = s.next /\ r.skipped = s.skipped /\ r.base \subseteq s.base

\* A new request for a first page.
First(r) ==
  /\ r.pc = "sent" /\ r.append = FALSE /\ r.rows = <<>> /\ r.base = {} /\ r.stale = FALSE
  /\ r.cursor = NoCursor

Idle(r) == r.pc = "idle" /\ r.append = FALSE /\ r.rows = <<>> /\ r.base = {} /\ r.stale = FALSE

LEMMA NoFetchIsIdle == Idle(NoFetch)
  BY DEF Idle, NoFetch

LEMMA AskedFirst == First(Asked(NoCursor, FALSE))
<1>1. NoCursor \in Cursors \cup {NoCursor} /\ FALSE \in BOOLEAN
  OBVIOUS
<1>2. Asked(NoCursor, FALSE) =
        [pc |-> "sent", append |-> FALSE, cursor |-> NoCursor, rows |-> <<>>, next |-> NoCursor,
         base |-> {}, skipped |-> {}, missed |-> {}, stale |-> FALSE]
  BY <1>1, AskedRequest
<1> DEFINE r == Asked(NoCursor, FALSE)
<1> HIDE DEF r
<1>3. r = [pc |-> "sent", append |-> FALSE, cursor |-> NoCursor, rows |-> <<>>, next |-> NoCursor,
           base |-> {}, skipped |-> {}, missed |-> {}, stale |-> FALSE]
  BY <1>2 DEF r
<1>4. First(r)
  BY <1>3 DEF First
<1> QED
  BY <1>4 DEF r

\* A message that comes marks the rows that were read before it.
LEMMA Overtaken ==
  ASSUME NEW job \in Jobs, NEW fetches \in [Fetches -> Requests]
  PROVE  /\ Overtake(job, fetches) \in [Fetches -> Requests]
         /\ \A g \in Fetches :
              /\ Overtake(job, fetches)[g].pc = fetches[g].pc
              /\ Overtake(job, fetches)[g].append = fetches[g].append
              /\ Overtake(job, fetches)[g].cursor = fetches[g].cursor
              /\ Overtake(job, fetches)[g].rows = fetches[g].rows
              /\ Overtake(job, fetches)[g].next = fetches[g].next
              /\ Overtake(job, fetches)[g].base = fetches[g].base
              /\ Overtake(job, fetches)[g].skipped = fetches[g].skipped
              /\ Overtake(job, fetches)[g].stale = fetches[g].stale
              /\ fetches[g].missed \subseteq Overtake(job, fetches)[g].missed
              /\ fetches[g].pc = "read" => job \in Overtake(job, fetches)[g].missed
<1>1. ASSUME NEW g \in Fetches
      PROVE  /\ [fetches[g] EXCEPT !.missed = fetches[g].missed \cup {job}] =
                  [pc |-> fetches[g].pc, append |-> fetches[g].append, cursor |-> fetches[g].cursor,
                   rows |-> fetches[g].rows, next |-> fetches[g].next, base |-> fetches[g].base,
                   skipped |-> fetches[g].skipped, missed |-> fetches[g].missed \cup {job},
                   stale |-> fetches[g].stale]
             /\ [fetches[g] EXCEPT !.missed = fetches[g].missed \cup {job}] \in Requests
  <2>1. fetches[g] \in Requests
    OBVIOUS
  <2> DEFINE jobs == fetches[g].missed \cup {job}
  <2> HIDE DEF jobs
  <2>2. [fetches[g] EXCEPT !.missed = jobs] =
          [pc |-> fetches[g].pc, append |-> fetches[g].append, cursor |-> fetches[g].cursor,
           rows |-> fetches[g].rows, next |-> fetches[g].next, base |-> fetches[g].base,
           skipped |-> fetches[g].skipped, missed |-> jobs, stale |-> fetches[g].stale]
    BY <2>1 DEF Requests
  <2>3. jobs \in SUBSET Jobs
    BY <2>1 DEF Requests, jobs
  <2>4. [fetches[g] EXCEPT !.missed = jobs] \in Requests
    BY <2>1, <2>3 DEF Requests
  <2> QED
    BY <2>2, <2>4 DEF jobs
<1>2. \A g \in Fetches :
        Overtake(job, fetches)[g] =
          IF fetches[g].pc = "read" THEN [fetches[g] EXCEPT !.missed = fetches[g].missed \cup {job}]
                                    ELSE fetches[g]
  BY DEF Overtake
<1> HIDE DEF Overtake
<1>3. Overtake(job, fetches) = [g \in Fetches |-> Overtake(job, fetches)[g]]
  BY DEF Overtake
<1>4. \A g \in Fetches : Overtake(job, fetches)[g] \in Requests
  BY <1>1, <1>2
<1>5. Overtake(job, fetches) \in [Fetches -> Requests]
  BY <1>3, <1>4
<1>6. ASSUME NEW g \in Fetches
      PROVE  LET o == Overtake(job, fetches)[g]
                 r == fetches[g]
             IN /\ o.pc = r.pc /\ o.append = r.append /\ o.cursor = r.cursor /\ o.rows = r.rows
                /\ o.next = r.next /\ o.base = r.base /\ o.skipped = r.skipped /\ o.stale = r.stale
                /\ r.missed \subseteq o.missed
                /\ r.pc = "read" => job \in o.missed
  <2> DEFINE o == Overtake(job, fetches)[g]
             r == fetches[g]
  <2>1. o = IF r.pc = "read"
            THEN [pc |-> r.pc, append |-> r.append, cursor |-> r.cursor, rows |-> r.rows, next |-> r.next,
                  base |-> r.base, skipped |-> r.skipped, missed |-> r.missed \cup {job}, stale |-> r.stale]
            ELSE r
    BY <1>1, <1>2, Zenon
  <2> HIDE DEF o, r
  <2>2. /\ o.pc = r.pc /\ o.append = r.append /\ o.cursor = r.cursor /\ o.rows = r.rows
        /\ o.next = r.next /\ o.base = r.base /\ o.skipped = r.skipped /\ o.stale = r.stale
        /\ r.missed \subseteq o.missed
        /\ r.pc = "read" => job \in o.missed
    BY <2>1
  <2> QED
    BY <2>2 DEF o, r
<1> HIDE DEF Overtake
<1> QED
  BY <1>5, <1>6

\* A change of status is a debt that no list has any more.
LEMMA ChangedRequests ==
  ASSUME TypeOK, NEW j \in Jobs, Change(j)
  PROVE  /\ fetch' \in [Fetches -> Requests]
         /\ \A g \in Fetches :
              /\ fetch'[g].pc = fetch[g].pc /\ fetch'[g].append = fetch[g].append
              /\ fetch'[g].cursor = fetch[g].cursor /\ fetch'[g].rows = fetch[g].rows
              /\ fetch'[g].next = fetch[g].next /\ fetch'[g].base = fetch[g].base \ {j}
              /\ fetch'[g].skipped = fetch[g].skipped /\ fetch'[g].stale = fetch[g].stale
              /\ fetch'[g].missed = fetch[g].missed
<1>1. fetch \in [Fetches -> Requests]
  BY DEF TypeOK
<1>2. ASSUME NEW g \in Fetches
      PROVE  /\ [fetch[g] EXCEPT !.base = fetch[g].base \ {j}] =
                  [pc |-> fetch[g].pc, append |-> fetch[g].append, cursor |-> fetch[g].cursor,
                   rows |-> fetch[g].rows, next |-> fetch[g].next, base |-> fetch[g].base \ {j},
                   skipped |-> fetch[g].skipped, missed |-> fetch[g].missed,
                   stale |-> fetch[g].stale]
             /\ [fetch[g] EXCEPT !.base = fetch[g].base \ {j}] \in Requests
  <2>1. fetch[g] \in Requests
    BY <1>1
  <2> QED
    BY <2>1 DEF Requests
<1>3. fetch' = [g \in Fetches |-> [fetch[g] EXCEPT !.base = fetch[g].base \ {j}]]
  BY DEF Change
<1>4. fetch' \in [Fetches -> Requests]
  BY <1>2, <1>3
<1>5. ASSUME NEW g \in Fetches
      PROVE  fetch'[g] =
               [pc |-> fetch[g].pc, append |-> fetch[g].append, cursor |-> fetch[g].cursor,
                rows |-> fetch[g].rows, next |-> fetch[g].next, base |-> fetch[g].base \ {j},
                skipped |-> fetch[g].skipped, missed |-> fetch[g].missed,
                stale |-> fetch[g].stale]
  <2>1. fetch'[g] = [fetch[g] EXCEPT !.base = fetch[g].base \ {j}]
    BY <1>3
  <2> QED
    BY <1>2, <2>1, Zenon
<1> QED
  BY <1>4, <1>5

\* A reply that replaces the list makes the pages asked for before stale.
LEMMA ReplacedRequests ==
  ASSUME TypeOK, NEW f \in Fetches, Replace(f)
  PROVE  /\ fetch' \in [Fetches -> Requests] /\ fetch'[f] = NoFetch
         /\ \A g \in Fetches : g # f =>
              /\ fetch'[g].pc = fetch[g].pc /\ fetch'[g].append = fetch[g].append
              /\ fetch'[g].cursor = fetch[g].cursor /\ fetch'[g].rows = fetch[g].rows
              /\ fetch'[g].next = fetch[g].next /\ fetch'[g].base = fetch[g].base
              /\ fetch'[g].skipped = fetch[g].skipped /\ fetch'[g].missed = fetch[g].missed
              /\ fetch'[g].stale <=> (fetch[g].stale \/ fetch[g].append)
<1>1. fetch \in [Fetches -> Requests] /\ NoFetch \in Requests
  BY AskedRequest DEF TypeOK
<1>2. ASSUME NEW g \in Fetches
      PROVE  /\ [fetch[g] EXCEPT !.stale = (fetch[g].stale \/ fetch[g].append)] =
                  [pc |-> fetch[g].pc, append |-> fetch[g].append, cursor |-> fetch[g].cursor,
                   rows |-> fetch[g].rows, next |-> fetch[g].next, base |-> fetch[g].base,
                   skipped |-> fetch[g].skipped, missed |-> fetch[g].missed,
                   stale |-> (fetch[g].stale \/ fetch[g].append)]
             /\ [fetch[g] EXCEPT !.stale = (fetch[g].stale \/ fetch[g].append)] \in Requests
  <2>1. fetch[g] \in Requests
    BY <1>1
  <2> QED
    BY <2>1 DEF Requests
<1>3. fetch' = [g \in Fetches |-> IF g = f THEN NoFetch
                                  ELSE [fetch[g] EXCEPT !.stale = (fetch[g].stale \/ fetch[g].append)]]
  BY DEF Replace
<1>4. fetch' \in [Fetches -> Requests] /\ fetch'[f] = NoFetch
  BY <1>1, <1>2, <1>3
<1>5. ASSUME NEW g \in Fetches, g # f
      PROVE  fetch'[g] =
               [pc |-> fetch[g].pc, append |-> fetch[g].append, cursor |-> fetch[g].cursor,
                rows |-> fetch[g].rows, next |-> fetch[g].next, base |-> fetch[g].base,
                skipped |-> fetch[g].skipped, missed |-> fetch[g].missed,
                stale |-> (fetch[g].stale \/ fetch[g].append)]
  <2>1. fetch'[g] = [fetch[g] EXCEPT !.stale = (fetch[g].stale \/ fetch[g].append)]
    BY <1>3, <1>5
  <2>2. [fetch[g] EXCEPT !.stale = (fetch[g].stale \/ fetch[g].append)] =
          [pc |-> fetch[g].pc, append |-> fetch[g].append, cursor |-> fetch[g].cursor,
           rows |-> fetch[g].rows, next |-> fetch[g].next, base |-> fetch[g].base,
           skipped |-> fetch[g].skipped, missed |-> fetch[g].missed,
           stale |-> (fetch[g].stale \/ fetch[g].append)]
    BY <1>2
  <2> QED
    BY <2>1, <2>2, Zenon
<1>6. ASSUME NEW g \in Fetches, g # f
      PROVE  /\ fetch'[g].pc = fetch[g].pc /\ fetch'[g].append = fetch[g].append
             /\ fetch'[g].cursor = fetch[g].cursor /\ fetch'[g].rows = fetch[g].rows
             /\ fetch'[g].next = fetch[g].next /\ fetch'[g].base = fetch[g].base
             /\ fetch'[g].skipped = fetch[g].skipped /\ fetch'[g].missed = fetch[g].missed
             /\ fetch'[g].stale <=> (fetch[g].stale \/ fetch[g].append)
  <2> DEFINE r == fetch[g]
             o == fetch'[g]
  <2>1. o = [pc |-> r.pc, append |-> r.append, cursor |-> r.cursor, rows |-> r.rows, next |-> r.next,
             base |-> r.base, skipped |-> r.skipped, missed |-> r.missed, stale |-> (r.stale \/ r.append)]
    BY <1>5, <1>6
  <2> HIDE DEF o, r
  <2>2. /\ o.pc = r.pc /\ o.append = r.append /\ o.cursor = r.cursor /\ o.rows = r.rows
        /\ o.next = r.next /\ o.base = r.base /\ o.skipped = r.skipped /\ o.missed = r.missed
        /\ o.stale <=> (r.stale \/ r.append)
    BY <2>1
  <2> QED
    BY <2>2 DEF o, r
<1> QED
  BY <1>4, <1>6

-----------------------------------------------------------------------------
(* What the actions do to the list. *)

\* A page is appended, without the rows that are left out.
LEMMA ExtendedList ==
  ASSUME TypeOK, NEW f \in Fetches, Extend(f)
  PROVE  \E fresh \in Seq(Nat), k \in Nat :
           /\ list' \in Rows /\ Len(list) \in Nat
           /\ DOMAIN list = 1 .. Len(list) /\ DOMAIN list' = 1 .. Len(list) + k /\ DOMAIN fresh = 1 .. k
           /\ \A n \in 1 .. Len(list) : list'[n] = list[n]
           /\ \A n \in 1 .. k : fresh[n] \in Fresh(fetch[f].rows) /\ fresh[n] \in DOMAIN fetch[f].rows
           /\ \A n \in 1 .. k : list'[Len(list) + n] = fetch[f].rows[fresh[n]]
           /\ \A p \in Fresh(fetch[f].rows) : \E n \in 1 .. k : fresh[n] = p
           /\ \A m, n \in 1 .. k : m < n => fresh[m] < fresh[n]
<1> DEFINE rows == fetch[f].rows
           P == Fresh(rows)
<1>1. rows \in Seq(Row) /\ list \in Seq(Row)
  BY DEF TypeOK, Requests, Rows, Row
<1>2. P \in SUBSET DOMAIN rows
  BY DEF Fresh
<1>3. PICK fresh \in Rising(P) : list' = list \o Picked(rows, fresh)
  BY DEF Extend
<1> HIDE DEF P, rows
<1> DEFINE new == Picked(rows, fresh)
           k == Len(new)
<1>4. /\ new \in Seq(Row) /\ k \in Nat /\ DOMAIN fresh = 1 .. k /\ fresh \in Seq(Nat)
      /\ \A n \in DOMAIN fresh : fresh[n] \in P /\ new[n] = rows[fresh[n]]
      /\ \A p \in P : \E n \in DOMAIN fresh : fresh[n] = p
      /\ \A m, n \in DOMAIN fresh : m < n => fresh[m] < fresh[n]
  BY <1>1, <1>2, <1>3, Places
<1> HIDE DEF new
<1>5. /\ list' \in Seq(Row) /\ Len(list) \in Nat /\ DOMAIN list = 1 .. Len(list)
      /\ DOMAIN list' = 1 .. Len(list) + k
      /\ \A n \in 1 .. Len(list) : list'[n] = list[n]
      /\ \A n \in 1 .. k : list'[Len(list) + n] = new[n]
  <2>1. list' = list \o new
    BY <1>3 DEF new
  <2>2. Len(list) \in Nat /\ DOMAIN list = 1 .. Len(list) /\ Len(new) = k
    BY <1>1
  <2>3. new \in Seq(Row)
    BY <1>4
  <2> HIDE DEF k
  <2>4. list' \in Seq(Row) /\ Len(list') = Len(list) + k
    BY <1>1, <2>1, <2>2, <2>3, ConcatProperties
  <2>5. ASSUME NEW n \in 1 .. Len(list) + k
        PROVE  list'[n] = IF n <= Len(list) THEN list[n] ELSE new[n - Len(list)]
    BY <1>1, <2>1, <2>2, <2>3, <2>5, ConcatProperties
  <2>6. k \in Nat /\ DOMAIN list' = 1 .. Len(list) + k
    BY <1>4, <2>2, <2>4
  <2>7. \A n \in 1 .. Len(list) : list'[n] = list[n]
    BY <2>2, <2>5, <2>6
  <2>8. ASSUME NEW n \in 1 .. k PROVE list'[Len(list) + n] = new[n]
    <3>1. Len(list) + n \in 1 .. Len(list) + k /\ ~ (Len(list) + n <= Len(list)) /\ (Len(list) + n) - Len(list) = n
      BY <2>2, <2>6
    <3> QED
      BY <2>5, <3>1
  <2> QED
    BY <2>2, <2>4, <2>6, <2>7, <2>8
<1>6. list' \in Rows
  BY <1>5 DEF Row, Rows
<1> HIDE DEF k
<1>7. \A n \in 1 .. k : list'[Len(list) + n] = rows[fresh[n]] /\ fresh[n] \in P /\ fresh[n] \in DOMAIN rows
  BY <1>2, <1>4, <1>5
<1>8. (\A p \in P : \E n \in 1 .. k : fresh[n] = p) /\ \A m, n \in 1 .. k : m < n => fresh[m] < fresh[n]
  BY <1>4
<1>9. fresh \in Seq(Nat) /\ k \in Nat /\ DOMAIN fresh = 1 .. k
  BY <1>4
<1>10. /\ list' \in Rows /\ Len(list) \in Nat
       /\ DOMAIN list = 1 .. Len(list) /\ DOMAIN list' = 1 .. Len(list) + k /\ DOMAIN fresh = 1 .. k
       /\ \A n \in 1 .. Len(list) : list'[n] = list[n]
       /\ \A n \in 1 .. k : fresh[n] \in P /\ fresh[n] \in DOMAIN rows
       /\ \A n \in 1 .. k : list'[Len(list) + n] = rows[fresh[n]]
       /\ \A p \in P : \E n \in 1 .. k : fresh[n] = p
       /\ \A m, n \in 1 .. k : m < n => fresh[m] < fresh[n]
  BY <1>5, <1>6, <1>7, <1>8, <1>9
<1> QED
  BY <1>9, <1>10, Zenon DEF P, rows

\* A row goes, and the others stay in order.
LEMMA RemovedRow ==
  ASSUME TypeOK, NEW job \in Jobs, RemoveJob(job)
  PROVE  \E left \in Seq(Nat), k \in Nat :
           /\ list' \in Rows
           /\ DOMAIN list' = 1 .. k /\ DOMAIN left = 1 .. k
           /\ \A n \in 1 .. k : left[n] \in DOMAIN list /\ list'[n] = list[left[n]] /\ list'[n].job # job
           /\ \A p \in DOMAIN list : list[p].job # job => \E n \in 1 .. k : left[n] = p
           /\ \A m, n \in 1 .. k : m < n => left[m] < left[n]
<1> DEFINE P == {n \in DOMAIN list : list[n].job # job}
<1>1. list \in Seq(Row) /\ P \in SUBSET DOMAIN list
  BY DEF TypeOK, Rows, Row
<1>2. PICK left \in Rising(P) : list' = Picked(list, left)
  BY DEF RemoveJob
<1>3. \A n : n \in P <=> n \in DOMAIN list /\ list[n].job # job
  OBVIOUS
<1> HIDE DEF P
<1> DEFINE k == Len(list')
<1>4. /\ list' \in Seq(Row) /\ k \in Nat /\ DOMAIN left = 1 .. k /\ DOMAIN list' = DOMAIN left
      /\ left \in Seq(Nat)
      /\ \A n \in DOMAIN left : left[n] \in P /\ list'[n] = list[left[n]]
      /\ \A p \in P : \E n \in DOMAIN left : left[n] = p
      /\ \A m, n \in DOMAIN left : m < n => left[m] < left[n]
  BY <1>1, <1>2, Places
<1>5. list' \in Rows
  BY <1>4 DEF Row, Rows
<1> HIDE DEF k
<1>6. /\ list' \in Rows
      /\ DOMAIN list' = 1 .. k /\ DOMAIN left = 1 .. k
      /\ \A n \in 1 .. k : left[n] \in DOMAIN list /\ list'[n] = list[left[n]] /\ list'[n].job # job
      /\ \A p \in DOMAIN list : list[p].job # job => \E n \in 1 .. k : left[n] = p
      /\ \A m, n \in 1 .. k : m < n => left[m] < left[n]
  <2>1. \A n \in 1 .. k : left[n] \in P /\ list'[n] = list[left[n]]
    BY <1>4
  <2>2. \A n \in 1 .. k : left[n] \in DOMAIN list /\ list'[n] = list[left[n]] /\ list'[n].job # job
    BY <1>3, <2>1
  <2>3. \A p \in DOMAIN list : list[p].job # job => \E n \in 1 .. k : left[n] = p
    BY <1>3, <1>4
  <2> QED
    BY <1>4, <1>5, <2>2, <2>3
<1> QED
  BY <1>4, <1>6, Zenon

\* Rows are updated in their places.
LEMMA UpdatedRows ==
  ASSUME list \in Rows, NEW msg, msg.dead \in BOOLEAN
  PROVE  /\ Updated(msg) \in Rows /\ DOMAIN Updated(msg) = DOMAIN list
         /\ \A n \in DOMAIN list :
              /\ Updated(msg)[n].job = list[n].job
              /\ Updated(msg)[n].dead = IF list[n].job = msg.job THEN msg.dead ELSE list[n].dead
<1>1. list \in Seq([job : Jobs, dead : BOOLEAN]) /\ DOMAIN list = 1 .. Len(list) /\ Len(list) \in Nat
  BY DEF Rows
<1>2. ASSUME NEW n \in DOMAIN list
      PROVE  /\ [list[n] EXCEPT !.dead = msg.dead] = [job |-> list[n].job, dead |-> msg.dead]
             /\ list[n] \in [job : Jobs, dead : BOOLEAN]
  <2>1. list[n] \in [job : Jobs, dead : BOOLEAN]
    <3>1. list \in Seq(Row) /\ n \in 1 .. Len(list)
      BY <1>1 DEF Row
    <3>2. list[n] \in Row
      BY <3>1
    <3> QED
      BY <3>2 DEF Row
  <2> QED
    BY <2>1
<1>3. Updated(msg) = [n \in 1 .. Len(list) |-> IF list[n].job = msg.job
                                              THEN [list[n] EXCEPT !.dead = msg.dead] ELSE list[n]]
  BY <1>1 DEF Updated
<1>4. \A n \in 1 .. Len(list) :
        (IF list[n].job = msg.job THEN [list[n] EXCEPT !.dead = msg.dead] ELSE list[n])
          \in [job : Jobs, dead : BOOLEAN]
  BY <1>1, <1>2
<1>5. Updated(msg) \in Seq([job : Jobs, dead : BOOLEAN]) /\ DOMAIN Updated(msg) = DOMAIN list
  BY <1>1, <1>3, <1>4
<1> QED
  BY <1>1, <1>2, <1>3, <1>5 DEF Rows

-----------------------------------------------------------------------------
(* Types. *)

TypeInv == TypeOK /\ Clocked

\* At first one request for the first page is on its way.
LEMMA InitRequests ==
  ASSUME Init
  PROVE  /\ fetch \in [Fetches -> Requests]
         /\ \A g \in Fetches : fetch[g].rows = <<>> /\ (First(fetch[g]) \/ Idle(fetch[g]))
<1>1. NoCursor \in Cursors \cup {NoCursor} /\ FALSE \in BOOLEAN
  OBVIOUS
<1>2. Asked(NoCursor, FALSE) \in Requests /\ NoFetch \in Requests
  BY <1>1, AskedRequest
<1>3. PICK f \in Fetches : fetch = [g \in Fetches |-> IF g = f THEN Asked(NoCursor, FALSE) ELSE NoFetch]
  BY DEF Init
<1>4. First(Asked(NoCursor, FALSE)) /\ Idle(NoFetch)
  BY AskedFirst, NoFetchIsIdle
<1>5. fetch \in [Fetches -> Requests]
  BY <1>2, <1>3
<1>6. \A g \in Fetches : fetch[g] = Asked(NoCursor, FALSE) \/ fetch[g] = NoFetch
  BY <1>3
<1> QED
  BY <1>4, <1>5, <1>6 DEF First, Idle

LEMMA InitTypes == Init => TypeInv
<1> SUFFICES ASSUME Init
             PROVE  TypeInv
  OBVIOUS
<1>1. fetch \in [Fetches -> Requests] /\ \A g \in Fetches : fetch[g].rows = <<>>
  BY InitRequests
<1>2. Len(<<>>) = 0 /\ PageSize >= 0
  BY Sizes
<1>3. fetch \in [Fetches -> Requests] /\ \A g \in Fetches : Len(fetch[g].rows) <= PageSize
  BY <1>1, <1>2
<1>4. list \in Rows
  BY DEF Init, Rows
<1>5. key \in [Jobs -> -1 .. now] /\ now \in 0 .. MaxTime
  BY Bounds DEF Init
<1>6. key \in [Jobs -> -1 .. MaxTime] /\ \A j \in Jobs : key[j] <= now
  BY <1>5, Bounds
<1>7. Clocked
  BY <1>5, <1>6, Ids DEF Init, Clocked
<1>8. /\ view \in {"dashboard", "dlq", "api"} /\ table \subseteq Jobs /\ dead \in [Jobs -> BOOLEAN]
      /\ changes \in 0 .. MaxChanges /\ refetches \in 0 .. MaxRefetches
  BY Ids, Bounds DEF Init
<1>9. inbox = {} /\ ids = {} /\ unrendered = {} /\ brought = {} /\ base = {} /\ missed = {}
  BY DEF Init
<1>10. /\ nextCursor = NoCursor /\ loading \in BOOLEAN /\ loadingMore \in BOOLEAN /\ mixed \in BOOLEAN
  BY DEF Init
<1> QED
  BY <1>3, <1>4, <1>5, <1>6, <1>7, <1>8, <1>9, <1>10 DEF TypeInv, TypeOK

LEMMA TableTypes ==
  ASSUME TypeInv, NEW j \in Jobs, Stamp(j) \/ Commit(j) \/ Change(j)
  PROVE  TypeInv'
<1>1. CASE Stamp(j)
  <2>1. now' \in 0 .. MaxTime /\ now <= now' /\ key' = [key EXCEPT ![j] = now'] /\ key[j] = -1
    BY <1>1, Bounds DEF Stamp, TypeInv, TypeOK
  <2>2. key' \in [Jobs -> -1 .. MaxTime]
    BY <2>1, Bounds DEF TypeInv, TypeOK
  <2>3. Clocked'
    BY <1>1, <2>1, Bounds DEF Stamp, Clocked, TypeInv, TypeOK
  <2> QED
    BY <1>1, <2>1, <2>2, <2>3 DEF Stamp, TypeInv, TypeOK, page, history
<1>2. CASE Commit(j)
  <2>1. key[j] >= 0
    BY <1>2, Bounds DEF Commit, TypeInv, TypeOK
  <2> QED
    BY <1>2, <2>1 DEF Commit, TypeInv, TypeOK, Clocked, page, history
<1>3. CASE Change(j)
  <2>1. /\ fetch' \in [Fetches -> Requests]
        /\ \A g \in Fetches : fetch'[g].rows = fetch[g].rows
    BY <1>3, ChangedRequests DEF TypeInv
  <2>2. /\ changes' \in 0 .. MaxChanges /\ dead' \in [Jobs -> BOOLEAN]
        /\ base' \subseteq Jobs /\ UNCHANGED <<view, table, page, refetches, brought, mixed, missed>>
    BY <1>3, Bounds DEF Change, TypeInv, TypeOK
  <2>3. inbox' \subseteq [job : Jobs, dead : BOOLEAN, at : 0 .. MaxChanges]
    <3>1. inbox \subseteq [job : Jobs, dead : BOOLEAN, at : 0 .. MaxChanges]
      BY DEF TypeInv, TypeOK
    <3>2. changes \in 0 .. MaxChanges /\ (~ dead[j]) \in BOOLEAN
      BY DEF TypeInv, TypeOK
    <3>3. [job |-> j, dead |-> ~ dead[j], at |-> changes] \in [job : Jobs, dead : BOOLEAN, at : 0 .. MaxChanges]
      BY <3>2
    <3>4. inbox' = inbox \/ inbox' = inbox \cup {[job |-> j, dead |-> ~ dead[j], at |-> changes]}
      BY <1>3 DEF Change
    <3> QED
      BY <3>1, <3>3, <3>4
  <2>4. now' \in 0 .. MaxTime /\ key' \in [Jobs -> -1 .. MaxTime] /\ Clocked'
    <3>1. CASE view = "api"
      <4>1. now' \in 0 .. MaxTime /\ now <= now' /\ key' = [key EXCEPT ![j] = now'] /\ table' = table
        BY <1>3, <3>1, Bounds DEF Change, TypeInv, TypeOK
      <4> QED
        BY <4>1, Bounds DEF Clocked, TypeInv, TypeOK
    <3>2. CASE view # "api"
      BY <1>3, <3>2 DEF Change, Clocked, TypeInv, TypeOK
    <3> QED
      BY <3>1, <3>2
  <2> QED
    BY <2>1, <2>2, <2>3, <2>4 DEF TypeInv, TypeOK, page
<1> QED
  BY <1>1, <1>2, <1>3

LEMMA ReadTypes ==
  ASSUME TypeInv, NEW f \in Fetches, Read(f)
  PROVE  TypeInv'
<1>1. PICK data \in Seq(Jobs), next \in Cursors \cup {NoCursor} :
        /\ IsPage(After(fetch[f].cursor), data, next)
        /\ fetch'[f] = Reply(f, data, next)
        /\ \A g \in Fetches : g # f => fetch'[g] = fetch[g]
        /\ fetch' \in [Fetches -> Requests]
  BY ReadReplies DEF TypeInv
<1>2. Len(fetch'[f].rows) <= PageSize
  BY <1>1 DEF IsPage, Reply
<1>3. UNCHANGED <<view, server, inbox, page, refetches, history>>
  BY DEF Read
<1> QED
  BY <1>1, <1>2, <1>3 DEF TypeInv, TypeOK, Clocked, server, page, history

\* A new request.
LEMMA AskTypes ==
  ASSUME TypeInv, NEW f \in Fetches, NEW cursor \in Cursors \cup {NoCursor}, NEW append \in BOOLEAN
  PROVE  LET asked == [fetch EXCEPT ![f] = Asked(cursor, append)] IN
         /\ asked \in [Fetches -> Requests]
         /\ \A g \in Fetches : Len(asked[g].rows) <= PageSize
<1>1. Asked(cursor, append) \in Requests /\ Asked(cursor, append).rows = <<>> /\ PageSize >= 0
  BY AskedRequest, Sizes
<1> QED
  BY <1>1 DEF TypeInv, TypeOK

LEMMA ClientTypes ==
  ASSUME TypeInv, NEW f \in Fetches,
         \/ OnSubmitted(f) \/ HandleCancel(f) \/ OnRetried(f) \/ LoadMore(f)
         \/ Replace(f) \/ Extend(f) \/ Fail(f)
  PROVE  TypeInv'
<1>1. fetch[f] \in Requests /\ NoFetch \in Requests /\ Len(NoFetch.rows) = 0 /\ PageSize \in Nat
  BY AskedRequest, Sizes DEF TypeInv, TypeOK, NoFetch
<1>2. CASE UserRefetch(f)
  <2>1. fetch' \in [Fetches -> Requests] /\ \A g \in Fetches : Len(fetch'[g].rows) <= PageSize
    BY <1>2, AskTypes DEF UserRefetch, Refetch
  <2> QED
    <3>1. /\ refetches' \in 0 .. MaxRefetches /\ loading' \in BOOLEAN
          /\ UNCHANGED <<view, server, inbox, list, ids, unrendered, nextCursor, loadingMore, history>>
      BY <1>2, Bounds DEF UserRefetch, Refetch, TypeInv, TypeOK
    <3> QED
      BY <2>1, <3>1 DEF TypeInv, TypeOK, Clocked, server, history
<1>3. CASE LoadMore(f)
  <2>1. fetch' \in [Fetches -> Requests] /\ \A g \in Fetches : Len(fetch'[g].rows) <= PageSize
    BY <1>3, AskTypes DEF LoadMore, TypeInv, TypeOK
  <2> QED
    BY <1>3, <2>1 DEF LoadMore, TypeInv, TypeOK, Clocked, server, history
<1>4. CASE Replace(f)
  <2>1. fetch' \in [Fetches -> Requests] /\ \A g \in Fetches : Len(fetch'[g].rows) <= PageSize
    <3>1. /\ fetch' \in [Fetches -> Requests] /\ fetch'[f] = NoFetch
          /\ \A g \in Fetches : g # f => fetch'[g].rows = fetch[g].rows
      BY <1>4, ReplacedRequests DEF TypeInv
    <3> QED
      BY <1>1, <3>1 DEF TypeInv, TypeOK
  <2>2. /\ list' = fetch[f].rows /\ nextCursor' = fetch[f].next
        /\ ids' = JobsOf(fetch[f].rows) /\ brought' = JobsOf(fetch[f].rows)
        /\ loading' = FALSE /\ loadingMore' = loadingMore
        /\ base' = fetch[f].base \ fetch[f].skipped /\ mixed' = FALSE /\ missed' = fetch[f].missed
        /\ UNCHANGED <<view, server, inbox, unrendered, refetches>>
    BY <1>4 DEF Replace, Done, Kept
  <2>3. ids' \subseteq Jobs /\ brought' \subseteq Jobs
    BY <1>1, <2>2, RowTypes DEF Requests
  <2> QED
    BY <1>1, <2>1, <2>2, <2>3 DEF Requests, TypeInv, TypeOK, Clocked, server
<1>5. CASE Extend(f)
  <2>1. fetch' = [fetch EXCEPT ![f] = NoFetch]
    BY <1>5 DEF Extend
  <2>2. fetch' \in [Fetches -> Requests] /\ \A g \in Fetches : Len(fetch'[g].rows) <= PageSize
    BY <1>1, <2>1 DEF TypeInv, TypeOK
  <2>3. list' \in Rows
    BY <1>5, ExtendedList DEF TypeInv
  <2>4. /\ brought' = brought \cup JobsOf(fetch[f].rows) /\ nextCursor' = fetch[f].next
        /\ unrendered' \subseteq unrendered \cup JobsOf(fetch[f].rows)
        /\ loading' = loading /\ loadingMore' = FALSE
        /\ base' = base \ fetch[f].skipped /\ mixed' = (mixed \/ fetch[f].stale)
        /\ missed' = missed \cup fetch[f].missed
        /\ UNCHANGED <<view, server, inbox, ids, refetches>>
    BY <1>5 DEF Extend, Done, Kept
  <2>5. JobsOf(fetch[f].rows) \subseteq Jobs
    BY <1>1, RowTypes DEF Requests
  <2> QED
    BY <1>1, <2>2, <2>3, <2>4, <2>5 DEF Requests, TypeInv, TypeOK, Clocked, server
<1>6. CASE Fail(f)
  <2>1. fetch' \in [Fetches -> Requests] /\ \A g \in Fetches : Len(fetch'[g].rows) <= PageSize
    BY <1>1, <1>6 DEF Fail, TypeInv, TypeOK
  <2> QED
    BY <1>6, <2>1 DEF Fail, Done, TypeInv, TypeOK, Clocked, server, history
<1> QED
  BY <1>2, <1>3, <1>4, <1>5, <1>6 DEF OnSubmitted, HandleCancel, OnRetried

LEMMA MessageTypes ==
  ASSUME TypeInv, NEW msg \in inbox, Patch(msg) \/ Drop(msg) \/ \E f \in Fetches : Reload(msg, f)
  PROVE  TypeInv'
<1>1. msg \in [job : Jobs, dead : BOOLEAN, at : 0 .. MaxChanges] /\ msg.job \in Jobs /\ msg.dead \in BOOLEAN
  BY DEF TypeInv, TypeOK
<1>2. /\ inbox' \subseteq inbox /\ missed' \subseteq Jobs
      /\ UNCHANGED <<view, server, unrendered, nextCursor, loadingMore, refetches, base, brought, mixed>>
  BY <1>1 DEF Patch, Reload, Receive, Drop, page, TypeInv, TypeOK
<1>3. ASSUME NEW fetches \in [Fetches -> Requests], fetch' = Overtake(msg.job, fetches),
             \A g \in Fetches : Len(fetches[g].rows) <= PageSize
      PROVE  fetch' \in [Fetches -> Requests] /\ \A g \in Fetches : Len(fetch'[g].rows) <= PageSize
  BY <1>1, <1>3, Overtaken
<1>4. fetch' \in [Fetches -> Requests] /\ \A g \in Fetches : Len(fetch'[g].rows) <= PageSize
  <2>1. CASE Patch(msg) \/ Drop(msg)
    BY <1>3, <2>1 DEF Patch, Drop, TypeInv, TypeOK
  <2>2. ASSUME NEW f \in Fetches, Reload(msg, f)
        PROVE  fetch' \in [Fetches -> Requests] /\ \A g \in Fetches : Len(fetch'[g].rows) <= PageSize
    BY <1>3, <2>2, AskTypes DEF Reload
  <2> QED
    BY <2>1, <2>2
<1>5. list' \in Rows /\ ids' \subseteq Jobs /\ loading' \in BOOLEAN
  <2>1. CASE Patch(msg) /\ view = "dashboard"
    BY <1>1, <2>1, UpdatedRows DEF Patch, TypeInv, TypeOK
  <2>2. CASE Patch(msg) /\ view # "dashboard"
    <3>1. RemoveJob(msg.job) /\ loading' = loading
      BY <2>2 DEF Patch
    <3>2. list' \in Rows
      BY <1>1, <3>1, RemovedRow DEF TypeInv
    <3> QED
      BY <3>1, <3>2 DEF RemoveJob, IdsWithout, TypeInv, TypeOK
  <2>3. CASE Drop(msg) \/ \E f \in Fetches : Reload(msg, f)
    BY <2>3 DEF Drop, Reload, page, TypeInv, TypeOK
  <2> QED
    BY <2>1, <2>2, <2>3
<1> QED
  BY <1>2, <1>4, <1>5 DEF TypeInv, TypeOK, Clocked, server

LEMMA RenderTypes ==
  ASSUME TypeInv, Render
  PROVE  TypeInv'
  BY DEF Render, TypeInv, TypeOK, Clocked, server, history

LEMMA StepTypes == TypeInv /\ [Next]_vars => TypeInv'
<1> SUFFICES ASSUME TypeInv, [Next]_vars
             PROVE  TypeInv'
  OBVIOUS
<1>1. CASE UNCHANGED vars
  BY <1>1 DEF vars, server, page, history, TypeInv, TypeOK, Clocked
<1>2. CASE Next
  BY <1>2, TableTypes, ReadTypes, ClientTypes, RenderTypes, MessageTypes DEF Next
<1> QED
  BY <1>1, <1>2

\* The variables keep their types, and a reply has at most a page of rows, for
\* any number of jobs and requests and any page size (job.service.ts:93-110,
\* dlq.routes.ts:20-38).
THEOREM TypeCorrect == Spec => []TypeOK
<1>1. TypeInv => TypeOK
  BY DEF TypeInv
<1> QED
  BY <1>1, InitTypes, StepTypes, PTL DEF Spec

-----------------------------------------------------------------------------
(* Requests: what is known of them, and which of them is current. *)

LEMMA UserAsks ==
  ASSUME TypeInv, NEW f \in Fetches, UserRefetch(f)
  PROVE  /\ First(fetch'[f]) /\ Idle(fetch[f])
         /\ \A g \in Fetches : g # f => fetch'[g] = fetch[g]
         /\ UNCHANGED <<view, server, inbox, list, ids, unrendered, nextCursor, loadingMore, history>>
<1>1. First(Asked(NoCursor, FALSE))
  BY AskedFirst
<1>2. fetch' = [fetch EXCEPT ![f] = Asked(NoCursor, FALSE)] /\ fetch[f] = NoFetch
  BY DEF UserRefetch, Refetch
<1> QED
  BY <1>1, <1>2, NoFetchIsIdle DEF UserRefetch, TypeInv, TypeOK

LEMMA MoreAsked ==
  ASSUME TypeInv, NEW f \in Fetches, LoadMore(f)
  PROVE  /\ fetch'[f].pc = "sent" /\ fetch'[f].append = TRUE /\ fetch'[f].cursor = nextCursor
         /\ fetch'[f].rows = <<>> /\ fetch'[f].base = {} /\ fetch'[f].stale = FALSE
         /\ Idle(fetch[f])
         /\ \A g \in Fetches : g # f => fetch'[g] = fetch[g]
         /\ nextCursor # NoCursor /\ loadingMore = FALSE /\ loadingMore' = TRUE
         /\ UNCHANGED <<view, server, inbox, list, ids, unrendered, nextCursor, history>>
<1>1. /\ Asked(nextCursor, TRUE).pc = "sent" /\ Asked(nextCursor, TRUE).append = TRUE
      /\ Asked(nextCursor, TRUE).cursor = nextCursor /\ Asked(nextCursor, TRUE).rows = <<>>
      /\ Asked(nextCursor, TRUE).base = {} /\ Asked(nextCursor, TRUE).stale = FALSE
  <2>1. nextCursor \in Cursors \cup {NoCursor} /\ TRUE \in BOOLEAN
    BY DEF TypeInv, TypeOK
  <2> DEFINE r == Asked(nextCursor, TRUE)
  <2>2. r = [pc |-> "sent", append |-> TRUE, cursor |-> nextCursor, rows |-> <<>>, next |-> NoCursor,
             base |-> {}, skipped |-> {}, missed |-> {}, stale |-> FALSE]
    BY <2>1, AskedRequest
  <2> HIDE DEF r
  <2>3. /\ r.pc = "sent" /\ r.append = TRUE /\ r.cursor = nextCursor /\ r.rows = <<>>
        /\ r.base = {} /\ r.stale = FALSE
    BY <2>2
  <2> QED
    BY <2>3 DEF r
<1>2. fetch' = [fetch EXCEPT ![f] = Asked(nextCursor, TRUE)] /\ fetch[f] = NoFetch
  BY DEF LoadMore
<1> QED
  BY <1>1, <1>2, NoFetchIsIdle DEF LoadMore, Button, TypeInv, TypeOK

\* What a message does to the requests.
LEMMA MessageRequests ==
  ASSUME TypeInv, NEW msg \in inbox, Patch(msg) \/ Drop(msg) \/ \E f \in Fetches : Reload(msg, f)
  PROVE  /\ \A g \in Fetches :
              \/ /\ Like(fetch'[g], fetch[g]) /\ fetch'[g].stale = fetch[g].stale
                 /\ fetch'[g].base = fetch[g].base /\ fetch[g].missed \subseteq fetch'[g].missed
                 /\ fetch[g].pc = "read" => msg.job \in fetch'[g].missed
              \/ Idle(fetch[g]) /\ First(fetch'[g])
         /\ inbox' = inbox \ {msg} /\ msg.job \in Jobs /\ msg.dead \in BOOLEAN
         /\ UNCHANGED <<view, server, unrendered, nextCursor, loadingMore, base, brought, mixed>>
<1>1. msg.job \in Jobs /\ msg.dead \in BOOLEAN /\ fetch \in [Fetches -> Requests]
  BY DEF TypeInv, TypeOK
<1>2. /\ inbox' = inbox \ {msg}
      /\ UNCHANGED <<view, server, unrendered, nextCursor, loadingMore, base, brought, mixed>>
  BY DEF Patch, Reload, Drop, Receive, page
<1>3. CASE Patch(msg) \/ Drop(msg)
  <2>1. fetch' = Overtake(msg.job, fetch)
    BY <1>3 DEF Patch, Drop
  <2> QED
    BY <1>1, <1>2, <2>1, Overtaken DEF Like
<1>4. ASSUME NEW f \in Fetches, Reload(msg, f)
      PROVE  \A g \in Fetches :
              \/ /\ Like(fetch'[g], fetch[g]) /\ fetch'[g].stale = fetch[g].stale
                 /\ fetch'[g].base = fetch[g].base /\ fetch[g].missed \subseteq fetch'[g].missed
                 /\ fetch[g].pc = "read" => msg.job \in fetch'[g].missed
              \/ Idle(fetch[g]) /\ First(fetch'[g])
  <2> DEFINE fetches == [fetch EXCEPT ![f] = Asked(NoCursor, FALSE)]
  <2>1. fetches \in [Fetches -> Requests] /\ fetch' = Overtake(msg.job, fetches) /\ fetch[f] = NoFetch
    BY <1>4, AskTypes DEF Reload
  <2>2. fetches[f] = Asked(NoCursor, FALSE) /\ \A g \in Fetches : g # f => fetches[g] = fetch[g]
    BY <1>1
  <2>3. First(fetches[f]) /\ Idle(fetch[f])
    <3>1. First(Asked(NoCursor, FALSE)) /\ Idle(NoFetch)
      BY AskedFirst, NoFetchIsIdle
    <3> QED
      BY <2>1, <2>2, <3>1
  <2> HIDE DEF fetches
  <2>4. ASSUME NEW g \in Fetches, g # f
        PROVE  /\ Like(fetch'[g], fetch[g]) /\ fetch'[g].stale = fetch[g].stale
               /\ fetch'[g].base = fetch[g].base /\ fetch[g].missed \subseteq fetch'[g].missed
               /\ fetch[g].pc = "read" => msg.job \in fetch'[g].missed
    BY <1>1, <2>1, <2>2, <2>4, Overtaken DEF Like
  <2>5. First(fetch'[f])
    BY <1>1, <2>1, <2>3, Overtaken DEF First
  <2> QED
    BY <2>3, <2>4, <2>5
<1> QED
  BY <1>1, <1>2, <1>3, <1>4

ShapeInv == TypeInv /\ Visible /\ OneMore /\ Current

LEMMA InitShape == Init => ShapeInv
<1> SUFFICES ASSUME Init
             PROVE  Visible /\ OneMore /\ Current
  BY InitTypes DEF ShapeInv
<1>1. \A g \in Fetches : fetch[g].rows = <<>> /\ (First(fetch[g]) \/ Idle(fetch[g]))
  BY InitRequests
<1>2. JobsOf(<<>>) = {}
  BY DEF JobsOf
<1>3. Visible
  <2>1. \A g \in Fetches : JobsOf(fetch[g].rows) = {} /\ fetch[g].base = {}
    BY <1>1, <1>2 DEF First, Idle
  <2> QED
    BY <2>1 DEF Init, Visible
<1>4. OneMore
  BY <1>1 DEF OneMore, First, Idle
<1>5. Current
  BY <1>1 DEF Current, First, Idle
<1> QED
  BY <1>3, <1>4, <1>5

\* The table only gains jobs.
LEMMA TableShape ==
  ASSUME ShapeInv, NEW j \in Jobs, Stamp(j) \/ Commit(j) \/ Change(j)
  PROVE  /\ Visible' /\ OneMore' /\ Current'
         /\ table \subseteq table' /\ base' \subseteq base
         /\ \A g \in Fetches :
              /\ Like(fetch'[g], fetch[g]) /\ fetch'[g].stale = fetch[g].stale
              /\ fetch'[g].missed = fetch[g].missed
         /\ UNCHANGED <<view, page, brought, mixed, missed>>
<1>1. /\ \A g \in Fetches :
           /\ Like(fetch'[g], fetch[g]) /\ fetch'[g].stale = fetch[g].stale
           /\ fetch'[g].missed = fetch[g].missed
      /\ table \subseteq table' /\ base' \subseteq base
      /\ UNCHANGED <<view, page, brought, mixed, missed>>
  <2>1. CASE Stamp(j) \/ Commit(j)
    <3>1. fetch' = fetch /\ base' = base /\ table \subseteq table'
      BY <2>1 DEF Stamp, Commit, history
    <3>2. UNCHANGED <<view, page, brought, mixed, missed>>
      BY <2>1 DEF Stamp, Commit, history
    <3> QED
      BY <3>1, <3>2 DEF Like
  <2>2. CASE Change(j)
    <3>1. TypeOK
      BY DEF ShapeInv, TypeInv
    <3>2. \A g \in Fetches :
            /\ Like(fetch'[g], fetch[g]) /\ fetch'[g].stale = fetch[g].stale
            /\ fetch'[g].missed = fetch[g].missed
      BY <2>2, <3>1, ChangedRequests DEF Like
    <3>3. table' = table /\ base' \subseteq base /\ UNCHANGED <<view, page, brought, mixed, missed>>
      BY <2>2 DEF Change
    <3> QED
      BY <3>2, <3>3
  <2> QED
    BY <2>1, <2>2
<1>2. base' \subseteq Matching' /\ \A g \in Fetches : fetch'[g].base \subseteq Matching'
  <2>1. CASE Stamp(j) \/ Commit(j)
    <3>1. base' = base /\ fetch' = fetch /\ view' = view /\ dead' = dead /\ table \subseteq table'
      BY <2>1 DEF Stamp, Commit, history
    <3>2. Matching \subseteq Matching'
      BY <3>1 DEF Matching
    <3> QED
      BY <3>1, <3>2 DEF ShapeInv, Visible
  <2>2. CASE Change(j)
    <3>1. base' = base \ {j} /\ \A g \in Fetches : fetch'[g].base = fetch[g].base \ {j}
      BY <2>2, ChangedRequests DEF Change, ShapeInv, TypeInv
    <3>2. Matching \ {j} \subseteq Matching'
      BY <2>2 DEF Change, Matching, ShapeInv, TypeInv, TypeOK
    <3> QED
      BY <3>1, <3>2 DEF ShapeInv, Visible
  <2> QED
    BY <2>1, <2>2
<1> QED
  BY <1>1, <1>2 DEF ShapeInv, Visible, OneMore, Current, Like, Active, page

LEMMA Rendered ==
  ASSUME Render
  PROVE  /\ UNCHANGED <<view, server, inbox, list, nextCursor, loadingMore, fetch, history>>
         /\ ids' \cup unrendered' = ids \cup unrendered
  BY DEF Render

\* The three ends of a request.
LEMMA Replaced ==
  ASSUME TypeInv, NEW f \in Fetches, Replace(f)
  PROVE  /\ fetch[f].pc = "read" /\ fetch[f].append = FALSE /\ Idle(fetch'[f])
         /\ \A g \in Fetches : g # f =>
              /\ Like(fetch'[g], fetch[g]) /\ fetch'[g].base = fetch[g].base
              /\ fetch'[g].missed = fetch[g].missed
              /\ fetch'[g].stale = (fetch[g].stale \/ fetch[g].append)
         /\ list' = fetch[f].rows /\ nextCursor' = fetch[f].next
         /\ ids' = JobsOf(fetch[f].rows) /\ brought' = JobsOf(fetch[f].rows)
         /\ loadingMore' = loadingMore /\ base' = fetch[f].base \ fetch[f].skipped
         /\ mixed' = FALSE /\ missed' = fetch[f].missed
         /\ UNCHANGED <<view, server, inbox>>
<1>1. /\ \A g \in Fetches : g # f =>
              /\ Like(fetch'[g], fetch[g]) /\ fetch'[g].base = fetch[g].base
              /\ fetch'[g].missed = fetch[g].missed
              /\ fetch'[g].stale = (fetch[g].stale \/ fetch[g].append)
      /\ fetch'[f] = NoFetch
  <2>1. /\ fetch' \in [Fetches -> Requests] /\ fetch \in [Fetches -> Requests] /\ fetch'[f] = NoFetch
        /\ \A g \in Fetches : g # f =>
              /\ fetch'[g].pc = fetch[g].pc /\ fetch'[g].append = fetch[g].append
              /\ fetch'[g].cursor = fetch[g].cursor /\ fetch'[g].rows = fetch[g].rows
              /\ fetch'[g].next = fetch[g].next /\ fetch'[g].base = fetch[g].base
              /\ fetch'[g].skipped = fetch[g].skipped /\ fetch'[g].missed = fetch[g].missed
              /\ fetch'[g].stale <=> (fetch[g].stale \/ fetch[g].append)
    BY ReplacedRequests DEF TypeInv, TypeOK
  <2>2. \A g \in Fetches : fetch'[g].stale \in BOOLEAN
    BY <2>1 DEF Requests
  <2> QED
    BY <2>1, <2>2 DEF Like
<1>2. fetch[f].append = FALSE
  BY DEF Replace, TypeInv, TypeOK, Requests
<1> QED
  BY <1>1, <1>2, NoFetchIsIdle DEF Replace, Done, Kept

LEMMA Extended ==
  ASSUME TypeInv, NEW f \in Fetches, Extend(f)
  PROVE  /\ fetch[f].pc = "read" /\ fetch[f].append = TRUE /\ Idle(fetch'[f])
         /\ \A g \in Fetches : g # f => fetch'[g] = fetch[g]
         /\ view # "api" => unrendered' = unrendered \cup JobsOf(fetch[f].rows)
         /\ brought' = brought \cup JobsOf(fetch[f].rows) /\ nextCursor' = fetch[f].next
         /\ loadingMore' = FALSE /\ base' = base \ fetch[f].skipped
         /\ mixed' = (mixed \/ fetch[f].stale) /\ missed' = missed \cup fetch[f].missed
         /\ UNCHANGED <<view, server, inbox, ids>>
<1>1. fetch[f].append = TRUE
  BY DEF Extend, TypeInv, TypeOK, Requests
<1>2. fetch'[f] = NoFetch /\ \A g \in Fetches : g # f => fetch'[g] = fetch[g]
  BY DEF Extend, TypeInv, TypeOK
<1> QED
  BY <1>1, <1>2, NoFetchIsIdle DEF Extend, Done, Kept

LEMMA Failed ==
  ASSUME TypeInv, NEW f \in Fetches, Fail(f)
  PROVE  /\ Idle(fetch'[f])
         /\ \A g \in Fetches : g # f => fetch'[g] = fetch[g]
         /\ loadingMore' = IF fetch[f].append THEN FALSE ELSE loadingMore
         /\ UNCHANGED <<view, server, inbox, list, ids, unrendered, nextCursor, history>>
<1>1. fetch'[f] = NoFetch /\ \A g \in Fetches : g # f => fetch'[g] = fetch[g]
  BY DEF Fail, TypeInv, TypeOK
<1> QED
  BY <1>1, NoFetchIsIdle DEF Fail, Done

\* Rows of a reply are visible.
LEMMA ReadShape ==
  ASSUME ShapeInv, NEW f \in Fetches, Read(f)
  PROVE  Visible' /\ OneMore' /\ Current'
<1>1. PICK data \in Seq(Jobs), next \in Cursors \cup {NoCursor} :
        /\ IsPage(After(fetch[f].cursor), data, next)
        /\ fetch'[f] = Reply(f, data, next)
        /\ \A g \in Fetches : g # f => fetch'[g] = fetch[g]
  BY ReadReplies DEF ShapeInv, TypeInv
<1>2. UNCHANGED <<view, server, inbox, page, history>> /\ fetch[f].pc = "sent"
  BY DEF Read
<1>3. /\ fetch'[f].pc = "read" /\ fetch'[f].append = fetch[f].append
      /\ fetch'[f].base = (IF fetch[f].append THEN {} ELSE Matching)
      /\ fetch'[f].stale = fetch[f].stale
      /\ fetch'[f].rows = [n \in 1 .. Len(data) |-> [job |-> data[n], dead |-> dead[data[n]]]]
  BY <1>1 DEF Reply
<1>4. Matching' = Matching /\ Matching \subseteq table
  BY <1>2 DEF Matching, server
<1>5. data \in Seq(After(fetch[f].cursor)) /\ Len(data) \in Nat
  BY <1>1 DEF IsPage
<1>6. \A n \in 1 .. Len(data) : data[n] \in table
  BY <1>4, <1>5 DEF After
<1>7. JobsOf(fetch'[f].rows) \subseteq table
  BY <1>3, <1>6 DEF JobsOf
<1>8. \A g \in Fetches : JobsOf(fetch'[g].rows) \subseteq table /\ fetch'[g].base \subseteq Matching
  BY <1>1, <1>3, <1>7 DEF ShapeInv, Visible
<1>9. Visible'
  BY <1>2, <1>4, <1>8 DEF ShapeInv, Visible, page, server, history
<1>10. OneMore'
  BY <1>1, <1>2, <1>3 DEF ShapeInv, OneMore, Active, page
<1>11. Current'
  BY <1>1, <1>2, <1>3 DEF ShapeInv, Current, page
<1> QED
  BY <1>9, <1>10, <1>11

\* Lists and requests that gain nothing show nothing new.
LEMMA VisibleStays ==
  ASSUME Visible, brought' \subseteq table, base' \subseteq Matching, table' = table, Matching' = Matching,
         \A g \in Fetches : \/ fetch'[g].rows = fetch[g].rows /\ fetch'[g].base = fetch[g].base
                            \/ fetch'[g].rows = <<>> /\ fetch'[g].base = {}
  PROVE  Visible'
<1>1. JobsOf(<<>>) = {}
  BY DEF JobsOf
<1>2. \A g \in Fetches : JobsOf(fetch'[g].rows) \subseteq table /\ fetch'[g].base \subseteq Matching
  BY <1>1 DEF Visible
<1> QED
  BY <1>2 DEF Visible

LEMMA ClientShape ==
  ASSUME ShapeInv, NEW f \in Fetches,
         UserRefetch(f) \/ LoadMore(f) \/ Replace(f) \/ Extend(f) \/ Fail(f)
  PROVE  Visible' /\ OneMore' /\ Current'
<1>1. view' = view /\ server' = server /\ table' = table /\ dead' = dead
  BY DEF UserRefetch, LoadMore, Replace, Extend, Fail, server
<1>2. Matching' = Matching
  BY <1>1 DEF Matching
<1>3. /\ brought \subseteq table /\ base \subseteq Matching /\ Visible /\ TypeInv
      /\ \A g \in Fetches : JobsOf(fetch[g].rows) \subseteq table /\ fetch[g].base \subseteq Matching
  BY DEF ShapeInv, Visible
<1>4. \A g \in Fetches : fetch[g].append \in BOOLEAN /\ fetch[g].stale \in BOOLEAN
  BY DEF ShapeInv, TypeInv, TypeOK, Requests
<1>5. CASE UserRefetch(f)
  <2>1. /\ First(fetch'[f]) /\ Idle(fetch[f]) /\ \A g \in Fetches : g # f => fetch'[g] = fetch[g]
        /\ brought' = brought /\ base' = base /\ nextCursor' = nextCursor /\ loadingMore' = loadingMore
    BY <1>3, <1>5, UserAsks DEF history
  <2>2. Visible'
    BY <1>1, <1>2, <1>3, <2>1, VisibleStays DEF First
  <2>3. OneMore'
    BY <2>1 DEF First, ShapeInv, OneMore, Active
  <2>4. Current'
    BY <2>1 DEF First, ShapeInv, Current
  <2> QED
    BY <2>2, <2>3, <2>4
<1>6. CASE LoadMore(f)
  <2>1. /\ fetch'[f].pc = "sent" /\ fetch'[f].append = TRUE /\ fetch'[f].cursor = nextCursor
        /\ fetch'[f].rows = <<>> /\ fetch'[f].base = {} /\ nextCursor # NoCursor
        /\ loadingMore = FALSE /\ loadingMore' = TRUE /\ \A g \in Fetches : g # f => fetch'[g] = fetch[g]
        /\ brought' = brought /\ base' = base /\ nextCursor' = nextCursor
    BY <1>3, <1>6, MoreAsked DEF history
  <2>2. \A g \in Fetches : fetch[g].append = FALSE
    BY <1>4, <2>1 DEF ShapeInv, OneMore
  <2>3. Visible'
    BY <1>1, <1>2, <1>3, <2>1, VisibleStays
  <2>4. OneMore'
    BY <2>1, <2>2 DEF OneMore, Active
  <2>5. Current'
    BY <2>1, <2>2 DEF ShapeInv, Current
  <2> QED
    BY <2>3, <2>4, <2>5
<1>7. CASE Replace(f)
  <2>1. /\ fetch[f].pc = "read" /\ fetch[f].append = FALSE /\ Idle(fetch'[f])
        /\ \A g \in Fetches : g # f => /\ Like(fetch'[g], fetch[g]) /\ fetch'[g].base = fetch[g].base
                                      /\ fetch'[g].stale = (fetch[g].stale \/ fetch[g].append)
        /\ brought' = JobsOf(fetch[f].rows) /\ base' = fetch[f].base \ fetch[f].skipped
        /\ loadingMore' = loadingMore
    BY <1>3, <1>7, Replaced
  <2>2. Visible'
    <3>1. brought' \subseteq table /\ base' \subseteq Matching
      BY <1>3, <2>1
    <3> QED
      BY <1>1, <1>2, <1>3, <2>1, <3>1, VisibleStays DEF Idle, Like
  <2>3. OneMore'
    BY <1>4, <2>1 DEF Idle, Like, ShapeInv, OneMore, Active
  <2>4. Current'
    BY <1>4, <2>1 DEF Idle, Like, ShapeInv, Current
  <2> QED
    BY <2>2, <2>3, <2>4
<1>8. CASE Extend(f)
  <2>1. /\ fetch[f].pc = "read" /\ fetch[f].append = TRUE /\ Idle(fetch'[f])
        /\ \A g \in Fetches : g # f => fetch'[g] = fetch[g]
        /\ brought' = brought \cup JobsOf(fetch[f].rows) /\ base' = base \ fetch[f].skipped
    BY <1>3, <1>8, Extended
  <2>2. \A g \in Fetches : g # f => fetch[g].append = FALSE
    BY <1>4, <2>1 DEF ShapeInv, OneMore
  <2>3. Visible'
    <3>1. brought' \subseteq table /\ base' \subseteq Matching
      BY <1>3, <2>1
    <3> QED
      BY <1>1, <1>2, <1>3, <2>1, <3>1, VisibleStays DEF Idle
  <2>4. OneMore'
    BY <2>1, <2>2 DEF Idle, OneMore, Active
  <2>5. Current'
    BY <2>1, <2>2 DEF Idle, ShapeInv, Current
  <2> QED
    BY <2>3, <2>4, <2>5
<1>9. CASE Fail(f)
  <2>1. /\ Idle(fetch'[f]) /\ \A g \in Fetches : g # f => fetch'[g] = fetch[g]
        /\ loadingMore' = IF fetch[f].append THEN FALSE ELSE loadingMore
        /\ brought' = brought /\ base' = base /\ nextCursor' = nextCursor
    BY <1>3, <1>9, Failed DEF history
  <2>2. fetch[f].append => \A g \in Fetches : g # f => fetch[g].append = FALSE
    BY <1>4 DEF ShapeInv, OneMore
  <2>3. Visible'
    BY <1>1, <1>2, <1>3, <2>1, VisibleStays DEF Idle
  <2>4. OneMore'
    BY <2>1, <2>2 DEF Idle, ShapeInv, OneMore, Active
  <2>5. Current'
    BY <2>1 DEF Idle, ShapeInv, Current
  <2> QED
    BY <2>3, <2>4, <2>5
<1> QED
  BY <1>5, <1>6, <1>7, <1>8, <1>9

LEMMA MessageShape ==
  ASSUME ShapeInv, NEW msg \in inbox, Patch(msg) \/ Drop(msg) \/ \E f \in Fetches : Reload(msg, f)
  PROVE  Visible' /\ OneMore' /\ Current'
<1>1. /\ \A g \in Fetches :
           \/ /\ Like(fetch'[g], fetch[g]) /\ fetch'[g].stale = fetch[g].stale
              /\ fetch'[g].base = fetch[g].base
           \/ Idle(fetch[g]) /\ First(fetch'[g])
      /\ UNCHANGED <<view, server, nextCursor, loadingMore, mixed>>
  BY MessageRequests DEF ShapeInv
<1>2. UNCHANGED <<base, brought>>
  BY MessageRequests DEF ShapeInv
<1>3. table' = table /\ Matching' = Matching
  BY <1>1 DEF Matching, server
<1>4. Visible'
  <2>1. Visible /\ brought' \subseteq table /\ base' \subseteq Matching
    BY <1>2 DEF ShapeInv, Visible
  <2>2. \A g \in Fetches : \/ fetch'[g].rows = fetch[g].rows /\ fetch'[g].base = fetch[g].base
                           \/ fetch'[g].rows = <<>> /\ fetch'[g].base = {}
    BY <1>1 DEF Like, First
  <2> QED
    BY <1>3, <2>1, <2>2, VisibleStays
<1>5. OneMore'
  BY <1>1 DEF ShapeInv, OneMore, Like, First, Idle, Active
<1>6. Current'
  BY <1>1 DEF ShapeInv, Current, Like, First
<1> QED
  BY <1>4, <1>5, <1>6

LEMMA StepShape == ShapeInv /\ [Next]_vars => ShapeInv'
<1> SUFFICES ASSUME ShapeInv, [Next]_vars
             PROVE  Visible' /\ OneMore' /\ Current'
  BY StepTypes DEF ShapeInv
<1>1. CASE UNCHANGED vars
  BY <1>1 DEF vars, server, page, history, ShapeInv, Visible, OneMore, Current, Active, Matching
<1>2. ASSUME NEW j \in Jobs, Stamp(j) \/ Commit(j) \/ Change(j)
      PROVE  Visible' /\ OneMore' /\ Current'
  BY <1>2, TableShape
<1>3. ASSUME NEW f \in Fetches, Read(f)
      PROVE  Visible' /\ OneMore' /\ Current'
  BY <1>3, ReadShape
<1>4. ASSUME NEW f \in Fetches, UserRefetch(f) \/ LoadMore(f) \/ Replace(f) \/ Extend(f) \/ Fail(f)
      PROVE  Visible' /\ OneMore' /\ Current'
  BY <1>4, ClientShape
<1>5. ASSUME NEW msg \in inbox, Patch(msg) \/ Drop(msg) \/ \E f \in Fetches : Reload(msg, f)
      PROVE  Visible' /\ OneMore' /\ Current'
  BY <1>5, MessageShape
<1>6. CASE Render
  <2>1. UNCHANGED <<view, server, nextCursor, loadingMore, fetch, history>>
    BY <1>6, Rendered
  <2> QED
    BY <2>1 DEF server, history, ShapeInv, Visible, OneMore, Current, Active, Matching
<1> QED
  BY <1>1, <1>2, <1>3, <1>4, <1>5, <1>6 DEF Next, OnSubmitted, HandleCancel, OnRetried

-----------------------------------------------------------------------------
(* A client that follows the cursors. *)

\* A cursor is not beyond the rows of its page, nor of the pages before.
LEMMA PageOfCursor ==
  ASSUME TypeInv, NEW cursor \in Cursors \cup {NoCursor}, NEW data, NEW next,
         IsPage(After(cursor), data, next)
  PROVE  /\ \A n \in 1 .. Len(data) : ~ Beyond(next, data[n])
         /\ \A n \in 1 .. Len(data) : cursor # NoCursor => Beyond(cursor, data[n])
         /\ \A i \in Jobs : cursor # NoCursor /\ ~ Beyond(cursor, i) => ~ Beyond(next, i)
<1>1. /\ data \in Seq(After(cursor)) /\ Len(data) \in Nat
      /\ \A n \in 1 .. Len(data) : data[n] \in After(cursor) /\ data[n] \in Jobs
  BY DEF IsPage, After, Matching, TypeInv, TypeOK
<1>2. \A n \in 1 .. Len(data) : cursor # NoCursor => Beyond(cursor, data[n])
  BY <1>1 DEF After, Beyond, Past
<1>3. CASE next = NoCursor
  BY <1>2, <1>3 DEF Beyond, Past
<1>4. CASE next # NoCursor
  <2> DEFINE last == data[PageSize]
  <2>1. /\ PageSize \in Nat /\ PageSize > 0 /\ Len(data) = PageSize
        /\ next = [ts |-> Truncated(key[last]), id |-> last]
    BY <1>4, Sizes DEF IsPage
  <2>2. last \in Jobs /\ last \in table /\ key[last] \in Nat
    BY <1>1, <2>1 DEF After, Matching, TypeInv, TypeOK, Clocked
  <2>3. next.ts \in Nat /\ next.ts <= key[last] /\ next.id = last
    BY <2>1, <2>2, TruncatedTime
  <2>4. \A i \in Jobs : key[i] \in Int /\ i \in Nat
    BY Ids DEF TypeInv, TypeOK
  <2>5. ASSUME NEW n \in 1 .. Len(data)
        PROVE  ~ Beyond(next, data[n])
    <3>1. n = PageSize \/ Before(data[n], last)
      BY <2>1 DEF IsPage
    <3> HIDE DEF last
    <3>2. data[n] \in Jobs
      BY <1>1
    <3> QED
      BY <2>1, <2>2, <2>3, <2>4, <3>1, <3>2 DEF Beyond, Past, Before, last
  <2>6. ASSUME NEW i \in Jobs, cursor # NoCursor, ~ Beyond(cursor, i)
        PROVE  ~ Beyond(next, i)
    <3>1. Beyond(cursor, last)
      BY <1>2, <2>1, <2>6
    <3>2. cursor.ts \in Nat /\ cursor.id \in Nat
      BY <2>6, CursorTypes
    <3> HIDE DEF last
    <3> QED
      BY <2>2, <2>3, <2>4, <2>6, <3>1, <3>2 DEF Beyond, Past
  <2> QED
    BY <1>2, <2>5, <2>6
<1> QED
  BY <1>3, <1>4

FollowInv == ShapeInv /\ OneByOne /\ Behind

LEMMA InitFollows == Init => FollowInv
<1> SUFFICES ASSUME Init
             PROVE  OneByOne /\ Behind
  BY InitShape DEF FollowInv
<1>1. PICK f \in Fetches : fetch = [g \in Fetches |-> IF g = f THEN Asked(NoCursor, FALSE) ELSE NoFetch]
  BY DEF Init
<1>2. First(fetch[f]) /\ \A g \in Fetches : g # f => Idle(fetch[g])
  BY <1>1, AskedFirst, NoFetchIsIdle
<1>3. view = "api" =>
        /\ inbox = {} /\ ~ mixed
        /\ \A g \in Fetches : ~ fetch[g].stale
        /\ \A g \in Fetches :
             (Active(g) /\ ~ fetch[g].append) =>
               /\ nextCursor = NoCursor /\ brought = {}
               /\ \A h \in Fetches : Active(h) => h = g
  BY <1>2 DEF Init, First, Idle, Active
<1>4. brought = {} /\ \A g \in Fetches : fetch[g].pc # "read"
  BY <1>2 DEF Init, First, Idle
<1> QED
  BY <1>3, <1>4 DEF OneByOne, Behind

\* Jobs that change, or are new, come before every cursor.
LEMMA TableFollows ==
  ASSUME FollowInv, NEW j \in Jobs, Stamp(j) \/ Commit(j) \/ Change(j)
  PROVE  OneByOne' /\ Behind'
<1>1. /\ \A g \in Fetches : Like(fetch'[g], fetch[g]) /\ fetch'[g].stale = fetch[g].stale
      /\ UNCHANGED <<view, page, brought, mixed>>
  BY TableShape DEF FollowInv
<1>2. view = "api" => inbox' = inbox
  BY DEF Stamp, Commit, Change
<1>3. ASSUME NEW i \in table, NEW cursor \in Cursors \cup {NoCursor}, ~ Beyond(cursor, i)
      PROVE  ~ Past(key', cursor, i)
  <2>1. i \in Jobs /\ key[i] \in Nat /\ key[i] <= now /\ now \in Nat /\ key \in [Jobs -> -1 .. MaxTime]
    BY Bounds DEF FollowInv, ShapeInv, TypeInv, TypeOK, Clocked
  <2>2. key'[i] \in Nat /\ key[i] <= key'[i]
    <3>1. key' = key \/ \E t \in now .. MaxTime : key' = [key EXCEPT ![j] = t]
      BY DEF Stamp, Commit, Change
    <3> QED
      BY <2>1, <3>1, Bounds
  <2>3. cursor # NoCursor => cursor.ts \in Nat /\ cursor.id \in Nat
    BY CursorTypes
  <2> QED
    BY <1>3, <2>1, <2>2, <2>3, Ids DEF Beyond, Past
<1>4. /\ brought \subseteq table /\ nextCursor \in Cursors \cup {NoCursor}
      /\ \A g \in Fetches : JobsOf(fetch[g].rows) \subseteq table /\ fetch[g].next \in Cursors \cup {NoCursor}
  BY DEF FollowInv, ShapeInv, Visible, TypeInv, TypeOK, Requests
<1>5. OneByOne /\ Behind
  BY DEF FollowInv
<1>6. ~ mixed => \A i \in brought : ~ Past(key', nextCursor, i)
  BY <1>3, <1>4, <1>5 DEF OneByOne, Behind
<1>7. ASSUME NEW g \in Fetches, fetch[g].pc = "read"
      PROVE  /\ \A i \in JobsOf(fetch[g].rows) : ~ Past(key', fetch[g].next, i)
             /\ (fetch[g].append /\ ~ fetch[g].stale /\ ~ mixed) =>
                  \A i \in brought : ~ Past(key', fetch[g].next, i) /\ i \notin JobsOf(fetch[g].rows)
  BY <1>3, <1>4, <1>5, <1>7 DEF OneByOne, Behind
<1> QED
  BY <1>1, <1>2, <1>5, <1>6, <1>7 DEF OneByOne, Behind, Like, Active, page, Beyond

\* A page follows its cursor, and the list is before the cursor.
LEMMA ReadFollows ==
  ASSUME FollowInv, NEW f \in Fetches, Read(f)
  PROVE  OneByOne' /\ Behind'
<1>1. PICK data \in Seq(Jobs), next \in Cursors \cup {NoCursor} :
        /\ IsPage(After(fetch[f].cursor), data, next)
        /\ fetch'[f] = Reply(f, data, next)
        /\ \A g \in Fetches : g # f => fetch'[g] = fetch[g]
  BY ReadReplies DEF FollowInv, ShapeInv, TypeInv
<1>2. UNCHANGED <<view, server, inbox, page, history>> /\ fetch[f].pc = "sent"
  BY DEF Read
<1>3. /\ fetch'[f].pc = "read" /\ fetch'[f].append = fetch[f].append
      /\ fetch'[f].stale = fetch[f].stale /\ fetch'[f].next = next
      /\ fetch'[f].rows = [n \in 1 .. Len(data) |-> [job |-> data[n], dead |-> dead[data[n]]]]
  BY <1>1 DEF Reply
<1>4. \A i : i \in JobsOf(fetch'[f].rows) <=> \E n \in 1 .. Len(data) : data[n] = i
  BY <1>3 DEF JobsOf
<1>5. fetch[f].cursor \in Cursors \cup {NoCursor} /\ brought \subseteq Jobs
  BY DEF FollowInv, ShapeInv, TypeInv, TypeOK, Requests
<1>6. /\ \A n \in 1 .. Len(data) : ~ Beyond(next, data[n])
      /\ \A n \in 1 .. Len(data) : fetch[f].cursor # NoCursor => Beyond(fetch[f].cursor, data[n])
      /\ \A i \in Jobs : fetch[f].cursor # NoCursor /\ ~ Beyond(fetch[f].cursor, i) => ~ Beyond(next, i)
  BY <1>1, <1>5, PageOfCursor DEF FollowInv, ShapeInv
<1>7. OneByOne /\ Behind /\ Current
  BY DEF FollowInv, ShapeInv
<1>8. \A c, i : Beyond(c, i)' = Beyond(c, i)
  BY <1>2 DEF Beyond, Past, server
<1>9. /\ \A i \in JobsOf(fetch'[f].rows) : ~ Beyond(next, i)
      /\ (fetch[f].append /\ ~ fetch[f].stale /\ ~ mixed) =>
           \A i \in brought : ~ Beyond(next, i) /\ i \notin JobsOf(fetch'[f].rows)
  <2>1. fetch[f].append /\ ~ fetch[f].stale => fetch[f].cursor = nextCursor /\ nextCursor # NoCursor
    BY <1>2, <1>7 DEF Current
  <2> QED
    BY <1>4, <1>5, <1>6, <1>7, <2>1 DEF OneByOne, Behind
<1>10. UNCHANGED <<view, inbox, brought, mixed, nextCursor, key>>
  BY <1>2 DEF page, server, history
<1>11. \A g \in Fetches : /\ Active(g)' <=> Active(g)
                          /\ fetch'[g].append = fetch[g].append /\ fetch'[g].stale = fetch[g].stale
  BY <1>1, <1>2, <1>3 DEF Active
<1>12. ASSUME NEW g \in Fetches, fetch'[g].pc = "read"
       PROVE  /\ \A i \in JobsOf(fetch'[g].rows) : ~ Beyond(fetch'[g].next, i)
              /\ (fetch'[g].append /\ ~ fetch'[g].stale /\ ~ mixed) =>
                   \A i \in brought : ~ Beyond(fetch'[g].next, i) /\ i \notin JobsOf(fetch'[g].rows)
  <2>1. CASE g = f
    BY <1>3, <1>9, <2>1
  <2>2. CASE g # f
    BY <1>1, <1>7, <1>12, <2>2 DEF OneByOne, Behind
  <2> QED
    BY <2>1, <2>2
<1> QED
  BY <1>7, <1>8, <1>10, <1>11, <1>12 DEF OneByOne, Behind

\* What is known stays so while no page comes.
LEMMA BehindStays ==
  ASSUME Behind, UNCHANGED <<key, brought, mixed, nextCursor>>,
         \A g \in Fetches : fetch'[g].pc = "read" =>
           /\ fetch[g].pc = "read" /\ fetch'[g].rows = fetch[g].rows /\ fetch'[g].next = fetch[g].next
           /\ fetch'[g].append = fetch[g].append /\ fetch'[g].stale = fetch[g].stale
  PROVE  Behind'
<1>1. \A c, i : Beyond(c, i)' <=> Beyond(c, i)
  BY DEF Beyond, Past
<1>2. ASSUME NEW g \in Fetches, fetch'[g].pc = "read"
      PROVE  /\ \A i \in JobsOf(fetch'[g].rows) : ~ Beyond(fetch'[g].next, i)
             /\ (fetch'[g].append /\ ~ fetch'[g].stale /\ ~ mixed) =>
                  \A i \in brought : ~ Beyond(fetch'[g].next, i) /\ i \notin JobsOf(fetch'[g].rows)
  BY <1>2 DEF Behind
<1> QED
  BY <1>1, <1>2 DEF Behind

LEMMA ClientBehind ==
  ASSUME FollowInv, NEW f \in Fetches,
         UserRefetch(f) \/ LoadMore(f) \/ Replace(f) \/ Extend(f) \/ Fail(f)
  PROVE  Behind'
<1>1. Behind /\ OneMore /\ TypeInv
  BY DEF FollowInv, ShapeInv
<1>2. CASE UserRefetch(f) \/ LoadMore(f) \/ Fail(f)
  <2>1. UNCHANGED <<server, nextCursor, history>>
    BY <1>1, <1>2, UserAsks, MoreAsked, Failed
  <2>2. \A g \in Fetches : fetch'[g].pc = "read" => fetch'[g] = fetch[g]
    BY <1>1, <1>2, UserAsks, MoreAsked, Failed DEF First, Idle
  <2>3. UNCHANGED <<key, brought, mixed, nextCursor>>
    BY <2>1 DEF server, history
  <2> QED
    BY <1>1, <2>2, <2>3, BehindStays
<1>3. CASE Replace(f)
  <2>1. /\ fetch[f].pc = "read" /\ Idle(fetch'[f])
        /\ \A g \in Fetches : g # f => /\ Like(fetch'[g], fetch[g])
                                      /\ fetch'[g].stale = (fetch[g].stale \/ fetch[g].append)
        /\ brought' = JobsOf(fetch[f].rows) /\ nextCursor' = fetch[f].next /\ UNCHANGED server
    BY <1>1, <1>3, Replaced
  <2>2. \A i \in brought' : ~ Beyond(nextCursor', i)
    BY <1>1, <2>1 DEF Behind
  <2>3. ASSUME NEW g \in Fetches, fetch'[g].pc = "read"
        PROVE  /\ \A i \in JobsOf(fetch'[g].rows) : ~ Beyond(fetch'[g].next, i)
               /\ ~ (fetch'[g].append /\ ~ fetch'[g].stale)
    BY <1>1, <2>1, <2>3 DEF Behind, Like, Idle
  <2>4. \A c, i : Beyond(c, i)' <=> Beyond(c, i)
    BY <2>1 DEF Beyond, Past, server
  <2> QED
    BY <2>2, <2>3, <2>4 DEF Behind
<1>4. CASE Extend(f)
  <2>1. /\ fetch[f].pc = "read" /\ fetch[f].append = TRUE /\ Idle(fetch'[f])
        /\ \A g \in Fetches : g # f => fetch'[g] = fetch[g]
        /\ brought' = brought \cup JobsOf(fetch[f].rows) /\ nextCursor' = fetch[f].next
        /\ mixed' = (mixed \/ fetch[f].stale) /\ UNCHANGED server
    BY <1>1, <1>4, Extended
  <2>2. ~ mixed' => \A i \in brought' : ~ Beyond(nextCursor', i)
    BY <1>1, <2>1 DEF Behind
  <2>3. \A g \in Fetches : g # f => ~ fetch[g].append
    BY <1>1, <2>1 DEF OneMore
  <2>4. ASSUME NEW g \in Fetches, fetch'[g].pc = "read"
        PROVE  (\A i \in JobsOf(fetch'[g].rows) : ~ Beyond(fetch'[g].next, i)) /\ ~ fetch'[g].append
    BY <1>1, <2>1, <2>3, <2>4 DEF Behind, Idle
  <2>5. \A c, i : Beyond(c, i)' <=> Beyond(c, i)
    BY <2>1 DEF Beyond, Past, server
  <2> QED
    BY <2>2, <2>4, <2>5 DEF Behind
<1> QED
  BY <1>2, <1>3, <1>4

LEMMA ClientOneByOne ==
  ASSUME FollowInv, NEW f \in Fetches,
         \/ OnSubmitted(f) \/ HandleCancel(f) \/ OnRetried(f) \/ LoadMore(f)
         \/ Replace(f) \/ Extend(f) \/ Fail(f)
  PROVE  OneByOne'
<1>1. OneByOne /\ OneMore /\ TypeInv /\ view' = view
  BY DEF FollowInv, ShapeInv, OnSubmitted, HandleCancel, OnRetried, UserRefetch, LoadMore, Replace,
     Extend, Fail
<1>2. SUFFICES ASSUME view = "api"
               PROVE  OneByOne'
  BY <1>1 DEF OneByOne
<1>3. CASE LoadMore(f)
  <2>1. /\ fetch'[f].pc = "sent" /\ fetch'[f].append = TRUE /\ fetch'[f].stale = FALSE
        /\ fetch[f].pc = "idle" /\ nextCursor # NoCursor
        /\ \A g \in Fetches : g # f => fetch'[g] = fetch[g]
        /\ UNCHANGED <<inbox, mixed>>
    BY <1>1, <1>3, MoreAsked DEF Idle, history
  <2>2. \A g \in Fetches : Active(g) => fetch[g].append
    BY <1>1, <1>2, <2>1 DEF OneByOne
  <2>3. \A g \in Fetches : Active(g)' => fetch'[g].append
    BY <2>1, <2>2 DEF Active
  <2> QED
    BY <1>1, <1>2, <2>1, <2>3 DEF OneByOne
<1>4. CASE Replace(f)
  <2>1. fetch[f].pc = "read" /\ fetch[f].append = FALSE /\ \A g \in Fetches : fetch[g].append \in BOOLEAN
    BY <1>1, <1>4, Replaced DEF TypeInv, TypeOK, Requests
  <2>2. \A g \in Fetches : g # f => fetch[g].pc = "idle" /\ fetch[g].append = FALSE
    BY <1>1, <1>2, <2>1 DEF OneByOne, OneMore, Active
  <2>3. /\ Idle(fetch'[f]) /\ \A g \in Fetches : fetch[g].stale = FALSE
        /\ \A g \in Fetches : g # f => /\ Like(fetch'[g], fetch[g])
                                      /\ fetch'[g].stale = (fetch[g].stale \/ fetch[g].append)
        /\ mixed' = FALSE /\ inbox' = inbox
    BY <1>1, <1>2, <1>4, Replaced DEF OneByOne, TypeInv, TypeOK, Requests
  <2>4. \A g \in Fetches : fetch'[g].pc = "idle" /\ fetch'[g].stale = FALSE
    BY <2>2, <2>3 DEF Like, Idle
  <2> QED
    BY <1>1, <1>2, <2>3, <2>4 DEF OneByOne, Active
<1>5. CASE Extend(f)
  <2>1. fetch[f].pc = "read" /\ fetch[f].append = TRUE /\ \A g \in Fetches : fetch[g].append \in BOOLEAN
    BY <1>1, <1>5, Extended DEF TypeInv, TypeOK, Requests
  <2>2. \A g \in Fetches : g # f => fetch[g].pc = "idle"
    <3>1. \A g \in Fetches : fetch[g].append => g = f
      BY <1>1, <2>1 DEF OneMore
    <3>2. \A g \in Fetches : Active(g) /\ ~ fetch[g].append => f = g
      BY <1>1, <1>2, <2>1 DEF OneByOne, Active
    <3> QED
      BY <2>1, <3>1, <3>2 DEF Active
  <2>3. /\ Idle(fetch'[f]) /\ \A g \in Fetches : fetch[g].stale = FALSE
        /\ \A g \in Fetches : g # f => fetch'[g] = fetch[g]
        /\ mixed' = (mixed \/ fetch[f].stale) /\ inbox' = inbox
    BY <1>1, <1>2, <1>5, Extended DEF OneByOne, TypeInv, TypeOK, Requests
  <2>4. \A g \in Fetches : fetch'[g].pc = "idle" /\ fetch'[g].stale = FALSE
    BY <2>2, <2>3 DEF Idle
  <2> QED
    BY <1>1, <1>2, <2>3, <2>4 DEF OneByOne, Active
<1>6. CASE Fail(f)
  <2>1. /\ fetch'[f].pc = "idle" /\ fetch'[f].stale = FALSE
        /\ \A g \in Fetches : g # f => fetch'[g] = fetch[g]
        /\ UNCHANGED <<inbox, brought, mixed, nextCursor>>
    BY <1>1, <1>6, Failed DEF Idle, history
  <2>2. \A g \in Fetches : Active(g)' => g # f /\ Active(g) /\ fetch'[g] = fetch[g]
    BY <2>1 DEF Active
  <2>3. ASSUME NEW g \in Fetches, Active(g)', ~ fetch'[g].append
        PROVE  nextCursor = NoCursor /\ brought = {} /\ \A h \in Fetches : Active(h)' => h = g
    <3>1. Active(g) /\ ~ fetch[g].append
      BY <2>2, <2>3
    <3>2. nextCursor = NoCursor /\ brought = {} /\ \A h \in Fetches : Active(h) => h = g
      BY <1>1, <1>2, <3>1, Zenon DEF OneByOne
    <3> QED
      BY <2>2, <3>2
  <2> QED
    BY <1>1, <1>2, <2>1, <2>3 DEF OneByOne
<1> QED
  BY <1>2, <1>3, <1>4, <1>5, <1>6 DEF OnSubmitted, HandleCancel, OnRetried

LEMMA StepFollows == FollowInv /\ [Next]_vars => FollowInv'
<1> SUFFICES ASSUME FollowInv, [Next]_vars
             PROVE  OneByOne' /\ Behind'
  BY StepShape DEF FollowInv
<1>1. OneByOne /\ Behind
  BY DEF FollowInv
<1>2. CASE UNCHANGED vars
  BY <1>1, <1>2 DEF vars, server, page, history, OneByOne, Behind, Active, Beyond
<1>3. ASSUME NEW msg \in inbox, Patch(msg) \/ Drop(msg) \/ \E f \in Fetches : Reload(msg, f)
      PROVE  OneByOne' /\ Behind'
  <2>1. /\ UNCHANGED <<view, key, brought, mixed, nextCursor>>
        /\ \A g \in Fetches :
             \/ Like(fetch'[g], fetch[g]) /\ fetch'[g].stale = fetch[g].stale
             \/ fetch'[g].pc = "sent"
    BY <1>3, MessageRequests DEF FollowInv, ShapeInv, First, server
  <2>2. Behind'
    BY <1>1, <2>1, BehindStays DEF Like
  <2>3. OneByOne'
    BY <1>1, <2>1 DEF OneByOne
  <2> QED
    BY <2>2, <2>3
<1>4. CASE Render
  <2>1. UNCHANGED <<view, server, inbox, nextCursor, fetch, history>>
    BY <1>4, Rendered
  <2> QED
    BY <1>1, <2>1 DEF server, history, OneByOne, Behind, Active, Beyond
<1>5. CASE Next
  BY <1>3, <1>4, <1>5, TableFollows, ReadFollows, ClientBehind, ClientOneByOne
  DEF Next, OnSubmitted, HandleCancel, OnRetried
<1> QED
  BY <1>2, <1>5

-----------------------------------------------------------------------------
(* No job twice. *)

OnceInv == FollowInv /\ Once

LEMMA InitOnce == Init => OnceInv
<1> SUFFICES ASSUME Init
             PROVE  Once
  BY InitFollows DEF OnceInv
<1>1. list = <<>> /\ \A g \in Fetches : fetch[g].rows = <<>>
  BY InitRequests DEF Init
<1>2. Distinct(<<>>) /\ JobsOf(<<>>) = {}
  BY DEF Distinct, JobsOf
<1>3. EachJobOnce
  BY <1>1, <1>2 DEF EachJobOnce
<1> QED
  BY <1>1, <1>2, <1>3 DEF Once

LEMMA ReadOnce ==
  ASSUME OnceInv, NEW f \in Fetches, Read(f)
  PROVE  Once'
<1>1. PICK data \in Seq(Jobs), next \in Cursors \cup {NoCursor} :
        /\ IsPage(After(fetch[f].cursor), data, next)
        /\ fetch'[f] = Reply(f, data, next)
        /\ \A g \in Fetches : g # f => fetch'[g] = fetch[g]
  BY ReadReplies DEF OnceInv, FollowInv, ShapeInv, TypeInv
<1>2. /\ fetch'[f].rows = [n \in 1 .. Len(data) |-> [job |-> data[n], dead |-> dead[data[n]]]]
      /\ Len(data) \in Nat
      /\ \A m, n \in 1 .. Len(data) : m < n => Before(data[m], data[n])
      /\ \A n \in 1 .. Len(data) : data[n] \in Jobs
  BY <1>1 DEF Reply, IsPage
<1>3. key \in [Jobs -> Int]
  BY DEF OnceInv, FollowInv, ShapeInv, TypeInv, TypeOK
<1>4. ASSUME NEW m \in 1 .. Len(data), NEW n \in 1 .. Len(data), m # n
      PROVE  data[m] # data[n]
  <2>1. m < n \/ n < m
    BY <1>2, <1>4
  <2>2. Before(data[m], data[n]) \/ Before(data[n], data[m])
    BY <1>2, <2>1
  <2>3. data[m] \in Jobs /\ data[n] \in Jobs
    BY <1>2
  <2> QED
    BY <1>3, <2>2, <2>3, BeforeOrders
<1>5. Distinct(fetch'[f].rows)
  BY <1>2, <1>4 DEF Distinct
<1>6. UNCHANGED <<view, list, ids, unrendered, brought>>
  BY DEF Read, page, history
<1> QED
  BY <1>1, <1>5, <1>6 DEF OnceInv, Once, EachJobOnce, JobsOf

\* A page is appended without the rows that are there; a client of the API has
\* none of them.
LEMMA ExtendOnce ==
  ASSUME OnceInv, NEW f \in Fetches, Extend(f)
  PROVE  EachJobOnce' /\ JobsOf(list') \subseteq brought'
<1> DEFINE rows == fetch[f].rows
<1>1. PICK fresh \in Seq(Nat), k \in Nat :
           /\ list' \in Rows /\ Len(list) \in Nat
           /\ DOMAIN list = 1 .. Len(list) /\ DOMAIN list' = 1 .. Len(list) + k /\ DOMAIN fresh = 1 .. k
           /\ \A n \in 1 .. Len(list) : list'[n] = list[n]
           /\ \A n \in 1 .. k : fresh[n] \in Fresh(rows) /\ fresh[n] \in DOMAIN rows
           /\ \A n \in 1 .. k : list'[Len(list) + n] = rows[fresh[n]]
           /\ \A p \in Fresh(rows) : \E n \in 1 .. k : fresh[n] = p
           /\ \A m, n \in 1 .. k : m < n => fresh[m] < fresh[n]
  BY ExtendedList DEF OnceInv, FollowInv, ShapeInv, TypeInv
<1>2. /\ brought' = brought \cup JobsOf(rows) /\ fetch[f].pc = "read" /\ fetch[f].append = TRUE
      /\ view' = view /\ ids' = ids /\ (view # "api" => unrendered' = unrendered \cup JobsOf(rows))
  BY Extended DEF OnceInv, FollowInv, ShapeInv
<1>3. EachJobOnce /\ JobsOf(list) \subseteq brought /\ Distinct(rows)
  BY DEF OnceInv, Once
<1>4. /\ DOMAIN rows = 1 .. Len(rows) /\ Len(rows) \in Nat
      /\ \A p \in DOMAIN rows : rows[p].job \in JobsOf(rows)
  BY DEF OnceInv, FollowInv, ShapeInv, TypeInv, TypeOK, Requests, Rows, JobsOf
<1>5. \A p \in Fresh(rows) : p \in DOMAIN rows /\ rows[p].job \notin JobsOf(list)
  <2>1. view = "api" => \A j \in brought : j \notin JobsOf(rows)
    BY <1>2 DEF OnceInv, FollowInv, OneByOne, Behind
  <2> QED
    BY <1>3, <1>4, <2>1 DEF EachJobOnce, Fresh
<1>6. \A n \in DOMAIN list : list[n].job \in JobsOf(list)
  BY DEF JobsOf
<1> HIDE DEF rows
<1>7. ASSUME NEW m \in 1 .. Len(list) + k, NEW n \in 1 .. Len(list) + k, m < n, list'[m].job = list'[n].job
      PROVE  FALSE
  <2>1. CASE n \in 1 .. Len(list)
    <3>1. m \in 1 .. Len(list)
      BY <1>1, <1>7, <2>1
    <3> QED
      BY <1>1, <1>3, <1>7, <2>1, <3>1 DEF EachJobOnce
  <2>2. CASE n \notin 1 .. Len(list)
    <3> DEFINE q == n - Len(list)
    <3>1. q \in 1 .. k /\ list'[n] = rows[fresh[q]] /\ fresh[q] \in Fresh(rows)
      BY <1>1, <2>2
    <3>2. CASE m \in 1 .. Len(list)
      <4>1. list'[n].job \notin JobsOf(list)
        BY <1>5, <3>1
      <4>2. list'[m] = list[m] /\ list[m].job \in JobsOf(list)
        BY <1>1, <1>6, <3>2
      <4> QED
        BY <1>7, <4>1, <4>2
    <3>3. CASE m \notin 1 .. Len(list)
      <4> DEFINE p == m - Len(list)
      <4>1. p \in 1 .. k /\ list'[m] = rows[fresh[p]] /\ fresh[p] \in Fresh(rows) /\ p < q
        BY <1>1, <1>7, <3>3
      <4>2. fresh[p] < fresh[q] /\ fresh[p] \in DOMAIN rows /\ fresh[q] \in DOMAIN rows
        BY <1>1, <3>1, <4>1
      <4>3. fresh[p] = fresh[q]
        BY <1>3, <1>7, <3>1, <4>1, <4>2 DEF Distinct
      <4> QED
        BY <1>4, <4>2, <4>3
    <3> QED
      BY <3>2, <3>3
  <2> QED
    BY <2>1, <2>2
<1>8. \A m, n \in DOMAIN list' : list'[m].job = list'[n].job => m = n
  <2> SUFFICES ASSUME NEW m \in DOMAIN list', NEW n \in DOMAIN list', list'[m].job = list'[n].job, m # n
               PROVE  FALSE
    OBVIOUS
  <2>1. m < n \/ n < m
    BY <1>1
  <2> QED
    BY <1>1, <1>7, <2>1
<1>9. ASSUME NEW n \in DOMAIN list'
      PROVE  list'[n].job \in JobsOf(list) \cup JobsOf(rows)
  <2>1. CASE n \in 1 .. Len(list)
    BY <1>1, <1>6, <2>1
  <2>2. CASE n \notin 1 .. Len(list)
    <3>1. n - Len(list) \in 1 .. k /\ n = Len(list) + (n - Len(list))
      BY <1>1, <2>2
    <3>2. fresh[n - Len(list)] \in DOMAIN rows /\ list'[n] = rows[fresh[n - Len(list)]]
      BY <1>1, <3>1
    <3> QED
      BY <1>4, <3>2
  <2> QED
    BY <2>1, <2>2
<1>10. JobsOf(list') \subseteq JobsOf(list) \cup JobsOf(rows)
  BY <1>9 DEF JobsOf
<1>11. view' # "api" => JobsOf(list') \subseteq ids' \cup unrendered'
  BY <1>2, <1>3, <1>10 DEF EachJobOnce
<1>12. JobsOf(list') \subseteq brought'
  BY <1>2, <1>3, <1>10
<1> QED
  BY <1>8, <1>11, <1>12 DEF EachJobOnce

LEMMA RemoveOnce ==
  ASSUME OnceInv, NEW job \in Jobs, RemoveJob(job), UNCHANGED <<view, unrendered, brought>>
  PROVE  EachJobOnce' /\ JobsOf(list') \subseteq brought'
<1>0. TypeOK
  BY DEF OnceInv, FollowInv, ShapeInv, TypeInv
<1>1. PICK left \in Seq(Nat), k \in Nat :
           /\ list' \in Rows
           /\ DOMAIN list' = 1 .. k /\ DOMAIN left = 1 .. k
           /\ \A n \in 1 .. k : left[n] \in DOMAIN list /\ list'[n] = list[left[n]] /\ list'[n].job # job
           /\ \A p \in DOMAIN list : list[p].job # job => \E n \in 1 .. k : left[n] = p
           /\ \A m, n \in 1 .. k : m < n => left[m] < left[n]
  BY <1>0, RemovedRow, Zenon
<1>2. EachJobOnce /\ JobsOf(list) \subseteq brought /\ ids' = ids \ {job}
  BY DEF OnceInv, Once, RemoveJob, IdsWithout
<1>3. DOMAIN list = 1 .. Len(list) /\ Len(list) \in Nat
  BY DEF OnceInv, FollowInv, ShapeInv, TypeInv, TypeOK, Rows
<1>4. ASSUME NEW m \in 1 .. k, NEW n \in 1 .. k, m < n, list'[m].job = list'[n].job
      PROVE  FALSE
  <2>1. left[m] = left[n]
    BY <1>1, <1>2, <1>4 DEF EachJobOnce
  <2>2. left[m] < left[n] /\ left[m] \in Nat
    BY <1>1, <1>3, <1>4
  <2> QED
    BY <2>1, <2>2
<1>5. \A m, n \in DOMAIN list' : list'[m].job = list'[n].job => m = n
  <2> SUFFICES ASSUME NEW m \in DOMAIN list', NEW n \in DOMAIN list', list'[m].job = list'[n].job, m # n
               PROVE  FALSE
    OBVIOUS
  <2>1. m < n \/ n < m
    BY <1>1
  <2> QED
    BY <1>1, <1>4, <2>1
<1>6. JobsOf(list') \subseteq JobsOf(list) \ {job}
  BY <1>1 DEF JobsOf
<1> QED
  BY <1>2, <1>5, <1>6 DEF EachJobOnce

LEMMA MessageOnce ==
  ASSUME OnceInv, NEW msg \in inbox, Patch(msg) \/ Drop(msg) \/ \E f \in Fetches : Reload(msg, f)
  PROVE  Once'
<1>1. /\ TypeInv /\ EachJobOnce /\ JobsOf(list) \subseteq brought /\ list \in Rows
      /\ \A g \in Fetches : Distinct(fetch[g].rows)
  BY DEF OnceInv, FollowInv, ShapeInv, TypeInv, TypeOK, Once
<1>2. /\ \A g \in Fetches : fetch'[g].rows \in {fetch[g].rows, <<>>}
      /\ msg.job \in Jobs /\ msg.dead \in BOOLEAN /\ UNCHANGED <<view, unrendered, brought>>
  BY <1>1, MessageRequests DEF Like, First
<1>3. \A g \in Fetches : Distinct(fetch'[g].rows)
  BY <1>1, <1>2 DEF Distinct
<1>4. CASE Patch(msg) /\ view = "dashboard"
  <2>1. list' = Updated(msg) /\ ids' = ids
    BY <1>4 DEF Patch
  <2>2. DOMAIN list' = DOMAIN list /\ \A n \in DOMAIN list : list'[n].job = list[n].job
    BY <1>1, <1>2, <2>1, UpdatedRows
  <2>3. JobsOf(list') = JobsOf(list)
    BY <2>2 DEF JobsOf
  <2> QED
    BY <1>1, <1>2, <1>3, <2>1, <2>2, <2>3 DEF Once, EachJobOnce
<1>5. CASE Patch(msg) /\ view # "dashboard"
  BY <1>2, <1>3, <1>5, RemoveOnce DEF Patch, Once
<1>6. CASE Drop(msg) \/ \E f \in Fetches : Reload(msg, f)
  <2>1. UNCHANGED <<list, ids>>
    BY <1>6 DEF Drop, Reload, page
  <2> QED
    BY <1>1, <1>2, <1>3, <2>1 DEF Once, EachJobOnce, JobsOf
<1> QED
  BY <1>4, <1>5, <1>6

LEMMA StepOnce == OnceInv /\ [Next]_vars => OnceInv'
<1> SUFFICES ASSUME OnceInv, [Next]_vars
             PROVE  Once'
  BY StepFollows DEF OnceInv
<1>1. /\ TypeInv /\ ShapeInv /\ EachJobOnce /\ JobsOf(list) \subseteq brought
      /\ \A g \in Fetches : Distinct(fetch[g].rows)
  BY DEF OnceInv, FollowInv, ShapeInv, Once
<1>2. ASSUME UNCHANGED <<view, list, brought>>, ids' \cup unrendered' = ids \cup unrendered,
             \A g \in Fetches : fetch'[g].rows \in {fetch[g].rows, <<>>}
      PROVE  Once'
  BY <1>1, <1>2 DEF Once, EachJobOnce, JobsOf, Distinct
<1>3. CASE UNCHANGED vars
  BY <1>2, <1>3 DEF vars, page, history
<1>4. ASSUME NEW j \in Jobs, Stamp(j) \/ Commit(j) \/ Change(j)
      PROVE  Once'
  BY <1>1, <1>2, <1>4, TableShape DEF Like, page
<1>5. ASSUME NEW f \in Fetches, UserRefetch(f) \/ LoadMore(f) \/ Fail(f)
      PROVE  Once'
  BY <1>1, <1>2, <1>5, UserAsks, MoreAsked, Failed DEF First, Idle, history
<1>6. ASSUME NEW f \in Fetches, Replace(f)
      PROVE  Once'
  <2>1. /\ list' = fetch[f].rows /\ ids' = JobsOf(list') /\ brought' = JobsOf(list')
        /\ \A g \in Fetches : fetch'[g].rows \in {fetch[g].rows, <<>>}
    BY <1>1, <1>6, Replaced DEF Like, Idle
  <2> QED
    BY <1>1, <2>1 DEF Once, EachJobOnce, Distinct
<1>7. ASSUME NEW f \in Fetches, Extend(f)
      PROVE  Once'
  <2>1. \A g \in Fetches : fetch'[g].rows \in {fetch[g].rows, <<>>}
    BY <1>1, <1>7, Extended DEF Idle
  <2> QED
    BY <1>1, <1>7, <2>1, ExtendOnce DEF Once, Distinct
<1>8. CASE Render
  BY <1>2, <1>8, Rendered DEF history
<1>9. CASE Next
  BY <1>4, <1>5, <1>6, <1>7, <1>8, <1>9, ReadOnce, MessageOnce
  DEF Next, OnSubmitted, HandleCancel, OnRetried
<1> QED
  BY <1>3, <1>9

\* In whatever order replies, messages, refetches and renders come, no list has
\* a job twice, and hasJob knows all of it from the next render on; nor does a
\* client of the API that follows the cursors get a job twice (useJobs.ts:30-39,
\* 56-65, README.md:170).
THEOREM EachJobOnceHolds == Spec => []EachJobOnce
<1>1. OnceInv => EachJobOnce
  BY DEF OnceInv, Once
<1> QED
  BY <1>1, InitOnce, StepOnce, PTL DEF Spec

-----------------------------------------------------------------------------
(* No gaps. *)

PageInv == OnceInv /\ GapInv

LEMMA InitGaps == Init => PageInv
<1> SUFFICES ASSUME Init
             PROVE  GapInv
  BY InitOnce DEF PageInv
<1>1. \A g \in Fetches : First(fetch[g]) \/ Idle(fetch[g])
  BY InitRequests
<1>2. list = <<>> /\ base = {} /\ \A g \in Fetches : fetch[g].pc # "read"
  BY <1>1 DEF Init, First, Idle
<1>3. Complete(key, {}, nextCursor, brought, {}) /\ Gapless(key, {}, list, brought \ JobsOf(list))
  BY DEF Complete, Gapless
<1> QED
  BY <1>2, <1>3 DEF GapInv, ListGaps, ReplyGaps

\* A row that changes gets no later place, and its list owes it no more.
LEMMA TableGaps ==
  ASSUME PageInv, NEW j \in Jobs, Stamp(j) \/ Commit(j) \/ Change(j)
  PROVE  GapInv'
<1>1. /\ \A g \in Fetches : Like(fetch'[g], fetch[g]) /\ fetch'[g].stale = fetch[g].stale
      /\ UNCHANGED <<view, page, brought, mixed>> /\ base' \subseteq base
  BY TableShape DEF PageInv, OnceInv, FollowInv
<1>2. /\ key \in [Jobs -> Int] /\ now \in Int /\ table \subseteq Jobs
      /\ \A i \in Jobs : key[i] <= now
      /\ \A i \in table : key[i] >= 0
      /\ base \subseteq Matching /\ Matching \subseteq table
      /\ JobsOf(list) \subseteq table
      /\ \A g \in Fetches : JobsOf(fetch[g].rows) \subseteq table /\ fetch[g].base \subseteq Matching
  BY DEF PageInv, OnceInv, Once, EachJobOnce, FollowInv, ShapeInv, Visible, TypeInv, TypeOK, Clocked,
     Matching
<1>3. \/ key' = key
      \/ j \notin table /\ key' = [key EXCEPT ![j] = now']
      \/ Change(j) /\ now' \in Int /\ now <= now' /\ key' = [key EXCEPT ![j] = now']
  BY <1>2, Bounds DEF Stamp, Commit, Change
<1>4. Change(j) => j \notin base' /\ \A g \in Fetches : j \notin fetch'[g].base
  <2> SUFFICES ASSUME Change(j)
               PROVE  j \notin base' /\ \A g \in Fetches : j \notin fetch'[g].base
    OBVIOUS
  <2>1. TypeOK
    BY DEF PageInv, OnceInv, FollowInv, ShapeInv, TypeInv
  <2>2. \A g \in Fetches : fetch'[g].base = fetch[g].base \ {j}
    BY <2>1, ChangedRequests
  <2>3. base' = base \ {j}
    BY DEF Change
  <2> QED
    BY <2>2, <2>3
<1>5. ASSUME NEW i \in table, Change(j) => i # j, NEW x \in table
      PROVE  /\ key'[i] = key[i]
             /\ Earlier(key', i, x) => Earlier(key, i, x)
  BY <1>2, <1>3, <1>5, Ids DEF Earlier
<1>6. ASSUME NEW jobs \in SUBSET table, NEW fewer \in SUBSET jobs, Change(j) => j \notin fewer
      PROVE  /\ \A next, known, skipped :
                  Complete(key, jobs, next, known, skipped) => Complete(key', fewer, next, known, skipped)
             /\ \A rows, known : JobsOf(rows) \subseteq table /\ Gapless(key, jobs, rows, known) =>
                  Gapless(key', fewer, rows, known)
  <2>1. \A i \in fewer : i \in table /\ i \in jobs /\ key'[i] = key[i]
    BY <1>5, <1>6
  <2>2. \A i \in fewer, x \in table : Earlier(key', i, x) => Earlier(key, i, x)
    BY <1>5, <1>6
  <2>3. \A i \in fewer : \A next : Past(key, next, i) => Past(key', next, i)
    BY <2>1 DEF Past
  <2>4. \A rows : \A n \in DOMAIN rows : rows[n].job \in JobsOf(rows)
    BY DEF JobsOf
  <2>5. \A next, known, skipped :
          Complete(key, jobs, next, known, skipped) => Complete(key', fewer, next, known, skipped)
    BY <2>1, <2>3 DEF Complete
  <2>6. \A rows, known : JobsOf(rows) \subseteq table /\ Gapless(key, jobs, rows, known) =>
                           Gapless(key', fewer, rows, known)
    BY <2>1, <2>2, <2>4 DEF Gapless
  <2> QED
    BY <2>5, <2>6
<1>7. base \in SUBSET table /\ base' \in SUBSET base /\ UNCHANGED <<list, brought, nextCursor, mixed>>
  BY <1>1, <1>2 DEF page
<1>8. /\ \A next, known, skipped :
           Complete(key, base, next, known, skipped) => Complete(key', base', next, known, skipped)
      /\ \A rows, known : JobsOf(rows) \subseteq table /\ Gapless(key, base, rows, known) =>
           Gapless(key', base', rows, known)
  BY <1>4, <1>6, <1>7
<1>9. ASSUME NEW g \in Fetches
      PROVE  /\ \A next, known, skipped :
                  Complete(key, fetch[g].base, next, known, skipped) =>
                    Complete(key', fetch'[g].base, next, known, skipped)
             /\ \A rows, known : JobsOf(rows) \subseteq table /\ Gapless(key, fetch[g].base, rows, known) =>
                  Gapless(key', fetch'[g].base, rows, known)
  <2>1. fetch[g].base \in SUBSET table /\ fetch'[g].base \in SUBSET fetch[g].base
    BY <1>1, <1>2 DEF Like
  <2> QED
    BY <1>4, <1>6, <2>1
<1>10. GapInv
  BY DEF PageInv
<1>11. ~ mixed => /\ Complete(key', base', nextCursor, brought, {})
                  /\ Gapless(key', base', list, brought \ JobsOf(list))
  BY <1>2, <1>8, <1>10 DEF GapInv, ListGaps
<1>12. ASSUME NEW g \in Fetches, fetch[g].pc = "read"
       PROVE  /\ ~ fetch[g].append =>
                   /\ Complete(key', fetch'[g].base, fetch[g].next, JobsOf(fetch[g].rows), fetch[g].skipped)
                   /\ Gapless(key', fetch'[g].base, fetch[g].rows, {})
              /\ (fetch[g].append /\ ~ fetch[g].stale /\ ~ mixed) =>
                   /\ Complete(key', base', fetch[g].next, brought \cup JobsOf(fetch[g].rows), fetch[g].skipped)
                   /\ Gapless(key', base', fetch[g].rows, brought)
  BY <1>2, <1>8, <1>9, <1>10, <1>12 DEF GapInv, ReplyGaps
<1>13. \A g \in Fetches : ReplyGaps(key', base', brought', mixed', fetch'[g])
  BY <1>1, <1>7, <1>12 DEF Like, ReplyGaps
<1>14. ListGaps(key', base', brought', list', nextCursor', mixed')
  BY <1>7, <1>11 DEF ListGaps
<1> QED
  BY <1>13, <1>14 DEF GapInv

\* A page has all that comes after its cursor and before the next one, but for
\* what that one skips.
LEMMA PageIsGapless ==
  ASSUME TypeInv, NEW cursor, NEW data, NEW next, IsPage(After(cursor), data, next),
         NEW rows, DOMAIN rows = 1 .. Len(data), \A n \in 1 .. Len(data) : rows[n].job = data[n],
         NEW jobs \in SUBSET Matching, NEW known,
         \A j \in jobs : j \in known \/ j \in After(cursor)
  PROVE  /\ Complete(key, jobs, next, known \cup JobsOf(rows), Skipped(next))
         /\ Gapless(key, jobs, rows, known)
<1>1. ASSUME NEW j \in jobs, j \notin known
      PROVE  j \in JobsOf(rows) \/ j \in Skipped(next) \/ Past(key, next, j)
  <2>1. CASE \E n \in 1 .. Len(data) : data[n] = j
    BY <2>1 DEF JobsOf
  <2>2. CASE next # NoCursor /\ Before(next.id, j)
    BY <2>2 DEF Skipped, After, Past
  <2> QED
    BY <1>1, <2>1, <2>2 DEF IsPage
<1>2. ASSUME NEW j \in jobs, NEW n \in DOMAIN rows, Earlier(key, j, rows[n].job), j \notin known
      PROVE  \E m \in 1 .. n : rows[m].job = j
  <2>1. Before(j, data[n]) /\ j \in After(cursor)
    BY <1>2 DEF Earlier, Before
  <2>2. PICK m \in 1 .. n : data[m] = j
    BY <1>2, <2>1 DEF IsPage
  <2>3. m \in 1 .. Len(data)
    BY <1>2, <2>2 DEF IsPage
  <2> QED
    BY <2>2, <2>3
<1> QED
  BY <1>1, <1>2 DEF Complete, Gapless

LEMMA ReadGaps ==
  ASSUME PageInv, NEW f \in Fetches, Read(f)
  PROVE  GapInv'
<1>1. PICK data \in Seq(Jobs), next \in Cursors \cup {NoCursor} :
        /\ IsPage(After(fetch[f].cursor), data, next)
        /\ fetch'[f] = Reply(f, data, next)
        /\ \A g \in Fetches : g # f => fetch'[g] = fetch[g]
  BY ReadReplies DEF PageInv, OnceInv, FollowInv, ShapeInv, TypeInv
<1>2. UNCHANGED <<view, server, inbox, page, history>> /\ fetch[f].pc = "sent"
  BY DEF Read
<1>3. /\ fetch'[f].pc = "read" /\ fetch'[f].append = fetch[f].append
      /\ fetch'[f].stale = fetch[f].stale /\ fetch'[f].next = next
      /\ fetch'[f].skipped = Skipped(next)
      /\ fetch'[f].base = (IF fetch[f].append THEN {} ELSE Matching)
      /\ fetch'[f].rows = [n \in 1 .. Len(data) |-> [job |-> data[n], dead |-> dead[data[n]]]]
  BY <1>1 DEF Reply
<1> DEFINE rows == fetch'[f].rows
<1>4. DOMAIN rows = 1 .. Len(data) /\ \A n \in 1 .. Len(data) : rows[n].job = data[n]
  BY <1>3
<1>5. TypeInv /\ Current /\ GapInv /\ base \subseteq Matching
  BY DEF PageInv, OnceInv, FollowInv, ShapeInv, Visible
<1> HIDE DEF rows
<1>6. ~ fetch[f].append =>
        /\ Complete(key, Matching, next, JobsOf(rows), Skipped(next))
        /\ Gapless(key, Matching, rows, {})
  <2> SUFFICES ASSUME ~ fetch[f].append
               PROVE  /\ Complete(key, Matching, next, {} \cup JobsOf(rows), Skipped(next))
                      /\ Gapless(key, Matching, rows, {})
    OBVIOUS
  <2>1. fetch[f].cursor = NoCursor
    BY <1>2, <1>5 DEF Current
  <2>2. \A j \in Matching : j \in {} \/ j \in After(fetch[f].cursor)
    BY <2>1 DEF After
  <2> QED
    BY <1>1, <1>4, <1>5, <2>2, PageIsGapless
<1>7. (fetch[f].append /\ ~ fetch[f].stale /\ ~ mixed) =>
        /\ Complete(key, base, next, brought \cup JobsOf(rows), Skipped(next))
        /\ Gapless(key, base, rows, brought)
  <2> SUFFICES ASSUME fetch[f].append, ~ fetch[f].stale, ~ mixed
               PROVE  /\ Complete(key, base, next, brought \cup JobsOf(rows), Skipped(next))
                      /\ Gapless(key, base, rows, brought)
    OBVIOUS
  <2>1. fetch[f].cursor = nextCursor
    BY <1>2, <1>5 DEF Current
  <2>2. \A j \in base : j \in brought \/ j \in After(fetch[f].cursor)
    BY <1>5, <2>1 DEF GapInv, ListGaps, Complete, Past, After
  <2> QED
    BY <1>1, <1>4, <1>5, <2>2, PageIsGapless
<1>8. UNCHANGED <<key, base, mixed, nextCursor, brought, list>>
  BY <1>2 DEF server, page, history
<1>9. ASSUME NEW g \in Fetches
      PROVE  ReplyGaps(key', base', brought', mixed', fetch'[g])
  <2>1. CASE g = f
    BY <1>3, <1>6, <1>7, <1>8, <2>1 DEF rows, ReplyGaps
  <2>2. CASE g # f
    BY <1>1, <1>5, <1>8, <2>2 DEF GapInv
  <2> QED
    BY <2>1, <2>2
<1>10. ListGaps(key', base', brought', list', nextCursor', mixed')
  BY <1>5, <1>8 DEF GapInv
<1> QED
  BY <1>9, <1>10 DEF GapInv

LEMMA ExtendGaps ==
  ASSUME PageInv, NEW f \in Fetches, Extend(f)
  PROVE  GapInv'
<1> DEFINE rows == fetch[f].rows
<1>1. PICK fresh \in Seq(Nat), k \in Nat :
           /\ list' \in Rows /\ Len(list) \in Nat
           /\ DOMAIN list = 1 .. Len(list) /\ DOMAIN list' = 1 .. Len(list) + k /\ DOMAIN fresh = 1 .. k
           /\ \A n \in 1 .. Len(list) : list'[n] = list[n]
           /\ \A n \in 1 .. k : fresh[n] \in Fresh(rows) /\ fresh[n] \in DOMAIN rows
           /\ \A n \in 1 .. k : list'[Len(list) + n] = rows[fresh[n]]
           /\ \A p \in Fresh(rows) : \E n \in 1 .. k : fresh[n] = p
           /\ \A m, n \in 1 .. k : m < n => fresh[m] < fresh[n]
  BY ExtendedList DEF PageInv, OnceInv, FollowInv, ShapeInv, TypeInv
<1>2. /\ fetch[f].pc = "read" /\ fetch[f].append = TRUE /\ Idle(fetch'[f])
      /\ \A g \in Fetches : g # f => fetch'[g] = fetch[g]
      /\ brought' = brought \cup JobsOf(rows) /\ nextCursor' = fetch[f].next
      /\ base' = base \ fetch[f].skipped /\ mixed' = (mixed \/ fetch[f].stale)
      /\ UNCHANGED <<view, server, inbox>>
  BY Extended DEF PageInv, OnceInv, FollowInv, ShapeInv
<1>3. /\ \A g \in Fetches : fetch[g].append /\ g # f => FALSE
      /\ GapInv /\ Behind /\ JobsOf(list) \subseteq brought
  BY <1>2 DEF PageInv, OnceInv, Once, FollowInv, ShapeInv, OneMore
<1>4. DOMAIN rows = 1 .. Len(rows) /\ Len(rows) \in Nat
  BY DEF PageInv, OnceInv, FollowInv, ShapeInv, TypeInv, TypeOK, Requests, Rows
<1>5. \A p, q \in DOMAIN rows : p \in Fresh(rows) /\ rows[q].job = rows[p].job => q \in Fresh(rows)
  BY DEF Fresh
<1> HIDE DEF rows
<1>6. key' = key
  BY <1>2 DEF server
<1>7. ~ mixed' => /\ Complete(key, base', fetch[f].next, brought', {})
                  /\ Gapless(key, base', list', brought' \ JobsOf(list'))
  <2> SUFFICES ASSUME ~ mixed'
               PROVE  /\ Complete(key, base', fetch[f].next, brought', {})
                      /\ Gapless(key, base', list', brought' \ JobsOf(list'))
    OBVIOUS
  <2>1. /\ Complete(key, base, fetch[f].next, brought', fetch[f].skipped)
        /\ Gapless(key, base, rows, brought) /\ Gapless(key, base, list, brought \ JobsOf(list))
    BY <1>2, <1>3 DEF GapInv, ListGaps, ReplyGaps, rows
  <2>2. \A j \in brought : j \notin JobsOf(rows)
    BY <1>2, <1>3 DEF Behind, rows
  <2>3. Complete(key, base', fetch[f].next, brought', {})
    BY <1>2, <2>1 DEF Complete
  <2>4. ASSUME NEW n \in DOMAIN list', n \notin 1 .. Len(list)
        PROVE  n - Len(list) \in 1 .. k /\ n = Len(list) + (n - Len(list))
    BY <1>1, <2>4
  <2>5. \A n \in DOMAIN list' : list'[n].job \in JobsOf(list) \/ list'[n].job \in JobsOf(rows)
    <3>1. \A n \in 1 .. Len(list) : list'[n].job \in JobsOf(list)
      BY <1>1 DEF JobsOf
    <3>2. \A n \in 1 .. k : list'[Len(list) + n].job \in JobsOf(rows)
      BY <1>1 DEF JobsOf
    <3> QED
      BY <2>4, <3>1, <3>2
  <2>6. ASSUME NEW j \in base', NEW n \in 1 .. Len(list), Earlier(key, j, list'[n].job)
        PROVE  j \in brought' \ JobsOf(list') \/ \E m \in 1 .. n : list'[m].job = j
    <3>1. CASE j \in brought \ JobsOf(list)
      <4>1. \A m \in DOMAIN list' : list'[m].job # j
        BY <2>2, <2>5, <3>1
      <4>2. j \notin JobsOf(list')
        BY <4>1 DEF JobsOf
      <4> QED
        BY <1>2, <3>1, <4>2
    <3>2. CASE \E m \in 1 .. n : list[m].job = j
      <4>1. PICK m \in 1 .. n : list[m].job = j
        BY <3>2
      <4>2. m \in 1 .. Len(list)
        BY <1>1
      <4>3. list'[m] = list[m]
        BY <1>1, <4>2
      <4> QED
        BY <4>1, <4>3
    <3>3. j \in base /\ n \in DOMAIN list /\ Earlier(key, j, list[n].job)
      <4>1. base' \subseteq base /\ n \in DOMAIN list /\ list'[n] = list[n]
        BY <1>1, <1>2
      <4> QED
        BY <2>6, <4>1
    <3>4. j \in brought \ JobsOf(list) \/ \E m \in 1 .. n : list[m].job = j
      BY <2>1, <3>3, Zenon DEF Gapless
    <3> QED
      BY <3>1, <3>2, <3>4
  <2>7. ASSUME NEW j \in base', j \in brought, NEW n \in 1 .. k
        PROVE  j \in brought' \ JobsOf(list') \/ \E m \in 1 .. Len(list) + n : list'[m].job = j
    <3>1. CASE j \in JobsOf(list)
      <4>1. PICK m \in DOMAIN list : list[m].job = j
        BY <3>1 DEF JobsOf
      <4>2. m \in 1 .. Len(list) + n /\ list'[m].job = j
        BY <1>1, <4>1
      <4> QED
        BY <4>2
    <3>2. CASE j \notin JobsOf(list)
      <4>1. \A m \in DOMAIN list' : list'[m].job # j
        BY <2>2, <2>5, <2>7, <3>2
      <4>2. j \notin JobsOf(list')
        BY <4>1 DEF JobsOf
      <4> QED
        BY <1>2, <2>7, <4>2
    <3> QED
      BY <3>1, <3>2
  <2>8. ASSUME NEW j \in base', j \notin brought, NEW n \in 1 .. k, Earlier(key, j, rows[fresh[n]].job)
        PROVE  j \in brought' \ JobsOf(list') \/ \E m \in 1 .. Len(list) + n : list'[m].job = j
    <3>1. PICK p \in 1 .. fresh[n] : rows[p].job = j
      BY <1>1, <1>2, <2>1, <2>8 DEF Gapless
    <3>2. p \in DOMAIN rows /\ p \in Nat /\ fresh[n] \in Nat
      <4>1. fresh[n] \in DOMAIN rows
        BY <1>1
      <4> QED
        BY <1>4, <3>1, <4>1
    <3>3. CASE p \in Fresh(rows)
      <4>1. PICK m \in 1 .. k : fresh[m] = p
        BY <1>1, <3>3
      <4>2. m <= n
        BY <1>1, <3>1, <3>2, <4>1
      <4>3. list'[Len(list) + m] = rows[p]
        BY <1>1, <4>1
      <4>4. Len(list) + m \in 1 .. Len(list) + n
        BY <1>1, <4>1, <4>2
      <4> QED
        BY <3>1, <4>3, <4>4
    <3>4. CASE p \notin Fresh(rows)
      <4>1. \A q \in Fresh(rows) : q \in DOMAIN rows /\ rows[q].job # j
        BY <1>5, <3>1, <3>2, <3>4 DEF Fresh
      <4>2. ASSUME NEW m \in 1 .. k PROVE list'[Len(list) + m].job # j
        <5>1. fresh[m] \in Fresh(rows) /\ list'[Len(list) + m] = rows[fresh[m]]
          BY <1>1
        <5> QED
          BY <4>1, <5>1
      <4>3. \A m \in 1 .. Len(list) : list'[m].job # j
        BY <1>1, <1>3, <2>8 DEF JobsOf
      <4>4. j \notin JobsOf(list')
        BY <2>4, <4>2, <4>3 DEF JobsOf
      <4>5. j \in brought'
        BY <1>2, <3>1, <3>2 DEF JobsOf
      <4> QED
        BY <4>4, <4>5
    <3> QED
      BY <3>3, <3>4
  <2>9. ASSUME NEW j \in base', NEW n \in DOMAIN list', Earlier(key, j, list'[n].job)
        PROVE  j \in brought' \ JobsOf(list') \/ \E m \in 1 .. n : list'[m].job = j
    <3>1. CASE n \in 1 .. Len(list)
      BY <2>6, <2>9, <3>1
    <3>2. CASE n \notin 1 .. Len(list)
      <4> DEFINE q == n - Len(list)
      <4>1. q \in 1 .. k /\ n = Len(list) + q
        BY <2>4, <3>2
      <4>2. list'[n] = rows[fresh[q]]
        BY <1>1, <4>1
      <4> HIDE DEF q
      <4>3. CASE j \in brought
        BY <2>7, <4>1, <4>3
      <4>4. CASE j \notin brought
        BY <2>8, <2>9, <4>1, <4>2, <4>4
      <4> QED
        BY <4>3, <4>4
    <3> QED
      BY <3>1, <3>2
  <2>10. Gapless(key, base', list', brought' \ JobsOf(list'))
    BY <2>9 DEF Gapless
  <2> QED
    BY <2>3, <2>10
<1>8. ASSUME NEW g \in Fetches
      PROVE  ReplyGaps(key', base', brought', mixed', fetch'[g])
  <2>1. CASE g = f
    BY <1>2, <2>1 DEF Idle, ReplyGaps
  <2>2. CASE g # f
    <3>1. fetch'[g] = fetch[g] /\ ~ fetch[g].append
      BY <1>2, <1>3, <2>2
    <3>2. ReplyGaps(key, base, brought, mixed, fetch[g])
      BY <1>3 DEF GapInv
    <3> QED
      BY <1>6, <3>1, <3>2 DEF ReplyGaps
  <2> QED
    BY <2>1, <2>2
<1>9. ListGaps(key', base', brought', list', nextCursor', mixed')
  BY <1>2, <1>6, <1>7 DEF ListGaps
<1> QED
  BY <1>8, <1>9 DEF GapInv

\* A row that is removed is still owed: the list was brought it.
LEMMA RemoveGaps ==
  ASSUME TypeInv, JobsOf(list) \subseteq brought, NEW job \in Jobs, RemoveJob(job),
         Gapless(key, base, list, brought \ JobsOf(list))
  PROVE  Gapless(key, base, list', brought \ JobsOf(list'))
<1>1. PICK left \in Seq(Nat), k \in Nat :
           /\ DOMAIN list' = 1 .. k /\ DOMAIN left = 1 .. k
           /\ \A n \in 1 .. k : left[n] \in DOMAIN list /\ list'[n] = list[left[n]] /\ list'[n].job # job
           /\ \A p \in DOMAIN list : list[p].job # job => \E n \in 1 .. k : left[n] = p
           /\ \A m, n \in 1 .. k : m < n => left[m] < left[n]
  BY RemovedRow DEF TypeInv
<1>2. DOMAIN list = 1 .. Len(list) /\ Len(list) \in Nat
  BY DEF TypeInv, TypeOK, Rows
<1>3. JobsOf(list') \subseteq JobsOf(list) \ {job}
  BY <1>1 DEF JobsOf
<1>4. ASSUME NEW j \in base, NEW n \in 1 .. k, Earlier(key, j, list'[n].job), j \notin brought \ JobsOf(list')
      PROVE  \E m \in 1 .. n : list'[m].job = j
  <2>1. PICK p \in 1 .. left[n] : list[p].job = j
    BY <1>1, <1>2, <1>3, <1>4 DEF Gapless
  <2>2. p \in DOMAIN list /\ p \in Nat /\ left[n] \in Nat
    BY <1>1, <1>2, <2>1
  <2>3. j # job
    BY <1>3, <1>4, <2>1, <2>2 DEF JobsOf
  <2>4. PICK m \in 1 .. k : left[m] = p
    BY <1>1, <2>1, <2>2, <2>3
  <2>5. m <= n
    BY <1>1, <2>1, <2>2, <2>4
  <2> QED
    BY <1>1, <2>1, <2>4, <2>5
<1> QED
  BY <1>1, <1>4 DEF Gapless

LEMMA MessageGaps ==
  ASSUME PageInv, NEW msg \in inbox, Patch(msg) \/ Drop(msg) \/ \E f \in Fetches : Reload(msg, f)
  PROVE  GapInv'
<1>1. TypeInv /\ JobsOf(list) \subseteq brought /\ list \in Rows /\ GapInv
  BY DEF PageInv, OnceInv, Once, FollowInv, ShapeInv, TypeInv, TypeOK
<1>2. /\ \A g \in Fetches :
           \/ /\ Like(fetch'[g], fetch[g]) /\ fetch'[g].stale = fetch[g].stale
              /\ fetch'[g].base = fetch[g].base
           \/ fetch'[g].pc = "sent"
      /\ msg.job \in Jobs /\ msg.dead \in BOOLEAN
      /\ UNCHANGED <<key, nextCursor, base, brought, mixed>>
  BY <1>1, MessageRequests DEF First, server
<1>3. ~ mixed => Gapless(key, base, list', brought \ JobsOf(list'))
  <2> SUFFICES ASSUME ~ mixed
               PROVE  Gapless(key, base, list', brought \ JobsOf(list'))
    OBVIOUS
  <2>1. Gapless(key, base, list, brought \ JobsOf(list))
    BY <1>1 DEF GapInv, ListGaps
  <2>2. CASE Patch(msg) /\ view = "dashboard"
    <3>1. list' = Updated(msg)
      BY <2>2 DEF Patch
    <3>2. DOMAIN list' = DOMAIN list /\ \A n \in DOMAIN list : list'[n].job = list[n].job
      BY <1>1, <1>2, <3>1, UpdatedRows
    <3>3. JobsOf(list') = JobsOf(list)
      BY <3>2 DEF JobsOf
    <3>4. \A n \in DOMAIN list : \A m \in 1 .. n : m \in DOMAIN list
      BY <1>1 DEF Rows
    <3> QED
      BY <2>1, <3>2, <3>3, <3>4 DEF Gapless
  <2>3. CASE Patch(msg) /\ view # "dashboard"
    BY <1>1, <1>2, <2>1, <2>3, RemoveGaps DEF Patch
  <2>4. CASE Drop(msg) \/ \E f \in Fetches : Reload(msg, f)
    <3>1. list' = list
      BY <2>4 DEF Drop, Reload, page
    <3> QED
      BY <2>1, <3>1 DEF JobsOf
  <2> QED
    BY <2>2, <2>3, <2>4
<1>4. \A g \in Fetches : ReplyGaps(key', base', brought', mixed', fetch'[g])
  BY <1>1, <1>2 DEF Like, GapInv, ReplyGaps
<1>5. ListGaps(key', base', brought', list', nextCursor', mixed')
  BY <1>1, <1>2, <1>3 DEF GapInv, ListGaps
<1> QED
  BY <1>4, <1>5 DEF GapInv

LEMMA StepGaps == PageInv /\ [Next]_vars => PageInv'
<1> SUFFICES ASSUME PageInv, [Next]_vars
             PROVE  GapInv'
  BY StepOnce DEF PageInv
<1>1. TypeInv /\ GapInv /\ OneMore
  BY DEF PageInv, OnceInv, FollowInv, ShapeInv
<1>2. ASSUME UNCHANGED <<key, base, mixed, nextCursor, brought, list>>,
             \A g \in Fetches : fetch'[g] = fetch[g] \/ fetch'[g].pc \in {"idle", "sent"}
      PROVE  GapInv'
  <2>1. \A g \in Fetches : ReplyGaps(key', base', brought', mixed', fetch'[g])
    BY <1>1, <1>2 DEF GapInv, ReplyGaps
  <2> QED
    BY <1>1, <1>2, <2>1 DEF GapInv
<1>3. CASE UNCHANGED vars
  BY <1>2, <1>3 DEF vars, server, page, history
<1>4. ASSUME NEW f \in Fetches, UserRefetch(f) \/ LoadMore(f) \/ Fail(f)
      PROVE  GapInv'
  <2>1. UNCHANGED <<server, history, list, nextCursor>>
    BY <1>1, <1>4, UserAsks, MoreAsked, Failed
  <2>2. \A g \in Fetches : fetch'[g] = fetch[g] \/ fetch'[g].pc \in {"idle", "sent"}
    BY <1>1, <1>4, UserAsks, MoreAsked, Failed DEF First, Idle
  <2> QED
    BY <1>2, <2>1, <2>2 DEF server, history
<1>5. ASSUME NEW f \in Fetches, Replace(f)
      PROVE  GapInv'
  <2>1. /\ fetch[f].pc = "read" /\ fetch[f].append = FALSE /\ Idle(fetch'[f])
        /\ \A g \in Fetches : g # f =>
              /\ Like(fetch'[g], fetch[g]) /\ fetch'[g].base = fetch[g].base
              /\ fetch'[g].stale = (fetch[g].stale \/ fetch[g].append)
        /\ list' = fetch[f].rows /\ brought' = JobsOf(fetch[f].rows) /\ nextCursor' = fetch[f].next
        /\ base' = fetch[f].base \ fetch[f].skipped /\ UNCHANGED server
    BY <1>1, <1>5, Replaced
  <2>2. /\ Complete(key, fetch[f].base, fetch[f].next, JobsOf(fetch[f].rows), fetch[f].skipped)
        /\ Gapless(key, fetch[f].base, fetch[f].rows, {})
    BY <1>1, <2>1 DEF GapInv, ReplyGaps
  <2>3. /\ Complete(key', base', nextCursor', brought', {})
        /\ Gapless(key', base', list', brought' \ JobsOf(list'))
    BY <2>1, <2>2 DEF Complete, Gapless, server
  <2>4. ASSUME NEW g \in Fetches, fetch'[g].pc = "read"
        PROVE  /\ ~ fetch'[g].append =>
                    /\ Complete(key', fetch'[g].base, fetch'[g].next, JobsOf(fetch'[g].rows), fetch'[g].skipped)
                    /\ Gapless(key', fetch'[g].base, fetch'[g].rows, {})
               /\ fetch'[g].append => fetch'[g].stale
    BY <1>1, <2>1, <2>4 DEF GapInv, ReplyGaps, OneMore, Like, Idle, server
  <2>5. \A g \in Fetches : ReplyGaps(key', base', brought', mixed', fetch'[g])
    BY <2>4 DEF ReplyGaps
  <2>6. ListGaps(key', base', brought', list', nextCursor', mixed')
    BY <2>3 DEF ListGaps
  <2> QED
    BY <2>5, <2>6 DEF GapInv
<1>6. CASE Render
  <2>1. UNCHANGED <<server, list, nextCursor, fetch, history>>
    BY <1>6, Rendered
  <2> QED
    BY <1>2, <2>1 DEF server, history
<1>7. CASE Next
  BY <1>4, <1>5, <1>6, <1>7, TableGaps, ReadGaps, ExtendGaps, MessageGaps
  DEF Next, OnSubmitted, HandleCancel, OnRetried
<1> QED
  BY <1>3, <1>7

\* What a list owes, a cursor's millisecond excepted (Kept), is listed before
\* any row that comes after it, whatever page it came on, unless the list got a
\* page that was asked for before it was replaced (mixed), or the page itself took
\* out the row that a reply had brought (Lacked: DLQ.tsx:15, useJobs.ts:32-33)
\* (job.service.ts:93-110, dlq.routes.ts:20-38, useJobs.ts:18-47).
THEOREM PagesHaveNoGaps == Spec => []NoGaps
<1>1. PageInv => NoGaps
  BY DEF PageInv, GapInv, ListGaps, NoGaps, Lacked, Gapless, Earlier, Before
<1> QED
  BY <1>1, InitGaps, StepGaps, PTL DEF Spec

\* A list without a next page was brought all it owes, and has it but for what the
\* page itself took out, unless it is mixed (job.service.ts:108-110).
THEOREM NoMoreIsAll == Spec => []EndIsTheEnd
<1>1. PageInv => EndIsTheEnd
  BY DEF PageInv, GapInv, ListGaps, EndIsTheEnd, Lacked, Complete, Past
<1> QED
  BY <1>1, InitGaps, StepGaps, PTL DEF Spec

-----------------------------------------------------------------------------
(* Old statuses are corrected. *)

CorrectedInv == OnceInv /\ RightInv

LEMMA InitRight == Init => CorrectedInv
<1> SUFFICES ASSUME Init
             PROVE  RightInv
  BY InitOnce DEF CorrectedInv
<1>1. \A g \in Fetches : fetch[g].rows = <<>> /\ (First(fetch[g]) \/ Idle(fetch[g]))
  BY InitRequests
<1>2. list = <<>>
  BY DEF Init
<1>3. \A excused : RightRows(dead, inbox, view, <<>>, excused)
  BY DEF RightRows, Right, AllDead
<1>4. \A g \in Fetches : RightReply(dead, inbox, view, fetch[g])
  BY <1>1 DEF First, Idle, RightReply, AllDead
<1> QED
  BY <1>2, <1>3, <1>4 DEF RightInv

\* A row is as it was read, and of a change there is a message.
LEMMA ServerRight ==
  ASSUME CorrectedInv,
         \/ \E j \in Jobs : Stamp(j) \/ Commit(j) \/ Change(j)
         \/ \E f \in Fetches : Read(f)
  PROVE  RightInv'
<1>1. TypeInv /\ OnceInv /\ ShapeInv /\ RightInv
  BY DEF CorrectedInv, OnceInv, FollowInv, ShapeInv
<1>2. SUFFICES ASSUME view # "api", view' = view
               PROVE  RightInv'
  BY DEF Stamp, Commit, Change, Read, RightInv
<1>3. ASSUME NEW j \in Jobs, Stamp(j) \/ Commit(j) \/ Change(j)
      PROVE  RightInv'
  <2>1. /\ \A g \in Fetches : Like(fetch'[g], fetch[g]) /\ fetch'[g].missed = fetch[g].missed
        /\ UNCHANGED <<list, missed>>
    BY <1>1, <1>3, TableShape DEF page
  <2>2. \/ dead' = dead /\ inbox' = inbox
        \/ /\ dead' = [dead EXCEPT ![j] = ~ dead[j]]
           /\ inbox' = inbox \cup {[job |-> j, dead |-> ~ dead[j], at |-> changes]}
    BY <1>2, <1>3 DEF Stamp, Commit, Change
  <2>3. /\ \A i \in Jobs : i # j => dead'[i] = dead[i]
        /\ inbox \subseteq inbox'
        /\ dead' = dead \/ \E msg \in inbox' : msg.job = j
    <3>1. dead \in [Jobs -> BOOLEAN]
      BY <1>1 DEF TypeInv, TypeOK
    <3>2. CASE dead' = dead /\ inbox' = inbox
      BY <3>2
    <3>3. CASE /\ dead' = [dead EXCEPT ![j] = ~ dead[j]]
               /\ inbox' = inbox \cup {[job |-> j, dead |-> ~ dead[j], at |-> changes]}
      <4>1. \A i \in Jobs : i # j => dead'[i] = dead[i]
        BY <3>1, <3>3
      <4> DEFINE m == [job |-> j, dead |-> ~ dead[j], at |-> changes]
      <4>2. m.job = j
        OBVIOUS
      <4>3. m \in inbox' /\ inbox \subseteq inbox'
        BY <3>3
      <4> HIDE DEF m
      <4> QED
        BY <4>1, <4>2, <4>3
    <3> QED
      BY <2>2, <3>2, <3>3
  <2>4. ASSUME NEW rows, NEW excused, Right(dead, inbox, rows, excused),
               \A n \in DOMAIN rows : rows[n].job \in Jobs
        PROVE  Right(dead', inbox', rows, excused)
    BY <2>3, <2>4 DEF Right
  <2>5. /\ \A n \in DOMAIN list : list[n].job \in Jobs
        /\ \A g \in Fetches : \A n \in DOMAIN fetch[g].rows : fetch[g].rows[n].job \in Jobs
    <3>1. list \in Rows /\ \A g \in Fetches : fetch[g].rows \in Rows
      BY <1>1 DEF TypeInv, TypeOK, Requests
    <3> QED
      BY <3>1, RowTypes
  <2>6. RightRows(dead', inbox', view', list', missed')
    BY <1>1, <1>2, <2>1, <2>4, <2>5 DEF RightInv, RightRows, page
  <2>7. \A g \in Fetches : RightReply(dead', inbox', view', fetch'[g])
    BY <1>1, <1>2, <2>1, <2>4, <2>5 DEF RightInv, RightReply, Like
  <2> QED
    BY <2>6, <2>7 DEF RightInv
<1>4. ASSUME NEW f \in Fetches, Read(f)
      PROVE  RightInv'
  <2>1. PICK data \in Seq(Jobs), next \in Cursors \cup {NoCursor} :
          /\ IsPage(After(fetch[f].cursor), data, next)
          /\ fetch'[f] = Reply(f, data, next)
          /\ \A g \in Fetches : g # f => fetch'[g] = fetch[g]
    BY <1>1, <1>4, ReadReplies DEF TypeInv
  <2>2. UNCHANGED <<view, dead, inbox, list, missed>>
    BY <1>4 DEF Read, server, page, history
  <2>3. fetch'[f].rows = [n \in 1 .. Len(data) |-> [job |-> data[n], dead |-> dead[data[n]]]]
    BY <2>1 DEF Reply
  <2>4. \A n \in 1 .. Len(data) : data[n] \in Matching
    BY <2>1 DEF IsPage, After
  <2>5. /\ \A excused : Right(dead, inbox, fetch'[f].rows, excused)
        /\ view = "dlq" => AllDead(fetch'[f].rows)
    BY <1>2, <2>3, <2>4 DEF Right, Matching, AllDead
  <2>6. \A g \in Fetches : RightReply(dead', inbox', view', fetch'[g])
    BY <1>1, <1>2, <2>1, <2>2, <2>5 DEF RightInv, RightReply
  <2>7. RightRows(dead', inbox', view', list', missed')
    BY <1>1, <1>2, <2>2 DEF RightInv
  <2> QED
    BY <2>6, <2>7 DEF RightInv
<1> QED
  BY <1>3, <1>4

\* What excuses the rows of a reply excuses them in the list.
LEMMA ClientRight ==
  ASSUME CorrectedInv, NEW f \in Fetches,
         UserRefetch(f) \/ LoadMore(f) \/ Replace(f) \/ Extend(f) \/ Fail(f)
  PROVE  RightInv'
<1>1. TypeInv /\ RightInv
  BY DEF CorrectedInv, OnceInv, FollowInv, ShapeInv
<1>2. UNCHANGED <<view, dead, inbox>>
  BY DEF UserRefetch, LoadMore, Replace, Extend, Fail, server
<1>3. SUFFICES ASSUME view # "api"
               PROVE  RightInv'
  BY <1>2 DEF RightInv
<1>4. CASE UserRefetch(f) \/ LoadMore(f) \/ Fail(f)
  <2>1. UNCHANGED <<list, missed>>
    BY <1>1, <1>4, UserAsks, MoreAsked, Failed DEF history
  <2>2. \A g \in Fetches :
          fetch'[g] = fetch[g] \/ (fetch'[g].pc \in {"idle", "sent"} /\ fetch'[g].rows = <<>>)
    BY <1>1, <1>4, UserAsks, MoreAsked, Failed DEF First, Idle
  <2>3. \A g \in Fetches : RightReply(dead', inbox', view', fetch'[g])
    BY <1>1, <1>2, <1>3, <2>2 DEF RightInv, RightReply, AllDead
  <2>4. RightRows(dead', inbox', view', list', missed')
    BY <1>1, <1>2, <1>3, <2>1 DEF RightInv
  <2> QED
    BY <2>3, <2>4 DEF RightInv
<1>5. CASE Replace(f)
  <2>1. /\ fetch[f].pc = "read" /\ Idle(fetch'[f])
        /\ \A g \in Fetches : g # f => Like(fetch'[g], fetch[g]) /\ fetch'[g].missed = fetch[g].missed
        /\ list' = fetch[f].rows /\ missed' = fetch[f].missed
    BY <1>1, <1>5, Replaced
  <2>2. RightRows(dead', inbox', view', list', missed')
    BY <1>1, <1>2, <1>3, <2>1 DEF RightInv, RightReply, RightRows
  <2>3. \A g \in Fetches : RightReply(dead', inbox', view', fetch'[g])
    BY <1>1, <1>2, <1>3, <2>1 DEF RightInv, RightReply, Like, Idle, AllDead
  <2> QED
    BY <2>2, <2>3 DEF RightInv
<1>6. CASE Extend(f)
  <2>1. /\ fetch[f].pc = "read" /\ Idle(fetch'[f]) /\ missed' = missed \cup fetch[f].missed
        /\ \A g \in Fetches : g # f => fetch'[g] = fetch[g]
    BY <1>1, <1>6, Extended
  <2>2. \A n \in DOMAIN list' :
          \/ n \in DOMAIN list /\ list'[n] = list[n]
          \/ \E p \in DOMAIN fetch[f].rows : list'[n] = fetch[f].rows[p]
    <3>1. PICK fresh \in Seq(Nat), k \in Nat :
            /\ Len(list) \in Nat
            /\ DOMAIN list = 1 .. Len(list) /\ DOMAIN list' = 1 .. Len(list) + k
            /\ \A n \in 1 .. Len(list) : list'[n] = list[n]
            /\ \A n \in 1 .. k : fresh[n] \in DOMAIN fetch[f].rows
            /\ \A n \in 1 .. k : list'[Len(list) + n] = fetch[f].rows[fresh[n]]
      BY <1>1, <1>6, ExtendedList DEF TypeInv
    <3>2. ASSUME NEW n \in DOMAIN list', n \notin 1 .. Len(list)
          PROVE  \E p \in DOMAIN fetch[f].rows : list'[n] = fetch[f].rows[p]
      <4> DEFINE q == n - Len(list)
      <4>1. q \in 1 .. k /\ n = Len(list) + q
        BY <3>1, <3>2
      <4> HIDE DEF q
      <4>2. list'[Len(list) + q] = fetch[f].rows[fresh[q]] /\ fresh[q] \in DOMAIN fetch[f].rows
        BY <3>1, <4>1
      <4> QED
        BY <4>1, <4>2
    <3> QED
      BY <3>1, <3>2
  <2>3. RightRows(dead, inbox, view, list, missed) /\ RightReply(dead, inbox, view, fetch[f])
    BY <1>1, <1>3 DEF RightInv
  <2>4. RightRows(dead', inbox', view', list', missed')
    BY <1>2, <2>1, <2>2, <2>3 DEF RightRows, RightReply, Right, AllDead
  <2>5. \A g \in Fetches : RightReply(dead', inbox', view', fetch'[g])
    BY <1>1, <1>2, <1>3, <2>1 DEF RightInv, RightReply, Idle, AllDead
  <2> QED
    BY <2>4, <2>5 DEF RightInv
<1> QED
  BY <1>4, <1>5, <1>6

\* A message that is late leaves another behind it, or a row that was missed.
LEMMA MessageRight ==
  ASSUME CorrectedInv, NEW msg \in inbox, Patch(msg) \/ Drop(msg) \/ \E f \in Fetches : Reload(msg, f)
  PROVE  RightInv'
<1>1. TypeInv /\ OnceInv /\ RightInv /\ EachJobOnce /\ list \in Rows
  BY DEF CorrectedInv, OnceInv, Once, FollowInv, ShapeInv, TypeInv, TypeOK
<1>2. /\ \A g \in Fetches :
           \/ /\ Like(fetch'[g], fetch[g]) /\ fetch[g].missed \subseteq fetch'[g].missed
              /\ fetch[g].pc = "read" => msg.job \in fetch'[g].missed
           \/ fetch'[g].pc = "sent" /\ fetch'[g].rows = <<>>
      /\ inbox' = inbox \ {msg} /\ msg.job \in Jobs /\ msg.dead \in BOOLEAN
      /\ UNCHANGED <<view, dead>>
  BY <1>1, MessageRequests DEF First, server
<1>3. SUFFICES ASSUME view # "api"
               PROVE  RightInv'
  BY <1>2 DEF RightInv
<1>4. ASSUME NEW g \in Fetches, fetch'[g].pc = "read"
      PROVE  Right(dead, inbox', fetch'[g].rows, fetch'[g].missed)
  <2>1. /\ fetch[g].pc = "read" /\ fetch'[g].rows = fetch[g].rows
        /\ fetch[g].missed \subseteq fetch'[g].missed /\ msg.job \in fetch'[g].missed
    BY <1>2, <1>4 DEF Like
  <2>2. Right(dead, inbox, fetch[g].rows, fetch[g].missed)
    BY <1>1, <1>3, <2>1 DEF RightInv, RightReply
  <2> QED
    BY <1>2, <2>1, <2>2 DEF Right
<1>5. /\ missed \subseteq missed'
      /\ Drop(msg) => msg.job \in missed'
      /\ (Patch(msg) \/ \E f \in Fetches : Reload(msg, f)) /\ msg.dead # dead[msg.job] =>
           msg.job \in missed' \/ \E other \in inbox' : other.job = msg.job
      /\ (\E f \in Fetches : Reload(msg, f)) /\ Early(msg) => msg.job \in missed'
  BY DEF Patch, Reload, Drop, Receive, Outdated
<1>6. Right(dead, inbox, list, missed) /\ (view = "dlq" => AllDead(list))
  BY <1>1, <1>3 DEF RightInv, RightRows
<1>7. \A g \in Fetches : RightReply(dead', inbox', view', fetch'[g])
  <2>1. \A g \in Fetches : fetch'[g].rows = fetch[g].rows \/ fetch'[g].rows = <<>>
    BY <1>2 DEF Like
  <2>2. \A g \in Fetches : view = "dlq" => AllDead(fetch'[g].rows)
    BY <1>1, <1>3, <2>1 DEF RightInv, RightReply, AllDead
  <2> QED
    BY <1>2, <1>4, <2>2 DEF RightReply
<1>8. \A n \in DOMAIN list : list[n].dead # dead[list[n].job] /\ list[n].job # msg.job =>
        list[n].job \in missed' \/ \E other \in inbox' : other.job = list[n].job
  BY <1>2, <1>5, <1>6 DEF Right
<1>9. CASE Patch(msg) /\ view = "dashboard"
  <2>1. list' = Updated(msg)
    BY <1>9 DEF Patch
  <2>2. /\ DOMAIN list' = DOMAIN list
        /\ \A n \in DOMAIN list :
             /\ list'[n].job = list[n].job
             /\ list'[n].dead = IF list[n].job = msg.job THEN msg.dead ELSE list[n].dead
    BY <1>1, <1>2, <2>1, UpdatedRows
  <2>3. Right(dead, inbox', list', missed')
    BY <1>5, <1>8, <1>9, <2>2 DEF Right
  <2> QED
    BY <1>2, <1>9, <1>7, <2>3 DEF RightInv, RightRows
<1>10. CASE Patch(msg) /\ view # "dashboard"
  <2>1. PICK left \in Seq(Nat), k \in Nat :
           /\ DOMAIN list' = 1 .. k
           /\ \A n \in 1 .. k : left[n] \in DOMAIN list /\ list'[n] = list[left[n]] /\ list'[n].job # msg.job
    <3>1. RemoveJob(msg.job)
      BY <1>10 DEF Patch
    <3> QED
      BY <1>1, <1>2, <3>1, RemovedRow DEF TypeInv
  <2>2. Right(dead, inbox', list', missed')
    BY <1>8, <2>1 DEF Right
  <2>3. view = "dlq" => AllDead(list')
    BY <1>6, <2>1 DEF AllDead
  <2> QED
    BY <1>2, <1>7, <2>2, <2>3 DEF RightInv, RightRows
<1>11. CASE Drop(msg)
  <2>1. list' = list
    BY <1>11 DEF Drop, page
  <2>2. Right(dead, inbox', list', missed')
    BY <1>5, <1>8, <1>11, <2>1 DEF Right
  <2> QED
    BY <1>2, <1>6, <1>7, <2>1, <2>2 DEF RightInv, RightRows
<1>12. ASSUME NEW f \in Fetches, Reload(msg, f)
       PROVE  RightInv'
  <2>1. list' = list
    BY <1>12 DEF Reload
  <2>2. ASSUME NEW n \in DOMAIN list, list[n].job = msg.job
        PROVE  list[n].dead = msg.dead \/ msg.job \in missed'
    <3>1. CASE view = "dashboard"
      <4>1. msg.job \in JobsOf(list) /\ msg.job \notin ids
        BY <1>12, <2>2, <3>1 DEF JobsOf, Reload
      <4>2. Early(msg)
        BY <1>1, <3>1, <4>1 DEF EachJobOnce, Early
      <4> QED
        BY <1>5, <1>12, <4>2
    <3>2. CASE view = "dlq"
      <4>1. msg.dead = TRUE /\ list[n].dead \in BOOLEAN /\ list[n].dead
        BY <1>1, <1>2, <1>6, <1>12, <3>2, RowTypes DEF AllDead, Reload
      <4> QED
        BY <4>1
    <3> QED
      BY <1>12, <3>1, <3>2 DEF Reload
  <2>3. Right(dead, inbox', list', missed')
    BY <1>5, <1>8, <1>12, <2>1, <2>2 DEF Right
  <2> QED
    BY <1>2, <1>6, <1>7, <2>1, <2>3 DEF RightInv, RightRows
<1> QED
  BY <1>9, <1>10, <1>11, <1>12

LEMMA StepRight == CorrectedInv /\ [Next]_vars => CorrectedInv'
<1> SUFFICES ASSUME CorrectedInv, [Next]_vars
             PROVE  RightInv'
  BY StepOnce DEF CorrectedInv
<1>1. CASE UNCHANGED vars
  BY <1>1 DEF vars, server, page, history, CorrectedInv, RightInv
<1>2. CASE Render
  <2>1. UNCHANGED <<view, server, inbox, list, fetch, history>>
    BY <1>2, Rendered
  <2> QED
    BY <2>1 DEF server, history, CorrectedInv, RightInv
<1>3. CASE Next
  BY <1>2, <1>3, ServerRight, ClientRight, MessageRight DEF Next, OnSubmitted, HandleCancel, OnRetried
<1> QED
  BY <1>1, <1>3

\* A row with an old status will be corrected, unless its message was lost,
\* overtaken, or came between the reading of the row and its rendering
\* (Dashboard.tsx:21-30, DLQ.tsx:10-18, useJobs.ts:58-65).
THEOREM RowsGetCorrected == Spec => []RowsAreCorrected
<1>1. CorrectedInv => RowsAreCorrected
  BY DEF CorrectedInv, RightInv, RightRows, Right, RowsAreCorrected
<1> QED
  BY <1>1, InitRight, StepRight, PTL DEF Spec

=============================================================================
