------------------------------ MODULE JobPages ------------------------------
(***************************************************************************)
(* Pages of jobs: the cursor pagination of GET /jobs (job.service.ts) and  *)
(* of GET /dlq (dlq.routes.ts), and the list a client builds of the pages  *)
(* while the table changes: the job table and the dead letter page of the  *)
(* dashboard (useJobs.ts, Dashboard.tsx, DLQ.tsx), which also listen to    *)
(* the WebSocket, and a client of the API that follows the cursors.        *)
(*                                                                         *)
(* A job has one of two statuses, dead letter or not; on the dashboard,    *)
(* which shows all jobs, they stand for any two.  Created_at and           *)
(* updated_at are units of time, PerMilli to a millisecond.                *)
(*                                                                         *)
(* React applies what it is told to setJobs at the next render, in order,  *)
(* or at once when nothing waits.  Here the list is what it will be then.  *)
(* Only jobIdsRef is changed apart from it: by a first page and a removal  *)
(* at once, by a further page when its updater runs.  Clicks see what was  *)
(* rendered last: one before the render is one before the reply.           *)
(***************************************************************************)
EXTENDS Integers, Sequences, SequencesExt

CONSTANTS
  Jobs,         \* the jobs of one tenant, numbers in the order of their ids
  Old,          \* those that are in the table at the start
  Fetches,      \* bound: requests for pages in flight
  PageSize,     \* DEFAULT_LIMIT
  PerMilli,     \* what a timestamp of the table resolves and a Date does not
  MaxTime,      \* bound: the clock of the table
  MaxChanges,   \* bound: changes of status
  MaxRefetches, \* bound: refetches after the user's own actions
  NoCursor      \* null

ASSUME Ids == IsFiniteSet(Jobs) /\ Jobs \subseteq Nat /\ Old \subseteq Jobs /\ NoCursor \notin [ts : Int, id : Int]
ASSUME Sizes == PageSize \in Nat \ {0} /\ PerMilli \in Nat \ {0}
ASSUME Bounds == MaxTime \in Nat /\ MaxChanges \in Nat /\ MaxRefetches \in Nat

VARIABLES
  view,        \* which client: "dashboard", "dlq" (the page) or "api" (GET /dlq)
  now,         \* the clock of the table
  key,         \* key[j]: the column the view sorts by
  table,       \* jobs whose INSERT is committed
  dead,        \* dead[j]: status = 'dead_letter'
  changes,     \* changes of status so far
  inbox,       \* messages on their way to the page's socket
  list,        \* jobs, the rows the client has, or will after the next render
  ids,         \* jobIdsRef of the two pages
  unrendered,  \* jobs of the replies to loadMore whose updaters have not run
  nextCursor,
  loading,
  loadingMore,
  fetch,       \* fetch[f]: a GET for a page
  refetches,   \* how much of MaxRefetches is used up
  base,        \* history: rows the list owes, see Kept
  brought,     \* history: jobs of the list's pages
  mixed,       \* history: the list has a page asked for before its first page came
  missed       \* history: rows that no message will correct

server == <<now, key, table, dead, changes>>
page == <<list, ids, unrendered, nextCursor, loading, loadingMore>>
history == <<base, brought, mixed, missed>>
vars == <<view, server, inbox, page, fetch, refetches, history>>

Cursors == [ts : 0 .. MaxTime, id : Jobs]
NoFetch == [pc |-> "idle", append |-> FALSE, cursor |-> NoCursor, rows |-> <<>>,
            next |-> NoCursor, base |-> {}, skipped |-> {}, missed |-> {}, stale |-> FALSE]

\* A request for the first page, or for the page after a cursor.
Asked(cursor, append) == [NoFetch EXCEPT !.pc = "sent", !.cursor = cursor, !.append = append]

\* The client starts with a request for the first page; the old jobs have any
\* status and any time (on the dashboard the status they start with is no matter).
Init ==
  /\ view \in {"dashboard", "dlq", "api"}
  /\ now \in 0 .. MaxTime
  /\ key \in {k \in [Jobs -> -1 .. now] : \A j \in Jobs : j \in Old <=> k[j] # -1}
  /\ table = Old /\ changes = 0
  /\ dead \in {d \in [Jobs -> BOOLEAN] : \A j \in Jobs : d[j] => j \in Old /\ view # "dashboard"}
  /\ inbox = {}
  /\ list = <<>> /\ ids = {} /\ unrendered = {} /\ nextCursor = NoCursor
  /\ loading = TRUE /\ loadingMore = FALSE
  /\ \E f \in Fetches : fetch = [g \in Fetches |-> IF g = f THEN Asked(NoCursor, FALSE) ELSE NoFetch]
  /\ refetches = 0
  /\ base = {} /\ brought = {} /\ mixed = FALSE /\ missed = {}

\* S as a sequence in the order of op; there is one where op orders S.
InOrder(S, op(_, _)) ==
  {s \in [1 .. Cardinality(S) -> S] :
     (\A m, n \in DOMAIN s : m < n => op(s[m], s[n])) /\ Range(s) = S}

\* Places of a sequence, from first to last, and the rows there.
Rising(places) == InOrder(places, <)
Picked(rows, places) == [n \in DOMAIN places |-> rows[places[n]]]

-----------------------------------------------------------------------------
(* The table. *)

\* The INSERT of a job takes its time from the clock ...
Stamp(j) ==
  /\ key[j] = -1
  /\ now' \in now .. MaxTime
  /\ key' = [key EXCEPT ![j] = now']
  /\ UNCHANGED <<view, table, dead, changes, inbox, page, fetch, refetches, history>>

\* ... and its row is there when it commits.
Commit(j) ==
  /\ key[j] # -1 /\ j \notin table
  /\ table' = table \cup {j}
  /\ UNCHANGED <<view, now, key, dead, changes, inbox, page, fetch, refetches, history>>

\* The status of a job changes; the sockets are told, in no particular order,
\* for each process that changes jobs tells of its own changes.
Change(j) ==
  /\ j \in table /\ changes < MaxChanges
  /\ changes' = changes + 1
  /\ dead' = [dead EXCEPT ![j] = ~ @]
  /\ IF view = "api"
     THEN /\ now' \in now .. MaxTime
          /\ key' = [key EXCEPT ![j] = now']
          /\ UNCHANGED inbox
     ELSE /\ inbox' = inbox \cup {[job |-> j, dead |-> ~ dead[j], at |-> changes]}
          /\ UNCHANGED <<now, key>>
  /\ base' = base \ {j}
  /\ fetch' = [f \in Fetches |-> [fetch[f] EXCEPT !.base = @ \ {j}]]
  /\ UNCHANGED <<view, table, page, refetches, brought, mixed, missed>>

-----------------------------------------------------------------------------
(* The server: listJobs and GET /dlq. *)

\* ORDER BY created_at DESC, id DESC, or updated_at.
Before(i, j) == key[i] > key[j] \/ (key[i] = key[j] /\ i > j)

\* The jobs of a WHERE clause, in that order.
Sorted(jobs) == InOrder(jobs, Before)

Matching == {j \in table : view = "dashboard" \/ dead[j]}

\* A timestamp in a cursor went through a Date, which has milliseconds.
Truncated(t) == (t \div PerMilli) * PerMilli

\* The cursorFilter.
After(cursor) ==
  {j \in Matching : \/ cursor = NoCursor
                    \/ key[j] < cursor.ts
                    \/ key[j] = cursor.ts /\ j < cursor.id}

FirstOf(rows, n) == SubSeq(rows, 1, Min({n, Len(rows)}))

\* Mutant: one row less, and so never a next page.
LimitOfPage(rows) == FirstOf(rows, PageSize)

\* LIMIT pageSize + 1
Limit(rows) == FirstOf(rows, PageSize + 1)

\* Mutant: the row too many is sent.
Uncut(rows) == rows

\* data: without the row that only tells of a next page.
Data(rows) == FirstOf(rows, PageSize)

\* Mutant: the cursor names the row too many, which the next page leaves out.
CursorOfExtra(rows) ==
  IF Len(rows) > PageSize
  THEN [ts |-> Truncated(key[rows[Len(rows)]]), id |-> rows[Len(rows)]]
  ELSE NoCursor

CursorOf(rows) ==
  IF Len(rows) > PageSize
  THEN [ts |-> Truncated(key[rows[PageSize]]), id |-> rows[PageSize]]
  ELSE NoCursor

\* Rows between a page and its cursor's truncated time: no page has them.
Skipped(next) ==
  {j \in Matching : next # NoCursor /\ Before(next.id, j) /\ j \notin After(next)}

\* A replica answers.
Read(f) ==
  /\ fetch[f].pc = "sent"
  /\ \E all \in Sorted(After(fetch[f].cursor)) :
     LET rows == Limit(all)
         data == Data(rows)
         next == CursorOf(rows)
     IN fetch' = [fetch EXCEPT ![f].pc = "read", ![f].cursor = NoCursor,
                    ![f].rows = [n \in DOMAIN data |-> [job |-> data[n], dead |-> dead[data[n]]]],
                    ![f].next = next, ![f].skipped = Skipped(next),
                    ![f].base = IF fetch[f].append THEN {} ELSE Matching]
  /\ UNCHANGED <<view, server, inbox, page, refetches, history>>

-----------------------------------------------------------------------------
(* The client: useJobs. *)

\* fetchPage()
Refetch(f) ==
  /\ fetch[f] = NoFetch
  /\ loading' = TRUE
  /\ fetch' = [fetch EXCEPT ![f] = Asked(NoCursor, FALSE)]

\* The page refetches after an action of its user's, which may have been asked
\* for before the list became what it is.
UserRefetch(f) ==
  /\ refetches < MaxRefetches
  /\ refetches' = refetches + 1
  /\ Refetch(f)
  /\ UNCHANGED <<view, server, inbox, list, ids, unrendered, nextCursor, loadingMore, history>>

\* After a submission that succeeded.
OnSubmitted(f) == view = "dashboard" /\ UserRefetch(f)

\* After a cancel, whether it succeeded or not.
HandleCancel(f) == view = "dashboard" /\ UserRefetch(f)

\* After a retry that succeeded.
OnRetried(f) == view = "dlq" /\ UserRefetch(f)

\* A table being loaded is not drawn, and more loading disables its button until
\* the rows are rendered.
Button == ~ loading /\ ~ loadingMore /\ unrendered = {} /\ nextCursor # NoCursor

LoadMore(f) ==
  /\ Button
  /\ fetch[f] = NoFetch
  /\ loadingMore' = TRUE
  /\ fetch' = [fetch EXCEPT ![f] = Asked(nextCursor, TRUE)]
  /\ UNCHANGED <<view, server, inbox, list, ids, unrendered, nextCursor, loading, refetches, history>>

JobsOf(rows) == {rows[n].job : n \in DOMAIN rows}

\* Mutant: nothing is left out.
FreshUnfiltered(rows) == DOMAIN rows

\* Where the rows are that jobIdsRef does not have when the updater runs: a job
\* removed or replaced before is filtered or replaced again after it.  A client of
\* the API takes what it gets.
Fresh(rows) == {n \in DOMAIN rows : view = "api" \/ rows[n].job \notin ids \cup unrendered}

\* Jobs the list owes: they were there when its first page was read, have not
\* changed since, and no cursor has skipped them.  A removal settles nothing.
Kept(f) == (IF fetch[f].append THEN base ELSE fetch[f].base) \ fetch[f].skipped

Done(f) ==
  IF fetch[f].append THEN loadingMore' = FALSE /\ UNCHANGED loading
                     ELSE loading' = FALSE /\ UNCHANGED loadingMore

\* The reply to a refetch replaces the list, whatever has come before.
Replace(f) ==
  /\ fetch[f].pc = "read" /\ ~ fetch[f].append
  /\ list' = fetch[f].rows /\ ids' = JobsOf(fetch[f].rows)
  /\ nextCursor' = fetch[f].next
  /\ Done(f)
  /\ fetch' = [g \in Fetches |-> IF g = f THEN NoFetch ELSE [fetch[g] EXCEPT !.stale = @ \/ fetch[g].append]]
  /\ base' = Kept(f) /\ brought' = JobsOf(fetch[f].rows)
  /\ mixed' = FALSE /\ missed' = fetch[f].missed
  /\ UNCHANGED <<view, server, inbox, unrendered, refetches>>

\* The reply to loadMore is appended; jobIdsRef follows.
Extend(f) ==
  /\ fetch[f].pc = "read" /\ fetch[f].append
  /\ \E fresh \in Rising(Fresh(fetch[f].rows)) : list' = list \o Picked(fetch[f].rows, fresh)
  /\ unrendered' = IF view = "api" THEN {} ELSE unrendered \cup JobsOf(fetch[f].rows)
  /\ nextCursor' = fetch[f].next
  /\ Done(f)
  /\ fetch' = [fetch EXCEPT ![f] = NoFetch]
  /\ base' = Kept(f) /\ brought' = brought \cup JobsOf(fetch[f].rows)
  /\ mixed' = (mixed \/ fetch[f].stale) /\ missed' = missed \cup fetch[f].missed
  /\ UNCHANGED <<view, server, inbox, ids, refetches>>

\* The updaters run, whatever has become of the list: jobIdsRef has all the rows
\* of their replies, those the list lacks as well.
Render ==
  /\ unrendered # {}
  /\ ids' = ids \cup unrendered /\ unrendered' = {}
  /\ UNCHANGED <<view, server, inbox, list, nextCursor, loading, loadingMore, fetch, refetches, history>>

\* A request fails: the list stays, and only the flag is reset.
Fail(f) ==
  /\ fetch[f] # NoFetch
  /\ Done(f)
  /\ fetch' = [fetch EXCEPT ![f] = NoFetch]
  /\ UNCHANGED <<view, server, inbox, list, ids, unrendered, nextCursor, refetches, history>>

-----------------------------------------------------------------------------
(* The client: messages of the WebSocket. *)

\* Mutant: rows are not updated.
UpdatedNot(msg) == list

\* updateJob
Updated(msg) ==
  [n \in DOMAIN list |-> IF list[n].job = msg.job THEN [list[n] EXCEPT !.dead = msg.dead] ELSE list[n]]

\* jobIdsRef in removeJob
IdsWithout(job) == ids \ {job}

RemoveJob(job) ==
  /\ \E left \in Rising({n \in DOMAIN list : list[n].job # job}) : list' = Picked(list, left)
  /\ ids' = IdsWithout(job)

\* Rows read before a message came are shown after it.
Overtake(job, fetches) ==
  [f \in Fetches |-> IF fetches[f].pc = "read" THEN [fetches[f] EXCEPT !.missed = @ \cup {job}] ELSE fetches[f]]

\* The message is late: the job has changed again, and of that the page was told.
Outdated(msg) == msg.dead # dead[msg.job] /\ \A other \in inbox \ {msg} : other.job # msg.job

\* hasJob does not know the row yet.
Early(msg) == view = "dashboard" /\ msg.job \in unrendered \ ids

Receive(msg) ==
  /\ inbox' = inbox \ {msg}
  /\ missed' = IF Outdated(msg) \/ Early(msg) THEN missed \cup {msg.job} ELSE missed
  /\ UNCHANGED <<view, server, unrendered, nextCursor, loadingMore, refetches, base, brought, mixed>>

\* onMessage of the two pages: a row is updated, or removed ...
Patch(msg) ==
  /\ \/ view = "dashboard" /\ msg.job \in ids
        /\ list' = Updated(msg) /\ UNCHANGED ids
     \/ view = "dlq" /\ ~ msg.dead /\ RemoveJob(msg.job)
  /\ fetch' = Overtake(msg.job, fetch)
  /\ Receive(msg) /\ UNCHANGED loading

\* ... or the first page is fetched again.
Reload(msg, f) ==
  /\ \/ view = "dashboard" /\ msg.job \notin ids
     \/ view = "dlq" /\ msg.dead
  /\ fetch[f] = NoFetch
  /\ loading' = TRUE
  /\ fetch' = Overtake(msg.job, [fetch EXCEPT ![f] = Asked(NoCursor, FALSE)])
  /\ Receive(msg) /\ UNCHANGED <<list, ids>>

\* A message is lost on its way, or was never sent, as by the sweep.
Drop(msg) ==
  /\ inbox' = inbox \ {msg}
  /\ missed' = missed \cup {msg.job}
  /\ fetch' = Overtake(msg.job, fetch)
  /\ UNCHANGED <<view, server, page, refetches, base, brought, mixed>>

Next ==
  \/ \E j \in Jobs : Stamp(j) \/ Commit(j) \/ Change(j)
  \/ \E f \in Fetches : Read(f) \/ OnSubmitted(f) \/ HandleCancel(f) \/ OnRetried(f) \/ LoadMore(f) \/ Replace(f) \/ Extend(f) \/ Fail(f)
  \/ Render
  \/ \E msg \in inbox : Patch(msg) \/ Drop(msg) \/ \E f \in Fetches : Reload(msg, f)

Spec == Init /\ [][Next]_vars

-----------------------------------------------------------------------------
(* Correctness. *)

Rows == Seq([job : Jobs, dead : BOOLEAN])

Requests ==
  [pc : {"idle", "sent", "read"}, append : BOOLEAN, cursor : Cursors \cup {NoCursor}, rows : Rows,
   next : Cursors \cup {NoCursor}, base : SUBSET Jobs, skipped : SUBSET Jobs, missed : SUBSET Jobs,
   stale : BOOLEAN]

\* Every variable holds values of its type; a reply has at most a page.
TypeOK ==
  /\ view \in {"dashboard", "dlq", "api"}
  /\ now \in 0 .. MaxTime /\ key \in [Jobs -> -1 .. MaxTime]
  /\ table \subseteq Jobs /\ dead \in [Jobs -> BOOLEAN] /\ changes \in 0 .. MaxChanges
  /\ inbox \subseteq [job : Jobs, dead : BOOLEAN, at : 0 .. MaxChanges]
  /\ list \in Rows /\ ids \subseteq Jobs /\ unrendered \subseteq Jobs /\ nextCursor \in Cursors \cup {NoCursor}
  /\ loading \in BOOLEAN /\ loadingMore \in BOOLEAN
  /\ refetches \in 0 .. MaxRefetches
  /\ base \subseteq Jobs /\ brought \subseteq Jobs /\ mixed \in BOOLEAN /\ missed \subseteq Jobs
  /\ fetch \in [Fetches -> Requests]
  /\ \A f \in Fetches : Len(fetch[f].rows) <= PageSize

\* The list never has a job twice, and jobIdsRef has every row of the list, or
\* will at the next render, in whatever order replies, messages, refetches and
\* renders come (useJobs.ts:30-39, 56-65); a client that only follows cursors gets
\* no job twice though jobs move to the front of GET /dlq meanwhile (README.md:170).
EachJobOnce ==
  /\ \A m, n \in DOMAIN list : list[m].job = list[n].job => m = n
  /\ view # "api" => JobsOf(list) \subseteq ids \cup unrendered

\* Jobs that the list's pages brought and that it lacks: a message took them out,
\* which may have been about an earlier change (DLQ.tsx:15), or they were left out
\* of a page for a jobIdsRef that had kept them from a list replaced before the
\* render (useJobs.ts:32-33, 37).
Lacked == brought \ JobsOf(list)

\* The cursors leave no gap: a job that was there when the first page was read,
\* has not changed since, and comes before a row of the list, is listed before it
\* (job.service.ts:93-110, dlq.routes.ts:20-38, useJobs.ts:18-47).  Three things
\* undo that: a cursor's millisecond (Kept), a page that was asked for before the
\* list's first page came (mixed), and what the page itself takes out (Lacked).
NoGaps ==
  mixed \/ \A j \in base \ Lacked, n \in DOMAIN list :
             Before(j, list[n].job) => \E m \in 1 .. n : list[m].job = j

\* When there is no next page the list has all it owes, but for the same three
\* things (job.service.ts:108-110).
EndIsTheEnd == mixed \/ (nextCursor = NoCursor => base \ Lacked \subseteq JobsOf(list))

\* A row with an old status will be corrected by a message, unless that was lost,
\* overtaken by a later one, or came between the reading of the row and its
\* rendering (Dashboard.tsx:21-30, DLQ.tsx:10-18, useJobs.ts:58-65).
RowsAreCorrected ==
  view # "api" => \A n \in DOMAIN list :
    LET j == list[n].job IN
    list[n].dead # dead[j] => j \in missed \/ \E msg \in inbox : msg.job = j

=============================================================================
