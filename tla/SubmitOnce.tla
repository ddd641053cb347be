----------------------------- MODULE SubmitOnce -----------------------------
(***************************************************************************)
(* What the README promises of idempotency keys (README.md:139, 659-669):  *)
(* one job for each key however often it is submitted, and everybody who   *)
(* is given a job for a key is given that one.  A submission may also get  *)
(* no job at all (an error), and the client is free to try again.          *)
(***************************************************************************)
CONSTANTS
  Keys,     \* idempotency keys of one tenant
  Callers,  \* who submits with a key
  KeyOf,    \* the key of each caller
  Jobs,     \* job ids
  NoJob     \* no job yet

VARIABLES
  jobOf,    \* jobOf[k]: the job of key k
  answer    \* answer[c]: the job caller c was given

vars == <<jobOf, answer>>

Init ==
  /\ jobOf = [k \in Keys |-> NoJob]
  /\ answer = [c \in Callers |-> NoJob]

Create(k, j) ==
  /\ jobOf[k] = NoJob
  /\ \A other \in Keys : jobOf[other] # j
  /\ jobOf' = [jobOf EXCEPT ![k] = j]
  /\ UNCHANGED answer

Answer(c) ==
  /\ answer[c] = NoJob /\ jobOf[KeyOf[c]] # NoJob
  /\ answer' = [answer EXCEPT ![c] = jobOf[KeyOf[c]]]
  /\ UNCHANGED jobOf

Next == (\E k \in Keys, j \in Jobs : Create(k, j)) \/ (\E c \in Callers : Answer(c))

Spec == Init /\ [][Next]_vars

=============================================================================
