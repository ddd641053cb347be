---------------------------- MODULE MCSubmission ----------------------------
(* Submission on a small instance: the cfg file names requests and keys. *)
EXTENDS Submission

CONSTANTS
  R1, R2, R3, R4,  \* requests
  K1               \* an idempotency key

\* Three requests share a key, one has none.
ThreeAlike == [r \in Requests |-> IF r = R4 THEN NoKey ELSE K1]

=============================================================================
