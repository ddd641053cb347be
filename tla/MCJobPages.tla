----------------------------- MODULE MCJobPages -----------------------------
(* JobPages on small instances. *)
EXTENDS JobPages

\* Which request is which does not matter.
Symmetry == Permutations(Fetches)

=============================================================================
