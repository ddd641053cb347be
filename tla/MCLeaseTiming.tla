--------------------------- MODULE MCLeaseTiming ---------------------------
(* LeaseTiming on a small instance; which incarnation is which does not matter. *)
EXTENDS LeaseTiming, TLC

Symmetry == Permutations(Workers)

=============================================================================
