---------------------------- MODULE MCLiveCounts ----------------------------
(* LiveCounts on small instances: the cfg files name pages and replicas. *)
EXTENDS LiveCounts, TLC

\* Which request, replica or page is which does not matter.
Symmetry == Permutations(Fetches) \cup Permutations(Replicas) \cup Permutations(Dashboards)

=============================================================================
