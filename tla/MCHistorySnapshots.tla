------------------------- MODULE MCHistorySnapshots -------------------------
(* Instances of HistorySnapshots for TLC: interchangeable jobs and writers. *)
EXTENDS HistorySnapshots, TLC

Symmetry == Permutations(Jobs) \cup Permutations(Writers)
=============================================================================
