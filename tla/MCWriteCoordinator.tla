-------------------------- MODULE MCWriteCoordinator --------------------------
(* Small instances of WriteCoordinator for TLC.                             *)
EXTENDS WriteCoordinator, TLC

Symmetry == Permutations(Procs)
=============================================================================
