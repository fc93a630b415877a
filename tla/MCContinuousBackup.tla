------------------------- MODULE MCContinuousBackup -------------------------
(* Instances of ContinuousBackup for TLC: the cfg files give the bounds.     *)
EXTENDS ContinuousBackup
=============================================================================
