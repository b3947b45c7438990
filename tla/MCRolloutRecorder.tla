-------------------------- MODULE MCRolloutRecorder --------------------------
(* The instance that TLC checks; the .cfg files give the constants values. *)
EXTENDS RolloutRecorder, TLC
=============================================================================
