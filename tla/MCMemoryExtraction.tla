------------------------- MODULE MCMemoryExtraction -------------------------
(* The instances that TLC checks; the .cfg files give the constants values. *)
EXTENDS MemoryExtraction
=============================================================================
