----------------------- MODULE MCMemoryConsolidation -----------------------
(* The instance that TLC checks; the .cfg file gives the constants values. *)
EXTENDS MemoryConsolidation
=============================================================================
