-------------------------- MODULE MCTurnLifecycle --------------------------
(* Small instances of TurnLifecycle; the items are model values.           *)
EXTENDS TurnLifecycle
=============================================================================
