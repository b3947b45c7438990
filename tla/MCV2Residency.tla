--------------------------- MODULE MCV2Residency ---------------------------
(* Small instances of V2Residency for TLC. *)
EXTENDS V2Residency, TLC

MCSymmetry == Permutations(Agents) \cup Permutations(Callers)
                \cup Permutations(Followups)
=============================================================================
