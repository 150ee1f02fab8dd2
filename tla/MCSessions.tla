----------------------------- MODULE MCSessions -----------------------------
(* Sessions with interchangeable session ids: no property names one.       *)
EXTENDS Sessions, TLC

MCSymmetry == Permutations(SessionIds)
=============================================================================
