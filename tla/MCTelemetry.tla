---------------------------- MODULE MCTelemetry ----------------------------
(***************************************************************************)
(* Telemetry with runs, ids and calls that are alike: renaming any of them *)
(* maps behaviours to behaviours.                                          *)
(***************************************************************************)
EXTENDS Telemetry, TLC

Alike == Permutations(Runs) \cup Permutations(Ids) \cup Permutations(Calls)
=============================================================================
