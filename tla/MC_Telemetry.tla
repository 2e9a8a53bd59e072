---------------------------- MODULE MC_Telemetry ----------------------------
(* One device with two channels, one QP id and one WQE id; timestamps 0..4 *)
(* and two buckets of 2 ns, so that completions of 4 ns pass the last one. *)
EXTENDS Telemetry

CONSTANTS d1, c1, c2, q1, w1

MCTimes == 0 .. 4
=============================================================================
