---------------------------- MODULE MCFleetDevice ----------------------------
(* Two goroutines use one device: two setpoints, two restarts, three faults. *)
EXTENDS FleetDevice, TLC

CONSTANTS c1, c2

MCCallers == {c1, c2}
=============================================================================
