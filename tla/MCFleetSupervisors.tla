------------------------- MODULE MCFleetSupervisors -------------------------
(***************************************************************************)
(* FleetSupervisors on two fleets: one comes up and may be restarted; the  *)
(* other may fail to start, but its process does not exit by itself.       *)
(***************************************************************************)
EXTENDS FleetSupervisors

CONSTANTS f1, f2

MCFleets == {f1, f2}
MCMaxGen == [f \in MCFleets |-> IF f = f1 THEN 2 ELSE 0]
=============================================================================
