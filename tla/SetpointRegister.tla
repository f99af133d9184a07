--------------------------- MODULE SetpointRegister ---------------------------
(***************************************************************************)
(* What a fleet device promises of its setpoint, whatever its sidecar and  *)
(* its callers do: a register that may be reset, and that no write older   *)
(* than the newest one reported as done ever reaches.                      *)
(*                                                                         *)
(* Setpoints are numbered in the order the device took them; 0 is the      *)
(* output of a freshly loaded model.                                       *)
(***************************************************************************)
EXTENDS Naturals

VARIABLES commanded,  \* the newest setpoint ApplySetpoint reported as applied
          held        \* what the fleet's model holds

Init == commanded = 0 /\ held = 0

\* The sidecar restarts and loads the model from scratch.
Reset == held' = 0 /\ UNCHANGED commanded

\* A setpoint reaches the model: the newest reported one again, or one
\* that is newer.
Land == held' >= commanded /\ UNCHANGED commanded

\* A setpoint is reported as applied: the model holds it, unless a restart
\* took it since.
Report ==
  /\ commanded' > commanded
  /\ held \in {commanded', 0}
  /\ UNCHANGED held

Spec == Init /\ [][Reset \/ Land \/ Report]_<<commanded, held>>
=============================================================================
