------------------------------ MODULE MCEvents ------------------------------
(***************************************************************************)
(* EventStateMachine on two events and a clock of a few ticks.             *)
(***************************************************************************)
EXTENDS EventStateMachine

CONSTANTS a, b

MCMRIDs == {a, b}

\* A window that can start late, and one that can expire as it fires.
MCIntervals ==
  {[start |-> 1, duration |-> 1, randomizeStart |-> 1, randomizeDuration |-> 0],
   [start |-> 1, duration |-> 0, randomizeStart |-> 0, randomizeDuration |-> 1]}
=============================================================================
