------------------------------ MODULE MCSession ------------------------------
(***************************************************************************)
(* DERControlSession on one event, every kind of list about it and both    *)
(* bits of responseRequired.                                               *)
(***************************************************************************)
EXTENDS DERControlSession

CONSTANT a

MCMRIDs == {a}

\* An event can be received at 1, started at 2 and over at 3.
MCIntervals ==
  {[start |-> 2, duration |-> 1, randomizeStart |-> 0, randomizeDuration |-> 0]}

MCServerLists == Lists

MCMasks == {{"receipt"}, {"actions"}}
=============================================================================
