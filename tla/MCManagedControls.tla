-------------------------- MODULE MCManagedControls --------------------------
(***************************************************************************)
(* Two programs: the first is assigned at first, and may move to another   *)
(* place or go; the second may come with a better primacy, with an event   *)
(* in its control list, with none, or without a list.                      *)
(***************************************************************************)
EXTENDS ManagedControls

MCPrograms == {1, 2}

Entry(primacy, place, event) == [primacy |-> primacy, place |-> place, event |-> event]
Unassigned == Entry(0, 0, FALSE)

MCEntries(p) ==
  IF p = 1 THEN {Unassigned, Entry(2, 1, TRUE), Entry(2, 2, TRUE)}
  ELSE {Unassigned, Entry(1, 1, TRUE), Entry(1, 1, FALSE), Entry(1, 0, FALSE)}

MCStart == [p \in MCPrograms |-> IF p = 1 THEN Entry(2, 1, TRUE) ELSE Unassigned]
=============================================================================
