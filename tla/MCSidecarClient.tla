--------------------------- MODULE MCSidecarClient ---------------------------
(***************************************************************************)
(* SidecarClient with two callers.                                         *)
(***************************************************************************)
EXTENDS SidecarClient

CONSTANTS c1, c2

MCCallers == {c1, c2}
=============================================================================
