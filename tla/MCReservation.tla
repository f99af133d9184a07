---------------------------- MODULE MCReservation ----------------------------
(***************************************************************************)
(* Reservation with one way to charge and settings that are refused, and   *)
(* with offers that fit, exceed the request, deny it or are incomplete.    *)
(***************************************************************************)
EXTENDS Reservation

Wish(energy, power, startIn) ==
  [energy |-> energy, power |-> power, startIn |-> startIn, duration |-> 2,
   minLead |-> 0, grace |-> 1]

MCSettings == {Wish(-4, 20, 1), Wish(4, 21, 1), Wish(4, 2, 0), Wish(0, 2, 1)}

\* A grant in time, and one cancelled; an answer created late that exceeds what
\* was asked and in the other direction; a denial, and one that lacks a part.
Response(r, created, status, duration, energy, power, complete) ==
  [subject |-> r, created |-> created, status |-> status, asks |-> complete,
   offer |-> [start |-> 1, duration |-> duration, energy |-> energy, power |-> power,
              complete |-> complete]]

MCResponses ==
  {Response(r, 1, "live", 2, -2, 3, TRUE) : r \in 1..2} \cup
  {Response(r, 4, "live", 9, 9, 30, TRUE) : r \in 1..2} \cup
  {Response(1, 2, "cancelled", 2, -4, 20, TRUE),
   Response(2, 3, "live", 0, 0, 0, TRUE),
   Response(1, 2, "live", 2, 0, 0, FALSE)}
=============================================================================
