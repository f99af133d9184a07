------------------------------ MODULE RoleGuard ------------------------------
(***************************************************************************)
(* The guard in front of every request, internal/inverter/guard/guard.go:  *)
(* what a role may do for its own EndDevice, and an aggregator for the     *)
(* devices it manages.  The names of the kinds are the code's.             *)
(***************************************************************************)
CONSTANT Self   \* the LFDI of the process's own EndDevice

Roles == {"der", "aggregator"}

\* The one method a request of each kind uses.
KindMethod ==
  [EndDeviceRead |-> "GET", RegistrationRead |-> "GET",
   DERResourceWrite |-> "PUT", FlowReservationWithdraw |-> "PUT",
   EndDeviceWrite |-> "PUT", DefaultControlWrite |-> "PUT",
   LogEventPost |-> "POST", SubscriptionPost |-> "POST", ResponsePost |-> "POST",
   MirrorPost |-> "POST", EndDeviceCreate |-> "POST", FlowReservationPost |-> "POST",
   FlowReservationResponsePost |-> "POST", EndDeviceDelete |-> "DELETE"]

Kinds == DOMAIN KindMethod

DERSelfKinds ==
  {"EndDeviceRead", "RegistrationRead", "DERResourceWrite", "LogEventPost",
   "SubscriptionPost", "ResponsePost", "MirrorPost", "EndDeviceCreate"}

AggregatorSelfKinds ==
  {"EndDeviceRead", "RegistrationRead", "LogEventPost", "SubscriptionPost",
   "FlowReservationPost", "FlowReservationResponsePost", "FlowReservationWithdraw"}

SelfAllowed(role) == IF role = "aggregator" THEN AggregatorSelfKinds ELSE DERSelfKinds

\* M1 to M6.
ManagerKinds ==
  {"EndDeviceRead", "DERResourceWrite", "LogEventPost", "SubscriptionPost",
   "ResponsePost", "MirrorPost"}

\* A guard knows its role, the devices it manages and the in-band actions that
\* were opened, of "create" and "delete".
NewGuard(role) == [role |-> role, managed |-> {}, inBand |-> {}]

\* What a manager may do for another device.  Creating one starts management,
\* so it does not ask for it.
ManagerAllowed(guard, kind, target) ==
  \/ kind = "EndDeviceCreate" /\ "create" \in guard.inBand
  \/ kind \in ManagerKinds /\ target \in guard.managed
  \/ kind = "EndDeviceDelete" /\ "delete" \in guard.inBand /\ target \in guard.managed

Allow(guard, request) ==
  /\ KindMethod[request.kind] = request.method
  /\ IF request.target = Self
       THEN request.kind \in SelfAllowed(guard.role)
       ELSE /\ guard.role = "aggregator"
            /\ ManagerAllowed(guard, request.kind, request.target)
=============================================================================
