------------------------------ MODULE MCStartUp ------------------------------
(***************************************************************************)
(* StartUp for both roles, with and without the options that change the    *)
(* path, against a server that advertises everything or lacks something.   *)
(***************************************************************************)
EXTENDS StartUp

CONSTANTS self, d1, d2

MCDevices == {d1, d2}

DER(csip, allowUnregistered, pin) ==
  [role |-> "der", csip |-> csip, allowUnregistered |-> allowUnregistered, pin |-> pin,
   notify |-> TRUE, simFile |-> FALSE, fleets |-> FALSE, managed |-> {}]
Aggregator(managed, simFile, notify) ==
  [role |-> "aggregator", csip |-> FALSE, allowUnregistered |-> FALSE, pin |-> TRUE,
   notify |-> notify, simFile |-> simFile, fleets |-> notify, managed |-> managed]

MCConfigs ==
  {DER(csip, allow, pin) : csip \in BOOLEAN, allow \in BOOLEAN, pin \in BOOLEAN} \cup
  {Aggregator({}, FALSE, TRUE), Aggregator({d1, d2}, TRUE, TRUE),
   Aggregator({d1}, TRUE, FALSE), Aggregator({d1, self}, TRUE, TRUE),
   Aggregator({}, TRUE, TRUE),
   [Aggregator({}, FALSE, TRUE) EXCEPT !.csip = TRUE],
   [DER(TRUE, FALSE, TRUE) EXCEPT !.fleets = TRUE],
   [DER(TRUE, FALSE, TRUE) EXCEPT !.simFile = TRUE, !.managed = {d1}]}

MCCapabilities ==
  {{}, {"other"}, {"edevList"}, {"edevList", "time"}, {"edevList", "time", "mirrors"}}

AllLinks == {"registration", "subscriptions", "fsa", "ders", "logEvents", "reservations"}
MCEndDevices == {{}, AllLinks, AllLinks \ {"registration"}, AllLinks \ {"fsa"}, {"fsa", "ders"}}

MCPrograms == {{}, {"controls"}, {"default", "controls", "curves"}}
=============================================================================
