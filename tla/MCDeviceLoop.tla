---------------------------- MODULE MCDeviceLoop ----------------------------
(***************************************************************************)
(* DeviceLoop for the own DER with and without alarms and mirrors, and for *)
(* a managed device with and without a DER.                                *)
(***************************************************************************)
EXTENDS DeviceLoop

CONSTANTS voltage, frequency

MCCodes == {voltage, frequency}

Own(interval, links, alarms) ==
  [managed |-> FALSE, interval |-> interval, every |-> 0, links |-> links, alarms |-> alarms]
Managed(interval, every, links) ==
  [managed |-> TRUE, interval |-> interval, every |-> every, links |-> links, alarms |-> {}]

MCSetups ==
  {Own(interval, {"mirrors"}, {}) : interval \in {0, 2}} \cup
  {Own(2, {"logEvents"}, {voltage, frequency}), Own(2, {}, {voltage}),
   Own(1, {"mirrors", "logEvents"}, {voltage})} \cup
  {Managed(2, 1, {"mirrors"}),
   Managed(1, 0, {"mirrors", "ders", "capability", "settings", "status"}),
   Managed(1, 2, {"ders", "status"})}
=============================================================================
