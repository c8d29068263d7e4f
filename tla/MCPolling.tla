------------------------------ MODULE MCPolling ------------------------------
(* Instances of Polling for TLC.                                           *)
EXTENDS Polling

CONSTANT d1

(* The jobs of one device, with one that is not about a device.            *)
OneDevice == <<Check(d1), <<"lifecycle-sync", "all">>>>
Periods   == [j \in Recurring |-> IF j = Check(d1) THEN INTERVAL ELSE 2]
Listed    == <<d1>>

(* The devices are reached at one address.                                 *)
OneAddress == [d \in Devices |-> "a"]
=============================================================================
