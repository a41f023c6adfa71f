--------------------------- MODULE MCNodeRegistry ---------------------------
(* Instances of NodeRegistry for TLC: two devices with one hostname, of     *)
(* which one gets a second fingerprint.                                     *)
EXTENDS NodeRegistry

MCDevices   == {"a", "b"}
MCHostOf    == [d \in MCDevices |-> "raspberrypi"]
MCMaxPrints == [d \in MCDevices |-> IF d = "a" THEN 2 ELSE 1]
=============================================================================
