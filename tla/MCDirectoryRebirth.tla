------------------------- MODULE MCDirectoryRebirth -------------------------
(* Model-checking instances of DirectoryRebirth.                           *)
EXTENDS DirectoryRebirth

CONSTANTS n, c

(* A Node and one of its Devices.                                          *)
MCAddress == {n, c}
MCNode    == [a \in MCAddress |-> n]

(* Nothing goes wrong; handlers fail and start-up is slow; or the MQTT     *)
(* connection is lost.                                                     *)
MCFaultSets == {{}, {"birth", "death", "slow_close"}, {"disconnect"}}
=============================================================================
