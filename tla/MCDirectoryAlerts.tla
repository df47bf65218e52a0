------------------------- MODULE MCDirectoryAlerts -------------------------
(* Model-checking instances of DirectoryAlerts.                            *)
EXTENDS DirectoryAlerts, FiniteSets, TLC

CONSTANTS d1, d2, a1, a2, x1

MCDevice == {d1, d2}
MCAlert  == {a1, a2}
MCAlias  == {x1}

(* Bounds: updates overlap where there is only one alert; the last BIRTH   *)
(* of one device at a time was not indexed.                                *)
Involved == DOMAIN alert \cup UNION {Declares(binding[d]) : d \in Device}
OverlapSmall == BagCardinality(updates) > 1 => Cardinality(Involved) <= 1
FewFail == Cardinality(unindexed) <= 1

AlertsSymmetry == Permutations(MCDevice) \cup Permutations(MCAlert)
=============================================================================
