------------------------ MODULE MCDirectorySessions ------------------------
(* Model-checking instances of DirectorySessions.                          *)
EXTENDS DirectorySessions, TLC

CONSTANTS d1, d2, n, c

(* n is a Node, c one of its Devices: an NDEATH closes both.               *)
MCDevice  == {d1, d2}
MCAddress == {n, c}
MCScope   == [a \in MCAddress |-> IF a = n THEN {n, c} ELSE {c}]
MCNoSchema == {}

DeviceSymmetry == Permutations(MCDevice)
=============================================================================
