------------------------- MODULE MCDirectoryNotify -------------------------
(* Model-checking instances of DirectoryNotify.                            *)
EXTENDS DirectoryNotify, TLC

CONSTANTS d1, d2, n, c, s1

MCOneDevice == {d1}
MCDevices   == {d1, d2}
MCOneAddress == {c}
MCAddresses  == {n, c}
MCOneSchema == {s1}
MCScope     == [a \in Address |-> IF a = n THEN {n, c} \cap Address ELSE {a}]

NotifySymmetry == Permutations(MCDevices)
=============================================================================
