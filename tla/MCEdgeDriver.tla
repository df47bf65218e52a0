--------------------------- MODULE MCEdgeDriver ---------------------------
(* Instances of EdgeDriver for TLC. *)
EXTENDS EdgeDriver

CONSTANTS d1, d2

MCOneDevice  == {d1}
MCTwoDevices == {d1, d2}
MCConf       == ConfKind
=============================================================================
