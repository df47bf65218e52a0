--------------------------- MODULE WatchedResource ---------------------------
(***************************************************************************)
(* What a watcher is promised (docs/services/notify-v2.md): it is shown    *)
(* states that the resource has had, and if the watch is ordered it is     *)
(* never taken back to one before that which it has been shown.            *)
(***************************************************************************)
EXTENDS Naturals, Sequences

VARIABLES
    states,     \* the states the resource has had, the present one last
    shown,      \* what the watcher has been shown last
    at,         \* which of the states that was; 0 before the first
    ordered     \* whether this watch is ordered

vars == <<states, shown, at, ordered>>

Init == Len(states) = 1 /\ at = 0

Change ==
    /\ Len(states') = Len(states) + 1
    /\ SubSeq(states', 1, Len(states)) = states
    /\ UNCHANGED <<shown, at, ordered>>

Show ==
    \E p \in 1..Len(states) :
        /\ ordered => p >= at
        /\ at' = p /\ shown' = states[p]
        /\ UNCHANGED <<states, ordered>>

Next == Change \/ Show

Spec == Init /\ [][Next]_vars
=============================================================================
