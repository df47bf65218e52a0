-------------------------- MODULE MCConfigObjects --------------------------
(* Model-checking instances of ConfigObjects.                              *)
EXTENDS ConfigObjects, TLC

CONSTANTS r1, r2, s, a, b, p

MCObject == {r1, r2, s, a, b}
MCRankClass == 0 :> r1 @@ 1 :> r2
MCOwner == {Unowned, p}

(* Bound: an owner is there for PUTs that change it and are refused or not,*)
(* of one object and one at a time.                                        *)
Owners ==
    LET registers == {r \in open : r.op = "register"}
    IN  {object[o].owner : o \in DOMAIN object}
            \cup {registration[o].owner : o \in DOMAIN object}
            \cup {r.owner : r \in {q \in open : q.op = "create"}}
            \cup {r.from.owner : r \in registers} \cup {r.spec.owner : r \in registers}

OwnedSmall ==
    p \in Owners => /\ Cardinality(DOMAIN object) + Cardinality(open) < MaxLoad
                    /\ \A r \in open : r.op = "register"

(* Bound: nothing is looked at that comes after a circle, or after a       *)
(* request that was overtaken has written.                                 *)
UntilOvertaken == ~circled /\ ~overtaken

ObjectsSymmetry == Permutations({a, b})
=============================================================================
