---------------------------- MODULE MCAuthGrants ----------------------------
(* An instance of AuthGrants: a principal, a group of each kind, and grants *)
(* on a group, on what is one's own and on oneself.                         *)
EXTENDS AuthGrants

CONSTANTS p1, pgroup, r1, rgroup, tgroup, x1, y1

MCContents ==
    [c \in Watched |->
        CASE c = "principals"  -> {{p1}}
          [] c = "permissions" -> {{r1}}
          [] c = "owned"       -> {{}, {<<p1, y1>>}}
          [] c = pgroup        -> {{p1}}
          [] c = rgroup        -> {{r1}}
          [] c = tgroup        -> {{x1}, {x1, y1}}
          [] OTHER             -> {{}}]

ToGroup  == [principal |-> pgroup, permission |-> rgroup, target |-> tgroup, plural |-> TRUE]
ToOwner  == [principal |-> p1, permission |-> r1, target |-> Mine, plural |-> TRUE]
ToItself == [principal |-> p1, permission |-> r1, target |-> Self, plural |-> FALSE]

MCGrant  == {ToGroup, ToOwner, ToItself}
MCDump   == {{ToItself}, {ToGroup}}
MCRights == {None, {r1}, {r1, rgroup}}
=============================================================================
