\* Does an ACL follow the grants and the groups it is made from?
SPECIFICATION Spec
CONSTANTS
    p1 = p1
    pgroup = pgroup
    r1 = r1
    rgroup = rgroup
    tgroup = tgroup
    x1 = x1
    y1 = y1
    Mine = Mine
    Self = Self
    None = None
    Principal = {p1}
    Permission = {r1}
    Object = {x1, y1}
    PrincGroup = {pgroup}
    PermGroup = {rgroup}
    TargGroup = {tgroup, Mine}
    Contents <- MCContents
    Grant <- MCGrant
    Dump <- MCDump
    Rights <- MCRights
    Slot = {1, 2}
    MaxGrants = 2
    MaxRequests = 2
    MaxEdits = 1
    MaxFaults = 1
INVARIANT AnsweredIsSeen
PROPERTIES SeenForward AclSettles
CHECK_DEADLOCK FALSE
