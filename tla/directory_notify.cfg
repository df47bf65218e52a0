\* Two devices that move between two addresses, with and without a schema.
SPECIFICATION NotifySpec
CONSTANTS
    d1 = d1
    d2 = d2
    n = n
    c = c
    s1 = s1
    Device <- MCDevices
    Address <- MCAddresses
    Schema <- MCOneSchema
    Scope <- MCScope
    MaxId = 3
    MaxHandlers = 3
SYMMETRY NotifySymmetry
INVARIANTS LatestAnnounced PublishedExact
CHECK_DEADLOCK FALSE
