\* Two devices that move freely between a Node address and a Device address.
SPECIFICATION Spec
CONSTANTS
    d1 = d1
    d2 = d2
    n = n
    c = c
    Device <- MCDevice
    Address <- MCAddress
    Schema <- MCNoSchema
    Scope <- MCScope
    MaxId = 6
SYMMETRY DeviceSymmetry
INVARIANTS TypeOK DeviceChain AddressChain OneCurrent OnlineIsCurrent
PROPERTIES PruneInvisible WantedKept
