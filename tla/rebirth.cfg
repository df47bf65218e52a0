\* Is what is shown true and known, and what was missed indexed in the end?
SPECIFICATION FairSpec
CONSTANTS
    n = n
    c = c
    Address <- MCAddress
    Node <- MCNode
    FaultSets <- MCFaultSets
    MaxQueue = 2
INVARIANTS RebirthTypeOK OpenIsKnown IndexTrue
PROPERTY Recovers
