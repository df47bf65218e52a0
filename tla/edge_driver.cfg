\* Do Edge Agent and driver agree, and is the connection established in the end?
SPECIFICATION FairSpec
CONSTANTS
    d1 = d1
    d2 = d2
    Device <- MCOneDevice
    Conf <- MCConf
    MaxFaults = 1
    MaxStatus = 2
INVARIANTS
    SidesAgree
    NotStranded
    AllWatched
PROPERTY Establishes
CHECK_DEADLOCK FALSE
