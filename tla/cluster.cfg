\* Is a cluster set up and removed in the end, whatever fails once?
SPECIFICATION Spec
CONSTANTS
    Nothing = Nothing
    MaxAccounts = 6
    MaxEdits = 1
    MaxLag = 1
    MaxFaults = 1
INVARIANTS Mirrored Accounted ReadyIsSetUp
PROPERTY Settled
CHECK_DEADLOCK FALSE
