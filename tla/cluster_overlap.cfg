\* Is a cluster that is ready set up, although actions overlap?
SPECIFICATION Spec
CONSTANTS
    Nothing = Nothing
    MaxAccounts = 6
    MaxEdits = 1
    MaxLag = 1
    MaxFaults = 0
CHECK_DEADLOCK FALSE
INVARIANT ReadyInAnyOrder
