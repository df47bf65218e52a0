\* Are alerts shown as they were last published, as alerts come, go and move?
SPECIFICATION AlertsSpec
CONSTANTS
    d1 = d1
    d2 = d2
    a1 = a1
    a2 = a2
    x1 = x1
    Device <- MCDevice
    Alert <- MCAlert
    Alias <- MCAlias
    NoAlert = NoAlert
    MaxUpdates = 3
CONSTRAINTS OverlapSmall FewFail
SYMMETRY AlertsSymmetry
INVARIANTS VisibleIsDeclared AlertTracksDevice
