\* Are class graph, ranks and Registration configs kept, of requests that overlap?
SPECIFICATION Spec
CONSTANTS
    r1 = r1
    r2 = r2
    s = s
    Special = s
    a = a
    b = b
    p = p
    Object <- MCObject
    RankClass <- MCRankClass
    Owner <- MCOwner
    Top = 1
    Unowned = Unowned
    NoClass = NoClass
    MaxLoad = 6
CONSTRAINTS OwnedSmall UntilOvertaken
SYMMETRY ObjectsSymmetry
INVARIANTS ObjectsTypeOK RanksAgree RankRooted RegistrationCurrent
PROPERTIES KeepsClasses KeepsPrimary
