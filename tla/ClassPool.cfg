CONSTANTS
    A = A
    B = B
    C = C
    Gone = Gone
    m1 = m1
    n1 = n1
    init = init
    body = body
    None = None
    ClassName <- Names
    MethodKey = {m1, n1, init}
    FieldName = {}
    NoArgCtor = init
    Code = {body}
    ClassPaths <- MCClassPaths
    Drivers <- MCDrivers
SPECIFICATION FairSpec
INVARIANTS
    TypeOK
    VTableCoherent
    SlotsAgree
    TableCurrent
    SuperCompleteFirst
    LookupNeverFails
    FramesAreAChain
    ThunkForEveryVirtual
    OutcomeExplained
PROPERTIES
    CompleteIsFrozen
    Termination
    DispatchesAsDeclared
