CONSTANTS
    A = A
    B = B
    C = C
    Gone = Gone
    m1 = m1
    n1 = n1
    init = init
    f = f
    g = g
    None = None
    ClassName <- Names
    MethodKey = {m1, n1, init}
    FieldName = {f, g}
    NoArgCtor = init
    Code <- Bodies
    ClassPaths <- MCClassPaths
    Drivers <- MCDrivers
SPECIFICATION LinkSpec
INVARIANTS
    AssertionsHold
