SPECIFICATION MCSpec
CONSTANTS
    A = A
    B = B
    C = C
    D = D
    None = None
    x = x
    y = y
    z = z
    byte = byte
    int = int
    long = long
    object = object
    o1 = o1
    o2 = o2
    zero = zero
    v = v
    ClassName <- Names
    FieldName = {x, y, z}
    Type <- Types
    Pointer = object
    SizeOf <- MCSizeOf
    AlignOf <- MCAlignOf
    ClassPaths <- MCClassPaths
    Object = {o1, o2}
    Value = {zero, v}
    Zero = zero
INVARIANTS
    LayoutTypeOK
    LeavesDisjoint
    LeavesAligned
    EveryFieldHasAPlace
    AccessorsReach
    CastCorrect
    NoOverrun
PROPERTIES
    CastEnds
    BehavesAsObjects
CHECK_DEADLOCK FALSE
