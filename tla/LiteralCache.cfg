CONSTANTS
    U = U
    V = V
    a = a
    b = b
    c = c
    Unit = {U, V}
    String = {a, b, c}
SPECIFICATION Spec
INVARIANTS
    CachedAfterLookup
CHECK_DEADLOCK FALSE
