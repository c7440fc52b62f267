CONSTANTS
    U = U
    V = V
    Unit = {U, V}
    NameChar <- MCNameChar
    Hex <- MCHex
    Programs <- Underscores
SPECIFICATION Spec
INVARIANTS
    MethodsMangledAsJni
