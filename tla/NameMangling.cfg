CONSTANTS
    U = U
    V = V
    Unit = {U, V}
    NameChar <- MCNameChar
    Hex <- MCHex
    Programs <- MCPrograms
SPECIFICATION Spec
INVARIANTS
    UnitsAgree
    NamesAreIdentifiers
