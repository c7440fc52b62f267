CONSTANTS
    Methods <- Conditional
SPECIFICATION Spec
INVARIANTS
    StoresTyped
