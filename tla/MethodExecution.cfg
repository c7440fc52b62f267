CONSTANTS
    Methods <- AllMethods
    Frames <- MCFrames
SPECIFICATION ExecSpec
INVARIANTS
    TerminatorLast
    AllBlocksTerminated
    BlocksFound
    StackEmptyBetweenBlocks
    StoresTyped
    OperandsPresent
    SamePoint
    SameOperands
PROPERTIES
    CompilationEnds
