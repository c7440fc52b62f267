SPECIFICATION MCSpec
CONSTANTS
    main = main
    object = object
    short = short
    long = long
    missing = missing
    damaged = damaged
    Name = {main, object}
    Content = {short, long}
    Missing = missing
    Damaged = damaged
    SizeOf <- MCSizeOf
    Layouts <- MCLayouts
    ClassNames <- Names
    Descriptors <- MCDescriptors
INVARIANTS
    FoundInOrder
    BufferFits
    ParsedAsWritten
PROPERTIES
    ParsingEnds
