CONSTANTS
    Word <- MCWord
    StemLen = 3
    ExtLen = 1
    LastDigit = 1
    PieceLen = 4
    Attribute = {16, 32}
    f1 = f1
    f2 = f2
    f3 = f3
    Id = {f1, f2, f3}
    RootSlots = 5
    ClusterSlots = 3
    MaxSlots = 6
    Fixed = {TRUE, FALSE}
    FillRoot = FALSE
SYMMETRY Symmetry
SPECIFICATION Spec
INVARIANTS
    ShortNamesUnique
    NoOrphans
PROPERTIES
    ImplementsDirectory
CHECK_DEADLOCK FALSE
