CONSTANTS
    f1 = f1
    f2 = f2
    File = {f1, f2}
    SectorNibbles = 8
    FatSectors = 5
    NumClusters = 5
    SectorBytes = 2
    SectorsPerCluster = 2
    Types = {12, 16, 32}
    Amount <- MCAmount
    Data <- MCData
    Leftover = {0, 3}
    MaxSize = 6
    MaxStops = 1
    Careful = TRUE
SPECIFICATION Spec
INVARIANTS
    ChainsSound
    NothingLost
    CacheCoherent
PROPERTIES
    ImplementsFiles
CHECK_DEADLOCK FALSE
