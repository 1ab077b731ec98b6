CONSTANTS
    t1 = t1
    t2 = t2
    t3 = t3
    t4 = t4
    Thread = {t1, t2, t3, t4}
    None = None
    InUse = InUse
    HeapId = {"Heap", "Alt"}
    FirstHeap = "Heap"
    Units <- MCUnits
    Alternate <- MCAlternate
    Size = {2, 3}

SPECIFICATION Spec

SYMMETRY MCSymmetry

\* All names may be used up by threads whose blocks were lost.
CHECK_DEADLOCK FALSE

INVARIANTS
    HeapSound
    BlocksOwned

PROPERTIES
    ServesWhatFits
