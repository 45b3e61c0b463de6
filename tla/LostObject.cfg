SPECIFICATION LibrarySpec
CONSTANTS
    f1 = f1
    f2 = f2
    Finalizers = {f1, f2}
    MaxAssets = 1
    MaxMediaMoves = 0
    MaxLibraryFaults = 0
SYMMETRY Symmetry
INVARIANTS
    WinnerKeepsItsObject
CHECK_DEADLOCK FALSE
