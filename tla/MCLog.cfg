SPECIFICATION LogSpec
CONSTANTS
    Blocks = {b1, b2}
    Vals = {v1, v2}
    SpaceBlocks = {b1, b2, b3, b4}
    SpaceVals = {v1}
    Procs = {p1, p2}
    Syncers = {p1, p2}
    MAXOPBLOCKS = 2
    LOGBLOCKS = 4
    OpBlocks = 2
    OpWrites = 2
    NotCached = NotCached
    Torn = Torn
    MaxOps = 2
    MaxCrashes = 2
SYMMETRY Symmetry
VIEW LogView
INVARIANTS SyncDurable NeverPanics
PROPERTY CrashAtomic
