SPECIFICATION FilesSpec
CONSTANTS
    Procs = {p1, p2}
    NINODES = 3
    NINODE = 3
    Calls <- AllCalls
    Crashes = TRUE
    None = None
    Files = {f1, f2}
    Vals = {2}
    Sizes = {3, 8}
    NBLOCKS = 5
    NDIRECT = 2
    BSIZE = 2
    MAXOPBLOCKS = 6
SYMMETRY Symmetry
VIEW View
INVARIANTS InodesAccounted ContentsKept LogFits
 
