SPECIFICATION Spec
CONSTANTS
    NPROC = 2
    Harts = {h1, h2}
    None = none
    Main = {1, 2}
    Handler = {11, 12}
    Entry = 11
    Vals = {0, 1}
    MaxInterval = 3
    MAX_THREAD = 4
    Points = {x, y, z}
    Bottom = 2
    Top = 14
    MinGrow = 4
    MaxUnits = 5
    ReChars = {"a", ".", "*", "^", "$"}
    TextChars = {"a", "$"}
    MaxRe = 4
    MaxText = 3
    MEMSIZE = 6
    Chars = {1, 2}
    FSSIZE = 40
    LOGBLOCKS = 2
    NINODES = 7
    IPB = 3
    BPB = 24
    BSIZE = 4
    NDIRECT = 2
    Lengths = {0, 1, 4, 8, 9, 24, 25}
    MaxFiles = 3
VIEW View
INVARIANTS UserStateKept KernelResumes ThreadsKept HeapAccounted MatchesDenotation StringsMeetReference ImageConsistent
 
CHECK_DEADLOCK FALSE
