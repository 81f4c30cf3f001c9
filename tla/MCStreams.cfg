SPECIFICATION StreamsSpec
CONSTANTS
    w1 = w1
    w2 = w2
    r1 = r1
    r2 = r2
    Writers <- TwoWriters
    Readers <- TwoReaders
    Vals = {a, b}
    PIPESIZE = 2
    CounterRange = 4
    MaxLen = 2
    Killable <- Everybody
    None = none
    Users = {p1, p2}
    Letters = {x, y}
    INPUT_BUF_SIZE = 3
    IndexRange = 6
    FIFO = 3
    MaxRx = 2
    NPROC = 2
    NFILE = 3
    NOFILE = 2
    Inodes = {i1}
    Pipes = {1}
SYMMETRY Symmetry
VIEW View
INVARIANTS TransmitterSafe FilesAccounted
PROPERTIES PipesCorrect ImplementsLines
