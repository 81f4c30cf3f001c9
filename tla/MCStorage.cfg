SPECIFICATION StorageSpec
CONSTANTS
    Bufs = {b1, b2, b3}
    Blocks = {k1, k2, k3, k4}
    Vals = {x, y}
    Procs = {p1, p2}
    LogSize = 1
    None = none
    Callers = {q1, q2, q3}
    NUM = 8
    IdxRange = 16
SYMMETRY Symmetry
VIEW View
INVARIANTS  ReadsLatest
PROPERTY TransfersSafe
