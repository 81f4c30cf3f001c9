SPECIFICATION Spec
CONSTANTS
    c1 = c1
    c2 = c2
    none = none
    CPUs <- TwoCPUs
    NPROC = 3
    Victims <- Children
    None = none
SYMMETRY Symm
INVARIANTS StacksSafe NoLostExit NobodyOrphaned
