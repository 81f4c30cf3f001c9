SPECIFICATION Spec
CONSTANTS
    CPUs = {c1, c2, c3}
    Locks = {1, 2}
    NoCPU = nocpu
SYMMETRY Symmetry
INVARIANTS MutualExclusion InterruptsMatched
