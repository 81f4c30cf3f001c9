SPECIFICATION MemorySpec
CONSTANTS
    p1 = p1
    p2 = p2
    p3 = p3
    m1 = m1
    m2 = m2
    m3 = m3
    Procs <- ThreeProcs
    First = p1
    Pages <- ThreePages
    NVP = 2
    PGSIZE = 2
    Vals <- OneVal
    Lazy = TRUE
    None = none
VIEW MemoryView
SYMMETRY Symm
INVARIANTS WipedOnlyWhenFree
