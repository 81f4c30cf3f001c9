SPECIFICATION Spec
CONSTANTS
    NCPU = 2
    Pages = {p1, p2, p3}
    Threads = {t1, t2, t3}
    MaxRef = 2
    NoPage = NoPage
SYMMETRY Symmetry
INVARIANTS CountsReferences NoDoubleUse
