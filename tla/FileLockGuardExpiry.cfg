SPECIFICATION Spec
CONSTANTS
    p1 = p1
    p2 = p2
    p3 = p3
    p4 = p4
    Process <- FourProcesses
    Nobody = Nobody
    Incomplete = Incomplete
    ReclaimersMayDie = TRUE
SYMMETRY Symmetry4
INVARIANT MutualExclusion
CHECK_DEADLOCK FALSE
