SPECIFICATION FairSpec
CONSTANTS
    p1 = p1
    p2 = p2
    p3 = p3
    p4 = p4
    Process <- ThreeProcesses
    Nobody = Nobody
    Incomplete = Incomplete
    ReclaimersMayDie = TRUE
INVARIANT TypeOK
INVARIANT MutualExclusion
INVARIANT HolderIsRecorded
PROPERTY OnlyStaleIsReclaimed
PROPERTY DeadLockIsReclaimed
CHECK_DEADLOCK FALSE
