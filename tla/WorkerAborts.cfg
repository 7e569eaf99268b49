SPECIFICATION FairSpec
CONSTANTS
    MaxSession = 3
    MaxCommits = 1
    MaxCrashes = 0
    MaxCommands = 3
    Commands = {"abort", "resume", "pause"}
    AbortMayReject = FALSE
    ResumeInCreate = FALSE
INVARIANTS
    VerifyingIsBacked
    CompletedIsVerified
    OneWriter
PROPERTIES
    TurnsResolve
CHECK_DEADLOCK FALSE
