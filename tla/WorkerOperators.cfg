SPECIFICATION Spec
CONSTANTS
    MaxSession = 2
    MaxCommits = 1
    MaxCrashes = 1
    MaxCommands = 3
    Commands = {"pause", "steer", "resume", "project"}
    AbortMayReject = FALSE
    ResumeInCreate = FALSE
INVARIANTS
    TypeOK
    InstructionsAtLeastOnce
    ActiveHasSession
    PausedStartsNothing
PROPERTIES
    RestartKeepsDispositions
CHECK_DEADLOCK FALSE
