SPECIFICATION Spec
CONSTANTS
    MaxSession = 3
    MaxCommits = 1
    MaxCrashes = 2
    MaxCommands = 3
    Commands = {"abort", "resume"}
    AbortMayReject = TRUE
    ResumeInCreate = TRUE
PROPERTIES
    ImplementsLifecycle
CHECK_DEADLOCK FALSE
