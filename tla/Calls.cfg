SPECIFICATION MCSpec
CONSTANTS
    Procs = {q1, q2}
    Calls = {1, 2}
    StartPhases = {"architecture"}
    Targets = {"build", "verify"}
    MaxCalls = 2
    MaxCrashes = 1
    InputChunks = 2
    MaxOutput = 2
    MaxWrites = 4
    Tools = {t1, t2}
    Themes = {"dark", "light"}
    ReducedMotion = FALSE
    MaxBlocks = 3
    MaxThemes = 1
    Paths <- SomePaths
    System <- SomeSystem
    Home <- TheHome
    Secrets <- TheSecrets
    Worktrees <- SomeWorktrees
    Runtimes <- SomeRuntimes
INVARIANTS
    TypesOK
    NoLostUpdate
    ShownPhaseIsCurrent
    AnswersAreWhole
    SandboxIsTight
    ActivityIsShown
PROPERTIES
    KeepsItsPromises
    CallsEnd
CHECK_DEADLOCK FALSE
