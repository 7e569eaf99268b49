SPECIFICATION MCSpec
CONSTANTS
    Controls = {i1, i2, i3, i4}
    i1 = i1
    i2 = i2
    i3 = i3
    i4 = i4
    NoControl = NoControl
    Bodies <- SomeBodies
    Heights = {3, 4, 6}
    ShownWorkers = {w1, w2, w3}
    WorkerStatuses = {"starting", "working", "pause_requested", "verifying", "paused", "blocked", "failed", "interrupted", "completed", "integrated", "queued"}
    Workers = {w1, w2}
    StartStatuses = {"working", "paused", "completed"}
    Requests = {"pause-project", "resume-project", "show-status", "abort", "integrate", "steer", "pause-worker", "resume-worker"}
    MaxEvents = 2
    Sizes <- CenterSizes
    Fullscreen = FALSE
    ReducedMotion = FALSE
    Guided = TRUE
    TerminalSizes <- SurfaceSizes
    Names <- TwoNames
    Catalogue <- ThreeModels
    Arguments <- SomeArguments
    Ready = {"b"}
    Matches = {"b2", "a1"}
    Initial = {"b"}
    MaxPins = 2
    MaxOpens = 2
    MaxChoices = 1
    MaxSignals = 1
INVARIANTS
    TypesOK
    KeepsItsPlace
    OffersAreGood
    SaidAsMeant
    CenterIsCurrent
    PickerIsTrue
    LaunchIsFaithful
CHECK_DEADLOCK FALSE
