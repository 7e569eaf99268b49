SPECIFICATION ControllerSpec
CONSTANTS
    Runtime = {r1, r2}
    Slot = {c1, c2}
    Command = {"init", "artifact", "worker"}
    MaxLease = 2
    MaxRemoval = 1
    Worker = {w1, w2}
    Call = {i1}
    MaxAttempt = 2
    MaxHuman = 1
    MaxEnd = 1
    Ends = {"dispose", "crash"}
    MergeMayFail = TRUE
    HumanRaces = {"edits", "commits", "switches", "concludes", "resets"}
SYMMETRY Symmetry
INVARIANTS
    TypesOK
    OneController
    DisposedHoldsNothing
    DisposeIsNeverStuck
    OneOccupant
PROPERTIES
    NobodyElsesLease
    HumanMergeIsLeftAlone
CHECK_DEADLOCK FALSE
