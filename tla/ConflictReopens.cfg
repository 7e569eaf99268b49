SPECIFICATION Spec
CONSTANTS
    Worker = {w1, w2}
    Call = {c1}
    MaxAttempt = 1
    MaxHuman = 0
    MaxEnd = 0
    Ends = {}
    MergeMayFail = TRUE
    HumanRaces = {}
INVARIANTS OneUnfinished
CHECK_DEADLOCK FALSE
