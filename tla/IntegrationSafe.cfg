SPECIFICATION FairSpec
CONSTANTS
    Worker = {w1}
    Call = {c1, c2}
    MaxAttempt = 2
    MaxHuman = 2
    MaxEnd = 1
    Ends = {"dispose", "crash"}
    MergeMayFail = TRUE
    HumanRaces = {"edits", "commits", "merges", "concludes", "resets"}
INVARIANTS IntegratedIsMerged
PROPERTIES HalfMergeIsReported IntegrationsEnd
CHECK_DEADLOCK FALSE
