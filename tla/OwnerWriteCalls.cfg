SPECIFICATION FairSpec
CONSTANTS
    Writers = {w1, w2}
    MaxNonce = 3
    MaxPolls = 2
    ChainMay = {"drop", "reorder", "replay"}
    HostRollsBack = FALSE
INVARIANTS WriteInv AppliedOnce OkIsApplied
PROPERTIES ImplementsAtMostOnce CallsReturn
CHECK_DEADLOCK FALSE
