SPECIFICATION Spec
CONSTANTS
    Self = n1
    Peers = {}
    Leavers = {n1}
    Proposals = {p1}
    Bootstrap = FALSE
    LeaderTerm = 1
    Threshold = 2
    MaxAppend = 2
    MaxLog = 3
    MaxTerm = 2
    MaxCrash = 2
CHECK_DEADLOCK FALSE
PROPERTIES PromisedEntriesStay ApplyAfterCommit
