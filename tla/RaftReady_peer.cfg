SPECIFICATION Spec
CONSTANTS
    Self = n1
    Peers = {n2}
    Leavers = {n1, n2}
    Proposals = {p1, p2}
    Bootstrap = TRUE
    LeaderTerm = 1
    Threshold = 3
    MaxAppend = 0
    MaxLog = 6
    MaxTerm = 3
    MaxCrash = 1
CHECK_DEADLOCK FALSE
INVARIANTS TypeOK HardStateLoadable AppliedIsDurable
PROPERTIES SendAfterPersist PromisedEntriesStay
