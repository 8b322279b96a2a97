SPECIFICATION Spec
CONSTANTS
    Self = n1
    Peers = {}
    Leavers = {}
    Proposals = {p1}
    Bootstrap = FALSE
    LeaderTerm = 1
    Threshold = 9
    MaxAppend = 1
    MaxLog = 3
    MaxTerm = 2
    MaxCrash = 0
INVARIANTS NothingPassedOver
