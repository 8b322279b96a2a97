SPECIFICATION FairSpec
CONSTANTS
    Self = n1
    Peers = {}
    Leavers = {n1}
    Proposals = {p1, p2}
    Bootstrap = TRUE
    LeaderTerm = 1
    Threshold = 2
    MaxAppend = 0
    MaxLog = 5
    MaxTerm = 3
    MaxCrash = 2
CHECK_DEADLOCK FALSE
INVARIANTS ApplyInOrder NothingPassedOver
PROPERTIES ProposalAnswered
