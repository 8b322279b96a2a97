SPECIFICATION Spec
CONSTANTS
    Self = n1
    Peers = {n2}
    Leavers = {}
    Proposals = {p1}
    Bootstrap = TRUE
    LeaderTerm = 1
    Threshold = 3
    MaxAppend = 0
    MaxLog = 5
    MaxTerm = 2
    MaxCrash = 1
INVARIANTS ConfSurvivesRestart
