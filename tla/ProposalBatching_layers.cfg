SPECIFICATION FairSpec
CONSTANTS
    p1 = p1
    p2 = p2
    p3 = p3
    p4 = p4
    Proposals = {p1, p2, p3, p4}
    Rejected = {p2}
    Composite = {p4}
    Size <- SmallSizes
    Overhead = 1
    Layers = 2
    MaxBatchSize = 3
    MaxBatchBytes = 7
CHECK_DEADLOCK FALSE
INVARIANTS TypeOK BatchWithinLimits WaiterIsHeld AppliedInOrderSent OkIsApplied
PROPERTIES  ImplementsService
