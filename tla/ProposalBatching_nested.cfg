SPECIFICATION Spec
CONSTANTS
    p1 = p1
    p2 = p2
    p3 = p3
    p4 = p4
    Proposals = {p1, p2, p3}
    Rejected = {}
    Composite = {p1}
    Size <- SmallSizes
    Overhead = 1
    Layers = 2
    MaxBatchSize = 2
    MaxBatchBytes = 9
CHECK_DEADLOCK FALSE
INVARIANTS NoNestedBatch
