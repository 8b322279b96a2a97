SPECIFICATION Spec
CONSTANTS
    v1 = v1
    n1 = n1
    n2 = n2
    t1 = t1
    k1 = k1
    BootKey = be1
    Vms = {v1}
    Nodes = {n1, n2}
    Tasks = {t1}
    Tenants = {k1}
    Commands <- AllFamilies
    MaxLog = 3
    MaxBatch = 2
    MaxCrashes = 1
CHECK_DEADLOCK FALSE
CONSTRAINT OneFamily
INVARIANTS TypeOK ReplayConverges 
