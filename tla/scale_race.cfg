SPECIFICATION Spec
CONSTANTS
    Insts = {i1}
    CnfInsts = {}
    Occs = {o1, o2, o3}
    Apis = {a1, a2}
    Workers = {w1, w2}
    ClientOps <- ScaleOutOnly
    AutoOps <- NoOps
    InitLevel = 0
    MaxLevel = 1
    MaxErr = 0
    MaxCrash = 0
    MaxApiCrash = 0
    MaxDrift = 0
    SerialClient = FALSE
    SlowSteps = FALSE
    LocalNfvo = TRUE
    TxAtomic = FALSE
    DbFaults = FALSE
SYMMETRY Symmetry
CHECK_DEADLOCK FALSE
INVARIANTS ScaleWithinLimits
