SPECIFICATION Spec
CONSTANTS
    Insts = {i1}
    CnfInsts = {}
    Occs = {o1, o2, o3}
    Apis = {a1}
    Workers = {w1}
    ClientOps <- AllButModify
    AutoOps <- NoOps
    InitLevel = 0
    MaxLevel = 1
    MaxErr = 2
    MaxCrash = 1
    MaxApiCrash = 1
    MaxDrift = 0
    SerialClient = TRUE
    SlowSteps = FALSE
    LocalNfvo = TRUE
    TxAtomic = FALSE
    DbFaults = FALSE
SYMMETRY Symmetry
CHECK_DEADLOCK FALSE
INVARIANTS FailedTempHasGrant OpenOccHasInst
PROPERTIES OpOccProtocol
