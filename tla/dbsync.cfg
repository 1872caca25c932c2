SPECIFICATION Spec
CONSTANTS
    Insts = {i1}
    CnfInsts = {i1}
    Occs = {o1, o2, o3}
    Apis = {a1}
    Workers = {w1, w2}
    ClientOps <- CnfOps
    AutoOps <- AutoHealScale
    InitLevel = 0
    MaxLevel = 1
    MaxErr = 1
    MaxCrash = 1
    MaxApiCrash = 0
    MaxDrift = 1
    SerialClient = FALSE
    SlowSteps = FALSE
    LocalNfvo = TRUE
    TxAtomic = FALSE
    DbFaults = FALSE
SYMMETRY Symmetry
CHECK_DEADLOCK FALSE
INVARIANTS NoLostUpdate
