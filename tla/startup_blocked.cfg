SPECIFICATION FairSpec
CONSTANTS
    Insts = {i1}
    CnfInsts = {}
    Occs = {o1}
    Apis = {a1, a2}
    Workers = {w1, w2}
    ClientOps <- ModifyOnly
    AutoOps <- NoOps
    InitLevel = 0
    MaxLevel = 1
    MaxErr = 0
    MaxCrash = 1
    MaxApiCrash = 0
    MaxDrift = 0
    SerialClient = FALSE
    SlowSteps = FALSE
    LocalNfvo = TRUE
    TxAtomic = FALSE
    DbFaults = FALSE
CHECK_DEADLOCK FALSE
PROPERTIES StartupCompletes
