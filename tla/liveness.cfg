SPECIFICATION FairSpec
CONSTANTS
    Insts = {i1}
    CnfInsts = {i1}
    Occs = {o1, o2}
    Apis = {a1}
    Workers = {w1, w2}
    ClientOps <- AllOps
    AutoOps <- NoOps
    InitLevel = 0
    MaxLevel = 1
    MaxErr = 2
    MaxCrash = 1
    MaxApiCrash = 0
    MaxDrift = 1
    SerialClient = TRUE
    SlowSteps = FALSE
    LocalNfvo = TRUE
    TxAtomic = FALSE
    DbFaults = FALSE
CHECK_DEADLOCK FALSE
PROPERTIES OpSettles StartupCompletes SyncCatchesUp
