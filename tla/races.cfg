SPECIFICATION Spec
CONSTANTS
    Insts = {i1}
    CnfInsts = {}
    Occs = {o1, o2, o3}
    Apis = {a1, a2}
    Workers = {w1, w2}
    ClientOps <- RaceOps
    AutoOps <- NoOps
    InitLevel = 0
    MaxLevel = 1
    MaxErr = 2
    MaxCrash = 0
    MaxApiCrash = 0
    MaxDrift = 0
    SerialClient = FALSE
    SlowSteps = TRUE
    LocalNfvo = TRUE
    TxAtomic = FALSE
    DbFaults = TRUE
SYMMETRY Symmetry
CHECK_DEADLOCK FALSE
INVARIANTS TypeOK ExclusiveAccess HandlerOwnsOcc NoLostUpdate VimUnderGrant
