SPECIFICATION Spec
CONSTANTS
    Insts = {i1}
    CnfInsts = {}
    Occs = {o1, o2}
    Apis = {a1, a2}
    Workers = {w1, w2}
    ClientOps <- AllOps
    AutoOps <- NoOps
    InitLevel = 0
    MaxLevel = 1
    MaxErr = 2
    MaxCrash = 1
    MaxApiCrash = 1
    MaxDrift = 0
    SerialClient = FALSE
    SlowSteps = TRUE
    LocalNfvo = TRUE
    TxAtomic = TRUE
    DbFaults = TRUE
SYMMETRY Symmetry
CHECK_DEADLOCK FALSE
INVARIANTS GrantOnlyWhileOpen HandlerOwnsOcc
