SPECIFICATION Spec
CONSTANTS
    HealVnfs = {v1}
    HealVnfcs = {c1, c2}
    HealRpcs = {r1, r2}
    Timers = {t1, t2, t3}
    MaxAlerts = 3
    Fps = {f1, f2}
    AlarmIds = {m1, m2}
    FmReqs = {q1}
    FmClients = {u1}
    MaxBodies = 3
    MaxAcks = 1
    RuleHosts <- TwoHosts
    Jobs = {j1}
    Reports = {e1, e2}
    JobClients = {u1, u2}
    JobWorkers = {w1, w2}
    Period = 1
    Boundary = 2
    MaxTime = 3
    MaxUri = 1
    Thresholds = {p1}
    ThrClients = {u1, u2}
    ThrWorkers = {w1, w2}
    Values = {0, 2, 3, 4}
    thresholdValue = 2
    hysteresis = 1
    MaxThrAlerts = 2
    MaxThrUri = 1
    Vnfds = {d1, d2}
    CacheInsts = {i1, i2}
    CacheApis = {a1, a2}
    CacheOps = {w1, w2}
    MaxCacheCrash = 1
    Servers = {s1, s2, s3}
    MaxSnAlarm = 4
    MaxSnOps = 3
    V1MaxOccs = 2
    V1MaxLevel = 2
    V1MaxTries = 2
    V1MaxCrash = 1
    Pkgs = {g1}
    PkgConductors = {k1, k2}
    PkgReqs = {q1, q2}
    PkgInsts = {n1}
    MaxUploads = 1
CHECK_DEADLOCK FALSE
INVARIANTS NoDeadTimer HealsNamedVnfcs   AckConsistent JobComplete  ThresholdKept CrossingIsReal  NoPartialCache AlarmsMatch AlarmsKnown FailedTempIsError  V1VimMatches OnboardedComplete   
PROPERTIES NotifiedHealed ClearedForGood CancelHolds V1Settles
