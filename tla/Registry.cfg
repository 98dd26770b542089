CONSTANTS
    r1 = r1
    r2 = r2
    t1 = t1
    t2 = t2
    j1 = j1
    j2 = j2
    Requests = {r1, r2}
    Sentinels = {t1, t2}
    Tokens = {j1, j2}
    CacheTTL = 2
SPECIFICATION Spec
SYMMETRY Symmetry
INVARIANTS
    TypeOK
    TriggerShutOut
    IncidentKeepsInactive
PROPERTY TokensSpec
