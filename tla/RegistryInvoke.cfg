CONSTANTS
    r1 = r1
    r2 = r2
    t1 = t1
    t2 = t2
    j1 = j1
    j2 = j2
    Requests = {r1}
    Sentinels = {t1}
    Tokens = {j1}
    CacheTTL = 2
SPECIFICATION Spec
INVARIANT InvokeDecides
