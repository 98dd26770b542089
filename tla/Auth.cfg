CONSTANTS
    j1 = j1
    j2 = j2
    r1 = r1
    r2 = r2
    Jtis = {j1, j2}
    Requests = {r1, r2}
    TTL = 4
    SecondTicks = 2
    MaxTime = 9
SPECIFICATION Spec
SYMMETRY Symmetry
INVARIANTS
    TypeOK
    DenyCoversLife
PROPERTIES
    RevokedRefusedWhileLive
    TokensSpec
\* the clock stops at its bound
CHECK_DEADLOCK FALSE
