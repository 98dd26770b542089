CONSTANTS
    a1 = a1
    a2 = a2
    s1 = s1
    s2 = s2
    q1 = q1
    q2 = q2
    k1 = k1
    Agents = {a1}
    Spans = {s1}
    Quarantines = {q1}
    Rollbacks = {k1}
SPECIFICATION MCSpec
PROPERTY RevocationBestEffort
\* every transaction ends
CHECK_DEADLOCK FALSE
