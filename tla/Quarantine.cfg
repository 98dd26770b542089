CONSTANTS
    a1 = a1
    a2 = a2
    s1 = s1
    s2 = s2
    q1 = q1
    q2 = q2
    k1 = k1
    Agents = {a1, a2}
    Spans = {s1, s2}
    Quarantines = {q1, q2}
    Rollbacks = {k1}
SPECIFICATION MCSpec
INVARIANTS
    TypeOK
    Contained
    RecordedMeansRevoked
    OneEventAhead
    DeadlocksCrossAgents
PROPERTIES
    AbsSpec
    TasksFinish
\* every transaction ends
CHECK_DEADLOCK FALSE
