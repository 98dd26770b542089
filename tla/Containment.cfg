CONSTANTS
    s1 = s1
    s2 = s2
    c1 = c1
    c2 = c2
    x1 = x1
    a1 = a1
    Torn = Torn
    NoSpan = NoSpan
    Sources = {s1, s2}
    Calls = {c1, c2}
    Strangers = {x1}
    GeminiAnswers = {s1, s2, c1, c2}
    Agents = {a1}
    K = 1
SPECIFICATION MeshSpec
SYMMETRY Symmetry
INVARIANTS
    TypeOK
    OwnEdgeRecorded
    CacheOneDirection
    KinOnly
    SoundWithoutCache
    MeshTypeOK
    ExcisedAreKin
    PatientZeroNotFound
