CONSTANTS
    s1 = s1
    c1 = c1
    Torn = Torn
    NoSpan = NoSpan
    Sources = {s1}
    Calls = {c1}
    Strangers = {}
    GeminiAnswers = {}
SPECIFICATION Spec
INVARIANT DescendantsReachable
\* every call and every task ends
CHECK_DEADLOCK FALSE
