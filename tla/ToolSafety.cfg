CONSTANTS
    Threshold = 300
    Numbers <- SmallNumbers
SPECIFICATION Spec
INVARIANTS
    TypeOK
    SentinelSeesOnlyTheRest
    OneRuleSuffices
    ClampNeverActs
\* a call ends once it is refused or scored
CHECK_DEADLOCK FALSE
