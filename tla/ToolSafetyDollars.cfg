CONSTANTS
    Threshold = 300
    Numbers <- SmallNumbers
SPECIFICATION Spec
INVARIANT TransfersUnderThreshold
CHECK_DEADLOCK FALSE
