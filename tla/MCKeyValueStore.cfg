SPECIFICATION Spec
CONSTANTS
    Callers = {c1, c2}
    Capacity = 1
    Second = 1
    Day = 2
    StrikeLimit = 2
    Rates <- MCRates
    MaxTime = 2
    MaxCalls = 4
INVARIANTS
    NothingInvented
    ExactWhenSerial
    FractionNeverRefills
SYMMETRY MCSymmetry
PROPERTY DeniedOnlyYoung
\* The calls of a run are bounded.
CHECK_DEADLOCK FALSE
