SPECIFICATION Spec
CONSTANTS
    Every = 5
    BlurAfter = 1
    DistortAfter = 2
    GravityAfter = 4
    MaxStrikes = 10
INVARIANT EffectsDeserved
PROPERTIES
    IntervalsApart
    StruckBlurred
\* A closed page does nothing more.
CHECK_DEADLOCK FALSE
