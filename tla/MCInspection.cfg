CONSTANTS
    Rules <- MCRules
    RuleSetLevel = 1
    DefaultLevel = 2
    Configurations <- MCTwo
    Responses <- MCResponses
    NoScript = NoScript
SPECIFICATION Spec
INVARIANTS
    OthersUntouched
    PageWhole
    StatusStands
    PanicsExplained
\* A request that has been answered does nothing more.
CHECK_DEADLOCK FALSE
