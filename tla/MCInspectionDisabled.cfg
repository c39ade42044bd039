CONSTANTS
    Rules <- MCRules
    RuleSetLevel = 1
    DefaultLevel = 2
    Configurations <- MCOne
    Responses <- MCResponses
    NoScript = NoScript
SPECIFICATION Spec
INVARIANT DisabledHonoured
CHECK_DEADLOCK FALSE
