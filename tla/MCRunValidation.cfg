SPECIFICATION FairSpec
CONSTANTS
    browser = browser
    scriptinjector = scriptinjector
    coraza = coraza
    Plugins <- MCPlugins
    CanReject <- MCCanReject
INVARIANTS
    TypeOK
    ResultIsSound
    NoSendOnClosed
    LeakIsExact
PROPERTIES
    CollectorReturns
    CleanExit
    ImplementsVerdict
\* The fan-out ends, with or without goroutines left behind.
CHECK_DEADLOCK FALSE
