SPECIFICATION FairSpec
CONSTANTS
    r1 = r1
    r2 = r2
    old = old
    new = new
    Requests <- MCRequests
    Cookies <- MCCookies
    Returning <- MCReturning
    Capacity = 1
    NoCookie = NoCookie
INVARIANTS
    TypeOK
    ForwardedEarned
    OnlyIssuedPass
    StrikesAreExact
    RefusalRecorded
    KeysForEver
PROPERTIES
    VerdictPerRequest
    EveryRequestAnswered
\* Every request arrives once.
CHECK_DEADLOCK FALSE
