SPECIFICATION Spec
CONSTANTS
    c1 = c1
    shop = shop
    Callers <- MCCallers
    Hosts <- MCHosts
    Capacity <- MCCapacity
    RateNum <- MCRateNum
    TheHost = shop
    TheCaller = c1
    RateDen = 2
    Ttl = 5
    MaxLatency = 1
    MaxLate = 0
    MaxSkew = 0
    MaxClock = 8
PROPERTIES
    ImplementsTokenBucket
INVARIANTS
    GrantBound
