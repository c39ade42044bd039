SPECIFICATION Spec
CONSTANTS
    c1 = c1
    shop = shop
    Callers <- MCCallers
    Hosts <- MCHosts
    Capacity <- MCCapacity
    RateNum <- MCRateNum
    c2 = c2
    blog = blog
    RateDen = 2
    Ttl = 3
    MaxLatency = 1
    MaxLate = 2
    MaxSkew = 1
    MaxClock = 4
INVARIANTS
    TypeOK
    TokensBounded
    DriftBounded
PROPERTIES
    BackoffGrants
