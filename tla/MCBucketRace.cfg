SPECIFICATION Spec
CONSTANTS
    c1 = c1
    c2 = c2
    shop = shop
    blog = blog
    Hosts <- MCOneHost
    Capacity <- MCOneCapacity
    RateNum <- MCOneRate
    Callers <- MCCallers
    RateDen = 1
    Ttl = 5
    MaxLatency = 1
    MaxLate = 0
    MaxSkew = 0
    MaxClock = 4
INVARIANTS
    GrantBound
