CONSTANTS
    h1 = h1
    h2 = h2
    h3 = h3
    slow = slow
    fast = fast
    near = near
    far = far
    None = None
    Hosts <- MCHosts
    Rules <- MCRules
    Settings <- MCSettings
    MaxUpstreams = 2
    Addresses <- MCAddresses
    Network <- MCNetwork
    Requests <- MCRequests
    CookieName = "_gSession"
    Genuine <- MCGenuine
SPECIFICATION Spec
INVARIANTS
    LimiterOfUpstream
    
    AccessHonoured
    SessionStays
CHECK_DEADLOCK FALSE
