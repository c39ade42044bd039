CONSTANTS
    Tabs = {t1}
    Cookies = {c1, c2, c3}
    NoCookie = NoCookie
    Day = 2
    Engine = "chromium"
    CookieName = "_gSession"
    MaxFlushes = 1
SPECIFICATION FairSpec
PROPERTY VisitorServed
