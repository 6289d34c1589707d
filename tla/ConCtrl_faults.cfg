CONSTANTS
    a = a
    b = b
    pa = pa
    pb = pb
    none = none
    noaddr = noaddr
    N = 1
    CountMod = 1
    CountLimit = 0
    Mac <- OneMac
    Proxy <- OneProxy
    MacOf <- OneMac_of
    WhiteList <- OneList
    NoMac = noaddr
    NoProxy = none
    Faults = {"loss", "error", "timeout", "call", "early", "slow"}
    MaxPending = 1
    MaxEvents = 1
SPECIFICATION FairSpec
INVARIANTS FlagOwned
PROPERTIES CommandServed PassEnds
