CONSTANTS
    a = a
    b = b
    pa = pa
    pb = pb
    none = none
    noaddr = noaddr
    N = 2
    CountMod = 4
    CountLimit = 2
    Mac <- Macs
    Proxy <- Proxies
    MacOf <- Macs_of
    WhiteList <- List
    NoMac = noaddr
    NoProxy = none
    Faults = {"loss"}
    MaxPending = 1
    MaxEvents = 1
SPECIFICATION Spec
PROPERTIES OthersLeftAlone
