CONSTANTS
    a = a
    b = b
    pa = pa
    pb = pb
    none = none
    noaddr = noaddr
    N = 2
    CountMod = 2
    CountLimit = 1
    Mac <- Macs
    Proxy <- Proxies
    MacOf <- Macs_of
    WhiteList <- List
    NoMac = noaddr
    NoProxy = none
    Faults = {"loss"}
    MaxPending = 1
    MaxEvents = 1
SPECIFICATION Spec
INVARIANTS TypeOK SlotsDistinct MacMatchesSlot SlotIsLinked LinkIsTracked
PROPERTIES ImplementsSlotTable
