CONSTANTS
    a = a
    b = b
    Sensor <- Two
    Nobody = nobody
    TTL = 5
    Period = 8
    Window = 30
    RssiMin = 3
    Slots = 4
SPECIFICATION Spec
INVARIANT TypeOK
PROPERTIES SleepingIgnored EvidenceIsNew CutsOnlyNew
