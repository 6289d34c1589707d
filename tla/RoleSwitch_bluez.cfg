CONSTANTS
    MaxBroadcast = 2
    QuietLimit = 2
    EmptyLimit = 2
    MissLimit = 1
    MaxKeys = 0
    MaxDrops = 2
    MaxInputs = 2
    MaxPhones = 0
    MaxQueue = 2
    Faults = {}
SPECIFICATION FairSpec
PROPERTIES BluezBack
CHECK_DEADLOCK FALSE
