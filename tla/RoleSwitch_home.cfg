CONSTANTS
    MaxBroadcast = 2
    QuietLimit = 2
    EmptyLimit = 2
    MissLimit = 0
    MaxKeys = 2
    MaxDrops = 1
    MaxInputs = 2
    MaxPhones = 1
    MaxQueue = 2
    Faults = {"send", "timeout", "error", "recovery", "stuck"}
SPECIFICATION FairSpec
INVARIANTS TypeOK RolesAgree FlagMeansSwitch
PROPERTIES BleComesHome GeneralComesHome
CHECK_DEADLOCK FALSE
