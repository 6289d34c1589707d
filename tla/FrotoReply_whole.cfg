CONSTANTS
    Items = 1
    Totals = {3}
    Retry = 0
    MaxEntries = 10
    FirstSeq = 1
    Faults = {"bad"}
SPECIFICATION Spec
INVARIANT WaveformWhole
CHECK_DEADLOCK FALSE
