CONSTANTS
    Items = 1
    Totals = {1, 3}
    Retry = 1
    MaxEntries = 2
    FirstSeq = 1
    Faults = {"lose", "send", "full", "bad", "aggregate"}
SPECIFICATION FairSpec
INVARIANTS TypeOK WaveformOrdered EntryKept ReplyMeansMessage
PROPERTIES SessionEnds
CHECK_DEADLOCK FALSE
