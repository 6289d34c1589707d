CONSTANTS
    a = a
    b = b
    t1 = t1
    t2 = t2
    N = 1
    Id <- Ids
    NoId = noid
    Thread <- Threads
    NoThread = nothread
    ParaNum = 1
    MaxMsg = 2
SPECIFICATION FairSpec
INVARIANTS TypeOK ParaOwned RecordedThreadLives ConnectionServed
PROPERTIES HandedBack
