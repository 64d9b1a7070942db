SPECIFICATION FairSpec
CONSTANTS
    t1 = t1
    t2 = t2
    p1 = p1
    p2 = p2
    edit = edit
    NoBatch = NoBatch
    Tabs <- OneTab
    Pages <- OnePage
    Edits <- OneEdit
    MaxId = 3
    MaxVersion = 1
    MaxAttempt = 1
    MaxIo = 2
PROPERTIES
    OnlyEarlyFlushesLose
    EveryBatchAnswered
