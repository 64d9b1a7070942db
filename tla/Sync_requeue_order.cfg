SPECIFICATION SyncSpec
CONSTANTS
    t1 = t1
    t2 = t2
    pg = pg
    c1 = c1
    c2 = c2
    r1 = r1
    v1 = v1
    v2 = v2
    v3 = v3
    NoRegion = NoRegion
    NoBatch = NoBatch
    Components <- TwoComponents
    Regions <- OneRegion
    Values <- Colours
    InitialPage <- StartPage
    Pages <- OnePage
    MaxAttempt = 1
    MaxIo = 0
    Tabs <- TwoTabs
    Edits <- DuoEdits
    MaxId = 5
    MaxVersion = 5
    CanDelay = FALSE
    CanFreeze = FALSE
    CanReload = FALSE
    CanRestore = FALSE
INVARIANTS
    EditsLandInOrder
CHECK_DEADLOCK FALSE
