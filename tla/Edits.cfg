SPECIFICATION FairEditsSpec
CONSTANTS
    s1 = s1
    s2 = s2
    s3 = s3
    c1 = c1
    c2 = c2
    r1 = r1
    v1 = v1
    v2 = v2
    NoRegion = NoRegion
    None = None
    Components <- TwoComponents
    Regions <- OneRegion
    Values <- TwoValues
    InitialPage <- StartPage
    Slots <- TwoSlots
    Payloads <- Edits
    MaxArrivals = 3
    MaxRestores = 1
    CanExpire = TRUE
    CanLock = TRUE
    Unit = 8
    MaxId = 7
    MaxEdits = 2
    MaxOthers = 1
    MaxOpens = 1
INVARIANTS
    HoldsWhatIsStored
PROPERTIES
    Linearizable
    EveryRequestEnds
    RefusedOnlyWhenGone
CHECK_DEADLOCK FALSE
