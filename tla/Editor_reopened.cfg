SPECIFICATION EditsSpec
CONSTANTS
    s1 = s1
    s2 = s2
    s3 = s3
    c1 = c1
    c2 = c2
    r1 = r1
    v1 = v1
    v2 = v2
    NoRegion = NoRegion
    None = None
    Components <- TwoComponents
    Regions <- OneRegion
    Values <- TwoValues
    InitialPage <- StartPage
    Slots <- TwoSlots
    Payloads <- Edits
    MaxArrivals = 0
    MaxRestores = 0
    CanExpire = FALSE
    CanLock = FALSE
    Unit = 8
    MaxId = 7
    MaxEdits = 2
    MaxOthers = 1
    MaxOpens = 1
INVARIANT ShowsWhatIsStored
CHECK_DEADLOCK FALSE
