SPECIFICATION Spec
CONSTANTS
    s1 = s1
    s2 = s2
    s3 = s3
    c1 = c1
    c2 = c2
    r1 = r1
    v1 = v1
    v2 = v2
    NoRegion = NoRegion
    None = None
    Components <- TwoComponents
    Regions <- OneRegion
    Values <- TwoValues
    InitialPage <- StartPage
    Slots <- TwoSlots
    Payloads <- OneInsert
    MaxArrivals = 2
    MaxRestores = 1
    CanExpire = FALSE
    CanLock = TRUE
INVARIANTS
    LockedIsFaithful
CHECK_DEADLOCK FALSE
