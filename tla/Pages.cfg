SPECIFICATION PagesSpec
CONSTANTS
    c1 = c1
    c2 = c2
    r1 = r1
    r2 = r2
    v1 = v1
    v2 = v2
    NoRegion = NoRegion
    Components <- TwoComponents
    Regions <- TwoRegions
    Values <- TwoValues
    InitialPage <- Painted
    Slots <- ThreeSlots
    Payloads <- Requests
    FirstPage <- NewPage
    OpLists <- UpToTwoOps
    MaxVersion = 2
    MaxRestores = 0
    CanExpire = FALSE
    CanLock = FALSE
    None = None
    s1 = s1
    s2 = s2
    s3 = s3
    MaxArrivals = 6
    shell = shell
    inner = inner
    AllPages <- TwoPages
    First = inner
    Shells <- ShellOf
    Limit = 2
    MaxEdits = 3
    MaxSteps = 2
    MaxVisits = 1
SYMMETRY SlotSymmetry
INVARIANTS
    UniqueIds
    ConflictsAreExact
    AtMostOnce
    AnswersAreTrue
    FollowsCursor
PROPERTIES
    TwoStacks
CHECK_DEADLOCK FALSE
