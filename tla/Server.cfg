SPECIFICATION ServerSpec
CONSTANTS
    None = None
    q1 = q1
    q2 = q2
    Requests = {q1, q2}
    Reqs = {r1}
    Raised = {r1}
    Sprints = {s1, s2}
    Moves = {"NotStarted", "Blocked", "Done"}
    Born = {"NotStarted", "Done"}
    Triage = {"New", "Resolved"}
    MaxBegun = 5
    Files = {f1}
    Keys = {k1}
    MaxVersions = 3
    MaxDeaths = 1
SYMMETRY RequestSymmetry
INVARIANTS
    ClaimWonOnce
    BurndownReadsTheRow
    BookkeepingWhereApart
    UploadedHasBytes
    RetriesAgree
CHECK_DEADLOCK FALSE
