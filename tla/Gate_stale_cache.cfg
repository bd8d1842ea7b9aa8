SPECIFICATION Spec
CONSTANTS
    Commands = {"c1"}
    Behaviours = {"build"}
    Contexts = {"dev"}
    Sessions = {"s1"}
    Tools = {"u1"}
    Rules = {"r1"}
    Tasks = {t1, t2}
    None = None
    Floor <- MCFloor
    Grade <- MCGrade
    Covers <- MCCovers
    Related <- MCRelated
    Requests <- CacheRequests
    Reports = {}
    SetStates = {"REVOKED"}
    CreateKinds = {"EXACT"}
    TTL = 0
    MaxEvents = 2
    MaxApprovals = 2
    StoreFaults = FALSE
    Crashes = FALSE
SYMMETRY Symmetry
INVARIANTS RevokedNeverAnswered
