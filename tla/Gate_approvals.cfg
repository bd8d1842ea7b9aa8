SPECIFICATION Spec
CONSTANTS
    Commands = {"c1"}
    Behaviours = {"build", "push"}
    Contexts = {"dev", "main"}
    Sessions = {"s1"}
    Tools = {"u1"}
    Rules = {"r1"}
    Tasks = {t1, t2}
    None = None
    Floor <- MCFloor
    Grade <- MCGrade
    Covers <- MCCovers
    Related <- MCRelated
    Requests <- PlainRequests
    Reports = {}
    SetStates = {"ACTIVE", "DISABLED", "REVOKED"}
    CreateKinds = {"EXACT", "SEMANTIC"}
    TTL = 0
    MaxEvents = 2
    MaxApprovals = 2
    StoreFaults = FALSE
    Crashes = FALSE
SYMMETRY Symmetry
INVARIANTS TypeOK FloorIsFinal AllowIsCovered TrustWasApprovable RevokedNeverMatched
PROPERTIES HistoryIsKept TrustIsKept
