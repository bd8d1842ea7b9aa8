SPECIFICATION Spec
CONSTANTS
    Commands = {"c1"}
    Behaviours = {"build", "look"}
    Contexts = {"dev"}
    Sessions = {"s1"}
    Tools = {"u1", "u2"}
    Rules = {"r1", "r2"}
    Tasks = {t1, t2}
    None = None
    Floor <- MCFloor
    Grade <- MCGrade
    Covers <- MCCovers
    Related <- MCRelated
    Requests <- ConsentRequests
    Reports <- ConsentReports
    SetStates = {}
    CreateKinds = {}
    TTL = 0
    MaxEvents = 2
    MaxApprovals = 2
    StoreFaults = TRUE
    Crashes = TRUE
SYMMETRY Symmetry
INVARIANTS RecordedBeforeAnswered AnswerBelongs ImportRowsNameTheirTrust ReportedConsentTrustsWhatRan
