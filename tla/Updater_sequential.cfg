SPECIFICATION Spec
CONSTANTS
    Procs = {p1}
    None = None
    Versions = {1, 2, 3}
    Prereleases = {}
    Channels = {"stable"}
    Targets = {1, 2, 3}
    Skips = {}
    Remind = 1
    Interval = 1
    Backoff <- MCBackoff
    StaleAfter = 1
    LockingWorks = TRUE
    Windows = TRUE
    Delegated = FALSE
    Faults = TRUE
    Crashes = TRUE
CHECK_DEADLOCK FALSE
INVARIANTS ExecutableSurvives
   
