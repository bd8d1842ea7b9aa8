SPECIFICATION Spec
CONSTANTS
    Procs = {p1, p2}
    None = None
    Versions = {1, 2}
    Prereleases = {}
    Channels = {"stable"}
    Targets = {}
    Skips = {}
    Remind = 1
    Interval = 0
    Backoff <- OneBackoff
    StaleAfter = 1
    LockingWorks = TRUE
    Windows = FALSE
    Delegated = FALSE
    Faults = TRUE
    Crashes = TRUE
CHECK_DEADLOCK FALSE
SYMMETRY Slots
INVARIANTS ExecutableIsWhole MarkerIsOwned
PROPERTIES AnswersKept
