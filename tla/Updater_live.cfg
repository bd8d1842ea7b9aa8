SPECIFICATION FairSpec
CONSTANTS
    Procs = {p1}
    None = None
    Versions = {1, 2, 3}
    Prereleases = {2}
    Channels = {"stable", "prerelease"}
    Targets = {}
    Skips = {3}
    Remind = 2
    Interval = 0
    Backoff <- OneBackoff
    StaleAfter = 1
    LockingWorks = TRUE
    Windows = FALSE
    Delegated = TRUE
    Faults = TRUE
    Crashes = TRUE
CHECK_DEADLOCK FALSE
PROPERTIES SilenceEnds
