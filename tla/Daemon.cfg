SPECIFICATION FairSpec
CONSTANTS
  Procs = {p1, p2}
  Hooks = {h1}
  Inodes <- MCInodes
  Versions <- MCVersions
  OtherVersion = 3
  None = None
  Stale = Stale
  MaxShutdowns = 1
  Overlap = FALSE
  Faults = TRUE
  CLI = TRUE
CHECK_DEADLOCK FALSE
INVARIANTS TypeOK SingleInstance  ExitMeansUnlocked
PROPERTIES HookReturns RefreshSettles
