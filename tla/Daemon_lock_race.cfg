SPECIFICATION Spec
CONSTANTS
  Procs = {p1, p2}
  Hooks = {h1}
  Inodes <- MCInodes
  Versions <- MCVersions
  OtherVersion = 3
  None = None
  Stale = Stale
  MaxShutdowns = 1
  Overlap = TRUE
  Faults = FALSE
  CLI = FALSE
CHECK_DEADLOCK FALSE
INVARIANT SingleInstance
