SPECIFICATION Spec
CONSTANTS
    Events = {"PreToolUse", "ConfigChange"}
    Required = {"PreToolUse"}
    Rules = {"r1"}
    Paths = {"bin", "opt"}
    Spaced = {}
    Detected = {"rc", "fish"}
    Candidates = {"rc", "fish"}
    Standalone = {"fish"}
    Words = {"a"}
    Machines <- MCMachines
    SetupOptions <- MCSetupOptions
    RemoveOptions <- MCRemoveOptions
    MaxBackups = 1
    MaxTime = 1
    MaxOps = 2
    MaxEdits = 1
    Faults = TRUE
    Crashes = TRUE
CHECK_DEADLOCK FALSE
INVARIANTS  OneHook   
PROPERTIES BackedUp DataKept
