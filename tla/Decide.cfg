SPECIFICATION Spec
CONSTANTS
    Home <- MCHome
    SystemRoots <- MCSystemRoots
    TempRoots <- MCTempRoots
    StandardHomeDirs = {"Documents"}
    SensitiveTrees <- MCSensitiveTrees
    SensitiveNames = {".env"}
    ToolCaches = {}
    GeneratedExtra = {}
    MaxGlobMatches = 4
    TempDir <- MCTempDir
    MaxSimpleCommands = 2
    MaxParsedCommands = 3
    ProtectedBranches = {"main"}
    AllowReadonlyWorkspace = TRUE
    MaxMismatchReports = 1
    MaxDepth = 4
    MaxCommands = 2
    MaxFingerprintFiles = 4
    Worlds <- MCWorlds
    Requests <- MCRequests
    UserTrusts <- MCUserTrusts
    FollowUps <- MCFollowUps
    Budgets = {1, 9}
    MaxApprovals = 1
INVARIANTS
    
    
    ApprovedIsRecognised
    TrustFollowsTheScript
