SPECIFICATION Spec
CONSTANTS
    u1 = u1
    u2 = u2
    h1 = h1
    h2 = h2
    Hooks = {h1, h2}
    Scenarios <- MCScenarios
    Calls = {u1, u2}
    Verdicts = {"ALLOW", "MISMATCH"}
    LazyStart = TRUE
    MaxStarts = 1
    None = None
CHECK_DEADLOCK FALSE
INVARIANTS DeliveryIsOnRecord PromptIsMarked
