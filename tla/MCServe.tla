------------------------------ MODULE MCServe ------------------------------
(* Two hook processes: the two events of one call with a deadline passing, *)
(* two calls at once, and the dialog of one call beside another call in    *)
(* bypassPermissions mode.                                                 *)
EXTENDS Serve

CONSTANTS u1, u2, h1, h2

Called(name, call, bypassing) == [name |-> name, call |-> call, bypassing |-> bypassing]
Scenario(first, second, n) ==
    [event |-> [h \in {h1, h2} |-> IF h = h1 THEN first ELSE second], deadlines |-> n]

MCScenarios == {
    Scenario(Called("PreToolUse", u1, FALSE), Called("PermissionRequest", u1, FALSE), 1),
    Scenario(Called("PreToolUse", u1, FALSE), Called("PreToolUse", u2, FALSE), 0),
    Scenario(Called("PermissionRequest", u1, FALSE), Called("PreToolUse", u2, TRUE), 0)}
=============================================================================
