------------------------------ MODULE MCSetup -------------------------------
(* Instances of Setup for TLC.                                             *)
EXTENDS Setup

User == [kind |-> "user"]

Former == [kind |-> "agentguard"]

(* The entries of a list of groups, at their places.                       *)
Groups(list) ==
    [p \in UNION {{g} \X DOMAIN list[g] : g \in DOMAIN list} |->
        [matcher |-> "tools", entry |-> list[p[1]][p[2]]]]

With(groups, rules) ==
    [state |-> "ok", rules |-> rules,
     hooks |-> [e \in Events |-> IF e = "PreToolUse" THEN Groups(groups) ELSE <<>>]]

Machine(s, k, rc, fish, former) ==
    [settings |-> s, skill |-> k, file |-> [n \in Candidates |-> IF n = "fish" THEN fish ELSE rc],
     old |-> IF former THEN {"agentguard.db", "history"} ELSE {}, service |-> former]

(* A fresh machine; one with a broken settings file; one where the user    *)
(* has hooks beside and the former product hooks, a start-up block, data   *)
(* and a service; one with an Intenter hook between the user's.  Start-up  *)
(* files end with a newline.                                               *)
MCMachines ==
    {Machine([With(<<>>, {}) EXCEPT !.state = "absent"], "none", Absent, Absent, FALSE),
     Machine([With(<<>>, {}) EXCEPT !.state = "broken"], "none", Text(<<"a", "nl">>), Absent, FALSE),
     Machine(With(<<<<User, Former>>, <<Former>>>>, {"r1"}), "none",
             Text(<<"a", "nl", "nl", "former">>), Text(<<"former">>), TRUE),
     Machine(With(<<<<Hook("opt"), User>>, <<User>>>>, {}), "user",
             Text(<<"a", "nl">>), Absent, TRUE)}

Plain == [dry |-> FALSE, noService |-> FALSE, noStartup |-> FALSE]

MCSetupOptions == {Plain, [Plain EXCEPT !.dry = TRUE],
                   [Plain EXCEPT !.noService = TRUE, !.noStartup = TRUE]}

MCRemoveOptions == {[dry |-> FALSE, keep |-> FALSE, purge |-> FALSE],
                    [dry |-> FALSE, keep |-> TRUE, purge |-> TRUE]}
=============================================================================
