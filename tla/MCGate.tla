------------------------------- MODULE MCGate -------------------------------
(* Instances of Gate for TLC.                                              *)
EXTENDS Gate, TLC

(* "build" is harmless anywhere, "push" needs confirmation on the          *)
(* protected branch, "look" only reads, "blur" cannot be modelled, "wipe"  *)
(* is blocked everywhere.                                                  *)
MCFloor ==
    [b \in Behaviours |-> [x \in Contexts |->
        CASE b = "wipe" -> "BLOCK"
          [] b = "push" /\ x = "main" -> "ASK_ALWAYS"
          [] OTHER -> "PASS"]]

MCGrade ==
    [b \in Behaviours |->
        CASE b = "look" -> "readonly" [] b = "blur" -> "uncertain" [] OTHER -> "normal"]

(* The envelope of "push" includes what "build" does, not the other way.   *)
MCCovers ==
    [k \in Kinds |-> [b \in Behaviours |->
        IF k = "SEMANTIC" /\ b = "push" THEN {"push", "build"} \cap Behaviours ELSE {b}]]

MCRelated == [b \in Behaviours |-> {b}]

Ask(c, u, s, rules, probe) ==
    [cmd |-> c, tool |-> u, session |-> s, consent |-> rules, dry |-> probe]

(* One tool call that may be evaluated again.                              *)
PlainRequests == {Ask("c1", "u1", "s1", {}, FALSE)}

(* A tool call the agent has no rule for yet (the report of its execution  *)
(* brings one), a tool call covered by two rules, and a dry run with one.  *)
ConsentRequests == {Ask("c1", "u1", "s1", {}, FALSE), Ask("c1", "u2", "s1", {"r1", "r2"}, FALSE),
                    Ask("c1", None, "s1", {"r1"}, TRUE)}

(* A tool call and its PermissionRequest.                                  *)
CacheRequests == {Ask("c1", "u1", "s1", {}, FALSE), Ask("c1", None, "s1", {}, FALSE)}

Symmetry == Permutations(Tasks)

ConsentReports == {[tool |-> "u1", consent |-> {"r1"}]}
=============================================================================
