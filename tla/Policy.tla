------------------------------- MODULE Policy ------------------------------
(***************************************************************************)
(* The decision on one resolved action: the safety floor R1-R13            *)
(* (internal/policy/hard_rules.go), the uncertain cases, the read-only     *)
(* baseline and the approvals (internal/approval), in the engine's order.  *)
(*                                                                         *)
(* An effect is [type, target, net, prog, flags]; a part that is absent is *)
(* the record NoTarget, NoNet or NoProg.  An action is [project, status,   *)
(* commands, nested, ops, effects, fps, incomplete, raw]: commands is the  *)
(* sequence of its recognised commands, nested those and what they run,    *)
(* effects the union of their effects, fps a function from fingerprint     *)
(* keys to values.                                                         *)
(***************************************************************************)
EXTENDS Naturals, FiniteSets, Sequences

CONSTANTS
    ProtectedBranches,      \* policy.protected_branches
    AllowReadonlyWorkspace, \* policy.allow_readonly_workspace
    MaxMismatchReports      \* related approvals explained at most

NoTarget == [path |-> <<>>, scope |-> "", flags |-> {}, isDir |-> FALSE,
             amb |-> FALSE, display |-> [base |-> "", rest |-> <<>>, glob |-> FALSE]]

NoNet == [host |-> "", method |-> "", declared |-> ""]

NoProg == [name |-> "", resolution |-> "", streamed |-> FALSE]

NoGit == [branch |-> "", known |-> FALSE]

-----------------------------------------------------------------------------
(* The safety floor.  A finding is [rule, outcome].                        *)

OutcomeRank == [PASS |-> 0, ASK_ALWAYS |-> 1, BLOCK |-> 2]

Ask(rule) == [rule |-> rule, outcome |-> "ASK_ALWAYS"]

Block(rule) == [rule |-> rule, outcome |-> "BLOCK"]

\* {f} when the rule fires, the empty set when it does not.
Fires(condition, f) == IF condition THEN {f} ELSE {}

Changes == {"WRITE", "CREATE", "DELETE"}

\* R1: nothing changes a system location.
RuleR1(e) == Fires(e.target.scope = "SYSTEM" /\ e.type \in Changes, Block(1))

\* R2, R3 and R4: deletes in the home directory and outside the workspace are
\* blocked when they are wide and asked about when they are not.
WideInHome(e) ==
    \/ e.flags \cap {"recursive", "wildcard"} # {}
    \/ e.target.flags \cap {"wildcard", "broad", "sensitive"} # {}

WideOutside(e) ==
    /\ \/ e.flags \cap {"recursive", "wildcard"} # {}
       \/ "wildcard" \in e.target.flags
       \/ e.target.isDir
    /\ ~("temp" \in e.target.flags /\ "broad" \notin e.target.flags)

DeleteRules(e) ==
    IF e.type # "DELETE" THEN {}
    ELSE IF e.target.scope = "HOME"
         THEN {IF WideInHome(e) THEN Block(2) ELSE Ask(4)}
    ELSE IF e.target.scope = "OUTSIDE"
         THEN {IF WideOutside(e) THEN Block(3) ELSE Ask(4)}
    ELSE {}

\* R5: reading a credential file asks, changing one is blocked.
RuleR5(e) ==
    IF "sensitive" \notin e.target.flags THEN {}
    ELSE Fires(e.type = "READ", Ask(5)) \cup Fires(e.type \in Changes, Block(5))

\* R6: a path that leaves the workspace through ".." or a link.
RuleR6(e) == Fires(e.target.flags \cap {"symlink_escape", "traversal"} # {}, Ask(6))

RuleR10(e) == Fires(e.flags \cap {"elevated", "inline_credential"} # {}, Ask(10))

RuleR11(e) ==
    Fires(/\ e.type = "NETWORK" /\ "insecure_tls" \in e.flags
          /\ e.net.host \notin {"", "localhost"}, Ask(11))

\* R12: a program that executes what another command pipes into it.
RuleR12(e) ==
    Fires(/\ e.type = "EXECUTE" /\ e.prog.streamed
          /\ e.prog.resolution = "UNRESOLVED", Ask(12))

EffectRules(e) ==
    RuleR10(e) \cup RuleR11(e) \cup RuleR12(e)
    \cup IF e.target = NoTarget THEN {}
         ELSE RuleR1(e) \cup RuleR5(e) \cup RuleR6(e) \cup DeleteRules(e)

IsProtectedBranch(branch, default) ==
    branch = "" \/ branch \in ProtectedBranches \/ (default # "" /\ branch = default)

\* R7: pushes that remove or rewrite what others rely on.
RuleR7(c, default) ==
    LET has(f) == \E e \in c.effects : f \in e.flags
    IN  Fires(/\ c.op = "GIT_PUSH"
              /\ \/ has("delete") \/ has("broad")
                 \/ /\ has("force")
                    /\ ~c.git.known \/ IsProtectedBranch(c.git.branch, default),
              Ask(7))

\* R8: uncommitted work is overwritten.
RuleR8(c) ==
    Fires(/\ c.op \in {"GIT_CHECKOUT", "GIT_RESET"}
          /\ \E e \in c.effects : "discards_changes" \in e.flags, Ask(8))

CommandRules(c, default) == RuleR7(c, default) \cup RuleR8(c)

\* R9: the project root or its git directory is deleted.
WorkspaceDeleteRules(effects, ws) ==
    Fires(/\ ws # <<>>
          /\ \E e \in effects : /\ e.type = "DELETE" /\ e.target # NoTarget
                                /\ e.target.path \in {ws, Append(ws, ".git")},
          Ask(9))

RuleR13(act) == Fires(act.incomplete, Ask(13))

\* commands lists what a wrapper resolved to after the wrapper itself, so the
\* rules on commands reach a command at any depth.
HardRules(act, ws, default) ==
    UNION {EffectRules(e) : e \in act.effects}
    \cup UNION {CommandRules(c, default) : c \in act.nested}
    \cup WorkspaceDeleteRules(act.effects, ws)
    \cup RuleR13(act)

\* The strongest outcome among the findings.
Outcome(findings) ==
    IF \E f \in findings : f.outcome = "BLOCK" THEN "BLOCK"
    ELSE IF findings # {} THEN "ASK_ALWAYS" ELSE "PASS"

-----------------------------------------------------------------------------
(* What is compared when an approval is matched.                           *)

EnvelopeEntry(e) ==
    [type |-> e.type, scope |-> e.target.scope, program |-> e.prog.resolution,
     flags |-> e.flags, targetFlags |-> e.target.flags]

Envelope(act) == {EnvelopeEntry(e) : e \in act.effects}

NetworkKey(n) ==
    IF n.declared # "" /\ n.host = "" THEN [NoNet EXCEPT !.declared = n.declared] ELSE n

Network(act) == {NetworkKey(e.net) : e \in {x \in act.effects : x.net # NoNet}}

\* Only the targets of the action's own commands; what a wrapper absorbed from
\* its script is among them.
DisplayTargets(act) ==
    {t.display : t \in UNION {act.commands[i].targets : i \in DOMAIN act.commands}}

HasAmbiguousTarget(act) ==
    \/ \E e \in act.effects : e.target.amb
    \/ \E i \in DOMAIN act.commands :
          \/ \E t \in act.commands[i].targets : t.amb
          \/ \E e \in act.commands[i].effects : e.target.amb

Approvable(status) == status \in {"RESOLVED", "DECLARED"}

-----------------------------------------------------------------------------
(* Approvals: [id, project, kind, ops, envelope, network, fps, targets,    *)
(* state, raw].                                                            *)

Validate(act, ws, default) ==
    /\ Approvable(act.status)
    /\ ~HasAmbiguousTarget(act)
    /\ act.project # <<>>
    /\ act.effects # {}
    /\ Outcome(HardRules(act, ws, default)) = "PASS"

\* As a bug: an approval that forgets what it was shown.
BuildWithoutTargets(id, act, kind) ==
    [id |-> id, project |-> act.project, kind |-> kind, ops |-> act.ops,
     envelope |-> Envelope(act), network |-> Network(act), fps |-> act.fps,
     targets |-> {}, state |-> "ACTIVE", raw |-> act.raw]

Build(id, act, kind) ==
    [id |-> id, project |-> act.project, kind |-> kind, ops |-> act.ops,
     envelope |-> Envelope(act), network |-> Network(act), fps |-> act.fps,
     targets |-> IF kind = "EXACT" THEN DisplayTargets(act) ELSE {},
     state |-> "ACTIVE", raw |-> act.raw]

\* As a bug: fingerprints compared by their names only.
FingerprintsNamed(a, act) == DOMAIN a.fps \subseteq DOMAIN act.fps

FingerprintsHold(a, act) ==
    \A k \in DOMAIN a.fps : k \in DOMAIN act.fps /\ act.fps[k] = a.fps[k]

Matches(a, act) ==
    /\ a.state = "ACTIVE" /\ a.project = act.project
    /\ a.ops = act.ops
    /\ FingerprintsHold(a, act)
    /\ IF a.kind = "SEMANTIC"
       THEN Envelope(act) \subseteq a.envelope /\ Network(act) \subseteq a.network
       ELSE /\ Envelope(act) = a.envelope /\ Network(act) = a.network
            /\ DisplayTargets(act) = a.targets

\* EXACT before SEMANTIC, then the older one.
MatchesBefore(a, b) ==
    IF (a.kind = "EXACT") # (b.kind = "EXACT") THEN a.kind = "EXACT" ELSE a.id <= b.id

Candidates(approvals, act) == {a \in approvals : a.project = act.project}

\* The approval that covers the action, as a set of at most one.
Match(approvals, act) ==
    IF act.project = <<>> \/ ~Approvable(act.status) \/ HasAmbiguousTarget(act) THEN {}
    ELSE LET covering == {a \in Candidates(approvals, act) : Matches(a, act)}
         IN  {a \in covering : \A b \in covering : MatchesBefore(a, b)}

-----------------------------------------------------------------------------
(* Why an approval no longer covers an action.                             *)

Ops(s) == {s[i] : i \in DOMAIN s}

Related(a, act) ==
    \/ a.raw = act.raw
    \/ Ops(a.ops) \cap Ops(act.ops) # {}
    \/ DOMAIN a.fps \cap DOMAIN act.fps # {}

\* The kinds of difference reported, one per line of Differences.
ScopesOf(envelope, type) ==
    {x.scope : x \in {y \in envelope : y.type = type /\ y.scope # ""}}

Differences(a, act) ==
    Fires(a.state # "ACTIVE", "state")
    \cup Fires(a.ops # act.ops, "operation")
    \cup Fires(~FingerprintsHold(a, act), "fingerprint")
    \cup Fires(a.kind = "EXACT" /\ DisplayTargets(act) # a.targets, "target")
    \cup Fires(\E x \in a.envelope \cup Envelope(act) :
                  LET was == ScopesOf(a.envelope, x.type)
                      now == ScopesOf(Envelope(act), x.type)
                  IN  Cardinality(was) = 1 /\ Cardinality(now) = 1 /\ was # now, "scope")
    \cup Fires(~(Envelope(act) \subseteq a.envelope), "new effect")
    \cup Fires(a.kind = "EXACT" /\ ~(a.envelope \subseteq Envelope(act)), "effect gone")
    \cup Fires(~(Network(act) \subseteq a.network), "new network target")

\* The reports an answer carries: related approvals with a difference, the
\* first ones in match order.
MismatchReports(approvals, act) ==
    LET reported == {a \in Candidates(approvals, act) :
                        Related(a, act) /\ Differences(a, act) # {}}
        before(a) == {b \in reported : b # a /\ MatchesBefore(b, a)}
    IN  {[id |-> a.id, differences |-> Differences(a, act)] :
            a \in {x \in reported : Cardinality(before(x)) < MaxMismatchReports}}

-----------------------------------------------------------------------------
(* The engine.                                                             *)

ReadScopes == {"WORKSPACE", "GENERATED"}

DisqualifyingFlags == {"sensitive", "traversal", "symlink_escape", "network_path"}

AllNoop(act) ==
    act.commands # <<>> /\ \A i \in DOMAIN act.commands : act.commands[i].op = "NOOP"

BaselineReadOnlyWorkspace(act) ==
    /\ AllowReadonlyWorkspace /\ act.status = "RESOLVED" /\ act.project # <<>>
    /\ IF act.effects = {} THEN AllNoop(act)
       ELSE \A e \in act.effects :
              /\ e.type = "READ" /\ e.target # NoTarget /\ ~e.target.amb
              /\ e.target.scope \in ReadScopes
              /\ e.target.flags \cap DisqualifyingFlags = {}

Decision(outcome, class, approval, reports) ==
    [outcome |-> outcome, class |-> class, approval |-> approval, reports |-> reports]

UncertainClass ==
    [PARSE_FAILED |-> "UNSUPPORTED_SYNTAX", CONTEXT_FAILED |-> "CONTEXT_UNAVAILABLE",
     UNRESOLVED |-> "UNRESOLVED_COMMAND"]

\* 0 stands for no approval.  The engine's order: floor, uncertain, baseline,
\* approvals, ask.
EvaluateDetailed(approvals, act, ws, default) ==
    LET floor   == Outcome(HardRules(act, ws, default))
        reports == MismatchReports(approvals, act)
        match   == Match(approvals, act)
    IN  IF floor = "BLOCK" THEN Decision("BLOCK", "HARD_RULE", 0, reports)
        ELSE IF floor = "ASK_ALWAYS" THEN Decision("ASK", "CONFIRMATION", 0, reports)
        ELSE IF act.status \in DOMAIN UncertainClass
             THEN Decision("ASK", UncertainClass[act.status], 0, reports)
        ELSE IF HasAmbiguousTarget(act) THEN Decision("ASK", "AMBIGUOUS_PATH", 0, reports)
        ELSE IF BaselineReadOnlyWorkspace(act) THEN Decision("ALLOW", "READONLY", 0, {})
        ELSE IF match # {}
             THEN Decision("ALLOW", "APPROVAL_MATCH", (CHOOSE a \in match : TRUE).id, {})
        ELSE IF reports # {} THEN Decision("ASK", "APPROVAL_MISMATCH", 0, reports)
        ELSE Decision("ASK", "NO_APPROVAL", 0, {})

=============================================================================
