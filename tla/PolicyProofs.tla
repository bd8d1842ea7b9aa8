---------------------------- MODULE PolicyProofs ----------------------------
(***************************************************************************)
(* Proofs about the decision on one action, for every action, every set of *)
(* approvals and every file tree: what an answer of the engine implies,    *)
(* what an approval does and does not change, and which harm the safety    *)
(* floor sees.  An action is whatever the resolver made of a line; nothing *)
(* is assumed about it beyond the fields the engine reads.                 *)
(***************************************************************************)
EXTENDS Policy, Scope, FiniteSetTheorems, WellFoundedInduction, TLAPS

-----------------------------------------------------------------------------
(* Numbers *)

LEMMA LeastNumber ==
    ASSUME NEW T, T \subseteq Nat, T # {}
    PROVE  \E m \in T : \A n \in T : m <= n
<1> DEFINE R == OpToRel(<, Nat)
<1>1. IsWellFoundedOn(R, Nat)
    BY NatLessThanWellFounded
<1>2. \A m, n \in Nat : n < m => <<n, m>> \in R
    BY DEF OpToRel
<1> HIDE DEF R
<1>3. PICK m \in T : \A n \in T : <<n, m>> \notin R
    BY <1>1, WFMin
<1>4. m \in Nat /\ \A n \in T : n \in Nat /\ ~(n < m)
    BY <1>2, <1>3
<1>5. \A n \in T : m <= n
    BY <1>4
<1> QED
    BY <1>5

-----------------------------------------------------------------------------
(* Approvals *)

(* Approvals as the store hands them out.                                  *)
Numbered(approvals) == \A a \in approvals : a.id \in Nat

(* The action may be matched at all.                                       *)
Matchable(act) ==
    act.project # <<>> /\ Approvable(act.status) /\ ~HasAmbiguousTarget(act)

(* Whenever an approval covers the action, the order of candidates has a   *)
(* first one.                                                              *)
LEMMA MatchFound ==
    ASSUME NEW approvals, Numbered(approvals), NEW act, Matchable(act),
           NEW a \in approvals, Matches(a, act)
    PROVE  Match(approvals, act) # {}
<1> DEFINE covering == {x \in Candidates(approvals, act) : Matches(x, act)}
           exact == {x \in covering : x.kind = "EXACT"}
           First(x) == \A b \in covering : MatchesBefore(x, b)
<1>1. a \in covering /\ \A x \in covering : x.id \in Nat
    BY DEF Candidates, Matches, Numbered
<1>2. Match(approvals, act) = {x \in covering : First(x)}
    BY DEF Match, Matchable
<1>3. ASSUME NEW S, S \subseteq covering, S # {}
      PROVE  \E x \in S : \A b \in S : x.id <= b.id
    <2> DEFINE T == {x.id : x \in S}
    <2>1. T \subseteq Nat /\ T # {}
        BY <1>1, <1>3
    <2> HIDE DEF T
    <2>2. PICK m \in T : \A n \in T : m <= n
        BY <2>1, LeastNumber
    <2> QED
        BY <2>2 DEF T
<1> HIDE DEF covering
<1>4. CASE exact # {}
    <2>1. PICK x \in exact : \A b \in exact : x.id <= b.id
        BY <1>3, <1>4
    <2>2. First(x)
        BY <2>1 DEF MatchesBefore
    <2> QED
        BY <1>2, <2>1, <2>2
<1>5. CASE exact = {}
    <2>1. PICK x \in covering : \A b \in covering : x.id <= b.id
        BY <1>1, <1>3
    <2>2. First(x)
        BY <1>5, <2>1 DEF MatchesBefore
    <2> QED
        BY <1>2, <2>1, <2>2
<1> QED
    BY <1>4, <1>5

LEMMA MatchIsCovering ==
    ASSUME NEW approvals, NEW act, NEW a \in Match(approvals, act)
    PROVE  a \in approvals /\ Matches(a, act) /\ Matchable(act)
BY DEF Match, Matchable, Candidates

(* An approval covers the action it was made from.                         *)
LEMMA BuildMatches ==
    ASSUME NEW id, NEW act, NEW kind \in {"EXACT", "SEMANTIC"}
    PROVE  Matches(Build(id, act, kind), act)
<1> DEFINE a == Build(id, act, kind)
<1>1. /\ a.state = "ACTIVE" /\ a.project = act.project /\ a.ops = act.ops /\ a.kind = kind
      /\ a.fps = act.fps /\ a.envelope = Envelope(act) /\ a.network = Network(act)
      /\ kind = "EXACT" => a.targets = DisplayTargets(act)
    BY DEF Build
<1> HIDE DEF a
<1>2. FingerprintsHold(a, act)
    BY <1>1 DEF FingerprintsHold
<1>3. Matches(a, act)
    BY <1>1, <1>2 DEF Matches
<1> QED
    BY <1>3 DEF a

-----------------------------------------------------------------------------
(* The engine *)

LEMMA OutcomePass ==
    ASSUME NEW findings
    PROVE  /\ Outcome(findings) = "PASS" <=> findings = {}
           /\ Outcome(findings) \in {"PASS", "ASK_ALWAYS", "BLOCK"}
BY DEF Outcome

LEMMA Approvables ==
    ASSUME NEW s
    PROVE  Approvable(s) => s \notin DOMAIN UncertainClass
BY DEF Approvable, UncertainClass

(* What it takes to be let through, and that it is enough.                 *)
LEMMA AllowedExactly ==
    ASSUME NEW approvals, NEW act, NEW ws, NEW default, NEW d,
           d = EvaluateDetailed(approvals, act, ws, default)
    PROVE  /\ d.outcome = "ALLOW" <=>
                /\ HardRules(act, ws, default) = {}
                /\ act.status \notin DOMAIN UncertainClass
                /\ ~HasAmbiguousTarget(act)
                /\ BaselineReadOnlyWorkspace(act) \/ Match(approvals, act) # {}
           /\ d.outcome = "ALLOW" /\ ~BaselineReadOnlyWorkspace(act) =>
                d.approval = (CHOOSE a \in Match(approvals, act) : TRUE).id
           /\ d.outcome = "BLOCK" <=> Outcome(HardRules(act, ws, default)) = "BLOCK"
<1> DEFINE floor == Outcome(HardRules(act, ws, default))
           reports == MismatchReports(approvals, act)
           match == Match(approvals, act)
<1>1. floor \in {"PASS", "ASK_ALWAYS", "BLOCK"} /\ (floor = "PASS" <=> HardRules(act, ws, default) = {})
    BY OutcomePass
<1>2. d = IF floor = "BLOCK" THEN Decision("BLOCK", "HARD_RULE", 0, reports)
          ELSE IF floor = "ASK_ALWAYS" THEN Decision("ASK", "CONFIRMATION", 0, reports)
          ELSE IF act.status \in DOMAIN UncertainClass
               THEN Decision("ASK", UncertainClass[act.status], 0, reports)
          ELSE IF HasAmbiguousTarget(act) THEN Decision("ASK", "AMBIGUOUS_PATH", 0, reports)
          ELSE IF BaselineReadOnlyWorkspace(act) THEN Decision("ALLOW", "READONLY", 0, {})
          ELSE IF match # {}
               THEN Decision("ALLOW", "APPROVAL_MATCH", (CHOOSE a \in match : TRUE).id, {})
          ELSE IF reports # {} THEN Decision("ASK", "APPROVAL_MISMATCH", 0, reports)
          ELSE Decision("ASK", "NO_APPROVAL", 0, {})
    BY DEF EvaluateDetailed
<1>3. \A o, c, i, r : Decision(o, c, i, r).outcome = o /\ Decision(o, c, i, r).approval = i
    BY DEF Decision
<1> HIDE DEF floor, reports, match
<1>4. /\ d.outcome = "ALLOW" <=>
            /\ floor = "PASS" /\ act.status \notin DOMAIN UncertainClass
            /\ ~HasAmbiguousTarget(act)
            /\ BaselineReadOnlyWorkspace(act) \/ match # {}
      /\ d.outcome = "ALLOW" /\ ~BaselineReadOnlyWorkspace(act) =>
            d.approval = (CHOOSE a \in match : TRUE).id
      /\ d.outcome = "BLOCK" <=> floor = "BLOCK"
    BY <1>1, <1>2, <1>3
<1> QED
    BY <1>1, <1>4 DEF floor, match

(* Effects that only read the workspace.                                   *)
OnlyReads(act) ==
    \A e \in act.effects : /\ e.type = "READ" /\ e.target.scope \in ReadScopes
                           /\ "sensitive" \notin e.target.flags

(* The approval speaks about this action: the same operations in the same  *)
(* project, files that read as they did, no effect and no host it did not  *)
(* list, and for an exact approval the very same targets.                  *)
Covers(a, act) ==
    /\ a.state = "ACTIVE" /\ a.project = act.project /\ a.ops = act.ops
    /\ FingerprintsHold(a, act)
    /\ Envelope(act) \subseteq a.envelope /\ Network(act) \subseteq a.network
    /\ a.kind # "SEMANTIC" => DisplayTargets(act) = a.targets

(* Nothing is let through for free: the floor has no finding, the action   *)
(* is resolved and free of ambiguous paths, and either all of it reads the *)
(* workspace or the approval the answer names is active and covers it      *)
(* (engine.go EvaluateDetailed, match.go Match).                           *)
THEOREM AllowIsEarned ==
    ASSUME NEW approvals, NEW act, NEW ws, NEW default, NEW d,
           d = EvaluateDetailed(approvals, act, ws, default), d.outcome = "ALLOW"
    PROVE  /\ HardRules(act, ws, default) = {}
           /\ act.status \notin DOMAIN UncertainClass /\ ~HasAmbiguousTarget(act)
           /\ OnlyReads(act) \/ \E a \in approvals : a.id = d.approval /\ Covers(a, act)
<1>1. /\ HardRules(act, ws, default) = {}
      /\ act.status \notin DOMAIN UncertainClass /\ ~HasAmbiguousTarget(act)
      /\ BaselineReadOnlyWorkspace(act) \/ Match(approvals, act) # {}
    BY AllowedExactly
<1>2. CASE BaselineReadOnlyWorkspace(act)
    <2>1. OnlyReads(act)
        BY <1>2 DEF BaselineReadOnlyWorkspace, OnlyReads, DisqualifyingFlags
    <2> QED
        BY <1>1, <2>1
<1>3. CASE ~BaselineReadOnlyWorkspace(act)
    <2> DEFINE a == CHOOSE x \in Match(approvals, act) : TRUE
    <2>1. a \in Match(approvals, act) /\ a.id = d.approval
        BY <1>1, <1>3, AllowedExactly
    <2> HIDE DEF a
    <2>2. a \in approvals /\ Matches(a, act)
        BY <2>1, MatchIsCovering
    <2>3. Covers(a, act)
        BY <2>2 DEF Matches, Covers
    <2> QED
        BY <1>1, <2>1, <2>2, <2>3
<1> QED
    BY <1>2, <1>3

(* Whatever Validate accepts is let through once some approval covers it.  *)
LEMMA CoveredIsAllowed ==
    ASSUME NEW all, Numbered(all), NEW a \in all, NEW act, NEW ws, NEW default,
           Matches(a, act), Validate(act, ws, default)
    PROVE  EvaluateDetailed(all, act, ws, default).outcome = "ALLOW"
<1>1. /\ HardRules(act, ws, default) = {} /\ Matchable(act)
      /\ act.status \notin DOMAIN UncertainClass /\ ~HasAmbiguousTarget(act)
    BY OutcomePass, Approvables DEF Validate, Matchable
<1>2. Match(all, act) # {}
    BY <1>1, MatchFound
<1> QED
    BY <1>1, <1>2, AllowedExactly

(* An approval works: whatever Validate accepts is let through by the      *)
(* approval built from it, of either kind, beside any approvals that exist *)
(* already (create.go Validate and Build against match.go Matches).        *)
THEOREM ApprovalWorks ==
    ASSUME NEW approvals, Numbered(approvals), NEW id \in Nat, NEW act, NEW ws, NEW default,
           NEW kind \in {"EXACT", "SEMANTIC"}, Validate(act, ws, default)
    PROVE  EvaluateDetailed(approvals \cup {Build(id, act, kind)}, act, ws, default).outcome = "ALLOW"
<1> DEFINE a == Build(id, act, kind)
           all == approvals \cup {a}
<1>1. Matches(a, act)
    BY BuildMatches
<1>2. a.id = id
    BY DEF Build
<1> HIDE DEF a
<1>3. a \in all /\ Numbered(all)
    BY <1>2 DEF Numbered
<1> HIDE DEF all
<1>4. EvaluateDetailed(all, act, ws, default).outcome = "ALLOW"
    BY <1>1, <1>3, CoveredIsAllowed
<1> QED
    BY <1>4 DEF all, a

(* Trust only adds up: more approvals never take an answer back, and never *)
(* lift what the floor blocks (engine.go EvaluateDetailed).                *)
THEOREM TrustOnlyAdds ==
    ASSUME NEW more, NEW approvals, approvals \subseteq more, Numbered(more),
           NEW act, NEW ws, NEW default
    PROVE  /\ EvaluateDetailed(approvals, act, ws, default).outcome = "ALLOW"
                => EvaluateDetailed(more, act, ws, default).outcome = "ALLOW"
           /\ EvaluateDetailed(approvals, act, ws, default).outcome = "BLOCK"
                <=> EvaluateDetailed(more, act, ws, default).outcome = "BLOCK"
<1>1. ASSUME Match(approvals, act) # {}
      PROVE  Match(more, act) # {}
    <2>1. PICK a \in Match(approvals, act) : TRUE
        BY <1>1
    <2>2. a \in more /\ Matches(a, act) /\ Matchable(act)
        BY <2>1, MatchIsCovering
    <2> QED
        BY <2>2, MatchFound
<1>2. EvaluateDetailed(approvals, act, ws, default).outcome = "ALLOW"
          => EvaluateDetailed(more, act, ws, default).outcome = "ALLOW"
    BY <1>1, AllowedExactly
<1>3. EvaluateDetailed(approvals, act, ws, default).outcome = "BLOCK"
          <=> EvaluateDetailed(more, act, ws, default).outcome = "BLOCK"
    BY ZenonT(60), AllowedExactly
<1> QED
    BY <1>2, <1>3

-----------------------------------------------------------------------------
(* The safety floor *)

LEMMA MoreFindings ==
    ASSUME NEW findings, NEW more, findings \subseteq more
    PROVE  OutcomeRank[Outcome(findings)] <= OutcomeRank[Outcome(more)]
<1>1. /\ Outcome(findings) = "BLOCK" => Outcome(more) = "BLOCK"
      /\ Outcome(findings) = "ASK_ALWAYS" => Outcome(more) \in {"ASK_ALWAYS", "BLOCK"}
      /\ Outcome(findings) \in {"PASS", "ASK_ALWAYS", "BLOCK"}
      /\ Outcome(more) \in {"PASS", "ASK_ALWAYS", "BLOCK"}
    BY DEF Outcome
<1>2. OutcomeRank["PASS"] = 0 /\ OutcomeRank["ASK_ALWAYS"] = 1 /\ OutcomeRank["BLOCK"] = 2
    BY DEF OutcomeRank
<1> QED
    BY <1>1, <1>2

(* A line is never judged milder than a part of it: with more effects,     *)
(* more commands or a truncated examination every finding stays, so no     *)
(* harmless command beside it makes a harmful one pass (hard_rules.go).    *)
THEOREM FloorGrows ==
    ASSUME NEW act, NEW longer, NEW ws, NEW default,
           act.effects \subseteq longer.effects, act.nested \subseteq longer.nested,
           act.incomplete => longer.incomplete
    PROVE  /\ HardRules(act, ws, default) \subseteq HardRules(longer, ws, default)
           /\ OutcomeRank[Outcome(HardRules(act, ws, default))]
                <= OutcomeRank[Outcome(HardRules(longer, ws, default))]
<1>1. UNION {EffectRules(e) : e \in act.effects} \subseteq UNION {EffectRules(e) : e \in longer.effects}
    OBVIOUS
<1>2. UNION {CommandRules(c, default) : c \in act.nested}
          \subseteq UNION {CommandRules(c, default) : c \in longer.nested}
    OBVIOUS
<1>3. WorkspaceDeleteRules(act.effects, ws) \subseteq WorkspaceDeleteRules(longer.effects, ws)
    BY DEF WorkspaceDeleteRules, Fires
<1>4. RuleR13(act) \subseteq RuleR13(longer)
    BY DEF RuleR13, Fires
<1>5. HardRules(act, ws, default) \subseteq HardRules(longer, ws, default)
    BY <1>1, <1>2, <1>3, <1>4 DEF HardRules
<1> QED
    BY <1>5, MoreFindings

LEMMA TargetFields ==
    ASSUME NEW fs, NEW cache, NEW p, NEW ws, NEW glob, NEW amb, NEW extra, NEW t,
           t = Target(fs, cache, p, ws, glob, amb, extra)
    PROVE  /\ t.scope = ScopeOf(fs, cache, p, ws) /\ t.flags = FlagsOf(p, ws) \cup extra
           /\ t # NoTarget
           /\ ("sensitive" \in FlagsOf(p, ws) <=> IsSensitive(p))
           /\ ("temp" \in FlagsOf(p, ws) <=> IsTemp(p))
<1>1. t.scope = ScopeOf(fs, cache, p, ws) /\ t.flags = FlagsOf(p, ws) \cup extra
    BY DEF Target
<1>2. ScopeOf(fs, cache, p, ws) # "" /\ NoTarget.scope = ""
    BY DEF ScopeOf, NoTarget
<1>3. /\ ("sensitive" \in FlagsOf(p, ws) <=> IsSensitive(p))
      /\ ("temp" \in FlagsOf(p, ws) <=> IsTemp(p))
    BY DEF FlagsOf
<1> QED
    BY <1>1, <1>2, <1>3

(* The workspace is known and p lies in it.                                *)
Inside(p, ws) == ws # <<>> /\ Under(p, ws)

(* What cannot be taken back: a change of a system location or of a        *)
(* credential, and the removal of a tree outside the workspace.            *)
Irreversible(e, p, ws) ==
    /\ e.type \in Changes
    /\ \/ IsSystem(p) \/ IsSensitive(p)
       \/ e.type = "DELETE" /\ "recursive" \in e.flags /\ ~Inside(p, ws) /\ ~IsTemp(p)

(* The floor sees the harm: in every file tree, whatever the caches say    *)
(* and whatever approvals there are, an action with one irreversible       *)
(* effect on a normalised path is blocked (scope.go, hard_rules.go R1-R5). *)
THEOREM HarmBlocks ==
    ASSUME NEW approvals, NEW act, NEW ws, NEW default, NEW e \in act.effects,
           NEW fs, NEW cache, NEW p, NEW glob, NEW amb,
           NEW extra, extra \subseteq {"traversal", "symlink_escape", "wildcard"},
           e.target = Target(fs, cache, p, ws, glob, amb, extra), Irreversible(e, p, ws)
    PROVE  EvaluateDetailed(approvals, act, ws, default).outcome = "BLOCK"
<1>1. /\ e.target.scope = ScopeOf(fs, cache, p, ws) /\ e.target.flags = FlagsOf(p, ws) \cup extra
      /\ e.target # NoTarget
      /\ ("sensitive" \in FlagsOf(p, ws) <=> IsSensitive(p))
      /\ ("temp" \in FlagsOf(p, ws) <=> IsTemp(p))
    BY TargetFields
<1>2. \A n : Block(n).outcome = "BLOCK"
    BY DEF Block
<1>3. \E f \in EffectRules(e) : f.outcome = "BLOCK"
    <2>1. CASE IsSystem(p)
        <3>1. RuleR1(e) = {Block(1)}
            BY <1>1, <2>1 DEF RuleR1, Fires, ScopeOf, Irreversible
        <3> QED
            BY <1>1, <1>2, <3>1 DEF EffectRules
    <2>2. CASE IsSensitive(p)
        <3>1. Block(5) \in RuleR5(e)
            BY <1>1, <2>2 DEF RuleR5, Fires, Irreversible
        <3> QED
            BY <1>1, <1>2, <3>1 DEF EffectRules
    <2>3. CASE /\ ~IsSystem(p) /\ e.type = "DELETE" /\ "recursive" \in e.flags
               /\ ~Inside(p, ws) /\ ~IsTemp(p)
        <3>1. e.target.scope \in {"HOME", "OUTSIDE"}
            BY <1>1, <2>3 DEF ScopeOf, Inside
        <3>2. WideInHome(e) /\ WideOutside(e)
            BY <1>1, <2>3 DEF WideInHome, WideOutside
        <3>3. DeleteRules(e) \in {{Block(2)}, {Block(3)}}
            BY <2>3, <3>1, <3>2 DEF DeleteRules
        <3> QED
            BY <1>1, <1>2, <3>3 DEF EffectRules
    <2> QED
        BY <2>1, <2>2, <2>3 DEF Irreversible
<1>4. \E f \in HardRules(act, ws, default) : f.outcome = "BLOCK"
    BY <1>3 DEF HardRules
<1>5. Outcome(HardRules(act, ws, default)) = "BLOCK"
    BY <1>4 DEF Outcome
<1> QED
    BY <1>5, AllowedExactly

(* The read-only baseline reads the workspace and nothing else: no target  *)
(* of an action it lets through lies outside it, in a system location or   *)
(* in a credential file (baseline.go, scope.go).                           *)
THEOREM BaselineStaysInside ==
    ASSUME NEW act, BaselineReadOnlyWorkspace(act), NEW e \in act.effects,
           NEW fs, NEW cache, NEW p, NEW ws, NEW glob, NEW amb, NEW extra,
           e.target = Target(fs, cache, p, ws, glob, amb, extra)
    PROVE  e.type = "READ" /\ Inside(p, ws) /\ ~IsSystem(p) /\ ~IsSensitive(p)
<1>1. /\ e.target.scope = ScopeOf(fs, cache, p, ws) /\ e.target.flags = FlagsOf(p, ws) \cup extra
      /\ ("sensitive" \in FlagsOf(p, ws) <=> IsSensitive(p))
    BY TargetFields
<1>2. /\ e.type = "READ" /\ e.target.scope \in {"WORKSPACE", "GENERATED"}
      /\ "sensitive" \notin e.target.flags
    BY DEF BaselineReadOnlyWorkspace, ReadScopes, DisqualifyingFlags
<1> QED
    BY <1>1, <1>2 DEF ScopeOf, Inside

-----------------------------------------------------------------------------
(* Mismatch reports *)

Scopes == {"SYSTEM", "WORKSPACE", "GENERATED", "HOME", "OUTSIDE"}

LEMMA ScopesFinite == IsFiniteSet(Scopes)
<1>1. IsFiniteSet({})
    BY FS_EmptySet
<1>2. \A S, x : IsFiniteSet(S) => IsFiniteSet(S \cup {x})
    BY FS_AddElement
<1>3. Scopes = (((({} \cup {"SYSTEM"}) \cup {"WORKSPACE"}) \cup {"GENERATED"}) \cup {"HOME"}) \cup {"OUTSIDE"}
    BY DEF Scopes
<1> QED
    BY <1>1, <1>2, <1>3

(* A candidate that covers the action is never reported to differ from it. *)
(* One that does not cover it is always explained, but for one case: an    *)
(* exact approval of which the action has only left out a network target.  *)
(* (match.go Matches and mismatch.go Differences are written separately.)  *)
THEOREM MismatchExplained ==
    ASSUME NEW a, NEW act, a.project = act.project, a.kind \in {"EXACT", "SEMANTIC"},
           \A x \in a.envelope : x.scope \in Scopes \cup {""}
    PROVE  /\ Matches(a, act) => Differences(a, act) = {}
           /\ Differences(a, act) = {} =>
                Matches(a, act) \/ (a.kind = "EXACT" /\ ~(a.network \subseteq Network(act)))
<1> DEFINE Moved == \E x \in a.envelope \cup Envelope(act) :
                        LET was == ScopesOf(a.envelope, x.type)
                            now == ScopesOf(Envelope(act), x.type)
                        IN  Cardinality(was) = 1 /\ Cardinality(now) = 1 /\ was # now
           Parts == /\ a.state = "ACTIVE" /\ a.ops = act.ops /\ FingerprintsHold(a, act)
                    /\ a.kind = "EXACT" => DisplayTargets(act) = a.targets
                    /\ Envelope(act) \subseteq a.envelope
                    /\ a.kind = "EXACT" => a.envelope \subseteq Envelope(act)
                    /\ Network(act) \subseteq a.network
<1>1. Differences(a, act) = {} <=> Parts /\ ~Moved
    <2> DEFINE D1 == Fires(a.state # "ACTIVE", "state")
               D2 == Fires(a.ops # act.ops, "operation")
               D3 == Fires(~FingerprintsHold(a, act), "fingerprint")
               D4 == Fires(a.kind = "EXACT" /\ DisplayTargets(act) # a.targets, "target")
               D5 == Fires(Moved, "scope")
               D6 == Fires(~(Envelope(act) \subseteq a.envelope), "new effect")
               D7 == Fires(a.kind = "EXACT" /\ ~(a.envelope \subseteq Envelope(act)), "effect gone")
               D8 == Fires(~(Network(act) \subseteq a.network), "new network target")
    <2>1. Differences(a, act) = D1 \cup D2 \cup D3 \cup D4 \cup D5 \cup D6 \cup D7 \cup D8
        BY DEF Differences
    <2> HIDE DEF Moved
    <2>2. /\ D1 = {} <=> a.state = "ACTIVE"
          /\ D2 = {} <=> a.ops = act.ops
          /\ D3 = {} <=> FingerprintsHold(a, act)
          /\ D4 = {} <=> (a.kind = "EXACT" => DisplayTargets(act) = a.targets)
        BY DEF Fires
    <2>3. /\ D5 = {} <=> ~Moved
          /\ D6 = {} <=> Envelope(act) \subseteq a.envelope
          /\ D7 = {} <=> (a.kind = "EXACT" => a.envelope \subseteq Envelope(act))
          /\ D8 = {} <=> Network(act) \subseteq a.network
        BY DEF Fires
    <2> HIDE DEF D1, D2, D3, D4, D5, D6, D7, D8
    <2>4. Differences(a, act) = {} <=> /\ D1 = {} /\ D2 = {} /\ D3 = {} /\ D4 = {}
                                       /\ D5 = {} /\ D6 = {} /\ D7 = {} /\ D8 = {}
        BY <2>1
    <2> QED
        BY <2>2, <2>3, <2>4
<1>2. ASSUME Envelope(act) \subseteq a.envelope
      PROVE  ~Moved
    <2>1. ASSUME NEW type
          PROVE  LET was == ScopesOf(a.envelope, type)
                     now == ScopesOf(Envelope(act), type)
                 IN  ~(Cardinality(was) = 1 /\ Cardinality(now) = 1 /\ was # now)
        <3> DEFINE was == ScopesOf(a.envelope, type)
                   now == ScopesOf(Envelope(act), type)
        <3>1. was \subseteq Scopes
            BY DEF ScopesOf
        <3>2. now \subseteq was
            BY <1>2 DEF ScopesOf
        <3>3. IsFiniteSet(was)
            BY <3>1, ScopesFinite, FS_Subset
        <3> HIDE DEF was, now
        <3>4. Cardinality(was) = Cardinality(now) => was = now
            BY <3>2, <3>3, FS_Subset
        <3> QED
            BY <3>4 DEF was, now
    <2> QED
        BY <2>1
<1> HIDE DEF Moved
<1>3. Matches(a, act) => Parts
    BY DEF Matches
<1>4. Parts => Matches(a, act) \/ (a.kind = "EXACT" /\ ~(a.network \subseteq Network(act)))
    <2>1. CASE a.kind = "SEMANTIC"
        BY <2>1 DEF Matches
    <2>2. ASSUME Parts, a.kind = "EXACT", a.network \subseteq Network(act)
          PROVE  Matches(a, act)
        <3>1. Envelope(act) = a.envelope /\ Network(act) = a.network
            BY <2>2
        <3> QED
            BY <2>2, <3>1 DEF Matches
    <2> QED
        BY <2>1, <2>2
<1> QED
    BY <1>1, <1>2, <1>3, <1>4
=============================================================================
