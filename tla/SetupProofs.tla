---------------------------- MODULE SetupProofs ----------------------------
(***************************************************************************)
(* Proofs about installing and removing the integration, for any number of *)
(* commands, failures, interruptions and edits, any machine found before   *)
(* the first command, and any events, rules, paths and start-up files.     *)
(***************************************************************************)
EXTENDS Setup, TLAPS, FiniteSetTheorems, SequenceTheorems, WellFoundedInduction

-----------------------------------------------------------------------------
(* Numbers *)

LEMMA LeastElement ==
    ASSUME NEW S \in SUBSET Nat, S # {}
    PROVE  \E m \in S : \A x \in S : m <= x
<1>1. PICK m \in S : \A x \in S : ~(<<x, m>> \in OpToRel(<, Nat))
    BY WFMin, NatLessThanWellFounded
<1>2. \A x, y \in Nat : x < y => <<x, y>> \in OpToRel(<, Nat)
    BY Zenon DEF OpToRel
<1>3. \A x \in S : ~(x < m)
    BY <1>1, <1>2
<1> QED
    BY <1>3

LEMMA GreatestElement ==
    ASSUME NEW S \in SUBSET Nat, S # {}, NEW b \in Nat, \A x \in S : x <= b
    PROVE  \E m \in S : \A x \in S : x <= m
<1> DEFINE T == {y \in Nat : b - y \in S}
<1>1. T # {}
    <2>1. PICK x \in S : TRUE
        OBVIOUS
    <2>2. b - x \in Nat /\ b - (b - x) = x
        OBVIOUS
    <2> QED
        BY <2>1, <2>2
<1>2. PICK k \in T : \A y \in T : k <= y
    BY <1>1, LeastElement
<1>3. \A x \in S : b - x \in Nat /\ b - (b - x) = x
    OBVIOUS
<1>4. \A x \in S : x <= b - k
    BY <1>2, <1>3
<1> QED
    BY <1>2, <1>4

(* The groups of a finite set of places are bounded.                       *)
Bounded(places) == \E b \in Nat : \A p \in places : p[1] <= b

LEMMA FiniteIsBounded ==
    ASSUME NEW S, S \subseteq Nat \X Nat, IsFiniteSet(S)
    PROVE  Bounded(S)
<1> DEFINE Bad(n) == \E T : T \subseteq Nat \X Nat /\ IsFiniteSet(T) /\ Cardinality(T) = n /\ ~Bounded(T)
           N == {n \in Nat : Bad(n)}
<1>1. ASSUME NEW n \in N
      PROVE  \E k \in N : k < n
    <2>1. PICK T : T \subseteq Nat \X Nat /\ IsFiniteSet(T) /\ Cardinality(T) = n /\ ~Bounded(T)
        BY <1>1
    <2>2. T # {}
        BY <2>1 DEF Bounded
    <2>3. PICK p \in T : TRUE
        BY <2>2
    <2>4. /\ IsFiniteSet(T \ {p}) /\ Cardinality(T \ {p}) = n - 1
          /\ Cardinality(T \ {p}) \in Nat
        BY <2>1, <2>3, FS_RemoveElement, FS_CardinalityType
    <2>5. ~Bounded(T \ {p})
        <3>1. SUFFICES ASSUME NEW b \in Nat, \A q \in T \ {p} : q[1] <= b
                       PROVE  FALSE
            BY DEF Bounded
        <3>2. p[1] \in Nat /\ \A q \in T : q[1] \in Nat
            BY <2>1
        <3>3. \A q \in T : q[1] <= b + p[1]
            BY <3>1, <3>2
        <3>4. b + p[1] \in Nat
            BY <3>2
        <3> QED
            BY <2>1, <3>3, <3>4 DEF Bounded
    <2>6. n - 1 \in N
        BY <2>1, <2>4, <2>5
    <2> QED
        BY <1>1, <2>6
<1>2. N = {}
    <2> HIDE DEF N
    <2>1. N \subseteq Nat
        BY DEF N
    <2> QED
        BY <1>1, <2>1, LeastElement
<1>3. Cardinality(S) \in Nat
    BY FS_CardinalityType
<1> QED
    BY <1>2, <1>3

LEMMA MaxBounds ==
    ASSUME NEW S, S \subseteq Nat \X Nat, Bounded(S)
    PROVE  LET m == Max({0} \cup {p[1] : p \in S}) IN m \in Nat /\ \A p \in S : p[1] <= m
<1> DEFINE T == {0} \cup {p[1] : p \in S}
<1>1. PICK b \in Nat : \A p \in S : p[1] <= b
    BY DEF Bounded
<1>2. T \in SUBSET Nat /\ T # {} /\ \A x \in T : x <= b
    BY <1>1
<1>3. \A p \in S : p[1] \in T
    OBVIOUS
<1> HIDE DEF T
<1>4. \E m \in T : \A x \in T : m >= x
    BY <1>2, GreatestElement
<1>5. Max(T) \in T /\ \A x \in T : Max(T) >= x
    BY <1>4 DEF Max
<1>6. Max(T) \in Nat /\ \A p \in S : p[1] <= Max(T)
    BY <1>2, <1>3, <1>5
<1> QED
    BY <1>6 DEF T

(* There is a first place in the order of groups and positions.            *)
LEMMA FirstIsOne ==
    ASSUME NEW S, S \subseteq Nat \X Nat, S # {}
    PROVE  FirstOf(S) \in S
<1> DEFINE G == {p[1] : p \in S}
<1>1. G \in SUBSET Nat /\ G # {}
    OBVIOUS
<1>2. PICK g \in G : \A x \in G : g <= x
    <2> HIDE DEF G
    <2> QED
        BY <1>1, LeastElement
<1> DEFINE H == {p[2] : p \in {q \in S : q[1] = g}}
<1>3. H \in SUBSET Nat /\ H # {}
    OBVIOUS
<1>4. PICK h \in H : \A x \in H : h <= x
    <2> HIDE DEF H
    <2> QED
        BY <1>3, LeastElement
<1>5. PICK p \in S : p[1] = g /\ p[2] = h
    OBVIOUS
<1>6. \A q \in S : q[1] \in G /\ (q[1] = g => q[2] \in H) /\ q[1] \in Nat /\ q[2] \in Nat
    OBVIOUS
<1>7. \A q \in S : p[1] < q[1] \/ (p[1] = q[1] /\ p[2] <= q[2])
    <2> HIDE DEF G, H
    <2> QED
        BY <1>2, <1>4, <1>5, <1>6
<1> QED
    BY <1>5, <1>7 DEF FirstOf

-----------------------------------------------------------------------------
(* Editing the hooks of one event *)

GroupsOK(g) ==
    /\ DOMAIN g \subseteq Nat \X Nat /\ Bounded(DOMAIN g)
    /\ \A p \in DOMAIN g :
        /\ g[p] = [matcher |-> g[p].matcher, entry |-> g[p].entry]
        /\ g[p].entry.kind \in {"user", "intenter", "agentguard"}

UserPart(g) == [p \in {q \in DOMAIN g : g[q].entry.kind = "user"} |-> g[p]]

OnlyOne(g) ==
    \A p, q \in DOMAIN g : g[p].entry.kind = "intenter" /\ g[q].entry.kind = "intenter" => p = q

LEMMA HookKind == \A path : Hook(path).kind = "intenter"
BY DEF Hook

(* What goes is not the user's.                                            *)
LEMMA Dropped ==
    /\ \A e : ownedByLegacy(e) => e.kind = "agentguard"
    /\ \A e : OursOrLegacy(e) => e.kind # "user"
    /\ \A e : \A path : owns(e, path) \/ OwnedByAnyIntenter(e) => e.kind = "intenter"
    /\ Spaced = {} => \A e : e.kind \in {"intenter", "agentguard"} => OursOrLegacy(e)
BY HookKind DEF ownedByLegacy, OursOrLegacy, OwnedByAnyIntenter, owns

LEMMA BoundedPart ==
    ASSUME NEW S, NEW T, T \subseteq S, Bounded(S)
    PROVE  Bounded(T)
BY DEF Bounded

LEMMA LegacyRemoved ==
    ASSUME NEW g, GroupsOK(g)
    PROVE  LET k == removeLegacyEntries(g) IN
           /\ GroupsOK(k) /\ UserPart(k) = UserPart(g) /\ (OnlyOne(g) => OnlyOne(k))
           /\ \A p \in DOMAIN k : k[p].entry.kind # "agentguard"
<1> DEFINE D == {q \in DOMAIN g : ~ownedByLegacy(g[q].entry)}
           k == removeLegacyEntries(g)
<1>1. k = [p \in D |-> g[p]]
    BY DEF removeLegacyEntries, Keep
<1> HIDE DEF k
<1>2. DOMAIN k = D /\ \A p \in D : k[p] = g[p] /\ p \in DOMAIN g
    BY <1>1
<1>3. Bounded(DOMAIN k)
    BY <1>2, BoundedPart DEF GroupsOK
<1>4. GroupsOK(k)
    BY <1>2, <1>3 DEF GroupsOK
<1>5. {q \in DOMAIN k : k[q].entry.kind = "user"} = {q \in DOMAIN g : g[q].entry.kind = "user"}
    BY <1>2, Dropped
<1>6. UserPart(k) = UserPart(g)
    BY <1>2, <1>5 DEF UserPart
<1>7. OnlyOne(g) => OnlyOne(k)
    BY <1>2 DEF OnlyOne
<1>8. \A p \in DOMAIN k : k[p].entry.kind # "agentguard"
    BY <1>2 DEF ownedByLegacy
<1> QED
    BY <1>4, <1>6, <1>7, <1>8 DEF k

LEMMA OursRemoved ==
    ASSUME NEW g, GroupsOK(g)
    PROVE  LET k == Keep(g, OursOrLegacy) IN
           /\ GroupsOK(k) /\ UserPart(k) = UserPart(g) /\ (OnlyOne(g) => OnlyOne(k))
           /\ \A p \in DOMAIN k : ~OursOrLegacy(k[p].entry)
<1> DEFINE D == {q \in DOMAIN g : ~OursOrLegacy(g[q].entry)}
           k == Keep(g, OursOrLegacy)
<1>1. k = [p \in D |-> g[p]]
    BY DEF Keep
<1> HIDE DEF k
<1>2. DOMAIN k = D /\ \A p \in D : k[p] = g[p] /\ p \in DOMAIN g
    BY <1>1
<1>3. Bounded(DOMAIN k)
    BY <1>2, BoundedPart DEF GroupsOK
<1>4. GroupsOK(k)
    BY <1>2, <1>3 DEF GroupsOK
<1>5. {q \in DOMAIN k : k[q].entry.kind = "user"} = {q \in DOMAIN g : g[q].entry.kind = "user"}
    BY <1>2, Dropped
<1>6. UserPart(k) = UserPart(g)
    BY <1>2, <1>5 DEF UserPart
<1>7. OnlyOne(g) => OnlyOne(k)
    BY <1>2 DEF OnlyOne
<1> QED
    BY <1>2, <1>4, <1>6, <1>7 DEF k

(* k is g with an entry of ours at place a.                                *)
HookAt(k, g, a, path) ==
    /\ GroupsOK(k) /\ UserPart(k) = UserPart(g)
    /\ DOMAIN k = DOMAIN g \cup {a} /\ k[a].entry = Hook(path)
    /\ \A p \in DOMAIN g \ {a} : k[p] = g[p]

(* A group of our own behind the others.                                   *)
LEMMA GroupAppended ==
    ASSUME NEW g, GroupsOK(g), NEW event, NEW path, NEW k, k = Put(g, After(g), event, path)
    PROVE  HookAt(k, g, After(g), path) /\ After(g) \notin DOMAIN g
<1> DEFINE a == After(g)
           m == Max({0} \cup {p[1] : p \in DOMAIN g})
<1>1. m \in Nat /\ \A p \in DOMAIN g : p[1] <= m
    BY MaxBounds DEF GroupsOK
<1>2. a = <<1 + m, 1>>
    BY DEF After
<1> HIDE DEF m, a
<1>3. a \in Nat \X Nat /\ a[1] = 1 + m
    BY <1>1, <1>2
<1>4. a \notin DOMAIN g
    BY <1>1, <1>3
<1>5. /\ DOMAIN k = DOMAIN g \cup {a}
      /\ k[a] = [matcher |-> matcherFor(event), entry |-> Hook(path)]
      /\ \A p \in DOMAIN g : k[p] = g[p]
    BY <1>4 DEF Put, a
<1>6. Bounded(DOMAIN k)
    <2>1. 1 + m \in Nat /\ \A p \in DOMAIN k : p[1] <= 1 + m
        BY <1>1, <1>3, <1>5 DEF GroupsOK
    <2> QED
        BY <2>1 DEF Bounded
<1>7. k[a].entry = Hook(path) /\ k[a] = [matcher |-> k[a].matcher, entry |-> k[a].entry]
    BY <1>5
<1>8. GroupsOK(k)
    BY <1>3, <1>5, <1>6, <1>7, HookKind DEF GroupsOK
<1>9. {q \in DOMAIN k : k[q].entry.kind = "user"} = {q \in DOMAIN g : g[q].entry.kind = "user"}
    BY <1>4, <1>5, <1>7, HookKind
<1>10. UserPart(k) = UserPart(g)
    BY <1>5, <1>9 DEF UserPart
<1> QED
    BY <1>4, <1>5, <1>7, <1>8, <1>10 DEF HookAt, a

(* An entry of ours is refreshed in place.                                 *)
LEMMA EntryRefreshed ==
    ASSUME NEW g, g = [p \in DOMAIN g |-> g[p]], GroupsOK(g), NEW path,
           NEW a \in DOMAIN g, g[a].entry.kind = "intenter", NEW k, k = [g EXCEPT ![a].entry = Hook(path)]
    PROVE  HookAt(k, g, a, path)
<1>1. /\ DOMAIN k = DOMAIN g /\ k[a] = [g[a] EXCEPT !.entry = Hook(path)]
      /\ \A p \in DOMAIN g \ {a} : k[p] = g[p]
    OBVIOUS
<1>2. k[a] = [matcher |-> g[a].matcher, entry |-> Hook(path)]
    BY <1>1 DEF GroupsOK
<1>3. k[a].entry = Hook(path) /\ k[a] = [matcher |-> k[a].matcher, entry |-> k[a].entry]
    BY <1>2
<1>4. GroupsOK(k)
    BY <1>1, <1>3, HookKind DEF GroupsOK
<1>5. {q \in DOMAIN k : k[q].entry.kind = "user"} = {q \in DOMAIN g : g[q].entry.kind = "user"}
    BY <1>1, <1>3, HookKind
<1>6. UserPart(k) = UserPart(g)
    BY <1>1, <1>5 DEF UserPart
<1> QED
    BY <1>1, <1>3, <1>4, <1>6 DEF HookAt

LEMMA EntryInstalled ==
    ASSUME NEW g, GroupsOK(g), NEW event, NEW path, NEW k, k = installEntry(g, event, path)
    PROVE  /\ GroupsOK(k) /\ UserPart(k) = UserPart(g)
           /\ \E p \in DOMAIN k : k[p].entry.kind = "intenter"
           /\ \A p \in DOMAIN k : k[p].entry.kind # "agentguard"
           /\ Spaced = {} /\ OnlyOne(g) => OnlyOne(k)
<1>1. PICK r : r = removeLegacyEntries(g)
    OBVIOUS
<1> DEFINE at == OwnAt(r, path)
<1>2. /\ GroupsOK(r) /\ UserPart(r) = UserPart(g) /\ (OnlyOne(g) => OnlyOne(r))
      /\ \A p \in DOMAIN r : r[p].entry.kind # "agentguard"
    BY <1>1, LegacyRemoved
<1>3. r = [p \in DOMAIN r |-> r[p]]
    BY <1>1 DEF removeLegacyEntries, Keep
<1>4. k = IF at = {} THEN Put(r, After(r), event, path) ELSE [r EXCEPT ![FirstOf(at)].entry = Hook(path)]
    BY <1>1 DEF installEntry
<1>5. CASE at = {}
    <2>1. HookAt(k, r, After(r), path) /\ After(r) \notin DOMAIN r
        BY <1>2, <1>4, <1>5, GroupAppended
    <2>2. Spaced = {} => \A p \in DOMAIN r : r[p].entry.kind # "intenter"
        BY <1>5 DEF OwnAt, OwnedByAnyIntenter
    <2>3. Spaced = {} => OnlyOne(k)
        BY <2>1, <2>2 DEF OnlyOne, HookAt
    <2> QED
        BY <1>2, <2>1, <2>3, HookKind DEF HookAt
<1>6. CASE at # {}
    <2> DEFINE a == FirstOf(at)
    <2>1. at \subseteq DOMAIN r /\ at \subseteq Nat \X Nat
        BY <1>2 DEF OwnAt, GroupsOK
    <2>2. a \in at
        <3> HIDE DEF at
        <3> QED
            BY <1>6, <2>1, FirstIsOne
    <2>3. a \in DOMAIN r /\ r[a].entry.kind = "intenter"
        BY <2>2, Dropped DEF OwnAt
    <2>4. k = [r EXCEPT ![a].entry = Hook(path)]
        BY <1>4, <1>6
    <2> HIDE DEF a, at
    <2>5. HookAt(k, r, a, path)
        BY <1>2, <1>3, <2>3, <2>4, EntryRefreshed
    <2>6. OnlyOne(r) => OnlyOne(k)
        BY <2>3, <2>5, HookKind DEF OnlyOne, HookAt
    <2> QED
        BY <1>2, <2>3, <2>5, <2>6, HookKind DEF HookAt
<1> QED
    BY <1>5, <1>6

-----------------------------------------------------------------------------
(* Editing the settings tree *)

TreeOK(s) ==
    /\ s = [state |-> s.state, hooks |-> s.hooks, rules |-> s.rules]
    /\ s.state \in {"ok", "absent", "broken"}
    /\ s.hooks = [e \in Events |-> s.hooks[e]]
    /\ \A e \in Events : GroupsOK(s.hooks[e])
    /\ s.state = "absent" => s.rules = {} /\ \A e \in Events : DOMAIN s.hooks[e] = {}

OneEach(s) == \A e \in Events : OnlyOne(s.hooks[e])

(* k is s with other hooks of ours.                                        *)
SameForeign(k, s) == TreeOK(k) /\ Foreign(k) = Foreign(s) /\ k.state = s.state

LEMMA ForeignForm ==
    ASSUME NEW s
    PROVE  Foreign(s) = [hooks |-> [e \in Events |-> UserPart(s.hooks[e])], rules |-> s.rules]
<1>1. \A e \in Events :
        Keep(s.hooks[e], LAMBDA h : h.kind # "user") = UserPart(s.hooks[e])
    BY DEF Keep, UserPart
<1> QED
    BY <1>1 DEF Foreign

LEMMA SameForeignTree ==
    ASSUME NEW s, TreeOK(s), s.state # "absent", NEW hooks, NEW k,
           k = [s EXCEPT !.hooks = [e \in Events |-> hooks[e]]],
           \A e \in Events : GroupsOK(hooks[e]) /\ UserPart(hooks[e]) = UserPart(s.hooks[e])
    PROVE  SameForeign(k, s) /\ \A e \in Events : k.hooks[e] = hooks[e]
<1>1. k = [state |-> s.state, hooks |-> [e \in Events |-> hooks[e]], rules |-> s.rules]
    BY DEF TreeOK
<1>2. /\ k.state = s.state /\ k.rules = s.rules /\ k.hooks = [e \in Events |-> hooks[e]]
      /\ k = [state |-> k.state, hooks |-> k.hooks, rules |-> k.rules]
    BY <1>1
<1>3. \A e \in Events : k.hooks[e] = hooks[e]
    BY <1>2
<1>4. k.hooks = [e \in Events |-> k.hooks[e]]
    BY <1>2
<1>5. TreeOK(k)
    BY <1>2, <1>3, <1>4 DEF TreeOK
<1>6. [e \in Events |-> UserPart(k.hooks[e])] = [e \in Events |-> UserPart(s.hooks[e])]
    BY <1>3
<1>7. Foreign(k) = Foreign(s)
    BY <1>2, <1>6, ForeignForm
<1> QED
    BY <1>2, <1>3, <1>5, <1>7 DEF SameForeign

Wired(s) ==
    \A e \in Required :
        /\ \E p \in DOMAIN s.hooks[e] : s.hooks[e][p].entry.kind = "intenter"
        /\ \A p \in DOMAIN s.hooks[e] : s.hooks[e][p].entry.kind # "agentguard"

LEMMA HooksInstalled ==
    ASSUME NEW s, TreeOK(s), s.state # "absent", NEW path, NEW k, k = InstallHooks(s, path)
    PROVE  SameForeign(k, s) /\ Wired(k) /\ (Spaced = {} /\ OneEach(s) => OneEach(k))
<1>1. PICK hooks : hooks = [e \in Events |->
                                IF e \in Required THEN installEntry(s.hooks[e], e, path) ELSE s.hooks[e]]
    OBVIOUS
<1>2. k = [s EXCEPT !.hooks = [e \in Events |-> hooks[e]]]
    BY <1>1 DEF InstallHooks, TreeOK
<1>3. ASSUME NEW e \in Events
      PROVE  /\ GroupsOK(hooks[e]) /\ UserPart(hooks[e]) = UserPart(s.hooks[e])
             /\ Spaced = {} /\ OnlyOne(s.hooks[e]) => OnlyOne(hooks[e])
             /\ e \in Required =>
                    /\ \E p \in DOMAIN hooks[e] : hooks[e][p].entry.kind = "intenter"
                    /\ \A p \in DOMAIN hooks[e] : hooks[e][p].entry.kind # "agentguard"
    <2>1. GroupsOK(s.hooks[e])
        BY DEF TreeOK
    <2>2. CASE e \notin Required
        <3>1. hooks[e] = s.hooks[e]
            BY <1>1, <2>2
        <3> QED
            BY <2>1, <2>2, <3>1
    <2>3. CASE e \in Required
        <3>1. hooks[e] = installEntry(s.hooks[e], e, path)
            BY <1>1, <2>3
        <3> QED
            BY <2>1, <3>1, EntryInstalled
    <2> QED
        BY <2>2, <2>3
<1>4. SameForeign(k, s) /\ \A e \in Events : k.hooks[e] = hooks[e]
    BY <1>2, <1>3, SameForeignTree
<1>5. Wired(k)
    BY <1>3, <1>4, SetupAssumption DEF Wired
<1>6. Spaced = {} /\ OneEach(s) => OneEach(k)
    BY <1>3, <1>4 DEF OneEach
<1> QED
    BY <1>4, <1>5, <1>6

Unwired(s) == \A e \in Events : \A p \in DOMAIN s.hooks[e] : ~OursOrLegacy(s.hooks[e][p].entry)

LEMMA HooksRemoved ==
    ASSUME NEW s, TreeOK(s), s.state # "absent", NEW k, k = RemoveHooks(s)
    PROVE  SameForeign(k, s) /\ Unwired(k) /\ (OneEach(s) => OneEach(k))
<1>1. PICK hooks : hooks = [e \in Events |-> Keep(s.hooks[e], OursOrLegacy)]
    OBVIOUS
<1>2. k = [s EXCEPT !.hooks = [e \in Events |-> hooks[e]]]
    BY <1>1 DEF RemoveHooks, TreeOK
<1>3. ASSUME NEW e \in Events
      PROVE  /\ GroupsOK(hooks[e]) /\ UserPart(hooks[e]) = UserPart(s.hooks[e])
             /\ OnlyOne(s.hooks[e]) => OnlyOne(hooks[e])
             /\ \A p \in DOMAIN hooks[e] : ~OursOrLegacy(hooks[e][p].entry)
    <2>1. GroupsOK(s.hooks[e]) /\ hooks[e] = Keep(s.hooks[e], OursOrLegacy)
        BY <1>1 DEF TreeOK
    <2> QED
        BY <2>1, OursRemoved
<1>4. SameForeign(k, s) /\ \A e \in Events : k.hooks[e] = hooks[e]
    BY <1>2, <1>3, SameForeignTree
<1>5. Unwired(k) /\ (OneEach(s) => OneEach(k))
    BY <1>3, <1>4 DEF Unwired, OneEach
<1> QED
    BY <1>4, <1>5

-----------------------------------------------------------------------------
(* The steps of a command *)

SetupPcs ==
    {"detect", "backup", "hooks", "write", "skill", "startup", "migrate", "moving", "rename", "storage",
     "service", "daemon", "selftest", "meta", "idle"}

UninstallPcs == {"backup", "hooks", "write", "skill", "startup", "daemon", "purge", "idle"}

RegisterPcs == {"dirs", "migrate", "moving", "rename", "storage", "idle"}

RulePcs == {"read", "backup", "write", "idle"}

ProcOK(c) ==
    /\ c = [op |-> c.op, pc |-> c.pc, opt |-> c.opt, tree |-> c.tree, rule |-> c.rule,
            saved |-> c.saved, result |-> c.result]
    /\ \/ c.op = "none" /\ c.pc = "idle"
       \/ c.op = "setup" /\ c.pc \in SetupPcs
       \/ c.op = "uninstall" /\ c.pc \in UninstallPcs
       \/ c.op = "register" /\ c.pc \in RegisterPcs
       \/ c.op = "rule" /\ c.pc \in RulePcs
    /\ c.result \in {"none", "done", "failed"}
    /\ c.pc # "idle" => c.result = "none"

ControlInv == ProcOK(proc) /\ (Dry => proc.pc # "write")

(* What Goto and Finish leave of a command.                                *)
Gone(c, d, there) ==
    /\ d.op = c.op /\ d.opt = c.opt /\ d.tree = c.tree /\ d.saved = c.saved /\ d.rule = c.rule
    /\ d.result = c.result /\ d.pc = there /\ ProcOK(d)

Ended(c, d, how) == d.op = c.op /\ d.opt = c.opt /\ d.pc = "idle" /\ d.result = how /\ ProcOK(d)

LEMMA GotoStep ==
    ASSUME ProcOK(proc), proc.pc # "idle", NEW there, Goto(there),
           \/ proc.op = "setup" /\ there \in SetupPcs \ {"idle"}
           \/ proc.op = "uninstall" /\ there \in UninstallPcs \ {"idle"}
           \/ proc.op = "register" /\ there \in RegisterPcs \ {"idle"}
    PROVE  Gone(proc, proc', there)
BY DEF ProcOK, Goto, Gone

LEMMA FinishStep ==
    ASSUME ProcOK(proc), NEW how \in {"done", "failed"}, Finish(how), proc.pc # "idle"
    PROVE  Ended(proc, proc', how)
BY DEF ProcOK, Finish, Ended, SetupPcs, UninstallPcs, RegisterPcs, RulePcs

(* A command begins.                                                       *)
LEMMA BeginStep ==
    ASSUME NEW op, NEW pc, NEW opt, NEW rule, Begin(op, pc, opt, rule),
           \/ op = "setup" /\ pc = "detect"
           \/ op = "uninstall" /\ pc = "backup"
           \/ op = "register" /\ pc = "dirs"
           \/ op = "rule" /\ pc = "read"
    PROVE  /\ ProcOK(proc') /\ proc'.op = op /\ proc'.pc = pc /\ proc'.opt = opt /\ proc'.result = "none"
           /\ UNCHANGED <<world, exe, clock, edits, history>>
BY DEF Begin, Idle, ProcOK, SetupPcs, UninstallPcs, RegisterPcs, RulePcs

(* Steps that leave the settings, the skill, the start-up files and the    *)
(* backups alone: nothing happens to the command, it begins, fails, goes   *)
(* on or ends.                                                             *)
Quiet == UNCHANGED <<settings, mine, skill, file, backups>>

Waits == Quiet /\ UNCHANGED proc /\ clock' \in {clock, clock + 1}

Begins ==
    /\ Quiet /\ UNCHANGED clock /\ ProcOK(proc') /\ proc.pc = "idle" /\ proc'.result = "none"
    /\ \/ proc'.op = "setup" /\ proc'.pc = "detect"
       \/ proc'.op = "uninstall" /\ proc'.pc = "backup"
       \/ proc'.op = "register" /\ proc'.pc = "dirs"
       \/ proc'.op = "rule" /\ proc'.pc = "read"

Fails == Quiet /\ UNCHANGED clock /\ Ended(proc, proc', "failed")

Late == {"migrate", "moving", "rename", "storage", "service", "daemon", "selftest", "meta"}

Proceeds ==
    /\ Quiet /\ UNCHANGED clock
    /\ proc.op \in {"setup", "register"} /\ proc.pc \in Late \cup {"dirs"}
    /\ \E there \in Late : Gone(proc, proc', there)

Succeeds ==
    /\ Quiet /\ UNCHANGED clock /\ Ended(proc, proc', "done")
    /\ proc.op \in {"register", "rule"} \/ (proc.op = "setup" /\ proc.pc = "meta")

LEMMA BeginKind ==
    ASSUME RunSetup \/ RunUninstall \/ RunRegister \/ RunRemoveRule
    PROVE  Begins
<1> USE DEF Begins, Quiet, world, history
<1>1. CASE RunSetup
    <2>1. PICK o \in SetupOptions : Begin("setup", "detect", o, "none")
        BY <1>1 DEF RunSetup
    <2>2. proc.pc = "idle"
        BY <2>1 DEF Begin
    <2> QED
        BY <2>1, <2>2, BeginStep
<1>2. CASE RunUninstall
    <2>1. PICK o \in RemoveOptions : Begin("uninstall", "backup", o, "none")
        BY <1>2 DEF RunUninstall
    <2>2. proc.pc = "idle"
        BY <2>1 DEF Begin
    <2> QED
        BY <2>1, <2>2, BeginStep
<1>3. CASE RunRegister
    <2>1. Begin("register", "dirs", [dry |-> FALSE], "none")
        BY <1>3 DEF RunRegister
    <2>2. proc.pc = "idle"
        BY <2>1 DEF Begin
    <2> QED
        BY <2>1, <2>2, BeginStep
<1>4. CASE RunRemoveRule
    <2>1. PICK r \in Rules : Begin("rule", "read", [dry |-> FALSE], r)
        BY <1>4 DEF RunRemoveRule
    <2>2. proc.pc = "idle"
        BY <2>1 DEF Begin
    <2> QED
        BY <2>1, <2>2, BeginStep
<1> QED
    BY <1>1, <1>2, <1>3, <1>4

LEMMA FailKind ==
    ASSUME ProcOK(proc), StepFails \/ Interrupt
    PROVE  Fails
<1>1. Finish("failed") /\ proc.pc # "idle" /\ UNCHANGED <<world, steps>>
    BY DEF StepFails, Interrupt
<1>2. Ended(proc, proc', "failed")
    BY <1>1, FinishStep
<1> QED
    BY <1>1, <1>2 DEF Fails, Quiet, world, steps, history

LEMMA WaitKind ==
    ASSUME DaemonStarts \/ BinaryMoves \/ Tick \/ UNCHANGED vars
    PROVE  Waits
BY DEF DaemonStarts, BinaryMoves, Tick, vars, Waits, Quiet, world, history

(* pc and op of the steps that setup and daemon install share.             *)
LEMMA SharedSteps ==
    ASSUME ProcOK(proc), proc.pc \in {"migrate", "moving", "rename", "storage"}
    PROVE  proc.op \in {"setup", "register"}
BY DEF ProcOK, SetupPcs, UninstallPcs, RegisterPcs, RulePcs

LEMMA ProceedKind ==
    ASSUME ProcOK(proc),
           \/ MigrateEntry \/ MigrateNothing \/ MigrateFails \/ RenameDatabase \/ OpenStorage
           \/ InstallService \/ EnsureDaemon \/ SelfTest \/ RecordMeta \/ Register
    PROVE  Proceeds \/ Fails \/ Succeeds
<1>1. Quiet /\ UNCHANGED clock
    BY DEF MigrateEntry, MigrateNothing, MigrateFails, RenameDatabase, OpenStorage, InstallService,
           EnsureDaemon, SelfTest, RecordMeta, Register, Quiet, world, steps, history
<1>2. ASSUME NEW there \in Late, Goto(there),
             \/ proc.op = "setup" /\ proc.pc \in Late
             \/ proc.op = "register" /\ proc.pc \in Late \cup {"dirs"} /\ there \in RegisterPcs
      PROVE  Proceeds
    <2>1. proc.pc # "idle"
        BY <1>2 DEF Late
    <2>2. Gone(proc, proc', there)
        BY <1>2, <2>1, GotoStep DEF Late, SetupPcs, RegisterPcs
    <2> QED
        BY <1>1, <1>2, <2>2 DEF Proceeds
<1>3. ASSUME Finish("failed"), proc.pc # "idle"
      PROVE  Fails
    BY <1>1, <1>3, FinishStep DEF Fails
<1>4. ASSUME Finish("done"), proc.pc # "idle", proc.op = "register" \/ (proc.op = "setup" /\ proc.pc = "meta")
      PROVE  Succeeds
    BY <1>1, <1>4, FinishStep DEF Succeeds
<1>5. CASE MigrateEntry \/ MigrateNothing \/ MigrateFails \/ RenameDatabase
    <2>1. /\ proc.pc \in {"migrate", "moving", "rename"}
          /\ \E there \in {"rename", "moving", "storage"} : Goto(there)
        BY <1>5 DEF MigrateEntry, MigrateNothing, MigrateFails, RenameDatabase
    <2> QED
        BY <1>2, <2>1, SharedSteps DEF Late, RegisterPcs
<1>6. CASE OpenStorage
    <2>1. /\ proc.pc = "storage" /\ proc.op \in {"setup", "register"}
          /\ IF proc.op = "register" THEN Finish("done") ELSE Goto("service")
        BY <1>6, SharedSteps DEF OpenStorage
    <2> QED
        BY <1>2, <1>4, <2>1 DEF Late
<1>7. CASE InstallService \/ EnsureDaemon
    <2>1. /\ proc.op = "setup" /\ proc.pc \in {"service", "daemon"}
          /\ \E there \in {"selftest", "daemon"} : Goto(there)
        BY <1>7 DEF InstallService, EnsureDaemon, At
    <2> QED
        BY <1>2, <2>1 DEF Late
<1>8. CASE SelfTest \/ RecordMeta
    <2>1. /\ proc.op = "setup"
          /\ \/ proc.pc = "selftest" /\ (Goto("meta") \/ Finish("failed"))
             \/ proc.pc = "meta" /\ Finish("done")
        BY <1>8 DEF SelfTest, RecordMeta, At
    <2> QED
        BY <1>2, <1>3, <1>4, <2>1 DEF Late
<1>9. CASE Register
    <2>1. proc.op = "register" /\ proc.pc = "dirs" /\ Goto("migrate")
        BY <1>9 DEF Register, At
    <2> QED
        BY <1>2, <2>1 DEF Late, RegisterPcs
<1> QED
    BY <1>5, <1>6, <1>7, <1>8, <1>9

(* The other steps of setup and uninstall, each from one program counter   *)
(* to the next.                                                            *)
LEMMA DetectShape ==
    ASSUME ProcOK(proc), Detect
    PROVE  /\ At("setup", "detect") /\ Gone(proc, proc', "backup")
           /\ UNCHANGED <<mine, skill, file, backups, clock>>
           /\ settings' = IF Dry \/ settings.state # "absent" THEN settings ELSE Empty
<1>1. At("setup", "detect") /\ Goto("backup")
    BY DEF Detect
<1>2. Gone(proc, proc', "backup")
    BY <1>1, GotoStep DEF At, SetupPcs
<1> QED
    BY <1>1, <1>2 DEF Detect, steps, history

LEMMA WriteTreeShape ==
    ASSUME ProcOK(proc), WriteTree
    PROVE  /\ proc.op \in {"setup", "uninstall"} /\ proc.pc = "write" /\ Gone(proc, proc', "skill")
           /\ UNCHANGED <<mine, skill, file, backups, clock>>
           /\ settings' = IF proc.op = "setup" THEN InstallHooks(proc.tree, exe) ELSE RemoveHooks(proc.tree)
<1>1. proc.op \in {"setup", "uninstall"} /\ proc.pc = "write" /\ Goto("skill")
    BY DEF WriteTree
<1>2. Gone(proc, proc', "skill")
    BY <1>1, GotoStep DEF SetupPcs, UninstallPcs
<1> QED
    BY <1>1, <1>2 DEF WriteTree, steps, history

LEMMA SkipTreeShape ==
    ASSUME ProcOK(proc), SkipTree
    PROVE  \/ Fails
           \/ /\ Quiet /\ UNCHANGED clock /\ Gone(proc, proc', "skill") /\ proc.pc = "hooks"
              /\ Dry \/ (proc.op = "uninstall" /\ settings.state = "absent")
<1>1. proc.op \in {"setup", "uninstall"} /\ proc.pc = "hooks" /\ Quiet /\ UNCHANGED clock
    BY DEF SkipTree, world, steps, history, Quiet
<1>2. \/ (Dry \/ (proc.op = "uninstall" /\ settings.state = "absent")) /\ Goto("skill")
      \/ Finish("failed")
    BY DEF SkipTree
<1>3. CASE Finish("failed")
    BY <1>1, <1>3, FinishStep DEF Fails
<1>4. CASE (Dry \/ (proc.op = "uninstall" /\ settings.state = "absent")) /\ Goto("skill")
    BY <1>1, <1>4, GotoStep DEF SetupPcs, UninstallPcs
<1> QED
    BY <1>1, <1>2, <1>3, <1>4

LEMMA ReadTreeShape ==
    ASSUME ProcOK(proc), ReadTree
    PROVE  /\ proc.op \in {"setup", "uninstall"} /\ proc.pc = "hooks" /\ ~Dry /\ Quiet /\ UNCHANGED clock
           /\ ProcOK(proc') /\ proc'.op = proc.op /\ proc'.opt = proc.opt /\ proc'.pc = "write"
           /\ proc'.tree = Tree(settings) /\ proc'.saved = proc.saved /\ proc'.result = "none"
           /\ settings.state # "broken" /\ (proc.op = "uninstall" => settings.state # "absent")
<1>1. /\ proc.op \in {"setup", "uninstall"} /\ proc.pc = "hooks" /\ ~Dry /\ Quiet /\ UNCHANGED clock
      /\ proc' = [proc EXCEPT !.pc = "write", !.tree = Tree(settings)]
      /\ settings.state # "broken" /\ (proc.op = "uninstall" => settings.state # "absent")
    BY DEF ReadTree, world, steps, history, Quiet
<1>2. /\ proc' = [op |-> proc.op, pc |-> "write", opt |-> proc.opt, tree |-> Tree(settings),
                  rule |-> proc.rule, saved |-> proc.saved, result |-> proc.result]
      /\ proc.result = "none"
    BY <1>1 DEF ProcOK
<1>3. ProcOK(proc')
    BY <1>1, <1>2 DEF ProcOK, SetupPcs, UninstallPcs
<1> QED
    BY <1>1, <1>2, <1>3

LEMMA BackupShape ==
    ASSUME ProcOK(proc), Backup
    PROVE  /\ proc.op \in {"setup", "uninstall"} /\ proc.pc = "backup"
           /\ UNCHANGED <<settings, mine, skill, file, clock>>
           /\ ProcOK(proc') /\ proc'.op = proc.op /\ proc'.opt = proc.opt /\ proc'.pc = "hooks"
           /\ proc'.tree = proc.tree /\ proc'.saved = settings /\ proc'.result = "none"
           /\ IF Dry \/ settings.state = "absent" THEN backups' = backups
                                                  ELSE backups' = Saved("settings", settings)
<1>1. /\ proc.op \in {"setup", "uninstall"} /\ proc.pc = "backup"
      /\ UNCHANGED <<settings, mine, skill, file, clock>>
      /\ proc' = [proc EXCEPT !.pc = "hooks", !.saved = settings]
      /\ IF Dry \/ settings.state = "absent" THEN backups' = backups
                                             ELSE backups' = Saved("settings", settings)
    BY DEF Backup, steps, history
<1>2. /\ proc' = [op |-> proc.op, pc |-> "hooks", opt |-> proc.opt, tree |-> proc.tree,
                  rule |-> proc.rule, saved |-> settings, result |-> proc.result]
      /\ proc.result = "none"
    BY <1>1 DEF ProcOK
<1>3. ProcOK(proc')
    BY <1>1, <1>2 DEF ProcOK, SetupPcs, UninstallPcs
<1> QED
    BY <1>1, <1>2, <1>3

LEMMA InstallSkillShape ==
    ASSUME ProcOK(proc), InstallSkill
    PROVE  /\ At("setup", "skill") /\ Gone(proc, proc', "startup")
           /\ UNCHANGED <<settings, mine, file, clock>>
           /\ backups' = backups \/ backups' = Saved("skill", Empty)
<1>1. At("setup", "skill") /\ Goto("startup")
    BY DEF InstallSkill
<1>2. Gone(proc, proc', "startup")
    BY <1>1, GotoStep DEF At, SetupPcs
<1> QED
    BY <1>1, <1>2 DEF InstallSkill, steps, history

LEMMA InstallStartupCheckShape ==
    ASSUME ProcOK(proc), InstallStartupCheck
    PROVE  /\ At("setup", "startup") /\ Gone(proc, proc', "migrate")
           /\ UNCHANGED <<settings, mine, skill, backups, clock>>
           /\ file' = file \/ file' = StartupInstall(file)
<1>1. At("setup", "startup") /\ Goto("migrate")
    BY DEF InstallStartupCheck
<1>2. Gone(proc, proc', "migrate")
    BY <1>1, GotoStep DEF At, SetupPcs
<1> QED
    BY <1>1, <1>2 DEF InstallStartupCheck, steps, history

LEMMA RemoveSkillShape ==
    ASSUME ProcOK(proc), RemoveSkill
    PROVE  /\ At("uninstall", "skill") /\ Gone(proc, proc', "startup")
           /\ UNCHANGED <<settings, mine, file, backups, clock>> /\ skill' = "none"
<1>1. At("uninstall", "skill") /\ Goto("startup")
    BY DEF RemoveSkill
<1>2. Gone(proc, proc', "startup")
    BY <1>1, GotoStep DEF At, UninstallPcs
<1> QED
    BY <1>1, <1>2 DEF RemoveSkill, steps, history

LEMMA RemoveStartupCheckShape ==
    ASSUME ProcOK(proc), RemoveStartupCheck
    PROVE  /\ At("uninstall", "startup") /\ Gone(proc, proc', "daemon")
           /\ UNCHANGED <<settings, mine, skill, backups, clock>> /\ file' = StartupRemove(file)
<1>1. At("uninstall", "startup") /\ Goto("daemon")
    BY DEF RemoveStartupCheck
<1>2. Gone(proc, proc', "daemon")
    BY <1>1, GotoStep DEF At, UninstallPcs
<1> QED
    BY <1>1, <1>2 DEF RemoveStartupCheck, steps, history

LEMMA StopDaemonShape ==
    ASSUME ProcOK(proc), StopDaemon
    PROVE  At("uninstall", "daemon") /\ Gone(proc, proc', "purge") /\ Quiet /\ UNCHANGED clock
<1>1. At("uninstall", "daemon") /\ Goto("purge")
    BY DEF StopDaemon
<1>2. Gone(proc, proc', "purge")
    BY <1>1, GotoStep DEF At, UninstallPcs
<1> QED
    BY <1>1, <1>2 DEF StopDaemon, steps, history, Quiet

LEMMA PurgeShape ==
    ASSUME ProcOK(proc), Purge
    PROVE  /\ At("uninstall", "purge") /\ Ended(proc, proc', "done")
           /\ UNCHANGED <<settings, mine, skill, file, clock>>
           /\ backups' = backups \/ backups' = <<>>
<1>1. At("uninstall", "purge") /\ Finish("done")
    BY DEF Purge
<1>2. Ended(proc, proc', "done")
    BY <1>1, FinishStep DEF At
<1> QED
    BY <1>1, <1>2 DEF Purge, steps, history

LEMMA ReadRuleShape ==
    ASSUME ProcOK(proc), ReadRule
    PROVE  \/ Fails \/ Succeeds
           \/ /\ At("rule", "read") /\ Quiet /\ UNCHANGED clock /\ settings.state = "ok"
              /\ ProcOK(proc') /\ proc'.op = "rule" /\ proc'.pc = "backup" /\ proc'.tree = settings
<1>1. At("rule", "read") /\ Quiet /\ UNCHANGED clock
    BY DEF ReadRule, world, steps, history, Quiet
<1>2. CASE Finish("failed")
    BY <1>1, <1>2, FinishStep DEF Fails, At
<1>3. CASE Finish("done")
    BY <1>1, <1>3, FinishStep DEF Succeeds, At
<1>4. CASE settings.state = "ok" /\ proc' = [proc EXCEPT !.pc = "backup", !.tree = settings]
    <2>1. /\ proc' = [op |-> proc.op, pc |-> "backup", opt |-> proc.opt, tree |-> settings,
                      rule |-> proc.rule, saved |-> proc.saved, result |-> proc.result]
          /\ proc.op = "rule"
        BY <1>1, <1>4 DEF ProcOK, At
    <2>2. ProcOK(proc')
        BY <1>1, <2>1 DEF ProcOK, RulePcs, At
    <2> QED
        BY <1>1, <1>4, <2>1, <2>2
<1> QED
    BY <1>2, <1>3, <1>4 DEF ReadRule

LEMMA BackupRuleShape ==
    ASSUME ProcOK(proc), BackupRule
    PROVE  /\ At("rule", "backup") /\ UNCHANGED <<settings, mine, skill, file, clock>>
           /\ ProcOK(proc') /\ proc'.op = "rule" /\ proc'.pc = "write" /\ proc'.tree = proc.tree
           /\ proc'.saved = settings /\ backups' = Saved("settings", settings)
<1>1. /\ At("rule", "backup") /\ UNCHANGED <<settings, mine, skill, file, clock>>
      /\ backups' = Saved("settings", settings)
      /\ proc' = [proc EXCEPT !.pc = "write", !.saved = settings]
    BY DEF BackupRule, steps, history
<1>2. /\ proc' = [op |-> proc.op, pc |-> "write", opt |-> proc.opt, tree |-> proc.tree,
                  rule |-> proc.rule, saved |-> settings, result |-> proc.result]
      /\ proc.op = "rule"
    BY <1>1 DEF ProcOK, At
<1>3. ProcOK(proc')
    BY <1>1, <1>2 DEF ProcOK, RulePcs, At
<1> QED
    BY <1>1, <1>2, <1>3

LEMMA WriteRuleShape ==
    ASSUME ProcOK(proc), WriteRule
    PROVE  /\ At("rule", "write") /\ Ended(proc, proc', "done")
           /\ UNCHANGED <<skill, file, backups, clock>>
           /\ settings' = [proc.tree EXCEPT !.rules = @ \ {proc.rule}]
           /\ mine' = [mine EXCEPT !.rules = @ \ {proc.rule}]
<1>1. At("rule", "write") /\ Finish("done")
    BY DEF WriteRule
<1>2. Ended(proc, proc', "done")
    BY <1>1, FinishStep DEF At
<1> QED
    BY <1>1, <1>2 DEF WriteRule

LEMMA NextKinds ==
    ASSUME ProcOK(proc), [Next]_vars
    PROVE  \/ Waits \/ Begins \/ Fails \/ Proceeds \/ Succeeds
           \/ Detect \/ Backup \/ ReadTree \/ SkipTree \/ WriteTree \/ InstallSkill
           \/ InstallStartupCheck \/ RemoveSkill \/ RemoveStartupCheck \/ StopDaemon \/ Purge
           \/ ReadRule \/ BackupRule \/ WriteRule \/ ClaudeAllows \/ AppendLine
BY BeginKind, FailKind, WaitKind, ProceedKind DEF Next, SetupStep, RemoveStep, OtherStep

LEMMA ControlInit == Init => ControlInv
BY DEF Init, ControlInv, ProcOK, Idle, Dry

LEMMA ControlNext ==
    ASSUME ControlInv, [Next]_vars
    PROVE  ControlInv'
<1>1. ProcOK(proc)
    BY DEF ControlInv
<1>2. CASE Waits \/ ClaudeAllows \/ AppendLine
    <2>1. UNCHANGED proc
        BY <1>2 DEF Waits, ClaudeAllows, AppendLine
    <2> QED
        BY <2>1 DEF ControlInv, Dry
<1>3. CASE Begins
    BY <1>3 DEF Begins, ControlInv, Dry
<1>4. ASSUME NEW there, Gone(proc, proc', there), there # "write"
      PROVE  ControlInv'
    BY <1>4 DEF Gone, ControlInv, Dry
<1>5. ASSUME NEW how, Ended(proc, proc', how)
      PROVE  ControlInv'
    BY <1>5 DEF Ended, ControlInv, Dry
<1>6. CASE Fails \/ Succeeds
    BY <1>5, <1>6 DEF Fails, Succeeds
<1>7. CASE Proceeds
    BY <1>4, <1>7 DEF Proceeds, Late
<1>8. CASE Detect
    BY <1>1, <1>4, <1>8, DetectShape
<1>9. CASE Backup
    BY <1>1, <1>9, BackupShape DEF ControlInv
<1>10. CASE ReadTree
    BY <1>1, <1>10, ReadTreeShape DEF ControlInv, Dry
<1>11. CASE SkipTree
    BY <1>1, <1>4, <1>6, <1>11, SkipTreeShape
<1>12. CASE WriteTree
    BY <1>1, <1>4, <1>12, WriteTreeShape
<1>13. CASE InstallSkill
    BY <1>1, <1>4, <1>13, InstallSkillShape
<1>14. CASE InstallStartupCheck
    BY <1>1, <1>4, <1>14, InstallStartupCheckShape
<1>15. CASE RemoveSkill
    BY <1>1, <1>4, <1>15, RemoveSkillShape
<1>16. CASE RemoveStartupCheck
    BY <1>1, <1>4, <1>16, RemoveStartupCheckShape
<1>17. CASE StopDaemon
    BY <1>1, <1>4, <1>17, StopDaemonShape
<1>18. CASE Purge
    BY <1>1, <1>5, <1>18, PurgeShape
<1>19. CASE ReadRule
    BY <1>1, <1>6, <1>19, ReadRuleShape DEF ControlInv, Dry
<1>20. CASE BackupRule
    BY <1>1, <1>20, BackupRuleShape DEF ControlInv, Dry
<1>21. CASE WriteRule
    BY <1>1, <1>5, <1>21, WriteRuleShape
<1> QED
    BY <1>1, <1>2, <1>3, <1>6, <1>7, <1>8, <1>9, <1>10, <1>11, <1>12, <1>13, <1>14, <1>15, <1>16,
       <1>17, <1>18, <1>19, <1>20, <1>21, NextKinds

-----------------------------------------------------------------------------
(* The user's part of the settings *)

InHand(c) == c.pc = "write" \/ (c.op = "rule" /\ c.pc = "backup")

ForeignInv ==
    /\ TreeOK(settings) /\ Foreign(settings) = mine
    /\ InHand(proc) => TreeOK(proc.tree) /\ proc.tree.state = "ok" /\ Foreign(proc.tree) = mine

LEMMA RulesEdited ==
    ASSUME NEW s, TreeOK(s), s.state # "absent", NEW rules, NEW k, k = [s EXCEPT !.rules = rules]
    PROVE  /\ TreeOK(k) /\ k.state = s.state /\ k.hooks = s.hooks
           /\ Foreign(k) = [Foreign(s) EXCEPT !.rules = rules]
<1>1. k = [state |-> s.state, hooks |-> s.hooks, rules |-> rules]
    BY DEF TreeOK
<1>2. /\ k.state = s.state /\ k.hooks = s.hooks /\ k.rules = rules
      /\ k = [state |-> k.state, hooks |-> k.hooks, rules |-> k.rules]
    BY <1>1
<1>3. TreeOK(k)
    BY <1>2 DEF TreeOK
<1>4. Foreign(k) = [hooks |-> [e \in Events |-> UserPart(s.hooks[e])], rules |-> rules]
    BY <1>2, ForeignForm
<1>5. Foreign(s) = [hooks |-> [e \in Events |-> UserPart(s.hooks[e])], rules |-> s.rules]
    BY ForeignForm
<1> QED
    BY <1>2, <1>3, <1>4, <1>5

(* readSettingsTree gives a tree, with what the file has.                  *)
LEMMA TreeRead ==
    ASSUME NEW s, TreeOK(s), s.state # "broken"
    PROVE  TreeOK(Tree(s)) /\ Tree(s).state = "ok" /\ Foreign(Tree(s)) = Foreign(s)
<1>1. CASE s.state # "absent"
    BY <1>1 DEF Tree, TreeOK
<1>2. CASE s.state = "absent"
    <2>1. Tree(s) = Empty
        BY <1>2 DEF Tree
    <2>2. /\ Empty = [state |-> Empty.state, hooks |-> Empty.hooks, rules |-> Empty.rules]
          /\ Empty.state = "ok" /\ Empty.rules = {}
          /\ Empty.hooks = [e \in Events |-> Empty.hooks[e]]
          /\ \A e \in Events : Empty.hooks[e] = <<>>
        BY DEF Empty
    <2>3. DOMAIN <<>> = {}
        OBVIOUS
    <2>4. Bounded({})
        BY DEF Bounded
    <2>5. GroupsOK(<<>>)
        BY <2>3, <2>4 DEF GroupsOK
    <2>6. TreeOK(Empty)
        BY <2>2, <2>5 DEF TreeOK
    <2>7. \A e \in Events : DOMAIN s.hooks[e] = {} /\ DOMAIN Empty.hooks[e] = {}
        BY <1>2, <2>2, <2>3 DEF TreeOK
    <2>8. \A e \in Events : UserPart(s.hooks[e]) = UserPart(Empty.hooks[e])
        BY <2>7 DEF UserPart
    <2>9. s.rules = Empty.rules
        BY <1>2, <2>2 DEF TreeOK
    <2>10. Foreign(Empty) = Foreign(s)
        BY <2>8, <2>9, ForeignForm
    <2> QED
        BY <2>1, <2>2, <2>6, <2>10
<1> QED
    BY <1>1, <1>2

LEMMA ForeignInit == Init => ForeignInv
<1> SUFFICES ASSUME Init PROVE ForeignInv
    OBVIOUS
<1>1. PICK m \in Machines : settings = m.settings
    BY DEF Init
<1>2. SettingsFound(settings)
    BY <1>1, MachinesAssumption
<1>3. \A e \in Events : GroupsOK(settings.hooks[e])
    BY <1>2, FiniteIsBounded DEF SettingsFound, HooksFound, GroupsOK
<1>4. TreeOK(settings)
    BY <1>2, <1>3 DEF SettingsFound, TreeOK
<1>5. mine = Foreign(settings) /\ ~InHand(proc)
    BY DEF Init, Idle, InHand
<1> QED
    BY <1>4, <1>5 DEF ForeignInv

LEMMA ForeignNext ==
    ASSUME ControlInv, ForeignInv, [Next]_vars
    PROVE  ForeignInv'
<1>1. ProcOK(proc) /\ TreeOK(settings) /\ Foreign(settings) = mine
    BY DEF ControlInv, ForeignInv
<1>2. ASSUME TreeOK(settings'), Foreign(settings') = mine', ~InHand(proc')
      PROVE  ForeignInv'
    BY <1>2 DEF ForeignInv
<1>3. ASSUME UNCHANGED <<settings, mine>>, ~InHand(proc')
      PROVE  ForeignInv'
    BY <1>1, <1>2, <1>3
<1>4. ASSUME UNCHANGED <<settings, mine>>, InHand(proc), proc'.tree = proc.tree
      PROVE  ForeignInv'
    BY <1>4 DEF ForeignInv
<1>5. ASSUME NEW there, Gone(proc, proc', there), there # "write",
             there = "backup" => proc.op # "rule"
      PROVE  ~InHand(proc')
    BY <1>5 DEF Gone, InHand
<1>6. ASSUME NEW how, Ended(proc, proc', how)
      PROVE  ~InHand(proc')
    BY <1>6 DEF Ended, InHand
<1>7. CASE Waits \/ AppendLine
    <2>1. UNCHANGED <<settings, mine, proc>>
        BY <1>7 DEF Waits, Quiet, AppendLine
    <2> QED
        BY <2>1 DEF ForeignInv, InHand
<1>8. CASE Begins
    BY <1>3, <1>8 DEF Begins, Quiet, InHand
<1>9. CASE Fails \/ Succeeds
    BY <1>3, <1>6, <1>9 DEF Fails, Succeeds, Quiet
<1>10. CASE Proceeds
    BY <1>3, <1>5, <1>10 DEF Proceeds, Quiet, Late
<1>11. CASE Detect
    <2>1. /\ ~InHand(proc') /\ UNCHANGED mine
          /\ settings' = settings \/ (settings.state = "absent" /\ settings' = Empty)
        BY <1>1, <1>5, <1>11, DetectShape DEF At
    <2>2. CASE settings' = settings
        BY <1>3, <2>1, <2>2
    <2>3. CASE settings.state = "absent" /\ settings' = Empty
        <3>1. Tree(settings) = Empty
            BY <2>3 DEF Tree
        <3>2. TreeOK(Empty) /\ Foreign(Empty) = Foreign(settings)
            BY <1>1, <2>3, <3>1, TreeRead
        <3> QED
            BY <1>1, <1>2, <2>1, <2>3, <3>2
    <2> QED
        BY <2>1, <2>2, <2>3
<1>12. CASE Backup
    BY <1>1, <1>3, <1>12, BackupShape DEF InHand
<1>13. CASE ReadTree
    <2>1. /\ proc'.tree = Tree(settings) /\ settings.state # "broken" /\ UNCHANGED <<settings, mine>>
        BY <1>1, <1>13, ReadTreeShape DEF Quiet
    <2>2. /\ TreeOK(Tree(settings)) /\ Tree(settings).state = "ok"
          /\ Foreign(Tree(settings)) = Foreign(settings)
        BY <1>1, <2>1, TreeRead
    <2> QED
        BY <1>1, <2>1, <2>2 DEF ForeignInv
<1>14. CASE SkipTree
    BY <1>1, <1>3, <1>5, <1>9, <1>14, SkipTreeShape DEF Quiet
<1>15. CASE WriteTree
    <2>1. /\ proc.op \in {"setup", "uninstall"} /\ InHand(proc) /\ ~InHand(proc') /\ UNCHANGED mine
          /\ \/ settings' = InstallHooks(proc.tree, exe)
             \/ settings' = RemoveHooks(proc.tree)
        BY <1>1, <1>5, <1>15, WriteTreeShape DEF InHand
    <2>2. TreeOK(proc.tree) /\ proc.tree.state # "absent" /\ Foreign(proc.tree) = mine
        BY <2>1 DEF ForeignInv
    <2>3. SameForeign(settings', proc.tree)
        BY <2>1, <2>2, HooksInstalled, HooksRemoved
    <2> QED
        BY <1>2, <2>1, <2>2, <2>3 DEF SameForeign
<1>16. CASE InstallSkill
    BY <1>1, <1>3, <1>5, <1>16, InstallSkillShape
<1>17. CASE InstallStartupCheck
    BY <1>1, <1>3, <1>5, <1>17, InstallStartupCheckShape
<1>18. CASE RemoveSkill
    BY <1>1, <1>3, <1>5, <1>18, RemoveSkillShape
<1>19. CASE RemoveStartupCheck
    BY <1>1, <1>3, <1>5, <1>19, RemoveStartupCheckShape
<1>20. CASE StopDaemon
    BY <1>1, <1>3, <1>5, <1>20, StopDaemonShape DEF Quiet
<1>21. CASE Purge
    BY <1>1, <1>3, <1>6, <1>21, PurgeShape
<1>22. CASE ReadRule
    BY <1>1, <1>9, <1>22, ReadRuleShape DEF ForeignInv, Quiet
<1>23. CASE BackupRule
    BY <1>1, <1>4, <1>23, BackupRuleShape DEF InHand, At
<1>24. CASE WriteRule
    <2>1. /\ InHand(proc) /\ ~InHand(proc')
          /\ settings' = [proc.tree EXCEPT !.rules = proc.tree.rules \ {proc.rule}]
          /\ mine' = [mine EXCEPT !.rules = mine.rules \ {proc.rule}]
        BY <1>1, <1>6, <1>24, WriteRuleShape DEF InHand, At
    <2>2. TreeOK(proc.tree) /\ proc.tree.state # "absent" /\ Foreign(proc.tree) = mine
        BY <2>1 DEF ForeignInv
    <2>3. /\ TreeOK(settings')
          /\ Foreign(settings') = [Foreign(proc.tree) EXCEPT !.rules = proc.tree.rules \ {proc.rule}]
        BY ZenonT(60), <2>1, <2>2, RulesEdited
    <2>4. mine.rules = proc.tree.rules
        BY <2>2, ForeignForm
    <2> QED
        BY <1>2, <2>1, <2>2, <2>3, <2>4
<1>25. CASE ClaudeAllows
    <2>1. PICK r \in Rules \ settings.rules :
            /\ settings' = [settings EXCEPT !.rules = settings.rules \cup {r}]
            /\ mine' = [mine EXCEPT !.rules = mine.rules \cup {r}]
        BY <1>25 DEF ClaudeAllows
    <2>2. settings.state # "absent" /\ ~InHand(proc')
        BY <1>25 DEF ClaudeAllows, NoTreeInHand, At, InHand
    <2>3. /\ TreeOK(settings')
          /\ Foreign(settings') = [Foreign(settings) EXCEPT !.rules = settings.rules \cup {r}]
        BY <1>1, <2>1, <2>2, RulesEdited
    <2>4. mine.rules = settings.rules
        BY <1>1, ForeignForm
    <2> QED
        BY <1>1, <1>2, <2>1, <2>2, <2>3, <2>4
<1> QED
    BY <1>1, <1>7, <1>8, <1>9, <1>10, <1>11, <1>12, <1>13, <1>14, <1>15, <1>16, <1>17, <1>18, <1>19,
       <1>20, <1>21, <1>22, <1>23, <1>24, <1>25, NextKinds

-----------------------------------------------------------------------------
(* Our hooks *)

(* The commands whose hooks are in, or out.                                *)
Wires(c) ==
    /\ c.op = "setup" /\ ~c.opt.dry
    /\ c.pc \in {"skill", "startup"} \cup Late \/ c.result = "done"

Unwires(c) ==
    /\ c.op = "uninstall"
    /\ c.pc \in {"skill", "startup", "daemon", "purge"} \/ c.result = "done"

WiredInv == (Wires(proc) => Wired(settings)) /\ (Unwires(proc) => Unwired(settings))

LEMMA WiredInit == Init => WiredInv
BY DEF Init, Idle, WiredInv, Wires, Unwires

(* Wired and Unwired are about the hooks alone.                            *)
LEMMA SameHooks ==
    ASSUME NEW s, NEW k, k.hooks = s.hooks
    PROVE  /\ Wired(s) => Wired(k)
           /\ Unwired(s) => Unwired(k)
           /\ OneEach(s) => OneEach(k)
BY DEF Wired, Unwired, OneEach

LEMMA WiredNext ==
    ASSUME ControlInv, ForeignInv, WiredInv, [Next]_vars
    PROVE  WiredInv'
<1>1. ProcOK(proc) /\ TreeOK(settings)
    BY DEF ControlInv, ForeignInv
<1>2. ASSUME settings'.hooks = settings.hooks,
             Wires(proc') => Wires(proc), Unwires(proc') => Unwires(proc)
      PROVE  WiredInv'
    BY <1>2, SameHooks DEF WiredInv
<1>3. ASSUME ~Wires(proc'), ~Unwires(proc')
      PROVE  WiredInv'
    BY <1>3 DEF WiredInv
<1>4. CASE Waits \/ AppendLine
    BY <1>2, <1>4 DEF Waits, Quiet, AppendLine
<1>5. CASE Begins
    BY <1>3, <1>5 DEF Begins, Wires, Unwires, Late
<1>6. CASE Fails
    BY <1>3, <1>6 DEF Fails, Ended, Wires, Unwires, Late
<1>7. CASE Succeeds
    BY <1>2, <1>7 DEF Succeeds, Quiet, Ended, Wires, Unwires, Late
<1>8. CASE Proceeds
    BY <1>1, <1>2, <1>8 DEF Proceeds, Quiet, Gone, ProcOK, Wires, Unwires, Late, SetupPcs
<1>9. CASE Detect
    BY <1>1, <1>3, <1>9, DetectShape DEF Gone, At, ProcOK, Wires, Unwires, Late
<1>10. CASE Backup
    BY <1>1, <1>3, <1>10, BackupShape DEF Wires, Unwires, Late
<1>11. CASE ReadTree
    BY <1>1, <1>3, <1>11, ReadTreeShape DEF Wires, Unwires, Late
<1>12. CASE SkipTree
    <2>1. CASE Fails
        BY <1>6, <2>1
    <2>2. CASE /\ Quiet /\ UNCHANGED clock /\ Gone(proc, proc', "skill") /\ proc.pc = "hooks"
               /\ Dry \/ (proc.op = "uninstall" /\ settings.state = "absent")
        <3>1. ~Wires(proc') /\ settings' = settings
            BY <2>2 DEF Gone, Dry, Wires, Quiet
        <3>2. Unwires(proc') => settings.state = "absent"
            BY <2>2 DEF Gone, Dry, Unwires
        <3>3. settings.state = "absent" => Unwired(settings)
            BY <1>1 DEF TreeOK, Unwired
        <3> QED
            BY <3>1, <3>2, <3>3 DEF WiredInv
    <2> QED
        BY <1>1, <1>12, <2>1, <2>2, SkipTreeShape
<1>13. CASE WriteTree
    <2>1. /\ proc.op \in {"setup", "uninstall"} /\ InHand(proc) /\ proc'.op = proc.op
          /\ settings' = IF proc.op = "setup" THEN InstallHooks(proc.tree, exe) ELSE RemoveHooks(proc.tree)
        BY <1>1, <1>13, WriteTreeShape DEF InHand, Gone
    <2>2. TreeOK(proc.tree) /\ proc.tree.state # "absent"
        BY <2>1 DEF ForeignInv
    <2>3. CASE proc.op = "setup"
        <3>1. Wired(settings')
            BY <2>1, <2>2, <2>3, HooksInstalled
        <3> QED
            BY <2>1, <2>3, <3>1 DEF WiredInv, Unwires
    <2>4. CASE proc.op = "uninstall"
        <3>1. Unwired(settings')
            BY <2>1, <2>2, <2>4, HooksRemoved
        <3> QED
            BY <2>1, <2>4, <3>1 DEF WiredInv, Wires
    <2> QED
        BY <2>1, <2>3, <2>4
<1>14. CASE InstallSkill
    BY <1>1, <1>2, <1>14, InstallSkillShape DEF Gone, At, ProcOK, Wires, Unwires, Late
<1>15. CASE InstallStartupCheck
    BY <1>1, <1>2, <1>15, InstallStartupCheckShape DEF Gone, At, ProcOK, Wires, Unwires, Late
<1>16. CASE RemoveSkill
    BY <1>1, <1>2, <1>16, RemoveSkillShape DEF Gone, At, Wires, Unwires
<1>17. CASE RemoveStartupCheck
    BY <1>1, <1>2, <1>17, RemoveStartupCheckShape DEF Gone, At, Wires, Unwires
<1>18. CASE StopDaemon
    BY <1>1, <1>2, <1>18, StopDaemonShape DEF Gone, At, Wires, Unwires, Quiet
<1>19. CASE Purge
    BY <1>1, <1>2, <1>19, PurgeShape DEF Ended, At, Wires, Unwires
<1>20. CASE ReadRule
    BY <1>1, <1>3, <1>6, <1>7, <1>20, ReadRuleShape DEF Wires, Unwires
<1>21. CASE BackupRule
    BY <1>1, <1>3, <1>21, BackupRuleShape DEF Wires, Unwires
<1>22. CASE WriteRule
    BY <1>1, <1>3, <1>22, WriteRuleShape DEF Ended, At, Wires, Unwires
<1>23. CASE ClaudeAllows
    <2>1. PICK r : settings' = [settings EXCEPT !.rules = settings.rules \cup {r}]
        BY <1>23 DEF ClaudeAllows
    <2>2. settings'.hooks = settings.hooks /\ proc' = proc
        BY <1>1, <1>23, <2>1 DEF ClaudeAllows, TreeOK
    <2> QED
        BY <1>2, <2>2
<1> QED
    BY <1>1, <1>4, <1>5, <1>6, <1>7, <1>8, <1>9, <1>10, <1>11, <1>12, <1>13, <1>14, <1>15, <1>16,
       <1>17, <1>18, <1>19, <1>20, <1>21, <1>22, <1>23, NextKinds

OneInv == OneEach(settings) /\ (InHand(proc) => OneEach(proc.tree))

LEMMA OneInit == Init => OneInv
<1> SUFFICES ASSUME Init PROVE OneInv
    OBVIOUS
<1>1. PICK m \in Machines : settings = m.settings
    BY DEF Init
<1>2. InstalledOnce(m)
    BY MachinesAssumption
<1>3. OneEach(settings)
    BY <1>1, <1>2 DEF InstalledOnce, OneEach, OnlyOne
<1>4. ~InHand(proc)
    BY DEF Init, Idle, InHand
<1> QED
    BY <1>3, <1>4 DEF OneInv

LEMMA OneNext ==
    ASSUME Spaced = {}, ControlInv, ForeignInv, OneInv, [Next]_vars
    PROVE  OneInv'
<1>1. ProcOK(proc) /\ TreeOK(settings) /\ OneEach(settings)
    BY DEF ControlInv, ForeignInv, OneInv
<1>2. OneEach(Empty)
    BY DEF OneEach, OnlyOne, Empty
<1>3. ASSUME OneEach(settings'), ~InHand(proc')
      PROVE  OneInv'
    BY <1>3 DEF OneInv
<1>4. ASSUME UNCHANGED settings, ~InHand(proc')
      PROVE  OneInv'
    BY <1>1, <1>3, <1>4
<1>5. ASSUME NEW there, Gone(proc, proc', there), there # "write",
             there = "backup" => proc.op # "rule"
      PROVE  ~InHand(proc')
    BY <1>5 DEF Gone, InHand
<1>6. ASSUME NEW how, Ended(proc, proc', how)
      PROVE  ~InHand(proc')
    BY <1>6 DEF Ended, InHand
<1>7. CASE Waits \/ AppendLine
    <2>1. UNCHANGED <<settings, proc>>
        BY <1>7 DEF Waits, Quiet, AppendLine
    <2> QED
        BY <2>1 DEF OneInv
<1>8. CASE Begins
    BY <1>4, <1>8 DEF Begins, Quiet, InHand
<1>9. CASE Fails \/ Succeeds
    BY <1>4, <1>6, <1>9 DEF Fails, Succeeds, Quiet
<1>10. CASE Proceeds
    BY <1>4, <1>5, <1>10 DEF Proceeds, Quiet, Late
<1>11. CASE Detect
    BY <1>1, <1>2, <1>3, <1>5, <1>11, DetectShape DEF At
<1>12. CASE Backup
    BY <1>1, <1>4, <1>12, BackupShape DEF InHand
<1>13. CASE ReadTree
    <2>1. proc'.tree = Tree(settings) /\ UNCHANGED settings
        BY <1>1, <1>13, ReadTreeShape DEF Quiet
    <2>2. OneEach(Tree(settings))
        BY <1>1, <1>2 DEF Tree
    <2> QED
        BY <1>1, <2>1, <2>2 DEF OneInv
<1>14. CASE SkipTree
    BY <1>1, <1>4, <1>5, <1>9, <1>14, SkipTreeShape DEF Quiet
<1>15. CASE WriteTree
    <2>1. /\ InHand(proc) /\ ~InHand(proc')
          /\ \/ settings' = InstallHooks(proc.tree, exe)
             \/ settings' = RemoveHooks(proc.tree)
        BY <1>1, <1>5, <1>15, WriteTreeShape DEF InHand
    <2>2. TreeOK(proc.tree) /\ proc.tree.state # "absent" /\ OneEach(proc.tree)
        BY <2>1 DEF ForeignInv, OneInv
    <2>3. OneEach(settings')
        BY <2>1, <2>2, HooksInstalled, HooksRemoved
    <2> QED
        BY <1>3, <2>1, <2>3
<1>16. CASE InstallSkill
    BY <1>1, <1>4, <1>5, <1>16, InstallSkillShape
<1>17. CASE InstallStartupCheck
    BY <1>1, <1>4, <1>5, <1>17, InstallStartupCheckShape
<1>18. CASE RemoveSkill
    BY <1>1, <1>4, <1>5, <1>18, RemoveSkillShape
<1>19. CASE RemoveStartupCheck
    BY <1>1, <1>4, <1>5, <1>19, RemoveStartupCheckShape
<1>20. CASE StopDaemon
    BY <1>1, <1>4, <1>5, <1>20, StopDaemonShape DEF Quiet
<1>21. CASE Purge
    BY <1>1, <1>4, <1>6, <1>21, PurgeShape
<1>22. CASE ReadRule
    BY <1>1, <1>9, <1>22, ReadRuleShape DEF OneInv, Quiet
<1>23. CASE BackupRule
    BY <1>1, <1>23, BackupRuleShape DEF InHand, At, OneInv
<1>24. CASE WriteRule
    <2>1. /\ InHand(proc) /\ ~InHand(proc')
          /\ settings' = [proc.tree EXCEPT !.rules = proc.tree.rules \ {proc.rule}]
        BY <1>1, <1>6, <1>24, WriteRuleShape DEF InHand, At
    <2>2. settings'.hooks = proc.tree.hooks /\ OneEach(proc.tree)
        BY <2>1 DEF ForeignInv, TreeOK, OneInv
    <2> QED
        BY <1>3, <2>1, <2>2, SameHooks
<1>25. CASE ClaudeAllows
    <2>1. PICK r : settings' = [settings EXCEPT !.rules = settings.rules \cup {r}]
        BY <1>25 DEF ClaudeAllows
    <2>2. settings'.hooks = settings.hooks
        BY <1>1, <2>1 DEF TreeOK
    <2>3. ~InHand(proc')
        BY <1>25 DEF ClaudeAllows, NoTreeInHand, At, InHand
    <2> QED
        BY <1>1, <1>3, <2>2, <2>3, SameHooks
<1> QED
    BY <1>1, <1>7, <1>8, <1>9, <1>10, <1>11, <1>12, <1>13, <1>14, <1>15, <1>16, <1>17, <1>18, <1>19,
       <1>20, <1>21, <1>22, <1>23, <1>24, <1>25, NextKinds

-----------------------------------------------------------------------------
(* Backups *)

Dated(saved, now) == \A k \in DOMAIN saved : k[2] \in Nat /\ k[2] <= now

InBackups(saved, content) == \E k \in DOMAIN saved : saved[k] = content

(* The backup just made survives the pruning: none is newer.               *)
LEMMA BackupSaved ==
    ASSUME NEW prefix, NEW content, clock \in Nat, Dated(backups, clock), NEW k, k = Saved(prefix, content)
    PROVE  Dated(k, clock) /\ InBackups(k, content)
<1> DEFINE a == <<prefix, clock>>
<1>1. PICK s : s = [x \in DOMAIN backups \cup {a} |-> IF x = a THEN content ELSE backups[x]]
    OBVIOUS
<1>2. DOMAIN s = DOMAIN backups \cup {a} /\ s[a] = content
    BY <1>1
<1>3. \A x \in DOMAIN s : x[2] \in Nat /\ x[2] <= clock
    BY <1>2 DEF Dated
<1> DEFINE Newer(x) == {n \in DOMAIN s : n[1] = prefix /\ n[2] > x[2]}
           older == {x \in DOMAIN s : x[1] = prefix /\ Cardinality(Newer(x)) >= MaxBackups}
<1>4. k = [x \in DOMAIN s \ older |-> s[x]]
    BY <1>1 DEF Saved, prune
<1>5. Newer(a) = {}
    BY <1>3
<1>6. ~(Cardinality(Newer(a)) >= MaxBackups)
    <2>1. Cardinality(Newer(a)) = 0
        <3> HIDE DEF Newer
        <3> QED
            BY <1>5, FS_EmptySet
    <2> HIDE DEF Newer
    <2> QED
        BY <2>1, SetupAssumption
<1>7. a \notin older
    BY <1>6
<1> HIDE DEF older
<1>8. DOMAIN k = DOMAIN s \ older /\ a \in DOMAIN k /\ k[a] = content
    BY <1>2, <1>4, <1>7
<1> QED
    BY <1>3, <1>8 DEF Dated, InBackups

(* The commands that have made sure of a settings file, and those that     *)
(* have saved it.                                                          *)
Ensures(c) == InHand(c) \/ (c.op = "setup" /\ ~c.opt.dry /\ c.pc \in {"backup", "hooks"})

Saves(c) ==
    \/ c.pc = "write"
    \/ /\ c.op \in {"setup", "uninstall"} /\ c.pc = "hooks"
       /\ ~(c.op = "setup" /\ c.opt.dry) /\ settings.state # "absent"

BackInv ==
    /\ clock \in Nat /\ Dated(backups, clock)
    /\ Ensures(proc) => settings.state # "absent"
    /\ Saves(proc) => InBackups(backups, proc.saved)

LEMMA BackInit == Init => BackInv
BY DEF Init, Idle, BackInv, Dated, Ensures, Saves, InHand

LEMMA BackNext ==
    ASSUME ControlInv, ForeignInv, BackInv, [Next]_vars
    PROVE  BackInv'
<1>1. /\ ProcOK(proc) /\ TreeOK(settings) /\ clock \in Nat /\ Dated(backups, clock)
      /\ Dry => proc.pc # "write"
    BY DEF ControlInv, ForeignInv, BackInv
<1>2. ASSUME UNCHANGED clock, Dated(backups', clock), ~Ensures(proc'), ~Saves(proc)'
      PROVE  BackInv'
    BY <1>1, <1>2 DEF BackInv
<1>3. ASSUME Quiet, UNCHANGED clock, ~Ensures(proc'), proc'.pc \notin {"write", "hooks"}
      PROVE  BackInv'
    BY <1>1, <1>2, <1>3 DEF Quiet, Saves
<1>4. CASE Waits \/ AppendLine
    <2>1. UNCHANGED <<settings, backups, proc>> /\ clock' \in {clock, clock + 1}
        BY <1>4 DEF Waits, Quiet, AppendLine
    <2>2. clock' \in Nat /\ clock <= clock'
        BY <1>1, <2>1
    <2>3. Dated(backups, clock')
        BY <1>1, <2>2 DEF Dated
    <2> QED
        BY <2>1, <2>2, <2>3 DEF BackInv, Saves
<1>5. CASE Begins
    BY <1>3, <1>5 DEF Begins, Ensures, InHand
<1>6. CASE Fails \/ Succeeds
    BY <1>3, <1>6 DEF Fails, Succeeds, Ended, Ensures, InHand
<1>7. CASE Proceeds
    BY <1>3, <1>7 DEF Proceeds, Late, Gone, Ensures, InHand
<1>8. CASE Detect
    <2>1. /\ Gone(proc, proc', "backup") /\ UNCHANGED <<backups, clock>> /\ proc.op = "setup"
          /\ settings' = IF Dry \/ settings.state # "absent" THEN settings ELSE Empty
        BY <1>1, <1>8, DetectShape DEF At
    <2>2. Ensures(proc') => settings'.state # "absent"
        BY <2>1 DEF Gone, Ensures, InHand, Dry, Empty
    <2>3. ~Saves(proc)'
        BY <2>1 DEF Gone, Saves
    <2> QED
        BY <1>1, <2>1, <2>2, <2>3 DEF BackInv
<1>9. CASE Backup
    <2>1. /\ proc.op \in {"setup", "uninstall"} /\ proc.pc = "backup"
          /\ UNCHANGED <<settings, clock>>
          /\ proc'.op = proc.op /\ proc'.opt = proc.opt /\ proc'.pc = "hooks" /\ proc'.saved = settings
          /\ IF Dry \/ settings.state = "absent" THEN backups' = backups
                                                 ELSE backups' = Saved("settings", settings)
        BY <1>1, <1>9, BackupShape
    <2>2. Ensures(proc') => Ensures(proc)
        BY <2>1 DEF Ensures, InHand
    <2>3. CASE Dry \/ settings.state = "absent"
        <3>1. ~Saves(proc)' /\ backups' = backups
            BY <2>1, <2>3 DEF Saves, Dry
        <3> QED
            BY <1>1, <2>1, <2>2, <3>1 DEF BackInv
    <2>4. CASE ~(Dry \/ settings.state = "absent")
        <3>1. Dated(backups', clock) /\ InBackups(backups', settings)
            BY <1>1, <2>1, <2>4, BackupSaved
        <3> QED
            BY <1>1, <2>1, <2>2, <3>1 DEF BackInv
    <2> QED
        BY <2>3, <2>4
<1>10. CASE ReadTree
    <2>1. /\ Quiet /\ UNCHANGED clock /\ proc.pc = "hooks" /\ ~Dry /\ proc'.saved = proc.saved
          /\ proc.op \in {"setup", "uninstall"}
          /\ (proc.op = "uninstall" => settings.state # "absent")
        BY <1>1, <1>10, ReadTreeShape
    <2>2. settings.state # "absent"
        BY <2>1 DEF BackInv, Ensures, Dry
    <2>3. Saves(proc)
        BY <2>1, <2>2 DEF Saves, Dry
    <2> QED
        BY <1>1, <2>1, <2>2, <2>3 DEF BackInv, Quiet
<1>11. CASE SkipTree
    <2>1. CASE Fails
        BY <1>6, <2>1
    <2>2. CASE Quiet /\ UNCHANGED clock /\ Gone(proc, proc', "skill")
        BY <1>3, <2>2 DEF Gone, Ensures, InHand
    <2> QED
        BY <1>1, <1>11, <2>1, <2>2, SkipTreeShape
<1>12. CASE WriteTree
    BY <1>1, <1>2, <1>12, WriteTreeShape DEF Gone, Ensures, InHand, Saves
<1>13. CASE InstallSkill
    <2>1. /\ Gone(proc, proc', "startup") /\ UNCHANGED clock /\ proc.op = "setup"
          /\ backups' = backups \/ backups' = Saved("skill", Empty)
        BY <1>1, <1>13, InstallSkillShape DEF At
    <2>2. Dated(backups', clock)
        BY <1>1, <2>1, BackupSaved
    <2> QED
        BY <1>2, <2>1, <2>2 DEF Gone, Ensures, InHand, Saves
<1>14. CASE InstallStartupCheck
    BY <1>1, <1>2, <1>14, InstallStartupCheckShape DEF Gone, Ensures, InHand, Saves
<1>15. CASE RemoveSkill
    BY <1>1, <1>2, <1>15, RemoveSkillShape DEF Gone, Ensures, InHand, Saves
<1>16. CASE RemoveStartupCheck
    BY <1>1, <1>2, <1>16, RemoveStartupCheckShape DEF Gone, Ensures, InHand, Saves
<1>17. CASE StopDaemon
    BY <1>1, <1>3, <1>17, StopDaemonShape DEF Gone, Ensures, InHand
<1>18. CASE Purge
    <2>1. /\ Ended(proc, proc', "done") /\ UNCHANGED clock
          /\ backups' = backups \/ backups' = <<>>
        BY <1>1, <1>18, PurgeShape
    <2>2. Dated(<<>>, clock)
        BY DEF Dated
    <2> QED
        BY <1>1, <1>2, <2>1, <2>2 DEF Ended, Ensures, InHand, Saves
<1>19. CASE ReadRule
    <2>1. CASE /\ At("rule", "read") /\ Quiet /\ UNCHANGED clock /\ settings.state = "ok"
               /\ ProcOK(proc') /\ proc'.op = "rule" /\ proc'.pc = "backup" /\ proc'.tree = settings
        <3>1. ~Saves(proc)' /\ settings'.state # "absent"
            BY <2>1 DEF Saves, Quiet
        <3> QED
            BY <1>1, <2>1, <3>1 DEF BackInv, Quiet
    <2> QED
        BY <1>1, <1>6, <1>19, <2>1, ReadRuleShape
<1>20. CASE BackupRule
    <2>1. /\ proc.op = "rule" /\ proc.pc = "backup" /\ UNCHANGED <<settings, clock>>
          /\ proc'.saved = settings /\ backups' = Saved("settings", settings)
        BY <1>1, <1>20, BackupRuleShape DEF At
    <2>2. settings.state # "absent"
        BY <2>1 DEF BackInv, Ensures, InHand
    <2>3. Dated(backups', clock) /\ InBackups(backups', settings)
        BY <1>1, <2>1, BackupSaved
    <2> QED
        BY <1>1, <2>1, <2>2, <2>3 DEF BackInv
<1>21. CASE WriteRule
    BY <1>1, <1>2, <1>21, WriteRuleShape DEF Ended, Ensures, InHand, Saves
<1>22. CASE ClaudeAllows
    <2>1. PICK r : settings' = [settings EXCEPT !.rules = settings.rules \cup {r}]
        BY <1>22 DEF ClaudeAllows
    <2>2. settings'.state = settings.state /\ UNCHANGED <<proc, clock, backups>>
        BY <1>1, <1>22, <2>1 DEF ClaudeAllows, TreeOK
    <2> QED
        BY <2>2 DEF BackInv, Saves
<1> QED
    BY <1>1, <1>4, <1>5, <1>6, <1>7, <1>8, <1>9, <1>10, <1>11, <1>12, <1>13, <1>14, <1>15, <1>16,
       <1>17, <1>18, <1>19, <1>20, <1>21, <1>22, NextKinds

-----------------------------------------------------------------------------
(* Start-up files *)

(* A block of ours, of either product, is in a file once at most.          *)
TextOK(t) ==
    /\ t \in Seq(Tokens)
    /\ \A i, j \in DOMAIN t : t[i] = t[j] /\ t[i] \in Managed => i = j

NoBlock(t, mark) == \A i \in DOMAIN t : t[i] # mark

LEMMA TokenKinds ==
    /\ {"b", "nl", "block", "former"} \subseteq Tokens /\ Managed \subseteq Tokens
    /\ "nl" \notin Managed /\ "b" \notin Managed
BY DEF Tokens, Managed

(* What \o gives, for a sequence that has a name.                          *)
IsJoin(r, y, z) ==
    /\ r \in Seq(Tokens) /\ DOMAIN r = 1 .. Len(y) + Len(z)
    /\ \A i \in 1 .. Len(y) + Len(z) : r[i] = IF i <= Len(y) THEN y[i] ELSE z[i - Len(y)]

LEMMA Joined ==
    ASSUME NEW y \in Seq(Tokens), NEW z \in Seq(Tokens), NEW r, r = y \o z
    PROVE  IsJoin(r, y, z)
<1>1. r \in Seq(Tokens)
    BY ConcatProperties
<1>2. Len(r) = Len(y) + Len(z)
    BY ConcatProperties
<1>3. DOMAIN r = 1 .. Len(y) + Len(z)
    BY <1>1, <1>2
<1>4. \A i \in 1 .. Len(y) + Len(z) : r[i] = IF i <= Len(y) THEN y[i] ELSE z[i - Len(y)]
    BY ConcatProperties
<1> QED
    BY <1>1, <1>3, <1>4 DEF IsJoin

LEMMA HoldsBlock == \A f, mark : Holds(f, mark) <=> ~NoBlock(f.text, mark)
BY DEF Holds, NoBlock, ToSet

LEMMA BlockFound ==
    ASSUME NEW t, TextOK(t), NEW mark \in Managed, ~NoBlock(t, mark)
    PROVE  IndexOf(t, mark) \in 1 .. Len(t) /\ t[IndexOf(t, mark)] = mark
<1>1. PICK i \in DOMAIN t : t[i] = mark
    BY DEF NoBlock
<1>2. DOMAIN t = 1 .. Len(t) /\ Len(t) \in Nat
    BY DEF TextOK
<1>3. \A j \in 1 .. i - 1 : t[j] # mark
    BY <1>1, <1>2 DEF TextOK
<1> QED
    BY <1>1, <1>2, <1>3 DEF IndexOf

(* The part before a block is cut after b, where b is one or two places    *)
(* before it.                                                              *)
LEMMA Trimmed ==
    ASSUME NEW t \in Seq(Tokens), NEW a \in 1 .. Len(t)
    PROVE  \E b \in 0 .. a - 1 : trimOneNewline(SubSeq(t, 1, a - 1)) = SubSeq(t, 1, b)
<1>1. PICK s : s = SubSeq(t, 1, a - 1)
    OBVIOUS
<1>2. s \in Seq(Tokens) /\ Len(s) = a - 1 /\ \A i \in 1 .. a - 1 : s[i] = t[i]
    BY <1>1
<1>3. CASE s = <<>> \/ Last(s) # "nl"
    BY <1>1, <1>3 DEF trimOneNewline
<1>4. CASE s # <<>> /\ Last(s) = "nl"
    <2>1. a - 2 \in 0 .. a - 1
        BY <1>2, <1>4
    <2>2. trimOneNewline(s) = SubSeq(s, 1, a - 2)
        BY <1>2, <1>4 DEF trimOneNewline, Front
    <2>3. SubSeq(s, 1, a - 2) = SubSeq(t, 1, a - 2)
        BY <1>2, <2>1
    <2> QED
        BY <1>1, <2>1, <2>2, <2>3
<1> QED
    BY <1>1, <1>3, <1>4

(* r is t without, among others, its token at c.                           *)
CutAt(r, t, c) ==
    /\ TextOK(r)
    /\ t[c] \in Managed => NoBlock(r, t[c])
    /\ \A mark : NoBlock(t, mark) => NoBlock(r, mark)

(* Without the part between b and c no token is new or seen twice.         *)
LEMMA PartCut ==
    ASSUME NEW t, TextOK(t), NEW c \in 1 .. Len(t), NEW b \in 0 .. c - 1,
           NEW r, r = SubSeq(t, 1, b) \o SubSeq(t, c + 1, Len(t))
    PROVE  CutAt(r, t, c)
<1>1. PICK n \in Nat : n = Len(t)
    BY DEF TextOK
<1>2. t \in Seq(Tokens) /\ DOMAIN t = 1 .. n /\ c \in Nat /\ b \in Nat /\ b < c /\ c <= n /\ 1 <= c
    BY <1>1 DEF TextOK
<1>3. PICK y : y = SubSeq(t, 1, b)
    OBVIOUS
<1>4. y \in Seq(Tokens) /\ Len(y) = b /\ \A i \in 1 .. b : y[i] = t[i]
    BY <1>1, <1>2, <1>3
<1>5. PICK z : z = SubSeq(t, c + 1, n)
    OBVIOUS
<1>6. PICK l \in Nat : l = n - c
    BY <1>2
<1>7. z \in Seq(Tokens) /\ Len(z) = l /\ \A i \in 1 .. l : z[i] = t[i + c]
    <2>1. \A i \in c + 1 .. n : t[i] \in Tokens
        BY <1>2
    <2>2. c + 1 \in Int /\ n \in Int /\ n - (c + 1) + 1 = l
        BY <1>2, <1>6
    <2>3. z \in Seq(Tokens)
        BY <1>5, <2>1, <2>2, SubSeqProperties
    <2>4. Len(z) = IF c + 1 <= n THEN n - (c + 1) + 1 ELSE 0
        BY <1>5, <2>1, <2>2, SubSeqProperties
    <2>5. \A i \in 1 .. n - (c + 1) + 1 : z[i] = t[(c + 1) + i - 1]
        BY <1>5, <2>1, <2>2, SubSeqProperties
    <2>6. Len(z) = l
        BY <1>2, <1>6, <2>4
    <2>7. \A i \in 1 .. l : z[i] = t[i + c]
        <3>1. TAKE i \in 1 .. l
        <3>2. i \in 1 .. n - (c + 1) + 1 /\ (c + 1) + i - 1 = i + c
            BY <1>2, <2>2
        <3> QED
            BY <2>5, <3>2
    <2> QED
        BY <2>3, <2>6, <2>7
<1>8. r = y \o z
    BY <1>1, <1>3, <1>5
<1>9. IsJoin(r, y, z)
    BY <1>4, <1>7, <1>8, Joined
<1>10. /\ r \in Seq(Tokens) /\ DOMAIN r = 1 .. b + l
       /\ \A i \in 1 .. b + l : r[i] = IF i <= b THEN y[i] ELSE z[i - b]
    BY <1>4, <1>7, <1>9 DEF IsJoin
<1> DEFINE g(i) == IF i <= b THEN i ELSE i - b + c
<1>11. ASSUME NEW i \in DOMAIN r
       PROVE  g(i) \in DOMAIN t /\ g(i) # c /\ r[i] = t[g(i)]
    <2>1. i \in Nat /\ 1 <= i /\ i <= b + l
        <3>1. i \in 1 .. b + l
            BY <1>10
        <3> QED
            BY <1>2, <1>6, <3>1
    <2>2. CASE i <= b
        <3>1. i \in 1 .. b /\ i \in 1 .. n /\ i # c
            BY <1>2, <2>1, <2>2
        <3> QED
            BY <1>2, <1>4, <1>10, <2>2, <3>1
    <2>3. CASE ~(i <= b)
        <3>1. PICK d : d = i - b
            OBVIOUS
        <3>2. d \in 1 .. l /\ d + c \in 1 .. n /\ d + c # c
            BY <1>2, <1>6, <2>1, <2>3, <3>1
        <3>3. g(i) = d + c /\ r[i] = z[d]
            BY <1>10, <2>3, <3>1
        <3>4. z[d] = t[d + c]
            BY <1>7, <3>2
        <3>5. d + c \in DOMAIN t
            BY <1>2, <3>2
        <3> HIDE DEF g
        <3> QED
            BY <3>2, <3>3, <3>4, <3>5
    <2> QED
        BY <2>2, <2>3
<1>12. \A i, j \in DOMAIN r : g(i) = g(j) => i = j
    BY SMTT(30), <1>2, <1>6, <1>10
<1> HIDE DEF g
<1>13. TextOK(r)
    <2>1. \A i, j \in DOMAIN r : r[i] = r[j] /\ r[i] \in Managed => g(i) = g(j)
        <3>1. TAKE i, j \in DOMAIN r
        <3>2. g(i) \in DOMAIN t /\ g(j) \in DOMAIN t /\ r[i] = t[g(i)] /\ r[j] = t[g(j)]
            BY <1>11
        <3> QED
            BY <3>2 DEF TextOK
    <2> QED
        BY ZenonT(60), <1>10, <1>12, <2>1 DEF TextOK
<1>14. \A i \in DOMAIN r : t[c] \in Managed => r[i] # t[c]
    <2>1. c \in DOMAIN t
        BY <1>2
    <2> QED
        BY <2>1, <1>11 DEF TextOK
<1>15. \A mark : NoBlock(t, mark) => NoBlock(r, mark)
    BY <1>11 DEF NoBlock
<1> QED
    BY <1>13, <1>14, <1>15 DEF NoBlock, CutAt

LEMMA BlockRemoved ==
    ASSUME NEW f, TextOK(f.text), NEW name, NEW mark \in Managed, NEW k,
           k = removeBlockMarked(f, name, mark)
    PROVE  /\ TextOK(k.text) /\ NoBlock(k.text, mark)
           /\ \A other : NoBlock(f.text, other) => NoBlock(k.text, other)
<1>1. CASE NoBlock(f.text, mark)
    <2>1. ~Holds(f, mark)
        BY <1>1, HoldsBlock
    <2>2. k = f
        BY <2>1, Zenon DEF removeBlockMarked
    <2> QED
        BY <1>1, <2>2
<1>2. CASE ~NoBlock(f.text, mark)
    <2>1. PICK t : t = f.text
        OBVIOUS
    <2>2. PICK a : a = IndexOf(t, mark)
        OBVIOUS
    <2>3. a \in 1 .. Len(t) /\ t[a] = mark /\ TextOK(t) /\ t \in Seq(Tokens)
        BY <1>2, <2>1, <2>2, BlockFound DEF TextOK
    <2>4. PICK b \in 0 .. a - 1 : trimOneNewline(SubSeq(t, 1, a - 1)) = SubSeq(t, 1, b)
        BY <2>3, Trimmed
    <2>5. PICK r : r = SubSeq(t, 1, b) \o SubSeq(t, a + 1, Len(t))
        OBVIOUS
    <2>6. /\ TextOK(r) /\ NoBlock(r, mark)
          /\ \A other : NoBlock(t, other) => NoBlock(r, other)
        <3>1. CutAt(r, t, a)
            BY <2>3, <2>5, PartCut
        <3> QED
            BY <2>3, <3>1 DEF CutAt
    <2>7. k = Absent \/ k = Text(r)
        BY <1>2, <2>1, <2>2, <2>4, <2>5, HoldsBlock DEF removeBlockMarked
    <2>8. Text(r).text = r /\ Absent.text = <<>>
        BY DEF Text, Absent
    <2>9. TextOK(<<>>) /\ \A other : NoBlock(<<>>, other)
        BY DEF TextOK, NoBlock
    <2> QED
        BY <2>1, <2>6, <2>7, <2>8, <2>9
<1> QED
    BY <1>1, <1>2

LEMMA BlockWritten ==
    ASSUME NEW f, TextOK(f.text), NEW k, k = writeBlock(f)
    PROVE  TextOK(k.text)
<1>1. CASE Holds(f, "block")
    BY <1>1 DEF writeBlock
<1>2. CASE ~Holds(f, "block")
    <2>1. PICK t : t = f.text
        OBVIOUS
    <2>2. NoBlock(t, "block") /\ TextOK(t) /\ t \in Seq(Tokens)
        BY <1>2, <2>1, HoldsBlock DEF TextOK
    <2>3. k.text = IF t = <<>> THEN <<"block">> ELSE t \o <<"nl", "block">>
        BY <1>2, <2>1 DEF writeBlock, appendBlock, Text
    <2>4. TextOK(<<"block">>)
        <3>1. <<"block">> \in Seq(Tokens)
            BY TokenKinds
        <3>2. DOMAIN <<"block">> = {1}
            OBVIOUS
        <3> QED
            BY <3>1, <3>2 DEF TextOK
    <2>5. PICK r : r = t \o <<"nl", "block">>
        OBVIOUS
    <2>6. /\ r \in Seq(Tokens) /\ DOMAIN r = 1 .. Len(t) + 2
          /\ DOMAIN t = 1 .. Len(t) /\ Len(t) \in Nat
          /\ \A i \in DOMAIN t : r[i] = t[i]
          /\ r[Len(t) + 1] = "nl" /\ r[Len(t) + 2] = "block"
        <3>1. PICK w : w = <<"nl", "block">>
            OBVIOUS
        <3>2. w \in Seq(Tokens) /\ Len(w) = 2 /\ w[1] = "nl" /\ w[2] = "block"
            BY <3>1, TokenKinds
        <3>3. IsJoin(r, t, w)
            BY <2>2, <2>5, <3>1, <3>2, Joined
        <3>4. DOMAIN t = 1 .. Len(t) /\ Len(t) \in Nat
            BY <2>2
        <3>5. /\ r \in Seq(Tokens) /\ DOMAIN r = 1 .. Len(t) + 2
              /\ \A i \in 1 .. Len(t) + 2 : r[i] = IF i <= Len(t) THEN t[i] ELSE w[i - Len(t)]
            BY <3>2, <3>3 DEF IsJoin
        <3>6. r[Len(t) + 1] = w[1] /\ r[Len(t) + 2] = w[2] /\ \A i \in DOMAIN t : r[i] = t[i]
            BY <3>4, <3>5
        <3> QED
            BY <3>2, <3>4, <3>5, <3>6
    <2>7. \A i \in DOMAIN r : i \in DOMAIN t \/ i = Len(t) + 1 \/ i = Len(t) + 2
        BY <2>6
    <2>8. "nl" \notin Managed
        BY DEF Managed
    <2>9. \A i \in DOMAIN t : r[i] # "block"
        BY <2>2, <2>6 DEF NoBlock
    <2>10. \A i, j \in DOMAIN r : r[i] = r[j] /\ r[i] \in Managed => i = j
        BY <2>2, <2>6, <2>7, <2>8, <2>9 DEF TextOK
    <2>11. TextOK(r)
        BY <2>6, <2>10 DEF TextOK
    <2> QED
        BY <2>3, <2>4, <2>5, <2>11
<1> QED
    BY <1>1, <1>2

(* Lines that hold no block are appended.                                  *)
LEMMA LineAppended ==
    ASSUME NEW t, TextOK(t), NEW w \in Seq(Tokens), \A i \in DOMAIN w : w[i] \notin Managed,
           NEW r, r = t \o w
    PROVE  TextOK(r) /\ \A mark \in Managed : NoBlock(t, mark) => NoBlock(r, mark)
<1>1. /\ r \in Seq(Tokens) /\ DOMAIN t = 1 .. Len(t) /\ Len(t) \in Nat
      /\ DOMAIN w = 1 .. Len(w) /\ Len(w) \in Nat /\ DOMAIN r = 1 .. Len(t) + Len(w)
      /\ \A i \in DOMAIN t : r[i] = t[i]
      /\ \A i \in DOMAIN r \ DOMAIN t : i - Len(t) \in DOMAIN w /\ r[i] = w[i - Len(t)]
    <2>1. t \in Seq(Tokens)
        BY DEF TextOK
    <2>2. IsJoin(r, t, w)
        BY <2>1, Joined
    <2>3. DOMAIN t = 1 .. Len(t) /\ Len(t) \in Nat /\ DOMAIN w = 1 .. Len(w) /\ Len(w) \in Nat
        BY <2>1
    <2> QED
        BY <2>2, <2>3 DEF IsJoin
<1>2. \A i \in DOMAIN r : r[i] \in Managed => i \in DOMAIN t
    BY <1>1
<1>3. TextOK(r)
    BY <1>1, <1>2 DEF TextOK
<1> QED
    BY <1>1, <1>2, <1>3 DEF NoBlock

FilesOK(files) == \A n \in Candidates : TextOK(files[n].text)

Unmarked(files) == \A n \in Candidates : \A mark \in Managed : NoBlock(files[n].text, mark)

(* The commands that have removed the skill, and the blocks.               *)
Unskills(c) == c.op = "uninstall" /\ (c.pc \in {"startup", "daemon", "purge"} \/ c.result = "done")

Unmarks(c) == c.op = "uninstall" /\ (c.pc \in {"daemon", "purge"} \/ c.result = "done")

FileInv ==
    /\ DOMAIN file = Candidates /\ FilesOK(file)
    /\ Unskills(proc) => skill = "none"
    /\ Unmarks(proc) => Unmarked(file)

LEMMA FileInit == Init => FileInv
<1> SUFFICES ASSUME Init PROVE FileInv
    OBVIOUS
<1>1. PICK m \in Machines : file = m.file
    BY DEF Init
<1>2. InstalledOnce(m) /\ file \in [Candidates -> [here : BOOLEAN, text : Seq(Tokens)]]
    BY <1>1, MachinesAssumption
<1>3. \A n \in Candidates : file[n].text \in Seq(Tokens)
    BY <1>2
<1>4. FilesOK(file)
    BY <1>1, <1>2, <1>3 DEF FilesOK, TextOK, InstalledOnce
<1>5. ~Unskills(proc) /\ ~Unmarks(proc)
    BY DEF Init, Idle, Unskills, Unmarks
<1> QED
    BY <1>2, <1>4, <1>5 DEF FileInv

LEMMA FormerRemoved ==
    ASSUME NEW files, FilesOK(files), NEW k, k = removeLegacyBlock(files)
    PROVE  /\ FilesOK(k) /\ DOMAIN k = Candidates
           /\ \A n \in Candidates : NoBlock(k[n].text, "former")
           /\ \A n \in Candidates : \A mark : NoBlock(files[n].text, mark) => NoBlock(k[n].text, mark)
<1>1. /\ DOMAIN k = Candidates
      /\ \A n \in Candidates : k[n] = removeBlockMarked(files[n], n, "former")
    BY DEF removeLegacyBlock
<1>2. "former" \in Managed
    BY DEF Managed
<1>3. ASSUME NEW n \in Candidates
      PROVE  /\ TextOK(k[n].text) /\ NoBlock(k[n].text, "former")
             /\ \A mark : NoBlock(files[n].text, mark) => NoBlock(k[n].text, mark)
    <2>1. TextOK(files[n].text) /\ k[n] = removeBlockMarked(files[n], n, "former")
        BY <1>1 DEF FilesOK
    <2> QED
        BY <1>2, <2>1, BlockRemoved
<1> QED
    BY <1>1, <1>3 DEF FilesOK

LEMMA BlocksInstalled ==
    ASSUME FilesOK(file), NEW k, k = StartupInstall(file)
    PROVE  FilesOK(k) /\ DOMAIN k = Candidates
<1>1. PICK l : l = removeLegacyBlock(file)
    OBVIOUS
<1>2. FilesOK(l)
    BY <1>1, FormerRemoved
<1>3. k = [n \in Candidates |-> IF n \in Detected THEN writeBlock(l[n]) ELSE l[n]]
    BY <1>1 DEF StartupInstall
<1>4. ASSUME NEW n \in Candidates
      PROVE  TextOK(k[n].text)
    <2>1. TextOK(l[n].text) /\ (k[n] = writeBlock(l[n]) \/ k[n] = l[n])
        BY <1>2, <1>3 DEF FilesOK
    <2> QED
        BY <2>1, BlockWritten
<1> QED
    BY <1>3, <1>4 DEF FilesOK

LEMMA BlocksRemoved ==
    ASSUME FilesOK(file), NEW k, k = StartupRemove(file)
    PROVE  FilesOK(k) /\ DOMAIN k = Candidates /\ Unmarked(k)
<1>1. PICK l : l = [n \in Candidates |-> removeBlockMarked(file[n], n, "block")]
    OBVIOUS
<1>2. ASSUME NEW n \in Candidates
      PROVE  TextOK(l[n].text) /\ NoBlock(l[n].text, "block")
    <2>1. TextOK(file[n].text) /\ l[n] = removeBlockMarked(file[n], n, "block") /\ "block" \in Managed
        BY <1>1 DEF FilesOK, Managed
    <2> QED
        BY <2>1, BlockRemoved
<1>3. FilesOK(l)
    BY <1>2 DEF FilesOK
<1>4. k = removeLegacyBlock(l)
    BY <1>1 DEF StartupRemove
<1>5. FilesOK(k) /\ DOMAIN k = Candidates /\ \A n \in Candidates : NoBlock(k[n].text, "former")
    BY <1>3, <1>4, FormerRemoved
<1>6. \A n \in Candidates : NoBlock(k[n].text, "block")
    BY <1>2, <1>3, <1>4, FormerRemoved
<1> QED
    BY <1>5, <1>6 DEF Unmarked, Managed

LEMMA FileEdited ==
    ASSUME DOMAIN file = Candidates, FilesOK(file), AppendLine
    PROVE  FilesOK(file') /\ DOMAIN file' = Candidates /\ (Unmarked(file) => Unmarked(file'))
<1>1. PICK n \in Candidates : \E w \in {<<>>, <<"nl">>} :
            file' = [file EXCEPT ![n] = Text(file[n].text \o w \o <<"b", "nl">>)]
    BY DEF AppendLine
<1>2. PICK w \in {<<>>, <<"nl">>} : file' = [file EXCEPT ![n] = Text(file[n].text \o w \o <<"b", "nl">>)]
    BY <1>1
<1>3. PICK t : t = file[n].text
    OBVIOUS
<1>4. PICK u : u = t \o w
    OBVIOUS
<1>5. PICK v : v = <<"b", "nl">>
    OBVIOUS
<1>6. PICK r : r = u \o v
    OBVIOUS
<1>7. TextOK(t)
    BY <1>3 DEF FilesOK
<1>8. w \in Seq(Tokens) /\ \A i \in DOMAIN w : w[i] \notin Managed
    <2>1. CASE w = <<>>
        BY <2>1
    <2>2. CASE w = <<"nl">>
        <3>1. w \in Seq(Tokens)
            BY <2>2, TokenKinds
        <3>2. DOMAIN w = {1} /\ w[1] = "nl"
            BY <2>2
        <3> QED
            BY <3>1, <3>2, TokenKinds
    <2> QED
        BY <1>2, <2>1, <2>2
<1>9. v \in Seq(Tokens) /\ \A i \in DOMAIN v : v[i] \notin Managed
    <2>1. v \in Seq(Tokens)
        BY <1>5, TokenKinds
    <2>2. DOMAIN v = {1, 2} /\ v[1] = "b" /\ v[2] = "nl"
        BY <1>5
    <2> QED
        BY <2>1, <2>2, TokenKinds
<1>10. TextOK(u) /\ \A mark \in Managed : NoBlock(t, mark) => NoBlock(u, mark)
    BY <1>4, <1>7, <1>8, LineAppended
<1>11. TextOK(r) /\ \A mark \in Managed : NoBlock(u, mark) => NoBlock(r, mark)
    BY <1>6, <1>9, <1>10, LineAppended
<1>12. /\ DOMAIN file' = Candidates /\ file'[n].text = r
       /\ \A m \in Candidates \ {n} : file'[m] = file[m]
    BY <1>2, <1>3, <1>4, <1>5, <1>6 DEF Text
<1> QED
    BY <1>3, <1>10, <1>11, <1>12 DEF FilesOK, Unmarked

LEMMA FileNext ==
    ASSUME ControlInv, FileInv, [Next]_vars
    PROVE  FileInv'
<1>1. ProcOK(proc) /\ DOMAIN file = Candidates /\ FilesOK(file)
    BY DEF ControlInv, FileInv
<1>2. ASSUME UNCHANGED <<file, skill>>, Unskills(proc') => Unskills(proc), Unmarks(proc') => Unmarks(proc)
      PROVE  FileInv'
    BY <1>2 DEF FileInv
<1>3. ASSUME DOMAIN file' = Candidates, FilesOK(file'), ~Unskills(proc'), ~Unmarks(proc')
      PROVE  FileInv'
    BY <1>3 DEF FileInv
<1>4. CASE Waits
    BY <1>2, <1>4 DEF Waits, Quiet
<1>5. CASE Begins
    BY <1>2, <1>5 DEF Begins, Quiet, Unskills, Unmarks
<1>6. CASE Fails
    BY <1>2, <1>6 DEF Fails, Quiet, Ended, Unskills, Unmarks
<1>7. CASE Succeeds
    BY <1>2, <1>7 DEF Succeeds, Quiet, Ended, Unskills, Unmarks
<1>8. CASE Proceeds
    BY <1>2, <1>8 DEF Proceeds, Quiet, Gone, Unskills, Unmarks
<1>9. CASE Detect
    BY <1>1, <1>2, <1>9, DetectShape DEF Gone, At, Unskills, Unmarks
<1>10. CASE Backup
    BY <1>1, <1>2, <1>10, BackupShape DEF Unskills, Unmarks
<1>11. CASE ReadTree
    BY <1>1, <1>2, <1>11, ReadTreeShape DEF Quiet, Unskills, Unmarks
<1>12. CASE SkipTree
    <2>1. CASE Fails
        BY <1>6, <2>1
    <2>2. CASE Quiet /\ UNCHANGED clock /\ Gone(proc, proc', "skill") /\ proc.pc = "hooks"
        BY <1>1, <1>2, <2>2 DEF Quiet, Gone, ProcOK, Unskills, Unmarks
    <2> QED
        BY <1>1, <1>12, <2>1, <2>2, SkipTreeShape
<1>13. CASE WriteTree
    BY <1>1, <1>2, <1>13, WriteTreeShape DEF Gone, ProcOK, Unskills, Unmarks
<1>14. CASE InstallSkill
    BY <1>1, <1>3, <1>14, InstallSkillShape DEF At, Gone, Unskills, Unmarks
<1>15. CASE InstallStartupCheck
    <2>1. /\ At("setup", "startup") /\ Gone(proc, proc', "migrate")
          /\ file' = file \/ file' = StartupInstall(file)
        BY <1>1, <1>15, InstallStartupCheckShape
    <2>2. FilesOK(file') /\ DOMAIN file' = Candidates
        BY <1>1, <2>1, BlocksInstalled
    <2> QED
        BY <1>3, <2>1, <2>2 DEF At, Gone, Unskills, Unmarks
<1>16. CASE RemoveSkill
    <2>1. At("uninstall", "skill") /\ Gone(proc, proc', "startup") /\ UNCHANGED file /\ skill' = "none"
        BY <1>1, <1>16, RemoveSkillShape
    <2>2. ~Unmarks(proc')
        BY <1>1, <2>1 DEF At, Gone, ProcOK, Unmarks
    <2> QED
        BY <1>1, <2>1, <2>2 DEF FileInv
<1>17. CASE RemoveStartupCheck
    <2>1. /\ At("uninstall", "startup") /\ Gone(proc, proc', "daemon") /\ UNCHANGED skill
          /\ file' = StartupRemove(file)
        BY <1>1, <1>17, RemoveStartupCheckShape
    <2>2. FilesOK(file') /\ DOMAIN file' = Candidates /\ Unmarked(file')
        BY <1>1, <2>1, BlocksRemoved
    <2>3. Unskills(proc)
        BY <2>1 DEF At, Unskills
    <2> QED
        BY <2>1, <2>2, <2>3 DEF FileInv
<1>18. CASE StopDaemon
    BY <1>1, <1>2, <1>18, StopDaemonShape DEF Quiet, At, Gone, Unskills, Unmarks
<1>19. CASE Purge
    BY <1>1, <1>2, <1>19, PurgeShape DEF At, Ended, Unskills, Unmarks
<1>20. CASE ReadRule
    BY <1>1, <1>2, <1>6, <1>7, <1>20, ReadRuleShape DEF Quiet, Unskills, Unmarks
<1>21. CASE BackupRule
    BY <1>1, <1>2, <1>21, BackupRuleShape DEF Unskills, Unmarks
<1>22. CASE WriteRule
    BY <1>1, <1>2, <1>22, WriteRuleShape DEF At, Ended, Unskills, Unmarks
<1>23. CASE ClaudeAllows
    BY <1>2, <1>23 DEF ClaudeAllows
<1>24. CASE AppendLine
    <2>1. FilesOK(file') /\ DOMAIN file' = Candidates /\ (Unmarked(file) => Unmarked(file'))
        BY <1>1, <1>24, FileEdited
    <2>2. UNCHANGED <<proc, skill>>
        BY <1>24 DEF AppendLine
    <2> QED
        BY <2>1, <2>2 DEF FileInv
<1> QED
    BY <1>1, <1>4, <1>5, <1>6, <1>7, <1>8, <1>9, <1>10, <1>11, <1>12, <1>13, <1>14, <1>15, <1>16,
       <1>17, <1>18, <1>19, <1>20, <1>21, <1>22, <1>23, <1>24, NextKinds

-----------------------------------------------------------------------------
(* Byte for byte *)

(* The text c with a block written after it.                               *)
Marked(c) == IF c = <<>> THEN <<"block">> ELSE c \o <<"nl", "block">>

Blank(t) == ToSet(t) \subseteq {"nl"}

(* The text t of file n is c, which has no block, or c with the block.     *)
CleanOK(n, c, t) ==
    /\ c \in Seq(Tokens) /\ \A mark \in Managed : NoBlock(c, mark)
    /\ n \in Standalone /\ Blank(c) => c = <<>>
    /\ t = c \/ t = Marked(c)

CleanInv ==
    /\ DOMAIN clean = Candidates
    /\ \A n \in Candidates : clean[n].known => CleanOK(n, clean[n].text, file[n].text)

(* No file with nothing but blank lines is found at the path of the fish   *)
(* drop-in, which has the product's name.                                  *)
NoBlankDropIn ==
    \A m \in Machines : \A n \in Standalone : Blank(m.file[n].text) => m.file[n].text = <<>>

LEMMA MarkedText ==
    ASSUME NEW c \in Seq(Tokens), NEW t, t = Marked(c), \A mark \in Managed : NoBlock(c, mark)
    PROVE  /\ TextOK(t) /\ ~NoBlock(t, "block") /\ NoBlock(t, "former")
           /\ t[Len(t)] = "block" /\ Len(t) = IF c = <<>> THEN 1 ELSE Len(c) + 2
           /\ c # <<>> => t[Len(c) + 1] = "nl" /\ \A i \in 1 .. Len(c) : t[i] = c[i]
<1>1. CASE c = <<>>
    <2>1. t = <<"block">> /\ t \in Seq(Tokens)
        BY <1>1, TokenKinds DEF Marked
    <2>2. DOMAIN t = {1} /\ t[1] = "block" /\ Len(t) = 1
        BY <2>1
    <2> QED
        BY <1>1, <2>1, <2>2 DEF TextOK, NoBlock
<1>2. CASE c # <<>>
    <2>1. PICK w : w = <<"nl", "block">>
        OBVIOUS
    <2>2. w \in Seq(Tokens) /\ Len(w) = 2 /\ w[1] = "nl" /\ w[2] = "block"
        BY <2>1, TokenKinds
    <2>3. PICK l \in Nat : l = Len(c)
        OBVIOUS
    <2>4. IsJoin(t, c, w)
        BY <1>2, <2>1, <2>2, Joined DEF Marked
    <2>5. /\ t \in Seq(Tokens) /\ DOMAIN t = 1 .. l + 2 /\ DOMAIN c = 1 .. l
          /\ \A i \in 1 .. l + 2 : t[i] = IF i <= l THEN c[i] ELSE w[i - l]
        BY <2>2, <2>3, <2>4 DEF IsJoin
    <2>6. /\ t[l + 1] = "nl" /\ t[l + 2] = "block" /\ Len(t) = l + 2
          /\ \A i \in 1 .. l : t[i] = c[i]
        BY <2>2, <2>5
    <2>7. \A i \in DOMAIN t : i \in DOMAIN c \/ i = l + 1 \/ i = l + 2
        BY <2>5
    <2>8. \A i \in DOMAIN c : t[i] \notin Managed
        BY <2>5, <2>6 DEF NoBlock
    <2>9. TextOK(t)
        BY <2>5, <2>6, <2>7, <2>8, TokenKinds DEF TextOK
    <2>10. ~NoBlock(t, "block") /\ NoBlock(t, "former")
        BY <2>5, <2>6, <2>7, <2>8 DEF NoBlock, Managed
    <2> QED
        BY <1>2, <2>3, <2>6, <2>9, <2>10
<1> QED
    BY <1>1, <1>2

(* The one newline that writeBlock put before the block is the one that    *)
(* trimOneNewline takes back.                                              *)
LEMMA RoundTrip ==
    ASSUME NEW n, NEW c, NEW f, CleanOK(n, c, f.text), f.text = Marked(c),
           NEW k, k = removeBlockMarked(f, n, "block")
    PROVE  k.text = c
<1>1. c \in Seq(Tokens) /\ (\A mark \in Managed : NoBlock(c, mark)) /\ "block" \in Managed
    BY DEF CleanOK, Managed
<1>2. PICK t : t = f.text
    OBVIOUS
<1>3. /\ TextOK(t) /\ ~NoBlock(t, "block") /\ t \in Seq(Tokens)
      /\ t[Len(t)] = "block" /\ Len(t) = IF c = <<>> THEN 1 ELSE Len(c) + 2
      /\ c # <<>> => t[Len(c) + 1] = "nl" /\ \A i \in 1 .. Len(c) : t[i] = c[i]
    BY <1>1, <1>2, MarkedText DEF TextOK
<1>4. PICK a \in Nat : a = Len(t)
    BY <1>3
<1>5. IndexOf(t, "block") = a
    <2>1. IndexOf(t, "block") \in 1 .. a /\ t[IndexOf(t, "block")] = "block"
        BY <1>1, <1>3, <1>4, BlockFound
    <2>2. t \in Seq(Tokens) /\ t[Len(t)] = "block"
        BY <1>3
    <2>3. DOMAIN t = 1 .. a /\ t[a] = "block"
        BY <1>4, <2>2
    <2>4. a \in 1 .. a
        BY <2>1
    <2> QED
        BY <1>1, <1>3, <2>1, <2>3, <2>4 DEF TextOK
<1>6. PICK s : s = SubSeq(t, 1, a - 1)
    OBVIOUS
<1>7. s \in Seq(Tokens) /\ Len(s) = a - 1 /\ \A i \in 1 .. a - 1 : s[i] = t[i]
    BY <1>3, <1>4, <1>6
<1>8. trimOneNewline(s) = c
    <2>1. CASE c = <<>>
        <3>1. s = <<>>
            BY <1>3, <1>4, <1>7, <2>1
        <3> QED
            BY <2>1, <3>1 DEF trimOneNewline
    <2>2. CASE c # <<>>
        <3>1. Len(s) = Len(c) + 1 /\ s # <<>> /\ Last(s) = "nl"
            BY <1>1, <1>3, <1>4, <1>7, <2>2 DEF Last
        <3>2. trimOneNewline(s) = SubSeq(s, 1, Len(c))
            BY <1>1, <1>7, <3>1 DEF trimOneNewline, Front
        <3>3. SubSeq(s, 1, Len(c)) = c
            BY <1>1, <1>3, <1>7, <2>2, <3>1
        <3> QED
            BY <3>2, <3>3
    <2> QED
        BY <2>1, <2>2
<1>9. SubSeq(t, a + 1, a) = <<>>
    BY <1>3, <1>4
<1>10. trimOneNewline(SubSeq(t, 1, a - 1)) \o SubSeq(t, a + 1, Len(t)) = c
    BY <1>1, <1>4, <1>6, <1>8, <1>9
<1>11. k = IF n \in Standalone /\ ToSet(c) \subseteq {"nl"} THEN Absent ELSE Text(c)
    BY <1>2, <1>3, <1>5, <1>10, HoldsBlock DEF removeBlockMarked
<1>12. Text(c).text = c /\ Absent.text = <<>>
    BY DEF Text, Absent
<1> QED
    BY <1>11, <1>12 DEF CleanOK, Blank

LEMMA NothingToRemove ==
    ASSUME NEW n, NEW f, NEW mark, NoBlock(f.text, mark)
    PROVE  removeBlockMarked(f, n, mark) = f
<1>1. ~Holds(f, mark)
    BY HoldsBlock
<1> QED
    BY <1>1, Zenon DEF removeBlockMarked

LEMMA NoFormer ==
    ASSUME NEW n, NEW c, NEW t, CleanOK(n, c, t)
    PROVE  NoBlock(t, "former")
BY MarkedText DEF CleanOK, Managed

LEMMA InstallKeeps ==
    ASSUME NEW n \in Candidates, NEW c, CleanOK(n, c, file[n].text)
    PROVE  CleanOK(n, c, StartupInstall(file)[n].text)
<1>1. removeLegacyBlock(file)[n] = file[n]
    BY NoFormer, NothingToRemove DEF removeLegacyBlock
<1>2. PICK f : f = file[n]
    OBVIOUS
<1>3. StartupInstall(file)[n] \in {f, writeBlock(f)}
    BY <1>1, <1>2 DEF StartupInstall
<1>4. CASE f.text = c
    <2>1. NoBlock(f.text, "block")
        BY <1>4 DEF CleanOK, Managed
    <2>2. writeBlock(f) = appendBlock(f)
        BY <2>1, HoldsBlock DEF writeBlock
    <2>3. appendBlock(f).text = Marked(c)
        BY <1>4 DEF appendBlock, Text, Marked
    <2> QED
        BY <1>2, <1>3, <2>2, <2>3 DEF CleanOK
<1>5. CASE f.text = Marked(c)
    <2>1. ~NoBlock(f.text, "block")
        BY <1>5, MarkedText DEF CleanOK
    <2>2. writeBlock(f) = f
        BY <2>1, HoldsBlock DEF writeBlock
    <2> QED
        BY <1>2, <1>3, <2>2
<1> QED
    BY <1>2, <1>4, <1>5 DEF CleanOK

LEMMA RemoveKeeps ==
    ASSUME NEW n \in Candidates, NEW c, CleanOK(n, c, file[n].text)
    PROVE  CleanOK(n, c, StartupRemove(file)[n].text)
<1>1. PICK l : l = [m \in Candidates |-> removeBlockMarked(file[m], m, "block")]
    OBVIOUS
<1>2. l[n] = removeBlockMarked(file[n], n, "block")
    BY <1>1
<1>3. l[n].text = c
    <2>1. CASE file[n].text = c
        <3>1. NoBlock(file[n].text, "block")
            BY <2>1 DEF CleanOK, Managed
        <3>2. l[n] = file[n]
            BY <1>2, <3>1, NothingToRemove
        <3> QED
            BY <2>1, <3>2
    <2>2. CASE file[n].text = Marked(c)
        BY <1>2, <2>2, RoundTrip
    <2> QED
        BY <2>1, <2>2 DEF CleanOK
<1>4. CleanOK(n, c, l[n].text)
    BY <1>3 DEF CleanOK
<1>5. StartupRemove(file)[n] = removeBlockMarked(l[n], n, "former")
    BY <1>1 DEF StartupRemove, removeLegacyBlock
<1>6. StartupRemove(file)[n] = l[n]
    BY <1>4, <1>5, NoFormer, NothingToRemove
<1> QED
    BY <1>4, <1>6

LEMMA UntouchedClean ==
    ASSUME NEW n, NEW f, f.text \in Seq(Tokens), n \in Standalone /\ Blank(f.text) => f.text = <<>>,
           Untouched(f).known
    PROVE  CleanOK(n, Untouched(f).text, f.text)
<1>1. Untouched(f).text = f.text /\ ToSet(f.text) \cap Managed = {}
    BY DEF Untouched
<1>2. \A mark \in Managed : NoBlock(f.text, mark)
    BY <1>1 DEF NoBlock, ToSet
<1> QED
    BY <1>1, <1>2 DEF CleanOK

LEMMA CleanInit ==
    ASSUME NoBlankDropIn, Init
    PROVE  CleanInv
<1>1. PICK m \in Machines : file = m.file
    BY DEF Init
<1>2. \A n \in Candidates : file[n].text \in Seq(Tokens)
    BY <1>1, MachinesAssumption
<1>3. clean = [n \in Candidates |-> Untouched(file[n])]
    BY DEF Init
<1>4. \A n \in Candidates : n \in Standalone /\ Blank(file[n].text) => file[n].text = <<>>
    BY <1>1 DEF NoBlankDropIn
<1> QED
    BY <1>2, <1>3, <1>4, UntouchedClean DEF CleanInv

(* What a step does to the start-up files.                                 *)
LEMMA FileSteps ==
    ASSUME [Next]_vars
    PROVE  \/ /\ UNCHANGED <<clean, lines>>
              /\ file' \in {file, StartupInstall(file), StartupRemove(file)}
           \/ AppendLine
<1> USE DEF world, steps, history
<1>1. CASE RunSetup \/ RunUninstall \/ RunRegister \/ RunRemoveRule
    BY <1>1 DEF RunSetup, RunUninstall, RunRegister, RunRemoveRule, Begin
<1>2. CASE StepFails \/ Interrupt
    BY <1>2 DEF StepFails, Interrupt
<1>3. CASE SetupStep
    <2>1. CASE \/ Detect \/ Backup \/ ReadTree \/ SkipTree \/ WriteTree
               \/ InstallSkill \/ InstallStartupCheck
        BY <2>1 DEF Detect, Backup, ReadTree, SkipTree, WriteTree, InstallSkill, InstallStartupCheck
    <2>2. CASE \/ MigrateEntry \/ MigrateNothing \/ MigrateFails \/ RenameDatabase \/ OpenStorage
               \/ InstallService \/ EnsureDaemon \/ SelfTest \/ RecordMeta
        BY <2>2 DEF MigrateEntry, MigrateNothing, MigrateFails, RenameDatabase, OpenStorage,
                    InstallService, EnsureDaemon, SelfTest, RecordMeta
    <2> QED
        BY <1>3, <2>1, <2>2 DEF SetupStep
<1>4. CASE RemoveStep
    BY <1>4 DEF RemoveStep, RemoveSkill, RemoveStartupCheck, StopDaemon, Purge
<1>5. CASE Register \/ ReadRule \/ BackupRule \/ WriteRule
    BY <1>5 DEF Register, ReadRule, BackupRule, WriteRule
<1>6. CASE ClaudeAllows \/ DaemonStarts \/ BinaryMoves \/ Tick \/ UNCHANGED vars
    BY <1>6 DEF ClaudeAllows, DaemonStarts, BinaryMoves, Tick, vars
<1> QED
    BY <1>1, <1>2, <1>3, <1>4, <1>5, <1>6 DEF Next, OtherStep

LEMMA CleanNext ==
    ASSUME FileInv, FileInv', CleanInv, [Next]_vars
    PROVE  CleanInv'
<1>1. CASE UNCHANGED <<clean, lines>> /\ file' \in {file, StartupInstall(file), StartupRemove(file)}
    BY <1>1, InstallKeeps, RemoveKeeps DEF CleanInv
<1>2. CASE AppendLine
    <2>1. PICK n \in Candidates \ Standalone :
             /\ \A m \in Candidates \ {n} : file'[m] = file[m]
             /\ clean' = [clean EXCEPT ![n] = Untouched(file'[n])]
        BY <1>2 DEF AppendLine, FileInv
    <2>2. DOMAIN clean' = Candidates /\ clean'[n] = Untouched(file'[n])
        BY <2>1 DEF CleanInv
    <2>3. file'[n].text \in Seq(Tokens)
        BY DEF FileInv, FilesOK, TextOK
    <2>4. clean'[n].known => CleanOK(n, clean'[n].text, file'[n].text)
        BY <2>1, <2>2, <2>3, UntouchedClean
    <2>5. \A m \in Candidates \ {n} : clean'[m] = clean[m] /\ file'[m] = file[m]
        BY <2>1 DEF CleanInv
    <2> QED
        BY <2>2, <2>4, <2>5 DEF CleanInv
<1> QED
    BY <1>1, <1>2, FileSteps

-----------------------------------------------------------------------------
(* Line by line *)

LEMMA NatInduct ==
    ASSUME NEW S, 0 \in S, \A n \in Nat : n \in S => n + 1 \in S
    PROVE  Nat \subseteq S
<1> SUFFICES ASSUME Nat \ S # {} PROVE FALSE
    OBVIOUS
<1>1. PICK m \in Nat \ S : \A x \in Nat \ S : m <= x
    BY LeastElement
<1>2. m # 0 /\ m - 1 \in Nat /\ (m - 1) + 1 = m
    BY <1>1
<1>3. m - 1 \notin S
    BY <1>1, <1>2
<1> QED
    BY <1>1, <1>2, <1>3

(* f is what the reader of t knows after each token.                       *)
IsTrace(f, t) ==
    f = [n \in 0 .. Len(t) |-> IF n = 0 THEN Unread ELSE ReadToken(f[n - 1], t[n])]

(* There is a trace: a reader can always go one token further.             *)
LEMMA TraceExists ==
    ASSUME NEW t \in Seq(Tokens)
    PROVE  \E f : IsTrace(f, t)
<1> DEFINE Begun(f, k) ==
               f = [n \in 0 .. k |-> IF n = 0 THEN Unread ELSE ReadToken(f[n - 1], t[n])]
           S == {k \in Nat : \E f : Begun(f, k)}
<1>1. 0 \in S
    <2> DEFINE f == [n \in 0 .. 0 |-> Unread]
    <2>1. Begun(f, 0)
        OBVIOUS
    <2> QED
        BY <2>1
<1>2. ASSUME NEW k \in Nat, k \in S
      PROVE  k + 1 \in S
    <2>1. PICK f : Begun(f, k)
        BY <1>2
    <2> DEFINE g == [n \in 0 .. k + 1 |-> IF n <= k THEN f[n] ELSE ReadToken(f[k], t[k + 1])]
    <2>2. \A n \in 0 .. k + 1 : g[n] = IF n = 0 THEN Unread ELSE ReadToken(g[n - 1], t[n])
        <3>1. \A n \in 0 .. k : f[n] = IF n = 0 THEN Unread ELSE ReadToken(f[n - 1], t[n])
            BY <2>1
        <3>2. \A n \in 0 .. k : g[n] = f[n]
            OBVIOUS
        <3>3. g[k + 1] = ReadToken(f[k], t[k + 1]) /\ g[k] = f[k]
            OBVIOUS
        <3> HIDE DEF g
        <3>4. ASSUME NEW n \in 0 .. k
              PROVE  g[n] = IF n = 0 THEN Unread ELSE ReadToken(g[n - 1], t[n])
            BY <3>1, <3>2
        <3>5. (k + 1) - 1 = k /\ k + 1 # 0
            OBVIOUS
        <3>6. \A n \in 0 .. k + 1 : n \in 0 .. k \/ n = k + 1
            OBVIOUS
        <3> QED
            BY <3>3, <3>4, <3>5, <3>6
    <2>3. g = [n \in 0 .. k + 1 |-> g[n]]
        OBVIOUS
    <2> HIDE DEF g
    <2>4. Begun(g, k + 1)
        BY <2>2, <2>3
    <2> HIDE DEF Begun
    <2>5. \E h : Begun(h, k + 1)
        BY <2>4
    <2> QED
        BY <2>5
<1> HIDE DEF S
<1>3. Len(t) \in S
    BY <1>1, <1>2, NatInduct
<1> QED
    BY <1>3 DEF S, IsTrace

(* A reading is the end of a trace.                                        *)
LEMMA ReadingTraced ==
    ASSUME NEW t \in Seq(Tokens)
    PROVE  \E f : IsTrace(f, t) /\ Reading(t) = f[Len(t)]
<1> DEFINE f == CHOOSE g : g = [n \in 0 .. Len(t) |-> IF n = 0 THEN Unread ELSE ReadToken(g[n - 1], t[n])]
<1>1. Reading(t) = f[Len(t)]
    BY DEF Reading
<1>2. IsTrace(f, t)
    BY TraceExists DEF IsTrace
<1> QED
    BY <1>1, <1>2

LEMMA TraceSteps ==
    ASSUME NEW t \in Seq(Tokens), NEW f, IsTrace(f, t)
    PROVE  f[0] = Unread /\ \A n \in Nat : n < Len(t) => f[n + 1] = ReadToken(f[n], t[n + 1])
<1>1. \A n \in 0 .. Len(t) : f[n] = IF n = 0 THEN Unread ELSE ReadToken(f[n - 1], t[n])
    BY DEF IsTrace
<1>2. Len(t) \in Nat
    OBVIOUS
<1>3. f[0] = Unread
    BY <1>1, <1>2
<1>4. ASSUME NEW n \in Nat, n < Len(t)
      PROVE  f[n + 1] = ReadToken(f[n], t[n + 1])
    <2>1. n + 1 \in 0 .. Len(t) /\ n + 1 # 0 /\ (n + 1) - 1 = n
        BY <1>2, <1>4
    <2> QED
        BY <1>1, <2>1
<1> QED
    BY <1>3, <1>4

(* The l tokens of s after place a are those of t after place b.           *)
SameText(s, a, t, b, l) ==
    a + l <= Len(s) /\ b + l <= Len(t) /\ \A i \in 1 .. l : s[a + i] = t[b + i]

(* Two readers who know the same and go on with the same text know the     *)
(* same in the end.                                                        *)
LEMMA ReadOn ==
    ASSUME NEW s \in Seq(Tokens), NEW t \in Seq(Tokens), NEW f, NEW g, IsTrace(f, s), IsTrace(g, t),
           NEW a \in Nat, NEW b \in Nat, NEW l \in Nat, SameText(s, a, t, b, l), f[a] = g[b]
    PROVE  f[a + l] = g[b + l]
<1> USE DEF SameText
<1> DEFINE S == {k \in Nat : k <= l => f[a + k] = g[b + k]}
<1>1. 0 \in S
    OBVIOUS
<1>2. ASSUME NEW k \in Nat, k \in S
      PROVE  k + 1 \in S
    <2> SUFFICES ASSUME k + 1 <= l PROVE f[a + (k + 1)] = g[b + (k + 1)]
        OBVIOUS
    <2>1. f[a + k] = g[b + k]
        BY <1>2
    <2>2. Len(s) \in Nat /\ Len(t) \in Nat
        OBVIOUS
    <2>3. a + k \in Nat /\ b + k \in Nat /\ a + k < Len(s) /\ b + k < Len(t)
        BY <2>2
    <2>4. f[(a + k) + 1] = ReadToken(f[a + k], s[(a + k) + 1])
        BY <2>3, TraceSteps
    <2>5. g[(b + k) + 1] = ReadToken(g[b + k], t[(b + k) + 1])
        BY <2>3, TraceSteps
    <2>6. (a + k) + 1 = a + (k + 1) /\ (b + k) + 1 = b + (k + 1) /\ k + 1 \in 1 .. l
        OBVIOUS
    <2>7. s[a + (k + 1)] = t[b + (k + 1)]
        BY <2>6
    <2> QED
        BY <2>1, <2>4, <2>5, <2>6, <2>7
<1> HIDE DEF S
<1>3. l \in S
    BY <1>1, <1>2, NatInduct
<1> QED
    BY <1>3 DEF S

(* What a reader knows after part of a text is what the part says.         *)
LEMMA ReadPart ==
    ASSUME NEW s \in Seq(Tokens), NEW t \in Seq(Tokens), NEW f, IsTrace(f, s), Len(t) <= Len(s),
           \A i \in 1 .. Len(t) : s[i] = t[i]
    PROVE  f[Len(t)] = Reading(t)
<1>1. PICK g : IsTrace(g, t) /\ Reading(t) = g[Len(t)]
    BY ReadingTraced
<1>2. f[0] = g[0]
    BY <1>1, TraceSteps
<1>3. PICK l \in Nat : l = Len(t)
    OBVIOUS
<1>4. 0 + l <= Len(s) /\ 0 + l <= Len(t) /\ \A i \in 1 .. l : s[0 + i] = t[0 + i]
    BY <1>3
<1>5. SameText(s, 0, t, 0, l)
    BY <1>4 DEF SameText
<1>6. f[0 + l] = g[0 + l]
    BY <1>1, <1>2, <1>5, ReadOn
<1> QED
    BY <1>1, <1>3, <1>6

LEMMA ReadNothing == Reading(<<>>) = Unread
<1> DEFINE t == <<>>
<1>1. t \in Seq(Tokens) /\ Len(t) = 0
    OBVIOUS
<1> HIDE DEF t
<1>2. PICK f : IsTrace(f, t) /\ Reading(t) = f[Len(t)]
    BY <1>1, ReadingTraced
<1>3. f[0] = Unread
    BY <1>1, <1>2, TraceSteps
<1> QED
    BY <1>1, <1>2, <1>3 DEF t

LEMMA ReadAppend ==
    ASSUME NEW t \in Seq(Tokens), NEW x \in Tokens
    PROVE  Reading(Append(t, x)) = ReadToken(Reading(t), x)
<1>1. PICK s : s = Append(t, x)
    OBVIOUS
<1>2. PICK n \in Nat : n = Len(t)
    OBVIOUS
<1>3. s \in Seq(Tokens) /\ Len(s) = n + 1 /\ s[n + 1] = x /\ \A i \in 1 .. n : s[i] = t[i]
    BY <1>1, <1>2
<1>4. PICK f : IsTrace(f, s) /\ Reading(s) = f[Len(s)]
    BY <1>3, ReadingTraced
<1>5. f[n] = Reading(t)
    BY <1>2, <1>3, <1>4, ReadPart
<1>6. f[n + 1] = ReadToken(f[n], s[n + 1])
    <2>1. n < Len(s)
        BY <1>3
    <2> QED
        BY <1>3, <1>4, <2>1, TraceSteps
<1> QED
    BY <1>1, <1>3, <1>4, <1>5, <1>6

(* Two texts that say the same still do with the same text after them.     *)
LEMMA ReadSame ==
    ASSUME NEW y \in Seq(Tokens), NEW x \in Seq(Tokens), NEW z \in Seq(Tokens),
           Reading(y) = Reading(x)
    PROVE  Reading(y \o z) = Reading(x \o z)
<1>1. PICK s : s = y \o z
    OBVIOUS
<1>2. PICK t : t = x \o z
    OBVIOUS
<1>3. IsJoin(s, y, z) /\ IsJoin(t, x, z)
    BY <1>1, <1>2, Joined
<1>4. PICK a \in Nat, b \in Nat, l \in Nat : a = Len(y) /\ b = Len(x) /\ l = Len(z)
    OBVIOUS
<1>5. /\ s \in Seq(Tokens) /\ Len(s) = a + l /\ \A i \in 1 .. a : s[i] = y[i]
      /\ t \in Seq(Tokens) /\ Len(t) = b + l /\ \A i \in 1 .. b : t[i] = x[i]
    BY <1>3, <1>4 DEF IsJoin
<1>6. \A i \in 1 .. l : s[a + i] = t[b + i]
    <2>1. \A i \in 1 .. a + l : s[i] = IF i <= a THEN y[i] ELSE z[i - a]
        BY <1>3, <1>4 DEF IsJoin
    <2>2. \A i \in 1 .. b + l : t[i] = IF i <= b THEN x[i] ELSE z[i - b]
        BY <1>3, <1>4 DEF IsJoin
    <2>3. TAKE i \in 1 .. l
    <2>4. /\ a + i \in 1 .. a + l /\ ~(a + i <= a) /\ (a + i) - a = i
          /\ b + i \in 1 .. b + l /\ ~(b + i <= b) /\ (b + i) - b = i
        OBVIOUS
    <2> QED
        BY <2>1, <2>2, <2>4
<1>7. PICK f : IsTrace(f, s) /\ Reading(s) = f[Len(s)]
    BY <1>5, ReadingTraced
<1>8. PICK g : IsTrace(g, t) /\ Reading(t) = g[Len(t)]
    BY <1>5, ReadingTraced
<1>9. Len(y) <= Len(s) /\ Len(x) <= Len(t)
    BY <1>4, <1>5
<1>10. f[a] = Reading(y)
    BY <1>4, <1>5, <1>7, <1>9, ReadPart
<1>11. g[b] = Reading(x)
    BY <1>4, <1>5, <1>8, <1>9, ReadPart
<1>12. SameText(s, a, t, b, l)
    <2>1. a + l <= Len(s) /\ b + l <= Len(t)
        BY <1>5
    <2> QED
        BY <1>6, <2>1 DEF SameText
<1>13. f[a + l] = g[b + l]
    BY <1>5, <1>7, <1>8, <1>10, <1>11, <1>12, ReadOn
<1> QED
    BY <1>1, <1>2, <1>5, <1>7, <1>8, <1>13

(* Nothing is said by blank lines.                                         *)
LEMMA ReadBlank ==
    ASSUME NEW t \in Seq(Tokens), Blank(t)
    PROVE  Reading(t) = Unread
<1>1. PICK f : IsTrace(f, t) /\ Reading(t) = f[Len(t)]
    BY ReadingTraced
<1> DEFINE S == {k \in Nat : k <= Len(t) => f[k] = Unread}
<1>2. 0 \in S
    BY <1>1, TraceSteps
<1>3. ASSUME NEW k \in Nat, k \in S
      PROVE  k + 1 \in S
    <2> SUFFICES ASSUME k + 1 <= Len(t) PROVE f[k + 1] = Unread
        OBVIOUS
    <2>1. Len(t) \in Nat /\ DOMAIN t = 1 .. Len(t)
        OBVIOUS
    <2>2. k < Len(t) /\ k + 1 \in DOMAIN t /\ f[k] = Unread
        BY <1>3, <2>1
    <2>3. t[k + 1] = "nl"
        BY <2>2 DEF Blank, ToSet
    <2>4. f[k + 1] = ReadToken(f[k], t[k + 1])
        BY <1>1, <2>2, TraceSteps
    <2> QED
        BY <2>2, <2>3, <2>4 DEF ReadToken, Breaks, EndLine, Unread
<1> HIDE DEF S
<1>4. Len(t) \in S
    BY <1>2, <1>3, NatInduct
<1> QED
    BY <1>1, <1>4 DEF S

(* A text with no line begun.                                              *)
LineEnded(t) == t = <<>> \/ t[Len(t)] \in Breaks

LEMMA ReadEnded ==
    ASSUME NEW t \in Seq(Tokens), LineEnded(t)
    PROVE  /\ EndLine(Reading(t)) = Reading(t)
           /\ Reading(t) = [lines |-> Reading(t).lines, line |-> <<>>]
<1>1. CASE t = <<>>
    BY <1>1, ReadNothing DEF Unread, EndLine
<1>2. CASE t # <<>>
    <2>1. PICK n \in Nat : n = Len(t)
        OBVIOUS
    <2>2. n # 0 /\ DOMAIN t = 1 .. n
        BY <1>2, <2>1
    <2>3. PICK s : s = SubSeq(t, 1, n - 1)
        OBVIOUS
    <2>4. s \in Seq(Tokens) /\ t[n] \in Tokens
        BY <2>1, <2>2, <2>3
    <2>5. t = Append(s, t[n])
        BY <2>1, <2>2, <2>3
    <2>6. Reading(t) = ReadToken(Reading(s), t[n])
        BY <2>4, <2>5, ReadAppend
    <2>7. Reading(t) = EndLine(Reading(s))
        BY <1>2, <2>1, <2>6 DEF LineEnded, ReadToken
    <2>8. PICK r : r = Reading(s)
        OBVIOUS
    <2>9. EndLine(EndLine(r)) = EndLine(r) /\ EndLine(r) = [lines |-> EndLine(r).lines, line |-> <<>>]
        BY DEF EndLine
    <2> QED
        BY <2>7, <2>8, <2>9
<1> QED
    BY <1>1, <1>2

(* A block stands at the start, or after the blank line that writeBlock    *)
(* put before it: a newline where no line had begun.                       *)
BlockAt(t, i) == i = 1 \/ (t[i - 1] = "nl" /\ (i = 2 \/ t[i - 2] \in Breaks))

WellEnded(t) == LineEnded(t) /\ \A i \in DOMAIN t : t[i] \in Managed => BlockAt(t, i)

LEMMA TextAfter ==
    ASSUME NEW t \in Seq(Tokens), NEW c \in 1 .. Len(t), NEW l, l = Len(t) - c,
           NEW z, z = SubSeq(t, c + 1, Len(t))
    PROVE  z \in Seq(Tokens) /\ l \in Nat /\ Len(z) = l /\ \A i \in 1 .. l : z[i] = t[i + c]
<1>1. PICK n \in Nat : n = Len(t)
    OBVIOUS
<1>2. DOMAIN t = 1 .. n /\ c \in Nat /\ 1 <= c /\ c <= n /\ l = n - c /\ l \in Nat
    BY <1>1
<1>3. \A i \in c + 1 .. n : t[i] \in Tokens
    BY <1>2
<1>4. c + 1 \in Int /\ n \in Int /\ n - (c + 1) + 1 = l
    BY <1>2
<1>5. z = SubSeq(t, c + 1, n)
    BY <1>1
<1>6. /\ z \in Seq(Tokens) /\ Len(z) = IF c + 1 <= n THEN n - (c + 1) + 1 ELSE 0
      /\ \A i \in 1 .. n - (c + 1) + 1 : z[i] = t[(c + 1) + i - 1]
    BY <1>3, <1>4, <1>5, SubSeqProperties
<1>7. Len(z) = l
    <2>1. Len(z) = IF c + 1 <= n THEN n - (c + 1) + 1 ELSE 0
        BY <1>6
    <2> QED
        BY <1>2, <1>4, <2>1
<1>8. \A i \in 1 .. l : z[i] = t[i + c]
    <2>1. TAKE i \in 1 .. l
    <2>2. i \in 1 .. n - (c + 1) + 1 /\ (c + 1) + i - 1 = i + c
        BY <1>2, <1>4
    <2> QED
        BY <1>6, <2>2
<1> QED
    BY <1>2, <1>6, <1>7, <1>8

(* Where the text before a block is cut: before the newline of writeBlock. *)
CutBefore(c) == IF c = 1 THEN 0 ELSE c - 2

(* y, of length b, is what is left of the part of t before place c.        *)
LeftOf(t, c, b, y) ==
    /\ b \in 0 .. c - 1 /\ b \in Nat /\ y \in Seq(Tokens) /\ Len(y) = b
    /\ \A i \in 1 .. b : y[i] = t[i]
    /\ trimOneNewline(SubSeq(t, 1, c - 1)) = y /\ LineEnded(y)
    /\ Reading(SubSeq(t, 1, c)) = Reading(y)

LEMMA TextBefore ==
    ASSUME NEW t \in Seq(Tokens), WellEnded(t), NEW c \in 1 .. Len(t), t[c] \in Managed
    PROVE  \E b, y : LeftOf(t, c, b, y)
<1>1. PICK b : b = CutBefore(c)
    OBVIOUS
<1>2. PICK y : y = SubSeq(t, 1, b)
    OBVIOUS
<1> SUFFICES LeftOf(t, c, b, y)
    OBVIOUS
<1>3. PICK n \in Nat : n = Len(t)
    OBVIOUS
<1>4. DOMAIN t = 1 .. n /\ c \in Nat /\ 1 <= c /\ c <= n /\ t[c] \in Tokens /\ "nl" \in Tokens
    BY <1>3, TokenKinds
<1>5. BlockAt(t, c)
    BY <1>4 DEF WellEnded
<1>6. CASE c = 1
    <2>1. b = 0 /\ y = <<>>
        BY <1>6, <1>1, <1>2 DEF CutBefore
    <2>2. SubSeq(t, 1, c - 1) = <<>> /\ SubSeq(t, 1, c) = Append(y, t[c])
        <3>1. c - 1 = 0 /\ c = 1
            BY <1>6
        <3>2. SubSeq(t, 1, 0) = <<>>
            OBVIOUS
        <3>3. SubSeq(t, 1, 1) = <<t[1]>>
            <4>1. \A i \in 1 .. 1 : t[i] \in Tokens
                BY <1>4, <3>1
            <4>2. /\ SubSeq(t, 1, 1) \in Seq(Tokens) /\ Len(SubSeq(t, 1, 1)) = 1
                  /\ SubSeq(t, 1, 1)[1] = t[1]
                BY <4>1, SubSeqProperties
            <4>3. PICK u : u = SubSeq(t, 1, 1)
                OBVIOUS
            <4>4. u \in Seq(Tokens) /\ Len(u) = 1 /\ u[1] = t[1]
                BY <4>2, <4>3
            <4>5. u = <<u[1]>>
                BY <4>4
            <4> QED
                BY <4>3, <4>4, <4>5
        <3> QED
            BY <2>1, <3>1, <3>2, <3>3
    <2>3. LineEnded(y) /\ y \in Seq(Tokens) /\ Len(y) = 0
        BY <2>1 DEF LineEnded
    <2>4. Reading(SubSeq(t, 1, c)) = EndLine(Reading(y))
        BY <1>4, <2>2, <2>3, ReadAppend DEF ReadToken, Breaks
    <2>5. trimOneNewline(SubSeq(t, 1, c - 1)) = y
        BY <2>1, <2>2 DEF trimOneNewline
    <2>6. EndLine(Reading(y)) = Reading(y)
        BY <2>3, ReadEnded
    <2>7. b \in 0 .. c - 1 /\ b \in Nat /\ \A i \in 1 .. b : y[i] = t[i]
        BY <1>4, <2>1
    <2> QED
        BY <2>1, <2>3, <2>4, <2>5, <2>6, <2>7 DEF LeftOf
<1>7. CASE c # 1
    <2>1. b = c - 2 /\ b \in Nat /\ b + 1 = c - 1 /\ b + 2 = c /\ b \in 0 .. c - 1
        BY <1>4, <1>7, <1>1 DEF CutBefore
    <2>2. y \in Seq(Tokens) /\ Len(y) = b /\ \A i \in 1 .. b : y[i] = t[i]
        BY <1>3, <1>4, <1>2, <2>1
    <2>3. t[c - 1] = "nl"
        BY <1>5, <1>7 DEF BlockAt
    <2>4. PICK s : s = SubSeq(t, 1, c - 1)
        OBVIOUS
    <2>5. s \in Seq(Tokens) /\ Len(s) = b + 1 /\ s = Append(y, "nl") /\ s[b + 1] = "nl"
        <3>1. s \in Seq(Tokens) /\ Len(s) = b + 1 /\ \A i \in 1 .. b + 1 : s[i] = t[i]
            BY <1>3, <1>4, <2>1, <2>4
        <3>2. s[b + 1] = "nl"
            BY <2>1, <2>3, <3>1
        <3>3. s = Append(y, "nl")
            <4>1. PICK u : u = Append(y, "nl")
                OBVIOUS
            <4>2. u \in Seq(Tokens) /\ Len(u) = b + 1 /\ u[b + 1] = "nl" /\ \A i \in 1 .. b : u[i] = y[i]
                <5>1. y \in Seq(Tokens) /\ Len(y) = b /\ "nl" \in Tokens
                    BY <1>4, <2>2
                <5>2. /\ u \in Seq(Tokens) /\ Len(u) = Len(y) + 1 /\ u[Len(y) + 1] = "nl"
                      /\ \A i \in 1 .. Len(y) : u[i] = y[i]
                    BY <4>1, <5>1, AppendProperties
                <5> QED
                    BY <5>1, <5>2
            <4>3. \A i \in 1 .. b + 1 : i \in 1 .. b \/ i = b + 1
                BY <2>1
            <4>4. \A i \in 1 .. b + 1 : s[i] = u[i]
                BY <2>2, <3>1, <3>2, <4>2, <4>3
            <4>5. Len(s) = Len(u) /\ \A i \in 1 .. Len(s) : s[i] = u[i]
                BY <3>1, <4>2, <4>4
            <4>6. s \in Seq(Tokens) /\ u \in Seq(Tokens)
                BY <3>1, <4>2
            <4> QED
                BY <4>1, <4>5, <4>6, SeqEqual
        <3> QED
            BY <3>1, <3>2, <3>3
    <2>6. trimOneNewline(s) = y
        <3>1. s # <<>> /\ Last(s) = "nl"
            <4>1. s \in Seq(Tokens) /\ Len(s) = b + 1 /\ s[b + 1] = "nl"
                BY <2>5
            <4>2. b + 1 # 0 /\ Len(<<>>) = 0
                BY <2>1
            <4> QED
                BY <4>1, <4>2 DEF Last
        <3>2. Front(s) = y
            BY <2>1, <2>2, <2>5 DEF Front
        <3> QED
            BY <3>1, <3>2 DEF trimOneNewline
    <2>7. LineEnded(y)
        <3>1. CASE b = 0
            BY <2>2, <3>1 DEF LineEnded
        <3>2. CASE b # 0
            <4>1. c # 2 /\ b \in 1 .. b /\ c - 2 = b
                BY <2>1, <3>2
            <4>2. t[b] \in Breaks
                BY <1>5, <1>7, <4>1 DEF BlockAt
            <4> QED
                BY <2>2, <4>1, <4>2 DEF LineEnded
        <3> QED
            BY <3>1, <3>2
    <2>8. SubSeq(t, 1, c) = Append(s, t[c])
        BY <1>3, <1>4, <2>4
    <2>9. Reading(SubSeq(t, 1, c)) = EndLine(Reading(s))
        BY <1>4, <2>5, <2>8, ReadAppend DEF ReadToken, Breaks
    <2>10. Reading(s) = EndLine(Reading(y))
        BY <1>4, <2>2, <2>5, ReadAppend DEF ReadToken, Breaks
    <2> QED
        BY <2>1, <2>2, <2>4, <2>6, <2>7, <2>9, <2>10, ReadEnded DEF LeftOf
<1> QED
    BY <1>6, <1>7

(* A block taken out with the newline before it leaves what the text says  *)
(* as it was, and every line ended.                                        *)
LEMMA CutKeepsLines ==
    ASSUME NEW t \in Seq(Tokens), WellEnded(t), NEW c \in 1 .. Len(t), t[c] \in Managed,
           NEW r, r = trimOneNewline(SubSeq(t, 1, c - 1)) \o SubSeq(t, c + 1, Len(t))
    PROVE  r \in Seq(Tokens) /\ WellEnded(r) /\ Reading(r) = Reading(t)
<1>1. PICK n \in Nat : n = Len(t)
    OBVIOUS
<1>2. DOMAIN t = 1 .. n /\ c \in Nat /\ 1 <= c /\ c <= n
    BY <1>1
<1>3. \E b, y : LeftOf(t, c, b, y)
    BY TextBefore
<1>4. PICK b, y : LeftOf(t, c, b, y)
    BY <1>3
<1>5. /\ b \in 0 .. c - 1 /\ b \in Nat /\ y \in Seq(Tokens) /\ Len(y) = b
      /\ trimOneNewline(SubSeq(t, 1, c - 1)) = y /\ LineEnded(y)
      /\ Reading(SubSeq(t, 1, c)) = Reading(y)
    BY <1>4 DEF LeftOf
<1>6. \A i \in 1 .. b : y[i] = t[i]
    BY <1>4 DEF LeftOf
<1>7. PICK z : z = SubSeq(t, c + 1, Len(t))
    OBVIOUS
<1>8. PICK l : l = Len(t) - c
    OBVIOUS
<1>9. z \in Seq(Tokens) /\ l \in Nat /\ Len(z) = l
    BY <1>7, <1>8, TextAfter
<1>10. ASSUME NEW i \in 1 .. l
       PROVE  z[i] = t[i + c]
    BY <1>7, <1>8, TextAfter
<1>11. r = y \o z /\ l = n - c
    BY <1>1, <1>5, <1>7, <1>8
<1>12. r \in Seq(Tokens) /\ Len(r) = b + l /\ DOMAIN r = 1 .. b + l
    <2>1. IsJoin(r, y, z)
        BY <1>5, <1>9, <1>11, Joined
    <2>2. r \in Seq(Tokens) /\ DOMAIN r = 1 .. b + l
        BY <1>5, <1>9, <2>1 DEF IsJoin
    <2>3. Len(r) = b + l
        BY <1>5, <1>9, <1>11, ConcatProperties
    <2> QED
        BY <2>2, <2>3
<1>13. \A i \in 1 .. b : r[i] = t[i]
    <2>1. IsJoin(r, y, z)
        BY <1>5, <1>9, <1>11, Joined
    <2>2. \A i \in 1 .. b + l : r[i] = IF i <= b THEN y[i] ELSE z[i - b]
        BY <1>5, <1>9, <2>1 DEF IsJoin
    <2>3. TAKE i \in 1 .. b
    <2>4. i \in 1 .. b + l /\ i <= b
        BY <1>5, <1>9
    <2> QED
        BY <1>6, <2>2, <2>4
<1>14. \A d \in 1 .. l : r[b + d] = t[d + c]
    <2>1. IsJoin(r, y, z)
        BY <1>5, <1>9, <1>11, Joined
    <2>2. \A i \in 1 .. b + l : r[i] = IF i <= b THEN y[i] ELSE z[i - b]
        BY <1>5, <1>9, <2>1 DEF IsJoin
    <2>3. TAKE d \in 1 .. l
    <2>4. b + d \in 1 .. b + l /\ ~(b + d <= b) /\ (b + d) - b = d
        BY <1>5, <1>9
    <2> QED
        BY <1>10, <2>2, <2>4
<1>15. Reading(r) = Reading(t)
    <2>1. PICK p : p = SubSeq(t, 1, c)
        OBVIOUS
    <2>2. p \in Seq(Tokens) /\ Len(p) = c /\ \A i \in 1 .. c : p[i] = t[i]
        BY <1>1, <1>2, <2>1
    <2>3. PICK q : q = p \o z
        OBVIOUS
    <2>4. IsJoin(q, p, z)
        BY <1>9, <2>2, <2>3, Joined
    <2>5. q \in Seq(Tokens) /\ Len(q) = c + l
        BY <1>9, <2>2, <2>4 DEF IsJoin
    <2>6. \A i \in 1 .. c + l : q[i] = IF i <= c THEN p[i] ELSE z[i - c]
        BY <1>9, <2>2, <2>4 DEF IsJoin
    <2>7. c + l = n
        BY <1>2, <1>11
    <2>8. \A i \in 1 .. n : q[i] = t[i]
        <3>1. TAKE i \in 1 .. n
        <3>2. CASE i <= c
            BY <1>2, <2>2, <2>6, <2>7, <3>2
        <3>3. CASE ~(i <= c)
            <4>1. i - c \in 1 .. l /\ (i - c) + c = i /\ i \in 1 .. c + l
                BY <1>2, <1>11, <3>3
            <4> QED
                BY <1>10, <2>6, <3>3, <4>1
        <3> QED
            BY <3>2, <3>3
    <2>9. Len(q) = Len(t) /\ \A i \in 1 .. Len(q) : q[i] = t[i]
        BY <1>1, <2>5, <2>7, <2>8
    <2>10. q = t
        BY <2>5, <2>9, SeqEqual
    <2>11. Reading(p \o z) = Reading(y \o z)
        BY <1>5, <1>9, <2>1, <2>2, ReadSame
    <2> QED
        BY <1>11, <2>3, <2>10, <2>11
<1>16. LineEnded(r)
    <2>1. CASE l = 0
        <3>1. z = <<>>
            BY <1>9, <2>1
        <3>2. y \o <<>> = y
            BY <1>5
        <3> QED
            BY <1>5, <1>11, <3>1, <3>2
    <2>2. CASE l # 0
        <3>1. l \in 1 .. l /\ l + c = n /\ n # 0
            BY <1>2, <1>9, <1>11, <2>2
        <3>2. r[b + l] = t[n]
            BY <1>14, <3>1
        <3>3. t[n] \in Breaks
            BY <1>1, <3>1 DEF WellEnded, LineEnded
        <3> QED
            BY <1>12, <3>2, <3>3 DEF LineEnded
    <2> QED
        BY <2>1, <2>2
<1>17. ASSUME NEW i \in DOMAIN r, r[i] \in Managed
       PROVE  BlockAt(r, i)
    <2>1. i \in 1 .. b + l /\ i \in Nat
        <3>1. i \in 1 .. b + l
            BY <1>12
        <3> QED
            BY <1>5, <1>9, <3>1
    <2>2. CASE i <= b
        <3>1. i \in 1 .. b /\ i \in DOMAIN t
            BY <1>2, <1>5, <2>1, <2>2
        <3>2. BlockAt(t, i)
            BY <1>13, <1>17, <3>1 DEF WellEnded
        <3>3. (i # 1 => i - 1 \in 1 .. b) /\ (i # 1 /\ i # 2 => i - 2 \in 1 .. b)
            BY <1>5, <2>1, <2>2
        <3> QED
            BY <1>13, <3>2, <3>3 DEF BlockAt
    <2>3. CASE ~(i <= b)
        <3>1. PICK d : d = i - b
            OBVIOUS
        <3>2. d \in 1 .. l /\ d \in Nat /\ d >= 1 /\ i = b + d
            <4>1. b \in Nat /\ l \in Nat /\ i \in Nat /\ i <= b + l
                BY <1>5, <1>9, <2>1
            <4> QED
                BY <2>3, <3>1, <4>1
        <3>3. d + c \in DOMAIN t /\ d + c # 1
            BY <1>2, <1>11, <3>2
        <3>4. t[d + c] \in Managed
            BY <1>14, <1>17, <3>2
        <3>5. BlockAt(t, d + c)
            BY <3>3, <3>4 DEF WellEnded
        <3>6. t[(d + c) - 1] = "nl" /\ (d + c = 2 \/ t[(d + c) - 2] \in Breaks)
            BY <3>3, <3>5 DEF BlockAt
        <3>7. d # 1
            <4> SUFFICES ASSUME d = 1 PROVE FALSE
                OBVIOUS
            <4>1. (d + c) - 1 = c
                BY <1>2
            <4> QED
                BY <3>6, <4>1, TokenKinds
        <3>8. d - 1 \in 1 .. l /\ (d - 1) + c = (d + c) - 1 /\ b + (d - 1) = i - 1
            BY <1>2, <1>5, <1>9, <3>2, <3>7
        <3>9. r[i - 1] = "nl"
            BY <1>14, <3>6, <3>8
        <3>10. CASE d = 2
            <4>1. CASE b = 0
                <5>1. i = 2
                    BY <3>2, <3>10, <4>1
                <5> QED
                    BY <3>9, <5>1 DEF BlockAt
            <4>2. CASE b # 0
                <5>1. y # <<>> /\ b \in 1 .. b /\ i - 2 = b
                    BY <1>5, <3>2, <3>10, <4>2
                <5>2. y[b] \in Breaks
                    BY <1>5, <5>1 DEF LineEnded
                <5> QED
                    BY <1>6, <1>13, <3>9, <5>1, <5>2 DEF BlockAt
            <4> QED
                BY <4>1, <4>2
        <3>11. CASE d # 2
            <4>1. d - 2 \in 1 .. l /\ (d - 2) + c = (d + c) - 2 /\ b + (d - 2) = i - 2 /\ d + c # 2
                BY <1>2, <1>5, <1>9, <3>2, <3>7, <3>11
            <4>2. r[i - 2] \in Breaks
                BY <1>14, <3>6, <4>1
            <4> QED
                BY <3>9, <4>2 DEF BlockAt
        <3> QED
            BY <3>10, <3>11
    <2> QED
        BY <2>2, <2>3
<1> QED
    BY <1>12, <1>15, <1>16, <1>17 DEF WellEnded

(* The text of f says the same as t and has all its lines ended.           *)
SaysAs(f, t) == f.text \in Seq(Tokens) /\ WellEnded(f.text) /\ Reading(f.text) = Reading(t)

LEMMA NothingEnded == WellEnded(<<>>) /\ <<>> \in Seq(Tokens)
BY DEF WellEnded, LineEnded

LEMMA RemovedLines ==
    ASSUME NEW f, TextOK(f.text), WellEnded(f.text), NEW name, NEW mark \in Managed
    PROVE  SaysAs(removeBlockMarked(f, name, mark), f.text)
<1>1. PICK k : k = removeBlockMarked(f, name, mark)
    OBVIOUS
<1>2. CASE NoBlock(f.text, mark)
    <2>1. k = f
        BY <1>1, <1>2, NothingToRemove
    <2> QED
        BY <1>1, <2>1 DEF SaysAs, TextOK
<1>3. CASE ~NoBlock(f.text, mark)
    <2>1. PICK t : t = f.text
        OBVIOUS
    <2>2. PICK a : a = IndexOf(t, mark)
        OBVIOUS
    <2>3. a \in 1 .. Len(t) /\ t[a] = mark /\ t \in Seq(Tokens)
        BY <1>3, <2>1, <2>2, BlockFound DEF TextOK
    <2>4. PICK r : r = trimOneNewline(SubSeq(t, 1, a - 1)) \o SubSeq(t, a + 1, Len(t))
        OBVIOUS
    <2>5. r \in Seq(Tokens) /\ WellEnded(r) /\ Reading(r) = Reading(t)
        <3>1. t \in Seq(Tokens) /\ WellEnded(t) /\ a \in 1 .. Len(t) /\ t[a] \in Managed
            BY <2>1, <2>3
        <3> QED
            BY <2>4, <3>1, CutKeepsLines
    <2>6. k = IF name \in Standalone /\ ToSet(r) \subseteq {"nl"} THEN Absent ELSE Text(r)
        BY <1>1, <1>3, <2>1, <2>2, <2>4, HoldsBlock DEF removeBlockMarked
    <2>7. CASE k = Text(r)
        BY <1>1, <2>1, <2>5, <2>7 DEF SaysAs, Text
    <2>8. CASE k = Absent /\ Blank(r)
        <3>1. Reading(t) = Reading(<<>>)
            BY <2>5, <2>8, ReadBlank, ReadNothing
        <3> QED
            BY <1>1, <2>1, <2>8, <3>1, NothingEnded DEF SaysAs, Absent
    <2> QED
        BY <2>6, <2>7, <2>8 DEF Blank
<1> QED
    BY <1>2, <1>3

(* What follows a text with every line ended.                              *)
LEMMA ReadTwoMore ==
    ASSUME NEW t \in Seq(Tokens), NEW x \in Tokens, NEW y \in Tokens
    PROVE  /\ t \o <<x, y>> = Append(Append(t, x), y) /\ t \o <<x, y>> \in Seq(Tokens)
           /\ Reading(t \o <<x, y>>) = ReadToken(ReadToken(Reading(t), x), y)
<1>1. t \o <<x, y>> = Append(Append(t, x), y)
    OBVIOUS
<1>2. Append(t, x) \in Seq(Tokens) /\ Append(Append(t, x), y) \in Seq(Tokens)
    OBVIOUS
<1> QED
    BY <1>1, <1>2, ReadAppend

(* Two tokens at the end, the second of which ends the line.               *)
LEMMA TwoMoreEnded ==
    ASSUME NEW t \in Seq(Tokens), WellEnded(t), NEW x \in Tokens \ Managed, NEW y \in Breaks,
           y \in Managed => x = "nl" /\ t # <<>>
    PROVE  WellEnded(t \o <<x, y>>)
<1>1. y \in Tokens /\ x \in Tokens
    BY TokenKinds DEF Breaks
<1>2. PICK r : r = t \o <<x, y>>
    OBVIOUS
<1>3. PICK n \in Nat : n = Len(t)
    OBVIOUS
<1>4. PICK w : w = <<x, y>>
    OBVIOUS
<1>5. w \in Seq(Tokens) /\ Len(w) = 2 /\ w[1] = x /\ w[2] = y
    BY <1>1, <1>4
<1>6. IsJoin(r, t, w)
    BY <1>2, <1>4, <1>5, Joined
<1>7. r \in Seq(Tokens) /\ DOMAIN r = 1 .. n + 2
    BY <1>3, <1>5, <1>6 DEF IsJoin
<1>8. \A i \in 1 .. n + 2 : r[i] = IF i <= n THEN t[i] ELSE w[i - n]
    BY <1>3, <1>5, <1>6 DEF IsJoin
<1>9. Len(r) = n + 2
    BY <1>2, <1>3, <1>4, <1>5, ConcatProperties
<1>10. r[n + 1] = x /\ r[n + 2] = y
    BY <1>3, <1>5, <1>8
<1>11. \A i \in 1 .. n : r[i] = t[i]
    BY <1>3, <1>8
<1>12. LineEnded(r)
    BY <1>9, <1>10 DEF LineEnded
<1>13. ASSUME NEW i \in DOMAIN r, r[i] \in Managed
       PROVE  BlockAt(r, i)
    <2>1. i \in 1 .. n + 2 /\ i \in Nat
        BY <1>3, <1>7
    <2>2. i # n + 1
        BY <1>10, <1>13
    <2>3. CASE i <= n
        <3>1. i \in 1 .. n /\ DOMAIN t = 1 .. n
            BY <1>3, <2>1, <2>3
        <3>2. BlockAt(t, i)
            BY <1>11, <1>13, <3>1 DEF WellEnded
        <3>3. (i # 1 => i - 1 \in 1 .. n) /\ (i # 1 /\ i # 2 => i - 2 \in 1 .. n)
            BY <1>3, <2>1, <2>3
        <3> QED
            BY <1>11, <3>2, <3>3 DEF BlockAt
    <2>4. CASE i = n + 2
        <3>1. x = "nl" /\ t # <<>>
            BY <1>10, <1>13, <2>4
        <3>2. n \in 1 .. n /\ i - 1 = n + 1 /\ i - 2 = n
            BY <1>3, <2>4, <3>1
        <3>3. t[n] \in Breaks
            BY <1>3, <3>1 DEF WellEnded, LineEnded
        <3> QED
            BY <1>10, <1>11, <3>1, <3>2, <3>3 DEF BlockAt
    <2> QED
        BY <1>3, <2>1, <2>2, <2>3, <2>4
<1> QED
    BY <1>2, <1>12, <1>13 DEF WellEnded

LEMMA WrittenLines ==
    ASSUME NEW f, f.text \in Seq(Tokens), WellEnded(f.text)
    PROVE  SaysAs(writeBlock(f), f.text)
<1>1. CASE Holds(f, "block")
    BY <1>1 DEF writeBlock, SaysAs
<1>2. CASE ~Holds(f, "block")
    <2>1. PICK t : t = f.text
        OBVIOUS
    <2>2. t \in Seq(Tokens) /\ WellEnded(t) /\ LineEnded(t)
        BY <2>1 DEF WellEnded
    <2>3. writeBlock(f).text = IF t = <<>> THEN <<"block">> ELSE t \o <<"nl", "block">>
        BY <1>2, <2>1 DEF writeBlock, appendBlock, Text
    <2>4. "nl" \in Tokens \ Managed /\ "nl" \in Breaks /\ "block" \in Breaks /\ "block" \in Tokens
        BY TokenKinds DEF Breaks, Managed
    <2>5. EndLine(Reading(t)) = Reading(t)
        BY <2>2, ReadEnded
    <2>6. CASE t = <<>>
        <3>1. PICK u : u = Append(t, "block")
            OBVIOUS
        <3>2. u \in Seq(Tokens) /\ Len(u) = 1 /\ u[1] = "block" /\ u = <<"block">>
            BY <2>2, <2>4, <2>6, <3>1
        <3>3. Reading(u) = Reading(t)
            BY <2>2, <2>4, <2>5, <3>1, ReadAppend DEF ReadToken
        <3>4. WellEnded(u)
            <4>1. DOMAIN u = {1}
                BY <3>2
            <4> QED
                BY <2>4, <3>2, <4>1 DEF WellEnded, LineEnded, BlockAt
        <3> QED
            BY <2>1, <2>3, <2>6, <3>2, <3>3, <3>4 DEF SaysAs
    <2>7. CASE t # <<>>
        <3>1. WellEnded(t \o <<"nl", "block">>)
            BY <2>2, <2>4, <2>7, TwoMoreEnded
        <3>2. /\ t \o <<"nl", "block">> \in Seq(Tokens)
              /\ Reading(t \o <<"nl", "block">>) = ReadToken(ReadToken(Reading(t), "nl"), "block")
            BY <2>2, <2>4, ReadTwoMore
        <3>3. ReadToken(ReadToken(Reading(t), "nl"), "block") = Reading(t)
            BY <2>4, <2>5 DEF ReadToken
        <3> QED
            BY <2>1, <2>3, <2>7, <3>1, <3>2, <3>3 DEF SaysAs
    <2> QED
        BY <2>6, <2>7
<1> QED
    BY <1>1, <1>2

LEMMA AppendedLine ==
    ASSUME NEW t \in Seq(Tokens), WellEnded(t), NEW r, r = t \o <<"b", "nl">>
    PROVE  r \in Seq(Tokens) /\ WellEnded(r) /\ Lines(r) = Append(Lines(t), <<"b">>)
<1>1. "b" \in Tokens \ Managed /\ "nl" \in Breaks /\ "b" \notin Breaks /\ "nl" \notin Managed
    BY TokenKinds DEF Breaks
<1>2. "nl" \in Tokens
    BY TokenKinds
<1>3. WellEnded(r)
    BY <1>1, TwoMoreEnded
<1>4. r \in Seq(Tokens) /\ Reading(r) = ReadToken(ReadToken(Reading(t), "b"), "nl")
    BY <1>1, <1>2, ReadTwoMore
<1>5. PICK s : s = Reading(t)
    OBVIOUS
<1>6. s = [lines |-> s.lines, line |-> <<>>] /\ EndLine(s) = s
    BY <1>5, ReadEnded DEF WellEnded
<1>7. PICK l : l = s.lines
    OBVIOUS
<1>8. ReadToken(s, "b") = [lines |-> l, line |-> <<"b">>]
    <2>1. s = [lines |-> l, line |-> <<>>]
        BY <1>6, <1>7
    <2>2. Append(<<>>, "b") = <<"b">>
        OBVIOUS
    <2> QED
        BY <1>1, <2>1, <2>2 DEF ReadToken
<1>9. Reading(r) = [lines |-> Append(l, <<"b">>), line |-> <<>>]
    <2>1. <<"b">> # <<>>
        OBVIOUS
    <2> QED
        BY <1>1, <1>4, <1>5, <1>8, <2>1 DEF ReadToken, EndLine
<1>10. Lines(r) = Append(l, <<"b">>)
    BY <1>9 DEF Lines, EndLine
<1>11. Lines(t) = l
    BY <1>5, <1>6, <1>7 DEF Lines
<1> QED
    BY <1>3, <1>4, <1>10, <1>11

(* The text of every file has its lines ended, and says what it should.    *)
LinesInv ==
    /\ DOMAIN lines = Candidates
    /\ \A n \in Candidates : WellEnded(file[n].text) /\ Lines(file[n].text) = lines[n]

(* Start-up files are found with their last line ended, and a block at     *)
(* their start or after a blank line.                                      *)
FoundEnded == \A m \in Machines : \A n \in Candidates : WellEnded(m.file[n].text)

LEMMA LinesInit ==
    ASSUME FoundEnded, Init
    PROVE  LinesInv
<1>1. PICK m \in Machines : file = m.file
    BY DEF Init
<1>2. \A n \in Candidates : WellEnded(file[n].text)
    BY <1>1 DEF FoundEnded
<1>3. lines = [n \in Candidates |-> Lines(file[n].text)]
    BY DEF Init
<1> QED
    BY <1>2, <1>3 DEF LinesInv

LEMMA CommandsKeepLines ==
    ASSUME FilesOK(file), NEW n \in Candidates, WellEnded(file[n].text)
    PROVE  /\ SaysAs(StartupInstall(file)[n], file[n].text)
           /\ SaysAs(StartupRemove(file)[n], file[n].text)
<1>1. TextOK(file[n].text) /\ {"block", "former"} \subseteq Managed
    BY DEF FilesOK, Managed
<1>2. SaysAs(StartupInstall(file)[n], file[n].text)
    <2>1. PICK f : f = removeBlockMarked(file[n], n, "former")
        OBVIOUS
    <2>2. removeLegacyBlock(file)[n] = f
        BY <2>1 DEF removeLegacyBlock
    <2>3. SaysAs(f, file[n].text)
        BY <1>1, <2>1, RemovedLines
    <2>4. StartupInstall(file)[n] \in {f, writeBlock(f)}
        BY <2>2 DEF StartupInstall
    <2>5. SaysAs(writeBlock(f), f.text)
        BY <2>3, WrittenLines DEF SaysAs
    <2> QED
        BY <2>3, <2>4, <2>5 DEF SaysAs
<1>3. SaysAs(StartupRemove(file)[n], file[n].text)
    <2>1. PICK f : f = removeBlockMarked(file[n], n, "block")
        OBVIOUS
    <2>2. StartupRemove(file)[n] = removeBlockMarked(f, n, "former")
        BY <2>1 DEF StartupRemove, removeLegacyBlock
    <2>3. SaysAs(f, file[n].text) /\ TextOK(f.text)
        BY <1>1, <2>1, RemovedLines, BlockRemoved
    <2>4. WellEnded(f.text)
        BY <2>3 DEF SaysAs
    <2>5. SaysAs(removeBlockMarked(f, n, "former"), f.text)
        BY <1>1, <2>3, <2>4, RemovedLines
    <2> QED
        BY <2>2, <2>3, <2>5 DEF SaysAs
<1> QED
    BY <1>2, <1>3

LEMMA LinesNext ==
    ASSUME FileInv, LinesInv, [Next]_vars
    PROVE  LinesInv'
<1>1. FilesOK(file) /\ DOMAIN file = Candidates
    BY DEF FileInv
<1>2. CASE UNCHANGED <<clean, lines>> /\ file' \in {file, StartupInstall(file), StartupRemove(file)}
    <2>1. ASSUME NEW n \in Candidates
          PROVE  WellEnded(file'[n].text) /\ Lines(file'[n].text) = Lines(file[n].text)
        <3>1. WellEnded(file[n].text)
            BY DEF LinesInv
        <3>2. file'[n] = file[n] \/ SaysAs(file'[n], file[n].text)
            BY <1>1, <1>2, <3>1, CommandsKeepLines
        <3> QED
            BY <3>1, <3>2 DEF SaysAs, Lines
    <2> QED
        BY <1>2, <2>1 DEF LinesInv
<1>3. CASE AppendLine
    <2>1. PICK n \in Candidates :
             /\ file' = [file EXCEPT ![n] =
                       Text(@.text \o (IF @.text # <<>> /\ Last(@.text) \notin {"nl", "block", "former"}
                                         THEN <<"nl">> ELSE <<>>) \o <<"b", "nl">>)]
             /\ lines' = [lines EXCEPT ![n] = Append(@, <<"b">>)]
        BY <1>3 DEF AppendLine
    <2>2. PICK t : t = file[n].text
        OBVIOUS
    <2>3. t \in Seq(Tokens) /\ WellEnded(t) /\ Lines(t) = lines[n]
        BY <1>1, <2>2 DEF LinesInv, FilesOK, TextOK
    <2>4. ~(t # <<>> /\ Last(t) \notin {"nl", "block", "former"})
        BY <2>3 DEF WellEnded, LineEnded, Breaks, Managed, Last
    <2>5. file'[n] = Text(t \o <<>> \o <<"b", "nl">>)
        BY <1>1, <2>1, <2>2, <2>4
    <2>6. t \o <<>> = t
        BY <2>3
    <2>7. PICK r : r = t \o <<"b", "nl">>
        OBVIOUS
    <2>8. file'[n].text = r
        BY <2>5, <2>6, <2>7 DEF Text
    <2>9. WellEnded(r) /\ Lines(r) = Append(Lines(t), <<"b">>)
        BY <2>3, <2>7, AppendedLine
    <2>10. DOMAIN lines' = Candidates /\ lines'[n] = Append(lines[n], <<"b">>)
        BY <2>1 DEF LinesInv
    <2>11. \A m \in Candidates \ {n} : file'[m] = file[m] /\ lines'[m] = lines[m]
        BY <1>1, <2>1 DEF LinesInv
    <2> QED
        BY <2>3, <2>8, <2>9, <2>10, <2>11 DEF LinesInv
<1> QED
    BY <1>2, <1>3, FileSteps

-----------------------------------------------------------------------------
(* Theorems *)

(* The inductive invariant: where a command is; what it has in hand is     *)
(* what the file holds, but for our own hooks; what the steps behind it    *)
(* have achieved; and that its backup is still there.                      *)
SetupInv == ControlInv /\ ForeignInv /\ WiredInv /\ BackInv /\ FileInv

(* The invariant holds through every step of the commands, Claude and the  *)
(* user (setup.go, uninstall.go, settings_edit.go, startupcheck.go).       *)
THEOREM SetupInvariant == Spec => []SetupInv
<1>1. Init => SetupInv
    BY ControlInit, ForeignInit, WiredInit, BackInit, FileInit DEF SetupInv
<1>2. SetupInv /\ [Next]_vars => SetupInv'
    BY ControlNext, ForeignNext, WiredNext, BackNext, FileNext DEF SetupInv
<1> QED
    BY <1>1, <1>2, PTL DEF Spec

(* Whatever commands run, fail or are interrupted, on whatever machine,    *)
(* the hooks and rules of the user and of Claude stay in the settings file *)
(* where they were (settings_edit.go, INVARIANT I-9).                      *)
THEOREM ForeignHolds == Spec => []ForeignKept
<1>1. SetupInv => ForeignKept
    BY DEF SetupInv, ForeignInv, ForeignKept
<1> QED
    BY <1>1, SetupInvariant, PTL

(* However often setup runs an event has one Intenter hook at most, and    *)
(* after one that succeeds every required event has one and none of the    *)
(* former product, provided that no executable is at a path with a blank   *)
(* in it, which OwnedByAnyIntenter does not recognise.                     *)
THEOREM OneHookHolds == Spaced = {} => (Spec => []OneHook)
<1> SUFFICES ASSUME Spaced = {} PROVE Spec => []OneHook
    OBVIOUS
<1>1. Init => OneInv
    BY OneInit
<1>2. SetupInv /\ OneInv /\ [Next]_vars => OneInv'
    BY OneNext DEF SetupInv
<1>3. SetupInv /\ OneInv => OneHook
    <2> SUFFICES ASSUME SetupInv, OneInv PROVE OneHook
        OBVIOUS
    <2>1. \A e \in Events : \A p, q \in OursAt(e) : p = q
        BY DEF OneInv, OneEach, OnlyOne, OursAt
    <2>2. ASSUME proc.op = "setup", proc.result = "done", ~proc.opt.dry
          PROVE  Wired(settings)
        BY <2>2 DEF SetupInv, WiredInv, Wires
    <2>3. ASSUME Wired(settings), NEW e \in Required
          PROVE  OursAt(e) # {} /\ ~HasHook(settings, e, ownedByLegacy)
        BY <2>3 DEF Wired, OursAt, HasHook, ownedByLegacy
    <2> QED
        BY <2>1, <2>2, <2>3 DEF OneHook
<1> QED
    BY <1>1, <1>2, <1>3, SetupInvariant, PTL DEF Spec

(* After an uninstall that reports success no hook, skill or start-up      *)
(* block is left, of this product or the former one, whatever was          *)
(* interrupted before (uninstall.go), under the same proviso.              *)
THEOREM NothingLeftHolds == Spaced = {} => (Spec => []NothingLeft)
<1> SUFFICES ASSUME Spaced = {} PROVE Spec => []NothingLeft
    OBVIOUS
<1>1. SetupInv => NothingLeft
    <2> SUFFICES ASSUME SetupInv, proc.op = "uninstall", proc.result = "done"
                 PROVE  /\ \A e \in Events : ~HasHook(settings, e, LAMBDA h : h.kind # "user")
                        /\ skill = "none"
                        /\ \A n \in Candidates : ToSet(file[n].text) \cap Managed = {}
        BY DEF NothingLeft
    <2>1. Unwired(settings) /\ TreeOK(settings)
        BY DEF SetupInv, WiredInv, Unwires, ForeignInv
    <2>2. \A e \in Events : \A p \in DOMAIN settings.hooks[e] : settings.hooks[e][p].entry.kind = "user"
        <3>1. TAKE e \in Events
        <3>2. TAKE p \in DOMAIN settings.hooks[e]
        <3>3. ~OursOrLegacy(settings.hooks[e][p].entry)
            BY <2>1 DEF Unwired
        <3>4. settings.hooks[e][p].entry.kind \in {"user", "intenter", "agentguard"}
            BY <2>1 DEF TreeOK, GroupsOK
        <3> QED
            BY <3>3, <3>4, Dropped
    <2>3. \A e \in Events : ~HasHook(settings, e, LAMBDA h : h.kind # "user")
        BY <2>2 DEF HasHook
    <2>4. skill = "none" /\ Unmarked(file)
        BY DEF SetupInv, FileInv, Unskills, Unmarks
    <2>5. \A n \in Candidates : ToSet(file[n].text) \cap Managed = {}
        BY <2>4 DEF Unmarked, NoBlock, ToSet
    <2> QED
        BY <2>3, <2>4, <2>5
<1> QED
    BY <1>1, SetupInvariant, PTL

(* The settings file is written only while the copy taken of it by the     *)
(* same command is among the backups (backupFile, pruneBackups).           *)
THEOREM BackupHolds == Spec => BackedUp
<1>1. SetupInv /\ [Next]_vars =>
        [proc.pc = "write" /\ settings' # settings =>
            \E k \in DOMAIN backups : backups[k] = proc.saved]_vars
    BY DEF SetupInv, BackInv, Saves, InBackups
<1> QED
    BY <1>1, SetupInvariant, PTL DEF Spec, BackedUp

(* Neither database is lost or replaced by the other, and data goes only   *)
(* by a purge, once the hooks are out (legacy.go, uninstall.go).           *)
THEOREM DataHolds == Spec => DataKept
<1> DEFINE Purged ==
               /\ proc.op = "uninstall" /\ proc.opt.purge /\ proc.pc = "purge"
               /\ \A e \in Events : ~HasHook(settings, e, OursOrLegacy)
           Kept ==
               /\ db # "none" => db' = db
               /\ "agentguard.db" \in oldDir \cup newDir =>
                   db' = "former" \/ "agentguard.db" \in oldDir' \cup newDir'
<1>1. SetupInv /\ [Next]_vars => [Purged \/ Kept]_vars
    <2> SUFFICES ASSUME SetupInv, Next PROVE Purged \/ Kept
        OBVIOUS
    <2>1. ASSUME db' = db, oldDir' = oldDir, newDir \subseteq newDir'
          PROVE  Kept
        BY <2>1
    <2>2. CASE RunSetup \/ RunUninstall \/ RunRegister \/ RunRemoveRule
        BY <2>1, <2>2 DEF RunSetup, RunUninstall, RunRegister, RunRemoveRule, Begin, world
    <2>3. CASE \/ Detect \/ ReadTree \/ SkipTree \/ WriteTree \/ MigrateNothing \/ MigrateFails
               \/ InstallService \/ SelfTest \/ RecordMeta \/ RemoveSkill \/ StopDaemon \/ Register
               \/ ReadRule \/ WriteRule \/ StepFails \/ Interrupt
        BY <2>1, <2>3 DEF Detect, ReadTree, SkipTree, WriteTree, MigrateNothing, MigrateFails,
           InstallService, SelfTest, RecordMeta, RemoveSkill, StopDaemon, Register, ReadRule, WriteRule,
           StepFails, Interrupt, world
    <2>4. CASE Backup \/ InstallSkill \/ InstallStartupCheck
        BY <2>1, <2>4 DEF Backup, InstallSkill, InstallStartupCheck, InData
    <2>5. CASE EnsureDaemon \/ RemoveStartupCheck \/ BackupRule
        BY <2>1, <2>5 DEF EnsureDaemon, RemoveStartupCheck, BackupRule, InData
    <2>6. CASE MigrateEntry
        BY <2>6 DEF MigrateEntry, InData
    <2>7. CASE RenameDatabase
        BY <2>7 DEF RenameDatabase
    <2>8. CASE OpenStorage
        BY <2>8 DEF OpenStorage, InData
    <2>9. CASE DaemonStarts
        BY <2>9 DEF DaemonStarts, InData
    <2>10. CASE Purge
        <3>1. At("uninstall", "purge") /\ UNCHANGED oldDir
            BY <2>10 DEF Purge
        <3>2. Unwired(settings)
            BY <3>1 DEF SetupInv, WiredInv, Unwires, At
        <3>3. \A e \in Events : ~HasHook(settings, e, OursOrLegacy)
            BY <3>2 DEF Unwired, HasHook
        <3>4. CASE proc.opt.purge
            BY <3>1, <3>3, <3>4 DEF At
        <3>5. CASE ~proc.opt.purge
            BY <2>1, <2>10, <3>1, <3>5 DEF Purge
        <3> QED
            BY <3>4, <3>5
    <2>11. CASE ClaudeAllows \/ AppendLine \/ BinaryMoves \/ Tick
        BY <2>1, <2>11 DEF ClaudeAllows, AppendLine, BinaryMoves, Tick, world
    <2> QED
        BY <2>2, <2>3, <2>4, <2>5, <2>6, <2>7, <2>8, <2>9, <2>10, <2>11
           DEF Next, SetupStep, RemoveStep, OtherStep
<1> QED
    BY <1>1, SetupInvariant, PTL DEF Spec, DataKept

(* Whatever a start-up file holds, with or without a final newline, any    *)
(* sequence of setups and uninstalls, cut short anywhere, that ends        *)
(* without the block leaves the text it began with, provided that nobody   *)
(* keeps a blank file where the fish drop-in goes (startupcheck.go         *)
(* writeBlock, removeBlockMarked, trimOneNewline).                         *)
THEOREM RestoredHolds == NoBlankDropIn => (Spec => []RestoredExactly)
<1> SUFFICES ASSUME NoBlankDropIn PROVE Spec => []RestoredExactly
    OBVIOUS
<1>1. Init => CleanInv
    BY CleanInit
<1>2. SetupInv /\ SetupInv' /\ CleanInv /\ [Next]_vars => CleanInv'
    BY CleanNext DEF SetupInv
<1>3. CleanInv => RestoredExactly
    <2> SUFFICES ASSUME CleanInv, NEW n \in Candidates, clean[n].known,
                        ToSet(file[n].text) \cap Managed = {}
                 PROVE  file[n].text = clean[n].text
        BY DEF RestoredExactly
    <2>1. CleanOK(n, clean[n].text, file[n].text)
        BY DEF CleanInv
    <2>2. NoBlock(file[n].text, "block")
        BY DEF NoBlock, ToSet, Managed
    <2> QED
        BY <2>1, <2>2, MarkedText DEF CleanOK
<1> QED
    BY <1>1, <1>2, <1>3, SetupInvariant, PTL DEF Spec

(* In files whose last line is ended, no setup or uninstall, in whatever   *)
(* order and cut short anywhere, and with lines appended by others around  *)
(* the block in between, changes, joins, loses or reorders a line of the   *)
(* user's (startupcheck.go writeBlock, removeBlockMarked, trimOneNewline). *)
THEOREM LinesHold == FoundEnded => (Spec => []StartupLinesKept)
<1> SUFFICES ASSUME FoundEnded PROVE Spec => []StartupLinesKept
    OBVIOUS
<1>1. Init => LinesInv
    BY LinesInit
<1>2. SetupInv /\ LinesInv /\ [Next]_vars => LinesInv'
    BY LinesNext DEF SetupInv
<1>3. LinesInv => StartupLinesKept
    BY DEF LinesInv, StartupLinesKept
<1> QED
    BY <1>1, <1>2, <1>3, SetupInvariant, PTL DEF Spec

=============================================================================
