---------------------------- MODULE DecideProofs ---------------------------
(***************************************************************************)
(* Theorems about module Decide: an approval is recognised again, and only *)
(* while what it was given for reads as it did; and whatever a line leads  *)
(* to, the floor has seen it.                                              *)
(*                                                                         *)
(* Recognition has two halves.  A resolution that was cut short by the     *)
(* time budget anywhere, in the line or in a script at any depth, is       *)
(* UNRESOLVED, so an action that may be approved is the one a longer       *)
(* budget gives as well (MoreTime, by induction over the hops that are     *)
(* still followed).  And of the remembered generated directories only      *)
(* outdated answers reach a resolution, so two evaluations in one state of *)
(* the project with no outdated answer resolve in the same context.        *)
(*                                                                         *)
(* The converse rests on the fingerprints.  They are honest: each says     *)
(* what the script or the build file it names reads (TableHonest).  And    *)
(* those of an action that may be approved are complete: they name every   *)
(* script and build the line relies on, through any number of wrappers     *)
(* (TableCovers).  A match requires them to be equal, so the text is.      *)
(*                                                                         *)
(* That the floor sees everything is about effects.  On the way from a     *)
(* command to the action they are joined with others and marked, as        *)
(* elevated or as fed by a pipe, but never lose a mark (Raised), and the   *)
(* commands inside a wrapper stay listed (Carried); the rules of the floor *)
(* only grow with both.                                                    *)
(***************************************************************************)
EXTENDS Decide, PolicyProofs

-----------------------------------------------------------------------------
(* Numbers.                                                                *)

LEMMA NumbersInduct ==
    ASSUME NEW S, 0 \in S, \A n \in Nat : n \in S => n + 1 \in S
    PROVE  Nat \subseteq S
<1> SUFFICES ASSUME ~(Nat \subseteq S) PROVE FALSE
    OBVIOUS
<1>1. Nat \ S \subseteq Nat /\ Nat \ S # {}
    OBVIOUS
<1>2. PICK m \in Nat \ S : \A n \in Nat \ S : m <= n
    BY <1>1, LeastNumber
<1>3. m # 0
    BY <1>2
<1>4. m - 1 \in Nat /\ ~(m <= m - 1)
    BY <1>2, <1>3
<1>5. m - 1 \in S
    BY <1>2, <1>4
<1>6. m \in S
    BY <1>2, <1>4, <1>5
<1> QED
    BY <1>2, <1>6

-----------------------------------------------------------------------------
(* What a status says of the parts it was made from.                       *)

\* Nothing failed, was refused or was left unexamined.
Sound(status) == status \notin {"CONTEXT_FAILED", "PARSE_FAILED", "UNRESOLVED"}

LEMMA WeakestSound ==
    ASSUME NEW S, Sound(Weakest(S))
    PROVE  \A s \in S : Sound(s)
BY DEF Weakest, Sound

LEMMA ApprovableSound ==
    ASSUME NEW status, Approvable(status)
    PROVE  Sound(status)
BY DEF Approvable, Sound

CommandRecord(o, g, s, e, t, f, i) ==
    [op |-> o, git |-> g, status |-> s, effects |-> e, targets |-> t, fps |-> f, inside |-> i]

IsCommand(c) == \E o, g, s, e, t, f, i : c = CommandRecord(o, g, s, e, t, f, i)

SameButEffects(c, d) == IsCommand(d) /\ d.status = c.status /\ d.fps = c.fps

Replaced(c, E, T) == [c EXCEPT !.effects = E, !.targets = T]

LEMMA ReplacedRecord ==
    ASSUME NEW o, NEW g, NEW s, NEW e, NEW t, NEW f, NEW i, NEW c,
           c = CommandRecord(o, g, s, e, t, f, i), NEW E, NEW T
    PROVE  Replaced(c, E, T) = CommandRecord(o, g, s, E, T, f, i)
<1> DEFINE d == [c EXCEPT !.effects = E, !.targets = T]
<1>1. /\ DOMAIN d = DOMAIN c
      /\ DOMAIN c = {"op", "git", "status", "effects", "targets", "fps", "inside"}
    BY DEF CommandRecord
<1>2. /\ d.op = o /\ d.git = g /\ d.status = s
    BY DEF CommandRecord
<1>3. /\ d.fps = f /\ d.inside = i
    BY DEF CommandRecord
<1>4. /\ d.effects = E /\ d.targets = T
    BY DEF CommandRecord
<1>5. d = [x \in DOMAIN d |-> d[x]]
    OBVIOUS
<1> HIDE DEF d
<1>6. d = CommandRecord(o, g, s, E, T, f, i)
    BY <1>1, <1>2, <1>3, <1>4, <1>5 DEF CommandRecord
<1> QED
    BY <1>6 DEF d, Replaced

LEMMA EffectsReplaced ==
    ASSUME NEW c, IsCommand(c), NEW E, NEW T
    PROVE  SameButEffects(c, [c EXCEPT !.effects = E]) /\ SameButEffects(c, Replaced(c, E, T))
<1>1. PICK o, g, s, e, t, f, i : c = CommandRecord(o, g, s, e, t, f, i)
    BY DEF IsCommand
<1>2. [c EXCEPT !.effects = E] = CommandRecord(o, g, s, E, t, f, i)
    BY <1>1 DEF CommandRecord
<1>3. Replaced(c, E, T) = CommandRecord(o, g, s, E, T, f, i)
    BY <1>1, ReplacedRecord
<1>4. \A x, y : /\ CommandRecord(o, g, s, x, y, f, i).status = s
                /\ CommandRecord(o, g, s, x, y, f, i).fps = f
    BY DEF CommandRecord
<1>5. IsCommand(CommandRecord(o, g, s, E, t, f, i)) /\ IsCommand(CommandRecord(o, g, s, E, T, f, i))
    BY DEF IsCommand
<1> QED
    BY <1>1, <1>2, <1>3, <1>4, <1>5 DEF SameButEffects

LEMMA Degraded ==
    ASSUME NEW c, IsCommand(c)
    PROVE  IsCommand(Degrade(c)) /\ ~Sound(Degrade(c).status) /\ Degrade(c).fps = c.fps
<1>1. /\ Degrade(c).status = Weakest({c.status, "UNRESOLVED"}) /\ IsCommand(Degrade(c))
      /\ Degrade(c).fps = c.fps
    <2>1. PICK o, g, s, e, t, f, i : c = CommandRecord(o, g, s, e, t, f, i)
        BY DEF IsCommand
    <2>2. Degrade(c) = CommandRecord(o, g, Weakest({c.status, "UNRESOLVED"}), e, t, f, i)
        BY <2>1 DEF Degrade, CommandRecord
    <2>3. \A x : /\ CommandRecord(o, g, x, e, t, f, i).status = x
                 /\ CommandRecord(o, g, x, e, t, f, i).fps = f
        BY DEF CommandRecord
    <2> QED
        BY <2>1, <2>2, <2>3 DEF IsCommand
<1>2. ~Sound(Weakest({c.status, "UNRESOLVED"}))
    BY DEF Weakest, Sound
<1> QED
    BY <1>1, <1>2

\* d is c after a rule that holds for every command.
Ruled(c, d) == IsCommand(d) /\ d.fps = c.fps /\ (Sound(d.status) => d.status = c.status)

LEMMA Rules ==
    ASSUME NEW req, NEW c, IsCommand(c)
    PROVE  /\ Ruled(c, ApplyRedirections(req, c))
           /\ Ruled(c, ApplyEnvironmentOverrides(req, c))
           /\ Ruled(c, ApplyStreamedInput(req, c))
           /\ Ruled(c, ApplyElevation(req, c))
<1>1. Ruled(c, ApplyRedirections(req, c))
    <2> DEFINE added == UNION {{[Effect(y, t, {}) EXCEPT !.flags = {}] :
                                    y \in RedirectionTypes(r.op), t \in TargetsFor(req, r.word)} :
                                r \in ToSet(req.cmd.redirs)}
               E == c.effects \cup added
               T == c.targets \cup {e.target : e \in added}
    <2>1. ApplyRedirections(req, c) = Replaced(c, E, T)
        BY DEF ApplyRedirections, Replaced
    <2> HIDE DEF E, T
    <2> HIDE DEF added
    <2>2. SameButEffects(c, Replaced(c, E, T))
        BY EffectsReplaced
    <2>3. /\ IsCommand(ApplyRedirections(req, c)) /\ ApplyRedirections(req, c).status = c.status
          /\ ApplyRedirections(req, c).fps = c.fps
        BY <2>1, <2>2 DEF SameButEffects
    <2> QED
        BY <2>3 DEF Ruled
<1>2. Ruled(c, c)
    BY DEF Ruled
<1>3. \A E : Ruled(c, Degrade([c EXCEPT !.effects = E]))
    <2> SUFFICES ASSUME NEW E PROVE Ruled(c, Degrade([c EXCEPT !.effects = E]))
        OBVIOUS
    <2>1. SameButEffects(c, [c EXCEPT !.effects = E])
        BY EffectsReplaced
    <2> QED
        BY <2>1, Degraded DEF Ruled, SameButEffects
<1>4. Ruled(c, ApplyEnvironmentOverrides(req, c))
    BY <1>2, Degraded DEF Ruled, ApplyEnvironmentOverrides
<1>5. Ruled(c, ApplyStreamedInput(req, c))
    BY <1>2, <1>3 DEF ApplyStreamedInput
<1>6. Ruled(c, ApplyElevation(req, c))
    BY <1>2, <1>3 DEF ApplyElevation
<1> QED
    BY <1>1, <1>4, <1>5, <1>6

\* Every script of a command was followed to its end, and so was everything
\* in it.
AllFollowed(results) ==
    \A i \in DOMAIN results :
        /\ Sound(results[i].status)
        /\ \A j \in DOMAIN results[i].commands : Sound(results[i].commands[j].status)

\* Of the rules only a failure shows in the status, and none in the prints.
LEMMA RecognizedRuled ==
    ASSUME NEW req, NEW results, NEW c, c = Absorb(DispatchCommand(req), results)
    PROVE  /\ Recognize(req, results).fps = c.fps
           /\ Sound(Recognize(req, results).status) => Sound(c.status)
<1> DEFINE redirected == ApplyRedirections(req, c)
           assigned == ApplyEnvironmentOverrides(req, redirected)
           streamed == ApplyStreamedInput(req, assigned)
           elevated == ApplyElevation(req, streamed)
<1>1. IsCommand(c)
    BY DEF IsCommand, CommandRecord, Absorb, TakeOver
<1>2. Recognize(req, results) = elevated
    BY DEF Recognize
<1>3. Ruled(c, redirected)
    BY <1>1, Rules
<1> HIDE DEF redirected
<1>4. Ruled(redirected, assigned)
    BY <1>3, Rules DEF Ruled
<1> HIDE DEF assigned
<1>5. Ruled(assigned, streamed)
    BY <1>4, Rules DEF Ruled
<1> HIDE DEF streamed
<1>6. Ruled(streamed, elevated)
    BY <1>5, Rules DEF Ruled
<1> HIDE DEF elevated
<1> QED
    BY <1>2, <1>3, <1>4, <1>5, <1>6 DEF Ruled

LEMMA RecognizedFollowed ==
    ASSUME NEW req, NEW results, Sound(Recognize(req, results).status)
    PROVE  AllFollowed(results) /\ Sound(DispatchCommand(req).status)
<1> DEFINE c == Absorb(DispatchCommand(req), results)
<1>1. Sound(c.status)
    BY RecognizedRuled
<1> HIDE DEF c
<1> DEFINE commands == UNION {ToSet(r.commands) : r \in ToSet(results)}
           statuses == {DispatchCommand(req).status} \cup {r.status : r \in ToSet(results)}
                       \cup {x.status : x \in commands}
<1>2. c.status = Weakest(statuses)
    BY DEF c, Absorb, TakeOver
<1>3. \A s \in statuses : Sound(s)
    <2> HIDE DEF statuses
    <2> QED
        BY <1>1, <1>2, WeakestSound
<1>4. ASSUME NEW i \in DOMAIN results
      PROVE  /\ Sound(results[i].status)
             /\ \A j \in DOMAIN results[i].commands : Sound(results[i].commands[j].status)
    <2>1. results[i] \in ToSet(results)
        BY DEF ToSet
    <2>2. results[i].status \in statuses
        BY <2>1
    <2>3. ASSUME NEW j \in DOMAIN results[i].commands
          PROVE  results[i].commands[j].status \in statuses
        <3>1. results[i].commands[j] \in ToSet(results[i].commands)
            BY DEF ToSet
        <3>2. results[i].commands[j] \in commands
            BY <2>1, <3>1
        <3> QED
            BY <3>2
    <2> HIDE DEF statuses
    <2> QED
        BY <1>3, <2>2, <2>3
<1>5. DispatchCommand(req).status \in statuses
    OBVIOUS
<1> QED
    BY <1>3, <1>4, <1>5 DEF AllFollowed

-----------------------------------------------------------------------------
(* Scripts of scripts.                                                     *)

IsLevels(f, top) ==
    f = [n \in 0 .. MaxDepth |-> IF n = 0 THEN top ELSE UNION {Hops(r) : r \in f[n - 1]}]

LEMMA LevelsExist ==
    ASSUME NEW top
    PROVE  \E f : IsLevels(f, top)
<1> DEFINE upTo(f, m) ==
               f = [n \in 0 .. m |-> IF n = 0 THEN top ELSE UNION {Hops(r) : r \in f[n - 1]}]
           S == {m \in Nat : \E f : upTo(f, m)}
<1>1. 0 \in S
    <2>1. upTo([n \in 0 .. 0 |-> top], 0)
        OBVIOUS
    <2> QED
        BY <2>1
<1>2. ASSUME NEW m \in Nat, m \in S
      PROVE  m + 1 \in S
    <2>1. PICK f : upTo(f, m)
        BY <1>2
    <2> DEFINE next == UNION {Hops(r) : r \in f[m]}
               g == [n \in 0 .. m + 1 |-> IF n = m + 1 THEN next ELSE f[n]]
    <2>2. \A n \in 0 .. m : g[n] = f[n]
        OBVIOUS
    <2>3. g[m + 1] = next
        OBVIOUS
    <2>4. ASSUME NEW n \in 0 .. m + 1
          PROVE  g[n] = IF n = 0 THEN top ELSE UNION {Hops(r) : r \in g[n - 1]}
        <3>1. CASE n = 0
            BY <2>1, <2>2, <3>1
        <3>2. CASE n # 0 /\ n <= m
            <4>1. n \in 0 .. m /\ n - 1 \in 0 .. m
                BY <3>2
            <4>2. g[n] = f[n] /\ g[n - 1] = f[n - 1]
                BY <2>2, <4>1
            <4>3. f[n] = UNION {Hops(r) : r \in f[n - 1]}
                BY <2>1, <3>2, <4>1
            <4> HIDE DEF g
            <4> QED
                BY <3>2, <4>2, <4>3
        <3>3. CASE n = m + 1
            <4>1. n # 0 /\ n - 1 = m /\ g[n - 1] = f[m]
                BY <3>3, <2>2
            <4> HIDE DEF g
            <4> QED
                BY <2>3, <3>3, <4>1
        <3> QED
            BY <3>1, <3>2, <3>3
    <2>5. upTo(g, m + 1)
        BY <2>4
    <2> HIDE DEF upTo, g
    <2>6. \E h : upTo(h, m + 1)
        BY <2>5
    <2> QED
        BY <2>6
<1> HIDE DEF S
<1>3. Nat \subseteq S
    BY <1>1, <1>2, NumbersInduct
<1> QED
    BY <1>3, DepthAssumption DEF S, IsLevels

LEMMA LevelsAre ==
    ASSUME NEW top
    PROVE  IsLevels(Levels(top), top)
<1>1. \E f : f = [n \in 0 .. MaxDepth |-> IF n = 0 THEN top ELSE UNION {Hops(r) : r \in f[n - 1]}]
    BY LevelsExist DEF IsLevels
<1> QED
    BY <1>1 DEF Levels, IsLevels

\* The level above the requests with n hops left, and what leads from it.
LEMMA LevelBelow ==
    ASSUME NEW top, NEW n \in Nat, n + 1 <= MaxDepth,
           NEW r \in Levels(top)[MaxDepth - (n + 1)]
    PROVE  Hops(r) \subseteq Levels(top)[MaxDepth - n]
<1> DEFINE k == MaxDepth - n
           lev == Levels(top)
<1>1. k \in 0 .. MaxDepth /\ k # 0 /\ k - 1 = MaxDepth - (n + 1)
    BY DepthAssumption
<1>2. lev = [m \in 0 .. MaxDepth |-> IF m = 0 THEN top ELSE UNION {Hops(x) : x \in lev[m - 1]}]
    BY LevelsAre DEF IsLevels
<1> HIDE DEF k, lev
<1>3. lev[k] = UNION {Hops(x) : x \in lev[k - 1]}
    BY <1>1, <1>2
<1>4. r \in lev[k - 1]
    BY <1>1 DEF lev
<1>5. Hops(r) \subseteq lev[k]
    BY <1>3, <1>4
<1> QED
    BY <1>5 DEF k, lev

IsTable(t, levels, limit) ==
    t = [n \in 0 .. MaxDepth |->
            RecognizeAll(levels[MaxDepth - n], limit, n, IF n = 0 THEN <<>> ELSE t[n - 1])]

LEMMA TablesExist ==
    ASSUME NEW levels, NEW limit
    PROVE  \E t : IsTable(t, levels, limit)
<1> DEFINE row(n, before) == RecognizeAll(levels[MaxDepth - n], limit, n, before)
           upTo(f, m) == f = [n \in 0 .. m |-> row(n, IF n = 0 THEN <<>> ELSE f[n - 1])]
           S == {m \in Nat : \E f : upTo(f, m)}
<1> HIDE DEF row
<1>1. 0 \in S
    <2>1. upTo([n \in 0 .. 0 |-> row(0, <<>>)], 0)
        OBVIOUS
    <2> QED
        BY <2>1
<1>2. ASSUME NEW m \in Nat, m \in S
      PROVE  m + 1 \in S
    <2>1. PICK f : upTo(f, m)
        BY <1>2
    <2> DEFINE g == [n \in 0 .. m + 1 |-> IF n = m + 1 THEN row(m + 1, f[m]) ELSE f[n]]
    <2>2. \A n \in 0 .. m : g[n] = f[n]
        OBVIOUS
    <2>3. g[m + 1] = row(m + 1, f[m])
        OBVIOUS
    <2>4. ASSUME NEW n \in 0 .. m + 1
          PROVE  g[n] = row(n, IF n = 0 THEN <<>> ELSE g[n - 1])
        <3>1. CASE n = 0
            <4>1. 0 \in 0 .. m /\ f[0] = row(0, <<>>)
                BY <2>1
            <4> HIDE DEF g
            <4> QED
                BY <2>2, <3>1, <4>1
        <3>2. CASE n # 0 /\ n <= m
            <4>1. n \in 0 .. m /\ n - 1 \in 0 .. m
                BY <3>2
            <4>2. g[n] = f[n] /\ g[n - 1] = f[n - 1]
                BY <2>2, <4>1
            <4>3. f[n] = row(n, f[n - 1])
                BY <2>1, <3>2, <4>1
            <4> HIDE DEF g
            <4> QED
                BY <3>2, <4>2, <4>3
        <3>3. CASE n = m + 1
            <4>1. n # 0 /\ n - 1 = m /\ g[n - 1] = f[m]
                BY <3>3, <2>2
            <4> HIDE DEF g
            <4> QED
                BY <2>3, <3>3, <4>1
        <3> QED
            BY <3>1, <3>2, <3>3
    <2>5. upTo(g, m + 1)
        BY <2>4
    <2> HIDE DEF upTo, g
    <2>6. \E h : upTo(h, m + 1)
        BY <2>5
    <2> QED
        BY <2>6
<1> HIDE DEF S
<1>3. Nat \subseteq S
    BY <1>1, <1>2, NumbersInduct
<1>4. PICK f : upTo(f, MaxDepth)
    BY <1>3, DepthAssumption DEF S
<1> QED
    BY <1>4 DEF IsTable, row

\* What the requests with n hops left come to.
LEMMA Rows ==
    ASSUME NEW levels, NEW limit, NEW n \in 0 .. MaxDepth
    PROVE  Resolutions(levels, limit)[n]
           = RecognizeAll(levels[MaxDepth - n], limit, n,
                          IF n = 0 THEN <<>> ELSE Resolutions(levels, limit)[n - 1])
<1> DEFINE t == Resolutions(levels, limit)
<1>1. \E f : f = [k \in 0 .. MaxDepth |->
                    RecognizeAll(levels[MaxDepth - k], limit, k, IF k = 0 THEN <<>> ELSE f[k - 1])]
    <2>1. \E f : IsTable(f, levels, limit)
        BY TablesExist
    <2> QED
        BY ONLY <2>1 DEF IsTable
<1>2. IsTable(t, levels, limit)
    BY <1>1 DEF Resolutions, IsTable
<1> HIDE DEF t
<1>3. t[n] = RecognizeAll(levels[MaxDepth - n], limit, n, IF n = 0 THEN <<>> ELSE t[n - 1])
    BY <1>2 DEF IsTable
<1> QED
    BY <1>3 DEF t

-----------------------------------------------------------------------------
(* More time changes nothing about what was examined in full.              *)

LEMMA InTime ==
    ASSUME NEW commands, NEW l \in Nat, NEW m \in Nat, l <= m, Sound(LateStatus(Late(commands, l)))
    PROVE  /\ ~Late(commands, l) /\ ~Late(commands, m)
           /\ Examined(commands, l) = DOMAIN commands
           /\ Examined(commands, m) = DOMAIN commands
<1>1. DOMAIN commands \subseteq 1 .. l
    BY DEF Sound, LateStatus, Late
<1>2. 1 .. l \subseteq 1 .. m
    OBVIOUS
<1> QED
    BY <1>1, <1>2 DEF Late, Examined

\* Two tables say the same of every request below req that came to a good end.
Agree(req, a, b) == \A x \in Hops(req) : Sound(a[x].status) => a[x] = b[x]

LEMMA ScriptAgrees ==
    ASSUME NEW req, NEW i \in DOMAIN ScriptsOf(req), NEW l \in Nat, NEW m \in Nat, l <= m,
           NEW a, NEW b, Agree(req, a, b),
           NEW result, result = ResolveScript(req, ScriptsOf(req)[i], l, a),
           Sound(result.status), \A j \in DOMAIN result.commands : Sound(result.commands[j].status)
    PROVE  ResolveScript(req, ScriptsOf(req)[i], m, b) = result
<1> DEFINE script == ScriptsOf(req)[i]
           parsed == Parse(script.text, script.cwd)
           hop(j) == HopRequest(req, script, parsed.commands[j])
<1>1. script \in ToSet(ScriptsOf(req))
    BY DEF ToSet
<1>2. \A j \in DOMAIN parsed.commands : hop(j) \in Hops(req)
    <2> SUFFICES ASSUME NEW j \in DOMAIN parsed.commands PROVE hop(j) \in Hops(req)
        OBVIOUS
    <2>1. parsed.commands[j] \in ToSet(parsed.commands)
        BY DEF ToSet
    <2> QED
        BY <1>1, <2>1 DEF Hops
<1>3. \A k, t : ResolveScript(req, script, k, t) = ResolveParsed(req, script, parsed, k, t)
    BY DEF ResolveScript
<1> HIDE DEF script, parsed
<1>4. result = ResolveParsed(req, script, parsed, l, a)
    BY <1>3 DEF script
<1>5. /\ result.status = Weakest({ParseStatus(parsed), LateStatus(Late(parsed.commands, l))})
      /\ result.commands = [j \in Examined(parsed.commands, l) |-> a[hop(j)]]
    BY <1>4 DEF ResolveParsed
<1>6. Sound(LateStatus(Late(parsed.commands, l)))
    BY <1>5, WeakestSound
<1>7. /\ ~Late(parsed.commands, l) /\ ~Late(parsed.commands, m)
      /\ Examined(parsed.commands, l) = DOMAIN parsed.commands
      /\ Examined(parsed.commands, m) = DOMAIN parsed.commands
    BY <1>6, InTime
<1>8. \A j \in DOMAIN parsed.commands : a[hop(j)] = b[hop(j)]
    <2> SUFFICES ASSUME NEW j \in DOMAIN parsed.commands
                 PROVE  a[hop(j)] = b[hop(j)]
        OBVIOUS
    <2>1. j \in DOMAIN result.commands /\ result.commands[j] = a[hop(j)]
        BY <1>5, <1>7
    <2>2. Sound(a[hop(j)].status)
        BY <2>1
    <2>3. hop(j) \in Hops(req)
        BY <1>2
    <2> HIDE DEF hop
    <2> QED
        BY <2>2, <2>3 DEF Agree
<1>9. /\ [j \in DOMAIN parsed.commands |-> a[hop(j)]] = [j \in DOMAIN parsed.commands |-> b[hop(j)]]
      /\ Late(parsed.commands, l) = Late(parsed.commands, m)
    BY <1>7, <1>8 DEF Late
<1>10. ResolveParsed(req, script, parsed, l, a) = ResolveParsed(req, script, parsed, m, b)
    BY <1>7, <1>9 DEF ResolveParsed
<1> QED
    BY <1>3, <1>4, <1>10 DEF script

LEMMA RequestAgrees ==
    ASSUME NEW req, NEW n, NEW l \in Nat, NEW m \in Nat, l <= m, NEW a, NEW b,
           n # 0 => Agree(req, a, b),
           Sound(Recognize(req, ScriptResults(req, ScriptsOf(req), l, n, a)).status)
    PROVE  Recognize(req, ScriptResults(req, ScriptsOf(req), l, n, a))
           = Recognize(req, ScriptResults(req, ScriptsOf(req), m, n, b))
<1> DEFINE scripts == ScriptsOf(req)
           short == ScriptResults(req, scripts, l, n, a)
           long == ScriptResults(req, scripts, m, n, b)
<1>1. AllFollowed(short)
    BY RecognizedFollowed
<1>2. CASE n = 0
    BY <1>2 DEF ScriptResults
<1>3. CASE n # 0
    <2>1. /\ short = [i \in DOMAIN scripts |-> ResolveScript(req, scripts[i], l, a)]
          /\ long = [i \in DOMAIN scripts |-> ResolveScript(req, scripts[i], m, b)]
        BY <1>3 DEF ScriptResults
    <2> HIDE DEF short, long
    <2>2. ASSUME NEW i \in DOMAIN scripts
          PROVE  ResolveScript(req, scripts[i], l, a) = ResolveScript(req, scripts[i], m, b)
        <3>1. /\ short[i] = ResolveScript(req, scripts[i], l, a)
              /\ Sound(short[i].status)
              /\ \A j \in DOMAIN short[i].commands : Sound(short[i].commands[j].status)
            BY <1>1, <2>1 DEF AllFollowed
        <3> QED
            BY <1>3, <3>1, ScriptAgrees
    <2> HIDE DEF scripts
    <2>3. short = long
        BY <2>1, <2>2
    <2> QED
        BY <2>3 DEF short, long, scripts
<1> QED
    BY <1>2, <1>3

\* A request that was resolved in full under one limit comes to the same
\* under a larger one, with any number of hops left.
LEMMA MoreTime ==
    ASSUME NEW top, NEW l \in Nat, NEW m \in Nat, l <= m
    PROVE  \A r \in top :
              Sound(Resolutions(Levels(top), l)[MaxDepth][r].status)
              => Resolutions(Levels(top), l)[MaxDepth][r] = Resolutions(Levels(top), m)[MaxDepth][r]
<1> DEFINE lev == Levels(top)
           A == Resolutions(lev, l)
           B == Resolutions(lev, m)
           same(n) == \A r \in lev[MaxDepth - n] : Sound(A[n][r].status) => A[n][r] = B[n][r]
           S == {n \in Nat : n <= MaxDepth => same(n)}
           below(t, n) == IF n = 0 THEN <<>> ELSE t[n - 1]
           entry(r, k, n, t) == Recognize(r, ScriptResults(r, ScriptsOf(r), k, n, below(t, n)))
<1>1. ASSUME NEW n \in 0 .. MaxDepth, NEW r \in lev[MaxDepth - n]
      PROVE  A[n][r] = entry(r, l, n, A) /\ B[n][r] = entry(r, m, n, B)
    <2>1. /\ A[n] = RecognizeAll(lev[MaxDepth - n], l, n, below(A, n))
          /\ B[n] = RecognizeAll(lev[MaxDepth - n], m, n, below(B, n))
        BY Rows
    <2> HIDE DEF A, B, lev, below
    <2> QED
        BY <2>1 DEF RecognizeAll
<1>2. ASSUME NEW n \in 0 .. MaxDepth, NEW r \in lev[MaxDepth - n],
             n # 0 => Agree(r, A[n - 1], B[n - 1])
      PROVE  Sound(A[n][r].status) => A[n][r] = B[n][r]
    <2>1. n # 0 => Agree(r, below(A, n), below(B, n))
        BY <1>2
    <2>2. A[n][r] = entry(r, l, n, A) /\ B[n][r] = entry(r, m, n, B)
        BY <1>1
    <2> HIDE DEF A, B, lev, below
    <2> QED
        BY <2>1, <2>2, RequestAgrees
<1> HIDE DEF A, B
<1>3. 0 \in S
    BY <1>2, DepthAssumption
<1>4. ASSUME NEW n \in Nat, n \in S
      PROVE  n + 1 \in S
    <2> SUFFICES ASSUME n + 1 <= MaxDepth, NEW r \in lev[MaxDepth - (n + 1)]
                 PROVE  Sound(A[n + 1][r].status) => A[n + 1][r] = B[n + 1][r]
        OBVIOUS
    <2>1. Hops(r) \subseteq lev[MaxDepth - n]
        BY LevelBelow
    <2>2. n <= MaxDepth /\ n + 1 \in 0 .. MaxDepth /\ (n + 1) - 1 = n
        BY DepthAssumption
    <2>3. same(n)
        BY <1>4, <2>2
    <2> HIDE DEF lev
    <2>4. Agree(r, A[n], B[n])
        BY <2>1, <2>3 DEF Agree
    <2> QED
        BY <1>2, <2>2, <2>4
<1> HIDE DEF S
<1>5. MaxDepth \in S
    BY <1>3, <1>4, NumbersInduct, DepthAssumption
<1>6. same(MaxDepth)
    BY <1>5, DepthAssumption DEF S
<1>7. lev[0] = top /\ MaxDepth - MaxDepth = 0
    BY LevelsAre, DepthAssumption DEF IsLevels
<1> QED
    BY <1>6, <1>7 DEF A, B

\* An action that may be approved is the one any larger budget gives.
LEMMA LineAgrees ==
    ASSUME NEW ctx, NEW line, NEW cwd, NEW l \in Nat, NEW m \in Nat, l <= m,
           Approvable(ResolveInContext(ctx, l, line, cwd).status)
    PROVE  ResolveInContext(ctx, m, line, cwd) = ResolveInContext(ctx, l, line, cwd)
<1> DEFINE parsed == Parse(line, cwd)
           commands == parsed.commands
           top == {LineRequest(ctx, c) : c \in ToSet(commands)}
           found(k) == FoundFor(ctx, commands, k)
           results(k) == LineResults(ctx, commands, k, found(k))
           status(k) == Weakest({ctx.status, ParseStatus(parsed), LateStatus(Late(commands, k))})
           act(k) == Aggregate(ctx, line, results(k), status(k), Truncated(parsed) \/ Late(commands, k))
<1>1. \A k : ResolveInContext(ctx, k, line, cwd) = act(k)
    BY DEF ResolveInContext, ResolveLine
<1>2. \A k : found(k) = Resolutions(Levels(top), k)[MaxDepth]
    BY DEF FoundFor
<1> HIDE DEF parsed, found
<1> DEFINE capped == IF Len(results(l)) > MaxCommands THEN "UNRESOLVED" ELSE "RESOLVED"
           parts == {status(l), capped} \cup {c.status : c \in ToSet(results(l))}
<1>3. act(l).status = Weakest(parts)
    BY DEF Aggregate
<1>4. \A p \in parts : Sound(p)
    <2> HIDE DEF parts, act
    <2>1. Sound(Weakest(parts))
        BY <1>1, <1>3, ApprovableSound
    <2> QED
        BY <2>1, WeakestSound
<1>5. Sound(LateStatus(Late(commands, l)))
    <2>1. Sound(status(l))
        BY <1>4
    <2> QED
        BY <2>1, WeakestSound
<1>6. /\ ~Late(commands, l) /\ ~Late(commands, m)
      /\ Examined(commands, l) = DOMAIN commands
      /\ Examined(commands, m) = DOMAIN commands
    BY <1>5, InTime
<1>7. \A i \in DOMAIN commands : LineRequest(ctx, commands[i]) \in top
    BY DEF ToSet
<1>8. \A i \in DOMAIN commands : Sound(found(l)[LineRequest(ctx, commands[i])].status)
    <2> SUFFICES ASSUME NEW i \in DOMAIN commands
                 PROVE  Sound(found(l)[LineRequest(ctx, commands[i])].status)
        OBVIOUS
    <2>1. i \in DOMAIN results(l) /\ results(l)[i] = found(l)[LineRequest(ctx, commands[i])]
        BY <1>6 DEF LineResults
    <2> HIDE DEF results
    <2>2. results(l)[i] \in ToSet(results(l))
        BY <2>1 DEF ToSet
    <2>3. results(l)[i].status \in parts
        BY <2>2
    <2> HIDE DEF parts
    <2> QED
        BY <1>4, <2>1, <2>3
<1> HIDE DEF top
<1>9. \A i \in DOMAIN commands :
        found(l)[LineRequest(ctx, commands[i])] = found(m)[LineRequest(ctx, commands[i])]
    BY <1>2, <1>7, <1>8, MoreTime
<1>10. results(l) = results(m)
    BY <1>6, <1>9 DEF LineResults
<1>11. Late(commands, l) = Late(commands, m)
    BY <1>6 DEF Late
<1> HIDE DEF results
<1>12. act(l) = act(m)
    BY <1>10, <1>11
<1> QED
    BY <1>1, <1>12

-----------------------------------------------------------------------------
(* Fingerprints: what a resolution read of the package scripts.            *)

\* The scripts of the manifest that a fingerprint names, in world w.
Scripts(w, k) == w.manifests[k.path].scripts

\* What the files that define a build read, in world w.
BuildTools == {"gradle", "mvn"}

ConfigKind(tool) == IF tool = "gradle" THEN "gradle-config" ELSE "maven-config"

ConfigFiles(w, tool, ws) == IF tool = "gradle" THEN GradleConfigFiles(w, ws) ELSE MavenConfigFiles(w, ws)

ConfigText(w, tool, ws) ==
    FileSetFingerprint(w, {p \in ConfigFiles(w, tool, ws) : IsFile(w.fs, p)})

\* The fingerprint k of value v is what world w says.
Says(w, k, v) ==
    /\ k.kind = "npm-script" => k.name \in DOMAIN Scripts(w, k) /\ v = Scripts(w, k)[k.name]
    /\ \A tool \in BuildTools : k.kind = ConfigKind(tool) => v = ConfigText(w, tool, k.path)

Honest(w, fps) == \A k \in DOMAIN fps : Says(w, k, fps[k])

LEMMA MergedPrints ==
    ASSUME NEW own, NEW prints
    PROVE  /\ DOMAIN MergePrints(own, prints) = DOMAIN own \cup UNION {DOMAIN f : f \in prints}
           /\ \A w : Honest(w, own) /\ (\A f \in prints : Honest(w, f)) => Honest(w, MergePrints(own, prints))
<1> DEFINE rest == [k \in UNION {DOMAIN f : f \in prints} |-> (CHOOSE f \in prints : k \in DOMAIN f)[k]]
           all == MergePrints(own, prints)
<1>1. /\ DOMAIN all = DOMAIN own \cup DOMAIN rest
      /\ \A k \in DOMAIN all : all[k] = IF k \in DOMAIN own THEN own[k] ELSE rest[k]
    BY DEF MergePrints
<1>2. \A k \in DOMAIN rest : \E f \in prints : k \in DOMAIN f /\ rest[k] = f[k]
    OBVIOUS
<1>3. DOMAIN rest = UNION {DOMAIN f : f \in prints}
    OBVIOUS
<1> HIDE DEF rest, all
<1>4. ASSUME NEW w, Honest(w, own), \A f \in prints : Honest(w, f)
      PROVE  Honest(w, all)
    <2> SUFFICES ASSUME NEW k \in DOMAIN all
                 PROVE  Says(w, k, all[k])
        BY DEF Honest
    <2>1. CASE k \in DOMAIN own
        BY <1>1, <1>4, <2>1 DEF Honest
    <2>2. CASE k \notin DOMAIN own
        <3>1. PICK f \in prints : k \in DOMAIN f /\ rest[k] = f[k]
            BY <1>1, <1>2, <2>2
        <3>2. Honest(w, f)
            BY <1>4
        <3> QED
            BY <1>1, <2>2, <3>1, <3>2 DEF Honest
    <2> QED
        BY <2>1, <2>2
<1> QED
    BY <1>1, <1>3, <1>4 DEF all

\* A command without fingerprints of its own.
Unprinted(c) == IsCommand(c) /\ c.fps = NoPrints

LEMMA DoneUnprinted ==
    ASSUME NEW op, NEW status, NEW effects
    PROVE  Unprinted(Done(op, status, effects)) /\ Done(op, status, effects).op = op
BY DEF Unprinted, Done, IsCommand, CommandRecord

LEMMA Unresolveds ==
    ASSUME NEW op, NEW effects, NEW req
    PROVE  Unprinted(Resolved(op, effects)) /\ Unprinted(Unresolved(req, op))
BY DoneUnprinted DEF Resolved, Unresolved

LEMMA UnprintedChanges ==
    ASSUME NEW c, Unprinted(c), NEW x
    PROVE  /\ Unprinted([c EXCEPT !.effects = x]) /\ Unprinted([c EXCEPT !.git = x])
           /\ Unprinted([c EXCEPT !.status = x]) /\ Unprinted(Degrade(c))
<1>1. PICK o, g, s, e, t, f, i : c = CommandRecord(o, g, s, e, t, f, i)
    BY DEF Unprinted, IsCommand
<1>2. f = NoPrints
    BY <1>1 DEF Unprinted, CommandRecord
<1>3. /\ [c EXCEPT !.effects = x] = CommandRecord(o, g, s, x, t, f, i)
      /\ [c EXCEPT !.git = x] = CommandRecord(o, x, s, e, t, f, i)
      /\ \A y : [c EXCEPT !.status = y] = CommandRecord(o, g, y, e, t, f, i)
    BY <1>1 DEF CommandRecord
<1>4. \A o1, g1, s1, e1, t1, i1 : Unprinted(CommandRecord(o1, g1, s1, e1, t1, f, i1))
    <2>1. \A o1, g1, s1, e1, t1, i1 : CommandRecord(o1, g1, s1, e1, t1, f, i1).fps = f
        BY DEF CommandRecord
    <2> QED
        BY <1>2, <2>1 DEF Unprinted, IsCommand
<1>5. \A y : Unprinted([c EXCEPT !.status = y])
    BY <1>3, <1>4
<1> QED
    BY <1>3, <1>4, <1>5 DEF Degrade

LEMMA FilesUnprinted ==
    ASSUME NEW req, NEW scan
    PROVE  /\ Unprinted(RecognizeRead(req, scan))
           /\ Unprinted(RecognizeList(req, scan))
           /\ Unprinted(RecognizeRemove(req, scan))
           /\ Unprinted(RecognizeCopy(req, scan))
           /\ Unprinted(RecognizeMove(req, scan))
           /\ Unprinted(RecognizeMakeDir(req, scan))
           /\ Unprinted(RecognizeGrep(req, scan))
           /\ Unprinted(RecognizeFind(req, scan))
           /\ Unprinted(RecognizeCurl(req, scan))
           /\ Unprinted(RecognizeJSTest(req, scan))
           /\ Unprinted(RecognizeRimraf(req, scan))
<1>1. Unprinted(RecognizeRead(req, scan))
    BY Unresolveds, DoneUnprinted DEF RecognizeRead
<1>2. Unprinted(RecognizeList(req, scan))
    BY Unresolveds, DoneUnprinted DEF RecognizeList
<1>3. Unprinted(RecognizeRemove(req, scan))
    BY Unresolveds, DoneUnprinted DEF RecognizeRemove
<1>4. Unprinted(RecognizeCopy(req, scan))
    BY Unresolveds, DoneUnprinted DEF RecognizeCopy
<1>5. Unprinted(RecognizeMove(req, scan))
    BY Unresolveds, DoneUnprinted DEF RecognizeMove
<1>6. Unprinted(RecognizeMakeDir(req, scan))
    BY Unresolveds, DoneUnprinted DEF RecognizeMakeDir
<1>7. Unprinted(RecognizeGrep(req, scan))
    BY Unresolveds, DoneUnprinted DEF RecognizeGrep
<1>8. Unprinted(RecognizeFind(req, scan))
    BY Unresolveds, DoneUnprinted DEF RecognizeFind
<1>9. Unprinted(RecognizeCurl(req, scan))
    BY Unresolveds, DoneUnprinted DEF RecognizeCurl
<1>10. Unprinted(RecognizeJSTest(req, scan))
    BY Unresolveds, DoneUnprinted DEF RecognizeJSTest
<1>11. Unprinted(RecognizeRimraf(req, scan))
    BY Unresolveds, DoneUnprinted DEF RecognizeRimraf
<1> QED
    BY <1>1, <1>2, <1>3, <1>4, <1>5, <1>6, <1>7, <1>8, <1>9, <1>10, <1>11

LEMMA HooksUnprinted ==
    ASSUME NEW req, NEW c, Unprinted(c), NEW skipped
    PROVE  Unprinted(WithHooks(req, c, skipped))
<1>1. \A x : Unprinted(Degrade([c EXCEPT !.effects = x]))
    BY UnprintedChanges
<1> QED
    BY <1>1 DEF WithHooks

LEMMA GitUnprinted ==
    ASSUME NEW req
    PROVE  Unprinted(RecognizeGit(req))
<1>1. ASSUME NEW r, NEW sub \in DOMAIN GitGrammar, NEW args, NEW scan
      PROVE  Unprinted(GitSubcommand(r, sub, args, scan))
    <2>1. Unprinted(GitRead(r, GitOp[sub], args)) /\ Unprinted(GitDiff(r, scan, args))
        BY Unresolveds DEF GitRead, GitDiff
    <2>2. Unprinted(GitAdd(r, scan)) /\ Unprinted(GitReset(r, scan))
        BY Unresolveds DEF GitAdd, GitReset
    <2>3. Unprinted(GitCommit(r, scan))
        BY Unresolveds, HooksUnprinted DEF GitCommit
    <2>4. Unprinted(GitCheckout(r, scan, sub = "restore", args))
        BY Unresolveds, HooksUnprinted DEF GitCheckout
    <2>5. Unprinted(GitPush(r, scan))
        BY Unresolveds, UnprintedChanges, HooksUnprinted DEF GitPush
    <2>6. sub \in {"status", "log", "show", "branch", "diff", "add", "commit", "checkout",
                   "restore", "reset", "push"}
        BY DEF GitGrammar
    <2>7. \A op, effects : Unprinted(Resolved(op, effects)) /\ Unprinted(Unresolved(r, op))
        BY Unresolveds
    <2> QED
        BY <2>1, <2>2, <2>3, <2>4, <2>5, <2>6, <2>7 DEF GitSubcommand
<1> QED
    BY <1>1, Unresolveds DEF RecognizeGit

LEMMA UnprintedHonest ==
    ASSUME NEW c, Unprinted(c), NEW w
    PROVE  Honest(w, c.fps)
BY DEF Unprinted, NoPrints, Honest

LEMMA DoneStatus ==
    ASSUME NEW op, NEW req
    PROVE  ~Sound(Unresolved(req, op).status)
BY DEF Unresolved, Done, Sound

\* A build tool is pinned by the files that define the build.
LEMMA BuildHonest ==
    ASSUME NEW req, NEW scan, NEW table, NEW effects, NEW tool \in BuildTools, NEW w, w = req.ctx.world,
           NEW c, c = DeclareBuild(req, scan, table, effects, ConfigKind(tool),
                                   ConfigFiles(w, tool, req.ctx.ws))
    PROVE  /\ Honest(w, c.fps)
           /\ Sound(c.status) => PrintKey(ConfigKind(tool), req.ctx.ws, "") \in DOMAIN c.fps
<1> DEFINE key == PrintKey(ConfigKind(tool), req.ctx.ws, "")
           text == ConfigText(w, tool, req.ctx.ws)
<1>1. CASE \E op : c = Unresolved(req, op)
    BY <1>1, Unresolveds, UnprintedHonest, DoneStatus
<1>2. CASE \E op : c = [Done(op, "DECLARED", effects) EXCEPT !.fps = [k \in {key} |-> text]]
    <2>1. PICK op : c = [Done(op, "DECLARED", effects) EXCEPT !.fps = [k \in {key} |-> text]]
        BY <1>2
    <2>2. key.kind = ConfigKind(tool) /\ key.path = req.ctx.ws
        BY DEF PrintKey
    <2> HIDE DEF key, text
    <2>3. c.fps = [k \in {key} |-> text]
        BY <2>1 DEF Done
    <2>4. \A other \in BuildTools : ConfigKind(other) = ConfigKind(tool) => other = tool
        BY DEF ConfigKind, BuildTools
    <2>5. ConfigKind(tool) # "npm-script"
        BY DEF ConfigKind
    <2>6. Says(w, key, text)
        BY <2>2, <2>4, <2>5 DEF Says, text
    <2>7. Honest(w, c.fps) /\ key \in DOMAIN c.fps
        BY <2>3, <2>6 DEF Honest
    <2> QED
        BY <2>7 DEF key
<1>3. \/ \E op : c = Unresolved(req, op)
      \/ \E op : c = [Done(op, "DECLARED", effects) EXCEPT !.fps = [k \in {key} |-> text]]
    BY DEF DeclareBuild, ConfigText
<1> QED
    BY <1>1, <1>2, <1>3

\* The fingerprint of the build that a command runs.
ConfigKey(req) == PrintKey(ConfigKind(req.cmd.name), req.ctx.ws, "")

LEMMA ScannedHonest ==
    ASSUME NEW req, NEW name \in DOMAIN GrammarOf, NEW scan, NEW w, w = req.ctx.world,
           NEW c, c = RecognizeScanned(req, GrammarOf[name], scan)
    PROVE  /\ Honest(w, c.fps)
           /\ name \in BuildTools /\ Sound(c.status)
                 => PrintKey(ConfigKind(name), req.ctx.ws, "") \in DOMAIN c.fps
<1> DEFINE g == GrammarOf[name]
<1>1. /\ g \in {"readfile", "ls", "noop", "rm", "cp", "mv", "mkdir", "cat", "grep", "find", "curl",
                "gradle", "maven", "jstest", "rimraf"}
      /\ g = "gradle" => name = "gradle"
      /\ g = "maven" => name = "mvn"
      /\ name = "gradle" => g = "gradle"
      /\ name = "mvn" => g = "maven"
    BY DEF GrammarOf
<1> HIDE DEF g
<1>2. CASE ~scan.ok
    <2>1. \E op : c = Unresolved(req, op)
        BY <1>2 DEF RecognizeScanned
    <2> QED
        BY <2>1, Unresolveds, UnprintedHonest, DoneStatus
<1>3. CASE g = "gradle" /\ scan.ok
    <2>1. c = RecognizeGradle(req, scan)
        BY <1>3 DEF RecognizeScanned, g
    <2>2. CASE IncludesBuild(req.ctx.world, req.ctx.ws)
        BY <2>1, <2>2, Unresolveds, UnprintedHonest, DoneStatus DEF RecognizeGradle
    <2>3. CASE ~IncludesBuild(req.ctx.world, req.ctx.ws)
        <3>1. \E effects : c = DeclareBuild(req, scan, GradleTaskOp, effects, "gradle-config",
                                           GradleConfigFiles(w, req.ctx.ws))
            BY <2>1, <2>3 DEF RecognizeGradle
        <3>2. /\ "gradle" \in BuildTools /\ ConfigKind("gradle") = "gradle-config"
              /\ ConfigFiles(w, "gradle", req.ctx.ws) = GradleConfigFiles(w, req.ctx.ws)
            BY DEF BuildTools, ConfigKind, ConfigFiles
        <3>3. PICK effects : c = DeclareBuild(req, scan, GradleTaskOp, effects, ConfigKind("gradle"),
                                              ConfigFiles(w, "gradle", req.ctx.ws))
            BY <3>1, <3>2
        <3>4. /\ Honest(w, c.fps)
              /\ Sound(c.status) => PrintKey(ConfigKind("gradle"), req.ctx.ws, "") \in DOMAIN c.fps
            BY <3>2, <3>3, BuildHonest
        <3> QED
            BY <1>1, <1>3, <3>4
    <2> QED
        BY <2>2, <2>3
<1>4. CASE g = "maven" /\ scan.ok
    <2>1. \E effects : c = DeclareBuild(req, scan, MavenGoalOp, effects, "maven-config",
                                       MavenConfigFiles(w, req.ctx.ws))
        BY <1>4 DEF RecognizeMaven, RecognizeScanned, g
    <2>2. /\ "mvn" \in BuildTools /\ ConfigKind("mvn") = "maven-config"
          /\ ConfigFiles(w, "mvn", req.ctx.ws) = MavenConfigFiles(w, req.ctx.ws)
        BY DEF BuildTools, ConfigKind, ConfigFiles
    <2>3. PICK effects : c = DeclareBuild(req, scan, MavenGoalOp, effects, ConfigKind("mvn"),
                                          ConfigFiles(w, "mvn", req.ctx.ws))
        BY <2>1, <2>2
    <2>4. /\ Honest(w, c.fps)
          /\ Sound(c.status) => PrintKey(ConfigKind("mvn"), req.ctx.ws, "") \in DOMAIN c.fps
        BY <2>2, <2>3, BuildHonest
    <2> QED
        BY <1>1, <1>4, <2>4
<1>5. CASE g \notin {"gradle", "maven"} /\ scan.ok
    <2>1. \A op, effects : Unprinted(Resolved(op, effects))
        BY Unresolveds
    <2>2. Unprinted(RecognizeScanned(req, g, scan))
        BY <1>1, <1>5, <2>1, FilesUnprinted DEF RecognizeScanned
    <2>3. Unprinted(c)
        BY <2>2 DEF g
    <2>4. name \notin BuildTools
        BY <1>1, <1>5 DEF BuildTools
    <2> QED
        BY <2>3, <2>4, UnprintedHonest
<1> QED
    BY <1>1, <1>2, <1>3, <1>4, <1>5

LEMMA StagesExist ==
    ASSUME NEW scripts, NEW name, NEW x \in ToSet(ScriptStages(scripts, name))
    PROVE  x \in DOMAIN scripts
<1> DEFINE stage(y) == IF y \in DOMAIN scripts THEN <<y>> ELSE <<>>
           S == DOMAIN scripts
<1>1. ASSUME NEW y
      PROVE  stage(y) \in Seq(S)
    <2>1. CASE y \in S
        BY <2>1
    <2>2. CASE y \notin S
        BY <2>2
    <2> QED
        BY <2>1, <2>2
<1>2. PICK a, b : ScriptStages(scripts, name) = stage(a) \o stage(name) \o stage(b)
    BY DEF ScriptStages
<1>3. stage(a) \in Seq(S) /\ stage(name) \in Seq(S) /\ stage(b) \in Seq(S)
    BY <1>1
<1> HIDE DEF stage, S
<1>4. ScriptStages(scripts, name) \in Seq(S)
    BY <1>2, <1>3
<1> QED
    BY <1>4 DEF ToSet, S

LEMMA ScriptPrintsHonest ==
    ASSUME NEW w, NEW name, NEW manifest
    PROVE  /\ Honest(w, ScriptPrints(w, name, manifest))
           /\ \A x \in ToSet(ScriptStages(ScriptsIn(w, manifest), name)) :
                 ScriptKey(manifest, x) \in DOMAIN ScriptPrints(w, name, manifest)
<1> DEFINE scripts == ScriptsIn(w, manifest)
           stages == ToSet(ScriptStages(scripts, name))
           fps == ScriptPrints(w, name, manifest)
<1>1. /\ DOMAIN fps = {ScriptKey(manifest, x) : x \in stages}
                      \cup {PrintKey("script-shell", <<>>, ""), PrintKey("packageManager", <<>>, "")}
      /\ \A k \in DOMAIN fps : k.kind = "npm-script" => fps[k] = scripts[k.name]
    BY DEF ScriptPrints
<1>2. \A x : /\ ScriptKey(manifest, x).kind = "npm-script" /\ ScriptKey(manifest, x).path = manifest
             /\ ScriptKey(manifest, x).name = x
    BY DEF ScriptKey, PrintKey
<1>3. /\ PrintKey("script-shell", <<>>, "").kind = "script-shell"
      /\ PrintKey("packageManager", <<>>, "").kind = "packageManager"
    BY DEF PrintKey
<1>4. \A x \in stages : x \in DOMAIN scripts
    BY StagesExist
<1> HIDE DEF fps, stages
<1>5. ASSUME NEW k \in DOMAIN fps, k.kind = "npm-script"
      PROVE  k.name \in DOMAIN Scripts(w, k) /\ fps[k] = Scripts(w, k)[k.name]
    <2>1. PICK x \in stages : k = ScriptKey(manifest, x)
        BY <1>1, <1>3, <1>5
    <2>2. Scripts(w, k) = scripts /\ k.name = x
        BY <1>2, <2>1 DEF Scripts, ScriptsIn
    <2> QED
        BY <1>1, <1>4, <1>5, <2>2
<1>6. \A k \in DOMAIN fps : k.kind \in {"npm-script", "script-shell", "packageManager"}
    BY <1>1, <1>2, <1>3
<1>7. \A k \in DOMAIN fps : \A tool \in BuildTools : k.kind # ConfigKind(tool)
    BY <1>6 DEF BuildTools, ConfigKind
<1>8. Honest(w, fps)
    BY <1>5, <1>7 DEF Honest, Says
<1> QED
    BY <1>1, <1>8 DEF fps, stages

LEMMA NpmCallKinds ==
    ASSUME NEW cmd, NEW npm
    PROVE  NpmCall(cmd, npm).kind \in {"run", "exec", "install", "unknown"}
BY DEF NpmCall

LEMMA NpmHonest ==
    ASSUME NEW req, NEW call, call.kind \in {"run", "exec", "install", "unknown"}, NEW manifest
    PROVE  /\ Honest(req.ctx.world, NpmCommand(req, call, manifest).fps)
           /\ \A i \in DOMAIN NpmScripts(req, call, manifest) :
                 LET key == NpmScripts(req, call, manifest)[i].key
                 IN  key.kind = "npm-script" => key \in DOMAIN NpmCommand(req, call, manifest).fps
<1> DEFINE w == req.ctx.world
           c == NpmCommand(req, call, manifest)
           scripts == NpmScripts(req, call, manifest)
<1>1. CASE call.kind = "run" /\ ~RunRefused(req, call, manifest)
    <2>1. c.fps = ScriptPrints(w, call.name, manifest)
        BY <1>1 DEF NpmCommand, NpmRunScript, Resolved, Done
    <2>2. scripts = RunScripts(ScriptsIn(w, manifest), call, manifest)
        BY <1>1 DEF NpmScripts
    <2> DEFINE stages == ScriptStages(ScriptsIn(w, manifest), call.name)
    <2>3. /\ DOMAIN scripts = DOMAIN stages
          /\ \A i \in DOMAIN scripts : scripts[i].key = ScriptKey(manifest, stages[i])
        BY <2>2 DEF RunScripts
    <2>4. \A i \in DOMAIN stages : stages[i] \in ToSet(stages)
        BY DEF ToSet
    <2>5. /\ Honest(w, ScriptPrints(w, call.name, manifest))
          /\ \A x \in ToSet(stages) : ScriptKey(manifest, x) \in DOMAIN ScriptPrints(w, call.name, manifest)
        BY ScriptPrintsHonest
    <2> HIDE DEF c, scripts, stages
    <2>6. Honest(w, c.fps) /\ \A i \in DOMAIN scripts : scripts[i].key \in DOMAIN c.fps
        BY <2>1, <2>3, <2>4, <2>5
    <2> QED
        BY <2>6 DEF c, scripts
<1>2. CASE call.kind = "run" /\ RunRefused(req, call, manifest)
    <2>1. c = Unresolved(req, "RUN_SCRIPT") /\ scripts = <<>>
        BY <1>2 DEF NpmCommand, NpmRunScript, NpmScripts
    <2>2. Honest(w, c.fps)
        BY <2>1, Unresolveds, UnprintedHonest
    <2> QED
        BY <2>1, <2>2
<1>3. CASE call.kind = "exec"
    <2>1. Unprinted(c)
        BY <1>3, Unresolveds DEF NpmCommand
    <2>2. \A i \in DOMAIN scripts : scripts[i].key.kind # "npm-script"
        <3>1. CASE ExecRefused(req, call.args, manifest)
            BY <1>3, <3>1 DEF NpmScripts
        <3>2. CASE ~ExecRefused(req, call.args, manifest)
            <4>1. scripts = ExecScripts(req.cmd.cwd, call.args, manifest)
                BY <1>3, <3>2 DEF NpmScripts
            <4>2. \E t, binary : ExecScripts(req.cmd.cwd, call.args, manifest)
                                = <<[text |-> t, cwd |-> req.cmd.cwd, key |-> PrintKey("exec", binary, "")]>>
                BY Zenon DEF ExecScripts
            <4>3. PICK t, binary : scripts = <<[text |-> t, cwd |-> req.cmd.cwd,
                                                key |-> PrintKey("exec", binary, "")]>>
                BY <4>1, <4>2
            <4>4. PrintKey("exec", binary, "").kind = "exec"
                BY DEF PrintKey
            <4> HIDE DEF scripts
            <4> DEFINE one == [text |-> t, cwd |-> req.cmd.cwd, key |-> PrintKey("exec", binary, "")]
            <4>5. one.key = PrintKey("exec", binary, "")
                OBVIOUS
            <4>6. scripts = <<one>>
                BY <4>3
            <4> HIDE DEF one
            <4>7. \A i \in DOMAIN scripts : scripts[i] = one
                BY <4>6
            <4> QED
                BY <4>4, <4>5, <4>7
        <3> QED
            BY <3>1, <3>2
    <2> QED
        BY <2>1, <2>2, UnprintedHonest
<1>4. CASE call.kind = "install"
    <2>1. c = NpmInstall(req, call.args, manifest) /\ scripts = <<>>
        BY <1>4 DEF NpmCommand, NpmScripts
    <2>2. Unprinted(NpmInstall(req, call.args, manifest))
        BY Unresolveds, DoneUnprinted, UnprintedChanges DEF NpmInstall
    <2> QED
        BY <2>1, <2>2, UnprintedHonest
<1>5. CASE call.kind = "unknown"
    <2>1. c = Unresolved(req, "UNKNOWN") /\ scripts = <<>>
        BY <1>5 DEF NpmCommand, NpmScripts
    <2> QED
        BY <2>1, Unresolveds, UnprintedHonest
<1> QED
    BY <1>1, <1>2, <1>3, <1>4, <1>5

\* A command on its own: its fingerprints say what the scripts say, and cover
\* every package script it runs itself, and the build it declares.
LEMMA DispatchHonest ==
    ASSUME NEW req
    PROVE  /\ Honest(req.ctx.world, DispatchCommand(req).fps)
           /\ \A s \in ToSet(ScriptsOf(req)) :
                 s.key.kind = "npm-script" => s.key \in DOMAIN DispatchCommand(req).fps
           /\ req.cmd.name \in BuildTools /\ Sound(DispatchCommand(req).status)
                 => ConfigKey(req) \in DOMAIN DispatchCommand(req).fps
<1> DEFINE name == req.cmd.name
           c == DispatchCommand(req)
<1>1. CASE name \in PackageManagers
    <2> DEFINE call == NpmCall(req.cmd, req.ctx.world.npm)
               manifest == ManifestOf(req)
    <2>1. c = NpmCommand(req, call, manifest) /\ ScriptsOf(req) = NpmScripts(req, call, manifest)
        BY <1>1 DEF DispatchCommand, RecognizeNpm, ScriptsOf, PackageManagers
    <2>2. call.kind \in {"run", "exec", "install", "unknown"}
        BY NpmCallKinds
    <2> HIDE DEF call, manifest, c
    <2>3. /\ Honest(req.ctx.world, c.fps)
          /\ \A i \in DOMAIN ScriptsOf(req) :
                 ScriptsOf(req)[i].key.kind = "npm-script" => ScriptsOf(req)[i].key \in DOMAIN c.fps
        BY <2>1, <2>2, NpmHonest
    <2>4. name \notin BuildTools
        BY <1>1 DEF PackageManagers, BuildTools
    <2> QED
        BY <2>3, <2>4 DEF ToSet, c
<1>2. CASE name \notin PackageManagers
    <2>1. ScriptsOf(req) = <<>> /\ ToSet(<<>>) = {}
        BY <1>2 DEF ScriptsOf, ToSet
    <2>2. CASE name = "git"
        BY <2>1, <2>2, GitUnprinted, UnprintedHonest DEF DispatchCommand, BuildTools
    <2>3. CASE name = "node"
        <3>1. Unprinted(RecognizeNode(req))
            BY Unresolveds, DoneUnprinted DEF RecognizeNode
        <3>2. c = RecognizeNode(req)
            BY <2>3 DEF DispatchCommand
        <3> QED
            BY <2>1, <2>3, <3>1, <3>2, UnprintedHonest DEF BuildTools
    <2>4. CASE name \notin {"git", "node"} /\ name \in DOMAIN GrammarOf
        <3>1. c = RecognizeScanned(req, GrammarOf[name], Scan(GrammarOf[name], req.cmd.args))
            BY <1>2, <2>4 DEF DispatchCommand
        <3> HIDE DEF c
        <3>2. /\ Honest(req.ctx.world, c.fps)
              /\ name \in BuildTools /\ Sound(c.status)
                    => PrintKey(ConfigKind(name), req.ctx.ws, "") \in DOMAIN c.fps
            BY <2>4, <3>1, ScannedHonest
        <3> QED
            BY <2>1, <3>2 DEF c, ConfigKey
    <2>5. CASE name \notin {"git", "node"} /\ name \notin DOMAIN GrammarOf
        <3>1. c = Unresolved(req, "UNKNOWN")
            BY <1>2, <2>5 DEF DispatchCommand
        <3> QED
            BY <2>1, <3>1, Unresolveds, UnprintedHonest, DoneStatus
    <2> QED
        BY <2>2, <2>3, <2>4, <2>5
<1> QED
    BY <1>1, <1>2

\* What the scripts of a command came to.
Children(results) == UNION {ToSet(r.commands) : r \in ToSet(results)}

LEMMA RecognizedPrints ==
    ASSUME NEW req, NEW results
    PROVE  Recognize(req, results).fps
           = MergePrints(DispatchCommand(req).fps, {x.fps : x \in Children(results)})
<1>1. Absorb(DispatchCommand(req), results).fps
      = MergePrints(DispatchCommand(req).fps, {x.fps : x \in Children(results)})
    BY DEF Absorb, TakeOver, Children
<1> QED
    BY <1>1, RecognizedRuled

LEMMA HopContext ==
    ASSUME NEW req, NEW h \in Hops(req)
    PROVE  h.ctx = req.ctx
BY DEF Hops, HopRequest

LEMMA ChildrenAreHops ==
    ASSUME NEW req, NEW limit, NEW n, NEW below,
           NEW x \in Children(ScriptResults(req, ScriptsOf(req), limit, n, below))
    PROVE  n # 0 /\ \E h \in Hops(req) : x = below[h]
<1> DEFINE scripts == ScriptsOf(req)
           results == ScriptResults(req, scripts, limit, n, below)
<1>1. PICK r \in ToSet(results) : x \in ToSet(r.commands)
    BY DEF Children
<1>2. PICK i \in DOMAIN scripts :
          r = IF n = 0 THEN NotFollowed ELSE ResolveScript(req, scripts[i], limit, below)
    BY <1>1 DEF ScriptResults, ToSet
<1>3. n # 0
    BY <1>1, <1>2 DEF NotFollowed, ToSet
<1> DEFINE script == scripts[i]
           parsed == Parse(script.text, script.cwd)
<1>4. r.commands = [j \in Examined(parsed.commands, limit) |-> below[HopRequest(req, script, parsed.commands[j])]]
    BY <1>2, <1>3 DEF ResolveScript, ResolveParsed
<1> HIDE DEF parsed
<1>5. PICK j \in Examined(parsed.commands, limit) : x = below[HopRequest(req, script, parsed.commands[j])]
    BY <1>1, <1>4 DEF ToSet
<1>6. script \in ToSet(scripts) /\ parsed.commands[j] \in ToSet(parsed.commands)
    BY <1>5 DEF ToSet, Examined
<1>7. HopRequest(req, script, parsed.commands[j]) \in Hops(req)
    BY <1>6 DEF Hops, parsed
<1> QED
    BY <1>3, <1>5, <1>7

LEMMA HopsAreChildren ==
    ASSUME NEW req, NEW limit \in Nat, NEW n, NEW below,
           AllFollowed(ScriptResults(req, ScriptsOf(req), limit, n, below)), NEW h \in Hops(req)
    PROVE  n # 0 /\ below[h] \in Children(ScriptResults(req, ScriptsOf(req), limit, n, below))
<1> DEFINE scripts == ScriptsOf(req)
           results == ScriptResults(req, scripts, limit, n, below)
<1>1. PICK s \in ToSet(scripts) : \E c \in ToSet(Parse(s.text, s.cwd).commands) : h = HopRequest(req, s, c)
    BY DEF Hops
<1> DEFINE parsed == Parse(s.text, s.cwd)
<1>2. PICK j \in DOMAIN parsed.commands : h = HopRequest(req, s, parsed.commands[j])
    BY <1>1 DEF ToSet
<1>3. PICK i \in DOMAIN scripts : s = scripts[i]
    BY <1>1 DEF ToSet
<1>4. /\ i \in DOMAIN results
      /\ results[i] = IF n = 0 THEN NotFollowed ELSE ResolveScript(req, s, limit, below)
    BY <1>3 DEF ScriptResults
<1>5. Sound(results[i].status)
    BY <1>4 DEF AllFollowed
<1> HIDE DEF results, parsed
<1>6. n # 0
    BY <1>4, <1>5 DEF NotFollowed, Sound
<1>7. results[i] = ResolveParsed(req, s, parsed, limit, below)
    BY <1>4, <1>6 DEF ResolveScript, parsed
<1>8. /\ results[i].status = Weakest({ParseStatus(parsed), LateStatus(Late(parsed.commands, limit))})
      /\ results[i].commands = [k \in Examined(parsed.commands, limit) |->
                                   below[HopRequest(req, s, parsed.commands[k])]]
    BY <1>7 DEF ResolveParsed
<1>9. Sound(LateStatus(Late(parsed.commands, limit)))
    BY <1>5, <1>8, WeakestSound
<1>10. j \in Examined(parsed.commands, limit)
    BY <1>9, InTime
<1>11. below[h] \in ToSet(results[i].commands)
    BY <1>2, <1>8, <1>10 DEF ToSet
<1>12. results[i] \in ToSet(results)
    BY <1>4 DEF ToSet
<1>13. below[h] \in Children(results)
    BY <1>11, <1>12 DEF Children
<1> QED
    BY <1>6, <1>13 DEF results

\* The entry of a request with n hops left.
Entry(A, r, limit, n) ==
    Recognize(r, ScriptResults(r, ScriptsOf(r), limit, n, IF n = 0 THEN <<>> ELSE A[n - 1]))

LEMMA Entries ==
    ASSUME NEW levels, NEW limit, NEW n \in 0 .. MaxDepth, NEW r \in levels[MaxDepth - n]
    PROVE  Resolutions(levels, limit)[n][r] = Entry(Resolutions(levels, limit), r, limit, n)
<1> DEFINE A == Resolutions(levels, limit)
           below == IF n = 0 THEN <<>> ELSE A[n - 1]
<1>1. A[n] = RecognizeAll(levels[MaxDepth - n], limit, n, below)
    BY Rows
<1> HIDE DEF A, below
<1>2. A[n][r] = Recognize(r, ScriptResults(r, ScriptsOf(r), limit, n, below))
    BY <1>1 DEF RecognizeAll
<1> QED
    BY <1>2 DEF Entry, A, below

\* A request with its scripts is honest when everything below it is.
LEMMA EntryHonest ==
    ASSUME NEW A, NEW r, NEW limit, NEW n,
           n # 0 => \A h \in Hops(r) : Honest(r.ctx.world, A[n - 1][h].fps)
    PROVE  Honest(r.ctx.world, Entry(A, r, limit, n).fps)
<1> DEFINE below == IF n = 0 THEN <<>> ELSE A[n - 1]
           results == ScriptResults(r, ScriptsOf(r), limit, n, below)
           prints == {x.fps : x \in Children(results)}
<1>1. Entry(A, r, limit, n).fps = MergePrints(DispatchCommand(r).fps, prints)
    BY RecognizedPrints DEF Entry
<1>2. ASSUME NEW f \in prints
      PROVE  Honest(r.ctx.world, f)
    <2>1. PICK x \in Children(results) : f = x.fps
        OBVIOUS
    <2>2. n # 0 /\ \E h \in Hops(r) : x = below[h]
        BY ChildrenAreHops
    <2> QED
        BY <2>1, <2>2
<1>3. Honest(r.ctx.world, DispatchCommand(r).fps)
    BY DispatchHonest
<1> HIDE DEF prints
<1> QED
    BY <1>1, <1>2, <1>3, MergedPrints

LEMMA TableHonest ==
    ASSUME NEW top, NEW limit
    PROVE  \A r \in top : Honest(r.ctx.world, Resolutions(Levels(top), limit)[MaxDepth][r].fps)
<1> DEFINE lev == Levels(top)
           A == Resolutions(lev, limit)
           good(n) == \A r \in lev[MaxDepth - n] : Honest(r.ctx.world, A[n][r].fps)
           S == {n \in Nat : n <= MaxDepth => good(n)}
<1>1. ASSUME NEW n \in 0 .. MaxDepth, NEW r \in lev[MaxDepth - n],
             n # 0 => \A h \in Hops(r) : Honest(r.ctx.world, A[n - 1][h].fps)
      PROVE  Honest(r.ctx.world, A[n][r].fps)
    <2>1. A[n][r] = Entry(A, r, limit, n)
        BY Entries
    <2> HIDE DEF A, lev
    <2> QED
        BY <1>1, <2>1, EntryHonest
<1> HIDE DEF A
<1>2. 0 \in S
    BY <1>1, DepthAssumption
<1>3. ASSUME NEW n \in Nat, n \in S
      PROVE  n + 1 \in S
    <2> SUFFICES ASSUME n + 1 <= MaxDepth, NEW r \in lev[MaxDepth - (n + 1)]
                 PROVE  Honest(r.ctx.world, A[n + 1][r].fps)
        OBVIOUS
    <2>1. Hops(r) \subseteq lev[MaxDepth - n]
        BY LevelBelow
    <2>2. n <= MaxDepth /\ n + 1 \in 0 .. MaxDepth /\ (n + 1) - 1 = n
        BY DepthAssumption
    <2>3. good(n)
        BY <1>3, <2>2
    <2> HIDE DEF lev
    <2>4. \A h \in Hops(r) : Honest(r.ctx.world, A[n][h].fps)
        BY <2>1, <2>3, HopContext
    <2> QED
        BY <1>1, <2>2, <2>4
<1> HIDE DEF S
<1>4. MaxDepth \in S
    BY <1>2, <1>3, NumbersInduct, DepthAssumption
<1>5. good(MaxDepth)
    BY <1>4, DepthAssumption DEF S
<1>6. lev[0] = top /\ MaxDepth - MaxDepth = 0
    BY LevelsAre, DepthAssumption DEF IsLevels
<1> QED
    BY <1>5, <1>6 DEF A

\* A request that came to a good end passed its own fingerprints and those of
\* everything below it on.
LEMMA EntryCovers ==
    ASSUME NEW A, NEW r, NEW limit \in Nat, NEW n, Sound(Entry(A, r, limit, n).status)
    PROVE  /\ Sound(DispatchCommand(r).status)
           /\ DOMAIN DispatchCommand(r).fps \subseteq DOMAIN Entry(A, r, limit, n).fps
           /\ \A h \in Hops(r) :
                 /\ n # 0 /\ Sound(A[n - 1][h].status)
                 /\ DOMAIN A[n - 1][h].fps \subseteq DOMAIN Entry(A, r, limit, n).fps
<1> DEFINE below == IF n = 0 THEN <<>> ELSE A[n - 1]
           results == ScriptResults(r, ScriptsOf(r), limit, n, below)
           prints == {x.fps : x \in Children(results)}
<1>1. DOMAIN Entry(A, r, limit, n).fps = DOMAIN DispatchCommand(r).fps \cup UNION {DOMAIN f : f \in prints}
    <2>1. Entry(A, r, limit, n).fps = MergePrints(DispatchCommand(r).fps, prints)
        BY RecognizedPrints DEF Entry
    <2> HIDE DEF prints
    <2> QED
        BY <2>1, MergedPrints
<1>2. AllFollowed(results) /\ Sound(DispatchCommand(r).status)
    BY RecognizedFollowed DEF Entry
<1>3. ASSUME NEW h \in Hops(r)
      PROVE  /\ n # 0 /\ Sound(A[n - 1][h].status)
             /\ DOMAIN A[n - 1][h].fps \subseteq DOMAIN Entry(A, r, limit, n).fps
    <2>1. n # 0 /\ below[h] \in Children(results)
        BY <1>2, HopsAreChildren
    <2>2. below[h] = A[n - 1][h]
        BY <2>1
    <2>3. Sound(below[h].status)
        BY <1>2, <2>1 DEF AllFollowed, Children, ToSet
    <2>4. below[h].fps \in prints
        BY <2>1
    <2> HIDE DEF prints, below
    <2> QED
        BY <1>1, <2>1, <2>2, <2>3, <2>4
<1> QED
    BY <1>1, <1>2, <1>3

\* What a request relies on itself: its package scripts and its build.
ReliesOn(r) ==
    {s.key : s \in {x \in ToSet(ScriptsOf(r)) : x.key.kind = "npm-script"}}
    \cup {ConfigKey(q) : q \in {x \in {r} : x.cmd.name \in BuildTools}}

\* Down from the line, every request came to a good end and its fingerprints
\* are among those of the line.
LEMMA TableCovers ==
    ASSUME NEW top, NEW limit \in Nat, NEW K,
           \A r \in top : LET c == Resolutions(Levels(top), limit)[MaxDepth][r]
                          IN  Sound(c.status) /\ DOMAIN c.fps \subseteq K
    PROVE  \A m \in 0 .. MaxDepth : \A r \in Levels(top)[m] : ReliesOn(r) \subseteq K
<1> DEFINE lev == Levels(top)
           A == Resolutions(lev, limit)
           fine(r, n) == Sound(A[n][r].status) /\ DOMAIN A[n][r].fps \subseteq K
           good(m) == \A r \in lev[m] : fine(r, MaxDepth - m)
           S == {m \in Nat : m <= MaxDepth => good(m)}
<1>1. ASSUME NEW n \in 0 .. MaxDepth, NEW r \in lev[MaxDepth - n], fine(r, n)
      PROVE  /\ DOMAIN DispatchCommand(r).fps \subseteq K /\ Sound(DispatchCommand(r).status)
             /\ \A h \in Hops(r) : n # 0 /\ fine(h, n - 1)
    <2>1. A[n][r] = Entry(A, r, limit, n)
        BY Entries
    <2> HIDE DEF A, lev
    <2>2. /\ DOMAIN DispatchCommand(r).fps \subseteq DOMAIN A[n][r].fps
          /\ Sound(DispatchCommand(r).status)
          /\ \A h \in Hops(r) : /\ n # 0 /\ Sound(A[n - 1][h].status)
                                 /\ DOMAIN A[n - 1][h].fps \subseteq DOMAIN A[n][r].fps
        BY <1>1, <2>1, EntryCovers
    <2> QED
        BY <1>1, <2>2
<1>2. lev = [m \in 0 .. MaxDepth |-> IF m = 0 THEN top ELSE UNION {Hops(x) : x \in lev[m - 1]}]
    BY LevelsAre DEF IsLevels
<1>3. 0 \in S
    <2>1. \A r \in top : fine(r, MaxDepth)
        OBVIOUS
    <2>2. lev[0] = top /\ MaxDepth - 0 = MaxDepth
        BY <1>2, DepthAssumption
    <2> HIDE DEF lev, A, fine
    <2> QED
        BY <2>1, <2>2
<1> HIDE DEF A, fine
<1>4. ASSUME NEW m \in Nat, m \in S
      PROVE  m + 1 \in S
    <2> HIDE DEF lev
    <2> SUFFICES ASSUME m + 1 <= MaxDepth, NEW h \in lev[m + 1]
                 PROVE  fine(h, MaxDepth - (m + 1))
        OBVIOUS
    <2>1. m <= MaxDepth /\ m + 1 \in 0 .. MaxDepth /\ (m + 1) - 1 = m /\ m + 1 # 0
        BY DepthAssumption
    <2>2. lev[m + 1] = UNION {Hops(x) : x \in lev[m]}
        BY <1>2, <2>1
    <2>3. PICK r \in lev[m] : h \in Hops(r)
        BY <2>2
    <2>4. /\ MaxDepth - m \in 0 .. MaxDepth /\ MaxDepth - (MaxDepth - m) = m
          /\ (MaxDepth - m) - 1 = MaxDepth - (m + 1)
        BY <2>1, DepthAssumption
    <2>5. good(m)
        BY <1>4, <2>1
    <2>6. fine(r, MaxDepth - m) /\ r \in lev[MaxDepth - (MaxDepth - m)]
        BY <2>3, <2>4, <2>5
    <2>7. fine(h, (MaxDepth - m) - 1)
        BY <1>1, <2>3, <2>4, <2>6
    <2> QED
        BY <2>4, <2>7
<1> HIDE DEF S
<1>5. Nat \subseteq S
    BY <1>3, <1>4, NumbersInduct
<1>6. ASSUME NEW m \in 0 .. MaxDepth, NEW r \in lev[m], NEW k \in ReliesOn(r)
      PROVE  k \in K
    <2>1. good(m)
        BY <1>5, DepthAssumption DEF S
    <2>2. MaxDepth - m \in 0 .. MaxDepth /\ MaxDepth - (MaxDepth - m) = m
        BY DepthAssumption
    <2> HIDE DEF lev
    <2>3. DOMAIN DispatchCommand(r).fps \subseteq K /\ Sound(DispatchCommand(r).status)
        BY <1>1, <2>1, <2>2
    <2>4. k \in DOMAIN DispatchCommand(r).fps
        BY <2>3, DispatchHonest DEF ReliesOn
    <2> QED
        BY <2>3, <2>4
<1> QED
    BY <1>6

\* The requests a line comes to, by the wrapper hops that lead to them, and
\* everything they rely on.
Asks(ctx, line, cwd) == Levels({LineRequest(ctx, c) : c \in ToSet(Parse(line, cwd).commands)})

Relied(ctx, line, cwd) ==
    UNION {UNION {ReliesOn(r) : r \in Asks(ctx, line, cwd)[n]} : n \in 0 .. MaxDepth}

\* Its fingerprints say what the scripts say, and of an action that may be
\* approved they cover everything the line relies on, at any depth.
LEMMA LineReads ==
    ASSUME NEW ctx, NEW limit \in Nat, NEW line, NEW cwd, NEW act,
           act = ResolveInContext(ctx, limit, line, cwd)
    PROVE  /\ Honest(ctx.world, act.fps)
           /\ Approvable(act.status) => Relied(ctx, line, cwd) \subseteq DOMAIN act.fps
<1> DEFINE parsed == Parse(line, cwd)
           commands == parsed.commands
           top == {LineRequest(ctx, c) : c \in ToSet(commands)}
           found == Resolutions(Levels(top), limit)[MaxDepth]
           results == LineResults(ctx, commands, limit, found)
           status == Weakest({ctx.status, ParseStatus(parsed), LateStatus(Late(commands, limit))})
           prints == {c.fps : c \in ToSet(results)}
           capped == IF Len(results) > MaxCommands THEN "UNRESOLVED" ELSE "RESOLVED"
           parts == {status, capped} \cup {c.status : c \in ToSet(results)}
<1>1. act = Aggregate(ctx, line, results, status, Truncated(parsed) \/ Late(commands, limit))
    BY DEF ResolveInContext, ResolveLine, FoundFor
<1>2. act.fps = MergePrints(NoPrints, prints) /\ act.status = Weakest(parts)
    BY <1>1 DEF Aggregate
<1>3. /\ DOMAIN results = Examined(commands, limit)
      /\ \A i \in Examined(commands, limit) : results[i] = found[LineRequest(ctx, commands[i])]
    BY DEF LineResults
<1>4. \A r \in top : r.ctx = ctx
    BY DEF LineRequest
<1>5. \A i \in DOMAIN commands : LineRequest(ctx, commands[i]) \in top
    BY DEF ToSet
<1>6. \A r \in top : Honest(ctx.world, found[r].fps)
    BY <1>4, TableHonest
<1> HIDE DEF found, results, status, capped
<1>7. Honest(ctx.world, act.fps)
    <2>1. ASSUME NEW f \in prints
          PROVE  Honest(ctx.world, f)
        <3>1. PICK i \in Examined(commands, limit) : f = found[LineRequest(ctx, commands[i])].fps
            BY <1>3 DEF ToSet
        <3>2. i \in DOMAIN commands
            BY DEF Examined
        <3> HIDE DEF top, parsed
        <3> QED
            BY <1>5, <1>6, <3>1, <3>2
    <2>2. Honest(ctx.world, NoPrints)
        BY DEF Honest, NoPrints
    <2> HIDE DEF prints
    <2> QED
        BY <1>2, <2>1, <2>2, MergedPrints
<1>8. ASSUME Approvable(act.status)
      PROVE  \A r \in top : Sound(found[r].status) /\ DOMAIN found[r].fps \subseteq DOMAIN act.fps
    <2>1. \A p \in parts : Sound(p)
        <3> HIDE DEF parts
        <3> QED
            BY <1>2, <1>8, ApprovableSound, WeakestSound
    <2>2. Sound(LateStatus(Late(commands, limit)))
        <3>1. Sound(status)
            BY <2>1
        <3> QED
            BY <3>1, WeakestSound DEF status
    <2>3. Examined(commands, limit) = DOMAIN commands
        BY <2>2, InTime
    <2> SUFFICES ASSUME NEW r \in top
                 PROVE  Sound(found[r].status) /\ DOMAIN found[r].fps \subseteq DOMAIN act.fps
        OBVIOUS
    <2>4. PICK i \in DOMAIN commands : r = LineRequest(ctx, commands[i])
        BY DEF ToSet
    <2>5. found[r] \in ToSet(results)
        BY <1>3, <2>3, <2>4 DEF ToSet
    <2>6. Sound(found[r].status)
        BY <2>1, <2>5
    <2>7. found[r].fps \in prints
        BY <2>5
    <2> HIDE DEF prints
    <2>8. DOMAIN act.fps = DOMAIN NoPrints \cup UNION {DOMAIN f : f \in prints}
        BY <1>2, MergedPrints
    <2> QED
        BY <2>6, <2>7, <2>8
<1>9. ASSUME Approvable(act.status), NEW k \in Relied(ctx, line, cwd)
      PROVE  k \in DOMAIN act.fps
    <2> DEFINE lev == Levels(top)
    <2>0. Asks(ctx, line, cwd) = lev
        BY DEF Asks
    <2>1. PICK n \in 0 .. MaxDepth : \E r \in lev[n] : k \in ReliesOn(r)
        <3> HIDE DEF lev
        <3> QED
            BY <1>9, <2>0 DEF Relied
    <2>2. \A r \in top : /\ Sound(Resolutions(lev, limit)[MaxDepth][r].status)
                         /\ DOMAIN Resolutions(lev, limit)[MaxDepth][r].fps \subseteq DOMAIN act.fps
        BY <1>8, <1>9 DEF found
    <2> HIDE DEF top
    <2>3. \A m \in 0 .. MaxDepth : \A r \in lev[m] : ReliesOn(r) \subseteq DOMAIN act.fps
        BY <2>2, TableCovers
    <2> HIDE DEF lev
    <2> QED
        BY <2>1, <2>3
<1> QED
    BY <1>7, <1>9

\* The same request asked in another context.
AskedIn(ctx, r) == [ctx |-> ctx, cmd |-> r.cmd, chain |-> r.chain]

LEMMA ReliedElsewhere ==
    ASSUME NEW r, NEW ctx, ctx.world = r.ctx.world, ctx.ws = r.ctx.ws
    PROVE  /\ ReliesOn(AskedIn(ctx, r)) = ReliesOn(r)
           /\ \A h \in Hops(r) : AskedIn(ctx, h) \in Hops(AskedIn(ctx, r))
<1> DEFINE q == AskedIn(ctx, r)
<1>1. q.ctx = ctx /\ q.cmd = r.cmd /\ q.chain = r.chain
    BY DEF AskedIn
<1> HIDE DEF q
<1>2. ManifestOf(q) = ManifestOf(r)
    BY <1>1 DEF ManifestOf
<1>3. \A call, m : RunRefused(q, call, m) = RunRefused(r, call, m)
    BY <1>1 DEF RunRefused
<1>4. \A args, m : ExecRefused(q, args, m) = ExecRefused(r, args, m)
    BY <1>1 DEF ExecRefused
<1>5. \A call, m : NpmScripts(q, call, m) = NpmScripts(r, call, m)
    BY <1>1, <1>3, <1>4 DEF NpmScripts
<1>6. ScriptsOf(q) = ScriptsOf(r)
    BY <1>1, <1>2, <1>5 DEF ScriptsOf
<1>7. ASSUME NEW h \in Hops(r)
      PROVE  AskedIn(ctx, h) \in Hops(q)
    <2>1. PICK s \in ToSet(ScriptsOf(r)) : \E x \in ToSet(Parse(s.text, s.cwd).commands) : h = HopRequest(r, s, x)
        BY DEF Hops
    <2>2. PICK c \in ToSet(Parse(s.text, s.cwd).commands) : h = HopRequest(r, s, c)
        BY <2>1
    <2>3. AskedIn(ctx, h) = HopRequest(q, s, c)
        BY <1>1, <2>2 DEF HopRequest, AskedIn
    <2> QED
        BY <1>6, <2>2, <2>3 DEF Hops
<1>8. ReliesOn(q) = ReliesOn(r)
    BY <1>1, <1>6 DEF ReliesOn, ConfigKey
<1> QED
    BY <1>7, <1>8 DEF q

\* What was remembered has no say in what a line relies on.
LEMMA SameRelied ==
    ASSUME NEW a, NEW b, a.world = b.world, a.ws = b.ws, NEW line, NEW cwd
    PROVE  Relied(a, line, cwd) \subseteq Relied(b, line, cwd)
<1> DEFINE commands == ToSet(Parse(line, cwd).commands)
           top(ctx) == {LineRequest(ctx, c) : c \in commands}
           A == Asks(a, line, cwd)
           B == Asks(b, line, cwd)
           good(m) == \A r \in A[m] : r.ctx = a /\ AskedIn(b, r) \in B[m]
           S == {m \in Nat : m <= MaxDepth => good(m)}
<1>1. /\ A = [m \in 0 .. MaxDepth |-> IF m = 0 THEN top(a) ELSE UNION {Hops(x) : x \in A[m - 1]}]
      /\ B = [m \in 0 .. MaxDepth |-> IF m = 0 THEN top(b) ELSE UNION {Hops(x) : x \in B[m - 1]}]
    BY LevelsAre DEF IsLevels, Asks
<1> HIDE DEF A, B
<1>2. A[0] = top(a) /\ B[0] = top(b)
    BY <1>1, DepthAssumption
<1>3. \A c : LineRequest(a, c).ctx = a /\ AskedIn(b, LineRequest(a, c)) = LineRequest(b, c)
    BY DEF LineRequest, AskedIn
<1>4. 0 \in S
    <2> HIDE DEF commands
    <2> QED
        BY <1>2, <1>3
<1>5. ASSUME NEW m \in Nat, m \in S
      PROVE  m + 1 \in S
    <2> SUFFICES ASSUME m + 1 <= MaxDepth, NEW h \in A[m + 1]
                 PROVE  h.ctx = a /\ AskedIn(b, h) \in B[m + 1]
        OBVIOUS
    <2>1. m <= MaxDepth /\ m + 1 \in 0 .. MaxDepth /\ (m + 1) - 1 = m /\ m + 1 # 0
        BY DepthAssumption
    <2>2. /\ A[m + 1] = UNION {Hops(x) : x \in A[m]}
          /\ B[m + 1] = UNION {Hops(x) : x \in B[m]}
        BY <1>1, <2>1
    <2>3. PICK r \in A[m] : h \in Hops(r)
        BY <2>2
    <2>4. r.ctx = a /\ AskedIn(b, r) \in B[m]
        BY <1>5, <2>1, <2>3
    <2>5. AskedIn(b, h) \in Hops(AskedIn(b, r))
        BY <2>3, <2>4, ReliedElsewhere
    <2>6. h.ctx = a
        BY <2>3, <2>4, HopContext
    <2> QED
        BY <2>2, <2>4, <2>5, <2>6
<1> HIDE DEF S
<1>6. Nat \subseteq S
    BY <1>4, <1>5, NumbersInduct
<1>7. ASSUME NEW n \in 0 .. MaxDepth, NEW r \in A[n]
      PROVE  AskedIn(b, r) \in B[n] /\ ReliesOn(AskedIn(b, r)) = ReliesOn(r)
    <2>1. good(n)
        BY <1>6, DepthAssumption DEF S
    <2>2. ReliesOn(AskedIn(b, r)) = ReliesOn(r)
        BY <2>1, ReliedElsewhere
    <2> QED
        BY <2>1, <2>2
<1>8. ASSUME NEW k \in Relied(a, line, cwd)
      PROVE  k \in Relied(b, line, cwd)
    <2>1. PICK n \in 0 .. MaxDepth : \E r \in A[n] : k \in ReliesOn(r)
        BY <1>8 DEF Relied, A
    <2>2. \E r \in B[n] : k \in ReliesOn(r)
        BY <1>7, <2>1
    <2> QED
        BY <2>2 DEF Relied, B
<1> QED
    BY <1>8

-----------------------------------------------------------------------------
(* The context of a request.                                               *)

\* Leaving out the answers that are still right changes no answer.
LEMMA OutdatedSuffices ==
    ASSUME NEW fs, NEW held, NEW ws, NEW dir
    PROVE  IsGeneratedRoot(fs, Outdated(fs, held, ws), dir, ws) = IsGeneratedRoot(fs, held, dir, ws)
BY DEF IsGeneratedRoot, Outdated

\* held remembers everything that before did, and the same of it.
Keeps(held, before) == \A d \in DOMAIN before : d \in DOMAIN held /\ held[d] = before[d]

LEMMA RememberKeeps ==
    ASSUME NEW fs, NEW held, NEW paths, NEW ws
    PROVE  Keeps(Remember(fs, held, paths, ws), held)
BY DEF Keeps, Remember, IsGeneratedRoot

\* What a request is resolved in when nothing is remembered.
Plain(w, request) == BuildContext(w, [d \in {} |-> FALSE], request.cwd, request.hint)

FreshIn(w, held, ws) == \A d \in DOMAIN held : held[d] = ComputeGeneratedRoot(w.fs, d, ws)

LEMMA FreshContext ==
    ASSUME NEW w, NEW request, NEW held, NEW before, Keeps(held, before)
    PROVE  /\ BuildContext(w, before, request.cwd, request.hint).ws = Plain(w, request).ws
           /\ FreshIn(w, held, Plain(w, request).ws)
                 => BuildContext(w, before, request.cwd, request.hint) = Plain(w, request)
<1> DEFINE ws == FindWorkspace(w.fs, CanonicalDir(w.fs, request.cwd), CanonicalDir(w.fs, request.hint))
<1>1. \A c : BuildContext(w, c, request.cwd, request.hint) = ContextIn(w, c, ws)
    BY DEF BuildContext
<1> HIDE DEF ws
<1>2. \A c : ContextIn(w, c, ws).ws = ws
    BY DEF ContextIn
<1>3. ASSUME FreshIn(w, held, ws)
      PROVE  Outdated(w.fs, before, ws) = Outdated(w.fs, [d \in {} |-> FALSE], ws)
    <2>1. {x \in DOMAIN before : before[x] # ComputeGeneratedRoot(w.fs, x, ws)} = {}
        BY <1>3 DEF FreshIn, Keeps
    <2>2. Outdated(w.fs, before, ws) = [d \in {} |-> before[d]]
        BY <2>1 DEF Outdated
    <2>3. Outdated(w.fs, [d \in {} |-> FALSE], ws) = [d \in {} |-> FALSE]
        BY DEF Outdated
    <2>4. [d \in {} |-> before[d]] = [d \in {} |-> FALSE]
        OBVIOUS
    <2> QED
        BY <2>2, <2>3, <2>4
<1>4. Plain(w, request) = ContextIn(w, [d \in {} |-> FALSE], ws)
    BY <1>1 DEF Plain
<1>5. ASSUME FreshIn(w, held, ws)
      PROVE  ContextIn(w, before, ws) = ContextIn(w, [d \in {} |-> FALSE], ws)
    BY <1>3, <1>5 DEF ContextIn
<1> QED
    BY <1>1, <1>2, <1>4, <1>5

-----------------------------------------------------------------------------
(* The invariant.                                                          *)

DefaultIn(w, ws) == DefaultBranch(ReadGitInfo(w, ws))

\* The pending decision was taken in world w on the approvals known, from what
\* the daemon remembered before it.
DecidedFrom(answer, w, known, before) ==
    LET request == answer.request
        ctx     == BuildContext(w, before, request.cwd, request.hint)
    IN  /\ answer.limit \in Budgets
        /\ answer.act = ResolveInContext(ctx, answer.limit, request.line, request.cwd)
        /\ answer.ws = ctx.ws
        /\ answer.decision = EvaluateDetailed(known, answer.act, answer.ws, DefaultIn(w, answer.ws))

AskedInv ==
    asked # NotAsked =>
        \E before : Keeps(cache, before) /\ DecidedFrom(asked, Now, approvals, before)

\* act is what the request comes to in world w when nothing outdated is
\* remembered, under some budget, and it may be approved.
Trusted(w, request, act) ==
    /\ \E limit \in Budgets :
          act = ResolveInContext(Plain(w, request), limit, request.line, request.cwd)
    /\ Validate(act, Plain(w, request).ws, DefaultIn(w, Plain(w, request).ws))

Revoked(a) == [a EXCEPT !.state = "REVOKED"]

Kinds == {"EXACT", "SEMANTIC"}

\* act was read from world w, whatever was remembered, and may be approved.
ReadFrom(w, request, act) ==
    /\ \E before : \E limit \in Budgets :
          act = ResolveInContext(BuildContext(w, before, request.cwd, request.hint), limit,
                                 request.line, request.cwd)
    /\ Approvable(act.status)

\* The approval was built from an action read in the world of its origin,
\* which is known when nothing outdated was remembered.
MadeFrom(a, o) ==
    \E act : \E kind \in Kinds :
        /\ a = Build(a.id, act, kind) \/ a = Revoked(Build(a.id, act, kind))
        /\ ReadFrom(Worlds[o.world], o.request, act)
        /\ o.fresh => Trusted(Worlds[o.world], o.request, act)

Origins == [request : UserTrusts, world : DOMAIN Worlds, fresh : BOOLEAN]

ApprovalsInv ==
    /\ world \in DOMAIN Worlds /\ origin \in Seq(Origins)
    /\ \A a \in approvals : a.id \in 1 .. Len(origin) /\ MadeFrom(a, origin[a.id])

IInv == ApprovalsInv /\ AskedInv

LEMMA DecideInit == Init => IInv
<1> SUFFICES ASSUME Init PROVE IInv
    OBVIOUS
<1>1. origin \in Seq(Origins)
    BY DEF Init
<1> QED
    BY <1>1 DEF Init, IInv, ApprovalsInv, AskedInv

LEMMA BuiltFields ==
    ASSUME NEW id, NEW act, NEW kind
    PROVE  /\ Build(id, act, kind).id = id /\ Build(id, act, kind).state = "ACTIVE"
           /\ Revoked(Build(id, act, kind)).id = id
           /\ Revoked(Build(id, act, kind)).state = "REVOKED"
BY DEF Build, Revoked

LEMMA EvaluateKeeps ==
    ASSUME IInv, NEW request \in Requests, NEW limit \in Budgets, Evaluate(request, limit)
    PROVE  IInv'
<1>1. UNCHANGED <<world, approvals, origin>>
    BY DEF Evaluate
<1>2. ApprovalsInv'
    BY <1>1 DEF IInv, ApprovalsInv
<1> DEFINE ctx == BuildContext(Now, cache, request.cwd, request.hint)
           act == ResolveInContext(ctx, limit, request.line, request.cwd)
<1>3. asked' = [request |-> request, limit |-> limit, act |-> act, ws |-> ctx.ws,
                floor |-> Outcome(HardRules(act, ctx.ws, DefaultIn(Now, ctx.ws))),
                decision |-> EvaluateDetailed(approvals, act, ctx.ws, DefaultIn(Now, ctx.ws))]
    BY DEF Evaluate, AnswerIn, Answer, Context, Default, DefaultIn
<1>4. DecidedFrom(asked', Now, approvals, cache)
    <2> HIDE DEF act
    <2>1. /\ asked'.request = request /\ asked'.limit = limit /\ asked'.act = act
          /\ asked'.ws = ctx.ws
          /\ asked'.decision = EvaluateDetailed(approvals, act, ctx.ws, DefaultIn(Now, ctx.ws))
        BY <1>3
    <2> QED
        BY <2>1 DEF DecidedFrom, act
<1>5. Keeps(cache', cache)
    <2>1. CASE asked'.ws = <<>>
        BY <2>1 DEF Evaluate, Keeps
    <2>2. CASE asked'.ws # <<>>
        BY <2>2, RememberKeeps DEF Evaluate
    <2> QED
        BY <2>1, <2>2
<1>6. AskedInv'
    <2>1. Now' = Now
        BY <1>1 DEF Now
    <2> QED
        BY <1>1, <1>4, <1>5, <2>1 DEF AskedInv
<1> QED
    BY <1>2, <1>6 DEF IInv

LEMMA ApproveKeeps ==
    ASSUME IInv, NEW kind \in Kinds, Approve(kind)
    PROVE  IInv'
<1> DEFINE id == Len(origin) + 1
           new == [request |-> asked.request, world |-> world, fresh |-> CacheIsFresh(asked.ws)]
           made == Build(id, asked.act, kind)
<1>1. /\ asked # NotAsked /\ asked.request \in UserTrusts
      /\ Validate(asked.act, asked.ws, Default(Context(asked.request)))
      /\ approvals' = approvals \cup {made}
      /\ origin' = Append(origin, new)
      /\ asked' = NotAsked /\ world' = world
    BY DEF Approve
<1>2. AskedInv'
    BY <1>1 DEF AskedInv
<1>3. new \in Origins /\ origin \in Seq(Origins) /\ world \in DOMAIN Worlds
    BY <1>1 DEF IInv, ApprovalsInv, Origins, CacheIsFresh
<1>4. /\ origin' \in Seq(Origins) /\ Len(origin') = id /\ origin'[id] = new
      /\ \A n \in 1 .. Len(origin) : origin'[n] = origin[n]
    <2> HIDE DEF new
    <2> QED
        BY <1>1, <1>3
<1>5. PICK before : Keeps(cache, before) /\ DecidedFrom(asked, Now, approvals, before)
    BY <1>1 DEF IInv, AskedInv
<1> DEFINE request == asked.request
           plain == Plain(Now, request)
<1>6. /\ Context(request).ws = plain.ws
      /\ BuildContext(Now, before, request.cwd, request.hint).ws = plain.ws
      /\ FreshIn(Now, cache, plain.ws)
            => BuildContext(Now, before, request.cwd, request.hint) = plain
    <2>1. Keeps(cache, cache)
        BY DEF Keeps
    <2> QED
        BY <1>5, <2>1, FreshContext DEF Context
<1>7. asked.ws = plain.ws
    BY <1>5, <1>6 DEF DecidedFrom
<1>8. ASSUME new.fresh
      PROVE  Trusted(Now, request, asked.act)
    <2>1. FreshIn(Now, cache, plain.ws)
        BY <1>7, <1>8 DEF CacheIsFresh, FreshIn
    <2>2. asked.act = ResolveInContext(plain, asked.limit, request.line, request.cwd)
        BY <1>5, <1>6, <2>1 DEF DecidedFrom
    <2>3. asked.limit \in Budgets
        BY <1>5 DEF DecidedFrom
    <2>4. Validate(asked.act, plain.ws, DefaultIn(Now, plain.ws))
        BY <1>1, <1>6, <1>7 DEF Default, DefaultIn
    <2> HIDE DEF plain
    <2> QED
        BY <2>2, <2>3, <2>4 DEF Trusted, plain
<1>9. made.id = id
    BY BuiltFields
<1>10. MadeFrom(made, new)
    <2>1. new.fresh => Trusted(Worlds[new.world], new.request, asked.act)
        BY <1>8 DEF Now
    <2>2. \E limit \in Budgets :
             asked.act = ResolveInContext(BuildContext(Now, before, request.cwd, request.hint), limit,
                                          request.line, request.cwd)
        BY <1>5 DEF DecidedFrom
    <2>3. Approvable(asked.act.status)
        BY <1>1 DEF Validate
    <2>4. ReadFrom(Now, request, asked.act)
        BY <2>2, <2>3 DEF ReadFrom
    <2>5. ReadFrom(Worlds[new.world], new.request, asked.act)
        BY <2>4 DEF Now
    <2> HIDE DEF new
    <2> QED
        BY <1>9, <2>1, <2>5 DEF MadeFrom
<1> HIDE DEF made, new
<1>11. \A a \in approvals' : a.id \in 1 .. Len(origin') /\ MadeFrom(a, origin'[a.id])
    <2> SUFFICES ASSUME NEW a \in approvals'
                 PROVE  a.id \in 1 .. Len(origin') /\ MadeFrom(a, origin'[a.id])
        OBVIOUS
    <2>1. Len(origin) \in Nat
        BY <1>3
    <2>2. CASE a = made
        <3>1. id \in 1 .. Len(origin')
            BY <1>4, <2>1
        <3> QED
            BY <1>4, <1>9, <1>10, <2>2, <3>1
    <2>3. CASE a \in approvals
        <3>1. a.id \in 1 .. Len(origin) /\ MadeFrom(a, origin[a.id])
            BY <2>3 DEF IInv, ApprovalsInv
        <3>2. a.id \in 1 .. Len(origin')
            BY <1>4, <2>1, <3>1
        <3> QED
            BY <1>4, <3>1, <3>2
    <2> QED
        BY <1>1, <2>2, <2>3
<1> QED
    BY <1>1, <1>2, <1>3, <1>4, <1>11 DEF IInv, ApprovalsInv, MadeFrom, Trusted

LEMMA RevokeKeeps == IInv /\ Revoke => IInv'
<1> SUFFICES ASSUME IInv, Revoke PROVE IInv'
    OBVIOUS
<1>1. PICK a \in approvals : /\ a.state = "ACTIVE"
                             /\ approvals' = (approvals \ {a}) \cup {Revoked(a)}
    BY DEF Revoke, Revoked
<1>2. UNCHANGED <<world, origin, asked>> /\ asked = NotAsked
    BY DEF Revoke
<1>3. a.id \in 1 .. Len(origin) /\ MadeFrom(a, origin[a.id])
    BY DEF IInv, ApprovalsInv
<1>4. PICK act : \E kind \in Kinds :
          /\ a = Build(a.id, act, kind) \/ a = Revoked(Build(a.id, act, kind))
          /\ ReadFrom(Worlds[origin[a.id].world], origin[a.id].request, act)
          /\ origin[a.id].fresh => Trusted(Worlds[origin[a.id].world], origin[a.id].request, act)
    BY <1>3 DEF MadeFrom
<1>5. PICK kind \in Kinds : a = Build(a.id, act, kind)
    BY <1>1, <1>4, BuiltFields
<1>6. Revoked(a).id = a.id /\ Revoked(a) = Revoked(Build(Revoked(a).id, act, kind))
    BY <1>5, BuiltFields
<1>7. MadeFrom(Revoked(a), origin[a.id])
    BY <1>4, <1>6 DEF MadeFrom
<1>8. \A b \in approvals' : b.id \in 1 .. Len(origin) /\ MadeFrom(b, origin[b.id])
    BY <1>1, <1>3, <1>6, <1>7 DEF IInv, ApprovalsInv
<1> QED
    BY <1>2, <1>8 DEF IInv, ApprovalsInv, AskedInv

LEMMA DecideNext == IInv /\ [Next]_vars => IInv'
<1> SUFFICES ASSUME IInv, [Next]_vars PROVE IInv'
    OBVIOUS
<1>1. ASSUME NEW request \in Requests, NEW limit \in Budgets, Evaluate(request, limit)
      PROVE  IInv'
    BY <1>1, EvaluateKeeps
<1>2. ASSUME NEW kind \in Kinds, Approve(kind)
      PROVE  IInv'
    BY <1>2, ApproveKeeps
<1>3. CASE Revoke
    BY <1>3, RevokeKeeps
<1>4. CASE Dismiss
    BY <1>4 DEF Dismiss, IInv, ApprovalsInv, AskedInv
<1>5. CASE EditProject
    BY <1>5 DEF EditProject, IInv, ApprovalsInv, AskedInv
<1>6. CASE RestartDaemon
    BY <1>6 DEF RestartDaemon, IInv, ApprovalsInv, AskedInv
<1>7. CASE UNCHANGED vars
    BY <1>7 DEF vars, IInv, ApprovalsInv, AskedInv, Now
<1> QED
    BY <1>1, <1>2, <1>3, <1>4, <1>5, <1>6, <1>7 DEF Next, Kinds

(* Every approval stems from an action of the request and the world its    *)
(* origin names, and the pending decision from what the daemon remembered  *)
(* (handlers_evaluate.go evaluate, handlers_approvals.go                   *)
(* handleCreateApproval).                                                  *)
THEOREM DecideInvariant == Spec => []IInv
<1>1. Init => IInv
    BY DecideInit
<1>2. IInv /\ [Next]_vars => IInv'
    BY DecideNext
<1> QED
    BY <1>1, <1>2, PTL DEF Spec

-----------------------------------------------------------------------------
(* Approvals work.                                                         *)

LEMMA AmpleIsLargest ==
    /\ Ample \in Nat /\ \A b \in Budgets : b \in Nat /\ b <= Ample
BY BudgetsAssumption DEF Ample

LEMMA RecognisedAgain == IInv => ApprovedIsRecognised
<1> SUFFICES ASSUME IInv, asked # NotAsked, NEW a \in approvals,
                    a.state = "ACTIVE", asked.limit = Ample,
                    origin[a.id].request = asked.request, origin[a.id].world = world,
                    origin[a.id].fresh, CacheIsFresh(asked.ws)
             PROVE  asked.decision.outcome = "ALLOW"
    BY DEF ApprovedIsRecognised
<1> DEFINE request == asked.request
           plain == Plain(Now, request)
           default == DefaultIn(Now, plain.ws)
<1>1. PICK before : Keeps(cache, before) /\ DecidedFrom(asked, Now, approvals, before)
    BY DEF IInv, AskedInv
<1>2. a.id \in 1 .. Len(origin) /\ MadeFrom(a, origin[a.id]) /\ origin \in Seq(Origins)
    BY DEF IInv, ApprovalsInv
<1>3. PICK act : \E kind \in Kinds :
          /\ a = Build(a.id, act, kind) \/ a = Revoked(Build(a.id, act, kind))
          /\ ReadFrom(Worlds[origin[a.id].world], origin[a.id].request, act)
          /\ origin[a.id].fresh => Trusted(Worlds[origin[a.id].world], origin[a.id].request, act)
    BY <1>2 DEF MadeFrom
<1>4. PICK kind \in Kinds : a = Build(a.id, act, kind)
    BY <1>3, BuiltFields
<1>5. Trusted(Now, request, act)
    BY <1>3 DEF Now
<1>6. PICK limit \in Budgets :
          act = ResolveInContext(plain, limit, request.line, request.cwd)
    BY <1>5 DEF Trusted
<1>7. Validate(act, plain.ws, default)
    BY <1>5 DEF Trusted
<1>8. Approvable(act.status)
    BY <1>7 DEF Validate
<1>9. act = ResolveInContext(plain, Ample, request.line, request.cwd)
    BY <1>6, <1>8, AmpleIsLargest, LineAgrees
<1>10. asked.ws = plain.ws
    BY <1>1, FreshContext DEF DecidedFrom
<1>11. BuildContext(Now, before, request.cwd, request.hint) = plain
    <2>1. FreshIn(Now, cache, plain.ws)
        BY <1>10 DEF CacheIsFresh, FreshIn
    <2> QED
        BY <1>1, <2>1, FreshContext
<1>12. asked.act = act
    BY <1>1, <1>9, <1>11 DEF DecidedFrom
<1>13. asked.decision = EvaluateDetailed(approvals, act, plain.ws, default)
    BY <1>1, <1>10, <1>12 DEF DecidedFrom
<1>14. Numbered(approvals) /\ a.id \in Nat
    <2>1. Len(origin) \in Nat
        BY <1>2
    <2> QED
        BY <1>2, <2>1 DEF Numbered, IInv, ApprovalsInv
<1> HIDE DEF plain, default
<1>15. Matches(a, act)
    BY <1>4, BuildMatches DEF Kinds
<1>16. EvaluateDetailed(approvals, act, plain.ws, default).outcome = "ALLOW"
    BY <1>7, <1>14, <1>15, CoveredIsAllowed
<1> QED
    BY <1>13, <1>16

(* An approval works again: for every project, command line, budget and    *)
(* sequence of evaluations, approvals, revocations, edits and restarts,    *)
(* the line an active approval was made from is let through whenever the   *)
(* project reads as it did, no outdated directory is remembered and the    *)
(* line is examined in full (resolve.go ResolveInContext and resolveScript *)
(* against create.go Validate and match.go Matches).                       *)
THEOREM RecognitionHolds == Spec => []ApprovedIsRecognised
<1>1. IInv => ApprovedIsRecognised
    BY RecognisedAgain
<1> QED
    BY <1>1, DecideInvariant, PTL

-----------------------------------------------------------------------------
(* Trust follows the text.                                                 *)

LEMMA MatchNamesTrust ==
    ASSUME NEW known, NEW act, NEW ws, NEW default, NEW d,
           d = EvaluateDetailed(known, act, ws, default), d.class = "APPROVAL_MATCH"
    PROVE  \E a \in known : a.id = d.approval /\ Covers(a, act)
<1> DEFINE floor == Outcome(HardRules(act, ws, default))
           reports == MismatchReports(known, act)
           match == Match(known, act)
<1>1. \A o, c, i, r : Decision(o, c, i, r).class = c /\ Decision(o, c, i, r).approval = i
    BY DEF Decision
<1>2. \A x \in DOMAIN UncertainClass : UncertainClass[x] # "APPROVAL_MATCH"
    BY DEF UncertainClass
<1>3. match # {} /\ d.approval = (CHOOSE x \in match : TRUE).id
    <2>1. d = IF floor = "BLOCK" THEN Decision("BLOCK", "HARD_RULE", 0, reports)
              ELSE IF floor = "ASK_ALWAYS" THEN Decision("ASK", "CONFIRMATION", 0, reports)
              ELSE IF act.status \in DOMAIN UncertainClass
                   THEN Decision("ASK", UncertainClass[act.status], 0, reports)
              ELSE IF HasAmbiguousTarget(act) THEN Decision("ASK", "AMBIGUOUS_PATH", 0, reports)
              ELSE IF BaselineReadOnlyWorkspace(act) THEN Decision("ALLOW", "READONLY", 0, {})
              ELSE IF match # {}
                   THEN Decision("ALLOW", "APPROVAL_MATCH", (CHOOSE x \in match : TRUE).id, {})
              ELSE IF reports # {} THEN Decision("ASK", "APPROVAL_MISMATCH", 0, reports)
              ELSE Decision("ASK", "NO_APPROVAL", 0, {})
        BY DEF EvaluateDetailed
    <2> HIDE DEF floor, reports, match
    <2> QED
        BY <1>1, <1>2, <2>1
<1> DEFINE a == CHOOSE x \in match : TRUE
<1>4. a \in match /\ a.id = d.approval
    BY <1>3
<1> HIDE DEF a
<1>5. a \in known /\ Matches(a, act)
    BY <1>4, MatchIsCovering
<1>6. Covers(a, act)
    BY <1>5 DEF Matches, Covers
<1> QED
    BY <1>4, <1>5, <1>6

\* Two worlds say the same of what a fingerprint names.
SameText(w, v, k) ==
    /\ k.kind = "npm-script" => /\ k.name \in DOMAIN Scripts(w, k) /\ k.name \in DOMAIN Scripts(v, k)
                                /\ Scripts(w, k)[k.name] = Scripts(v, k)[k.name]
    /\ \A tool \in BuildTools :
          k.kind = ConfigKind(tool) => ConfigText(w, tool, k.path) = ConfigText(v, tool, k.path)

\* A match names an approval that covers the action, and every package script
\* and every build the trusted line relied on, at any depth, reads as it did.
TrustFollowsText ==
    (asked # NotAsked /\ asked.decision.class = "APPROVAL_MATCH") =>
        \E a \in approvals :
            LET from == origin[a.id]
                then == Worlds[from.world]
            IN  /\ a.id = asked.decision.approval /\ Covers(a, asked.act)
                /\ \A k \in Relied(Plain(then, from.request), from.request.line, from.request.cwd) :
                      SameText(then, Now, k)

LEMMA ReadPrints ==
    ASSUME NEW w, NEW request, NEW act, ReadFrom(w, request, act)
    PROVE  /\ Honest(w, act.fps)
           /\ Relied(Plain(w, request), request.line, request.cwd) \subseteq DOMAIN act.fps
<1>1. PICK before : \E limit \in Budgets :
          act = ResolveInContext(BuildContext(w, before, request.cwd, request.hint), limit,
                                 request.line, request.cwd)
    BY DEF ReadFrom
<1> DEFINE ctx == BuildContext(w, before, request.cwd, request.hint)
           plain == Plain(w, request)
<1>2. PICK limit \in Budgets : act = ResolveInContext(ctx, limit, request.line, request.cwd)
    BY <1>1
<1>3. ctx.world = w /\ plain.world = w /\ ctx.ws = plain.ws
    BY DEF Plain, BuildContext, ContextIn
<1>4. limit \in Nat
    BY BudgetsAssumption
<1>5. Approvable(act.status)
    BY DEF ReadFrom
<1> HIDE DEF ctx, plain
<1>6. /\ Honest(w, act.fps)
      /\ Relied(ctx, request.line, request.cwd) \subseteq DOMAIN act.fps
    BY <1>2, <1>3, <1>4, <1>5, LineReads
<1>7. Relied(plain, request.line, request.cwd) \subseteq Relied(ctx, request.line, request.cwd)
    BY <1>3, SameRelied
<1> QED
    BY <1>6, <1>7 DEF plain

LEMMA TrustedText == IInv => TrustFollowsText
<1> SUFFICES ASSUME IInv, asked # NotAsked, asked.decision.class = "APPROVAL_MATCH"
             PROVE  TrustFollowsText
    BY DEF TrustFollowsText
<1>1. PICK before : DecidedFrom(asked, Now, approvals, before)
    BY DEF IInv, AskedInv
<1> DEFINE request == asked.request
           ctx == BuildContext(Now, before, request.cwd, request.hint)
<1>2. /\ asked.limit \in Nat
      /\ asked.act = ResolveInContext(ctx, asked.limit, request.line, request.cwd)
      /\ asked.decision = EvaluateDetailed(approvals, asked.act, asked.ws, DefaultIn(Now, asked.ws))
    BY <1>1, BudgetsAssumption DEF DecidedFrom
<1>3. ctx.world = Now
    BY DEF BuildContext, ContextIn
<1> HIDE DEF ctx
<1>4. Honest(Now, asked.act.fps)
    BY <1>2, <1>3, LineReads
<1>5. PICK a \in approvals : a.id = asked.decision.approval /\ Covers(a, asked.act)
    BY <1>2, MatchNamesTrust
<1> DEFINE from == origin[a.id]
           then == Worlds[from.world]
<1>6. PICK act : \E kind \in Kinds :
          /\ a = Build(a.id, act, kind) \/ a = Revoked(Build(a.id, act, kind))
          /\ ReadFrom(then, from.request, act)
    BY DEF IInv, ApprovalsInv, MadeFrom
<1>7. a.fps = act.fps
    BY <1>6 DEF Build, Revoked
<1>8. /\ Honest(then, act.fps)
      /\ Relied(Plain(then, from.request), from.request.line, from.request.cwd) \subseteq DOMAIN act.fps
    BY <1>6, ReadPrints
<1>9. ASSUME NEW k \in Relied(Plain(then, from.request), from.request.line, from.request.cwd)
      PROVE  SameText(then, Now, k)
    <2>1. k \in DOMAIN a.fps /\ k \in DOMAIN act.fps
        BY <1>7, <1>8
    <2>2. k \in DOMAIN asked.act.fps /\ asked.act.fps[k] = act.fps[k]
        BY <1>5, <1>7, <2>1 DEF Covers, FingerprintsHold
    <2>3. Says(then, k, act.fps[k]) /\ Says(Now, k, asked.act.fps[k])
        BY <1>4, <1>8, <2>1, <2>2 DEF Honest
    <2> QED
        BY <2>2, <2>3 DEF Says, SameText
<1> QED
    BY <1>5, <1>9 DEF TrustFollowsText

(* Trust follows the text that was trusted: for every project, line,       *)
(* budget and sequence of evaluations, approvals, edits and restarts, an   *)
(* approval lets a line through only while every package script that the   *)
(* trusted line ran, with its pre and post stages, through any number of   *)
(* wrappers, and the files of every build it ran read as they did          *)
(* (resolve.go resolveScript, npm.go, gradle.go and maven.go with          *)
(* fingerprint.go, match.go Matches).                                      *)
THEOREM TextHolds == Spec => []TrustFollowsText
<1>1. IInv => TrustFollowsText
    BY TrustedText
<1> QED
    BY <1>1, DecideInvariant, PTL

-----------------------------------------------------------------------------
(* What an effect looks like, whatever predicted it.                       *)

EffectRecord(y, t, n, f, a, b, s) ==
    [type |-> y, target |-> t, net |-> n, flags |-> f,
     prog |-> [name |-> a, resolution |-> b, streamed |-> s]]

IsEffect(e) == \E y, t, n, f, a, b, s : e = EffectRecord(y, t, n, f, a, b, s)

Shaped(E) == \A e \in E : IsEffect(e)

Whole(c) == IsCommand(c) /\ Shaped(c.effects)

LEMMA EffectsMade ==
    /\ \A y, t, f : IsEffect(Effect(y, t, f))
    /\ \A n, f : IsEffect(NetworkEffect(n, f))
    /\ \A a, b : IsEffect(ExecuteEffect(a, b))
<1>1. ASSUME NEW y, NEW t, NEW f
      PROVE  IsEffect(Effect(y, t, f))
    <2>1. Effect(y, t, f) = EffectRecord(y, t, NoNet, f \cup ({"wildcard"} \cap t.flags), "", "", FALSE)
        BY DEF Effect, EffectRecord, NoProg
    <2> QED
        BY <2>1 DEF IsEffect
<1>2. ASSUME NEW n, NEW f
      PROVE  IsEffect(NetworkEffect(n, f))
    <2>1. NetworkEffect(n, f) = EffectRecord("NETWORK", NoTarget, n, f, "", "", FALSE)
        BY DEF NetworkEffect, EffectRecord, NoProg
    <2> QED
        BY <2>1 DEF IsEffect
<1>3. ASSUME NEW a, NEW b
      PROVE  IsEffect(ExecuteEffect(a, b))
    <2>1. ExecuteEffect(a, b) = EffectRecord("EXECUTE", NoTarget, NoNet, {}, a, b, FALSE)
        BY DEF ExecuteEffect, EffectRecord
    <2> QED
        BY <2>1 DEF IsEffect
<1> QED
    BY <1>1, <1>2, <1>3

LEMMA EffectShapes ==
    /\ \A Y, T, f : Shaped(Effects(Y, T, f))
    /\ \A n, f : Shaped({NetworkEffect(n, f)})
    /\ \A a, b : Shaped({ExecuteEffect(a, b)})
    /\ \A E, F : Shaped(E) /\ Shaped(F) => Shaped(E \cup F)
    /\ Shaped({})
<1>1. \A Y, T, f : Shaped(Effects(Y, T, f))
    BY EffectsMade DEF Effects, Shaped
<1>2. (\A n, f : Shaped({NetworkEffect(n, f)})) /\ (\A a, b : Shaped({ExecuteEffect(a, b)}))
    BY EffectsMade DEF Shaped
<1>3. (\A E, F : Shaped(E) /\ Shaped(F) => Shaped(E \cup F)) /\ Shaped({})
    BY DEF Shaped
<1> QED
    BY <1>1, <1>2, <1>3

LEMMA DoneWhole ==
    ASSUME NEW op, NEW status, NEW E, Shaped(E)
    PROVE  Whole(Done(op, status, E)) /\ Whole(Resolved(op, E))
<1>1. IsCommand(Done(op, status, E)) /\ Done(op, status, E).effects = E
    BY DoneUnprinted DEF Unprinted, Done
<1>2. IsCommand(Resolved(op, E)) /\ Resolved(op, E).effects = E
    BY DoneUnprinted DEF Unprinted, Done, Resolved
<1> QED
    BY <1>1, <1>2 DEF Whole

LEMMA UnresolvedWhole ==
    ASSUME NEW req, NEW op
    PROVE  Whole(Unresolved(req, op))
<1> DEFINE E == {ExecuteEffect(req.cmd.name, "UNRESOLVED")}
<1>1. Shaped(E)
    BY EffectShapes
<1>2. Whole(Done(op, "UNRESOLVED", E))
    BY <1>1, DoneWhole
<1> QED
    BY <1>2 DEF Unresolved

LEMMA WholeChanges ==
    ASSUME NEW c, Whole(c), NEW x
    PROVE  /\ Whole([c EXCEPT !.git = x]) /\ Whole([c EXCEPT !.fps = x])
           /\ Whole(Degrade(c)) /\ Degrade(c).effects = c.effects
           /\ Shaped(x) => Whole([c EXCEPT !.effects = x]) /\ [c EXCEPT !.effects = x].effects = x
<1>1. PICK o, g, s, e, t, f, i : c = CommandRecord(o, g, s, e, t, f, i)
    BY DEF Whole, IsCommand
<1>2. e = c.effects
    BY <1>1 DEF CommandRecord
<1>3. /\ [c EXCEPT !.effects = x] = CommandRecord(o, g, s, x, t, f, i)
      /\ [c EXCEPT !.git = x] = CommandRecord(o, x, s, e, t, f, i)
      /\ [c EXCEPT !.fps = x] = CommandRecord(o, g, s, e, t, x, i)
      /\ Degrade(c) = CommandRecord(o, g, Weakest({c.status, "UNRESOLVED"}), e, t, f, i)
    BY <1>1 DEF CommandRecord, Degrade
<1>4. \A o1, g1, s1, e1, t1, f1, i1 :
         /\ CommandRecord(o1, g1, s1, e1, t1, f1, i1).effects = e1
         /\ Shaped(e1) => Whole(CommandRecord(o1, g1, s1, e1, t1, f1, i1))
    <2>1. \A o1, g1, s1, e1, t1, f1, i1 : CommandRecord(o1, g1, s1, e1, t1, f1, i1).effects = e1
        BY DEF CommandRecord
    <2> QED
        BY <2>1 DEF Whole, IsCommand
<1>5. Shaped(e)
    BY <1>2 DEF Whole
<1> QED
    BY <1>2, <1>3, <1>4, <1>5

LEMMA FilesWhole ==
    ASSUME NEW req, NEW scan
    PROVE  /\ Whole(RecognizeRead(req, scan))
           /\ Whole(RecognizeList(req, scan))
           /\ Whole(RecognizeRemove(req, scan))
           /\ Whole(RecognizeCopy(req, scan))
           /\ Whole(RecognizeMove(req, scan))
           /\ Whole(RecognizeMakeDir(req, scan))
           /\ Whole(RecognizeGrep(req, scan))
           /\ Whole(RecognizeFind(req, scan))
           /\ Whole(RecognizeCurl(req, scan))
           /\ Whole(RecognizeJSTest(req, scan))
           /\ Whole(RecognizeRimraf(req, scan))
<1>1. Whole(RecognizeRead(req, scan))
    BY EffectShapes, DoneWhole DEF RecognizeRead
<1>2. Whole(RecognizeList(req, scan))
    BY EffectShapes, DoneWhole DEF RecognizeList
<1>3. Whole(RecognizeRemove(req, scan))
    BY EffectShapes, DoneWhole, UnresolvedWhole DEF RecognizeRemove
<1>4. Whole(RecognizeCopy(req, scan))
    BY EffectShapes, DoneWhole, UnresolvedWhole DEF RecognizeCopy
<1>5. Whole(RecognizeMove(req, scan))
    <2>1. Shaped({Effect("DELETE", t, IF t.isDir THEN {"recursive"} ELSE {}) :
                      t \in TargetsOf(req, Sources(scan))})
        BY EffectsMade DEF Shaped
    <2> QED
        BY <2>1, EffectShapes, DoneWhole, UnresolvedWhole DEF RecognizeMove
<1>6. Whole(RecognizeMakeDir(req, scan))
    BY EffectShapes, DoneWhole, UnresolvedWhole DEF RecognizeMakeDir
<1>7. Whole(RecognizeGrep(req, scan))
    BY EffectShapes, DoneWhole, UnresolvedWhole DEF RecognizeGrep
<1>8. Whole(RecognizeFind(req, scan))
    <2>1. Shaped({ExecuteEffect(w.text, "UNRESOLVED") : w \in All(scan, {"-exec"})})
        BY EffectsMade DEF Shaped
    <2>2. ASSUME NEW targets
          PROVE  Shaped(FindEffects(req, scan, targets))
        BY <2>1, EffectShapes DEF FindEffects
    <2> QED
        BY <2>2, DoneWhole, UnresolvedWhole DEF RecognizeFind
<1>9. Whole(RecognizeCurl(req, scan))
    <2> DEFINE flags == {f \in {"inline_credential", "insecure_tls"} :
                            HasAny(scan, IF f = "insecure_tls" THEN {"-k"} ELSE {"-u"})}
               net(w) == [host |-> w.text, method |-> CurlMethod(scan), declared |-> ""]
               asks == {NetworkEffect(net(w), flags) : w \in ToSet(scan.operands)}
    <2>1. Shaped(asks)
        BY EffectsMade DEF Shaped
    <2>2. \/ RecognizeCurl(req, scan) = Unresolved(req, "HTTP_REQUEST")
          \/ \E reads, saves :
                RecognizeCurl(req, scan)
                = Resolved("HTTP_REQUEST", asks \cup Effects({"READ"}, reads, {})
                                                \cup Effects({"CREATE", "WRITE"}, saves, {}))
        BY Zenon DEF RecognizeCurl
    <2> HIDE DEF asks
    <2> QED
        BY <2>1, <2>2, EffectShapes, DoneWhole, UnresolvedWhole
<1>10. Shaped(TestEnvelope(req))
    <2>1. Shaped({ExecuteEffect(req.cmd.name, "DECLARED")})
        BY EffectShapes
    <2> QED
        BY <2>1, EffectShapes DEF TestEnvelope
<1>11. Whole(RecognizeJSTest(req, scan))
    BY <1>10, EffectShapes, DoneWhole, UnresolvedWhole DEF RecognizeJSTest
<1>12. Whole(RecognizeRimraf(req, scan))
    BY EffectShapes, DoneWhole, UnresolvedWhole DEF RecognizeRimraf
<1> QED
    BY <1>1, <1>2, <1>3, <1>4, <1>5, <1>6, <1>7, <1>8, <1>9, <1>11, <1>12

LEMMA HooksWhole ==
    ASSUME NEW req, NEW c, Whole(c), NEW skipped
    PROVE  Whole(WithHooks(req, c, skipped))
<1> DEFINE E == c.effects \cup {ExecuteEffect("git hook", "UNRESOLVED")}
<1>1. Shaped(E)
    <2>1. Shaped({ExecuteEffect("git hook", "UNRESOLVED")})
        BY EffectShapes
    <2>2. Shaped(c.effects)
        BY DEF Whole
    <2> QED
        BY <2>1, <2>2, EffectShapes
<1>2. Whole(Degrade([c EXCEPT !.effects = E]))
    BY <1>1, WholeChanges
<1> QED
    BY <1>2 DEF WithHooks

LEMMA GitWhole ==
    ASSUME NEW req
    PROVE  Whole(RecognizeGit(req))
<1>1. ASSUME NEW r, NEW sub \in DOMAIN GitGrammar, NEW args, NEW scan
      PROVE  Whole(GitSubcommand(r, sub, args, scan))
    <2>0. (\A types, flags : Shaped(RepoEffects(r, types, flags)))
          /\ (\A types : Shaped(GitDirEffects(r, types)))
        BY EffectShapes DEF RepoEffects, GitDirEffects
    <2>1. Whole(GitRead(r, GitOp[sub], args))
        BY <2>0, EffectShapes, DoneWhole DEF GitRead
    <2>2. Whole(GitDiff(r, scan, args))
        BY <2>0, EffectShapes, DoneWhole, UnresolvedWhole DEF GitDiff
    <2>3. Whole(GitAdd(r, scan)) /\ Whole(GitReset(r, scan))
        BY <2>0, EffectShapes, DoneWhole DEF GitAdd, GitReset
    <2>4. Whole(GitCommit(r, scan))
        BY <2>0, EffectShapes, DoneWhole, HooksWhole DEF GitCommit
    <2>5. Whole(GitCheckout(r, scan, sub = "restore", args))
        BY <2>0, EffectShapes, DoneWhole, HooksWhole DEF GitCheckout
    <2>6. Whole(GitPush(r, scan))
        <3>1. \A n, f : Shaped({NetworkEffect(n, f)})
            BY EffectShapes
        <3>2. \A n, f : Shaped({NetworkEffect(n, f)} \cup GitDirEffects(r, {"READ"}))
            BY <2>0, <3>1, EffectShapes
        <3>3. \A n, f : Whole(Resolved("GIT_PUSH", {NetworkEffect(n, f)} \cup GitDirEffects(r, {"READ"})))
            BY <3>2, DoneWhole
        <3>4. \A n, f, g, skipped :
                 Whole(WithHooks(r, [Resolved("GIT_PUSH", {NetworkEffect(n, f)} \cup GitDirEffects(r, {"READ"}))
                                        EXCEPT !.git = g], skipped))
            BY <3>3, WholeChanges, HooksWhole
        <3> QED
            BY <3>4, UnresolvedWhole DEF GitPush
    <2>7. Whole(Resolved("GIT_BRANCH", RepoEffects(r, {"READ"}, {}))) /\ Whole(Unresolved(r, GitOp[sub]))
        BY <2>0, DoneWhole, UnresolvedWhole
    <2>8. sub \in {"status", "log", "show", "branch", "diff", "add", "commit", "checkout",
                   "restore", "reset", "push"}
        BY DEF GitGrammar
    <2> QED
        BY <2>1, <2>2, <2>3, <2>4, <2>5, <2>6, <2>7, <2>8 DEF GitSubcommand
<1> QED
    BY <1>1, UnresolvedWhole DEF RecognizeGit

LEMMA BuildWhole ==
    ASSUME NEW req, NEW scan
    PROVE  Whole(RecognizeGradle(req, scan)) /\ Whole(RecognizeMaven(req, scan))
<1>1. ASSUME NEW dirs, NEW stores, NEW cleans
      PROVE  Shaped(BuildEnvelope(req, dirs, stores, cleans))
    <2>1. Shaped({NetworkEffect(Registry, {}), ExecuteEffect(req.cmd.name, "DECLARED")})
        BY EffectsMade DEF Shaped
    <2> QED
        BY <2>1, EffectShapes DEF BuildEnvelope
<1>2. ASSUME NEW table, NEW E, Shaped(E), NEW key, NEW files
      PROVE  Whole(DeclareBuild(req, scan, table, E, key, files))
    <2>1. \A op : Whole(Done(op, "DECLARED", E))
        BY <1>2, DoneWhole
    <2>2. \A op, x : Whole([Done(op, "DECLARED", E) EXCEPT !.fps = x])
        BY <2>1, WholeChanges
    <2> QED
        BY <2>2, UnresolvedWhole DEF DeclareBuild
<1>3. Whole(RecognizeGradle(req, scan))
    BY <1>1, <1>2, UnresolvedWhole DEF RecognizeGradle
<1>4. Whole(RecognizeMaven(req, scan))
    BY <1>1, <1>2, EffectShapes DEF RecognizeMaven
<1> QED
    BY <1>3, <1>4

LEMMA NpmWhole ==
    ASSUME NEW req, NEW call, call.kind \in {"run", "exec", "install", "unknown"}, NEW manifest
    PROVE  Whole(NpmCommand(req, call, manifest))
<1>1. Whole(NpmRunScript(req, call, manifest))
    <2>1. Whole(Resolved("RUN_SCRIPT", {}))
        BY EffectShapes, DoneWhole
    <2> QED
        BY <2>1, WholeChanges, UnresolvedWhole DEF NpmRunScript
<1>2. Whole(Resolved("RUN_SCRIPT", {}))
    BY EffectShapes, DoneWhole
<1>3. Whole(NpmInstall(req, call.args, manifest))
    <2>1. Shaped({NetworkEffect(Registry, {})}) /\ Shaped({ExecuteEffect("lifecycle scripts", "UNRESOLVED")})
        BY EffectShapes
    <2>2. \A T, W : Whole(Done("INSTALL_DEPENDENCIES", "DECLARED",
                     {NetworkEffect(Registry, {})} \cup Effects({"CREATE", "WRITE"}, T, {"recursive"})
                     \cup Effects({"WRITE"}, W, {})))
        BY <2>1, EffectShapes, DoneWhole
    <2>3. \A c : Whole(c) => Whole(Degrade([c EXCEPT
                 !.effects = @ \cup {ExecuteEffect("lifecycle scripts", "UNRESOLVED")}]))
        BY <2>1, EffectShapes, WholeChanges DEF Whole
    <2> QED
        BY <2>2, <2>3, UnresolvedWhole DEF NpmInstall
<1> QED
    BY <1>1, <1>2, <1>3, UnresolvedWhole DEF NpmCommand

LEMMA DispatchWhole ==
    ASSUME NEW req
    PROVE  Whole(DispatchCommand(req))
<1> DEFINE name == req.cmd.name
<1>1. CASE name = "git"
    BY <1>1, GitWhole DEF DispatchCommand
<1>2. CASE name = "node"
    <2>1. Shaped(TestEnvelope(req))
        <3>1. Shaped({ExecuteEffect(req.cmd.name, "DECLARED")})
            BY EffectShapes
        <3> QED
            BY <3>1, EffectShapes DEF TestEnvelope
    <2>2. Whole(RecognizeNode(req))
        BY <2>1, DoneWhole, UnresolvedWhole DEF RecognizeNode
    <2> QED
        BY <1>2, <2>2 DEF DispatchCommand
<1>3. CASE name \in PackageManagers
    <2>1. Whole(RecognizeNpm(req))
        BY NpmWhole, NpmCallKinds DEF RecognizeNpm
    <2> QED
        BY <1>3, <2>1 DEF DispatchCommand, PackageManagers
<1>4. CASE name \notin {"git", "node"} \cup PackageManagers /\ name \in DOMAIN GrammarOf
    <2> DEFINE g == GrammarOf[name]
               scan == Scan(g, req.cmd.args)
    <2>1. g \in {"readfile", "ls", "noop", "rm", "cp", "mv", "mkdir", "cat", "grep", "find", "curl",
                 "gradle", "maven", "jstest", "rimraf"}
        BY <1>4 DEF GrammarOf
    <2>2. DispatchCommand(req) = RecognizeScanned(req, g, scan)
        BY <1>4 DEF DispatchCommand
    <2>3. Whole(Resolved("NOOP", {}))
        BY EffectShapes, DoneWhole
    <2> HIDE DEF g, scan
    <2>4. Whole(RecognizeScanned(req, g, scan))
        BY <2>1, <2>3, FilesWhole, BuildWhole, UnresolvedWhole DEF RecognizeScanned
    <2> QED
        BY <2>2, <2>4
<1>5. CASE name \notin {"git", "node"} \cup PackageManagers \cup DOMAIN GrammarOf
    BY <1>5, UnresolvedWhole DEF DispatchCommand
<1> QED
    BY <1>1, <1>2, <1>3, <1>4, <1>5

-----------------------------------------------------------------------------
(* What the rules for every command do to its effects: they add some, and  *)
(* mark others as elevated or as fed by a pipe.                            *)

\* f is e, marked more strongly.
Marked(e, f) ==
    /\ IsEffect(f) /\ f.type = e.type /\ f.target = e.target /\ f.net = e.net
    /\ e.flags \subseteq f.flags /\ f.flags \subseteq e.flags \cup {"elevated"}
    /\ f.prog.resolution = e.prog.resolution
    /\ e.prog.streamed => f.prog.streamed

\* Everything in E is in F, marked more strongly.
Raised(E, F) == \A e \in E : \E f \in F : Marked(e, f)

LEMMA Marks ==
    ASSUME NEW e, IsEffect(e)
    PROVE  /\ Marked(e, e)
           /\ Marked(e, [e EXCEPT !.flags = @ \cup {"elevated"}])
           /\ \A b : (e.prog.streamed => b) => Marked(e, [e EXCEPT !.prog.streamed = b])
           /\ \A b : Marked(e, [e EXCEPT !.prog.streamed = b \/ @])
<1>1. PICK y, t, n, f, a, p, s : e = EffectRecord(y, t, n, f, a, p, s)
    BY DEF IsEffect
<1>2. Marked(e, e)
    BY DEF Marked
<1>3. Marked(e, [e EXCEPT !.flags = @ \cup {"elevated"}])
    <2>1. [e EXCEPT !.flags = @ \cup {"elevated"}]
          = EffectRecord(y, t, n, f \cup {"elevated"}, a, p, s)
        BY <1>1 DEF EffectRecord
    <2>2. IsEffect(EffectRecord(y, t, n, f \cup {"elevated"}, a, p, s))
        BY DEF IsEffect
    <2> DEFINE g == EffectRecord(y, t, n, f \cup {"elevated"}, a, p, s)
    <2>3. /\ g.type = y /\ g.target = t /\ g.net = n /\ g.flags = f \cup {"elevated"}
          /\ g.prog = [name |-> a, resolution |-> p, streamed |-> s]
        BY DEF EffectRecord
    <2>4. /\ e.type = y /\ e.target = t /\ e.net = n /\ e.flags = f
          /\ e.prog = [name |-> a, resolution |-> p, streamed |-> s]
        BY <1>1 DEF EffectRecord
    <2>5. IsEffect(g)
        BY <2>2
    <2> HIDE DEF g
    <2>6. Marked(e, g)
        BY <2>3, <2>4, <2>5 DEF Marked
    <2> QED
        BY <2>1, <2>6 DEF g
<1>4. ASSUME NEW b, e.prog.streamed => b
      PROVE  Marked(e, [e EXCEPT !.prog.streamed = b])
    <2> DEFINE g == EffectRecord(y, t, n, f, a, p, b)
    <2>1. [e EXCEPT !.prog.streamed = b] = g
        BY <1>1 DEF EffectRecord
    <2>2. IsEffect(g)
        BY DEF IsEffect
    <2>3. /\ g.type = y /\ g.target = t /\ g.net = n /\ g.flags = f
          /\ g.prog.resolution = p /\ g.prog.streamed = b
        BY DEF EffectRecord
    <2>4. /\ e.type = y /\ e.target = t /\ e.net = n /\ e.flags = f
          /\ e.prog.resolution = p
        BY <1>1 DEF EffectRecord
    <2> HIDE DEF g
    <2>5. Marked(e, g)
        BY <1>4, <2>2, <2>3, <2>4 DEF Marked
    <2> QED
        BY <2>1, <2>5
<1>5. ASSUME NEW b
      PROVE  Marked(e, [e EXCEPT !.prog.streamed = b \/ @])
    <2>1. e.prog.streamed = s
        BY <1>1 DEF EffectRecord
    <2>2. [e EXCEPT !.prog.streamed = b \/ @] = [e EXCEPT !.prog.streamed = b \/ s]
        BY <1>1 DEF EffectRecord
    <2> QED
        BY <1>4, <2>1, <2>2
<1> QED
    BY <1>2, <1>3, <1>4, <1>5

LEMMA RaisedOn ==
    ASSUME NEW E, NEW F, NEW G
    PROVE  /\ Raised(E, F) /\ Raised(F, G) => Raised(E, G)
           /\ Shaped(E) /\ E \subseteq F => Raised(E, F)
<1>1. \A e, f, g : Marked(e, f) /\ Marked(f, g) => Marked(e, g)
    BY DEF Marked
<1>2. Raised(E, F) /\ Raised(F, G) => Raised(E, G)
    BY <1>1 DEF Raised
<1>3. Shaped(E) /\ E \subseteq F => Raised(E, F)
    BY Marks DEF Raised, Shaped
<1> QED
    BY <1>2, <1>3

\* The effects of a command's redirections.
RedirectionEffects(req) ==
    UNION {{[Effect(y, t, {}) EXCEPT !.flags = {}] :
               y \in RedirectionTypes(r.op), t \in TargetsFor(req, r.word)} :
           r \in ToSet(req.cmd.redirs)}

\* What becomes of the effects of a command fed by a pipe, and of one that
\* runs as another user.
Own(req, e) == e.type = "EXECUTE" /\ e.prog.name = req.cmd.name

Streamed(req, E) ==
    IF ~req.cmd.pipedFrom \/ req.cmd.name \notin StreamInterpreters THEN E
    ELSE IF \E e \in E : Own(req, e)
    THEN {[e EXCEPT !.prog.streamed = Own(req, e) \/ @] : e \in E}
    ELSE E \cup {[ExecuteEffect(req.cmd.name, "UNRESOLVED") EXCEPT !.prog.streamed = TRUE]}

Elevated(req, E) ==
    IF ~req.cmd.elevated THEN E ELSE {[e EXCEPT !.flags = @ \cup {"elevated"}] : e \in E}

LEMMA RulesRaise ==
    ASSUME NEW req, NEW E, Shaped(E)
    PROVE  /\ Shaped(RedirectionEffects(req))
           /\ Raised(E, Streamed(req, E)) /\ Shaped(Streamed(req, E))
           /\ Raised(E, Elevated(req, E)) /\ Shaped(Elevated(req, E))
<1>1. Shaped(RedirectionEffects(req))
    <2>1. ASSUME NEW y, NEW t
          PROVE  IsEffect([Effect(y, t, {}) EXCEPT !.flags = {}])
        <3> DEFINE e == Effect(y, t, {})
        <3>1. IsEffect(e)
            BY EffectsMade
        <3> HIDE DEF e
        <3>2. PICK z, u, n, f, a, b, s : e = EffectRecord(z, u, n, f, a, b, s)
            BY <3>1 DEF IsEffect
        <3>3. [e EXCEPT !.flags = {}] = EffectRecord(z, u, n, {}, a, b, s)
            BY <3>2 DEF EffectRecord
        <3>4. IsEffect([e EXCEPT !.flags = {}])
            BY <3>3 DEF IsEffect
        <3> QED
            BY <3>4 DEF e
    <2> QED
        BY <2>1 DEF RedirectionEffects, Shaped
<1>2. \A e \in E : Marked(e, e)
    BY Marks DEF Shaped
<1>3. Raised(E, E)
    BY <1>2 DEF Raised
<1>4. Raised(E, Streamed(req, E)) /\ Shaped(Streamed(req, E))
    <2> DEFINE mark(e) == [e EXCEPT !.prog.streamed = Own(req, e) \/ @]
               marked == {mark(e) : e \in E}
               new == [ExecuteEffect(req.cmd.name, "UNRESOLVED") EXCEPT !.prog.streamed = TRUE]
    <2>1. ASSUME NEW e \in E
          PROVE  Marked(e, mark(e))
        <3>1. IsEffect(e)
            BY DEF Shaped
        <3> QED
            BY <3>1, Marks
    <2>2. \A e \in E : IsEffect(mark(e))
        BY <2>1 DEF Marked
    <2> HIDE DEF mark
    <2>3. Raised(E, marked) /\ Shaped(marked)
        BY <2>1, <2>2 DEF Raised, Shaped
    <2>4. IsEffect(new)
        BY EffectsMade, Marks DEF Marked
    <2> HIDE DEF new, marked
    <2>5. Raised(E, E \cup {new}) /\ Shaped(E \cup {new})
        BY <1>2, <2>4 DEF Raised, Shaped
    <2>6. Streamed(req, E) \in {E, marked, E \cup {new}}
        BY DEF Streamed, marked, mark, new
    <2> QED
        BY <1>3, <2>3, <2>5, <2>6
<1>5. Raised(E, Elevated(req, E)) /\ Shaped(Elevated(req, E))
    <2> DEFINE mark(e) == [e EXCEPT !.flags = @ \cup {"elevated"}]
               marked == {mark(e) : e \in E}
    <2>1. ASSUME NEW e \in E
          PROVE  Marked(e, mark(e))
        BY Marks DEF Shaped
    <2>2. \A e \in E : IsEffect(mark(e))
        BY <2>1 DEF Marked
    <2> HIDE DEF mark
    <2>3. Raised(E, marked) /\ Shaped(marked)
        BY <2>1, <2>2 DEF Raised, Shaped
    <2>4. Elevated(req, E) \in {E, marked}
        BY DEF Elevated, mark
    <2> HIDE DEF marked
    <2> QED
        BY <1>3, <2>3, <2>4
<1> QED
    BY <1>1, <1>4, <1>5

\* d is c with the effects E.
Turned(c, d, E) ==
    IsCommand(d) /\ d.op = c.op /\ d.git = c.git /\ d.inside = c.inside /\ d.effects = E

LEMMA Turns ==
    ASSUME NEW c, IsCommand(c), NEW E, NEW T
    PROVE  /\ Turned(c, Replaced(c, E, T), E)
           /\ Turned(c, Degrade(c), c.effects)
           /\ Turned(c, Degrade([c EXCEPT !.effects = E]), E)
<1>1. PICK o, g, s, e, t, f, i : c = CommandRecord(o, g, s, e, t, f, i)
    BY DEF IsCommand
<1>2. \A s1, e1, t1 :
         LET d == CommandRecord(o, g, s1, e1, t1, f, i)
         IN  /\ d.op = o /\ d.git = g /\ d.inside = i
             /\ d.effects = e1 /\ d.status = s1
    BY DEF CommandRecord
<1>3. c.op = o /\ c.git = g /\ c.inside = i /\ c.effects = e /\ c.status = s
    BY <1>1 DEF CommandRecord
<1>4. \A s1, e1, t1 : Turned(c, CommandRecord(o, g, s1, e1, t1, f, i), e1)
    BY <1>2, <1>3 DEF Turned, IsCommand
<1>5. \A x : Degrade(CommandRecord(o, g, s, x, t, f, i))
             = CommandRecord(o, g, Weakest({s, "UNRESOLVED"}), x, t, f, i)
    BY DEF Degrade, CommandRecord
<1>6. [c EXCEPT !.effects = E] = CommandRecord(o, g, s, E, t, f, i)
    BY <1>1 DEF CommandRecord
<1>7. Replaced(c, E, T) = CommandRecord(o, g, s, E, T, f, i)
    BY <1>1, ReplacedRecord
<1> QED
    BY <1>1, <1>3, <1>4, <1>5, <1>6, <1>7

LEMMA RecognizedTurned ==
    ASSUME NEW req, NEW results, NEW c, c = Absorb(DispatchCommand(req), results)
    PROVE  Turned(c, Recognize(req, results),
                  Elevated(req, Streamed(req, c.effects \cup RedirectionEffects(req))))
<1> DEFINE E == c.effects \cup RedirectionEffects(req)
           redirected == ApplyRedirections(req, c)
           assigned == ApplyEnvironmentOverrides(req, redirected)
           streamed == ApplyStreamedInput(req, assigned)
           elevated == ApplyElevation(req, streamed)
<1>1. IsCommand(c)
    BY DEF IsCommand, CommandRecord, Absorb, TakeOver
<1>2. Recognize(req, results) = elevated
    BY DEF Recognize
<1>3. Turned(c, redirected, E)
    <2> DEFINE T == c.targets \cup {e.target : e \in RedirectionEffects(req)}
    <2>1. redirected = Replaced(c, E, T)
        BY DEF ApplyRedirections, Replaced, RedirectionEffects
    <2> HIDE DEF redirected, E, T
    <2> QED
        BY <1>1, <2>1, Turns
<1> HIDE DEF redirected, E
<1>4. Turned(redirected, assigned, E)
    <2>1. IsCommand(redirected) /\ redirected.effects = E
        BY <1>3 DEF Turned
    <2>2. Turned(redirected, redirected, E) /\ Turned(redirected, Degrade(redirected), E)
        BY <2>1, Turns DEF Turned
    <2> QED
        BY <2>2 DEF ApplyEnvironmentOverrides
<1> HIDE DEF assigned
<1>5. Turned(assigned, streamed, Streamed(req, E))
    <2>1. IsCommand(assigned) /\ assigned.effects = E
        BY <1>4 DEF Turned
    <2>2. Turned(assigned, assigned, E)
        BY <2>1 DEF Turned
    <2>3. \A x : Turned(assigned, Degrade([assigned EXCEPT !.effects = x]), x)
        BY <2>1, Turns
    <2>4. CASE ~req.cmd.pipedFrom \/ req.cmd.name \notin StreamInterpreters
        BY <2>2, <2>4 DEF ApplyStreamedInput, Streamed
    <2>5. CASE ~(~req.cmd.pipedFrom \/ req.cmd.name \notin StreamInterpreters)
        <3>1. streamed = Degrade([assigned EXCEPT !.effects = Streamed(req, assigned.effects)])
            BY <2>5 DEF ApplyStreamedInput, Streamed, Own
        <3> QED
            BY <2>1, <2>3, <3>1
    <2> QED
        BY <2>4, <2>5
<1> HIDE DEF streamed
<1>6. Turned(streamed, elevated, Elevated(req, Streamed(req, E)))
    <2> DEFINE F == Streamed(req, E)
    <2>1. IsCommand(streamed) /\ streamed.effects = F
        BY <1>5 DEF Turned
    <2> HIDE DEF F
    <2>2. Turned(streamed, streamed, F)
        BY <2>1 DEF Turned
    <2>3. \A x : Turned(streamed, Degrade([streamed EXCEPT !.effects = x]), x)
        BY <2>1, Turns
    <2>4. Turned(streamed, elevated, Elevated(req, F))
        BY <2>1, <2>2, <2>3 DEF ApplyElevation, Elevated
    <2> QED
        BY <2>4 DEF F
<1> HIDE DEF elevated
<1> DEFINE G == Elevated(req, Streamed(req, E))
<1>7. Turned(streamed, elevated, G)
    BY <1>6
<1> HIDE DEF G
<1>8. Turned(c, elevated, G)
    BY <1>3, <1>4, <1>5, <1>7 DEF Turned
<1> QED
    BY <1>2, <1>8 DEF E, G

-----------------------------------------------------------------------------
(* The floor's view of a command inside a line.                            *)

Core(c) == [op |-> c.op, effects |-> c.effects, git |-> c.git]

\* What the floor is shown of a command by itself.
Shown(c) == [effects |-> c.effects, nested |-> {Core(c)}, incomplete |-> FALSE]

\* The action contains what the command does, and lists it with everything
\* inside it.
Carried(c, act) ==
    Raised(c.effects, act.effects) /\ Core(c) \in act.nested /\ c.inside \subseteq act.nested

LEMMA MarkedRules ==
    ASSUME NEW e, NEW f, Marked(e, f)
    PROVE  EffectRules(e) \subseteq EffectRules(f)
<1>1. /\ RuleR1(e) = RuleR1(f) /\ RuleR5(e) = RuleR5(f) /\ RuleR6(e) = RuleR6(f)
    BY DEF Marked, RuleR1, RuleR5, RuleR6
<1>2. DeleteRules(e) = DeleteRules(f)
    <2>1. e.flags \cap {"recursive", "wildcard"} = f.flags \cap {"recursive", "wildcard"}
        BY DEF Marked
    <2>2. (WideInHome(e) <=> WideInHome(f)) /\ (WideOutside(e) <=> WideOutside(f))
        BY <2>1 DEF Marked, WideInHome, WideOutside
    <2> QED
        BY <2>2 DEF Marked, DeleteRules
<1>3. RuleR10(e) \subseteq RuleR10(f)
    BY DEF Marked, RuleR10, Fires
<1>4. RuleR11(e) \subseteq RuleR11(f)
    BY DEF Marked, RuleR11, Fires
<1>5. RuleR12(e) \subseteq RuleR12(f)
    BY DEF Marked, RuleR12, Fires
<1>6. e.target = f.target
    BY DEF Marked
<1> QED
    BY <1>1, <1>2, <1>3, <1>4, <1>5, <1>6 DEF EffectRules

LEMMA CarriedRules ==
    ASSUME NEW c, NEW d, NEW act, Carried(d, act), NEW ws, NEW default,
           c.effects \subseteq d.effects, c.op = d.op, c.git = d.git
    PROVE  HardRules(Shown(c), ws, default) \subseteq HardRules(act, ws, default)
<1>1. /\ Shown(c).effects = c.effects /\ Shown(c).nested = {Core(c)}
      /\ Shown(c).incomplete = FALSE
    BY DEF Shown
<1>2. \A e \in c.effects : \E f \in act.effects : Marked(e, f)
    BY DEF Carried, Raised
<1>3. UNION {EffectRules(e) : e \in c.effects} \subseteq UNION {EffectRules(e) : e \in act.effects}
    BY <1>2, MarkedRules
<1>4. CommandRules(Core(c), default) \subseteq CommandRules(Core(d), default)
    <2>1. /\ Core(c).op = Core(d).op /\ Core(c).git = Core(d).git
          /\ Core(c).effects \subseteq Core(d).effects
        BY DEF Core
    <2> HIDE DEF Core
    <2>2. RuleR7(Core(c), default) \subseteq RuleR7(Core(d), default)
        BY <2>1 DEF RuleR7, Fires
    <2>3. RuleR8(Core(c)) \subseteq RuleR8(Core(d))
        BY <2>1 DEF RuleR8, Fires
    <2> QED
        BY <2>2, <2>3 DEF CommandRules
<1>5. UNION {CommandRules(x, default) : x \in {Core(c)}} \subseteq UNION {CommandRules(x, default) : x \in act.nested}
    <2>1. Core(d) \in act.nested
        BY DEF Carried
    <2> QED
        BY <1>4, <2>1
<1>6. WorkspaceDeleteRules(c.effects, ws) \subseteq WorkspaceDeleteRules(act.effects, ws)
    <2>1. \A e \in c.effects : \E f \in act.effects : f.type = e.type /\ f.target = e.target
        BY <1>2 DEF Marked
    <2> QED
        BY <2>1 DEF WorkspaceDeleteRules, Fires
<1>7. RuleR13(Shown(c)) = {}
    BY <1>1 DEF RuleR13, Fires
<1> HIDE DEF Shown
<1> QED
    BY <1>1, <1>3, <1>5, <1>6, <1>7 DEF HardRules

\* Package managers are no interpreters: what a pipe feeds runs no scripts.
LEMMA PipedRunsNoScripts ==
    ASSUME NEW req, req.cmd.name \in StreamInterpreters
    PROVE  ScriptsOf(req) = <<>>
BY DEF StreamInterpreters, PackageManagers, ScriptsOf

LEMMA Absorbed ==
    ASSUME NEW c, NEW results
    PROVE  /\ Absorb(c, results).op = c.op /\ Absorb(c, results).git = c.git
           /\ Absorb(c, results).effects = c.effects \cup UNION {x.effects : x \in Children(results)}
           /\ Absorb(c, results).inside = {Core(x) : x \in Children(results)}
                                         \cup UNION {x.inside : x \in Children(results)}
BY DEF Absorb, TakeOver, Children, Core

\* With its scripts a command does all that it does without them.
LEMMA AloneWithin ==
    ASSUME NEW req, NEW limit, NEW n, NEW below,
           NEW d, d = Recognize(req, ScriptResults(req, ScriptsOf(req), limit, n, below)),
           NEW c, c = Recognize(req, <<>>)
    PROVE  c.effects \subseteq d.effects /\ c.op = d.op /\ c.git = d.git
<1> DEFINE own == DispatchCommand(req)
           results == ScriptResults(req, ScriptsOf(req), limit, n, below)
           more == UNION {x.effects : x \in Children(results)}
           added == RedirectionEffects(req)
<1>1. /\ Absorb(own, results).op = own.op /\ Absorb(own, results).git = own.git
      /\ Absorb(own, results).effects = own.effects \cup more
    BY Absorbed
<1>2. /\ Absorb(own, <<>>).op = own.op /\ Absorb(own, <<>>).git = own.git
      /\ Absorb(own, <<>>).effects = own.effects
    <2>1. Children(<<>>) = {}
        BY DEF Children, ToSet
    <2>2. Absorb(own, <<>>).effects = own.effects \cup UNION {x.effects : x \in Children(<<>>)}
        BY Absorbed
    <2>3. UNION {x.effects : x \in Children(<<>>)} = {}
        BY <2>1
    <2> HIDE DEF own
    <2> QED
        BY <2>2, <2>3, Absorbed
<1>3. Turned(Absorb(own, results), d, Elevated(req, Streamed(req, (own.effects \cup more) \cup added)))
    BY <1>1, RecognizedTurned
<1>4. Turned(Absorb(own, <<>>), c, Elevated(req, Streamed(req, own.effects \cup added)))
    BY <1>2, RecognizedTurned
<1>5. c.op = d.op /\ c.git = d.git
    BY <1>1, <1>2, <1>3, <1>4 DEF Turned
<1>6. CASE req.cmd.name \in StreamInterpreters
    <2>1. results = <<>>
        BY <1>6, PipedRunsNoScripts DEF ScriptResults
    <2> QED
        BY <1>5, <2>1
<1>7. CASE req.cmd.name \notin StreamInterpreters
    <2> HIDE DEF own, added, more, results
    <2>1. \A E : Streamed(req, E) = E
        BY <1>7 DEF Streamed
    <2>2. \A E, F : E \subseteq F => Elevated(req, E) \subseteq Elevated(req, F)
        BY DEF Elevated
    <2>3. c.effects = Elevated(req, own.effects \cup added)
        BY <1>4, <2>1 DEF Turned
    <2>4. d.effects = Elevated(req, (own.effects \cup more) \cup added)
        BY <1>3, <2>1 DEF Turned
    <2>5. own.effects \cup added \subseteq (own.effects \cup more) \cup added
        OBVIOUS
    <2> QED
        BY <1>5, <2>2, <2>3, <2>4, <2>5
<1> QED
    BY <1>6, <1>7

\* The effects of a request and of everything its scripts came to are well
\* formed, and what holds them carries all of them.
LEMMA RecognizedWhole ==
    ASSUME NEW req, NEW results, \A x \in Children(results) : Shaped(x.effects)
    PROVE  /\ Shaped(Recognize(req, results).effects)
           /\ \A act : Carried(Recognize(req, results), act)
                 => \A x \in Children(results) : Carried(x, act)
<1> DEFINE own == DispatchCommand(req)
           c == Absorb(own, results)
           E == c.effects \cup RedirectionEffects(req)
           d == Recognize(req, results)
<1>1. /\ c.effects = own.effects \cup UNION {x.effects : x \in Children(results)}
      /\ c.inside = {Core(x) : x \in Children(results)} \cup UNION {x.inside : x \in Children(results)}
    BY Absorbed
<1>2. Shaped(own.effects)
    BY DispatchWhole DEF Whole
<1>3. Turned(c, d, Elevated(req, Streamed(req, E)))
    BY RecognizedTurned
<1> HIDE DEF own, c, d
<1>4. Shaped(E)
    <2>1. Shaped(c.effects)
        BY <1>1, <1>2 DEF Shaped
    <2>2. Shaped(RedirectionEffects(req))
        BY <2>1, RulesRaise
    <2> QED
        BY <2>1, <2>2, EffectShapes
<1> HIDE DEF E
<1>5. Raised(E, Streamed(req, E)) /\ Shaped(Streamed(req, E))
    BY <1>4, RulesRaise
<1>6. /\ Raised(Streamed(req, E), Elevated(req, Streamed(req, E)))
      /\ Shaped(Elevated(req, Streamed(req, E)))
    BY <1>5, RulesRaise
<1>7. Raised(E, d.effects) /\ Shaped(d.effects) /\ d.inside = c.inside
    BY <1>3, <1>5, <1>6, RaisedOn DEF Turned
<1>8. ASSUME NEW act, Carried(d, act), NEW x \in Children(results)
      PROVE  Carried(x, act)
    <2>1. Raised(E, act.effects)
        BY <1>7, <1>8, RaisedOn DEF Carried
    <2>2. x.effects \subseteq E
        BY <1>1 DEF E
    <2>3. Raised(x.effects, act.effects)
        BY <2>1, <2>2 DEF Raised
    <2>4. Core(x) \in d.inside /\ x.inside \subseteq d.inside
        BY <1>1, <1>7
    <2> QED
        BY <1>8, <2>3, <2>4 DEF Carried
<1> QED
    BY <1>7, <1>8 DEF d

\* Every entry of the table is made of well formed effects.
LEMMA TableShaped ==
    ASSUME NEW top, NEW limit
    PROVE  \A n \in 0 .. MaxDepth : \A r \in Levels(top)[MaxDepth - n] :
              Shaped(Resolutions(Levels(top), limit)[n][r].effects)
<1> DEFINE lev == Levels(top)
           A == Resolutions(lev, limit)
           good(n) == \A r \in lev[MaxDepth - n] : Shaped(A[n][r].effects)
           S == {n \in Nat : n <= MaxDepth => good(n)}
<1>1. ASSUME NEW n \in 0 .. MaxDepth, NEW r \in lev[MaxDepth - n],
             n # 0 => \A h \in Hops(r) : Shaped(A[n - 1][h].effects)
      PROVE  Shaped(A[n][r].effects)
    <2> DEFINE below == IF n = 0 THEN <<>> ELSE A[n - 1]
               results == ScriptResults(r, ScriptsOf(r), limit, n, below)
    <2>1. A[n][r] = Entry(A, r, limit, n)
        BY Entries
    <2> HIDE DEF A, lev
    <2>2. A[n][r] = Recognize(r, results)
        BY <2>1 DEF Entry
    <2>3. \A x \in Children(results) : Shaped(x.effects)
        BY <1>1, ChildrenAreHops
    <2> HIDE DEF results
    <2> QED
        BY <2>2, <2>3, RecognizedWhole
<1> HIDE DEF A
<1>2. 0 \in S
    BY <1>1, DepthAssumption
<1>3. ASSUME NEW n \in Nat, n \in S
      PROVE  n + 1 \in S
    <2> SUFFICES ASSUME n + 1 <= MaxDepth, NEW r \in lev[MaxDepth - (n + 1)]
                 PROVE  Shaped(A[n + 1][r].effects)
        OBVIOUS
    <2>1. Hops(r) \subseteq lev[MaxDepth - n]
        BY LevelBelow
    <2>2. n <= MaxDepth /\ n + 1 \in 0 .. MaxDepth /\ (n + 1) - 1 = n
        BY DepthAssumption
    <2>3. good(n)
        BY <1>3, <2>2
    <2> HIDE DEF lev
    <2> QED
        BY <1>1, <2>1, <2>2, <2>3
<1> HIDE DEF S
<1>4. Nat \subseteq S
    BY <1>2, <1>3, NumbersInduct
<1>5. \A n \in 0 .. MaxDepth : good(n)
    BY <1>4, DepthAssumption DEF S
<1> QED
    BY <1>5 DEF A

\* The commands of its scripts that are examined for a request.
ExaminedHops(req, limit) ==
    UNION {{HopRequest(req, s, Parse(s.text, s.cwd).commands[i]) :
               i \in Examined(Parse(s.text, s.cwd).commands, limit)} :
           s \in ToSet(ScriptsOf(req))}

LEMMA ExaminedAreHops ==
    ASSUME NEW req, NEW limit
    PROVE  ExaminedHops(req, limit) \subseteq Hops(req)
<1> SUFFICES ASSUME NEW h \in ExaminedHops(req, limit)
             PROVE  h \in Hops(req)
    OBVIOUS
<1>1. PICK s \in ToSet(ScriptsOf(req)) : \E i \in Examined(Parse(s.text, s.cwd).commands, limit) :
          h = HopRequest(req, s, Parse(s.text, s.cwd).commands[i])
    BY DEF ExaminedHops
<1> DEFINE commands == Parse(s.text, s.cwd).commands
<1>2. PICK i \in Examined(commands, limit) : h = HopRequest(req, s, commands[i])
    BY <1>1
<1>3. commands[i] \in ToSet(commands)
    BY DEF Examined, ToSet
<1> QED
    BY <1>2, <1>3 DEF Hops

LEMMA ExaminedAreChildren ==
    ASSUME NEW req, NEW limit, NEW n, n # 0, NEW below, NEW h \in ExaminedHops(req, limit)
    PROVE  below[h] \in Children(ScriptResults(req, ScriptsOf(req), limit, n, below))
<1> DEFINE scripts == ScriptsOf(req)
           results == ScriptResults(req, scripts, limit, n, below)
<1>1. PICK s \in ToSet(scripts) : \E i \in Examined(Parse(s.text, s.cwd).commands, limit) :
          h = HopRequest(req, s, Parse(s.text, s.cwd).commands[i])
    BY DEF ExaminedHops
<1> DEFINE parsed == Parse(s.text, s.cwd)
<1>2. PICK i \in Examined(parsed.commands, limit) : h = HopRequest(req, s, parsed.commands[i])
    BY <1>1
<1>3. PICK j \in DOMAIN scripts : s = scripts[j]
    BY <1>1 DEF ToSet
<1>4. j \in DOMAIN results /\ results[j] = ResolveParsed(req, s, parsed, limit, below)
    BY <1>3 DEF ScriptResults, ResolveScript
<1> HIDE DEF parsed, results
<1>5. results[j].commands = [k \in Examined(parsed.commands, limit) |->
                                below[HopRequest(req, s, parsed.commands[k])]]
    BY <1>4 DEF ResolveParsed
<1>6. below[h] \in ToSet(results[j].commands)
    BY <1>2, <1>5 DEF ToSet
<1>7. results[j] \in ToSet(results)
    BY <1>4 DEF ToSet
<1>8. below[h] \in Children(results)
    BY <1>6, <1>7 DEF Children
<1> QED
    BY <1>8 DEF results

\* A request with n hops left that the action carries: the floor judges the
\* action no milder than the request, and the action carries what the scripts
\* of the request came to.
LEMMA EntryCarries ==
    ASSUME NEW top, NEW limit, NEW n \in 0 .. MaxDepth, NEW r \in Levels(top)[MaxDepth - n],
           NEW A, A = Resolutions(Levels(top), limit), NEW act, Carried(A[n][r], act),
           NEW ws, NEW default
    PROVE  /\ HardRules(Shown(Recognize(r, <<>>)), ws, default) \subseteq HardRules(act, ws, default)
           /\ \A x \in Children(ScriptResults(r, ScriptsOf(r), limit, n,
                                               IF n = 0 THEN <<>> ELSE A[n - 1])) : Carried(x, act)
<1> DEFINE below == IF n = 0 THEN <<>> ELSE A[n - 1]
           results == ScriptResults(r, ScriptsOf(r), limit, n, below)
<1>1. A[n][r] = Recognize(r, results)
    <2>1. A[n][r] = Entry(A, r, limit, n)
        BY Entries
    <2> QED
        BY <2>1 DEF Entry
<1>2. HardRules(Shown(Recognize(r, <<>>)), ws, default) \subseteq HardRules(act, ws, default)
    BY <1>1, AloneWithin, CarriedRules
<1>3. ASSUME NEW x \in Children(results)
      PROVE  Shaped(x.effects)
    <2>1. PICK h \in Hops(r) : n # 0 /\ x = below[h]
        BY ChildrenAreHops
    <2>2. n - 1 \in 0 .. MaxDepth /\ n - 1 \in Nat /\ (n - 1) + 1 = n /\ n <= MaxDepth
        BY <2>1, DepthAssumption
    <2>3. h \in Levels(top)[MaxDepth - (n - 1)]
        BY <2>1, <2>2, LevelBelow
    <2>4. Shaped(A[n - 1][h].effects)
        BY <2>2, <2>3, TableShaped
    <2> QED
        BY <2>1, <2>4
<1> HIDE DEF results
<1>4. \A x \in Children(results) : Carried(x, act)
    BY <1>1, <1>3, RecognizedWhole
<1> QED
    BY <1>2, <1>4 DEF results

\* The action carries every command of the line that was examined.
LEMMA LineCarries ==
    ASSUME NEW ctx, NEW limit, NEW line, NEW cwd, NEW act,
           act = ResolveInContext(ctx, limit, line, cwd),
           NEW i \in Examined(Parse(line, cwd).commands, limit), NEW r,
           r = LineRequest(ctx, Parse(line, cwd).commands[i])
    PROVE  /\ r \in Asks(ctx, line, cwd)[0]
           /\ Carried(Resolutions(Asks(ctx, line, cwd), limit)[MaxDepth][r], act)
<1> DEFINE parsed == Parse(line, cwd)
           commands == parsed.commands
           top == {LineRequest(ctx, c) : c \in ToSet(commands)}
           found == Resolutions(Levels(top), limit)[MaxDepth]
           results == LineResults(ctx, commands, limit, found)
           status == Weakest({ctx.status, ParseStatus(parsed), LateStatus(Late(commands, limit))})
<1>1. act = Aggregate(ctx, line, results, status, Truncated(parsed) \/ Late(commands, limit))
    BY DEF ResolveInContext, ResolveLine, FoundFor
<1>2. /\ act.effects = UNION {c.effects : c \in ToSet(results)}
      /\ act.nested = {Core(c) : c \in ToSet(results)} \cup UNION {c.inside : c \in ToSet(results)}
    BY <1>1 DEF Aggregate, Core
<1>3. r \in top
    BY DEF Examined, ToSet
<1>4. found[r] \in ToSet(results)
    BY DEF LineResults, ToSet
<1>5. Levels(top)[0] = top /\ MaxDepth - MaxDepth = 0 /\ MaxDepth \in 0 .. MaxDepth
    BY LevelsAre, DepthAssumption DEF IsLevels
<1>6. Shaped(found[r].effects)
    BY <1>3, <1>5, TableShaped
<1> HIDE DEF results, found, status
<1>7. found[r].effects \subseteq act.effects
    BY <1>2, <1>4
<1>8. Raised(found[r].effects, act.effects)
    BY <1>6, <1>7, RaisedOn
<1>9. Core(found[r]) \in act.nested /\ found[r].inside \subseteq act.nested
    BY <1>2, <1>4
<1>10. Carried(found[r], act)
    BY <1>8, <1>9 DEF Carried
<1> QED
    BY <1>3, <1>5, <1>10 DEF Asks, found

\* path leads from a command of the line over n wrappers to a command of
\* their scripts, each of them examined before the time budget ended.
Reached(ctx, limit, line, cwd, path, n) ==
    /\ \E i \in Examined(Parse(line, cwd).commands, limit) :
          path[0] = LineRequest(ctx, Parse(line, cwd).commands[i])
    /\ \A m \in 1 .. n : path[m] \in ExaminedHops(path[m - 1], limit)

(* The floor sees all that was examined: each finding it has of a command  *)
(* by itself it has of the line, however many package scripts lead to the  *)
(* command, whatever stands beside it, and past the cap on commands as     *)
(* well.  No wrapper, redirection, pipe or elevation around a command      *)
(* takes a finding away (resolver.go recognize and aggregate, npm.go,      *)
(* hard_rules.go).                                                         *)
THEOREM FloorSeesAll ==
    ASSUME NEW ctx, NEW limit, NEW line, NEW cwd, NEW act,
           act = ResolveInContext(ctx, limit, line, cwd), NEW ws, NEW default,
           NEW n \in 0 .. MaxDepth, NEW path, Reached(ctx, limit, line, cwd, path, n),
           NEW alone, alone = Shown(Recognize(path[n], <<>>))
    PROVE  /\ HardRules(alone, ws, default) \subseteq HardRules(act, ws, default)
           /\ OutcomeRank[Outcome(HardRules(alone, ws, default))]
                <= OutcomeRank[Outcome(HardRules(act, ws, default))]
<1> DEFINE top == {LineRequest(ctx, c) : c \in ToSet(Parse(line, cwd).commands)}
           lev == Levels(top)
           A == Resolutions(lev, limit)
           good(m) == path[m] \in lev[m] /\ Carried(A[MaxDepth - m][path[m]], act)
           S == {m \in Nat : m <= n => good(m)}
<1>0. Asks(ctx, line, cwd) = lev
    BY DEF Asks
<1>1. good(0)
    <2>1. PICK i \in Examined(Parse(line, cwd).commands, limit) :
              path[0] = LineRequest(ctx, Parse(line, cwd).commands[i])
        BY DEF Reached
    <2>2. MaxDepth - 0 = MaxDepth
        BY DepthAssumption
    <2> HIDE DEF top, lev
    <2>3. path[0] \in lev[0] /\ Carried(Resolutions(lev, limit)[MaxDepth][path[0]], act)
        BY <1>0, <2>1, LineCarries
    <2> QED
        BY <2>2, <2>3
<1>2. lev = [m \in 0 .. MaxDepth |-> IF m = 0 THEN top ELSE UNION {Hops(x) : x \in lev[m - 1]}]
    BY LevelsAre DEF IsLevels
<1> HIDE DEF top
<1>3. ASSUME NEW m \in 0 .. MaxDepth, good(m), NEW w, NEW d
      PROVE  /\ HardRules(Shown(Recognize(path[m], <<>>)), w, d) \subseteq HardRules(act, w, d)
             /\ \A x \in Children(ScriptResults(path[m], ScriptsOf(path[m]), limit, MaxDepth - m,
                          IF MaxDepth - m = 0 THEN <<>> ELSE A[MaxDepth - m - 1])) : Carried(x, act)
    <2>1. MaxDepth - m \in 0 .. MaxDepth /\ MaxDepth - (MaxDepth - m) = m
        BY DepthAssumption
    <2>2. path[m] \in Levels(top)[MaxDepth - (MaxDepth - m)]
        BY <1>3, <2>1
    <2>3. Carried(A[MaxDepth - m][path[m]], act)
        BY <1>3
    <2> QED
        BY <2>1, <2>2, <2>3, EntryCarries
<1> HIDE DEF lev, A
<1>4. ASSUME NEW m \in Nat, m \in S
      PROVE  m + 1 \in S
    <2> SUFFICES ASSUME m + 1 <= n
                 PROVE  good(m + 1)
        OBVIOUS
    <2> DEFINE k == MaxDepth - m
               r == path[m]
               h == path[m + 1]
    <2>1. /\ m \in 0 .. MaxDepth /\ m + 1 \in 0 .. MaxDepth /\ m + 1 \in 1 .. n /\ m <= n
          /\ k # 0 /\ k - 1 = MaxDepth - (m + 1) /\ (m + 1) - 1 = m /\ m + 1 # 0
        BY DepthAssumption
    <2>2. h \in ExaminedHops(r, limit)
        BY <2>1 DEF Reached
    <2>3. good(m)
        BY <1>4, <2>1
    <2>4. h \in Hops(r)
        BY <2>2, ExaminedAreHops
    <2>5. lev[m + 1] = UNION {Hops(x) : x \in lev[m]}
        BY <1>2, <2>1
    <2>6. h \in lev[m + 1]
        BY <2>3, <2>4, <2>5
    <2>7. \A x \in Children(ScriptResults(r, ScriptsOf(r), limit, k, A[k - 1])) : Carried(x, act)
        BY <1>3, <2>1, <2>3
    <2>8. A[k - 1][h] \in Children(ScriptResults(r, ScriptsOf(r), limit, k, A[k - 1]))
        BY <2>1, <2>2, ExaminedAreChildren
    <2> QED
        BY <2>1, <2>6, <2>7, <2>8
<1> HIDE DEF good
<1>5. 0 \in S
    BY <1>1
<1> HIDE DEF S
<1>6. Nat \subseteq S
    BY <1>4, <1>5, NumbersInduct
<1>7. good(n)
    BY <1>6, DepthAssumption DEF S
<1>8. HardRules(alone, ws, default) \subseteq HardRules(act, ws, default)
    BY <1>3, <1>7
<1> QED
    BY <1>8, MoreFindings

\* A good end for a command with its scripts is one for the command alone.
LEMMA AloneSound ==
    ASSUME NEW req, NEW results, Sound(Recognize(req, results).status)
    PROVE  Approvable(Recognize(req, <<>>).status)
<1> DEFINE own == DispatchCommand(req)
           c == Absorb(own, results)
           redirected == ApplyRedirections(req, c)
           assigned == ApplyEnvironmentOverrides(req, redirected)
           streamed == ApplyStreamedInput(req, assigned)
           elevated == ApplyElevation(req, streamed)
           bare == Absorb(own, <<>>)
<1>1. IsCommand(c) /\ IsCommand(bare)
    BY DEF IsCommand, CommandRecord, Absorb, TakeOver
<1>2. Sound(elevated.status)
    BY DEF Recognize
<1>3. Ruled(c, redirected)
    BY <1>1, Rules
<1> HIDE DEF redirected
<1>4. Ruled(redirected, assigned)
    BY <1>3, Rules DEF Ruled
<1>5. ~(\E x \in req.cmd.env : IsDangerousEnvAssignment(x)) \/ ~Sound(assigned.status)
    BY <1>3, Degraded DEF Ruled, ApplyEnvironmentOverrides
<1> HIDE DEF assigned
<1>6. Ruled(assigned, streamed)
    BY <1>4, Rules DEF Ruled
<1>7. ~req.cmd.pipedFrom \/ req.cmd.name \notin StreamInterpreters \/ ~Sound(streamed.status)
    <2>1. \A E : ~Sound(Degrade([assigned EXCEPT !.effects = E]).status)
        BY <1>4, EffectsReplaced, Degraded DEF Ruled, SameButEffects
    <2> QED
        BY <2>1 DEF ApplyStreamedInput
<1> HIDE DEF streamed
<1>8. Ruled(streamed, elevated)
    BY <1>6, Rules DEF Ruled
<1>9. ~req.cmd.elevated
    <2>1. \A E : ~Sound(Degrade([streamed EXCEPT !.effects = E]).status)
        BY <1>6, EffectsReplaced, Degraded DEF Ruled, SameButEffects
    <2> QED
        BY <1>2, <2>1 DEF ApplyElevation
<1> HIDE DEF elevated
<1>10. /\ ~(\E x \in req.cmd.env : IsDangerousEnvAssignment(x))
       /\ ~req.cmd.pipedFrom \/ req.cmd.name \notin StreamInterpreters
    BY <1>2, <1>5, <1>6, <1>7, <1>8 DEF Ruled
<1>11. Recognize(req, <<>>) = ApplyRedirections(req, bare)
    BY <1>9, <1>10 DEF Recognize, ApplyEnvironmentOverrides, ApplyStreamedInput, ApplyElevation
<1>12. Sound(own.status)
    BY RecognizedFollowed
<1>13. bare.status = Weakest({own.status})
    <2>1. {x.status : x \in Children(<<>>)} = {} /\ {x.status : x \in ToSet(<<>>)} = {}
        BY DEF Children, ToSet
    <2>2. bare.status = Weakest({own.status} \cup {x.status : x \in ToSet(<<>>)}
                                \cup {x.status : x \in Children(<<>>)})
        BY DEF Absorb, TakeOver, Children
    <2> HIDE DEF own, bare
    <2> QED
        BY <2>1, <2>2
<1> HIDE DEF own
<1>14. Approvable(Weakest({own.status}))
    BY <1>12 DEF Sound, Weakest, Approvable
<1>15. Recognize(req, <<>>).status = bare.status
    <2> DEFINE added == RedirectionEffects(req)
               E == bare.effects \cup added
               T == bare.targets \cup {e.target : e \in added}
    <2>1. ApplyRedirections(req, bare) = Replaced(bare, E, T)
        BY DEF ApplyRedirections, Replaced, RedirectionEffects
    <2> HIDE DEF E, T, bare
    <2>2. SameButEffects(bare, Replaced(bare, E, T))
        BY <1>1, EffectsReplaced
    <2>3. Replaced(bare, E, T).status = bare.status
        BY <2>2 DEF SameButEffects
    <2> QED
        BY <1>11, <2>1, <2>3
<1> QED
    BY <1>13, <1>14, <1>15

\* Everything a line leads to, at any depth, is resolved and free of findings
\* by itself, and below the deepest commands that are followed there is nothing.
Clear(ctx, line, cwd, default) ==
    \A n \in 0 .. MaxDepth : \A r \in Asks(ctx, line, cwd)[n] :
        LET c == Recognize(r, <<>>)
        IN  /\ Approvable(c.status) /\ HardRules(Shown(c), ctx.ws, default) = {}
            /\ n = MaxDepth => ToSet(ScriptsOf(r)) = {}

LEMMA AllowedLineClear ==
    ASSUME NEW ctx, NEW limit \in Nat, NEW line, NEW cwd, NEW act,
           act = ResolveInContext(ctx, limit, line, cwd), NEW default,
           Sound(act.status), HardRules(act, ctx.ws, default) = {}
    PROVE  Clear(ctx, line, cwd, default)
<1> DEFINE parsed == Parse(line, cwd)
           commands == parsed.commands
           top == {LineRequest(ctx, c) : c \in ToSet(commands)}
           lev == Levels(top)
           A == Resolutions(lev, limit)
           fine(r, n) == Sound(A[n][r].status) /\ Carried(A[n][r], act)
           good(m) == \A r \in lev[m] : fine(r, MaxDepth - m)
           S == {m \in Nat : m <= MaxDepth => good(m)}
           below(n) == IF n = 0 THEN <<>> ELSE A[n - 1]
           results(r, n) == ScriptResults(r, ScriptsOf(r), limit, n, below(n))
<1>0. Asks(ctx, line, cwd) = lev
    BY DEF Asks
<1>1. \A r \in top : fine(r, MaxDepth)
    <2> DEFINE found == A[MaxDepth]
               parts == LineResults(ctx, commands, limit, found)
               status == Weakest({ctx.status, ParseStatus(parsed), LateStatus(Late(commands, limit))})
               capped == IF Len(parts) > MaxCommands THEN "UNRESOLVED" ELSE "RESOLVED"
               statuses == {status, capped} \cup {c.status : c \in ToSet(parts)}
    <2>1. act = Aggregate(ctx, line, parts, status, Truncated(parsed) \/ Late(commands, limit))
        BY DEF ResolveInContext, ResolveLine, FoundFor
    <2>2. act.status = Weakest(statuses)
        BY <2>1 DEF Aggregate
    <2>3. \A s \in statuses : Sound(s)
        <3> HIDE DEF statuses
        <3> QED
            BY <2>2, WeakestSound
    <2>4. Sound(LateStatus(Late(commands, limit)))
        <3> HIDE DEF capped
        <3>1. Sound(status)
            BY <2>3
        <3> QED
            BY <3>1, WeakestSound DEF status
    <2>5. Examined(commands, limit) = DOMAIN commands
        BY <2>4, InTime
    <2> SUFFICES ASSUME NEW r \in top
                 PROVE  fine(r, MaxDepth)
        OBVIOUS
    <2>6. PICK i \in Examined(commands, limit) : r = LineRequest(ctx, commands[i])
        BY <2>5 DEF ToSet
    <2>7. Carried(found[r], act)
        BY <1>0, <2>6, LineCarries
    <2>8. found[r] \in ToSet(parts)
        BY <2>6 DEF LineResults, ToSet
    <2> HIDE DEF found, parts, status, capped
    <2>9. Sound(found[r].status)
        BY <2>3, <2>8
    <2> QED
        BY <2>7, <2>9 DEF found
<1>2. lev = [m \in 0 .. MaxDepth |-> IF m = 0 THEN top ELSE UNION {Hops(x) : x \in lev[m - 1]}]
    BY LevelsAre DEF IsLevels
<1> HIDE DEF top
<1>3. ASSUME NEW n \in 0 .. MaxDepth, NEW r \in lev[MaxDepth - n], fine(r, n)
      PROVE  /\ HardRules(Shown(Recognize(r, <<>>)), ctx.ws, default) = {}
             /\ Approvable(Recognize(r, <<>>).status)
             /\ n = 0 => ToSet(ScriptsOf(r)) = {}
             /\ \A h \in Hops(r) : n # 0 /\ fine(h, n - 1)
    <2>1. A[n][r] = Entry(A, r, limit, n)
        BY Entries
    <2>2. A[n][r] = Recognize(r, results(r, n))
        BY <2>1 DEF Entry
    <2>3. AllFollowed(results(r, n))
        BY <1>3, <2>2, RecognizedFollowed
    <2>4. /\ HardRules(Shown(Recognize(r, <<>>)), ctx.ws, default) \subseteq HardRules(act, ctx.ws, default)
          /\ \A x \in Children(results(r, n)) : Carried(x, act)
        <3>1. Carried(A[n][r], act)
            BY <1>3
        <3> QED
            BY <3>1, EntryCarries
    <2>5. Approvable(Recognize(r, <<>>).status)
        BY <1>3, <2>2, AloneSound
    <2>6. ASSUME n = 0
          PROVE  ToSet(ScriptsOf(r)) = {}
        <3>1. \A i \in DOMAIN ScriptsOf(r) : i \in DOMAIN results(r, n) /\ results(r, n)[i] = NotFollowed
            BY <2>6 DEF ScriptResults
        <3>2. ~Sound(NotFollowed.status)
            BY DEF NotFollowed, Sound
        <3> QED
            BY <2>3, <3>1, <3>2 DEF AllFollowed, ToSet
    <2>7. ASSUME NEW h \in Hops(r)
          PROVE  n # 0 /\ fine(h, n - 1)
        <3>1. n # 0 /\ below(n)[h] \in Children(results(r, n))
            BY <2>3, HopsAreChildren
        <3>2. Sound(A[n - 1][h].status)
            BY <1>3, <2>1, EntryCovers
        <3> QED
            BY <2>4, <3>1, <3>2
    <2> QED
        BY <2>4, <2>5, <2>6, <2>7
<1> HIDE DEF A, fine
<1>4. 0 \in S
    <2>1. lev[0] = top /\ MaxDepth - 0 = MaxDepth
        BY <1>2, DepthAssumption
    <2> QED
        BY <1>1, <2>1
<1>5. ASSUME NEW m \in Nat, m \in S
      PROVE  m + 1 \in S
    <2> HIDE DEF lev
    <2> SUFFICES ASSUME m + 1 <= MaxDepth, NEW h \in lev[m + 1]
                 PROVE  fine(h, MaxDepth - (m + 1))
        OBVIOUS
    <2>1. m <= MaxDepth /\ m + 1 \in 0 .. MaxDepth /\ (m + 1) - 1 = m /\ m + 1 # 0
        BY DepthAssumption
    <2>2. lev[m + 1] = UNION {Hops(x) : x \in lev[m]}
        BY <1>2, <2>1
    <2>3. PICK r \in lev[m] : h \in Hops(r)
        BY <2>2
    <2>4. /\ MaxDepth - m \in 0 .. MaxDepth /\ MaxDepth - (MaxDepth - m) = m
          /\ (MaxDepth - m) - 1 = MaxDepth - (m + 1)
        BY <2>1, DepthAssumption
    <2>5. good(m)
        BY <1>5, <2>1
    <2>6. fine(r, MaxDepth - m) /\ r \in lev[MaxDepth - (MaxDepth - m)]
        BY <2>3, <2>4, <2>5
    <2>7. fine(h, (MaxDepth - m) - 1)
        BY <1>3, <2>3, <2>4, <2>6
    <2> QED
        BY <2>4, <2>7
<1> HIDE DEF S
<1>6. Nat \subseteq S
    BY <1>4, <1>5, NumbersInduct
<1>7. ASSUME NEW m \in 0 .. MaxDepth, NEW r \in lev[m]
      PROVE  /\ Approvable(Recognize(r, <<>>).status)
             /\ HardRules(Shown(Recognize(r, <<>>)), ctx.ws, default) = {}
             /\ m = MaxDepth => ToSet(ScriptsOf(r)) = {}
    <2>1. good(m)
        BY <1>6, DepthAssumption DEF S
    <2>2. MaxDepth - m \in 0 .. MaxDepth /\ MaxDepth - (MaxDepth - m) = m /\ MaxDepth - MaxDepth = 0
        BY DepthAssumption
    <2> HIDE DEF lev
    <2> QED
        BY <1>3, <2>1, <2>2
<1> HIDE DEF lev
<1> QED
    BY <1>0, <1>7 DEF Clear

\* A line is let through in a state only when all of it is clear.
AllowedIsClear ==
    (asked = NotAsked /\ asked' # NotAsked /\ asked'.decision.outcome = "ALLOW") =>
        LET request == asked'.request
            ctx     == Context(request)
        IN  Clear(ctx, request.line, request.cwd, Default(ctx))

(* Nothing hides in a wrapper: a line is let through only when every       *)
(* command it leads to, through any number of package scripts, is          *)
(* resolved, passes the floor by itself, and runs no script beyond the     *)
(* depth that is followed; neither an approval nor the free pass for       *)
(* reading, a time budget that ends or a cap buys an exception (npm.go,    *)
(* resolver.go, engine.go EvaluateDetailed).                               *)
THEOREM NothingHides == Spec => [][AllowedIsClear]_vars
<1>1. ASSUME [Next]_vars
      PROVE  [AllowedIsClear]_vars
    <2> SUFFICES ASSUME asked = NotAsked, asked' # NotAsked, asked'.decision.outcome = "ALLOW"
                 PROVE  Clear(Context(asked'.request), asked'.request.line, asked'.request.cwd,
                              Default(Context(asked'.request)))
        BY DEF AllowedIsClear
    <2>1. PICK request \in Requests, limit \in Budgets : Evaluate(request, limit)
        BY <1>1 DEF Next, vars, Approve, Dismiss, Revoke, EditProject, RestartDaemon
    <2> DEFINE ctx == Context(request)
               act == ResolveInContext(ctx, limit, request.line, request.cwd)
               default == Default(ctx)
    <2>2. asked' = Answer(request, limit, ctx, act)
        BY <2>1 DEF Evaluate, AnswerIn
    <2> HIDE DEF ctx, act
    <2>3. asked'.request = request /\ asked'.decision = EvaluateDetailed(approvals, act, ctx.ws, default)
        BY <2>2 DEF Answer
    <2> DEFINE d == EvaluateDetailed(approvals, act, ctx.ws, default)
               w == ctx.ws
    <2>4. HardRules(act, ctx.ws, default) = {} /\ act.status \notin DOMAIN UncertainClass
        <3>1. d.outcome = "ALLOW"
            BY <2>3
        <3>2. d = EvaluateDetailed(approvals, act, w, default)
            OBVIOUS
        <3> HIDE DEF d, w, default
        <3>3. HardRules(act, w, default) = {} /\ act.status \notin DOMAIN UncertainClass
            BY ONLY <3>1, <3>2, AllowedExactly
        <3> QED
            BY <3>3 DEF w
    <2> HIDE DEF default, d, w
    <2>5. Sound(act.status)
        BY <2>4 DEF UncertainClass, Sound
    <2>6. limit \in Nat
        BY BudgetsAssumption
    <2>7. Clear(ctx, request.line, request.cwd, default)
        BY <2>4, <2>5, <2>6, AllowedLineClear DEF act
    <2> QED
        BY <2>3, <2>7 DEF ctx, default
<1> QED
    BY <1>1, PTL DEF Spec

=============================================================================
