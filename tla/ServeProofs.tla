---------------------------- MODULE ServeProofs ----------------------------
(***************************************************************************)
(* Proofs about hooks, connections and the audit log, for any number of    *)
(* hook processes, tool calls, deadlines and restarts.                     *)
(***************************************************************************)
EXTENDS Serve, TLAPS, WellFoundedInduction

-----------------------------------------------------------------------------
(* The inductive invariant *)

Rows ==
    [hook : {"PreToolUse", "PermissionRequest"}, call : Calls \cup {None}, at : Nat,
     decision : Outcomes, prompt : BOOLEAN, action : {"allow", "deny", "prompt", "defer", None}]

TypeInv ==
    /\ audit \in Seq(Rows)
    /\ cache \in [DOMAIN cache -> Answers]
    /\ task \in [Tasks -> {"none", "queued", "running", "decided", "found", "answering", "over"}]
    /\ work \in [Tasks -> Answers \cup Nat \cup {None}]
    /\ reply \in [Tasks -> Answers \cup {None}]
    /\ clock \in Nat /\ stamp \in [Hooks -> Nat]
    /\ event \in [Hooks -> Event]
    /\ pc \in [Hooks -> {"start", "unreached", "evaluate", "evaluate_again", "prompt", "record_prompt",
                         "write", "annotate", "record_adapter_action", "done"}]
    /\ result \in [Hooks -> Answers \cup {None}]
    /\ told \in [Hooks -> {"allow", "deny", "prompt", "defer", "silence", None}]

(* No row is from the future.                                              *)
PastInv ==
    /\ \A h \in Hooks : stamp[h] <= clock
    /\ \A i \in DOMAIN audit : audit[i].at <= clock

(* An answer of an evaluation is the fail-closed one, or the log has it.   *)
Recorded(log, a) ==
    a = EngineError \/ (a.event \in DOMAIN log /\ log[a.event].decision = a.decision)

RecordedFor(log, a, e) ==
    /\ Recorded(log, a)
    /\ a # EngineError /\ e.name = "PreToolUse" => log[a.event].call = e.call

CacheInv ==
    \A k \in DOMAIN cache :
        /\ Recorded(audit, cache[k])
        /\ cache[k] # EngineError /\ k # "session" => audit[cache[k].event].call = k

(* The row found for a prompt, and the row that was marked for it, are not *)
(* older than the row r of the evaluation.                                 *)
Found(log, i, r) == i = None \/ (i \in DOMAIN log /\ log[i].at >= log[r].at)

Marked(log, r) == \E i \in DOMAIN log : log[i].prompt /\ log[i].at >= log[r].at

(* What a goroutine holds, and what it has written, by method.             *)
EvaluationOK(t) ==
    /\ task[t] = "decided" => work[t] \in [decision : Verdicts, event : {None}]
    /\ task[t] = "answering" => RecordedFor(audit, work[t], EventOf(t))
    /\ reply[t] # None => RecordedFor(audit, reply[t], EventOf(t))

PromptOK(t) ==
    result[t[1]] # None /\ result[t[1]].event # None =>
        LET r == result[t[1]].event IN
        /\ task[t] = "found" => Found(audit, work[t], r)
        /\ task[t] = "answering" /\ work[t] = Acknowledged => Marked(audit, r)
        /\ reply[t] = Acknowledged => Marked(audit, r)

(* The agent was told what the row of its evaluation says.                 *)
Delivered(h) ==
    result[h] # None /\ result[h].event # None /\ told[h] = AdapterAction(h)

TaskOK(t) ==
    /\ task[t] = "decided" => Asks(t)
    /\ task[t] = "found" => t[2] = "record_prompt"
    /\ task[t] = "answering" => work[t] \in Answers
    /\ Asks(t) => EvaluationOK(t)
    /\ t[2] = "record_prompt" => PromptOK(t)
    /\ t[2] = "record_adapter_action" /\ task[t] # "none" => Delivered(t[1])

Asking == {"start", "unreached", "evaluate", "evaluate_again"}

HookOK(h) ==
    /\ pc[h] \in Asking => result[h] = None
    /\ result[h] = None =>
        task[<<h, "record_prompt">>] = "none" /\ reply[<<h, "record_prompt">>] = None
    /\ pc[h] \in Asking \cup {"prompt", "record_prompt", "write"} =>
        told[h] = None /\ task[<<h, "record_adapter_action">>] = "none"
    /\ pc[h] \in {"prompt", "record_prompt", "write"} => result[h] # None
    /\ pc[h] \in {"annotate", "record_adapter_action"} => Delivered(h)
    /\ result[h] # None => RecordedFor(audit, result[h], event[h])
    /\ told[h] \in {None, "silence"} \/ (result[h] # None /\ told[h] = AdapterAction(h))

(* A row says what the adapter did only if some hook did that with it.     *)
ActionInv ==
    \A i \in DOMAIN audit : audit[i].action # None =>
        \E h \in Hooks : told[h] = audit[i].action /\ result[h] # None /\ result[h].event = i

Inv ==
    /\ TypeInv /\ PastInv /\ CacheInv /\ ActionInv
    /\ \A t \in Tasks : TaskOK(t)
    /\ \A h \in Hooks : HookOK(h)

-----------------------------------------------------------------------------
(* The log only grows, and what was recorded stays recorded *)

Grown(log, more) ==
    /\ DOMAIN log \subseteq DOMAIN more
    /\ \A i \in DOMAIN log :
        /\ more[i].decision = log[i].decision /\ more[i].call = log[i].call
        /\ more[i].at = log[i].at
        /\ log[i].prompt => more[i].prompt

LEMMA GrownKeeps ==
    ASSUME NEW log, NEW more, Grown(log, more)
    PROVE  /\ \A a : Recorded(log, a) => Recorded(more, a)
           /\ \A a, e : RecordedFor(log, a, e) => RecordedFor(more, a, e)
           /\ \A i : \A r \in DOMAIN log : Found(log, i, r) => Found(more, i, r)
           /\ \A r \in DOMAIN log : Marked(log, r) => Marked(more, r)
<1>1. \A a : Recorded(log, a) => Recorded(more, a)
    BY DEF Recorded, Grown
<1>2. \A a, e : RecordedFor(log, a, e) => RecordedFor(more, a, e)
    BY <1>1 DEF RecordedFor, Recorded, Grown
<1>3. \A i : \A r \in DOMAIN log : Found(log, i, r) => Found(more, i, r)
    BY DEF Found, Grown
<1>4. ASSUME NEW r \in DOMAIN log, Marked(log, r)
      PROVE  Marked(more, r)
    <2>1. PICK i \in DOMAIN log : log[i].prompt /\ log[i].at >= log[r].at
        BY <1>4 DEF Marked
    <2>2. i \in DOMAIN more /\ more[i].prompt
        BY <2>1 DEF Grown
    <2>3. more[i].at >= more[r].at
        BY <2>1 DEF Grown
    <2> QED
        BY <2>2, <2>3 DEF Marked
<1> QED
    BY <1>1, <1>2, <1>3, <1>4

LEMMA GrownSame == \A log : Grown(log, log)
BY DEF Grown

(* The row of an evaluation that a hook was answered with.                 *)
LEMMA ResultRow ==
    ASSUME Inv, NEW h \in Hooks, result[h] # None, result[h].event # None
    PROVE  result[h].event \in DOMAIN audit
<1>1. result[h] # EngineError
    BY DEF EngineError
<1> QED
    BY <1>1 DEF Inv, HookOK, RecordedFor, Recorded

LEMMA AppendGrows ==
    ASSUME TypeInv, NEW row \in Rows
    PROVE  /\ Append(audit, row) \in Seq(Rows)
           /\ Len(Append(audit, row)) = Len(audit) + 1 /\ Len(audit) \in Nat
           /\ DOMAIN Append(audit, row) = DOMAIN audit \cup {Len(audit) + 1}
           /\ Append(audit, row)[Len(audit) + 1] = row
           /\ \A i \in DOMAIN audit : Append(audit, row)[i] = audit[i]
           /\ Grown(audit, Append(audit, row))
<1>1. audit \in Seq(Rows)
    BY DEF TypeInv
<1>2. /\ Append(audit, row) \in Seq(Rows)
      /\ Len(Append(audit, row)) = Len(audit) + 1 /\ Len(audit) \in Nat
      /\ DOMAIN Append(audit, row) = DOMAIN audit \cup {Len(audit) + 1}
      /\ Append(audit, row)[Len(audit) + 1] = row
      /\ \A i \in DOMAIN audit : Append(audit, row)[i] = audit[i]
    BY <1>1
<1> QED
    BY <1>2 DEF Grown

(* A column of one row is written.                                         *)
LEMMA ColumnGrows ==
    ASSUME TypeInv, NEW i, NEW more,
           more \in {[audit EXCEPT ![i].prompt = TRUE]} \cup
                    {[audit EXCEPT ![i].action = a] : a \in {"allow", "deny", "prompt", "defer"}}
    PROVE  more \in Seq(Rows) /\ DOMAIN more = DOMAIN audit /\ Grown(audit, more)
<1>1. audit \in Seq(Rows)
    BY DEF TypeInv
<1>2. DOMAIN audit = 1 .. Len(audit) /\ Len(audit) \in Nat /\ \A j \in DOMAIN audit : audit[j] \in Rows
    BY <1>1
<1>3. CASE more = [audit EXCEPT ![i].prompt = TRUE]
    <2>1. DOMAIN more = 1 .. Len(audit) /\ more = [j \in 1 .. Len(audit) |-> more[j]]
        BY <1>2, <1>3
    <2>2. \A j \in DOMAIN audit : more[j] = audit[j] \/ more[j] = [audit[j] EXCEPT !.prompt = TRUE]
        BY <1>2, <1>3
    <2>3. \A j \in DOMAIN audit : more[j] \in Rows
        BY ZenonT(60), <1>2, <2>2 DEF Rows
    <2>4. \A j \in DOMAIN audit : /\ more[j].decision = audit[j].decision
                                  /\ more[j].call = audit[j].call /\ more[j].at = audit[j].at
                                  /\ audit[j].prompt => more[j].prompt
        BY <1>2, <2>2 DEF Rows
    <2>5. more \in Seq(Rows)
        BY <1>2, <2>1, <2>3
    <2> QED
        BY <1>2, <2>1, <2>4, <2>5 DEF Grown
<1>4. ASSUME NEW a \in {"allow", "deny", "prompt", "defer"}, more = [audit EXCEPT ![i].action = a]
      PROVE  more \in Seq(Rows) /\ DOMAIN more = DOMAIN audit /\ Grown(audit, more)
    <2>1. DOMAIN more = 1 .. Len(audit) /\ more = [j \in 1 .. Len(audit) |-> more[j]]
        BY <1>2, <1>4
    <2>2. \A j \in DOMAIN audit : more[j] = audit[j] \/ more[j] = [audit[j] EXCEPT !.action = a]
        BY <1>2, <1>4
    <2>3. \A j \in DOMAIN audit : more[j] \in Rows
        BY ZenonT(60), <1>2, <2>2 DEF Rows
    <2>4. \A j \in DOMAIN audit : /\ more[j].decision = audit[j].decision
                                  /\ more[j].call = audit[j].call /\ more[j].at = audit[j].at
                                  /\ audit[j].prompt => more[j].prompt
        BY <1>2, <2>2 DEF Rows
    <2>5. more \in Seq(Rows)
        BY <1>2, <2>1, <2>3
    <2> QED
        BY <1>2, <2>1, <2>4, <2>5 DEF Grown
<1> QED
    BY <1>3, <1>4

-----------------------------------------------------------------------------
(* Frames *)

(* What a goroutine may do: to its own connection, to the cache and to a   *)
(* log that grows.                                                         *)
LEMMA ServerFrame ==
    ASSUME Inv, NEW t \in Tasks, task[t] # "none", task'[t] # "none",
           \A q \in Tasks \ {t} : task'[q] = task[q] /\ work'[q] = work[q] /\ reply'[q] = reply[q],
           UNCHANGED client, Grown(audit, audit'),
           TypeInv', PastInv', CacheInv', ActionInv', TaskOK(t)'
    PROVE  Inv'
<1>1. UNCHANGED <<event, pc, result, told, clock, stamp>>
    BY DEF client, time
<1>2. \A h \in Hooks : AdapterAction(h)' = AdapterAction(h)
    BY <1>1 DEF AdapterAction
<1>3. \A h \in Hooks : Delivered(h)' = Delivered(h)
    BY <1>1, <1>2 DEF Delivered
<1>4. ASSUME NEW q \in Tasks \ {t}
      PROVE  TaskOK(q)'
    <2>1. TaskOK(q) /\ q[1] \in Hooks
        BY DEF Inv, Tasks
    <2>2. task'[q] = task[q] /\ work'[q] = work[q] /\ reply'[q] = reply[q]
        OBVIOUS
    <2>3. EvaluationOK(q) => EvaluationOK(q)'
        BY <1>1, <2>2, GrownKeeps DEF EvaluationOK, EventOf
    <2>4. PromptOK(q) => PromptOK(q)'
        BY <1>1, <2>1, <2>2, ResultRow, GrownKeeps DEF PromptOK
    <2> QED
        BY <1>3, <2>1, <2>2, <2>3, <2>4 DEF TaskOK, Asks
<1>5. ASSUME NEW h \in Hooks
      PROVE  HookOK(h)'
    <2>1. HookOK(h)
        BY DEF Inv
    <2>2. \A m \in Methods : task[<<h, m>>] = "none" =>
                /\ task'[<<h, m>>] = "none"
                /\ reply'[<<h, m>>] = reply[<<h, m>>]
        BY DEF Tasks
    <2>3. result[h] # None => RecordedFor(audit', result[h], event[h])
        BY <2>1, GrownKeeps DEF HookOK
    <2> QED
        BY <1>1, <1>2, <1>3, <2>1, <2>2, <2>3 DEF HookOK, Methods
<1> QED
    BY <1>4, <1>5 DEF Inv

(* What a hook may do: move on, open a connection, and keep the result and *)
(* the answer it has.                                                      *)
LEMMA HookFrame ==
    ASSUME Inv, NEW h \in Hooks,
           UNCHANGED <<cache, audit, work, reply, event>>,
           \A g \in Hooks \ {h} : pc'[g] = pc[g] /\ result'[g] = result[g] /\ told'[g] = told[g],
           \A q \in Tasks : task'[q] = task[q] \/ (q[1] = h /\ task'[q] = "queued"),
           result[h] # None => result'[h] = result[h],
           told[h] # None => told'[h] = told[h],
           task'[<<h, "record_adapter_action">>] # "none" => Delivered(h)',
           result'[h] # result[h] => pc[h] \in Asking,
           clock <= clock', TypeInv', PastInv', HookOK(h)'
    PROVE  Inv'
<1>1. \A g \in Hooks \ {h} : AdapterAction(g)' = AdapterAction(g)
    BY DEF AdapterAction
<1>2. \A g \in Hooks \ {h} : Delivered(g)' = Delivered(g)
    BY <1>1 DEF Delivered
<1>3. ASSUME NEW q \in Tasks
      PROVE  TaskOK(q)'
    <2>1. TaskOK(q) /\ q[1] \in Hooks /\ q = <<q[1], q[2]>>
        BY DEF Inv, Tasks
    <2>2. task'[q] = task[q] \/ task'[q] = "queued"
        OBVIOUS
    <2>3. EvaluationOK(q) => EvaluationOK(q)'
        BY <2>2 DEF EvaluationOK, EventOf
    <2>4. q[2] = "record_prompt" => PromptOK(q)'
        <3>1. CASE result'[q[1]] = result[q[1]]
            BY <2>1, <2>2, <3>1 DEF PromptOK, TaskOK
        <3>2. CASE result'[q[1]] # result[q[1]] /\ q[2] = "record_prompt"
            <4>1. q[1] = h /\ pc[h] \in Asking
                BY <2>1, <3>2
            <4>2. task[q] = "none" /\ reply[q] = None
                BY <2>1, <3>2, <4>1 DEF Inv, HookOK
            <4>3. None # Acknowledged
                BY NoneAssumption DEF Acknowledged, Answers
            <4> QED
                BY <2>2, <4>2, <4>3 DEF PromptOK
        <3> QED
            BY <3>1, <3>2
    <2>5. q[2] = "record_adapter_action" /\ task'[q] # "none" => Delivered(q[1])'
        BY <1>2, <2>1 DEF TaskOK
    <2> QED
        BY <2>1, <2>2, <2>3, <2>4, <2>5 DEF TaskOK, Asks
<1>4. ASSUME NEW g \in Hooks \ {h}
      PROVE  HookOK(g)'
    <2>1. HookOK(g)
        BY DEF Inv
    <2>2. \A m \in Methods : task'[<<g, m>>] = task[<<g, m>>]
        BY DEF Tasks
    <2> QED
        BY <1>1, <1>2, <2>1, <2>2 DEF HookOK, Methods
<1>5. ActionInv'
    <2> SUFFICES ASSUME NEW i \in DOMAIN audit, audit[i].action # None
                 PROVE  \E g \in Hooks : told'[g] = audit[i].action /\ result'[g] # None /\ result'[g].event = i
        BY DEF ActionInv
    <2>1. PICK g \in Hooks : told[g] = audit[i].action /\ result[g] # None /\ result[g].event = i
        BY DEF Inv, ActionInv
    <2>2. told'[g] = told[g] /\ result'[g] = result[g]
        BY <2>1
    <2> QED
        BY <2>1, <2>2
<1>6. CacheInv'
    BY DEF Inv, CacheInv
<1> QED
    BY <1>3, <1>4, <1>5, <1>6 DEF Inv

-----------------------------------------------------------------------------
(* FindRecentBySessionCommand: there is a newest row *)

LEMMA LeastElement ==
    ASSUME NEW S \in SUBSET Nat, S # {}
    PROVE  \E m \in S : \A x \in S : m <= x
<1>1. PICK m \in S : \A x \in S : ~(<<x, m>> \in OpToRel(<, Nat))
    BY WFMin, NatLessThanWellFounded
<1>2. \A x, y \in Nat : x < y => <<x, y>> \in OpToRel(<, Nat)
    BY Zenon DEF OpToRel
<1>3. \A x \in S : ~(x < m)
    BY <1>1, <1>2
<1> QED
    BY <1>3

LEMMA GreatestElement ==
    ASSUME NEW S \in SUBSET Nat, S # {}, NEW b \in Nat, \A x \in S : x <= b
    PROVE  \E m \in S : \A x \in S : x <= m
<1> DEFINE T == {y \in Nat : b - y \in S}
<1>1. T # {}
    <2>1. PICK x \in S : TRUE
        OBVIOUS
    <2>2. b - x \in Nat /\ b - (b - x) = x
        OBVIOUS
    <2> QED
        BY <2>1, <2>2
<1>2. PICK k \in T : \A y \in T : k <= y
    BY <1>1, LeastElement
<1>3. \A x \in S : b - x \in Nat /\ b - (b - x) = x
    OBVIOUS
<1>4. \A x \in S : x <= b - k
    BY <1>2, <1>3
<1> QED
    BY <1>2, <1>4

LEMMA LogRows ==
    ASSUME TypeInv
    PROVE  DOMAIN audit = 1 .. Len(audit) /\ Len(audit) \in Nat /\ \A j \in DOMAIN audit : audit[j] \in Rows
<1>1. audit \in Seq(Rows)
    BY DEF TypeInv
<1> QED
    BY <1>1

LEMMA NewestRow ==
    ASSUME TypeInv, PastInv, NEW n \in Nat,
           NEW rows, rows = {i \in DOMAIN audit : audit[i].at >= n}, rows # {}
    PROVE  \E i \in rows : \A j \in rows : NewerRow(i, j)
<1>1. DOMAIN audit = 1 .. Len(audit) /\ Len(audit) \in Nat /\ \A j \in DOMAIN audit : audit[j].at \in Nat
    BY LogRows DEF Rows
<1>2. clock \in Nat
    BY DEF TypeInv
<1> DEFINE Times == {audit[i].at : i \in rows}
<1>3. Times \in SUBSET Nat /\ Times # {} /\ \A x \in Times : x <= clock
    BY <1>1 DEF PastInv
<1>4. PICK latest \in Times : \A x \in Times : x <= latest
    <2> HIDE DEF Times
    <2> QED
        BY <1>2, <1>3, GreatestElement
<1> DEFINE last == {i \in rows : audit[i].at = latest}
<1>5. last \in SUBSET Nat /\ last # {} /\ \A i \in last : i <= Len(audit)
    BY <1>1
<1>6. PICK i \in last : \A j \in last : j <= i
    <2> HIDE DEF last
    <2> QED
        BY <1>1, <1>5, GreatestElement
<1>7. \A j \in rows : NewerRow(i, j)
    <2> SUFFICES ASSUME NEW j \in rows PROVE NewerRow(i, j)
        OBVIOUS
    <2>1. audit[i].at = latest /\ audit[j].at <= latest /\ audit[j].at \in Nat /\ latest \in Nat
        BY <1>1, <1>3, <1>4, <1>6
    <2>2. i \in Nat /\ j \in Nat
        BY <1>1, <1>6
    <2>3. audit[j].at = latest => i >= j
        BY <1>6, <2>2
    <2> QED
        BY <2>1, <2>2, <2>3 DEF NewerRow
<1> QED
    BY <1>6, <1>7

(* The row that is found is not older than any row r of the log.           *)
LEMMA FindsNewest ==
    ASSUME TypeInv, PastInv, NEW n \in Nat
    PROVE  /\ FindRecentBySessionCommand(n) \in Nat \cup {None}
           /\ \A r \in DOMAIN audit : Found(audit, FindRecentBySessionCommand(n), r)
<1> DEFINE rows == {i \in DOMAIN audit : audit[i].at >= n}
           found == FindRecentBySessionCommand(n)
<1>1. DOMAIN audit = 1 .. Len(audit) /\ Len(audit) \in Nat /\ \A j \in DOMAIN audit : audit[j].at \in Nat
    BY LogRows DEF Rows
<1>2. CASE rows = {}
    BY <1>2 DEF FindRecentBySessionCommand, Found
<1>3. CASE rows # {}
    <2>1. \E i \in rows : \A j \in rows : NewerRow(i, j)
        BY <1>3, NewestRow
    <2>2. found = CHOOSE i \in rows : \A j \in rows : NewerRow(i, j)
        BY <1>3 DEF FindRecentBySessionCommand
    <2>3. found \in rows /\ \A j \in rows : NewerRow(found, j)
        <3> HIDE DEF rows, found
        <3> QED
            BY <2>1, <2>2
    <2>4. ASSUME NEW r \in DOMAIN audit
          PROVE  audit[found].at >= audit[r].at
        <3> HIDE DEF found
        <3>1. audit[found].at \in Nat /\ audit[found].at >= n /\ audit[r].at \in Nat
            BY <1>1, <2>3
        <3>2. CASE r \in rows
            BY <2>3, <3>1, <3>2 DEF NewerRow
        <3>3. CASE r \notin rows
            BY <3>1, <3>3
        <3> QED
            BY <3>2, <3>3
    <2> QED
        BY <1>1, <2>3, <2>4 DEF Found
<1> QED
    BY <1>2, <1>3

-----------------------------------------------------------------------------
(* The steps of a goroutine *)

(* The row of the evaluation that the hook of connection t has.            *)
Evaluated(t) == result[t[1]] # None /\ result[t[1]].event # None

(* A goroutine goes on, before it has answered.                            *)
LEMMA GoroutineStep ==
    ASSUME Inv, NEW t \in Tasks, task[t] # "none", task'[t] # "none",
           \A q \in Tasks \ {t} : task'[q] = task[q] /\ work'[q] = work[q],
           UNCHANGED <<reply, client>>, Grown(audit, audit'),
           TypeInv', PastInv', CacheInv', ActionInv',
           task'[t] = "decided" => Asks(t) /\ work'[t] \in [decision : Verdicts, event : {None}],
           task'[t] = "found" => t[2] = "record_prompt",
           task'[t] = "found" /\ Evaluated(t) => Found(audit', work'[t], result[t[1]].event),
           task'[t] = "answering" => work'[t] \in Answers,
           task'[t] = "answering" /\ Asks(t) => RecordedFor(audit', work'[t], EventOf(t)),
           task'[t] = "answering" /\ t[2] = "record_prompt" /\ work'[t] = Acknowledged /\ Evaluated(t)
                => Marked(audit', result[t[1]].event)
    PROVE  Inv'
<1>1. UNCHANGED <<event, pc, result, told, clock, stamp>>
    BY DEF client, time
<1>2. TaskOK(t) /\ t[1] \in Hooks
    BY DEF Inv, Tasks
<1>3. AdapterAction(t[1])' = AdapterAction(t[1])
    BY <1>1 DEF AdapterAction
<1>4. Delivered(t[1])' = Delivered(t[1])
    BY <1>1, <1>3 DEF Delivered
<1>5. Asks(t) => EvaluationOK(t)'
    BY <1>1, <1>2, GrownKeeps DEF TaskOK, EvaluationOK, EventOf, Asks
<1>6. t[2] = "record_prompt" => PromptOK(t)'
    BY <1>1, <1>2, ResultRow, GrownKeeps DEF TaskOK, PromptOK, Evaluated
<1>7. TaskOK(t)'
    BY <1>2, <1>4, <1>5, <1>6 DEF TaskOK, Asks
<1> QED
    BY <1>7, ServerFrame

LEMMA AcceptKeeps ==
    ASSUME Inv, NEW t \in Tasks, Accept(t)
    PROVE  Inv'
<1>1. UNCHANGED <<daemon, starts, cache, audit, work, reply, client, event, pc, result, told, clock, stamp>>
    BY DEF Accept, client, time, server
<1>2. task' = [task EXCEPT ![t] = "running"] /\ task[t] = "queued"
    BY DEF Accept
<1>3. TypeInv'
    BY <1>1, <1>2 DEF Inv, TypeInv
<1>4. PastInv' /\ CacheInv' /\ ActionInv' /\ Grown(audit, audit')
    BY <1>1, GrownSame DEF Inv, PastInv, CacheInv, ActionInv
<1>5. task'[t] = "running" /\ \A q \in Tasks \ {t} : task'[q] = task[q]
    BY <1>2 DEF Inv, TypeInv
<1> QED
    BY <1>1, <1>2, <1>3, <1>4, <1>5, GoroutineStep

LEMMA AnswerFromCacheKeeps ==
    ASSUME Inv, NEW t \in Tasks, AnswerFromCache(t)
    PROVE  Inv'
<1> DEFINE k == lookupKey(EventOf(t))
<1>1. UNCHANGED <<daemon, starts, cache, audit, reply, client, event, pc, result, told, clock, stamp>>
    BY DEF AnswerFromCache, client, time, server
<1>2. /\ task' = [task EXCEPT ![t] = "answering"] /\ task[t] = "running" /\ Asks(t)
      /\ work' = [work EXCEPT ![t] = cache[k]] /\ k \in DOMAIN cache
    BY DEF AnswerFromCache
<1>3. cache[k] \in Answers
    BY <1>2 DEF Inv, TypeInv
<1>4. TypeInv'
    BY <1>1, <1>2, <1>3 DEF Inv, TypeInv
<1>5. PastInv' /\ CacheInv' /\ ActionInv' /\ Grown(audit, audit')
    BY <1>1, GrownSame DEF Inv, PastInv, CacheInv, ActionInv
<1>6. /\ task'[t] = "answering" /\ work'[t] = cache[k]
      /\ \A q \in Tasks \ {t} : task'[q] = task[q] /\ work'[q] = work[q]
    BY <1>2 DEF Inv, TypeInv
<1>7. RecordedFor(audit, cache[k], EventOf(t))
    <2>1. Recorded(audit, cache[k])
        BY <1>2 DEF Inv, CacheInv
    <2>2. EventOf(t) \in Event
        BY DEF Inv, TypeInv, EventOf, Tasks
    <2>3. ASSUME EventOf(t).name = "PreToolUse", cache[k] # EngineError
          PROVE  audit[cache[k].event].call = EventOf(t).call
        <3>1. EventOf(t).call \in Calls /\ EventOf(t).call # None
            BY <2>2, NoneAssumption DEF Event
        <3>2. k = EventOf(t).call
            BY <2>3, <3>1 DEF lookupKey, ToolUse
        <3>3. k # "session"
            BY <3>1, <3>2, NoneAssumption
        <3> QED
            BY <1>2, <2>3, <3>2, <3>3 DEF Inv, CacheInv
    <2> QED
        BY <2>1, <2>3 DEF RecordedFor
<1>8. t[2] # "record_prompt"
    BY <1>2 DEF Asks
<1> HIDE DEF k
<1> QED
    BY <1>1, <1>2, <1>3, <1>4, <1>5, <1>6, <1>7, <1>8, GoroutineStep

LEMMA DecideKeeps ==
    ASSUME Inv, NEW t \in Tasks, Decide(t)
    PROVE  Inv'
<1>1. UNCHANGED <<daemon, starts, cache, audit, reply, client, event, pc, result, told, clock, stamp>>
    BY DEF Decide, client, time, server
<1>2. task' = [task EXCEPT ![t] = "decided"] /\ task[t] = "running" /\ Asks(t)
    BY DEF Decide
<1>3. PICK v \in Verdicts : work' = [work EXCEPT ![t] = [decision |-> v, event |-> None]]
    BY DEF Decide
<1>4. [decision |-> v, event |-> None] \in Answers
    BY VerdictsAssumption DEF Answers
<1>5. TypeInv'
    BY <1>1, <1>2, <1>3, <1>4 DEF Inv, TypeInv
<1>6. PastInv' /\ CacheInv' /\ ActionInv' /\ Grown(audit, audit')
    BY <1>1, GrownSame DEF Inv, PastInv, CacheInv, ActionInv
<1>7. /\ task'[t] = "decided" /\ work'[t] = [decision |-> v, event |-> None]
      /\ \A q \in Tasks \ {t} : task'[q] = task[q] /\ work'[q] = work[q]
    BY <1>2, <1>3 DEF Inv, TypeInv
<1>8. work'[t] \in [decision : Verdicts, event : {None}]
    BY <1>7
<1> QED
    BY <1>1, <1>2, <1>5, <1>6, <1>7, <1>8, GoroutineStep

(* A row is added: no row is from the future and none says what was done.  *)
LEMMA RowAdded ==
    ASSUME Inv, UNCHANGED <<event, pc, result, told, clock, stamp>>,
           NEW row \in Rows, row.at <= clock, row.action = None, audit' = Append(audit, row)
    PROVE  PastInv' /\ ActionInv'
<1>1. /\ DOMAIN audit' = DOMAIN audit \cup {Len(audit) + 1}
      /\ audit'[Len(audit) + 1] = row
      /\ \A i \in DOMAIN audit : audit'[i] = audit[i]
    BY AppendGrows DEF Inv
<1>2. PastInv'
    BY <1>1 DEF Inv, PastInv
<1>3. ActionInv'
    BY <1>1 DEF Inv, ActionInv
<1> QED
    BY <1>2, <1>3

LEMMA RowTyped ==
    ASSUME Inv, NEW t \in Tasks
    PROVE  /\ EventOf(t).name \in {"PreToolUse", "PermissionRequest"}
           /\ ToolUse(EventOf(t)) \in Calls \cup {None}
<1>1. EventOf(t) \in Event
    BY DEF Inv, TypeInv, EventOf, Tasks
<1> QED
    BY <1>1 DEF ToolUse, Event

LEMMA RecordKeeps ==
    ASSUME Inv, NEW t \in Tasks, Record(t)
    PROVE  Inv'
<1> DEFINE row == Row(t, stamp[t[1]], work[t].decision, FALSE)
           e == EventOf(t)
<1>1. UNCHANGED <<daemon, starts, reply, client, event, pc, result, told, clock, stamp>>
    BY DEF Record, client, time
<1>2. task' = [task EXCEPT ![t] = "answering"] /\ task[t] = "decided"
    BY DEF Record
<1>3. Asks(t) /\ t[2] # "record_prompt" /\ work[t] \in [decision : Verdicts, event : {None}] /\ t[1] \in Hooks
    <2>1. TaskOK(t)
        BY DEF Inv
    <2> QED
        BY <1>2, <2>1 DEF TaskOK, EvaluationOK, Asks, Tasks
<1>4. work[t].decision \in Outcomes /\ stamp[t[1]] \in Nat /\ stamp[t[1]] <= clock
    BY <1>3, VerdictsAssumption DEF Inv, TypeInv, PastInv
<1>5. /\ row \in Rows /\ row.at = stamp[t[1]] /\ row.action = None
      /\ row.decision = work[t].decision /\ row.call = ToolUse(e)
    BY <1>4, RowTyped DEF Row, Rows
<1> HIDE DEF row
<1>6. PICK ok \in BOOLEAN :
        /\ audit' = IF ok THEN Append(audit, row) ELSE audit
        /\ LET answer == IF ok THEN [work[t] EXCEPT !.event = Len(audit')] ELSE EngineError
           IN /\ work' = [work EXCEPT ![t] = answer]
              /\ cache' = [k \in DOMAIN cache \cup cacheKeys(e) |->
                             IF k \in cacheKeys(e) THEN answer ELSE cache[k]]
    BY DEF Record, row
<1> DEFINE answer == IF ok THEN [work[t] EXCEPT !.event = Len(audit')] ELSE EngineError
<1>7. /\ work' = [work EXCEPT ![t] = answer]
      /\ cache' = [k \in DOMAIN cache \cup cacheKeys(e) |-> IF k \in cacheKeys(e) THEN answer ELSE cache[k]]
    BY <1>6
<1>8. audit' \in Seq(Rows) /\ Grown(audit, audit') /\ PastInv' /\ ActionInv'
    <2>1. CASE ok
        BY <1>1, <1>4, <1>5, <1>6, <2>1, AppendGrows, RowAdded DEF Inv
    <2>2. CASE ~ok
        BY <1>1, <1>6, <2>2, GrownSame DEF Inv, PastInv, ActionInv, TypeInv
    <2> QED
        BY <2>1, <2>2
<1>9. answer \in Answers /\ Recorded(audit', answer)
      /\ (answer # EngineError => audit'[answer.event].call = ToolUse(e))
    <2>1. CASE ok
        <3>1. /\ Len(audit') = Len(audit) + 1 /\ Len(audit) \in Nat /\ Len(audit') \in DOMAIN audit'
              /\ audit'[Len(audit')] = row
            BY <1>5, <1>6, <2>1, AppendGrows DEF Inv
        <3>2. answer = [decision |-> work[t].decision, event |-> Len(audit')]
            BY <1>3, <2>1
        <3>3. answer \in Answers
            BY <1>4, <3>1, <3>2 DEF Answers
        <3>4. answer.event = Len(audit') /\ answer.decision = work[t].decision
            BY <3>2
        <3> HIDE DEF answer
        <3> QED
            BY <1>5, <3>1, <3>3, <3>4 DEF Recorded
    <2>2. CASE ~ok
        BY <2>2 DEF Answers, EngineError, Recorded
    <2> QED
        BY <2>1, <2>2
<1> HIDE DEF answer
<1>10. e \in Event
    BY DEF Inv, TypeInv, EventOf, Tasks
<1>11. \A k \in cacheKeys(e) : k = "session" \/ k = ToolUse(e)
    BY DEF cacheKeys
<1>12. CacheInv'
    <2> SUFFICES ASSUME NEW k \in DOMAIN cache \cup cacheKeys(e)
                 PROVE  /\ Recorded(audit', cache'[k])
                        /\ cache'[k] # EngineError /\ k # "session" => audit'[cache'[k].event].call = k
        BY <1>7 DEF CacheInv
    <2>1. CASE k \in cacheKeys(e)
        BY <1>7, <1>9, <1>11, <2>1
    <2>2. CASE k \notin cacheKeys(e)
        <3>1. cache'[k] = cache[k] /\ k \in DOMAIN cache
            BY <1>7, <2>2
        <3>2. Recorded(audit, cache[k])
              /\ (cache[k] # EngineError /\ k # "session" => audit[cache[k].event].call = k)
            BY <3>1 DEF Inv, CacheInv
        <3>3. cache[k] # EngineError => cache[k].event \in DOMAIN audit
            BY <3>2 DEF Recorded
        <3> QED
            BY <1>8, <3>1, <3>2, <3>3, GrownKeeps DEF Grown
    <2> QED
        BY <2>1, <2>2
<1>13. cache' \in [DOMAIN cache' -> Answers]
    BY <1>7, <1>9 DEF Inv, TypeInv
<1>14. TypeInv'
    BY <1>1, <1>2, <1>7, <1>8, <1>9, <1>13 DEF Inv, TypeInv
<1>15. RecordedFor(audit', answer, e)
    <2>1. e.name = "PreToolUse" => ToolUse(e) = e.call
        BY DEF ToolUse
    <2> QED
        BY <1>9, <2>1 DEF RecordedFor
<1>16. /\ task'[t] = "answering" /\ work'[t] = answer
       /\ \A q \in Tasks \ {t} : task'[q] = task[q] /\ work'[q] = work[q]
    BY <1>2, <1>7 DEF Inv, TypeInv
<1> QED
    BY <1>1, <1>2, <1>3, <1>8, <1>9, <1>12, <1>14, <1>15, <1>16, GoroutineStep

LEMMA CacheKeeps ==
    ASSUME Inv, UNCHANGED cache, Grown(audit, audit')
    PROVE  CacheInv'
<1> SUFFICES ASSUME NEW k \in DOMAIN cache
             PROVE  /\ Recorded(audit', cache[k])
                    /\ cache[k] # EngineError /\ k # "session" => audit'[cache[k].event].call = k
    BY DEF CacheInv
<1>1. Recorded(audit, cache[k])
      /\ (cache[k] # EngineError /\ k # "session" => audit[cache[k].event].call = k)
    BY DEF Inv, CacheInv
<1>2. cache[k] # EngineError => cache[k].event \in DOMAIN audit
    BY <1>1 DEF Recorded
<1> QED
    BY <1>1, <1>2, GrownKeeps DEF Grown

LEMMA AnswerConstants ==
    /\ EngineError \in Answers /\ Acknowledged \in Answers
    /\ EngineError # Acknowledged /\ None # Acknowledged /\ None # EngineError
BY NoneAssumption DEF EngineError, Acknowledged, Answers

LEMMA FindPromptedKeeps ==
    ASSUME Inv, NEW t \in Tasks, FindPrompted(t)
    PROVE  Inv'
<1>1. UNCHANGED <<daemon, starts, cache, audit, reply, client, event, pc, result, told, clock, stamp>>
    BY DEF FindPrompted, client, time, server
<1>2. PastInv' /\ CacheInv' /\ ActionInv' /\ Grown(audit, audit')
    BY <1>1, GrownSame DEF Inv, PastInv, CacheInv, ActionInv
<1>3. task[t] = "running" /\ t[2] = "record_prompt" /\ ~Asks(t) /\ t[1] \in Hooks
    BY DEF FindPrompted, Asks, Tasks
<1>4. ASSUME NEW n \in 0 .. clock,
             work' = [work EXCEPT ![t] = FindRecentBySessionCommand(n)],
             task' = [task EXCEPT ![t] = "found"]
      PROVE  Inv'
    <2> DEFINE w == FindRecentBySessionCommand(n)
    <2>1. w \in Nat \cup {None} /\ \A r \in DOMAIN audit : Found(audit, w, r)
        BY FindsNewest DEF Inv, TypeInv
    <2> HIDE DEF w
    <2>2. TypeInv'
        BY <1>1, <1>4, <2>1 DEF Inv, TypeInv, w
    <2>3. /\ task'[t] = "found" /\ work'[t] = w
          /\ \A q \in Tasks \ {t} : task'[q] = task[q] /\ work'[q] = work[q]
        BY <1>4 DEF Inv, TypeInv, w
    <2>4. Evaluated(t) => Found(audit', work'[t], result[t[1]].event)
        BY <1>1, <1>3, <2>1, <2>3, ResultRow DEF Evaluated
    <2> QED
        BY <1>1, <1>2, <1>3, <2>2, <2>3, <2>4, GoroutineStep
<1>5. ASSUME work' = [work EXCEPT ![t] = EngineError], task' = [task EXCEPT ![t] = "answering"]
      PROVE  Inv'
    <2>1. TypeInv'
        BY <1>1, <1>5, AnswerConstants DEF Inv, TypeInv
    <2>2. /\ task'[t] = "answering" /\ work'[t] = EngineError
          /\ \A q \in Tasks \ {t} : task'[q] = task[q] /\ work'[q] = work[q]
        BY <1>5 DEF Inv, TypeInv
    <2> QED
        BY <1>1, <1>2, <1>3, <2>1, <2>2, AnswerConstants, GoroutineStep
<1> QED
    BY <1>4, <1>5 DEF FindPrompted

LEMMA RecordPromptKeeps ==
    ASSUME Inv, NEW t \in Tasks, RecordPrompt(t)
    PROVE  Inv'
<1> DEFINE row == Row(t, clock, "NO_APPROVAL", TRUE)
<1>1. UNCHANGED <<daemon, starts, cache, reply, client, event, pc, result, told, clock, stamp>>
    BY DEF RecordPrompt, client, time, server
<1>2. task' = [task EXCEPT ![t] = "answering"] /\ task[t] = "found"
    BY DEF RecordPrompt
<1>3. t[2] = "record_prompt" /\ ~Asks(t) /\ t[1] \in Hooks /\ PromptOK(t)
    <2>1. TaskOK(t)
        BY DEF Inv
    <2> QED
        BY <1>2, <2>1 DEF TaskOK, Asks, Tasks
<1>4. row \in Rows /\ row.at = clock /\ row.action = None /\ row.prompt
    BY RowTyped DEF Row, Rows, Inv, TypeInv, Outcomes
<1> HIDE DEF row
<1>5. PICK ok \in BOOLEAN :
        /\ audit' = IF ~ok THEN audit
                    ELSE IF work[t] = None THEN Append(audit, row)
                    ELSE [audit EXCEPT ![work[t]].prompt = TRUE]
        /\ work' = [work EXCEPT ![t] = IF ok THEN Acknowledged ELSE EngineError]
    BY DEF RecordPrompt, row
<1>6. /\ audit' \in Seq(Rows) /\ Grown(audit, audit') /\ PastInv' /\ ActionInv'
      /\ ok /\ Evaluated(t) => Marked(audit', result[t[1]].event)
    <2>1. CASE ~ok
        BY <1>1, <1>5, <2>1, GrownSame DEF Inv, PastInv, ActionInv, TypeInv
    <2>2. CASE ok /\ work[t] = None
        <3>1. audit' = Append(audit, row)
            BY <1>5, <2>2
        <3>2. /\ audit' \in Seq(Rows) /\ Grown(audit, audit')
              /\ Len(audit) + 1 \in DOMAIN audit' /\ audit'[Len(audit) + 1] = row
            BY <1>4, <3>1, AppendGrows DEF Inv
        <3>3. clock <= clock
            BY DEF Inv, TypeInv
        <3>4. PastInv' /\ ActionInv'
            BY <1>1, <1>4, <3>1, <3>3, RowAdded
        <3>5. ASSUME Evaluated(t)
              PROVE  Marked(audit', result[t[1]].event)
            <4>1. result[t[1]].event \in DOMAIN audit
                BY <1>3, <3>5, ResultRow DEF Evaluated
            <4>2. audit'[result[t[1]].event].at = audit[result[t[1]].event].at
                  /\ audit[result[t[1]].event].at <= clock
                BY <3>2, <4>1 DEF Grown, Inv, PastInv
            <4>3. audit[result[t[1]].event].at \in Nat /\ clock \in Nat
                BY <4>1, LogRows DEF Inv, Rows, TypeInv
            <4> QED
                BY <1>4, <3>2, <4>2, <4>3 DEF Marked
        <3> QED
            BY <3>2, <3>4, <3>5
    <2>3. CASE ok /\ work[t] # None
        <3> DEFINE w == work[t]
        <3>1. audit' = [audit EXCEPT ![w].prompt = TRUE]
            BY <1>5, <2>3
        <3>2. audit' \in Seq(Rows) /\ DOMAIN audit' = DOMAIN audit /\ Grown(audit, audit')
            BY <3>1, ColumnGrows DEF Inv
        <3>3. \A i \in DOMAIN audit : audit[i] \in Rows
            BY LogRows DEF Inv
        <3>4. \A i \in DOMAIN audit : audit'[i] = audit[i] \/ audit'[i] = [audit[i] EXCEPT !.prompt = TRUE]
            BY <3>1
        <3>5. \A i \in DOMAIN audit : audit'[i].at = audit[i].at /\ audit'[i].action = audit[i].action
            BY <3>3, <3>4 DEF Rows
        <3>6. PastInv' /\ ActionInv'
            BY <1>1, <3>2, <3>5 DEF Inv, PastInv, ActionInv
        <3>7. ASSUME Evaluated(t)
              PROVE  Marked(audit', result[t[1]].event)
            <4>1. Found(audit, w, result[t[1]].event)
                BY <1>2, <1>3, <3>7 DEF PromptOK, Evaluated
            <4>2. w \in DOMAIN audit /\ audit[w].at >= audit[result[t[1]].event].at
                BY <2>3, <4>1 DEF Found
            <4>3. audit'[w] = [audit[w] EXCEPT !.prompt = TRUE]
                BY <3>1, <4>2
            <4>4. audit'[w].prompt
                BY <3>3, <4>2, <4>3 DEF Rows
            <4>5. result[t[1]].event \in DOMAIN audit
                BY <1>3, <3>7, ResultRow DEF Evaluated
            <4> HIDE DEF w
            <4> QED
                BY <3>2, <3>5, <4>2, <4>4, <4>5 DEF Marked
        <3> QED
            BY <3>2, <3>6, <3>7
    <2> QED
        BY <2>1, <2>2, <2>3
<1>7. CacheInv'
    BY <1>1, <1>6, CacheKeeps
<1>8. TypeInv'
    BY <1>1, <1>2, <1>5, <1>6, AnswerConstants DEF Inv, TypeInv
<1>9. /\ task'[t] = "answering" /\ work'[t] = IF ok THEN Acknowledged ELSE EngineError
      /\ \A q \in Tasks \ {t} : task'[q] = task[q] /\ work'[q] = work[q]
    BY <1>2, <1>5 DEF Inv, TypeInv
<1>10. work'[t] \in Answers /\ (work'[t] = Acknowledged => ok)
    BY <1>9, AnswerConstants
<1> QED
    BY <1>1, <1>2, <1>3, <1>6, <1>7, <1>8, <1>9, <1>10, GoroutineStep

LEMMA AdapterActions ==
    ASSUME NEW h
    PROVE  AdapterAction(h) \in {"allow", "deny", "prompt", "defer"}
BY DEF AdapterAction, MapPreToolUse, MapPermissionRequest

LEMMA RecordAdapterActionKeeps ==
    ASSUME Inv, NEW t \in Tasks, RecordAdapterAction(t)
    PROVE  Inv'
<1> DEFINE h == t[1]
           r == result[h].event
           a == AdapterAction(h)
<1>1. UNCHANGED <<daemon, starts, cache, reply, client, event, pc, result, told, clock, stamp>>
    BY DEF RecordAdapterAction, client, time, server
<1>2. task' = [task EXCEPT ![t] = "answering"] /\ task[t] = "running" /\ t[2] = "record_adapter_action"
    BY DEF RecordAdapterAction
<1>3. ~Asks(t) /\ h \in Hooks /\ Delivered(h)
    <2>1. TaskOK(t)
        BY DEF Inv
    <2> QED
        BY <1>2, <2>1 DEF TaskOK, Asks, Tasks
<1>4. PICK ok \in BOOLEAN :
        /\ audit' = IF ok THEN [audit EXCEPT ![r].action = a] ELSE audit
        /\ work' = [work EXCEPT ![t] = IF ok THEN Acknowledged ELSE EngineError]
    BY DEF RecordAdapterAction
<1>5. a \in {"allow", "deny", "prompt", "defer"}
    BY AdapterActions
<1>6. told[h] = a /\ result[h] # None
    BY <1>3 DEF Delivered
<1> HIDE DEF a
<1>7. audit' \in Seq(Rows) /\ Grown(audit, audit') /\ PastInv' /\ ActionInv'
    <2>1. CASE ~ok
        BY <1>1, <1>4, <2>1, GrownSame DEF Inv, PastInv, ActionInv, TypeInv
    <2>2. CASE ok
        <3>1. audit' = [audit EXCEPT ![r].action = a]
            BY <1>4, <2>2
        <3>2. audit' \in Seq(Rows) /\ DOMAIN audit' = DOMAIN audit /\ Grown(audit, audit')
            BY <1>5, <3>1, ColumnGrows DEF Inv
        <3>3. \A i \in DOMAIN audit : audit[i] \in Rows
            BY LogRows DEF Inv
        <3>4. \A i \in DOMAIN audit : audit'[i] = audit[i] \/ (i = r /\ audit'[i] = [audit[i] EXCEPT !.action = a])
            BY <3>1
        <3>5. \A i \in DOMAIN audit : /\ audit'[i].at = audit[i].at
                                      /\ audit'[i].action = audit[i].action \/ (i = r /\ audit'[i].action = a)
            BY <3>3, <3>4 DEF Rows
        <3>6. PastInv'
            BY <1>1, <3>2, <3>5 DEF Inv, PastInv
        <3>7. ActionInv'
            BY <1>1, <1>3, <1>6, <3>2, <3>5 DEF Inv, ActionInv
        <3> QED
            BY <3>2, <3>6, <3>7
    <2> QED
        BY <2>1, <2>2
<1>8. CacheInv'
    BY <1>1, <1>7, CacheKeeps
<1>9. TypeInv'
    BY <1>1, <1>2, <1>4, <1>7, AnswerConstants DEF Inv, TypeInv
<1>10. /\ task'[t] = "answering" /\ work'[t] \in Answers
       /\ \A q \in Tasks \ {t} : task'[q] = task[q] /\ work'[q] = work[q]
    BY <1>2, <1>4, AnswerConstants DEF Inv, TypeInv
<1> QED
    BY <1>1, <1>2, <1>3, <1>7, <1>8, <1>9, <1>10, GoroutineStep

LEMMA AnswerKeeps ==
    ASSUME Inv, NEW t \in Tasks, Answer(t)
    PROVE  Inv'
<1>1. UNCHANGED <<daemon, starts, cache, audit, client, event, pc, result, told, clock, stamp>>
    BY DEF Answer, client, time, server
<1>2. /\ task' = [task EXCEPT ![t] = "over"] /\ task[t] = "answering"
      /\ work' = [work EXCEPT ![t] = None]
      /\ reply' = [reply EXCEPT ![t] = IF pc[t[1]] = t[2] THEN work[t] ELSE None]
    BY DEF Answer
<1>3. TaskOK(t) /\ t[1] \in Hooks /\ work[t] \in Answers
    BY <1>2 DEF Inv, Tasks, TaskOK
<1>4. PastInv' /\ CacheInv' /\ ActionInv' /\ Grown(audit, audit')
    BY <1>1, GrownSame DEF Inv, PastInv, CacheInv, ActionInv
<1>5. TypeInv'
    BY <1>1, <1>2, <1>3 DEF Inv, TypeInv
<1>6. /\ task'[t] = "over" /\ (reply'[t] = work[t] \/ reply'[t] = None)
      /\ \A q \in Tasks \ {t} : task'[q] = task[q] /\ work'[q] = work[q] /\ reply'[q] = reply[q]
    BY <1>2 DEF Inv, TypeInv
<1>7. AdapterAction(t[1])' = AdapterAction(t[1])
    BY <1>1 DEF AdapterAction
<1>8. Delivered(t[1])' = Delivered(t[1])
    BY <1>1, <1>7 DEF Delivered
<1>9. Asks(t) => EvaluationOK(t)'
    BY <1>1, <1>2, <1>3, <1>6 DEF TaskOK, EvaluationOK, EventOf
<1>10. t[2] = "record_prompt" => PromptOK(t)'
    BY <1>1, <1>2, <1>3, <1>6, AnswerConstants DEF TaskOK, PromptOK
<1>11. TaskOK(t)'
    BY <1>2, <1>3, <1>6, <1>8, <1>9, <1>10 DEF TaskOK, Asks
<1> QED
    BY <1>1, <1>2, <1>4, <1>5, <1>6, <1>11, ServerFrame

-----------------------------------------------------------------------------
(* The daemon's life *)

(* Connections are cut, and the cache is kept or lost.                     *)
LEMMA DaemonFrame ==
    ASSUME Inv, UNCHANGED <<audit, reply, client>>,
           \A q \in Tasks : \/ task'[q] = task[q] /\ (work'[q] = work[q] \/ task[q] = "none")
                            \/ task[q] # "none" /\ task'[q] = "over",
           TypeInv', CacheInv'
    PROVE  Inv'
<1>1. UNCHANGED <<event, pc, result, told, clock, stamp>>
    BY DEF client, time
<1>2. \A h \in Hooks : AdapterAction(h)' = AdapterAction(h)
    BY <1>1 DEF AdapterAction
<1>3. \A h \in Hooks : Delivered(h)' = Delivered(h)
    BY <1>1, <1>2 DEF Delivered
<1>4. ASSUME NEW q \in Tasks
      PROVE  TaskOK(q)'
    <2>1. TaskOK(q) /\ q[1] \in Hooks
        BY DEF Inv, Tasks
    <2>2. \/ task'[q] = task[q] /\ (work'[q] = work[q] \/ task[q] = "none")
          \/ task[q] # "none" /\ task'[q] = "over"
        OBVIOUS
    <2>3. EvaluationOK(q) => EvaluationOK(q)'
        BY <1>1, <2>2 DEF EvaluationOK, EventOf
    <2>4. PromptOK(q) => PromptOK(q)'
        BY <1>1, <2>2 DEF PromptOK
    <2> QED
        BY <1>3, <2>1, <2>2, <2>3, <2>4 DEF TaskOK, Asks
<1>5. ASSUME NEW h \in Hooks
      PROVE  HookOK(h)'
    <2>1. HookOK(h)
        BY DEF Inv
    <2>2. \A m \in Methods : task[<<h, m>>] = "none" => task'[<<h, m>>] = "none"
        BY DEF Tasks
    <2> QED
        BY <1>1, <1>2, <1>3, <2>1, <2>2 DEF HookOK, Methods
<1>6. PastInv' /\ ActionInv'
    BY <1>1 DEF Inv, PastInv, ActionInv
<1> QED
    BY <1>4, <1>5, <1>6 DEF Inv

LEMMA DaemonStepKeeps ==
    ASSUME Inv, DaemonStep
    PROVE  Inv'
<1> USE DEF client, time
<1>1. CASE RequestShutdown \/ Signal
    <2>1. UNCHANGED <<cache, audit, work, reply, client>> /\ task' = StopListening
        BY <1>1 DEF RequestShutdown, Signal
    <2>2. TypeInv'
        BY <2>1 DEF Inv, TypeInv, StopListening
    <2>3. CacheInv'
        BY <2>1 DEF Inv, CacheInv
    <2>4. \A q \in Tasks : \/ task'[q] = task[q]
                           \/ task[q] # "none" /\ task'[q] = "over"
        BY <2>1 DEF StopListening
    <2> QED
        BY <2>1, <2>2, <2>3, <2>4, DaemonFrame
<1>2. CASE Shutdown \/ Start
    <2>1. UNCHANGED <<cache, audit, task, work, reply, client>>
        BY <1>2 DEF Shutdown, Start
    <2>2. TypeInv'
        BY <2>1 DEF Inv, TypeInv
    <2>3. CacheInv'
        BY <2>1 DEF Inv, CacheInv
    <2> QED
        BY <2>1, <2>2, <2>3, DaemonFrame
<1>3. CASE Exit
    <2>1. /\ UNCHANGED <<audit, reply, client>>
          /\ cache' = [k \in {} |-> None]
          /\ task' = [t \in Tasks |-> IF task[t] = "none" THEN "none" ELSE "over"]
          /\ work' = [t \in Tasks |-> None]
        BY <1>3 DEF Exit
    <2>2. cache' \in [DOMAIN cache' -> Answers] /\ CacheInv'
        BY <2>1 DEF CacheInv
    <2>3. TypeInv'
        BY <2>1, <2>2 DEF Inv, TypeInv
    <2>4. \A q \in Tasks : \/ task'[q] = task[q] /\ task[q] = "none"
                           \/ task[q] # "none" /\ task'[q] = "over"
        BY <2>1
    <2> QED
        BY <2>1, <2>2, <2>3, <2>4, DaemonFrame
<1> QED
    BY <1>1, <1>2, <1>3 DEF DaemonStep

-----------------------------------------------------------------------------
(* The steps of a hook process *)

(* A connection is opened or not; the tasks of the other methods stay.     *)
LEMMA Dialled ==
    ASSUME Inv, NEW h \in Hooks, NEW m \in Methods,
           task' = [task EXCEPT ![<<h, m>>] = "queued"] \/ UNCHANGED task
    PROVE  /\ task' \in [Tasks -> {"none", "queued", "running", "decided", "found", "answering", "over"}]
           /\ \A q \in Tasks : task'[q] = task[q] \/ (q[1] = h /\ task'[q] = "queued")
           /\ \A n \in Methods \ {m} : task'[<<h, n>>] = task[<<h, n>>]
<1>1. task \in [Tasks -> {"none", "queued", "running", "decided", "found", "answering", "over"}]
    BY DEF Inv, TypeInv
<1>2. <<h, m>> \in Tasks /\ \A n \in Methods : <<h, n>> \in Tasks
    BY DEF Tasks
<1>3. <<h, m>>[1] = h
    OBVIOUS
<1>4. \A n \in Methods \ {m} : <<h, n>> # <<h, m>>
    OBVIOUS
<1> QED
    BY <1>1, <1>2, <1>3, <1>4

(* A hook goes on with the result and the answer it has.                   *)
LEMMA HookGoesOn ==
    ASSUME Inv, NEW h \in Hooks, NEW m \in Methods \ {"record_adapter_action"}, NEW there,
           there \in {"start", "unreached", "evaluate", "evaluate_again", "prompt", "record_prompt",
                      "write", "annotate", "record_adapter_action", "done"},
           UNCHANGED <<cache, audit, work, reply, event, result, told>>,
           task' = [task EXCEPT ![<<h, m>>] = "queued"] \/ UNCHANGED task,
           pc' = [pc EXCEPT ![h] = there],
           clock' \in Nat, clock <= clock', stamp' \in [Hooks -> Nat],
           \A g \in Hooks : stamp'[g] <= clock',
           pc[h] \in Asking => there \in Asking /\ m \in {"evaluate", "evaluate_again"},
           m = "record_prompt" => pc[h] \in {"prompt", "record_prompt", "write"},
           there \in Asking => pc[h] \in Asking,
           there \in {"prompt", "record_prompt", "write"} => pc[h] \in {"prompt", "record_prompt", "write"},
           there \notin {"annotate", "record_adapter_action"}
    PROVE  Inv'
<1>1. /\ task' \in [Tasks -> {"none", "queued", "running", "decided", "found", "answering", "over"}]
      /\ \A q \in Tasks : task'[q] = task[q] \/ (q[1] = h /\ task'[q] = "queued")
      /\ \A n \in Methods \ {m} : task'[<<h, n>>] = task[<<h, n>>]
    BY Dialled
<1>2. TypeInv'
    BY <1>1 DEF Inv, TypeInv
<1>3. pc'[h] = there /\ \A g \in Hooks \ {h} : pc'[g] = pc[g]
    BY DEF Inv, TypeInv
<1>4. PastInv'
    <2>1. \A i \in DOMAIN audit : audit[i].at \in Nat
        BY LogRows DEF Inv, Rows
    <2> QED
        BY <2>1 DEF Inv, PastInv, TypeInv
<1>5. AdapterAction(h)' = AdapterAction(h)
    BY DEF AdapterAction
<1>6. Delivered(h)' = Delivered(h)
    BY <1>5 DEF Delivered
<1>7. HookOK(h)'
    <2>1. HookOK(h)
        BY DEF Inv
    <2>2. task'[<<h, "record_adapter_action">>] = task[<<h, "record_adapter_action">>]
        BY <1>1 DEF Methods
    <2>3. result[h] = None => task'[<<h, "record_prompt">>] = task[<<h, "record_prompt">>]
        BY <1>1, <2>1 DEF Methods, HookOK
    <2> QED
        BY <1>3, <1>5, <1>6, <2>1, <2>2, <2>3 DEF HookOK
<1>8. task'[<<h, "record_adapter_action">>] # "none" => Delivered(h)'
    <2>1. <<h, "record_adapter_action">> \in Tasks
        BY DEF Tasks, Methods
    <2>2. TaskOK(<<h, "record_adapter_action">>)
        BY <2>1 DEF Inv
    <2>3. task[<<h, "record_adapter_action">>] # "none" => Delivered(h)
        BY <2>2 DEF TaskOK
    <2> QED
        BY <1>1, <1>6, <2>3 DEF Methods
<1> QED
    BY <1>1, <1>2, <1>3, <1>4, <1>7, <1>8, HookFrame

(* The same without a new connection.                                      *)
LEMMA HookMoves ==
    ASSUME Inv, NEW h \in Hooks, NEW there,
           there \in {"start", "unreached", "evaluate", "evaluate_again", "prompt", "record_prompt",
                      "write", "annotate", "record_adapter_action", "done"},
           UNCHANGED <<cache, audit, task, work, reply, event, result, told>>,
           pc' = [pc EXCEPT ![h] = there],
           clock' \in Nat, clock <= clock', stamp' \in [Hooks -> Nat],
           \A g \in Hooks : stamp'[g] <= clock',
           pc[h] \in Asking => there \in Asking,
           there \in Asking => pc[h] \in Asking,
           there \in {"prompt", "record_prompt", "write"} => pc[h] \in {"prompt", "record_prompt", "write"},
           there \notin {"annotate", "record_adapter_action"}
    PROVE  Inv'
<1>1. "evaluate" \in Methods \ {"record_adapter_action"} /\ "evaluate" # "record_prompt"
    BY DEF Methods
<1> QED
    BY ZenonT(60), <1>1, HookGoesOn


LEMMA TimeStays ==
    ASSUME Inv, UNCHANGED time
    PROVE  /\ clock' \in Nat /\ clock <= clock' /\ stamp' \in [Hooks -> Nat]
           /\ \A g \in Hooks : stamp'[g] <= clock'
           /\ UNCHANGED <<clock, stamp, event>>
BY DEF Inv, TypeInv, PastInv, time

LEMMA EvaluateKeeps ==
    ASSUME Inv, NEW h \in Hooks, Evaluate(h)
    PROVE  Inv'
<1>1. UNCHANGED <<cache, audit, work, reply, event, result, told>>
    BY DEF Evaluate, server
<1>2. clock' \in Nat /\ clock <= clock' /\ stamp' \in [Hooks -> Nat] /\ \A g \in Hooks : stamp'[g] <= clock'
    BY DEF Evaluate, Inv, TypeInv, PastInv
<1>3. CASE Dial(h, "evaluate", "evaluate")
    BY <1>1, <1>2, <1>3, HookGoesOn DEF Evaluate, Dial, Methods, Asking
<1>4. CASE pc' = [pc EXCEPT ![h] = "unreached"] /\ UNCHANGED task
    BY <1>1, <1>2, <1>4, HookMoves DEF Evaluate, Asking
<1> QED
    BY <1>3, <1>4 DEF Evaluate

LEMMA RetryKeeps ==
    ASSUME Inv, NEW h \in Hooks, Retry(h)
    PROVE  Inv'
<1>1. UNCHANGED <<cache, audit, work, reply, result, told>> /\ UNCHANGED time
    BY DEF Retry, server
<1> QED
    BY <1>1, TimeStays, HookGoesOn DEF Retry, Dial, Methods, Asking

(* The agent hears nothing.                                                *)
LEMMA SilenceKeeps ==
    ASSUME Inv, NEW h \in Hooks, pc[h] \in Asking,
           UNCHANGED <<cache, audit, task, work, reply, result>>, UNCHANGED time,
           pc' = [pc EXCEPT ![h] = "done"], told' = [told EXCEPT ![h] = "silence"]
    PROVE  Inv'
<1>1. UNCHANGED <<clock, stamp, event>>
    BY DEF time
<1>2. TypeInv' /\ PastInv'
    BY <1>1 DEF Inv, TypeInv, PastInv
<1>3. pc'[h] = "done" /\ told'[h] = "silence" /\ \A g \in Hooks \ {h} : pc'[g] = pc[g] /\ told'[g] = told[g]
    BY DEF Inv, TypeInv
<1>4. HookOK(h)
    BY DEF Inv
<1>5. /\ result[h] = None /\ told[h] = None /\ task[<<h, "record_adapter_action">>] = "none"
      /\ task[<<h, "record_prompt">>] = "none" /\ reply[<<h, "record_prompt">>] = None
    BY <1>4 DEF HookOK
<1>6. HookOK(h)'
    BY <1>3, <1>5 DEF HookOK, Asking
<1>7. clock <= clock'
    BY <1>1 DEF Inv, TypeInv
<1> QED
    BY <1>1, <1>2, <1>3, <1>5, <1>6, <1>7, HookFrame

LEMMA GiveUpKeeps ==
    ASSUME Inv, NEW h \in Hooks, GiveUp(h)
    PROVE  Inv'
BY SilenceKeeps DEF GiveUp, server, Asking

LEMMA EvaluationFailsKeeps ==
    ASSUME Inv, NEW h \in Hooks, EvaluationFails(h)
    PROVE  Inv'
<1>1. UNCHANGED <<cache, audit, task, work, reply, result>> /\ UNCHANGED time
    BY DEF EvaluationFails, server
<1>2. CASE pc[h] = "evaluate"
    <2>1. pc' = [pc EXCEPT ![h] = "unreached"] /\ UNCHANGED told
        BY <1>2 DEF EvaluationFails
    <2> QED
        BY <1>1, <1>2, <2>1, TimeStays, HookMoves DEF Asking
<1>3. CASE pc[h] = "evaluate_again"
    <2>1. pc' = [pc EXCEPT ![h] = "done"] /\ told' = [told EXCEPT ![h] = "silence"]
        BY <1>3 DEF EvaluationFails
    <2> QED
        BY <1>1, <1>3, <2>1, SilenceKeeps DEF Asking
<1> QED
    BY <1>2, <1>3 DEF EvaluationFails

LEMMA ReceiveEvaluationKeeps ==
    ASSUME Inv, NEW h \in Hooks, ReceiveEvaluation(h)
    PROVE  Inv'
<1> DEFINE t == <<h, pc[h]>>
<1>1. UNCHANGED <<cache, audit, task, work, reply, told, clock, stamp, event>>
    BY DEF ReceiveEvaluation, server, time
<1>2. /\ pc[h] \in {"evaluate", "evaluate_again"} /\ reply[t] # None
      /\ result' = [result EXCEPT ![h] = reply[t]]
      /\ pc' = [pc EXCEPT ![h] = Received(h)]
    BY DEF ReceiveEvaluation
<1>3. t \in Tasks /\ Asks(t) /\ t[1] = h
    BY <1>2 DEF Tasks, Methods, Asks
<1> HIDE DEF t
<1>4. reply[t] \in Answers
    BY <1>2, <1>3 DEF Inv, TypeInv
<1>5. Received(h) \in {"prompt", "write"}
    BY DEF Received
<1>6. TypeInv' /\ PastInv'
    BY <1>1, <1>2, <1>4, <1>5 DEF Inv, TypeInv, PastInv
<1>7. /\ pc'[h] = Received(h) /\ result'[h] = reply[t]
      /\ \A g \in Hooks \ {h} : pc'[g] = pc[g] /\ result'[g] = result[g]
    BY <1>2 DEF Inv, TypeInv
<1>8. HookOK(h)
    BY DEF Inv
<1>9. /\ result[h] = None /\ told[h] = None /\ pc[h] \in Asking
      /\ task[<<h, "record_adapter_action">>] = "none"
    BY <1>2, <1>8 DEF HookOK, Asking
<1>10. RecordedFor(audit, reply[t], event[h])
    <2>1. TaskOK(t)
        BY <1>3 DEF Inv
    <2> QED
        BY <1>2, <1>3, <2>1 DEF TaskOK, EvaluationOK, EventOf
<1>11. HookOK(h)'
    BY <1>1, <1>2, <1>5, <1>7, <1>9, <1>10 DEF HookOK, Asking
<1>12. clock <= clock'
    BY <1>1 DEF Inv, TypeInv
<1> QED
    BY <1>1, <1>6, <1>7, <1>9, <1>11, <1>12, HookFrame

LEMMA ReportPromptKeeps ==
    ASSUME Inv, NEW h \in Hooks, ReportPrompt(h)
    PROVE  Inv'
<1>1. UNCHANGED <<cache, audit, work, reply, result, told>> /\ UNCHANGED time
    BY DEF ReportPrompt, server
<1>2. CASE Dial(h, "record_prompt", "record_prompt")
    BY <1>1, <1>2, TimeStays, HookGoesOn DEF ReportPrompt, Dial, Methods, Asking
<1>3. CASE pc' = [pc EXCEPT ![h] = "write"] /\ UNCHANGED task
    BY <1>1, <1>3, TimeStays, HookMoves DEF ReportPrompt, Asking
<1> QED
    BY <1>2, <1>3 DEF ReportPrompt

LEMMA PromptReportedKeeps ==
    ASSUME Inv, NEW h \in Hooks, PromptReported(h)
    PROVE  Inv'
<1>1. UNCHANGED <<cache, audit, task, work, reply, result, told>> /\ UNCHANGED time
    BY DEF PromptReported, server
<1> QED
    BY <1>1, TimeStays, HookMoves DEF PromptReported, Asking

LEMMA WriteResponseKeeps ==
    ASSUME Inv, NEW h \in Hooks, WriteResponse(h)
    PROVE  Inv'
<1> DEFINE there == IF result[h].event = None THEN "done" ELSE "annotate"
<1>1. UNCHANGED <<cache, audit, task, work, reply, result, clock, stamp, event>>
    BY DEF WriteResponse, server, time
<1>2. /\ pc[h] = "write" /\ pc' = [pc EXCEPT ![h] = there]
      /\ told' = [told EXCEPT ![h] = AdapterAction(h)]
    BY DEF WriteResponse
<1>3. TypeInv' /\ PastInv'
    BY <1>1, <1>2, AdapterActions DEF Inv, TypeInv, PastInv
<1>4. /\ pc'[h] = there /\ told'[h] = AdapterAction(h)
      /\ \A g \in Hooks \ {h} : pc'[g] = pc[g] /\ told'[g] = told[g]
    BY <1>2 DEF Inv, TypeInv
<1>5. HookOK(h)
    BY DEF Inv
<1>6. result[h] # None /\ told[h] = None /\ task[<<h, "record_adapter_action">>] = "none"
    BY <1>2, <1>5 DEF HookOK, Asking
<1>7. AdapterAction(h)' = AdapterAction(h)
    BY <1>1 DEF AdapterAction
<1>8. there = "annotate" => Delivered(h)'
    BY <1>1, <1>4, <1>6, <1>7 DEF Delivered
<1>9. there \in {"done", "annotate"}
    OBVIOUS
<1> HIDE DEF there
<1>10. HookOK(h)'
    BY <1>1, <1>4, <1>5, <1>6, <1>7, <1>8, <1>9 DEF HookOK, Asking
<1>11. clock <= clock'
    BY <1>1 DEF Inv, TypeInv
<1> QED
    BY <1>1, <1>3, <1>4, <1>6, <1>10, <1>11, HookFrame

LEMMA AnnotateKeeps ==
    ASSUME Inv, NEW h \in Hooks, Annotate(h)
    PROVE  Inv'
<1>1. UNCHANGED <<cache, audit, work, reply, result, told>> /\ UNCHANGED time
    BY DEF Annotate, server
<1>2. CASE Dial(h, "record_adapter_action", "record_adapter_action")
    <2>1. /\ task' = [task EXCEPT ![<<h, "record_adapter_action">>] = "queued"]
          /\ pc' = [pc EXCEPT ![h] = "record_adapter_action"] /\ pc[h] = "annotate"
        BY <1>2 DEF Dial, Annotate
    <2>2. /\ task' \in [Tasks -> {"none", "queued", "running", "decided", "found", "answering", "over"}]
          /\ \A q \in Tasks : task'[q] = task[q] \/ (q[1] = h /\ task'[q] = "queued")
        BY <2>1, Dialled DEF Methods
    <2>3. UNCHANGED <<clock, stamp, event>>
        BY <1>1 DEF time
    <2>4. TypeInv' /\ PastInv'
        BY <1>1, <2>1, <2>2, <2>3 DEF Inv, TypeInv, PastInv
    <2>5. pc'[h] = "record_adapter_action" /\ \A g \in Hooks \ {h} : pc'[g] = pc[g]
        BY <2>1 DEF Inv, TypeInv
    <2>6. HookOK(h)
        BY DEF Inv
    <2>7. Delivered(h)
        BY <2>1, <2>6 DEF HookOK
    <2>8. AdapterAction(h)' = AdapterAction(h)
        BY <1>1, <2>3 DEF AdapterAction
    <2>9. Delivered(h)'
        BY <1>1, <2>7, <2>8 DEF Delivered
    <2>10. HookOK(h)'
        BY <1>1, <2>3, <2>5, <2>6, <2>8, <2>9 DEF HookOK, Asking, Delivered
    <2>11. clock <= clock'
        BY <2>3 DEF Inv, TypeInv
    <2> QED
        BY <1>1, <2>2, <2>3, <2>4, <2>5, <2>9, <2>10, <2>11, HookFrame
<1>3. CASE pc' = [pc EXCEPT ![h] = "done"] /\ UNCHANGED task
    BY <1>1, <1>3, TimeStays, HookMoves DEF Annotate, Asking
<1> QED
    BY <1>2, <1>3 DEF Annotate

LEMMA AnnotatedKeeps ==
    ASSUME Inv, NEW h \in Hooks, Annotated(h)
    PROVE  Inv'
<1>1. UNCHANGED <<cache, audit, task, work, reply, result, told>> /\ UNCHANGED time
    BY DEF Annotated, server
<1> QED
    BY <1>1, TimeStays, HookMoves DEF Annotated, Asking

-----------------------------------------------------------------------------
(* The theorems *)

LEMMA InvInit == Init => Inv
<1> SUFFICES ASSUME Init PROVE Inv
    OBVIOUS
<1>1. PICK s \in Scenarios : event = s.event
    BY DEF Init
<1>2. event \in [Hooks -> Event]
    BY <1>1, ScenariosAssumption
<1>3. audit = << >> /\ DOMAIN audit = {} /\ audit \in Seq(Rows)
    BY DEF Init
<1>4. TypeInv
    BY <1>2, <1>3 DEF Init, TypeInv
<1>5. PastInv /\ CacheInv /\ ActionInv
    BY <1>3 DEF Init, PastInv, CacheInv, ActionInv
<1>6. \A t \in Tasks : TaskOK(t)
    BY AnswerConstants DEF Init, TaskOK, EvaluationOK, PromptOK, Tasks
<1>7. \A h \in Hooks : HookOK(h)
    BY DEF Init, HookOK, Asking, Tasks, Methods
<1> QED
    BY <1>4, <1>5, <1>6, <1>7 DEF Inv

LEMMA InvStutter ==
    ASSUME Inv, UNCHANGED vars
    PROVE  Inv'
<1>1. UNCHANGED <<audit, reply, client>> /\ UNCHANGED <<cache, task, work, clock, stamp, event, pc, result, told>>
    BY DEF vars, client, time
<1>2. TypeInv' /\ CacheInv'
    BY <1>1 DEF Inv, TypeInv, CacheInv
<1> QED
    BY <1>1, <1>2, DaemonFrame

LEMMA InvNext == Inv /\ [Next]_vars => Inv'
<1> SUFFICES ASSUME Inv, [Next]_vars PROVE Inv'
    OBVIOUS
<1>1. ASSUME NEW h \in Hooks, HookStep(h)
      PROVE  Inv'
    BY <1>1, EvaluateKeeps, RetryKeeps, GiveUpKeeps, ReceiveEvaluationKeeps, EvaluationFailsKeeps,
       ReportPromptKeeps, PromptReportedKeeps, WriteResponseKeeps, AnnotateKeeps, AnnotatedKeeps DEF HookStep
<1>2. ASSUME NEW t \in Tasks, ServerStep(t)
      PROVE  Inv'
    BY <1>2, AcceptKeeps, AnswerFromCacheKeeps, DecideKeeps, RecordKeeps, FindPromptedKeeps,
       RecordPromptKeeps, RecordAdapterActionKeeps, AnswerKeeps DEF ServerStep
<1> QED
    BY <1>1, <1>2, DaemonStepKeeps, InvStutter DEF Next

LEMMA InvAlways == Spec => []Inv
BY InvInit, InvNext, PTL DEF Spec

(* What an evaluation fails closed with tells the agent nothing that       *)
(* settles the call.                                                       *)
LEMMA FailClosed ==
    ASSUME Inv, NEW h \in Hooks, result[h] = EngineError
    PROVE  /\ event[h].name = "PreToolUse" => AdapterAction(h) = "defer"
           /\ event[h].name # "PreToolUse" => AdapterAction(h) = "prompt"
BY DEF AdapterAction, MapPreToolUse, MapPermissionRequest, EngineError

LEMMA InvDelivery == Inv => DeliveryIsOnRecord
<1> SUFFICES ASSUME Inv PROVE DeliveryIsOnRecord
    OBVIOUS
<1>1. ASSUME NEW h \in Hooks,
             told[h] \in IF event[h].name = "PreToolUse" THEN {"allow", "deny", "prompt"} ELSE {"allow", "deny"}
      PROVE  /\ result[h].event # None
             /\ audit[result[h].event].decision = result[h].decision
             /\ event[h].name = "PreToolUse" => audit[result[h].event].call = event[h].call
    <2>1. told[h] # "silence" /\ told[h] # None
        BY <1>1, NoneAssumption
    <2>2. HookOK(h)
        BY DEF Inv
    <2>3. told[h] = AdapterAction(h) /\ RecordedFor(audit, result[h], event[h])
        BY <2>1, <2>2 DEF HookOK
    <2>4. result[h] # EngineError
        BY <1>1, <2>3, FailClosed
    <2>5. result[h].event \in DOMAIN audit /\ audit[result[h].event].decision = result[h].decision
        BY <2>3, <2>4 DEF RecordedFor, Recorded
    <2>6. result[h].event # None
        BY <2>5, LogRows, NoneAssumption DEF Inv
    <2> QED
        BY <2>3, <2>4, <2>5, <2>6 DEF RecordedFor
<1>2. \A i \in DOMAIN audit : audit[i].action # None =>
        \E h \in Hooks : told[h] = audit[i].action /\ result[h].event = i
    BY DEF Inv, ActionInv
<1> QED
    BY <1>1, <1>2 DEF DeliveryIsOnRecord

LEMMA InvPrompt == Inv => PromptIsMarked
<1> SUFFICES ASSUME Inv, NEW h \in Hooks,
                    reply[<<h, "record_prompt">>] = Acknowledged, result[h].event # None
             PROVE  \E i \in DOMAIN audit : audit[i].prompt /\ audit[i].at >= audit[result[h].event].at
    BY DEF PromptIsMarked
<1> DEFINE t == <<h, "record_prompt">>
<1>1. t \in Tasks /\ t[1] = h /\ t[2] = "record_prompt"
    BY DEF Tasks, Methods
<1>2. TaskOK(t) /\ HookOK(h)
    BY <1>1 DEF Inv
<1>3. PromptOK(t)
    BY <1>1, <1>2 DEF TaskOK
<1>4. result[h] # None
    BY <1>2, AnswerConstants DEF HookOK
<1> QED
    BY <1>1, <1>3, <1>4 DEF PromptOK, Marked

(* Hooks allow, deny or force a dialog only with a decision that is on     *)
(* record for their tool call, and a row names only what a hook did with   *)
(* it: hook.go and the handlers of evaluate and record_adapter_action, for *)
(* every number of hooks, lost answers, cancelled statements and restarts. *)
THEOREM DeliveryHolds == Spec => []DeliveryIsOnRecord
BY InvAlways, InvDelivery, PTL

(* A prompt that the daemon acknowledged is marked on a row that is not    *)
(* older than the evaluation of its hook, although Recorder.RecordPrompt   *)
(* looks in one statement and writes in another.                           *)
THEOREM PromptMarkHolds == Spec => []PromptIsMarked
BY InvAlways, InvPrompt, PTL

=============================================================================
