----------------------------- MODULE GateProofs -----------------------------
(***************************************************************************)
(* Proofs about the decision core, for every set of commands, behaviours,  *)
(* rules, tasks and requests, with database faults and crashes.            *)
(***************************************************************************)
EXTENDS Gate, TLAPS

-----------------------------------------------------------------------------
(* The inductive invariant.  Its parts take the tables as parameters, so   *)
(* that a lemma can compare two of them.                                   *)

(* What never changes in an approval, and what only changes one way.       *)
Grown(a, b) ==
    /\ Len(a) <= Len(b)
    /\ \A i \in 1 .. Len(a) :
        /\ b[i].kind = a[i].kind /\ b[i].beh = a[i].beh /\ b[i].cmd = a[i].cmd
        /\ b[i].rules = a[i].rules /\ b[i].ctx = a[i].ctx
        /\ a[i].used => b[i].used
        /\ a[i].state = "REVOKED" => b[i].state = "REVOKED"

(* What never changes in an audit row.                                     *)
Logged(d, e) ==
    /\ Len(d) <= Len(e)
    /\ \A i \in 1 .. Len(d) :
        /\ e[i].cmd = d[i].cmd /\ e[i].tool = d[i].tool /\ e[i].session = d[i].session
        /\ e[i].beh = d[i].beh /\ e[i].ctx = d[i].ctx /\ e[i].outcome = d[i].outcome
        /\ e[i].class = d[i].class /\ e[i].approval = d[i].approval

(* An ALLOW for behaviour b in context x is justified by the table a.      *)
Justified(r, b, x, a) ==
    r.outcome = "ALLOW" =>
        /\ Floor[b][x] = "PASS" /\ Grade[b] # "uncertain"
        /\ r.class # "POLICY_READONLY_WORKSPACE" =>
            /\ r.approval \in 1 .. Len(a)
            /\ CoveredBy(a[r.approval], b)
            /\ r.class = "APPROVAL_MATCH" => a[r.approval].used

RecordedIn(r, d) ==
    /\ r.event \in 1 .. Len(d)
    /\ d[r.event].outcome = r.outcome /\ d[r.event].class = r.class
    /\ d[r.event].approval = r.approval

Traceable(r, d) == RecordedIn(r, d) \/ r = EngineError

(* Which operation a program counter belongs to, and what is known of the  *)
(* request and its resolution there.                                       *)
FlowOK(r) ==
    /\ r.pc \in {"resolve", "match", "use", "audit", "put"} => r.op = "evaluate"
    /\ r.pc \in {"import", "create", "record"} => r.op \in {"evaluate", "report"}
    /\ r.pc = "link" => r.op = "report"
    /\ r.pc = "reply" => r.op \in {"evaluate", "cached"}
    /\ r.op \in {"evaluate", "cached"} => r.req \in Requests
    /\ r.pc \in {"match", "use", "import", "create", "record", "audit", "link"} =>
        r.beh \in Behaviours /\ r.ctx \in Contexts /\ r.req.cmd \in Commands

(* What the engine has established about the behaviour so far.             *)
JudgedOK(r) ==
    /\ r.op = "evaluate" /\ r.pc \in {"match", "use", "import", "create", "record"} =>
        ~DecidedEarly(r.beh, r.ctx)
    /\ r.pc \in {"create", "record", "link"} => Validate(r.beh, r.ctx)

(* The approval a task holds on to between two statements.                 *)
HeldOK(r, a) ==
    /\ r.pc = "use" => r.id \in 1 .. Len(a) /\ CoveredBy(a[r.id], r.beh)
    /\ r.pc \in {"record", "link"} =>
        /\ r.id \in 1 .. Len(a)
        /\ a[r.id].kind = "EXACT" /\ a[r.id].beh = r.beh
        /\ a[r.id].cmd = r.req.cmd /\ a[r.id].rules = r.req.consent
    /\ r.pc = "record" => r.todo \subseteq r.req.consent

(* The answer of an evaluation, before and after it is recorded.           *)
AnswerOK(r, a, d) ==
    /\ r.op = "evaluate" /\ r.pc \in {"resolve", "match", "use", "import", "create", "record"} =>
        r.result.outcome = "ASK" /\ r.result.approval = 0 /\ r.result.event = 0
    /\ r.pc = "audit" => r.result.event = 0 /\ Justified(r.result, r.beh, r.ctx, a)
    /\ r.pc = "put" => Traceable(r.result, d)
    /\ r.pc = "reply" => (r.req.dry /\ r.result.event = 0) \/ Traceable(r.result, d)
    /\ r.pc \in {"put", "reply"} /\ r.result.event # 0 =>
        LET row == d[r.result.event] IN
            /\ row.cmd = r.req.cmd /\ row.session = r.req.session
            /\ r.pc = "put" \/ r.req.tool # None => row.tool = r.req.tool

(* The row an execution report works for.                                  *)
RowOK(r, d) ==
    r.op = "report" /\ r.pc \in {"import", "create", "record", "link"} =>
        /\ r.row \in 1 .. Len(d)
        /\ d[r.row].beh = r.beh /\ d[r.row].class = "NO_MATCHING_APPROVAL"

(* The approvals that were revoked before an evaluation began.             *)
DeadOK(r, a) ==
    r.op = "evaluate" =>
        /\ \A i \in r.dead : i \in 1 .. Len(a) /\ a[i].state = "REVOKED"
        /\ r.result.approval \notin r.dead
        /\ r.pc \in {"use", "record"} => r.id \notin r.dead

TaskOK(r, a, d) ==
    FlowOK(r) /\ JudgedOK(r) /\ HeldOK(r, a) /\ AnswerOK(r, a, d) /\ RowOK(r, d) /\ DeadOK(r, a)

(* One audit row: it came from a request, its ALLOW is justified, and an   *)
(* approval imported for it trusts what it saw.                            *)
EventOK(row, a) ==
    /\ \E p \in Requests : p.cmd = row.cmd /\ p.tool = row.tool /\ p.session = row.session
    /\ Justified(row, row.beh, row.ctx, a)
    /\ row.imported # 0 =>
        /\ row.imported \in 1 .. Len(a)
        /\ a[row.imported].beh = row.beh
        /\ row.class = "NO_MATCHING_APPROVAL"

(* One cache entry: what it answers is recorded, under a key of its row.   *)
EntryOK(k, r, d) ==
    /\ Traceable(r, d)
    /\ r.event # 0 => k \in cacheKeys(d[r.event])

ImportsOK(m, a) ==
    \A x \in m :
        /\ x.approval \in 1 .. Len(a)
        /\ x.rule \in a[x.approval].rules /\ x.cmd = a[x.approval].cmd
        /\ \A y \in m : y.rule = x.rule /\ y.cmd = x.cmd => y = x

Inv ==
    /\ TypeOK
    /\ \A t \in Tasks : TaskOK(task[t], approvals, audit)
    /\ \A e \in 1 .. Len(audit) : EventOK(audit[e], approvals)
    /\ \A i \in 1 .. Len(approvals) : Validate(approvals[i].beh, approvals[i].ctx)
    /\ \A k \in DOMAIN cache : EntryOK(k, cache[k].result, audit)
    /\ ImportsOK(imports, approvals)

-----------------------------------------------------------------------------
(* Types of the records the actions build *)

LEMMA IdleType == Idle \in Task
BY ConstantsAssumption DEF Idle, Task, Answer, EvaluationResult, Outcomes, Classes

LEMMA AnswerType ==
    ASSUME NEW o \in Outcomes, NEW c \in Classes, NEW a \in Nat
    PROVE  /\ Answer(o, c, a) \in EvaluationResult
           /\ Answer(o, c, a).outcome = o /\ Answer(o, c, a).class = c
           /\ Answer(o, c, a).approval = a /\ Answer(o, c, a).event = 0
BY DEF Answer, EvaluationResult

LEMMA ResultTypes ==
    /\ EngineError \in EvaluationResult
    /\ EngineError.outcome = "ASK" /\ EngineError.approval = 0 /\ EngineError.event = 0
    /\ \A b, x : EarlyAnswer(b, x) \in EvaluationResult
    /\ \A c, b : UnmatchedAnswer(c, b) \in EvaluationResult
    /\ \A a \in Nat : Answer("ALLOW", "APPROVAL_MATCH", a) \in EvaluationResult
    /\ \A a \in Nat : Answer("ALLOW", "RULE_IMPORT", a) \in EvaluationResult
BY AnswerType DEF EngineError, EarlyAnswer, UnmatchedAnswer, Outcomes, Classes

-----------------------------------------------------------------------------
(* The tables only grow *)

LEMMA TablesStay ==
    /\ \A a \in Seq(Approval) : Grown(a, a)
    /\ \A d \in Seq(AuditEvent) : Logged(d, d)
BY DEF Grown, Logged

LEMMA AppendApproval ==
    ASSUME NEW a \in Seq(Approval), NEW v \in Approval
    PROVE  /\ Append(a, v) \in Seq(Approval)
           /\ Len(Append(a, v)) = Len(a) + 1
           /\ \A i \in 1 .. Len(a) : Append(a, v)[i] = a[i]
           /\ Append(a, v)[Len(a) + 1] = v
           /\ Grown(a, Append(a, v))
BY DEF Grown

LEMMA AppendEvent ==
    ASSUME NEW d \in Seq(AuditEvent), NEW v \in AuditEvent
    PROVE  /\ Append(d, v) \in Seq(AuditEvent)
           /\ Len(Append(d, v)) = Len(d) + 1
           /\ \A i \in 1 .. Len(d) : Append(d, v)[i] = d[i]
           /\ Append(d, v)[Len(d) + 1] = v
           /\ Logged(d, Append(d, v))
BY DEF Logged

LEMMA SeqUpdate ==
    ASSUME NEW S, NEW s \in Seq(S), NEW i \in 1 .. Len(s), NEW v \in S
    PROVE  LET u == [s EXCEPT ![i] = v]
           IN  /\ u \in Seq(S) /\ Len(u) = Len(s) /\ u[i] = v
               /\ \A j \in 1 .. Len(s) : j # i => u[j] = s[j]
OBVIOUS

LEMMA UpdateApproval ==
    ASSUME NEW a \in Seq(Approval), NEW i \in 1 .. Len(a), NEW s \in States,
           a[i].state # "REVOKED"
    PROVE  LET b == [a EXCEPT ![i] = [a[i] EXCEPT !.state = s]]
           IN  b \in Seq(Approval) /\ Len(b) = Len(a) /\ Grown(a, b)
<1> DEFINE v == [a[i] EXCEPT !.state = s]
<1>1. a[i] \in Approval
    OBVIOUS
<1>2. v \in Approval /\ v.kind = a[i].kind /\ v.beh = a[i].beh /\ v.cmd = a[i].cmd
      /\ v.rules = a[i].rules /\ v.ctx = a[i].ctx /\ v.used = a[i].used
    BY <1>1 DEF Approval
<1>3. /\ [a EXCEPT ![i] = v] \in Seq(Approval) /\ Len([a EXCEPT ![i] = v]) = Len(a)
      /\ Grown(a, [a EXCEPT ![i] = v])
    <2> HIDE DEF v
    <2> QED
        BY <1>2, SeqUpdate DEF Grown
<1> QED
    BY <1>3

LEMMA UseApproval ==
    ASSUME NEW a \in Seq(Approval), NEW i \in 1 .. Len(a)
    PROVE  LET b == [a EXCEPT ![i] = [a[i] EXCEPT !.used = TRUE]]
           IN  b \in Seq(Approval) /\ Len(b) = Len(a) /\ Grown(a, b) /\ b[i].used
<1> DEFINE v == [a[i] EXCEPT !.used = TRUE]
<1>1. a[i] \in Approval
    OBVIOUS
<1>2. v \in Approval /\ v.kind = a[i].kind /\ v.beh = a[i].beh /\ v.cmd = a[i].cmd
      /\ v.rules = a[i].rules /\ v.ctx = a[i].ctx /\ v.used /\ v.state = a[i].state
    BY <1>1 DEF Approval
<1>3. /\ [a EXCEPT ![i] = v] \in Seq(Approval) /\ Len([a EXCEPT ![i] = v]) = Len(a)
      /\ Grown(a, [a EXCEPT ![i] = v]) /\ [a EXCEPT ![i] = v][i].used
    <2> HIDE DEF v
    <2> QED
        BY <1>2, SeqUpdate DEF Grown
<1> QED
    BY <1>3

-----------------------------------------------------------------------------
(* What holds of one table holds of a grown one *)

LEMMA JustifiedFrame ==
    ASSUME NEW a \in Seq(Approval), NEW b \in Seq(Approval), Grown(a, b),
           NEW r, NEW h, NEW x, Justified(r, h, x, a)
    PROVE  Justified(r, h, x, b)
BY DEF Justified, Grown, CoveredBy

LEMMA TraceFrame ==
    ASSUME NEW d \in Seq(AuditEvent), NEW e \in Seq(AuditEvent), Logged(d, e),
           NEW r, Traceable(r, d)
    PROVE  Traceable(r, e)
BY DEF Traceable, RecordedIn, Logged

LEMMA TaskFrame ==
    ASSUME NEW a \in Seq(Approval), NEW b \in Seq(Approval), Grown(a, b),
           NEW d \in Seq(AuditEvent), NEW e \in Seq(AuditEvent), Logged(d, e),
           NEW r \in Task, TaskOK(r, a, d)
    PROVE  TaskOK(r, b, e)
<1>1. HeldOK(r, b)
    BY DEF TaskOK, HeldOK, Grown, CoveredBy
<1>2. AnswerOK(r, b, e)
    <2>1. r.pc = "audit" => Justified(r.result, r.beh, r.ctx, b)
        BY JustifiedFrame DEF TaskOK, AnswerOK
    <2>2. Traceable(r.result, d) => Traceable(r.result, e)
        BY TraceFrame
    <2>3. ASSUME r.pc \in {"put", "reply"}, r.result.event # 0
          PROVE  r.result.event \in 1 .. Len(d)
        BY <2>3, ResultTypes DEF TaskOK, AnswerOK, Traceable, RecordedIn
    <2> QED
        BY <2>1, <2>2, <2>3 DEF TaskOK, AnswerOK, Logged
<1>3. RowOK(r, e)
    BY DEF TaskOK, RowOK, Logged
<1>4. DeadOK(r, b)
    BY DEF TaskOK, DeadOK, Grown
<1> QED
    BY <1>1, <1>2, <1>3, <1>4 DEF TaskOK

LEMMA TasksFrame ==
    ASSUME NEW a \in Seq(Approval), NEW b \in Seq(Approval), Grown(a, b),
           NEW d \in Seq(AuditEvent), NEW e \in Seq(AuditEvent), Logged(d, e),
           NEW f \in [Tasks -> Task], NEW t \in Tasks, NEW r \in Task,
           \A u \in Tasks : TaskOK(f[u], a, d), TaskOK(r, b, e)
    PROVE  LET g == [f EXCEPT ![t] = r]
           IN  g \in [Tasks -> Task] /\ \A u \in Tasks : TaskOK(g[u], b, e)
BY TaskFrame

LEMMA EventsFrame ==
    ASSUME NEW a \in Seq(Approval), NEW b \in Seq(Approval), Grown(a, b),
           NEW d \in Seq(AuditEvent),
           \A i \in 1 .. Len(d) : EventOK(d[i], a)
    PROVE  \A i \in 1 .. Len(d) : EventOK(d[i], b)
<1> SUFFICES ASSUME NEW i \in 1 .. Len(d) PROVE EventOK(d[i], b)
    OBVIOUS
<1> DEFINE row == d[i]
<1>1. EventOK(row, a)
    OBVIOUS
<1>2. Justified(row, row.beh, row.ctx, b)
    <2>1. Justified(row, row.beh, row.ctx, a)
        BY <1>1 DEF EventOK
    <2> HIDE DEF row
    <2> QED
        BY <2>1, JustifiedFrame
<1>3. ASSUME row.imported # 0
      PROVE  /\ row.imported \in 1 .. Len(b)
             /\ b[row.imported].beh = row.beh
             /\ row.class = "NO_MATCHING_APPROVAL"
    <2>1. /\ row.imported \in 1 .. Len(a) /\ a[row.imported].beh = row.beh
          /\ row.class = "NO_MATCHING_APPROVAL"
        BY <1>1, <1>3 DEF EventOK
    <2> HIDE DEF row
    <2> QED
        BY <2>1 DEF Grown
<1> QED
    BY <1>1, <1>2, <1>3 DEF EventOK

LEMMA EntryFrame ==
    ASSUME NEW d \in Seq(AuditEvent), NEW e \in Seq(AuditEvent), Logged(d, e),
           NEW k, NEW r, EntryOK(k, r, d)
    PROVE  EntryOK(k, r, e)
<1>1. Traceable(r, e)
    BY TraceFrame DEF EntryOK
<1>2. r.event # 0 => r.event \in 1 .. Len(d)
    BY ResultTypes DEF EntryOK, Traceable, RecordedIn
<1> QED
    BY <1>1, <1>2 DEF EntryOK, Logged, cacheKeys, toolUseKey, sessionCommandKey

LEMMA ImportsFrame ==
    ASSUME NEW a \in Seq(Approval), NEW b \in Seq(Approval), Grown(a, b),
           NEW m, ImportsOK(m, a)
    PROVE  ImportsOK(m, b)
BY DEF ImportsOK, Grown

-----------------------------------------------------------------------------
(* One lemma per action: it preserves the invariant *)

LEMMA InvTyping ==
    ASSUME Inv
    PROVE  /\ task \in [Tasks -> Task] /\ approvals \in Seq(Approval)
           /\ audit \in Seq(AuditEvent)
           /\ \A t \in Tasks : task[t] \in Task /\ TaskOK(task[t], approvals, audit)
           /\ Grown(approvals, approvals) /\ Logged(audit, audit)
BY TablesStay DEF Inv, TypeOK

(* The revoked approvals a task records when it begins.                    *)
LEMMA AckedRevokedDead ==
    ASSUME TypeOK
    PROVE  /\ AckedRevoked \in SUBSET Nat /\ 0 \notin AckedRevoked
           /\ \A i \in AckedRevoked : i \in 1 .. Len(approvals) /\ approvals[i].state = "REVOKED"
BY DEF AckedRevoked, Revoked, TypeOK

(* A step of one task that touches nothing else.                           *)
LEMMA QuietStep ==
    ASSUME Inv, NEW t \in Tasks, NEW r \in Task, TaskOK(r, approvals, audit)
    PROVE  /\ Become(t, r) \in [Tasks -> Task]
           /\ \A u \in Tasks : TaskOK(Become(t, r)[u], approvals, audit)
BY InvTyping, TasksFrame DEF Become, Inv

LEMMA InvAnswerFromCache ==
    ASSUME Inv, NEW t \in Tasks, NEW q \in Requests, AnswerFromCache(t, q)
    PROVE  Inv'
<1>1. PICK k \in lookupKey(q) :
        /\ live(k)
        /\ task' = Become(t, [Idle EXCEPT !.pc = "reply", !.op = "cached", !.req = q,
                              !.result = cache[k].result, !.dead = AckedRevoked])
    BY DEF AnswerFromCache
<1> DEFINE r == [Idle EXCEPT !.pc = "reply", !.op = "cached", !.req = q,
                              !.result = cache[k].result, !.dead = AckedRevoked]
<1>2. /\ k \in DOMAIN cache /\ cache[k].result \in EvaluationResult
      /\ EntryOK(k, cache[k].result, audit)
    BY <1>1 DEF live, Inv, TypeOK, CacheEntry
<1>3. /\ r \in Task /\ r.pc = "reply" /\ r.op = "cached" /\ r.req = q
      /\ r.result = cache[k].result
    BY ZenonT(60), <1>2, AckedRevokedDead, IdleType, ConstantsAssumption DEF Task, ActionRequest, Inv
<1>4. ASSUME cache[k].result.event # 0
      PROVE  LET row == audit[cache[k].result.event] IN
                 /\ row.cmd = q.cmd /\ row.session = q.session
                 /\ q.tool # None => row.tool = q.tool
    <2> DEFINE row == audit[cache[k].result.event]
    <2>1. k \in cacheKeys(row) /\ cache[k].result.event \in 1 .. Len(audit)
        BY <1>2, <1>4, ResultTypes DEF EntryOK, Traceable, RecordedIn
    <2>2. PICK p \in Requests : p.cmd = row.cmd /\ p.tool = row.tool /\ p.session = row.session
        BY <2>1 DEF Inv, EventOK
    <2>3. CASE q.tool # None
        <3>1. k = <<"tool", q.tool, q.tool>>
            BY <2>3 DEF lookupKey, toolUseKey
        <3>2. row.tool = q.tool
            BY <2>1, <3>1 DEF cacheKeys, toolUseKey, sessionCommandKey
        <3> QED
            BY <2>2, <2>3, <3>2, ToolAssumption
    <2>4. CASE q.tool = None
        <3>1. k = <<"session", q.session, q.cmd>>
            BY <2>4 DEF lookupKey, sessionCommandKey
        <3> QED
            BY <2>1, <2>4, <3>1 DEF cacheKeys, toolUseKey, sessionCommandKey
    <2> QED
        BY <2>3, <2>4
<1>5. TaskOK(r, approvals, audit)
    <2> HIDE DEF r
    <2> QED
        BY <1>2, <1>3, <1>4 DEF TaskOK, FlowOK, JudgedOK, HeldOK, AnswerOK, RowOK, DeadOK, EntryOK
<1>6. /\ task' \in [Tasks -> Task]
      /\ \A u \in Tasks : TaskOK(task'[u], approvals, audit)
    BY <1>1, <1>3, <1>5, QuietStep
<1> QED
    BY <1>6 DEF Inv, TypeOK, AnswerFromCache, store

LEMMA InvStartEvaluation ==
    ASSUME Inv, NEW t \in Tasks, NEW q \in Requests, StartEvaluation(t, q)
    PROVE  Inv'
<1> DEFINE r == [Idle EXCEPT !.pc = "resolve", !.op = "evaluate", !.req = q,
                             !.dead = AckedRevoked]
<1>1. /\ r \in Task /\ r.pc = "resolve" /\ r.op = "evaluate" /\ r.req = q
      /\ r.dead = AckedRevoked /\ r.result = Idle.result
    BY ZenonT(60), AckedRevokedDead, IdleType, ConstantsAssumption DEF Task, ActionRequest, Inv
<1>2. Idle.result.outcome = "ASK" /\ Idle.result.approval = 0 /\ Idle.result.event = 0
    BY DEF Idle, Answer
<1>3. TaskOK(r, approvals, audit)
    <2> HIDE DEF r
    <2> QED
        BY <1>1, <1>2, AckedRevokedDead
        DEF TaskOK, FlowOK, JudgedOK, HeldOK, AnswerOK, RowOK, DeadOK, Inv
<1>4. /\ task' \in [Tasks -> Task]
      /\ \A u \in Tasks : TaskOK(task'[u], approvals, audit)
    BY <1>1, <1>3, QuietStep DEF StartEvaluation
<1>5. DOMAIN cache' \subseteq DOMAIN cache /\ \A k \in DOMAIN cache' : cache'[k] = cache[k]
    BY DEF StartEvaluation
<1> QED
    BY <1>4, <1>5 DEF Inv, TypeOK, StartEvaluation, store

(* What the pure steps of the engine answer is justified by itself.        *)
LEMMA EarlyJustified ==
    ASSUME NEW b \in Behaviours, NEW x \in Contexts, NEW a, DecidedEarly(b, x)
    PROVE  /\ Justified(EarlyAnswer(b, x), b, x, a)
           /\ EarlyAnswer(b, x).event = 0 /\ EarlyAnswer(b, x).approval = 0
<1>1. Floor[b][x] \in FloorOutcomes
    BY ConstantsAssumption
<1>2. CASE Floor[b][x] # "PASS"
    BY <1>1, <1>2, AnswerType DEF EarlyAnswer, Justified, FloorOutcomes, Outcomes, Classes
<1>3. CASE Floor[b][x] = "PASS" /\ Grade[b] = "uncertain"
    BY <1>3, AnswerType DEF EarlyAnswer, Justified, Outcomes, Classes
<1>4. CASE Floor[b][x] = "PASS" /\ Grade[b] # "uncertain"
    BY <1>4, AnswerType DEF EarlyAnswer, Justified, Outcomes, Classes
<1> QED
    BY <1>2, <1>3, <1>4

LEMMA InvResolve ==
    ASSUME Inv, NEW t \in Tasks, Resolve(t)
    PROVE  Inv'
<1> DEFINE b == workspace[task[t].req.cmd]
<1>1. /\ task[t] \in Task /\ TaskOK(task[t], approvals, audit)
      /\ task[t].pc = "resolve" /\ task[t].op = "evaluate" /\ task[t].req \in Requests
    BY InvTyping DEF Resolve, TaskOK, FlowOK
<1>2. task[t].req.cmd \in Commands /\ b \in Behaviours /\ context \in Contexts
    BY <1>1, ConstantsAssumption DEF ActionRequest, Inv, TypeOK
<1>3. CASE DecidedEarly(b, context)
    <2> DEFINE r == [task[t] EXCEPT !.pc = "audit", !.beh = b, !.ctx = context,
                                    !.result = EarlyAnswer(b, context)]
    <2>1. /\ r \in Task /\ r.pc = "audit" /\ r.op = "evaluate" /\ r.req = task[t].req
          /\ r.beh = b /\ r.ctx = context /\ r.dead = task[t].dead
          /\ r.result = EarlyAnswer(b, context)
        BY <1>1, <1>2, ResultTypes DEF Task
    <2>2. TaskOK(r, approvals, audit)
        <3> HIDE DEF r, b
        <3>1. 0 \notin task[t].dead
            BY <1>1, InvTyping DEF TaskOK, DeadOK
        <3> QED
            BY <1>1, <1>2, <1>3, <2>1, <3>1, EarlyJustified
            DEF TaskOK, FlowOK, JudgedOK, HeldOK, AnswerOK, RowOK, DeadOK
    <2>3. task' = Become(t, r)
        BY <1>3 DEF Resolve
    <2>4. /\ task' \in [Tasks -> Task]
          /\ \A u \in Tasks : TaskOK(task'[u], approvals, audit)
        <3> HIDE DEF r
        <3> QED
            BY <2>1, <2>2, <2>3, QuietStep
    <2> QED
        BY <2>4 DEF Inv, TypeOK, Resolve
<1>4. CASE ~DecidedEarly(b, context)
    <2> DEFINE r == [task[t] EXCEPT !.pc = "match", !.beh = b, !.ctx = context]
    <2>1. /\ r \in Task /\ r.pc = "match" /\ r.op = "evaluate" /\ r.req = task[t].req
          /\ r.beh = b /\ r.ctx = context /\ r.dead = task[t].dead
          /\ r.result = task[t].result
        BY <1>1, <1>2 DEF Task
    <2>2. TaskOK(r, approvals, audit)
        <3> HIDE DEF r, b
        <3> QED
            BY <1>1, <1>2, <1>4, <2>1
            DEF TaskOK, FlowOK, JudgedOK, HeldOK, AnswerOK, RowOK, DeadOK
    <2>3. task' = Become(t, r)
        BY <1>4 DEF Resolve
    <2>4. /\ task' \in [Tasks -> Task]
          /\ \A u \in Tasks : TaskOK(task'[u], approvals, audit)
        <3> HIDE DEF r
        <3> QED
            BY <2>1, <2>2, <2>3, QuietStep
    <2> QED
        BY <2>4 DEF Inv, TypeOK, Resolve
<1> QED
    BY <1>3, <1>4

LEMMA UnmatchedAsks ==
    ASSUME NEW c, NEW b
    PROVE  /\ UnmatchedAnswer(c, b).outcome = "ASK" /\ UnmatchedAnswer(c, b).approval = 0
           /\ UnmatchedAnswer(c, b).event = 0
BY AnswerType DEF UnmatchedAnswer, Outcomes, Classes

LEMMA InvMatch ==
    ASSUME Inv, NEW t \in Tasks, Match(t)
    PROVE  Inv'
<1> DEFINE b == task[t].beh
           q == task[t].req
<1>1. /\ task[t] \in Task /\ TaskOK(task[t], approvals, audit)
      /\ task[t].pc = "match" /\ task[t].op = "evaluate"
    BY InvTyping DEF Match, TaskOK, FlowOK
<1>2. SUFFICES ASSUME NEW r \in Task, task' = Become(t, r), TaskOK(r, approvals, audit)
               PROVE  Inv'
    <2>1. ASSUME NEW i \in DOMAIN approvals, FirstMatch(i, b),
                 task' = Become(t, [task[t] EXCEPT !.pc = "use", !.id = i])
          PROVE  Inv'
        <3> DEFINE r == [task[t] EXCEPT !.pc = "use", !.id = i]
        <3>1. /\ i \in 1 .. Len(approvals) /\ i \in Nat /\ approvals[i].state = "ACTIVE"
              /\ CoveredBy(approvals[i], b)
            BY <2>1, InvTyping DEF FirstMatch, Matching, Matches
        <3>2. /\ r \in Task /\ r.pc = "use" /\ r.op = "evaluate" /\ r.req = task[t].req
              /\ r.beh = task[t].beh /\ r.ctx = task[t].ctx /\ r.dead = task[t].dead
              /\ r.id = i /\ r.result = task[t].result
            BY <1>1, <3>1 DEF Task
        <3>3. TaskOK(r, approvals, audit)
            <4>1. i \notin task[t].dead
                BY <1>1, <3>1 DEF TaskOK, DeadOK
            <4> HIDE DEF r
            <4>2. FlowOK(r) /\ JudgedOK(r) /\ HeldOK(r, approvals) /\ RowOK(r, audit)
                BY <1>1, <3>1, <3>2 DEF TaskOK, FlowOK, JudgedOK, HeldOK, RowOK
            <4>3. AnswerOK(r, approvals, audit) /\ DeadOK(r, approvals)
                BY <1>1, <3>2, <4>1 DEF TaskOK, AnswerOK, DeadOK
            <4> QED
                BY <4>2, <4>3 DEF TaskOK
        <3> QED
            BY <1>2, <2>1, <3>2, <3>3
    <2>2. ASSUME NEW next \in {"import", "audit"},
                 task' = Become(t, [task[t] EXCEPT !.pc = next, !.result = UnmatchedAnswer(q.cmd, b)])
          PROVE  Inv'
        <3> DEFINE r == [task[t] EXCEPT !.pc = next, !.result = UnmatchedAnswer(q.cmd, b)]
        <3>1. /\ r \in Task /\ r.pc = next /\ r.op = "evaluate" /\ r.req = task[t].req
              /\ r.beh = task[t].beh /\ r.ctx = task[t].ctx /\ r.dead = task[t].dead
              /\ r.result = UnmatchedAnswer(q.cmd, b)
            BY <1>1, <2>2, ResultTypes DEF Task
        <3>2. TaskOK(r, approvals, audit)
            <4> HIDE DEF r, b, q
            <4> QED
                BY <1>1, <2>2, <3>1, UnmatchedAsks
                DEF TaskOK, FlowOK, JudgedOK, HeldOK, AnswerOK, RowOK, DeadOK, Justified
        <3> QED
            BY <1>2, <2>2, <3>1, <3>2
    <2>3. CASE task' = Become(t, [task[t] EXCEPT !.pc = "audit", !.result = EngineError])
        <3> DEFINE r == [task[t] EXCEPT !.pc = "audit", !.result = EngineError]
        <3>1. /\ r \in Task /\ r.pc = "audit" /\ r.op = "evaluate" /\ r.req = task[t].req
              /\ r.beh = task[t].beh /\ r.ctx = task[t].ctx /\ r.dead = task[t].dead
              /\ r.result = EngineError
            BY <1>1, ResultTypes DEF Task
        <3>2. TaskOK(r, approvals, audit)
            <4> HIDE DEF r
            <4> QED
                BY <1>1, <3>1, ResultTypes
                DEF TaskOK, FlowOK, JudgedOK, HeldOK, AnswerOK, RowOK, DeadOK, Justified
        <3> QED
            BY <1>2, <2>3, <3>1, <3>2
    <2> QED
        BY <2>1, <2>2, <2>3 DEF Match
<1>3. /\ task' \in [Tasks -> Task]
      /\ \A u \in Tasks : TaskOK(task'[u], approvals, audit)
    BY <1>2, QuietStep
<1> QED
    BY <1>3 DEF Inv, TypeOK, Match, store

(* Nothing is claimed of an idle task.                                     *)
LEMMA IdleOK ==
    ASSUME NEW a, NEW d
    PROVE  TaskOK(Idle, a, d)
BY DEF Idle, TaskOK, FlowOK, JudgedOK, HeldOK, AnswerOK, RowOK, DeadOK

(* A step of one task that also writes to the tables.                      *)
LEMMA WriteStep ==
    ASSUME Inv, NEW t \in Tasks, NEW r \in Task, task' = Become(t, r),
           approvals' \in Seq(Approval), Grown(approvals, approvals'),
           audit' \in Seq(AuditEvent), Logged(audit, audit'),
           TaskOK(r, approvals', audit')
    PROVE  /\ task' \in [Tasks -> Task]
           /\ \A u \in Tasks : TaskOK(task'[u], approvals', audit')
BY InvTyping, TasksFrame DEF Become

(* A step that only adds to, or only uses, the approvals.                  *)
LEMMA ApprovalStep ==
    ASSUME Inv, NEW t \in Tasks, NEW r \in Task, task' = Become(t, r),
           approvals' \in Seq(Approval), Grown(approvals, approvals'),
           \A i \in 1 .. Len(approvals') : Validate(approvals'[i].beh, approvals'[i].ctx),
           TaskOK(r, approvals', audit),
           UNCHANGED <<workspace, context, projectRow, imports, audit, cache>>
    PROVE  Inv'
<1>1. /\ task' \in [Tasks -> Task]
      /\ \A u \in Tasks : TaskOK(task'[u], approvals', audit')
    BY InvTyping, WriteStep
<1>2. \A e \in 1 .. Len(audit) : EventOK(audit[e], approvals')
    BY InvTyping, EventsFrame DEF Inv
<1>3. ImportsOK(imports, approvals')
    BY InvTyping, ImportsFrame DEF Inv
<1> QED
    BY <1>1, <1>2, <1>3 DEF Inv, TypeOK

(* Using an approval or changing its state leaves what it trusts alone.    *)
LEMMA TrustStays ==
    ASSUME Inv, NEW b, Grown(approvals, b), Len(b) = Len(approvals)
    PROVE  \A i \in 1 .. Len(b) : Validate(b[i].beh, b[i].ctx)
BY DEF Inv, Grown

LEMMA InvRecordUse ==
    ASSUME Inv, NEW t \in Tasks, RecordUse(t)
    PROVE  Inv'
<1> DEFINE id == task[t].id
           used == [approvals EXCEPT ![id] = [approvals[id] EXCEPT !.used = TRUE]]
<1>1. /\ task[t] \in Task /\ TaskOK(task[t], approvals, audit)
      /\ task[t].pc = "use" /\ task[t].op = "evaluate"
      /\ id \in 1 .. Len(approvals) /\ id \in Nat /\ id \notin task[t].dead
      /\ 0 \notin task[t].dead
    BY InvTyping DEF RecordUse, TaskOK, FlowOK, HeldOK, DeadOK
<1>2. /\ used \in Seq(Approval) /\ Len(used) = Len(approvals)
      /\ Grown(approvals, used) /\ used[id].used
    BY <1>1, InvTyping, UseApproval
<1>3. \A i \in 1 .. Len(used) : Validate(used[i].beh, used[i].ctx)
    <2> HIDE DEF used
    <2> QED
        BY <1>2, TrustStays
<1>4. CASE /\ approvals' = used
           /\ task' = Become(t, [task[t] EXCEPT !.pc = "audit", !.id = 0,
                                        !.result = Answer("ALLOW", "APPROVAL_MATCH", id)])
    <2> DEFINE r == [task[t] EXCEPT !.pc = "audit", !.id = 0,
                                    !.result = Answer("ALLOW", "APPROVAL_MATCH", id)]
    <2>1. /\ r \in Task /\ r.pc = "audit" /\ r.op = "evaluate" /\ r.req = task[t].req
          /\ r.beh = task[t].beh /\ r.ctx = task[t].ctx /\ r.dead = task[t].dead
          /\ r.result = Answer("ALLOW", "APPROVAL_MATCH", id)
        BY <1>1, ResultTypes DEF Task
    <2>2. /\ r.result.outcome = "ALLOW" /\ r.result.class = "APPROVAL_MATCH"
          /\ r.result.approval = id /\ r.result.event = 0
        BY <1>1, <2>1, AnswerType DEF Outcomes, Classes
    <2>3. /\ ~DecidedEarly(task[t].beh, task[t].ctx)
          /\ CoveredBy(approvals[id], task[t].beh)
        BY <1>1 DEF TaskOK, JudgedOK, HeldOK
    <2>4. TaskOK(r, used, audit)
        <3> HIDE DEF r, used, id
        <3>1. TaskOK(task[t], used, audit)
            BY <1>1, <1>2, InvTyping, TaskFrame
        <3>2. CoveredBy(used[id], task[t].beh)
            BY <1>1, <1>2, <2>3 DEF CoveredBy, Grown
        <3>3. Justified(r.result, r.beh, r.ctx, used)
            BY <1>1, <1>2, <2>1, <2>2, <2>3, <3>2 DEF Justified, DecidedEarly
        <3> QED
            BY <1>1, <2>1, <2>2, <3>1, <3>3
            DEF TaskOK, FlowOK, JudgedOK, HeldOK, AnswerOK, RowOK, DeadOK
    <2> QED
        <3> HIDE DEF r, used, id
        <3> QED
            BY <1>2, <1>3, <1>4, <2>1, <2>4, ApprovalStep DEF RecordUse, r
<1>5. CASE /\ approvals' \in {approvals, used}
           /\ task' = Become(t, [task[t] EXCEPT !.pc = "audit", !.id = 0, !.result = EngineError])
    <2> DEFINE r == [task[t] EXCEPT !.pc = "audit", !.id = 0, !.result = EngineError]
    <2>1. /\ r \in Task /\ r.pc = "audit" /\ r.op = "evaluate" /\ r.req = task[t].req
          /\ r.beh = task[t].beh /\ r.ctx = task[t].ctx /\ r.dead = task[t].dead
          /\ r.result = EngineError
        BY <1>1, ResultTypes DEF Task
    <2>2. /\ approvals' \in Seq(Approval) /\ Grown(approvals, approvals')
          /\ \A i \in 1 .. Len(approvals') : Validate(approvals'[i].beh, approvals'[i].ctx)
        <3> HIDE DEF used
        <3> QED
            BY <1>2, <1>3, <1>5, InvTyping DEF Inv
    <2>3. TaskOK(r, approvals', audit)
        <3> HIDE DEF r, used, id
        <3>1. TaskOK(task[t], approvals', audit)
            BY <1>1, <2>2, InvTyping, TaskFrame
        <3> QED
            BY <1>1, <2>1, <3>1, ResultTypes
            DEF TaskOK, FlowOK, JudgedOK, HeldOK, AnswerOK, RowOK, DeadOK, Justified
    <2> QED
        <3> HIDE DEF r, used, id
        <3> QED
            BY <1>5, <2>1, <2>2, <2>3, ApprovalStep DEF RecordUse, r
<1> QED
    BY <1>4, <1>5 DEF RecordUse

(* A step of one task that writes nothing.                                 *)
LEMMA ReadStep ==
    ASSUME Inv, NEW t \in Tasks, NEW r \in Task, task' = Become(t, r),
           TaskOK(r, approvals, audit),
           UNCHANGED <<workspace, context, projectRow, approvals, imports, audit, cache>>
    PROVE  Inv'
<1>1. /\ task' \in [Tasks -> Task]
      /\ \A u \in Tasks : TaskOK(task'[u], approvals, audit)
    BY QuietStep
<1> QED
    BY <1>1 DEF Inv, TypeOK

(* What an import leaves behind, whichever way it ends.                    *)
LEMMA AfterImportOK ==
    ASSUME Inv, NEW t \in Tasks, task[t].pc \in {"import", "create", "record"},
           NEW v \in EvaluationResult, v.event = 0,
           task[t].op = "evaluate" =>
              v.approval \notin task[t].dead /\ Justified(v, task[t].beh, task[t].ctx, approvals)
    PROVE  \E r \in Task : AfterImport(t, v) = Become(t, r) /\ TaskOK(r, approvals, audit)
<1>1. task[t] \in Task /\ TaskOK(task[t], approvals, audit)
    BY InvTyping
<1>2. CASE task[t].op = "evaluate"
    <2> DEFINE r == [task[t] EXCEPT !.pc = "audit", !.id = 0, !.todo = {}, !.result = v]
    <2>1. /\ r \in Task /\ r.pc = "audit" /\ r.op = "evaluate" /\ r.req = task[t].req
          /\ r.beh = task[t].beh /\ r.ctx = task[t].ctx /\ r.dead = task[t].dead
          /\ r.result = v
        BY <1>1, <1>2 DEF Task
    <2>2. AfterImport(t, v) = Become(t, r)
        BY <1>2 DEF AfterImport
    <2>3. TaskOK(r, approvals, audit)
        <3> HIDE DEF r
        <3> QED
            BY <1>1, <1>2, <2>1 DEF TaskOK, FlowOK, JudgedOK, HeldOK, AnswerOK, RowOK, DeadOK
    <2> QED
        BY <2>1, <2>2, <2>3
<1>3. CASE task[t].op # "evaluate"
    BY <1>3, IdleType, IdleOK DEF AfterImport
<1> QED
    BY <1>2, <1>3

LEMMA ErrorOK ==
    ASSUME NEW b, NEW x, NEW a
    PROVE  Justified(EngineError, b, x, a)
BY ResultTypes DEF Justified

LEMMA InvImportCheck ==
    ASSUME Inv, NEW t \in Tasks, ImportCheck(t)
    PROVE  Inv'
<1> DEFINE q == task[t].req
<1>1. /\ task[t] \in Task /\ TaskOK(task[t], approvals, audit)
      /\ task[t].pc = "import" /\ task[t].op \in {"evaluate", "report"}
    BY InvTyping DEF ImportCheck, TaskOK, FlowOK
<1>2. UNCHANGED <<workspace, context, projectRow, approvals, imports, audit, cache>>
    BY DEF ImportCheck, store
<1>3. task[t].op = "evaluate" => 0 \notin task[t].dead
    BY <1>1, InvTyping DEF TaskOK, DeadOK
<1>4. CASE task' = AfterImport(t, task[t].result)
    <2>1. \E r \in Task : AfterImport(t, task[t].result) = Become(t, r) /\ TaskOK(r, approvals, audit)
        <3>1. task[t].result \in EvaluationResult
            BY <1>1 DEF Task
        <3>2. CASE task[t].op = "evaluate"
            <4>1. /\ task[t].result.outcome = "ASK" /\ task[t].result.approval = 0
                  /\ task[t].result.event = 0
                BY <1>1, <3>2 DEF TaskOK, AnswerOK
            <4> QED
                BY <1>1, <1>3, <3>1, <4>1, AfterImportOK DEF Justified
        <3>3. CASE task[t].op # "evaluate"
            BY <3>3, IdleType, IdleOK DEF AfterImport
        <3> QED
            BY <3>2, <3>3
    <2> QED
        BY <1>2, <1>4, <2>1, ReadStep
<1>5. CASE /\ Validate(task[t].beh, task[t].ctx)
           /\ task' = Become(t, [task[t] EXCEPT !.pc = "create"])
    <2> DEFINE r == [task[t] EXCEPT !.pc = "create"]
    <2>1. /\ r \in Task /\ r.pc = "create" /\ r.op = task[t].op /\ r.req = task[t].req
          /\ r.beh = task[t].beh /\ r.ctx = task[t].ctx /\ r.dead = task[t].dead
          /\ r.result = task[t].result /\ r.row = task[t].row
        BY <1>1 DEF Task
    <2>2. TaskOK(r, approvals, audit)
        <3> HIDE DEF r
        <3> QED
            BY <1>1, <1>5, <2>1 DEF TaskOK, FlowOK, JudgedOK, HeldOK, AnswerOK, RowOK, DeadOK
    <2> QED
        BY <1>2, <1>5, <2>1, <2>2, ReadStep
<1>6. CASE task' = AfterImport(t, EngineError)
    <2>1. \E r \in Task : AfterImport(t, EngineError) = Become(t, r) /\ TaskOK(r, approvals, audit)
        BY <1>1, <1>3, AfterImportOK, ErrorOK, ResultTypes
    <2> QED
        BY <1>2, <1>6, <2>1, ReadStep
<1> QED
    BY <1>4, <1>5, <1>6 DEF ImportCheck

LEMMA InvImportCreate ==
    ASSUME Inv, NEW t \in Tasks, ImportCreate(t)
    PROVE  Inv'
<1> DEFINE q == task[t].req
           v == NewApproval("EXACT", task[t].beh, q.cmd, q.consent, task[t].ctx)
<1>1. /\ task[t] \in Task /\ TaskOK(task[t], approvals, audit)
      /\ task[t].pc = "create" /\ task[t].op \in {"evaluate", "report"}
      /\ task[t].beh \in Behaviours /\ task[t].ctx \in Contexts
      /\ q.cmd \in Commands /\ q.consent \in SUBSET Rules /\ q.dry \in BOOLEAN
      /\ Validate(task[t].beh, task[t].ctx)
    BY InvTyping DEF ImportCreate, TaskOK, FlowOK, JudgedOK, Task
<1>2. task[t].op = "evaluate" => 0 \notin task[t].dead
    BY <1>1, InvTyping DEF TaskOK, DeadOK
<1>3. CASE /\ approvals' = Append(approvals, v)
           /\ task' = Become(t, [task[t] EXCEPT !.pc = "record", !.todo = q.consent,
                                                !.id = Len(approvals) + 1])
    <2> DEFINE r == [task[t] EXCEPT !.pc = "record", !.todo = q.consent,
                                    !.id = Len(approvals) + 1]
    <2>1. /\ v \in Approval /\ v.kind = "EXACT" /\ v.beh = task[t].beh /\ v.cmd = q.cmd
          /\ v.rules = q.consent /\ v.ctx = task[t].ctx
        BY <1>1 DEF NewApproval, Approval, Kinds, States
    <2>2. /\ approvals' \in Seq(Approval) /\ Len(approvals') = Len(approvals) + 1
          /\ \A i \in 1 .. Len(approvals) : approvals'[i] = approvals[i]
          /\ approvals'[Len(approvals) + 1] = v /\ Grown(approvals, approvals')
        <3> HIDE DEF v
        <3> QED
            BY <1>3, <2>1, InvTyping, AppendApproval
    <2>3. \A i \in 1 .. Len(approvals') : Validate(approvals'[i].beh, approvals'[i].ctx)
        <3> HIDE DEF v
        <3> QED
            BY <1>1, <2>1, <2>2, InvTyping DEF Inv
    <2>n. Len(approvals) + 1 \in Nat
        BY InvTyping
    <2>4. /\ r \in Task /\ r.pc = "record" /\ r.op = task[t].op /\ r.req = q
          /\ r.beh = task[t].beh /\ r.ctx = task[t].ctx /\ r.dead = task[t].dead
          /\ r.result = task[t].result /\ r.row = task[t].row
          /\ r.todo = q.consent /\ r.id = Len(approvals) + 1
        BY <1>1, <2>n DEF Task
    <2>5. TaskOK(r, approvals', audit)
        <3>1. TaskOK(task[t], approvals', audit)
            BY <1>1, <2>2, InvTyping, TaskFrame
        <3>2. /\ r.id \in 1 .. Len(approvals')
              /\ task[t].op = "evaluate" => r.id \notin task[t].dead
            <4> HIDE DEF r, v, q
            <4> QED
                BY <1>1, <2>2, <2>4, InvTyping DEF TaskOK, DeadOK
        <3> HIDE DEF r, v, q
        <3>3. HeldOK(r, approvals')
            BY <2>1, <2>2, <2>4, <3>2 DEF HeldOK, q
        <3>4. FlowOK(r) /\ JudgedOK(r) /\ RowOK(r, audit) /\ DeadOK(r, approvals')
            BY <1>1, <2>4, <3>1, <3>2 DEF TaskOK, FlowOK, JudgedOK, RowOK, DeadOK, q
        <3>5. AnswerOK(r, approvals', audit)
            BY <1>1, <2>4, <3>1 DEF TaskOK, AnswerOK
        <3> QED
            BY <3>3, <3>4, <3>5 DEF TaskOK
    <2> QED
        BY <1>3, <2>2, <2>3, <2>4, <2>5, ApprovalStep DEF ImportCreate
<1>4. CASE approvals' = approvals /\ task' = AfterImport(t, EngineError)
    <2>1. \E r \in Task : AfterImport(t, EngineError) = Become(t, r) /\ TaskOK(r, approvals, audit)
        BY <1>1, <1>2, AfterImportOK, ErrorOK, ResultTypes
    <2> QED
        BY <1>4, <2>1, ReadStep DEF ImportCreate
<1> QED
    BY <1>3, <1>4 DEF ImportCreate

(* A new import row for an approval made from the rule and the command.    *)
LEMMA InsertOnceOK ==
    ASSUME Inv, NEW rule \in Rules, NEW c \in Commands, NEW id \in 1 .. Len(approvals),
           rule \in approvals[id].rules, c = approvals[id].cmd
    PROVE  /\ InsertOnce(rule, c, id) \subseteq RuleImport
           /\ ImportsOK(InsertOnce(rule, c, id), approvals)
           /\ imports \subseteq InsertOnce(rule, c, id)
<1>1. imports \subseteq RuleImport /\ ImportsOK(imports, approvals) /\ id \in Nat
    BY InvTyping DEF Inv, TypeOK
<1>2. CASE AnyExists({rule}, c)
    BY <1>1, <1>2 DEF InsertOnce
<1>3. CASE ~AnyExists({rule}, c)
    <2> DEFINE m == [rule |-> rule, cmd |-> c, approval |-> id]
    <2>1. m \in RuleImport /\ m.rule = rule /\ m.cmd = c /\ m.approval = id
        BY <1>1 DEF RuleImport
    <2>2. \A n \in imports : ~(n.cmd = c /\ n.rule = rule)
        BY <1>3 DEF AnyExists
    <2>3. InsertOnce(rule, c, id) = imports \cup {m}
        BY <1>3 DEF InsertOnce
    <2> HIDE DEF m
    <2> QED
        BY <1>1, <2>1, <2>2, <2>3 DEF ImportsOK
<1> QED
    BY <1>2, <1>3

LEMMA InvImportRecord ==
    ASSUME Inv, NEW t \in Tasks, ImportRecord(t)
    PROVE  Inv'
<1> DEFINE q == task[t].req
           id == task[t].id
<1>1. /\ task[t] \in Task /\ TaskOK(task[t], approvals, audit)
      /\ task[t].pc = "record" /\ task[t].op \in {"evaluate", "report"}
      /\ task[t].beh \in Behaviours /\ q.cmd \in Commands
      /\ task[t].todo \subseteq Rules /\ task[t].todo \subseteq approvals[id].rules
      /\ id \in 1 .. Len(approvals) /\ id \in Nat
      /\ approvals[id].kind = "EXACT" /\ approvals[id].beh = task[t].beh
      /\ q.cmd = approvals[id].cmd
    BY InvTyping DEF ImportRecord, TaskOK, FlowOK, HeldOK, Task
<1>2. SUFFICES ASSUME imports' \subseteq RuleImport, ImportsOK(imports', approvals),
                      NEW r \in Task, task' = Become(t, r), TaskOK(r, approvals, audit)
               PROVE  Inv'
    <2>1. ASSUME NEW rule \in task[t].todo, imports' = InsertOnce(rule, q.cmd, id)
          PROVE  imports' \subseteq RuleImport /\ ImportsOK(imports', approvals)
        BY <1>1, <2>1, InsertOnceOK
    <2>2. imports' = imports => imports' \subseteq RuleImport /\ ImportsOK(imports', approvals)
        BY DEF Inv, TypeOK
    <2>3. imports' \subseteq RuleImport /\ ImportsOK(imports', approvals)
        BY <2>1, <2>2 DEF ImportRecord
    <2>4. ASSUME NEW rule \in task[t].todo,
                 task' = Become(t, [task[t] EXCEPT !.todo = @ \ {rule}])
          PROVE  Inv'
        <3> DEFINE r == [task[t] EXCEPT !.todo = task[t].todo \ {rule}]
        <3>1. /\ r \in Task /\ r.pc = "record" /\ r.op = task[t].op /\ r.req = q
              /\ r.beh = task[t].beh /\ r.ctx = task[t].ctx /\ r.dead = task[t].dead
              /\ r.result = task[t].result /\ r.row = task[t].row
              /\ r.todo = task[t].todo \ {rule} /\ r.id = id
            BY <1>1 DEF Task
        <3>2. TaskOK(r, approvals, audit)
            <4> HIDE DEF r
            <4>1. HeldOK(r, approvals)
                BY <1>1, <3>1 DEF TaskOK, HeldOK
            <4>2. FlowOK(r) /\ JudgedOK(r) /\ RowOK(r, audit) /\ DeadOK(r, approvals)
                BY <1>1, <3>1 DEF TaskOK, FlowOK, JudgedOK, RowOK, DeadOK
            <4>3. AnswerOK(r, approvals, audit)
                BY <1>1, <3>1 DEF TaskOK, AnswerOK
            <4> QED
                BY <4>1, <4>2, <4>3 DEF TaskOK
        <3> QED
            BY <1>2, <2>3, <2>4, <3>1, <3>2
    <2>5. ASSUME task[t].op = "evaluate",
                 task' = AfterImport(t, Answer("ALLOW", "RULE_IMPORT", id))
          PROVE  Inv'
        <3> DEFINE v == Answer("ALLOW", "RULE_IMPORT", id)
        <3>1. /\ v \in EvaluationResult /\ v.outcome = "ALLOW" /\ v.class = "RULE_IMPORT"
              /\ v.approval = id /\ v.event = 0
            BY <1>1, AnswerType DEF Outcomes, Classes
        <3>2. id \notin task[t].dead /\ ~DecidedEarly(task[t].beh, task[t].ctx)
            BY <1>1, <2>5 DEF TaskOK, DeadOK, JudgedOK
        <3>3. Justified(v, task[t].beh, task[t].ctx, approvals)
            <4> HIDE DEF v
            <4> QED
                BY <1>1, <3>1, <3>2, CoversAssumption DEF Justified, DecidedEarly, CoveredBy, Kinds
        <3>4. \E r \in Task : AfterImport(t, v) = Become(t, r) /\ TaskOK(r, approvals, audit)
            <4> HIDE DEF v
            <4> QED
                BY <1>1, <3>1, <3>2, <3>3, AfterImportOK
        <3> QED
            BY <1>2, <2>3, <2>5, <3>4
    <2>6. ASSUME task[t].op # "evaluate",
                 task' = Become(t, [task[t] EXCEPT !.pc = "link", !.todo = {}])
          PROVE  Inv'
        <3> DEFINE r == [task[t] EXCEPT !.pc = "link", !.todo = {}]
        <3>1. /\ r \in Task /\ r.pc = "link" /\ r.op = "report" /\ r.req = q
              /\ r.beh = task[t].beh /\ r.ctx = task[t].ctx /\ r.row = task[t].row
              /\ r.id = id
            BY <1>1, <2>6 DEF Task
        <3>2. TaskOK(r, approvals, audit)
            <4> HIDE DEF r
            <4> QED
                BY <1>1, <2>6, <3>1
                DEF TaskOK, FlowOK, JudgedOK, HeldOK, AnswerOK, RowOK, DeadOK
        <3> QED
            BY <1>2, <2>3, <2>6, <3>1, <3>2
    <2>7. ASSUME task' = AfterImport(t, EngineError)
          PROVE  Inv'
        <3>1. task[t].op = "evaluate" => 0 \notin task[t].dead
            BY <1>1, InvTyping DEF TaskOK, DeadOK
        <3>2. \E r \in Task : AfterImport(t, EngineError) = Become(t, r) /\ TaskOK(r, approvals, audit)
            BY <1>1, <3>1, AfterImportOK, ErrorOK, ResultTypes
        <3> QED
            BY <1>2, <2>3, <2>7, <3>2
    <2> QED
        BY <2>4, <2>5, <2>6, <2>7 DEF ImportRecord
<1>3. /\ task' \in [Tasks -> Task]
      /\ \A u \in Tasks : TaskOK(task'[u], approvals, audit)
    BY <1>2, QuietStep
<1> QED
    BY <1>2, <1>3 DEF Inv, TypeOK, ImportRecord

(* A step that only writes to the audit log.                               *)
LEMMA EventStep ==
    ASSUME Inv, NEW t \in Tasks, NEW r \in Task, task' = Become(t, r),
           audit' \in Seq(AuditEvent), Logged(audit, audit'),
           \A e \in 1 .. Len(audit') : EventOK(audit'[e], approvals),
           TaskOK(r, approvals, audit'),
           UNCHANGED <<workspace, context, projectRow, approvals, imports, cache>>
    PROVE  Inv'
<1>1. /\ task' \in [Tasks -> Task]
      /\ \A u \in Tasks : TaskOK(task'[u], approvals', audit')
    BY InvTyping, WriteStep
<1>2. \A k \in DOMAIN cache : EntryOK(k, cache[k].result, audit')
    BY InvTyping, EntryFrame DEF Inv
<1> QED
    BY <1>1, <1>2 DEF Inv, TypeOK

LEMMA InvRecordEvaluation ==
    ASSUME Inv, NEW t \in Tasks, RecordEvaluation(t)
    PROVE  Inv'
<1> DEFINE q == task[t].req
           v == task[t].result
           n == Len(audit) + 1
           row == [cmd |-> q.cmd, tool |-> q.tool, session |-> q.session,
                   beh |-> task[t].beh, ctx |-> task[t].ctx, outcome |-> v.outcome,
                   class |-> v.class, approval |-> v.approval,
                   executed |-> FALSE, imported |-> 0]
<1>1. /\ task[t] \in Task /\ TaskOK(task[t], approvals, audit)
      /\ task[t].pc = "audit" /\ task[t].op = "evaluate" /\ q \in Requests
      /\ task[t].beh \in Behaviours /\ task[t].ctx \in Contexts /\ q.cmd \in Commands
      /\ v \in EvaluationResult /\ v.event = 0
      /\ Justified(v, task[t].beh, task[t].ctx, approvals)
    BY InvTyping DEF RecordEvaluation, TaskOK, FlowOK, AnswerOK, Task
<1>2. n \in Nat /\ n # 0
    BY InvTyping
<1>3. CASE ~q.dry /\ audit' = Append(audit, row)
           /\ task' = Become(t, [task[t] EXCEPT !.pc = "put", !.result = [v EXCEPT !.event = n]])
    <2> DEFINE w == [v EXCEPT !.event = n]
               r == [task[t] EXCEPT !.pc = "put", !.result = w]
    <2>1. /\ row \in AuditEvent /\ row.cmd = q.cmd /\ row.tool = q.tool
          /\ row.session = q.session /\ row.beh = task[t].beh /\ row.ctx = task[t].ctx
          /\ row.outcome = v.outcome /\ row.class = v.class /\ row.approval = v.approval
          /\ row.imported = 0
        <3>1. q.tool \in Tools \cup {None} /\ q.session \in Sessions \cup {None}
            BY <1>1 DEF Task
        <3> QED
            BY <1>1, <3>1 DEF AuditEvent, EvaluationResult
    <2>2. /\ w \in EvaluationResult /\ w.outcome = v.outcome /\ w.class = v.class
          /\ w.approval = v.approval /\ w.event = n
        BY <1>1, <1>2 DEF EvaluationResult
    <2>3. /\ audit' \in Seq(AuditEvent) /\ Len(audit') = n
          /\ \A i \in 1 .. Len(audit) : audit'[i] = audit[i]
          /\ audit'[n] = row /\ Logged(audit, audit')
        <3> HIDE DEF row
        <3> QED
            BY <1>3, <2>1, InvTyping, AppendEvent
    <2>4. EventOK(row, approvals)
        <3> HIDE DEF row, v
        <3> QED
            BY <1>1, <2>1 DEF EventOK, Justified
    <2>5. \A e \in 1 .. Len(audit') : EventOK(audit'[e], approvals)
        <3> HIDE DEF row
        <3> QED
            BY <2>3, <2>4, InvTyping DEF Inv
    <2>6. /\ r \in Task /\ r.pc = "put" /\ r.op = "evaluate" /\ r.req = q
          /\ r.result = w /\ r.dead = task[t].dead
        <3> HIDE DEF w
        <3> QED
            BY <1>1, <2>2 DEF Task
    <2>7. TaskOK(r, approvals, audit')
        <3>1. n \in 1 .. Len(audit')
            BY <1>2, <2>3
        <3> HIDE DEF r, w, row, n, v, q
        <3>2. RecordedIn(w, audit')
            BY <2>1, <2>2, <2>3, <3>1 DEF RecordedIn
        <3>3. AnswerOK(r, approvals, audit')
            BY <2>1, <2>2, <2>3, <2>6, <3>2 DEF AnswerOK, Traceable
        <3>4. FlowOK(r) /\ JudgedOK(r) /\ HeldOK(r, approvals) /\ RowOK(r, audit')
            BY <1>1, <2>6 DEF FlowOK, JudgedOK, HeldOK, RowOK
        <3>5. DeadOK(r, approvals)
            BY <1>1, <2>2, <2>6 DEF TaskOK, DeadOK, v
        <3> QED
            BY <3>3, <3>4, <3>5 DEF TaskOK
    <2> QED
        <3> HIDE DEF row, w
        <3> QED
            BY <1>3, <2>3, <2>5, <2>6, <2>7, EventStep DEF RecordEvaluation, w
<1>4. CASE q.dry /\ audit' = audit
           /\ task' = Become(t, [task[t] EXCEPT !.pc = "reply"])
    <2> DEFINE r == [task[t] EXCEPT !.pc = "reply"]
    <2>1. /\ r \in Task /\ r.pc = "reply" /\ r.op = "evaluate" /\ r.req = q
          /\ r.result = v /\ r.dead = task[t].dead
        BY <1>1 DEF Task
    <2>2. TaskOK(r, approvals, audit)
        <3> HIDE DEF r
        <3> QED
            BY <1>1, <1>4, <2>1
            DEF TaskOK, FlowOK, JudgedOK, HeldOK, AnswerOK, RowOK, DeadOK
    <2> QED
        BY <1>4, <2>1, <2>2, ReadStep DEF RecordEvaluation
<1>5. CASE audit' = audit
           /\ task' = Become(t, [task[t] EXCEPT !.pc = "put", !.result = EngineError])
    <2> DEFINE r == [task[t] EXCEPT !.pc = "put", !.result = EngineError]
    <2>1. /\ r \in Task /\ r.pc = "put" /\ r.op = "evaluate" /\ r.req = q
          /\ r.result = EngineError /\ r.dead = task[t].dead
        BY <1>1, ResultTypes DEF Task
    <2>2. TaskOK(r, approvals, audit)
        <3>1. 0 \notin task[t].dead
            BY <1>1, InvTyping DEF TaskOK, DeadOK
        <3> HIDE DEF r
        <3> QED
            BY <1>1, <2>1, <3>1, ResultTypes
            DEF TaskOK, FlowOK, JudgedOK, HeldOK, AnswerOK, RowOK, DeadOK, Traceable
    <2> QED
        BY <1>5, <2>1, <2>2, ReadStep DEF RecordEvaluation
<1> QED
    BY <1>3, <1>4, <1>5 DEF RecordEvaluation

(* A step that writes to the cache.                                        *)
LEMMA CacheStep ==
    ASSUME Inv, NEW t \in Tasks, NEW r \in Task, task' = Become(t, r),
           TaskOK(r, approvals, audit),
           DOMAIN cache' \subseteq CacheKeys,
           \A k \in DOMAIN cache' : cache'[k] \in CacheEntry /\ EntryOK(k, cache'[k].result, audit),
           UNCHANGED <<workspace, context, projectRow, approvals, imports, audit>>
    PROVE  Inv'
<1>1. /\ task' \in [Tasks -> Task]
      /\ \A u \in Tasks : TaskOK(task'[u], approvals, audit)
    BY QuietStep
<1> QED
    BY <1>1 DEF Inv, TypeOK

LEMMA KeysTyped ==
    ASSUME NEW q \in Requests
    PROVE  cacheKeys(q) \subseteq CacheKeys
<1>1. /\ q.tool \in Tools \cup {None} /\ q.session \in Sessions \cup {None}
      /\ q.cmd \in Commands
    BY ConstantsAssumption DEF ActionRequest
<1>2. toolUseKey(q) \subseteq CacheKeys
    BY <1>1 DEF toolUseKey, CacheKeys
<1>3. sessionCommandKey(q) \subseteq CacheKeys
    <2>1. CASE q.session = None
        BY <2>1 DEF sessionCommandKey
    <2>2. CASE q.session # None
        <3> DEFINE k == <<q.session, q.cmd>>
        <3>1. k \in Sessions \X Commands /\ k[1] = q.session /\ k[2] = q.cmd
            BY <1>1, <2>2
        <3>2. <<"session", k[1], k[2]>> \in CacheKeys
            BY <3>1 DEF CacheKeys
        <3> QED
            BY <2>2, <3>1, <3>2 DEF sessionCommandKey
    <2> QED
        BY <2>1, <2>2
<1> QED
    BY <1>2, <1>3 DEF cacheKeys

LEMMA InvCachePut ==
    ASSUME Inv, NEW t \in Tasks, CachePut(t)
    PROVE  Inv'
<1> DEFINE q == task[t].req
           v == task[t].result
           r == [task[t] EXCEPT !.pc = "reply"]
<1>1. /\ task[t] \in Task /\ TaskOK(task[t], approvals, audit)
      /\ task[t].pc = "put" /\ task[t].op = "evaluate" /\ q \in Requests
      /\ v \in EvaluationResult /\ Traceable(v, audit)
    BY InvTyping DEF CachePut, TaskOK, FlowOK, AnswerOK, Task
<1>2. /\ r \in Task /\ r.pc = "reply" /\ r.op = "evaluate" /\ r.req = q
      /\ r.result = v /\ r.dead = task[t].dead
    BY <1>1 DEF Task
<1>3. TaskOK(r, approvals, audit)
    <2> HIDE DEF r
    <2> QED
        BY <1>1, <1>2 DEF TaskOK, FlowOK, JudgedOK, HeldOK, AnswerOK, RowOK, DeadOK
<1>4. \A k \in cacheKeys(q) : EntryOK(k, v, audit)
    <2>1. ASSUME v.event # 0
          PROVE  cacheKeys(q) = cacheKeys(audit[v.event])
        <3>1. /\ audit[v.event].cmd = q.cmd /\ audit[v.event].session = q.session
              /\ audit[v.event].tool = q.tool
            BY <1>1, <2>1 DEF TaskOK, AnswerOK
        <3> QED
            BY <3>1 DEF cacheKeys, toolUseKey, sessionCommandKey
    <2> QED
        BY <1>1, <2>1 DEF EntryOK
<1>5. [result |-> v, left |-> TTL] \in CacheEntry
    BY <1>1, ConstantsAssumption DEF CacheEntry
<1>6. /\ DOMAIN cache' \subseteq DOMAIN cache \cup cacheKeys(q)
      /\ \A k \in DOMAIN cache' :
            \/ k \in cacheKeys(q) /\ cache'[k] = [result |-> v, left |-> TTL]
            \/ k \in DOMAIN cache /\ cache'[k] = cache[k]
    BY DEF CachePut
<1>7. /\ DOMAIN cache' \subseteq CacheKeys
      /\ \A k \in DOMAIN cache' : cache'[k] \in CacheEntry /\ EntryOK(k, cache'[k].result, audit)
    BY <1>1, <1>4, <1>5, <1>6, KeysTyped DEF Inv, TypeOK
<1> QED
    BY <1>2, <1>3, <1>7, CacheStep DEF CachePut, store

LEMMA InvReply ==
    ASSUME Inv, NEW t \in Tasks, Reply(t)
    PROVE  Inv'
BY IdleType, IdleOK, ReadStep DEF Reply, store

LEMMA InvResetCache ==
    ASSUME Inv, NEW t \in Tasks, ResetCache(t)
    PROVE  Inv'
<1>1. DOMAIN cache' = {}
    BY DEF ResetCache, NoCache
<1> QED
    BY <1>1, IdleType, IdleOK, CacheStep DEF ResetCache, store

(* Stamping a row keeps it a good row.                                     *)
LEMMA StampStep ==
    ASSUME Inv, NEW e \in 1 .. Len(audit), NEW v \in AuditEvent,
           v.cmd = audit[e].cmd, v.tool = audit[e].tool, v.session = audit[e].session,
           v.beh = audit[e].beh, v.ctx = audit[e].ctx, v.outcome = audit[e].outcome,
           v.class = audit[e].class, v.approval = audit[e].approval,
           v.imported # 0 =>
                /\ v.imported \in 1 .. Len(approvals)
                /\ approvals[v.imported].beh = v.beh
                /\ v.class = "NO_MATCHING_APPROVAL",
           audit' = [audit EXCEPT ![e] = v]
    PROVE  /\ audit' \in Seq(AuditEvent) /\ Logged(audit, audit')
           /\ \A i \in 1 .. Len(audit') : EventOK(audit'[i], approvals)
           /\ Len(audit') = Len(audit)
<1>1. /\ audit' \in Seq(AuditEvent) /\ Len(audit') = Len(audit) /\ Logged(audit, audit')
      /\ audit'[e] = v /\ \A j \in 1 .. Len(audit) : j # e => audit'[j] = audit[j]
    <2>1. audit \in Seq(AuditEvent)
        BY InvTyping
    <2>2. /\ audit' \in Seq(AuditEvent) /\ Len(audit') = Len(audit) /\ audit'[e] = v
          /\ \A j \in 1 .. Len(audit) : j # e => audit'[j] = audit[j]
        BY <2>1, SeqUpdate
    <2>3. Logged(audit, audit')
        BY <2>1, <2>2 DEF Logged
    <2> QED
        BY <2>2, <2>3
<1>2. EventOK(v, approvals)
    BY DEF Inv, EventOK, Justified
<1> QED
    BY <1>1, <1>2 DEF Inv

LEMMA InvReportExecution ==
    ASSUME Inv, NEW t \in Tasks, NEW p \in Reports, ReportExecution(t, p)
    PROVE  Inv'
<1>1. PICK e \in DOMAIN audit :
        /\ audit' = [audit EXCEPT ![e] = [audit[e] EXCEPT !.executed = TRUE]]
        /\ task' = IF /\ p.consent # {} /\ audit[e].outcome = "ASK"
                      /\ audit[e].class = "NO_MATCHING_APPROVAL"
                  THEN Become(t, [Idle EXCEPT
                          !.pc = "import", !.op = "report", !.row = e,
                          !.beh = audit[e].beh, !.ctx = context,
                          !.req = [cmd |-> audit[e].cmd, tool |-> p.tool,
                                   session |-> audit[e].session,
                                   consent |-> p.consent, dry |-> FALSE]])
                  ELSE task
    BY DEF ReportExecution
<1> DEFINE v == [audit[e] EXCEPT !.executed = TRUE]
           q == [cmd |-> audit[e].cmd, tool |-> p.tool, session |-> audit[e].session,
                 consent |-> p.consent, dry |-> FALSE]
           r == [Idle EXCEPT !.pc = "import", !.op = "report", !.row = e,
                             !.beh = audit[e].beh, !.ctx = context, !.req = q]
<1>2. e \in 1 .. Len(audit) /\ e \in Nat /\ audit[e] \in AuditEvent /\ context \in Contexts
    BY InvTyping DEF Inv, TypeOK
<1>3. /\ v \in AuditEvent
      /\ v.cmd = audit[e].cmd /\ v.tool = audit[e].tool /\ v.session = audit[e].session
      /\ v.beh = audit[e].beh /\ v.ctx = audit[e].ctx /\ v.outcome = audit[e].outcome
      /\ v.class = audit[e].class /\ v.approval = audit[e].approval
      /\ v.imported = audit[e].imported
    BY <1>2 DEF AuditEvent
<1>4. /\ audit' \in Seq(AuditEvent) /\ Logged(audit, audit')
      /\ \A i \in 1 .. Len(audit') : EventOK(audit'[i], approvals)
      /\ Len(audit') = Len(audit)
    <2>1. EventOK(audit[e], approvals)
        BY <1>2 DEF Inv
    <2> HIDE DEF v
    <2> QED
        BY <1>1, <1>2, <1>3, <2>1, StampStep DEF EventOK, v
<1>5. CASE /\ p.consent # {} /\ audit[e].outcome = "ASK"
           /\ audit[e].class = "NO_MATCHING_APPROVAL"
    <2>1. /\ q.cmd \in Commands
          /\ q \in [cmd: Commands \cup {None}, tool: Tools \cup {None},
                    session: Sessions \cup {None}, consent: SUBSET Rules, dry: BOOLEAN]
        BY <1>2, ConstantsAssumption DEF AuditEvent, ExecutionReport
    <2>2. /\ r \in Task /\ r.pc = "import" /\ r.op = "report" /\ r.row = e
          /\ r.beh = audit[e].beh /\ r.ctx = context /\ r.req = q
          /\ r.beh \in Behaviours
        <3> HIDE DEF q
        <3> QED
            BY ZenonT(60), <1>2, <2>1, IdleType DEF Task, AuditEvent
    <2>3. TaskOK(r, approvals, audit')
        <3> HIDE DEF r, q
        <3>1. RowOK(r, audit')
            BY <1>2, <1>4, <1>5, <2>2 DEF RowOK, Logged
        <3> QED
            BY <1>2, <2>1, <2>2, <3>1
            DEF TaskOK, FlowOK, JudgedOK, HeldOK, AnswerOK, DeadOK
    <2>4. task' = Become(t, r)
        BY <1>1, <1>5
    <2> QED
        <3> HIDE DEF r, q, v
        <3> QED
            BY <1>4, <2>2, <2>3, <2>4, EventStep DEF ReportExecution
<1>6. CASE task' = task
    <2>1. task' = Become(t, task[t]) /\ task[t] \in Task
        BY <1>6, InvTyping DEF Become
    <2>2. TaskOK(task[t], approvals, audit')
        BY <1>4, InvTyping, TaskFrame
    <2> QED
        <3> HIDE DEF v
        <3> QED
            BY <1>4, <2>1, <2>2, EventStep DEF ReportExecution
<1> QED
    BY <1>1, <1>5, <1>6

LEMMA InvLinkImport ==
    ASSUME Inv, NEW t \in Tasks, LinkImport(t)
    PROVE  Inv'
<1> DEFINE e == task[t].row
           id == task[t].id
           v == [audit[e] EXCEPT !.imported = id]
           r == [task[t] EXCEPT !.pc = "reset"]
<1>1. /\ task[t] \in Task /\ task[t].pc = "link" /\ task[t].op = "report"
      /\ e \in 1 .. Len(audit) /\ audit[e].beh = task[t].beh
      /\ audit[e].class = "NO_MATCHING_APPROVAL"
      /\ id \in 1 .. Len(approvals) /\ id \in Nat /\ approvals[id].beh = task[t].beh
      /\ audit[e] \in AuditEvent
    BY InvTyping DEF LinkImport, TaskOK, FlowOK, HeldOK, RowOK
<1>2. CASE audit' = [audit EXCEPT ![e] = v] /\ task' = Become(t, r)
    <2>1. /\ v \in AuditEvent
          /\ v.cmd = audit[e].cmd /\ v.tool = audit[e].tool /\ v.session = audit[e].session
          /\ v.beh = audit[e].beh /\ v.ctx = audit[e].ctx /\ v.outcome = audit[e].outcome
          /\ v.class = audit[e].class /\ v.approval = audit[e].approval
          /\ v.imported = id
        BY <1>1 DEF AuditEvent
    <2>2. /\ audit' \in Seq(AuditEvent) /\ Logged(audit, audit')
          /\ \A i \in 1 .. Len(audit') : EventOK(audit'[i], approvals)
        <3> HIDE DEF v, e, id
        <3> QED
            BY <1>1, <1>2, <2>1, StampStep
    <2>3. r \in Task /\ r.pc = "reset" /\ r.op = "report"
        BY <1>1 DEF Task
    <2>4. TaskOK(r, approvals, audit')
        <3> HIDE DEF r
        <3> QED
            BY <2>3 DEF TaskOK, FlowOK, JudgedOK, HeldOK, AnswerOK, RowOK, DeadOK
    <2> QED
        <3> HIDE DEF r, v
        <3> QED
            BY <1>2, <2>2, <2>3, <2>4, EventStep DEF LinkImport
<1>3. CASE audit' = audit /\ task' = Become(t, Idle)
    BY <1>3, IdleType, IdleOK, ReadStep DEF LinkImport
<1> QED
    BY <1>2, <1>3 DEF LinkImport

LEMMA InvSetState ==
    ASSUME Inv, NEW t \in Tasks, NEW id \in DOMAIN approvals, NEW s \in SetStates,
           SetState(t, id, s)
    PROVE  Inv'
<1> DEFINE b == [approvals EXCEPT ![id] = [approvals[id] EXCEPT !.state = s]]
           r == [Idle EXCEPT !.pc = "reset", !.op = "admin", !.id = id]
<1>1. /\ id \in 1 .. Len(approvals) /\ id \in Nat /\ approvals \in Seq(Approval)
      /\ s \in States /\ approvals[id].state # "REVOKED"
    BY InvTyping, ConstantsAssumption DEF SetState
<1>2. b \in Seq(Approval) /\ Len(b) = Len(approvals) /\ Grown(approvals, b)
    BY <1>1, UpdateApproval
<1>3. approvals' = b /\ task' = Become(t, r)
    BY DEF SetState
<1>4. r \in Task /\ r.pc = "reset" /\ r.op = "admin"
    BY <1>1, IdleType DEF Task
<1>5. TaskOK(r, approvals', audit)
    <2> HIDE DEF r, b
    <2> QED
        BY <1>4 DEF TaskOK, FlowOK, JudgedOK, HeldOK, AnswerOK, RowOK, DeadOK
<1> HIDE DEF b, r
<1>6. \A i \in 1 .. Len(b) : Validate(b[i].beh, b[i].ctx)
    BY <1>2, TrustStays
<1> QED
    BY <1>2, <1>3, <1>4, <1>5, <1>6, ApprovalStep DEF SetState

LEMMA InvCreateApproval ==
    ASSUME Inv, NEW t \in Tasks, NEW e \in DOMAIN audit, NEW kind \in CreateKinds,
           CreateApproval(t, e, kind)
    PROVE  Inv'
<1> DEFINE v == NewApproval(kind, audit[e].beh, audit[e].cmd, {}, context)
           r == [Idle EXCEPT !.pc = "reset", !.op = "admin", !.id = Len(approvals) + 1]
<1>1. /\ audit[e] \in AuditEvent /\ kind \in Kinds /\ context \in Contexts
      /\ Len(approvals) + 1 \in Nat /\ Validate(audit[e].beh, context)
    BY InvTyping, ConstantsAssumption DEF Inv, TypeOK, CreateApproval
<1>2. v \in Approval /\ v.beh = audit[e].beh /\ v.ctx = context
    BY <1>1 DEF NewApproval, Approval, AuditEvent, States
<1>3. approvals' = Append(approvals, v) /\ task' = Become(t, r)
    BY DEF CreateApproval
<1>4. r \in Task /\ r.pc = "reset" /\ r.op = "admin"
    BY <1>1, IdleType DEF Task
<1> HIDE DEF v, r
<1>5. /\ approvals' \in Seq(Approval) /\ Len(approvals') = Len(approvals) + 1
      /\ \A i \in 1 .. Len(approvals) : approvals'[i] = approvals[i]
      /\ approvals'[Len(approvals) + 1] = v /\ Grown(approvals, approvals')
    BY <1>2, <1>3, InvTyping, AppendApproval
<1>6. \A i \in 1 .. Len(approvals') : Validate(approvals'[i].beh, approvals'[i].ctx)
    BY <1>1, <1>2, <1>5, InvTyping DEF Inv
<1>7. TaskOK(r, approvals', audit)
    BY <1>4 DEF TaskOK, FlowOK, JudgedOK, HeldOK, AnswerOK, RowOK, DeadOK
<1> QED
    BY <1>3, <1>4, <1>5, <1>6, <1>7, ApprovalStep DEF CreateApproval

LEMMA InvEnvironment ==
    ASSUME Inv, Environment
    PROVE  Inv'
<1>1. ASSUME NEW c \in Commands, NEW b \in Behaviours, EditWorkspace(c, b)
      PROVE  Inv'
    BY <1>1 DEF EditWorkspace, Inv, TypeOK, store
<1>2. ASSUME NEW x \in Contexts, SwitchContext(x)
      PROVE  Inv'
    BY <1>2 DEF SwitchContext, Inv, TypeOK, store
<1>3. CASE ConfigChanged
    <2>1. DOMAIN cache' = {}
        BY <1>3 DEF ConfigChanged, NoCache
    <2> QED
        BY <1>3, <2>1 DEF ConfigChanged, Inv, TypeOK, store
<1>4. CASE Tick
    <2>1. ASSUME NEW k \in DOMAIN cache
          PROVE  /\ k \in DOMAIN cache' /\ cache'[k] \in CacheEntry
                 /\ cache'[k].result = cache[k].result
        <3>1. cache[k] \in CacheEntry
            BY DEF Inv, TypeOK
        <3>2. cache'[k] = [cache[k] EXCEPT !.left =
                              IF cache[k].left >= 0 THEN cache[k].left - 1 ELSE cache[k].left]
            BY <1>4 DEF Tick
        <3>3. PICK l : l = IF cache[k].left >= 0 THEN cache[k].left - 1 ELSE cache[k].left
            OBVIOUS
        <3>4. l \in -1 .. TTL
            BY <3>1, <3>3, ConstantsAssumption DEF CacheEntry
        <3>5. cache'[k] = [cache[k] EXCEPT !.left = l]
            BY <3>2, <3>3, Zenon
        <3> QED
            BY <1>4, <3>1, <3>4, <3>5 DEF CacheEntry, Tick
    <2>2. DOMAIN cache' = DOMAIN cache
        BY <1>4 DEF Tick
    <2> QED
        BY <1>4, <2>1, <2>2 DEF Tick, Inv, TypeOK, store
<1>5. CASE Crash
    <2>1. DOMAIN cache' = {}
        BY <1>5 DEF Crash, NoCache
    <2>2. /\ task' \in [Tasks -> Task]
          /\ \A u \in Tasks : TaskOK(task'[u], approvals, audit)
        BY <1>5, IdleType, IdleOK DEF Crash
    <2> QED
        BY <1>5, <2>1, <2>2 DEF Crash, Inv, TypeOK, store
<1> QED
    BY <1>1, <1>2, <1>3, <1>4, <1>5 DEF Environment

-----------------------------------------------------------------------------
(* The invariant is inductive *)

LEMMA InvInit ==
    ASSUME Init
    PROVE  Inv
<1>1. Len(approvals) = 0 /\ Len(audit) = 0 /\ approvals \in Seq(Approval) /\ audit \in Seq(AuditEvent)
    BY DEF Init
<1>2. DOMAIN cache = {}
    BY DEF Init, NoCache
<1>3. task \in [Tasks -> Task] /\ \A t \in Tasks : TaskOK(task[t], approvals, audit)
    BY IdleType, IdleOK DEF Init
<1>4. ImportsOK(imports, approvals) /\ imports \subseteq RuleImport
    BY DEF Init, ImportsOK
<1>5. TypeOK
    <2>1. workspace \in [Commands -> Behaviours] /\ context \in Contexts
        BY DEF Init
    <2>2. projectRow \in BOOLEAN
        BY DEF Init
    <2> QED
        BY <1>1, <1>2, <1>3, <1>4, <2>1, <2>2 DEF TypeOK
<1> QED
    BY <1>1, <1>2, <1>3, <1>4, <1>5 DEF Inv

LEMMA InvNext ==
    ASSUME Inv, [Next]_vars
    PROVE  Inv'
<1>1. ASSUME NEW t \in Tasks, Begin(t)
      PROVE  Inv'
    BY <1>1, InvAnswerFromCache, InvStartEvaluation, InvReportExecution, InvSetState,
       InvCreateApproval DEF Begin
<1>2. ASSUME NEW t \in Tasks, Step(t)
      PROVE  Inv'
    BY <1>2, InvResolve, InvMatch, InvRecordUse, InvImportCheck, InvImportCreate,
       InvImportRecord, InvRecordEvaluation, InvCachePut, InvReply, InvLinkImport,
       InvResetCache DEF Step
<1>3. CASE UNCHANGED vars
    BY <1>3 DEF vars, Inv, TypeOK
<1> QED
    BY <1>1, <1>2, <1>3, InvEnvironment DEF Next

LEMMA InvAlways == Spec => []Inv
<1>1. Init => Inv
    BY InvInit
<1>2. Inv /\ [Next]_vars => Inv'
    BY InvNext
<1> QED
    BY <1>1, <1>2, PTL DEF Spec

-----------------------------------------------------------------------------
(* Theorems *)

(* The indices of the two tables.                                          *)
LEMMA Indices ==
    ASSUME Inv
    PROVE  DOMAIN approvals = 1 .. Len(approvals) /\ DOMAIN audit = 1 .. Len(audit)
BY InvTyping

(* The state of the daemon stays well formed whatever requests, faults and *)
(* restarts interleave (every handler of handlers_*.go).                   *)
THEOREM TypeCorrect == Spec => []TypeOK
<1>1. Inv => TypeOK
    BY DEF Inv
<1> QED
    BY <1>1, InvAlways, PTL

(* Every answer that leaves the daemon, cached or fresh, is the one in its *)
(* audit row, or the fail-closed ASK of an evaluation that could not be    *)
(* recorded (handlers_evaluate.go evaluate, audit.go RecordEvaluation).    *)
THEOREM AnswersAreRecorded == Spec => []RecordedBeforeAnswered
<1>1. ASSUME Inv
      PROVE  RecordedBeforeAnswered
    <2>1. ASSUME NEW r, Traceable(r, audit)
          PROVE  Recorded(r) \/ r = EngineError
        BY <1>1, <2>1, Indices DEF Traceable, RecordedIn, Recorded
    <2>2. \A t \in Tasks : task[t].pc = "reply" /\ ~task[t].req.dry => Traceable(task[t].result, audit)
        BY <1>1 DEF Inv, TaskOK, AnswerOK
    <2>3. \A k \in DOMAIN cache : Traceable(cache[k].result, audit)
        BY <1>1 DEF Inv, EntryOK
    <2> QED
        BY <2>1, <2>2, <2>3 DEF RecordedBeforeAnswered
<1> QED
    BY <1>1, InvAlways, PTL

(* No request is answered with the decision of another command, session or *)
(* tool call (handlers_evaluate.go resultCache.get, put).                  *)
THEOREM AnswersBelong == Spec => []AnswerBelongs
<1>1. ASSUME Inv
      PROVE  AnswerBelongs
    <2>1. ASSUME NEW t \in Tasks, task[t].pc = "reply", task[t].result.event # 0
          PROVE  LET row == audit[task[t].result.event] IN
                    /\ row.cmd = task[t].req.cmd /\ row.session = task[t].req.session
                    /\ task[t].req.tool # None => row.tool = task[t].req.tool
        BY <1>1, <2>1 DEF Inv, TaskOK, AnswerOK
    <2> QED
        BY <2>1 DEF AnswerBelongs
<1> QED
    BY <1>1, InvAlways, PTL

(* Trust, imports and the read-only baseline never lift the safety floor   *)
(* or allow what was not fully modelled (engine.go EvaluateDetailed).      *)
THEOREM FloorHolds == Spec => []FloorIsFinal
<1>1. ASSUME Inv
      PROVE  FloorIsFinal
    BY <1>1, Indices DEF Inv, EventOK, Justified, FloorIsFinal
<1> QED
    BY <1>1, InvAlways, PTL

(* Every recorded ALLOW that names an approval lies inside what the        *)
(* approval trusts, also after later edits and revocations (match.go).     *)
THEOREM AllowsAreCovered == Spec => []AllowIsCovered
<1>1. ASSUME Inv
      PROVE  AllowIsCovered
    BY <1>1, Indices DEF Inv, EventOK, Justified, AllowIsCovered
<1> QED
    BY <1>1, InvAlways, PTL

(* Every approval passed the floor of the context it was created in        *)
(* (create.go Validate, through both the user's and the import path).      *)
THEOREM TrustIsApprovable == Spec => []TrustWasApprovable
<1>1. ASSUME Inv
      PROVE  TrustWasApprovable
    BY <1>1, Indices DEF Inv, TrustWasApprovable
<1> QED
    BY <1>1, InvAlways, PTL

(* An evaluation never decides on an approval whose revocation was         *)
(* acknowledged before it began (match.go Matches, approvals.go SetState). *)
THEOREM RevocationHolds == Spec => []RevokedNeverMatched
<1>1. ASSUME Inv
      PROVE  RevokedNeverMatched
    BY <1>1 DEF Inv, TaskOK, DeadOK, RevokedNeverMatched
<1> QED
    BY <1>1, InvAlways, PTL

(* Import rows name approvals made from their own rule and command, one    *)
(* row per rule and command, despite races and crashes (imports.go).       *)
THEOREM ImportRowsHold == Spec => []ImportRowsNameTheirTrust
<1>1. ASSUME Inv
      PROVE  ImportRowsNameTheirTrust
    BY <1>1, Indices DEF Inv, ImportsOK, ImportRowsNameTheirTrust
<1> QED
    BY <1>1, InvAlways, PTL

(* Consent given with an execution report trusts exactly the behaviour the *)
(* deferred evaluation recorded (handlers_reports.go importConsent).       *)
THEOREM ReportsTrustWhatRan == Spec => []ReportedConsentTrustsWhatRan
<1>1. ASSUME Inv
      PROVE  ReportedConsentTrustsWhatRan
    BY <1>1, Indices DEF Inv, EventOK, ReportedConsentTrustsWhatRan
<1> QED
    BY <1>1, InvAlways, PTL

(* What no step takes away from the tables.                                *)
KeptTables ==
    Grown(approvals, approvals') /\ Logged(audit, audit') /\ imports \subseteq imports'

LEMMA KeepBegin ==
    ASSUME Inv, NEW t \in Tasks, Begin(t)
    PROVE  KeptTables
<1>1. ASSUME NEW q \in Requests, AnswerFromCache(t, q) \/ StartEvaluation(t, q)
      PROVE  KeptTables
    BY <1>1, InvTyping DEF AnswerFromCache, StartEvaluation, store, KeptTables
<1>2. ASSUME NEW p \in Reports, ReportExecution(t, p)
      PROVE  KeptTables
    <2>1. PICK e \in DOMAIN audit :
            audit' = [audit EXCEPT ![e] = [audit[e] EXCEPT !.executed = TRUE]]
        BY <1>2 DEF ReportExecution
    <2> DEFINE v == [audit[e] EXCEPT !.executed = TRUE]
    <2>2. e \in 1 .. Len(audit) /\ audit[e] \in AuditEvent /\ EventOK(audit[e], approvals)
        BY InvTyping DEF Inv
    <2>3. /\ v \in AuditEvent
          /\ v.cmd = audit[e].cmd /\ v.tool = audit[e].tool /\ v.session = audit[e].session
          /\ v.beh = audit[e].beh /\ v.ctx = audit[e].ctx /\ v.outcome = audit[e].outcome
          /\ v.class = audit[e].class /\ v.approval = audit[e].approval
          /\ v.imported = audit[e].imported
        BY <2>2 DEF AuditEvent
    <2>4. Logged(audit, audit')
        <3> HIDE DEF v
        <3> QED
            BY <2>1, <2>2, <2>3, StampStep DEF EventOK, v
    <2> QED
        BY <1>2, <2>4, InvTyping DEF ReportExecution, KeptTables
<1>3. ASSUME NEW id \in DOMAIN approvals, NEW s \in SetStates, SetState(t, id, s)
      PROVE  KeptTables
    <2>1. /\ id \in 1 .. Len(approvals) /\ approvals \in Seq(Approval) /\ s \in States
          /\ approvals[id].state # "REVOKED"
        BY <1>3, InvTyping, ConstantsAssumption DEF SetState
    <2>2. Grown(approvals, [approvals EXCEPT ![id] = [approvals[id] EXCEPT !.state = s]])
        BY <2>1, UpdateApproval
    <2> QED
        BY <1>3, <2>2, InvTyping DEF SetState, KeptTables
<1>4. ASSUME NEW e \in DOMAIN audit, NEW kind \in CreateKinds, CreateApproval(t, e, kind)
      PROVE  KeptTables
    <2> DEFINE v == NewApproval(kind, audit[e].beh, audit[e].cmd, {}, context)
    <2>1. audit[e] \in AuditEvent /\ kind \in Kinds /\ context \in Contexts
        BY InvTyping, ConstantsAssumption DEF Inv, TypeOK
    <2>2. v \in Approval
        BY <2>1 DEF NewApproval, Approval, AuditEvent, States
    <2>3. Grown(approvals, Append(approvals, v))
        <3> HIDE DEF v
        <3> QED
            BY <2>2, InvTyping, AppendApproval
    <2> QED
        BY <1>4, <2>3, InvTyping DEF CreateApproval, KeptTables
<1> QED
    BY <1>1, <1>2, <1>3, <1>4 DEF Begin

LEMMA KeepStep ==
    ASSUME Inv, NEW t \in Tasks, Step(t)
    PROVE  KeptTables
<1>1. CASE Resolve(t) \/ Match(t) \/ ImportCheck(t) \/ CachePut(t) \/ Reply(t) \/ ResetCache(t)
    BY <1>1, InvTyping DEF Resolve, Match, ImportCheck, CachePut, Reply, ResetCache, store, KeptTables
<1>2. CASE RecordUse(t)
    <2> DEFINE id == task[t].id
               used == [approvals EXCEPT ![id] = [approvals[id] EXCEPT !.used = TRUE]]
    <2>1. id \in 1 .. Len(approvals)
        BY <1>2, InvTyping DEF RecordUse, TaskOK, HeldOK
    <2>2. Grown(approvals, used)
        BY <2>1, InvTyping, UseApproval
    <2>3. approvals' \in {approvals, used} /\ audit' = audit /\ imports' = imports
        BY <1>2 DEF RecordUse
    <2> HIDE DEF used
    <2> QED
        BY <2>2, <2>3, InvTyping DEF KeptTables
<1>3. CASE ImportCreate(t)
    <2> DEFINE q == task[t].req
               v == NewApproval("EXACT", task[t].beh, q.cmd, q.consent, task[t].ctx)
    <2>1. /\ task[t].beh \in Behaviours /\ task[t].ctx \in Contexts
          /\ q.cmd \in Commands /\ q.consent \in SUBSET Rules /\ q.dry \in BOOLEAN
        BY <1>3, InvTyping DEF ImportCreate, TaskOK, FlowOK, Task
    <2>2. v \in Approval
        BY <2>1 DEF NewApproval, Approval, Kinds, States
    <2>3. approvals' \in {approvals, Append(approvals, v)} /\ audit' = audit /\ imports' = imports
        BY <1>3 DEF ImportCreate
    <2> HIDE DEF v
    <2> QED
        BY <2>2, <2>3, InvTyping, AppendApproval DEF KeptTables
<1>4. CASE ImportRecord(t)
    <2>1. imports \subseteq imports' /\ audit' = audit /\ approvals' = approvals
        BY <1>4 DEF ImportRecord, InsertOnce
    <2> QED
        BY <2>1, InvTyping DEF KeptTables
<1>5. CASE RecordEvaluation(t)
    <2> DEFINE q == task[t].req
               v == task[t].result
               row == [cmd |-> q.cmd, tool |-> q.tool, session |-> q.session,
                       beh |-> task[t].beh, ctx |-> task[t].ctx, outcome |-> v.outcome,
                       class |-> v.class, approval |-> v.approval,
                       executed |-> FALSE, imported |-> 0]
    <2>1. /\ task[t].beh \in Behaviours /\ task[t].ctx \in Contexts /\ q.cmd \in Commands
          /\ q.tool \in Tools \cup {None} /\ q.session \in Sessions \cup {None}
          /\ v \in EvaluationResult
        BY <1>5, InvTyping DEF RecordEvaluation, TaskOK, FlowOK, Task
    <2>2. row \in AuditEvent
        BY <2>1 DEF AuditEvent, EvaluationResult
    <2>3. audit' \in {audit, Append(audit, row)} /\ approvals' = approvals /\ imports' = imports
        BY <1>5 DEF RecordEvaluation
    <2> HIDE DEF row
    <2> QED
        BY <2>2, <2>3, InvTyping, AppendEvent DEF KeptTables
<1>6. CASE LinkImport(t)
    <2> DEFINE e == task[t].row
               v == [audit[e] EXCEPT !.imported = task[t].id]
    <2>1. e \in 1 .. Len(audit) /\ audit[e] \in AuditEvent /\ task[t].id \in Nat
        BY <1>6, InvTyping DEF LinkImport, TaskOK, FlowOK, RowOK, Task
    <2>2. /\ v \in AuditEvent
          /\ v.cmd = audit[e].cmd /\ v.tool = audit[e].tool /\ v.session = audit[e].session
          /\ v.beh = audit[e].beh /\ v.ctx = audit[e].ctx /\ v.outcome = audit[e].outcome
          /\ v.class = audit[e].class /\ v.approval = audit[e].approval
        BY <2>1 DEF AuditEvent
    <2>3. /\ audit' \in {audit, [audit EXCEPT ![e] = v]}
          /\ approvals' = approvals /\ imports' = imports
        BY <1>6 DEF LinkImport
    <2> HIDE DEF v, e
    <2>4. Logged(audit, [audit EXCEPT ![e] = v])
        <3>1. audit \in Seq(AuditEvent)
            BY InvTyping
        <3> QED
            BY <2>1, <2>2, <3>1, SeqUpdate DEF Logged
    <2> QED
        BY <2>3, <2>4, InvTyping DEF KeptTables
<1> QED
    BY <1>1, <1>2, <1>3, <1>4, <1>5, <1>6 DEF Step

(* No step deletes an approval, changes what it trusts or revives a        *)
(* revoked one, drops an import row, or alters the decision of an audit    *)
(* row (approvals.go SetState, imports.go InsertOnce, audit.go).           *)
THEOREM HistoryHolds == Spec => HistoryIsKept
<1>1. ASSUME Inv, Inv', [Next]_vars
      PROVE  [KeptByStep]_vars
    <2>1. CASE UNCHANGED vars
        BY <2>1
    <2>2. CASE Next
        <3>1. Environment => KeptTables
            BY <1>1, InvTyping
            DEF Environment, EditWorkspace, SwitchContext, ConfigChanged, Tick, Crash, store, KeptTables
        <3>2. KeptTables
            BY <1>1, <2>2, <3>1, KeepBegin, KeepStep DEF Next
        <3>3. /\ DOMAIN approvals = 1 .. Len(approvals) /\ DOMAIN audit = 1 .. Len(audit)
              /\ DOMAIN approvals' = 1 .. Len(approvals') /\ DOMAIN audit' = 1 .. Len(audit')
              /\ Len(approvals) \in Nat /\ Len(audit) \in Nat
              /\ Len(approvals') \in Nat /\ Len(audit') \in Nat
            BY <1>1 DEF Inv, TypeOK
        <3>4. KeptByStep
            BY <3>2, <3>3 DEF KeptTables, Grown, Logged, KeptByStep
        <3> QED
            BY <3>4
    <2> QED
        BY <1>1, <2>1, <2>2
<1> QED
    BY <1>1, InvAlways, PTL DEF Spec, HistoryIsKept
=============================================================================
