-------------------------------- MODULE Gate --------------------------------
(***************************************************************************)
(* The daemon's decision core: concurrent handlers over one result cache   *)
(* and one SQLite store.  Every IPC request is served by its own goroutine *)
(* (a "task"); a task's database statements, its cache accesses and its    *)
(* reply are separate steps, because nothing holds a lock across them.     *)
(*                                                                         *)
(* Data is abstracted to what decisions tell apart.  A command resolves,   *)
(* in the current workspace, to a behaviour; the safety floor judges a     *)
(* behaviour in a context (git branch, workspace root); an approval trusts *)
(* a behaviour, EXACTly or as a SEMANTIC envelope.                         *)
(***************************************************************************)
EXTENDS Integers, Sequences, FiniteSets

CONSTANTS
    Commands,     \* raw command lines
    Behaviours,   \* what a command can resolve to: effects plus fingerprints
    Contexts,     \* workspace contexts the safety floor depends on
    Sessions,     \* agent sessions (with their working directory)
    Tools,        \* tool_use_ids: one per tool invocation
    Rules,        \* the agent's own permission rules
    Tasks,        \* request goroutines
    None,         \* an absent tool_use_id, session, command, ...
    Floor,        \* [Behaviours -> [Contexts -> FloorOutcomes]]
    Grade,        \* [Behaviours -> Grades]
    Covers,       \* [Kinds -> [Behaviours -> SUBSET Behaviours]]: what an approval matches
    Related,      \* [Behaviours -> SUBSET Behaviours]: shared op or fingerprint key
    Requests,     \* the evaluate requests agents send
    Reports,      \* the execution reports agents send
    SetStates,    \* the states users set approvals to
    CreateKinds,  \* the kinds of approval users create
    TTL,          \* lifetime of a cache entry, in ticks
    MaxEvents,    \* bound: audit rows
    MaxApprovals, \* bound: approvals
    StoreFaults,  \* may a database statement fail?
    Crashes       \* may the daemon die and restart?

FloorOutcomes == {"PASS", "ASK_ALWAYS", "BLOCK"}

(* "uncertain": not fully modelled or an ambiguous target; "noop": nothing *)
(* at all; "readonly": reads inside the workspace only; "empty": modelled, *)
(* but without effects although not a no-op; "normal": everything else.    *)
Grades == {"uncertain", "noop", "readonly", "empty", "normal"}

Outcomes == {"ALLOW", "ASK", "BLOCK"}

Classes == {"NONE", "HARD_RULE", "POLICY_REQUIRES_CONFIRMATION", "UNCERTAIN",
            "POLICY_READONLY_WORKSPACE", "APPROVAL_MATCH", "RULE_IMPORT",
            "APPROVAL_MISMATCH", "NO_MATCHING_APPROVAL", "ENGINE_ERROR"}

States == {"ACTIVE", "DISABLED", "REVOKED"}

Kinds == {"EXACT", "SEMANTIC"}

ActionRequest ==
    [cmd: Commands, tool: Tools \cup {None}, session: Sessions \cup {None},
     consent: SUBSET Rules, dry: BOOLEAN]

ExecutionReport == [tool: Tools, consent: SUBSET Rules]

ASSUME ConstantsAssumption ==
    /\ None \notin Commands \cup Behaviours \cup Contexts \cup Sessions \cup Tools
    /\ Floor \in [Behaviours -> [Contexts -> FloorOutcomes]]
    /\ Grade \in [Behaviours -> Grades]
    /\ Covers \in [Kinds -> [Behaviours -> SUBSET Behaviours]]
    /\ Related \in [Behaviours -> SUBSET Behaviours]
    /\ Requests \subseteq ActionRequest
    /\ Reports \subseteq ExecutionReport
    /\ SetStates \subseteq States /\ CreateKinds \subseteq Kinds
    /\ TTL \in Nat /\ MaxEvents \in Nat /\ MaxApprovals \in Nat
    /\ StoreFaults \in BOOLEAN /\ Crashes \in BOOLEAN

(* An approval covers the behaviour it was built from.                     *)
ASSUME CoversAssumption == \A k \in Kinds, b \in Behaviours : b \in Covers[k][b]

(* A tool_use_id names one invocation of one command in one session.       *)
ASSUME ToolAssumption ==
    \A p, q \in Requests :
        p.tool # None /\ p.tool = q.tool => p.cmd = q.cmd /\ p.session = q.session

VARIABLES
    workspace,   \* what each command resolves to now
    context,     \* the context the floor would be judged in now
    projectRow,  \* is the project recorded (approvals reference it)?
    approvals,   \* the approvals table; the index is the id
    imports,     \* the agent_rule_imports table
    audit,       \* the audit_events table; the index is the id
    cache,       \* resultCache.entries
    task         \* the request goroutines

store == <<projectRow, approvals, imports, audit>>
vars == <<workspace, context, projectRow, approvals, imports, audit, cache, task>>

-----------------------------------------------------------------------------
(* Records *)

EvaluationResult ==
    [outcome: Outcomes, class: Classes, approval: Nat, event: Nat]

Answer(outcome, class, approval) ==
    [outcome |-> outcome, class |-> class, approval |-> approval, event |-> 0]

EngineError == Answer("ASK", "ENGINE_ERROR", 0)

Approval ==
    [kind: Kinds, beh: Behaviours, cmd: Commands, state: States, used: BOOLEAN,
     rules: SUBSET Rules, ctx: Contexts]

AuditEvent ==
    [cmd: Commands, tool: Tools \cup {None}, session: Sessions \cup {None},
     beh: Behaviours, ctx: Contexts, outcome: Outcomes, class: Classes,
     approval: Nat, executed: BOOLEAN, imported: Nat]

RuleImport == [rule: Rules, cmd: Commands, approval: Nat]

toolUseKey(q) == IF q.tool = None THEN {} ELSE {<<"tool", q.tool, q.tool>>}

sessionCommandKey(q) ==
    IF q.session = None THEN {} ELSE {<<"session", q.session, q.cmd>>}

cacheKeys(q) == toolUseKey(q) \cup sessionCommandKey(q)

(* As a bug: any of its keys would do.                                     *)
lookupAnyKey(q) == cacheKeys(q)

(* The one key a request may be answered from: its own tool call, or for a *)
(* request without one (PermissionRequest) its session and command.        *)
lookupKey(q) == IF q.tool # None THEN toolUseKey(q) ELSE sessionCommandKey(q)

CacheKeys ==
    {<<"tool", u, u>> : u \in Tools} \cup
    {<<"session", k[1], k[2]>> : k \in Sessions \X Commands}

CacheEntry == [result: EvaluationResult, left: -1 .. TTL]

(* A task: its program counter, the operation it serves, the request, what *)
(* resolution saw (beh, ctx), the approval and audit row in hand, the rule *)
(* keys still to record and the answer so far.  dead is a history field:   *)
(* the approvals whose revocation was acknowledged when the task began.    *)
Idle ==
    [pc |-> "idle", op |-> "none",
     req |-> [cmd |-> None, tool |-> None, session |-> None,
              consent |-> {}, dry |-> FALSE],
     beh |-> None, ctx |-> None, id |-> 0, row |-> 0, todo |-> {},
     result |-> Answer("ASK", "NONE", 0), dead |-> {}]

Task ==
    [pc: {"idle", "resolve", "match", "use", "import", "create", "record",
          "audit", "put", "reply", "link", "reset"},
     op: {"none", "evaluate", "cached", "report", "admin"},
     req: [cmd: Commands \cup {None}, tool: Tools \cup {None},
           session: Sessions \cup {None}, consent: SUBSET Rules, dry: BOOLEAN],
     beh: Behaviours \cup {None}, ctx: Contexts \cup {None}, id: Nat, row: Nat,
     todo: SUBSET Rules, result: EvaluationResult, dead: SUBSET Nat]

NoCache == [k \in {} |-> 0]

Init ==
    /\ workspace \in [Commands -> Behaviours]
    /\ context \in Contexts
    /\ projectRow = FALSE
    /\ approvals = <<>>
    /\ imports = {}
    /\ audit = <<>>
    /\ cache = NoCache
    /\ task = [t \in Tasks |-> Idle]

(* Task t moves on with the record r.                                      *)
Become(t, r) == [task EXCEPT ![t] = r]

-----------------------------------------------------------------------------
(* Pure parts of the pipeline *)

Approvable(b) == Grade[b] \in {"normal", "readonly"}

(* approval.Validate, against the floor of a given context.                *)
Validate(b, x) == Approvable(b) /\ Floor[b][x] = "PASS"

(* As a bug: only a BLOCK of the floor is final.                           *)
DecidedIfBlocked(b, x) == Floor[b][x] = "BLOCK" \/ Grade[b] \in {"uncertain", "readonly", "noop"}

(* Steps 1 to 4 of the engine: the answers that consult no approval.       *)
DecidedEarly(b, x) == Floor[b][x] # "PASS" \/ Grade[b] \in {"uncertain", "readonly", "noop"}

EarlyAnswer(b, x) ==
    CASE Floor[b][x] = "BLOCK"      -> Answer("BLOCK", "HARD_RULE", 0)
      [] Floor[b][x] = "ASK_ALWAYS" -> Answer("ASK", "POLICY_REQUIRES_CONFIRMATION", 0)
      [] Floor[b][x] = "PASS" /\ Grade[b] = "uncertain" -> Answer("ASK", "UNCERTAIN", 0)
      [] OTHER                      -> Answer("ALLOW", "POLICY_READONLY_WORKSPACE", 0)

(* Matches: an EXACT approval covers what equals its behaviour field by    *)
(* field, a SEMANTIC one what lies inside its envelope; only while ACTIVE. *)
CoveredBy(a, b) == b \in Covers[a.kind][a.beh]

(* As bugs: the envelope is compared the wrong way round; a revoked or a   *)
(* disabled record still matches.                                          *)
MatchesReversed(a, b) == a.state = "ACTIVE" /\ a.beh \in Covers[a.kind][b]

MatchesRevoked(a, b) == a.state # "DISABLED" /\ CoveredBy(a, b)

MatchesDisabled(a, b) == a.state # "REVOKED" /\ CoveredBy(a, b)

Matches(a, b) == a.state = "ACTIVE" /\ CoveredBy(a, b)

Matching(b) == {i \in DOMAIN approvals : Matches(approvals[i], b)}

(* Match order: EXACT before SEMANTIC, then ascending id.                  *)
Precedes(i, j) ==
    \/ approvals[i].kind = "EXACT" /\ approvals[j].kind # "EXACT"
    \/ approvals[i].kind = approvals[j].kind /\ i <= j

FirstMatch(i, b) == i \in Matching(b) /\ \A j \in Matching(b) : Precedes(i, j)

related(a, c, b) == a.cmd = c \/ b \in Related[a.beh]

(* Step 7: which ASK, when nothing covers the behaviour.                   *)
UnmatchedAnswer(c, b) ==
    Answer("ASK",
           IF \E i \in DOMAIN approvals : related(approvals[i], c, b)
             THEN "APPROVAL_MISMATCH" ELSE "NO_MATCHING_APPROVAL", 0)

AnyExists(rules, c) == \E m \in imports : m.cmd = c /\ m.rule \in rules

-----------------------------------------------------------------------------
(* Bounds: new work is accepted only while its rows still fit.             *)

Busy == {t \in Tasks : task[t].pc # "idle"}
EventRoom == Len(audit) + Cardinality(Busy) < MaxEvents
ApprovalRoom == Len(approvals) + Cardinality(Busy) < MaxApprovals

Revoked == {i \in DOMAIN approvals : approvals[i].state = "REVOKED"}

(* Approvals whose revocation has been acknowledged to the user.           *)
AckedRevoked == Revoked \ {task[u].id : u \in {v \in Tasks : task[v].pc = "reset"}}

-----------------------------------------------------------------------------
(* evaluate *)

(* As a bug: an entry never expires.                                       *)
present(k) == k \in DOMAIN cache

live(k) == k \in DOMAIN cache /\ cache[k].left >= 0

(* handleEvaluate, cache hit.                                              *)
AnswerFromCache(t, q) ==
    /\ task[t].pc = "idle"
    /\ ~q.dry
    /\ \E k \in lookupKey(q) :
        /\ live(k)
        /\ task' = Become(t, [Idle EXCEPT !.pc = "reply", !.op = "cached", !.req = q,
                                          !.result = cache[k].result, !.dead = AckedRevoked])
    /\ UNCHANGED <<workspace, context, store, cache>>

(* handleEvaluate, cache miss (an expired entry is dropped) or dry run.    *)
StartEvaluation(t, q) ==
    /\ task[t].pc = "idle"
    /\ EventRoom
    /\ q.consent # {} => ApprovalRoom
    /\ q.dry \/ \A k \in lookupKey(q) : ~live(k)
    /\ task' = Become(t, [Idle EXCEPT !.pc = "resolve", !.op = "evaluate", !.req = q,
                                      !.dead = AckedRevoked])
    /\ cache' = IF q.dry THEN cache
                ELSE [k \in DOMAIN cache \ lookupKey(q) |-> cache[k]]
    /\ UNCHANGED <<workspace, context, store>>

(* Resolve the command as the workspace is now, remember the project (not  *)
(* for a dry run; a failure is only logged), run the steps that need no    *)
(* approvals.                                                              *)
Resolve(t) ==
    LET b == workspace[task[t].req.cmd] IN
    /\ task[t].pc = "resolve"
    /\ \/ /\ DecidedEarly(b, context)
          /\ task' = Become(t, [task[t] EXCEPT !.pc = "audit", !.beh = b, !.ctx = context,
                                               !.result = EarlyAnswer(b, context)])
       \/ /\ ~DecidedEarly(b, context)
          /\ task' = Become(t, [task[t] EXCEPT !.pc = "match", !.beh = b, !.ctx = context])
    /\ \/ projectRow' = (projectRow \/ ~task[t].req.dry)
       \/ StoreFaults /\ projectRow' = projectRow
    /\ UNCHANGED <<workspace, context, approvals, imports, audit, cache>>

(* Matcher.Match: read every approval of the project, pick the first that  *)
(* covers the behaviour.  Without one, go on to the agent's consent.       *)
Match(t) ==
    /\ task[t].pc = "match"
    /\ LET b == task[t].beh
           q == task[t].req
       IN \/ \E i \in DOMAIN approvals :
                /\ FirstMatch(i, b)
                /\ task' = Become(t, [task[t] EXCEPT !.pc = "use", !.id = i])
          \/ /\ Matching(b) = {}
             /\ \E next \in {"import", "audit"} :
                    /\ next = "import" <=> q.consent # {}
                    /\ task' = Become(t, [task[t] EXCEPT !.pc = next,
                                                !.result = UnmatchedAnswer(q.cmd, b)])
          \/ /\ StoreFaults
             /\ task' = Become(t, [task[t] EXCEPT !.pc = "audit", !.result = EngineError])
    /\ UNCHANGED <<workspace, context, store, cache>>

(* Matcher.recordUse: the counter, then the `matched` event.  Either       *)
(* statement may fail, the second one after the counter moved.             *)
RecordUse(t) ==
    LET id == task[t].id
        used == [approvals EXCEPT ![id] = [@ EXCEPT !.used = TRUE]]
        failed == Become(t, [task[t] EXCEPT !.pc = "audit", !.id = 0, !.result = EngineError])
    IN
    /\ task[t].pc = "use"
    /\ \/ /\ approvals' = used
          /\ task' = Become(t, [task[t] EXCEPT !.pc = "audit", !.id = 0,
                                                    !.result = Answer("ALLOW", "APPROVAL_MATCH", id)])
       \/ /\ StoreFaults
          /\ approvals' \in {approvals, used}
          /\ task' = failed
    /\ UNCHANGED <<workspace, context, projectRow, imports, audit, cache>>

(* What follows an import attempt that produced nothing, an error, or an   *)
(* approval: an evaluation goes on to its audit row with the answer, a     *)
(* report is done or links the approval to its row.                        *)
AfterImport(t, evaluated) ==
    IF task[t].op = "evaluate"
      THEN Become(t, [task[t] EXCEPT !.pc = "audit", !.id = 0, !.todo = {}, !.result = evaluated])
      ELSE Become(t, Idle)

(* Importer.Import up to Validate: refused if any consenting rule was      *)
(* already imported for this command, or the action is not approvable.     *)
ImportCheck(t) ==
    /\ task[t].pc = "import"
    /\ LET q == task[t].req IN
       \/ /\ AnyExists(q.consent, q.cmd) \/ ~Validate(task[t].beh, task[t].ctx)
          /\ task' = AfterImport(t, task[t].result)
       \/ /\ ~AnyExists(q.consent, q.cmd)
          /\ Validate(task[t].beh, task[t].ctx)
          /\ task' = Become(t, [task[t] EXCEPT !.pc = "create"])
       \/ /\ StoreFaults
          /\ task' = AfterImport(t, EngineError)
    /\ UNCHANGED <<workspace, context, store, cache>>

NewApproval(kind, b, c, rules, x) ==
    [kind |-> kind, beh |-> b, cmd |-> c, state |-> "ACTIVE", used |-> FALSE,
     rules |-> rules, ctx |-> x]

(* Creator.Create: one transaction; the project row must exist.            *)
ImportCreate(t) ==
    LET q == task[t].req IN
    /\ task[t].pc = "create"
    /\ \/ /\ projectRow
          /\ approvals' = Append(approvals,
                NewApproval("EXACT", task[t].beh, q.cmd, q.consent, task[t].ctx))
          /\ task' = Become(t, [task[t] EXCEPT !.pc = "record", !.todo = q.consent,
                                                    !.id = Len(approvals) + 1])
       \/ /\ ~projectRow \/ StoreFaults
          /\ approvals' = approvals
          /\ task' = AfterImport(t, EngineError)
    /\ UNCHANGED <<workspace, context, projectRow, imports, audit, cache>>

(* As a bug: without the OR IGNORE.                                        *)
InsertAlways(rule, c, id) == imports \cup {[rule |-> rule, cmd |-> c, approval |-> id]}

(* Imports.InsertOnce for one consenting rule: INSERT OR IGNORE.           *)
InsertOnce(rule, c, id) ==
    IF AnyExists({rule}, c) THEN imports
    ELSE imports \cup {[rule |-> rule, cmd |-> c, approval |-> id]}

(* Record the consenting rules one row at a time; then the evaluation      *)
(* answers ALLOW, the report links the approval to its audit row.          *)
ImportRecord(t) ==
    LET q == task[t].req IN
    /\ task[t].pc = "record"
    /\ \/ \E rule \in task[t].todo :
            /\ imports' = InsertOnce(rule, q.cmd, task[t].id)
            /\ task' = IF task[t].todo # {rule}
                         THEN Become(t, [task[t] EXCEPT !.todo = @ \ {rule}])
                       ELSE IF task[t].op = "evaluate"
                         THEN AfterImport(t, Answer("ALLOW", "RULE_IMPORT", task[t].id))
                       ELSE Become(t, [task[t] EXCEPT !.pc = "link", !.todo = {}])
       \/ /\ StoreFaults
          /\ imports' = imports
          /\ task' = AfterImport(t, EngineError)
    /\ UNCHANGED <<workspace, context, projectRow, approvals, audit, cache>>

(* As a bug: the decision stands although its row could not be written.    *)
RecordIfPossible(t) ==
    LET q == task[t].req
        r == task[t].result
        row == [cmd |-> q.cmd, tool |-> q.tool, session |-> q.session,
                beh |-> task[t].beh, ctx |-> task[t].ctx, outcome |-> r.outcome,
                class |-> r.class, approval |-> r.approval,
                executed |-> FALSE, imported |-> 0]
    IN
    /\ task[t].pc = "audit"
    /\ \/ /\ ~q.dry
          /\ projectRow
          /\ audit' = Append(audit, row)
          /\ task' = Become(t, [task[t] EXCEPT !.pc = "put", !.result = [@ EXCEPT !.event = Len(audit) + 1]])
       \/ /\ q.dry \/ StoreFaults
          /\ audit' = audit
          /\ task' = Become(t, [task[t] EXCEPT !.pc = "put"])
    /\ UNCHANGED <<workspace, context, projectRow, approvals, imports, cache>>

(* Recorder.RecordEvaluation: exactly one row per evaluation, none for a   *)
(* dry run; a decision that cannot be recorded becomes ASK.  The row       *)
(* references the project, so without that row the insert fails.           *)
RecordEvaluation(t) ==
    LET q == task[t].req
        r == task[t].result
        row == [cmd |-> q.cmd, tool |-> q.tool, session |-> q.session,
                beh |-> task[t].beh, ctx |-> task[t].ctx, outcome |-> r.outcome,
                class |-> r.class, approval |-> r.approval,
                executed |-> FALSE, imported |-> 0]
    IN
    /\ task[t].pc = "audit"
    /\ \/ /\ ~q.dry
          /\ projectRow
          /\ audit' = Append(audit, row)
          /\ task' = Become(t, [task[t] EXCEPT !.pc = "put", !.result = [@ EXCEPT !.event = Len(audit) + 1]])
       \/ /\ q.dry
          /\ audit' = audit
          /\ task' = Become(t, [task[t] EXCEPT !.pc = "reply"])
       \/ /\ ~q.dry
          /\ ~projectRow \/ StoreFaults
          /\ audit' = audit
          /\ task' = Become(t, [task[t] EXCEPT !.pc = "put", !.result = EngineError])
    /\ UNCHANGED <<workspace, context, projectRow, approvals, imports, cache>>

(* As bugs: an entry lives one tick too long; put waits for the old entry  *)
(* to be evicted.                                                          *)
CachePutTooLong(t) ==
    /\ task[t].pc = "put"
    /\ cache' = [k \in cacheKeys(task[t].req) |-> [result |-> task[t].result, left |-> TTL + 1]]
    /\ task' = Become(t, [task[t] EXCEPT !.pc = "reply"])
    /\ UNCHANGED <<workspace, context, store>>

CachePutWaits(t) ==
    LET keys == cacheKeys(task[t].req) IN
    /\ task[t].pc = "put"
    /\ keys \cap DOMAIN cache = {}
    /\ cache' = [k \in DOMAIN cache \cup keys |->
                    IF k \in keys THEN [result |-> task[t].result, left |-> TTL]
                    ELSE cache[k]]
    /\ task' = Become(t, [task[t] EXCEPT !.pc = "reply"])
    /\ UNCHANGED <<workspace, context, store>>

(* resultCache.put: evict what expired, store under every key.             *)
CachePut(t) ==
    LET kept == {k \in DOMAIN cache : cache[k].left >= 0}
        keys == cacheKeys(task[t].req)
    IN
    /\ task[t].pc = "put"
    /\ cache' = [k \in kept \cup keys |->
                    IF k \in keys THEN [result |-> task[t].result, left |-> TTL]
                    ELSE cache[k]]
    /\ task' = Become(t, [task[t] EXCEPT !.pc = "reply"])
    /\ UNCHANGED <<workspace, context, store>>

(* The answer leaves the daemon.                                           *)
Reply(t) ==
    /\ task[t].pc = "reply"
    /\ task' = Become(t, Idle)
    /\ UNCHANGED <<workspace, context, store, cache>>

-----------------------------------------------------------------------------
(* report_execution, set_approval_state, create_approval,                  *)
(* agent_config_changed                                                    *)

(* FindByToolUseID orders rows by the hook's clock, then by id.  Repeated  *)
(* evaluations of a tool call and the hook's retry (same timestamp) appear *)
(* in id order, so the newest row is the one with the highest id.          *)
RowsOf(u) == {e \in DOMAIN audit : audit[e].tool = u}
NewestRow(e, u) == e \in RowsOf(u) /\ \A f \in RowsOf(u) : f <= e

(* As a bug: the consent is applied to what the command resolves to now.   *)
ReportReResolved(t, p) ==
    /\ task[t].pc = "idle"
    /\ p.consent # {} => ApprovalRoom
    /\ \E e \in DOMAIN audit :
        /\ NewestRow(e, p.tool)
        /\ audit[e].outcome = "ASK" /\ audit[e].class = "NO_MATCHING_APPROVAL"
        /\ audit' = [audit EXCEPT ![e] = [@ EXCEPT !.executed = TRUE]]
        /\ task' = Become(t, [Idle EXCEPT
                !.pc = "import", !.op = "report", !.row = e,
                !.beh = workspace[audit[e].cmd], !.ctx = context,
                !.req = [cmd |-> audit[e].cmd, tool |-> p.tool, session |-> audit[e].session,
                         consent |-> p.consent, dry |-> FALSE]])
    /\ UNCHANGED <<workspace, context, projectRow, approvals, imports, cache>>

(* handleReportExecution: stamp the newest row of the tool call; consent   *)
(* is honoured only for a row that was deferred without any approval, and  *)
(* is validated in the context of now.                                     *)
ReportExecution(t, p) ==
    /\ task[t].pc = "idle"
    /\ p.consent # {} => ApprovalRoom
    /\ \E e \in DOMAIN audit :
        LET deferred == audit[e].outcome = "ASK" /\ audit[e].class = "NO_MATCHING_APPROVAL"
        IN  /\ NewestRow(e, p.tool)
            /\ audit' = [audit EXCEPT ![e] = [@ EXCEPT !.executed = TRUE]]
            /\ task' = IF p.consent # {} /\ deferred
                  THEN Become(t, [Idle EXCEPT
                          !.pc = "import", !.op = "report", !.row = e,
                          !.beh = audit[e].beh, !.ctx = context,
                          !.req = [cmd |-> audit[e].cmd, tool |-> p.tool,
                                   session |-> audit[e].session,
                                   consent |-> p.consent, dry |-> FALSE]])
                  ELSE task
    /\ UNCHANGED <<workspace, context, projectRow, approvals, imports, cache>>

(* Recorder.RecordImportedApproval; only its success resets the cache.     *)
LinkImport(t) ==
    /\ task[t].pc = "link"
    /\ \/ /\ audit' = [audit EXCEPT ![task[t].row] = [@ EXCEPT !.imported = task[t].id]]
          /\ task' = Become(t, [task[t] EXCEPT !.pc = "reset"])
       \/ /\ StoreFaults
          /\ audit' = audit
          /\ task' = Become(t, Idle)
    /\ UNCHANGED <<workspace, context, projectRow, approvals, imports, cache>>

(* As a bug: a revoked record may change again.                            *)
SetStateUnguarded(t, id, s) ==
    /\ task[t].pc = "idle"
    /\ approvals' = [approvals EXCEPT ![id] = [@ EXCEPT !.state = s]]
    /\ task' = Become(t, [Idle EXCEPT !.pc = "reset", !.op = "admin", !.id = id])
    /\ UNCHANGED <<workspace, context, projectRow, imports, audit, cache>>

(* handleSetApprovalState: one transaction, refused for a revoked record.  *)
SetState(t, id, s) ==
    /\ task[t].pc = "idle"
    /\ approvals[id].state # "REVOKED"
    /\ approvals' = [approvals EXCEPT ![id] = [@ EXCEPT !.state = s]]
    /\ task' = Become(t, [Idle EXCEPT !.pc = "reset", !.op = "admin", !.id = id])
    /\ UNCHANGED <<workspace, context, projectRow, imports, audit, cache>>

(* As a bug: validated against the context of the evaluation.              *)
CreateFromOldContext(t, e, kind) ==
    /\ task[t].pc = "idle"
    /\ ApprovalRoom
    /\ projectRow
    /\ Validate(audit[e].beh, audit[e].ctx)
    /\ approvals' = Append(approvals,
            NewApproval(kind, audit[e].beh, audit[e].cmd, {}, context))
    /\ task' = Become(t, [Idle EXCEPT !.pc = "reset", !.op = "admin",
                                      !.id = Len(approvals) + 1])
    /\ UNCHANGED <<workspace, context, projectRow, imports, audit, cache>>

(* handleCreateApproval: trust what an event showed, after checking it     *)
(* against the floor of the current context.                               *)
CreateApproval(t, e, kind) ==
    /\ task[t].pc = "idle"
    /\ ApprovalRoom
    /\ projectRow
    /\ Validate(audit[e].beh, context)
    /\ approvals' = Append(approvals,
            NewApproval(kind, audit[e].beh, audit[e].cmd, {}, context))
    /\ task' = Become(t, [Idle EXCEPT !.pc = "reset", !.op = "admin",
                                      !.id = Len(approvals) + 1])
    /\ UNCHANGED <<workspace, context, projectRow, imports, audit, cache>>

(* resultCache.reset, the last thing a handler that changed trust does.    *)
ResetCache(t) ==
    /\ task[t].pc = "reset"
    /\ cache' = NoCache
    /\ task' = Become(t, Idle)
    /\ UNCHANGED <<workspace, context, store>>

(* handleAgentConfigChanged.                                               *)
ConfigChanged ==
    /\ cache' = NoCache
    /\ UNCHANGED <<workspace, context, store, task>>

-----------------------------------------------------------------------------
(* The environment *)

(* A script, manifest or file behind a command is rewritten.               *)
EditWorkspace(c, b) ==
    /\ workspace' = [workspace EXCEPT ![c] = b]
    /\ UNCHANGED <<context, store, cache, task>>

SwitchContext(x) ==
    /\ context' = x
    /\ UNCHANGED <<workspace, store, cache, task>>

(* Time passes; an entry whose left is -1 has expired.                     *)
Tick ==
    /\ \E k \in DOMAIN cache : live(k)
    /\ cache' = [k \in DOMAIN cache |->
                    [cache[k] EXCEPT !.left = IF @ >= 0 THEN @ - 1 ELSE @]]
    /\ UNCHANGED <<workspace, context, store, task>>

(* The daemon dies and is started again: only the database survives.       *)
Crash ==
    /\ Crashes
    /\ cache' = NoCache
    /\ task' = [t \in Tasks |-> Idle]
    /\ UNCHANGED <<workspace, context, store>>

-----------------------------------------------------------------------------
(* The steps of a task that has begun.                                     *)
Step(t) ==
    \/ Resolve(t) \/ Match(t) \/ RecordUse(t)
    \/ ImportCheck(t) \/ ImportCreate(t) \/ ImportRecord(t)
    \/ RecordEvaluation(t) \/ CachePut(t) \/ Reply(t)
    \/ LinkImport(t) \/ ResetCache(t)

Begin(t) ==
    \/ \E q \in Requests : AnswerFromCache(t, q) \/ StartEvaluation(t, q)
    \/ \E p \in Reports : ReportExecution(t, p)
    \/ \E id \in DOMAIN approvals, s \in SetStates : SetState(t, id, s)
    \/ \E e \in DOMAIN audit, kind \in CreateKinds : CreateApproval(t, e, kind)

Environment ==
    \/ \E c \in Commands, b \in Behaviours : EditWorkspace(c, b)
    \/ \E x \in Contexts : SwitchContext(x)
    \/ ConfigChanged \/ Tick \/ Crash

Next == (\E t \in Tasks : Begin(t) \/ Step(t)) \/ Environment

(* A goroutine that has begun keeps running, and the clock keeps going.    *)
Fairness == (\A t \in Tasks : WF_vars(Step(t))) /\ WF_vars(Tick)

Spec == Init /\ [][Next]_vars

FairSpec == Spec /\ Fairness

-----------------------------------------------------------------------------
(* Properties *)

TypeOK ==
    /\ workspace \in [Commands -> Behaviours]
    /\ context \in Contexts
    /\ projectRow \in BOOLEAN
    /\ approvals \in Seq(Approval)
    /\ imports \subseteq RuleImport
    /\ audit \in Seq(AuditEvent)
    /\ DOMAIN cache \subseteq CacheKeys
    /\ \A k \in DOMAIN cache : cache[k] \in CacheEntry
    /\ task \in [Tasks -> Task]

Recorded(r) ==
    /\ r.event \in DOMAIN audit
    /\ audit[r.event].outcome = r.outcome
    /\ audit[r.event].class = r.class
    /\ audit[r.event].approval = r.approval

(* Every answer given to an agent, freshly decided or cached, is the one   *)
(* its audit row records; an answer that could not be recorded is ASK with *)
(* ENGINE_ERROR.  Rows survive a crash, so an ALLOW is always traceable    *)
(* (handlers_evaluate.go evaluate, audit.go RecordEvaluation).             *)
RecordedBeforeAnswered ==
    /\ \A t \in Tasks :
        task[t].pc = "reply" /\ ~task[t].req.dry =>
            Recorded(task[t].result) \/ task[t].result = EngineError
    /\ \A k \in DOMAIN cache :
        Recorded(cache[k].result) \/ cache[k].result = EngineError

(* An answer belongs to the request: a tool call is answered from its own  *)
(* evaluation (re-running a command resolves again), a PermissionRequest   *)
(* from one of its own session and command (resultCache.get, put).         *)
AnswerBelongs ==
    \A t \in Tasks :
        task[t].pc = "reply" /\ task[t].result.event # 0 =>
            LET row == audit[task[t].result.event]
                q == task[t].req
            IN /\ row.cmd = q.cmd
               /\ row.session = q.session
               /\ q.tool # None => row.tool = q.tool

(* No approval, import or baseline turns into ALLOW what the safety floor  *)
(* stopped, in the context it was evaluated in, or what could not be fully *)
(* modelled: the order of engine.go EvaluateDetailed (I-2, I-4).           *)
FloorIsFinal ==
    \A e \in DOMAIN audit :
        audit[e].outcome = "ALLOW" =>
            /\ Floor[audit[e].beh][audit[e].ctx] = "PASS"
            /\ Grade[audit[e].beh] # "uncertain"

(* An ALLOW that names an approval is covered by that approval: what it    *)
(* trusts includes the behaviour that was evaluated, and the use was       *)
(* counted (match.go Match, recordUse, import.go Import; I-1, I-5).        *)
AllowIsCovered ==
    \A e \in DOMAIN audit :
        audit[e].outcome = "ALLOW" /\ audit[e].class # "POLICY_READONLY_WORKSPACE" =>
            /\ audit[e].approval \in DOMAIN approvals
            /\ CoveredBy(approvals[audit[e].approval], audit[e].beh)
            /\ audit[e].class = "APPROVAL_MATCH" => approvals[audit[e].approval].used

(* Nothing is trusted that was not approvable when it was trusted: fully   *)
(* modelled, with effects, and passed by the floor of the context of that  *)
(* moment, not of the earlier evaluation (create.go Validate; I-11).       *)
TrustWasApprovable ==
    \A i \in DOMAIN approvals : Validate(approvals[i].beh, approvals[i].ctx)

(* A fresh evaluation never allows on an approval whose revocation was     *)
(* acknowledged before the request arrived (match.go Matches).             *)
RevokedNeverMatched ==
    \A t \in Tasks :
        task[t].op = "evaluate" =>
            /\ task[t].result.approval \notin task[t].dead
            /\ task[t].pc = "use" => task[t].id \notin task[t].dead

(* No answer at all, cached ones included, allows on an approval whose     *)
(* revocation was acknowledged before the request arrived: a cache that    *)
(* predates the change must not answer (handlers_evaluate.go reset).       *)
RevokedNeverAnswered ==
    \A t \in Tasks :
        task[t].pc = "reply" => task[t].result.approval \notin task[t].dead

(* Every import row names the approval that was made from its rule and     *)
(* command, and a rule has one row per command (imports.go InsertOnce).    *)
ImportRowsNameTheirTrust ==
    \A m \in imports :
        /\ m.approval \in DOMAIN approvals
        /\ m.rule \in approvals[m.approval].rules
        /\ m.cmd = approvals[m.approval].cmd
        /\ \A n \in imports : n.rule = m.rule /\ n.cmd = m.cmd => n = m

(* Consent that arrives with an execution report becomes trust in exactly  *)
(* the behaviour the deferred evaluation saw, however the workspace has    *)
(* changed since (handlers_reports.go importConsent; I-16).                *)
ReportedConsentTrustsWhatRan ==
    \A e \in DOMAIN audit :
        audit[e].imported # 0 =>
            /\ audit[e].imported \in DOMAIN approvals
            /\ approvals[audit[e].imported].beh = audit[e].beh
            /\ audit[e].class = "NO_MATCHING_APPROVAL"

KeptByStep ==
    /\ \A i \in DOMAIN approvals :
        /\ i \in DOMAIN approvals'
        /\ approvals'[i].beh = approvals[i].beh
        /\ approvals'[i].kind = approvals[i].kind
        /\ approvals[i].state = "REVOKED" => approvals'[i].state = "REVOKED"
    /\ imports \subseteq imports'
    /\ \A e \in DOMAIN audit :
        /\ e \in DOMAIN audit'
        /\ audit'[e].outcome = audit[e].outcome
        /\ audit'[e].approval = audit[e].approval

(* What a step may never do: delete an approval or change what it trusts,  *)
(* bring a revoked one back, drop or redirect an import row, or change the *)
(* decision of an audit row (approvals.go SetState, audit.go; I-15, I-17). *)
HistoryIsKept == [][KeptByStep]_vars

(* How the tables and the goroutines stand for Trust: the approvals are    *)
(* the trust, whether used or not; a goroutine that has matched or         *)
(* imported, and has neither recorded nor lost its decision, holds an      *)
(* allowance; the audit rows are the log.                                  *)
DecidedBy(r) ==
    CASE r.op = "evaluate" /\ r.pc \in {"use", "record"} -> r.id
      [] r.op = "evaluate" /\ r.pc = "audit"             -> r.result.approval
      [] OTHER                                           -> 0

Allowance(act, i) == IF i = 0 THEN None ELSE [act |-> act, by |-> i]

Trusted(a) == [i \in DOMAIN a |-> [a[i] EXCEPT !.used = FALSE]]

Held(f) == [t \in Tasks |-> Allowance(f[t].beh, DecidedBy(f[t]))]

Decisions(d) == [e \in DOMAIN d |-> Allowance(d[e].beh, d[e].approval)]

Ledger == INSTANCE Trust WITH
    Askers <- Tasks, Acts <- Behaviours, Covers <- CoveredBy, Nothing <- None,
    trust <- Trusted(approvals), allowed <- Held(task), log <- Decisions(audit)

(* Decisions take effect at one moment: every recorded ALLOW by an         *)
(* approval was given, at a single step of its evaluation, by an approval  *)
(* that was then active and covers it, whatever is disabled, revoked or    *)
(* lost between that step and the audit row; and revocation is for good.   *)
(* (match.go Match, import.go Import: the detailed specification           *)
(* implements Trust.)                                                      *)
TrustIsKept == Ledger!Spec

(* Every request is eventually answered (or dies with the daemon).         *)
Answered == \A t \in Tasks : task[t].pc # "idle" ~> task[t].pc = "idle"

(* Even if a racing evaluation leaves the ALLOW of a revoked approval in   *)
(* the cache, it is eventually no longer answered: entries expire and only *)
(* evaluations that were already running can put one (resultCache.get).    *)
RevokedTrustRunsOut ==
    \A i \in 1 .. MaxApprovals :
        [](i \in Revoked =>
            <>[](\A t \in Tasks : task[t].pc = "reply" => task[t].result.approval # i))
=============================================================================
