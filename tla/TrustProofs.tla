---------------------------- MODULE TrustProofs ----------------------------
(***************************************************************************)
(* Gate implements Trust, for every value of the constants.                *)
(***************************************************************************)
EXTENDS GateProofs

-----------------------------------------------------------------------------
(* The steps of Trust, in terms of the tables and the goroutines *)

LEMMA Stutters ==
    ASSUME Trusted(approvals') = Trusted(approvals), Held(task') = Held(task),
           Decisions(audit') = Decisions(audit)
    PROVE  UNCHANGED Ledger!vars
BY DEF Ledger!vars

LEMMA Voids ==
    ASSUME Trusted(approvals') = Trusted(approvals), Decisions(audit') = Decisions(audit),
           NEW t \in Tasks, Held(task') = [Held(task) EXCEPT ![t] = None]
    PROVE  Ledger!Next
BY DEF Ledger!Next, Ledger!Void

LEMMA Allows ==
    ASSUME Trusted(approvals') = Trusted(approvals), Decisions(audit') = Decisions(audit),
           NEW t \in Tasks, Held(task)[t] = None,
           NEW i \in DOMAIN Trusted(approvals), NEW b \in Behaviours,
           Trusted(approvals)[i].state = "ACTIVE", CoveredBy(Trusted(approvals)[i], b),
           Held(task') = [Held(task) EXCEPT ![t] = [act |-> b, by |-> i]]
    PROVE  Ledger!Next
BY DEF Ledger!Next, Ledger!Allow, Ledger!Allowance

LEMMA VoidsAll ==
    ASSUME Trusted(approvals') = Trusted(approvals), Decisions(audit') = Decisions(audit),
           Held(task') = [t \in Tasks |-> None]
    PROVE  Ledger!Next
BY DEF Ledger!Next, Ledger!VoidAll

LEMMA Grants ==
    ASSUME Held(task') = Held(task), Decisions(audit') = Decisions(audit),
           Len(Trusted(approvals')) = Len(Trusted(approvals)) + 1,
           SubSeq(Trusted(approvals'), 1, Len(Trusted(approvals))) = Trusted(approvals),
           Trusted(approvals')[Len(Trusted(approvals'))].state = "ACTIVE"
    PROVE  Ledger!Next
BY DEF Ledger!Next, Ledger!Grant

LEMMA Imports ==
    ASSUME Decisions(audit') = Decisions(audit),
           Len(Trusted(approvals')) = Len(Trusted(approvals)) + 1,
           SubSeq(Trusted(approvals'), 1, Len(Trusted(approvals))) = Trusted(approvals),
           Trusted(approvals')[Len(Trusted(approvals'))].state = "ACTIVE",
           NEW t \in Tasks, Held(task)[t] = None, NEW b \in Behaviours,
           CoveredBy(Trusted(approvals')[Len(Trusted(approvals'))], b),
           Held(task') = [Held(task) EXCEPT ![t] = [act |-> b, by |-> Len(Trusted(approvals'))]]
    PROVE  Ledger!Next
BY DEF Ledger!Next, Ledger!Import, Ledger!Grant, Ledger!Allowance

LEMMA Changes ==
    ASSUME Held(task') = Held(task), Decisions(audit') = Decisions(audit),
           NEW i \in DOMAIN Trusted(approvals), NEW s \in States,
           Trusted(approvals)[i].state # "REVOKED",
           Trusted(approvals') = [Trusted(approvals) EXCEPT
                                      ![i] = [Trusted(approvals)[i] EXCEPT !.state = s]]
    PROVE  Ledger!Next
BY DEF Ledger!Next, Ledger!Change, Ledger!States, States

(* A decision that rests on an approval is a Record, any other one a       *)
(* RecordOther.                                                            *)
LEMMA Records ==
    ASSUME Trusted(approvals') = Trusted(approvals), NEW t \in Tasks,
           Held(task') = [Held(task) EXCEPT ![t] = None],
           Decisions(audit') = Append(Decisions(audit), Held(task)[t])
    PROVE  Ledger!Next
<1>1. CASE Held(task)[t] # None
    BY <1>1 DEF Ledger!Next, Ledger!Record
<1>2. CASE Held(task)[t] = None
    <2>1. Held(task') = Held(task)
        BY <1>2 DEF Held
    <2> QED
        BY <1>2, <2>1 DEF Ledger!Next, Ledger!RecordOther
<1> QED
    BY <1>1, <1>2

-----------------------------------------------------------------------------
(* How the mapping moves with the tables and the goroutines *)

LEMMA HeldUpdate ==
    ASSUME NEW f \in [Tasks -> Task], NEW t \in Tasks, NEW r
    PROVE  /\ Held([f EXCEPT ![t] = r])
                = [Held(f) EXCEPT ![t] = Allowance(r.beh, DecidedBy(r))]
           /\ Allowance(r.beh, DecidedBy(r)) = Allowance(f[t].beh, DecidedBy(f[t])) =>
                Held([f EXCEPT ![t] = r]) = Held(f)
           /\ Held(f)[t] = Allowance(f[t].beh, DecidedBy(f[t]))
BY DEF Held

(* What a goroutine holds after a step of its own.                         *)
LEMMA HeldStep ==
    ASSUME Inv, NEW t \in Tasks, NEW r, task' = Become(t, r),
           NEW x, x = Allowance(r.beh, DecidedBy(r))
    PROVE  /\ Held(task') = [Held(task) EXCEPT ![t] = x]
           /\ x = Allowance(task[t].beh, DecidedBy(task[t])) => Held(task') = Held(task)
<1>1. task \in [Tasks -> Task]
    BY InvTyping
<1>2. task'[t] = r /\ \A u \in Tasks : u # t => task'[u] = task[u]
    BY <1>1 DEF Become
<1> QED
    BY <1>2 DEF Held

LEMMA TrustedIs ==
    ASSUME NEW a \in Seq(Approval)
    PROVE  /\ DOMAIN Trusted(a) = 1 .. Len(a) /\ Len(Trusted(a)) = Len(a)
           /\ Trusted(a) \in Seq(Approval)
           /\ \A i \in 1 .. Len(a) :
                /\ Trusted(a)[i] = [a[i] EXCEPT !.used = FALSE]
                /\ Trusted(a)[i].state = a[i].state
                /\ Trusted(a)[i].kind = a[i].kind /\ Trusted(a)[i].beh = a[i].beh
<1>1. DOMAIN a = 1 .. Len(a) /\ Len(a) \in Nat /\ \A i \in 1 .. Len(a) : a[i] \in Approval
    OBVIOUS
<1>2. \A v \in Approval :
        /\ [v EXCEPT !.used = FALSE] \in Approval
        /\ [v EXCEPT !.used = FALSE].state = v.state
        /\ [v EXCEPT !.used = FALSE].kind = v.kind /\ [v EXCEPT !.used = FALSE].beh = v.beh
    BY DEF Approval
<1>3. /\ DOMAIN Trusted(a) = 1 .. Len(a)
      /\ \A i \in 1 .. Len(a) : Trusted(a)[i] = [a[i] EXCEPT !.used = FALSE]
    BY <1>1 DEF Trusted
<1>4. Trusted(a) = [i \in 1 .. Len(a) |-> Trusted(a)[i]]
    BY <1>1 DEF Trusted
<1>5. \A i \in 1 .. Len(a) :
        /\ Trusted(a)[i] \in Approval /\ Trusted(a)[i].state = a[i].state
        /\ Trusted(a)[i].kind = a[i].kind /\ Trusted(a)[i].beh = a[i].beh
    BY <1>1, <1>2, <1>3
<1>6. Trusted(a) \in Seq(Approval) /\ Len(Trusted(a)) = Len(a)
    BY <1>1, <1>4, <1>5
<1> QED
    BY <1>3, <1>5, <1>6

LEMMA TrustedUse ==
    ASSUME NEW a \in Seq(Approval), NEW i \in 1 .. Len(a)
    PROVE  Trusted([a EXCEPT ![i] = [a[i] EXCEPT !.used = TRUE]]) = Trusted(a)
<1>1. [[a[i] EXCEPT !.used = TRUE] EXCEPT !.used = FALSE] = [a[i] EXCEPT !.used = FALSE]
    BY DEF Approval
<1> QED
    BY <1>1 DEF Trusted

LEMMA TrustedAppend ==
    ASSUME NEW a \in Seq(Approval), NEW v \in Approval, v.state = "ACTIVE"
    PROVE  LET b == Trusted(Append(a, v))
           IN  /\ Len(b) = Len(a) + 1 /\ Len(b) = Len(Trusted(a)) + 1
               /\ SubSeq(b, 1, Len(Trusted(a))) = Trusted(a)
               /\ b[Len(b)].state = "ACTIVE"
               /\ b[Len(b)].kind = v.kind /\ b[Len(b)].beh = v.beh
<1> DEFINE w == Append(a, v)
           b == Trusted(w)
<1>1. w \in Seq(Approval) /\ Len(w) = Len(a) + 1 /\ w[Len(a) + 1] = v
      /\ \A i \in 1 .. Len(a) : w[i] = a[i]
    BY AppendApproval
<1> HIDE DEF w
<1>2. /\ b \in Seq(Approval) /\ Len(b) = Len(w)
      /\ \A i \in 1 .. Len(w) :
           /\ b[i] = [w[i] EXCEPT !.used = FALSE]
           /\ b[i].state = w[i].state /\ b[i].kind = w[i].kind /\ b[i].beh = w[i].beh
    BY <1>1, TrustedIs
<1>3. \A i \in 1 .. Len(a) : Trusted(a)[i] = [a[i] EXCEPT !.used = FALSE]
    BY TrustedIs
<1>4. Trusted(a) \in Seq(Approval) /\ Len(Trusted(a)) = Len(a)
    BY TrustedIs
<1> HIDE DEF b
<1>5. Len(a) \in Nat /\ Len(w) \in 1 .. Len(w) /\ w[Len(w)] = v
    BY <1>1
<1>6. \A i \in 1 .. Len(a) : b[i] = Trusted(a)[i]
    BY <1>1, <1>2, <1>3, <1>5
<1>7. SubSeq(b, 1, Len(a)) = Trusted(a)
    BY <1>1, <1>2, <1>4, <1>5, <1>6
<1>8. b[Len(b)].state = "ACTIVE" /\ b[Len(b)].kind = v.kind /\ b[Len(b)].beh = v.beh
    BY <1>2, <1>5
<1> QED
    BY <1>1, <1>2, <1>4, <1>7, <1>8 DEF b, w

LEMMA DecisionsAppend ==
    ASSUME NEW d \in Seq(AuditEvent), NEW v \in AuditEvent
    PROVE  Decisions(Append(d, v)) = Append(Decisions(d), Allowance(v.beh, v.approval))
BY DEF Decisions

(* What a report adds to a row is no part of the decision.                 *)
LEMMA DecisionsUpdate ==
    ASSUME NEW d \in Seq(AuditEvent), NEW e \in 1 .. Len(d), NEW v \in AuditEvent,
           v.beh = d[e].beh, v.approval = d[e].approval
    PROVE  Decisions([d EXCEPT ![e] = v]) = Decisions(d)
BY DEF Decisions

-----------------------------------------------------------------------------
(* One lemma for the actions of each kind *)

Maps == Ledger!Next \/ UNCHANGED Ledger!vars

(* A goroutine that holds no allowance afterwards, and has written nothing *)
(* Trust knows of, has at most lost one.                                   *)
LEMMA EmptyHanded ==
    ASSUME Inv, NEW t \in Tasks, NEW r, task' = Become(t, r), DecidedBy(r) = 0,
           Trusted(approvals') = Trusted(approvals), Decisions(audit') = Decisions(audit)
    PROVE  Maps
<1>1. Held(task') = [Held(task) EXCEPT ![t] = None]
    BY InvTyping, HeldUpdate DEF Become, Allowance
<1> QED
    BY <1>1, Voids DEF Maps

(* A goroutine that keeps its allowance.                                   *)
LEMMA HandsKept ==
    ASSUME Inv, NEW t \in Tasks, NEW r, task' = Become(t, r),
           r.beh = task[t].beh, DecidedBy(r) = DecidedBy(task[t]),
           Trusted(approvals') = Trusted(approvals), Decisions(audit') = Decisions(audit)
    PROVE  Maps
<1>1. Held(task') = Held(task)
    BY ZenonT(60), InvTyping, HeldUpdate DEF Become
<1> QED
    BY <1>1, Stutters DEF Maps

(* Outside these steps of an evaluation nothing is decided.                *)
LEMMA Undecided ==
    ASSUME NEW r, \/ r.op # "evaluate"
                  \/ r.pc \notin {"use", "record", "audit"}
                  \/ r.pc = "audit" /\ r.result.approval = 0
    PROVE  DecidedBy(r) = 0
BY DEF DecidedBy

LEMMA IdleUndecided == DecidedBy(Idle) = 0
BY Undecided DEF Idle

LEMMA MapsBegin ==
    ASSUME Inv, NEW t \in Tasks, NEW q \in Requests, AnswerFromCache(t, q) \/ StartEvaluation(t, q)
    PROVE  Maps
<1>1. approvals' = approvals /\ audit' = audit
    BY DEF AnswerFromCache, StartEvaluation, store
<1>2. CASE AnswerFromCache(t, q)
    <2>1. PICK k : task' = Become(t, [Idle EXCEPT !.pc = "reply", !.op = "cached", !.req = q,
                                !.result = cache[k].result, !.dead = AckedRevoked])
        BY <1>2 DEF AnswerFromCache
    <2> DEFINE r == [Idle EXCEPT !.pc = "reply", !.op = "cached", !.req = q,
                                !.result = cache[k].result, !.dead = AckedRevoked]
    <2>2. r.op = "cached"
        BY DEF Idle
    <2> HIDE DEF r
    <2>3. DecidedBy(r) = 0
        BY <2>2, Undecided
    <2> QED
        BY <1>1, <2>1, <2>3, EmptyHanded DEF r
<1>3. CASE StartEvaluation(t, q)
    <2> DEFINE r == [Idle EXCEPT !.pc = "resolve", !.op = "evaluate", !.req = q,
                                 !.dead = AckedRevoked]
    <2>1. r.pc = "resolve" /\ task' = Become(t, r)
        BY <1>3 DEF StartEvaluation, Idle
    <2> HIDE DEF r
    <2>2. DecidedBy(r) = 0
        BY <2>1, Undecided
    <2> QED
        BY <1>1, <2>1, <2>2, EmptyHanded
<1> QED
    BY <1>2, <1>3

LEMMA MapsResolve ==
    ASSUME Inv, NEW t \in Tasks, Resolve(t)
    PROVE  Maps
<1> DEFINE b == workspace[task[t].req.cmd]
           early == [task[t] EXCEPT !.pc = "audit", !.beh = b, !.ctx = context,
                                    !.result = EarlyAnswer(b, context)]
           later == [task[t] EXCEPT !.pc = "match", !.beh = b, !.ctx = context]
<1>1. /\ approvals' = approvals /\ audit' = audit
      /\ task' = Become(t, early) \/ task' = Become(t, later)
    BY DEF Resolve
<1>2. EarlyAnswer(b, context).approval = 0
    BY DEF EarlyAnswer, Answer
<1>3. early.pc = "audit" /\ early.result.approval = 0 /\ later.pc = "match"
    BY <1>2, InvTyping DEF Task
<1> HIDE DEF early, later
<1>4. DecidedBy(early) = 0 /\ DecidedBy(later) = 0
    BY <1>3, Undecided
<1> QED
    BY <1>1, <1>4, EmptyHanded

LEMMA MapsMatch ==
    ASSUME Inv, NEW t \in Tasks, Match(t)
    PROVE  Maps
<1> DEFINE b == task[t].beh
<1>1. /\ approvals' = approvals /\ audit' = audit
      /\ task[t] \in Task /\ b \in Behaviours
      /\ task[t].pc = "match" /\ task[t].op = "evaluate"
    BY InvTyping DEF Match, store, TaskOK, FlowOK
<1>2. ASSUME NEW i \in DOMAIN approvals, FirstMatch(i, b),
             task' = Become(t, [task[t] EXCEPT !.pc = "use", !.id = i])
      PROVE  Maps
    <2> DEFINE r == [task[t] EXCEPT !.pc = "use", !.id = i]
    <2>1. r.pc = "use" /\ r.id = i /\ r.op = "evaluate" /\ r.beh = b
        BY <1>1 DEF Task
    <2>2. /\ i \in 1 .. Len(approvals) /\ i # 0
          /\ approvals[i].state = "ACTIVE" /\ CoveredBy(approvals[i], b)
        BY <1>2, InvTyping DEF FirstMatch, Matching, Matches
    <2>3. /\ i \in DOMAIN Trusted(approvals) /\ Trusted(approvals)[i].state = "ACTIVE"
          /\ CoveredBy(Trusted(approvals)[i], b)
        BY <2>2, InvTyping, TrustedIs DEF CoveredBy
    <2> HIDE DEF r
    <2>4. DecidedBy(r) = i /\ DecidedBy(task[t]) = 0
        BY <1>1, <2>1 DEF DecidedBy
    <2>5. Held(task)[t] = None
        BY <2>4, InvTyping, HeldUpdate DEF Allowance
    <2>6. Held(task') = [Held(task) EXCEPT ![t] = [act |-> b, by |-> i]]
        <3>1. task' = Become(t, r)
            BY <1>2 DEF r
        <3>2. [act |-> b, by |-> i] = Allowance(r.beh, DecidedBy(r))
            BY <2>1, <2>2, <2>4 DEF Allowance
        <3> QED
            BY <3>1, <3>2, HeldStep
    <2> QED
        BY <1>1, <2>3, <2>5, <2>6, Allows DEF Maps
<1>3. ASSUME NEW next \in {"import", "audit"}, NEW v, v.approval = 0,
             task' = Become(t, [task[t] EXCEPT !.pc = next, !.result = v])
      PROVE  Maps
    <2> DEFINE r == [task[t] EXCEPT !.pc = next, !.result = v]
    <2>1. r.pc = next /\ r.result.approval = 0
        BY <1>1, <1>3 DEF Task
    <2> HIDE DEF r
    <2>2. DecidedBy(r) = 0
        BY <2>1, Undecided
    <2> QED
        BY <1>1, <1>3, <2>2, EmptyHanded DEF r
<1>4. EngineError.approval = 0 /\ \A c : UnmatchedAnswer(c, b).approval = 0
    BY DEF EngineError, UnmatchedAnswer, Answer
<1> QED
    BY <1>2, <1>3, <1>4 DEF Match

LEMMA MapsRecordUse ==
    ASSUME Inv, NEW t \in Tasks, RecordUse(t)
    PROVE  Maps
<1> DEFINE id == task[t].id
           used == [approvals EXCEPT ![id] = [approvals[id] EXCEPT !.used = TRUE]]
           done == [task[t] EXCEPT !.pc = "audit", !.id = 0,
                                   !.result = Answer("ALLOW", "APPROVAL_MATCH", id)]
           failed == [task[t] EXCEPT !.pc = "audit", !.id = 0, !.result = EngineError]
<1>1. /\ task[t] \in Task /\ id \in 1 .. Len(approvals) /\ approvals \in Seq(Approval)
      /\ task[t].pc = "use" /\ task[t].op = "evaluate"
    BY InvTyping DEF RecordUse, TaskOK, FlowOK, HeldOK
<1>2. Trusted(used) = Trusted(approvals)
    BY <1>1, TrustedUse
<1>3. /\ done.op = "evaluate" /\ done.pc = "audit" /\ done.beh = task[t].beh
      /\ done.result.approval = id
      /\ failed.pc = "audit" /\ failed.result.approval = 0
    BY <1>1 DEF Task, Answer, EngineError
<1>4. /\ audit' = audit /\ approvals' \in {approvals, used}
      /\ task' = Become(t, done) \/ task' = Become(t, failed)
    BY DEF RecordUse
<1> HIDE DEF done, failed, used
<1>5. Trusted(approvals') = Trusted(approvals)
    BY <1>2, <1>4
<1>6. DecidedBy(done) = DecidedBy(task[t]) /\ DecidedBy(failed) = 0
    BY <1>1, <1>3, Undecided DEF DecidedBy
<1> QED
    BY <1>3, <1>4, <1>5, <1>6, EmptyHanded, HandsKept

(* After an import that gave no approval nothing is held.                  *)
LEMMA MapsAfterImport ==
    ASSUME Inv, NEW t \in Tasks, NEW v, v.approval = 0, task' = AfterImport(t, v),
           approvals' = approvals, audit' = audit
    PROVE  Maps
<1> DEFINE r == [task[t] EXCEPT !.pc = "audit", !.id = 0, !.todo = {}, !.result = v]
<1>1. r.pc = "audit" /\ r.result.approval = 0
    BY InvTyping DEF Task
<1>2. task' = Become(t, r) \/ task' = Become(t, Idle)
    BY DEF AfterImport
<1> HIDE DEF r
<1>3. DecidedBy(r) = 0
    BY <1>1, Undecided
<1> QED
    BY <1>2, <1>3, IdleUndecided, EmptyHanded

LEMMA ErrorNamesNothing == EngineError.approval = 0
BY DEF EngineError, Answer

LEMMA MapsImportCheck ==
    ASSUME Inv, NEW t \in Tasks, ImportCheck(t)
    PROVE  Maps
<1> DEFINE r == [task[t] EXCEPT !.pc = "create"]
<1>1. /\ approvals' = approvals /\ audit' = audit
      /\ task[t].op \in {"evaluate", "report"} /\ task[t].pc = "import"
    BY InvTyping DEF ImportCheck, store, TaskOK, FlowOK
<1>2. CASE task' = Become(t, r)
    <2>1. r.pc = "create"
        BY InvTyping DEF Task
    <2> HIDE DEF r
    <2>2. DecidedBy(r) = 0
        BY <2>1, Undecided
    <2> QED
        BY <1>1, <1>2, <2>2, EmptyHanded
<1>3. CASE task' = AfterImport(t, EngineError)
    BY <1>1, <1>3, ErrorNamesNothing, MapsAfterImport
<1>4. CASE task' = AfterImport(t, task[t].result)
    <2>1. CASE task[t].op = "evaluate"
        <3>1. task[t].result.approval = 0
            BY <2>1, InvTyping DEF ImportCheck, TaskOK, AnswerOK
        <3> QED
            BY <1>1, <1>4, <3>1, MapsAfterImport
    <2>2. CASE task[t].op # "evaluate"
        <3>1. task' = Become(t, Idle)
            BY <1>4, <2>2 DEF AfterImport
        <3> QED
            BY <1>1, <3>1, IdleUndecided, EmptyHanded
    <2> QED
        BY <2>1, <2>2
<1> QED
    BY <1>2, <1>3, <1>4 DEF ImportCheck

LEMMA MapsImportCreate ==
    ASSUME Inv, NEW t \in Tasks, ImportCreate(t)
    PROVE  Maps
<1> DEFINE q == task[t].req
           b == task[t].beh
           v == NewApproval("EXACT", b, q.cmd, q.consent, task[t].ctx)
           r == [task[t] EXCEPT !.pc = "record", !.todo = q.consent, !.id = Len(approvals) + 1]
<1>1. /\ task[t] \in Task /\ task[t].pc = "create" /\ task[t].op \in {"evaluate", "report"}
      /\ b \in Behaviours /\ task[t].ctx \in Contexts
      /\ q.cmd \in Commands /\ q.consent \in SUBSET Rules
      /\ approvals \in Seq(Approval) /\ audit' = audit
    BY InvTyping DEF ImportCreate, TaskOK, FlowOK, Task
<1>2. CASE approvals' = approvals /\ task' = AfterImport(t, EngineError)
    BY <1>1, <1>2, ErrorNamesNothing, MapsAfterImport
<1>3. CASE approvals' = Append(approvals, v) /\ task' = Become(t, r)
    <2>1. v \in Approval /\ v.state = "ACTIVE" /\ v.kind = "EXACT" /\ v.beh = b
        BY <1>1 DEF NewApproval, Approval, Kinds, States
    <2>2. /\ r.pc = "record" /\ r.id = Len(approvals) + 1 /\ r.op = task[t].op /\ r.beh = b
        BY <1>1 DEF Task
    <2> HIDE DEF v, r
    <2> DEFINE new == Trusted(approvals')
    <2>3. /\ Len(new) = Len(approvals) + 1 /\ Len(new) = Len(Trusted(approvals)) + 1
          /\ SubSeq(new, 1, Len(Trusted(approvals))) = Trusted(approvals)
          /\ new[Len(new)].state = "ACTIVE"
          /\ new[Len(new)].kind = "EXACT" /\ new[Len(new)].beh = b
        BY <1>1, <1>3, <2>1, TrustedAppend
    <2>4. DecidedBy(task[t]) = 0
        BY <1>1, Undecided
    <2>5. Held(task)[t] = None
        BY <2>4, InvTyping, HeldUpdate DEF Allowance
    <2>6. task' = Become(t, r)
        BY <1>3
    <2>7. CASE task[t].op = "evaluate"
        <3>1. Len(new) # 0 /\ DecidedBy(r) = Len(new)
            BY <1>1, <2>2, <2>3, <2>7 DEF DecidedBy
        <3>2. [act |-> b, by |-> Len(new)] = Allowance(r.beh, DecidedBy(r))
            BY <2>2, <3>1 DEF Allowance
        <3>3. Held(task') = [Held(task) EXCEPT ![t] = [act |-> b, by |-> Len(new)]]
            BY <2>6, <3>2, HeldStep
        <3>4. CoveredBy(new[Len(new)], b)
            BY <1>1, <2>3, CoversAssumption DEF CoveredBy, Kinds
        <3> QED
            BY <1>1, <2>3, <2>5, <3>3, <3>4, Imports DEF Maps
    <2>8. CASE task[t].op = "report"
        <3>1. DecidedBy(r) = 0
            BY <2>2, <2>8, Undecided
        <3>2. Held(task') = Held(task)
            BY <2>2, <2>4, <2>6, <3>1, HeldStep
        <3> QED
            BY <1>1, <2>3, <3>2, Grants DEF Maps
    <2> QED
        BY <1>1, <2>7, <2>8
<1> QED
    BY <1>2, <1>3 DEF ImportCreate

LEMMA MapsImportRecord ==
    ASSUME Inv, NEW t \in Tasks, ImportRecord(t)
    PROVE  Maps
<1> DEFINE id == task[t].id
           v == Answer("ALLOW", "RULE_IMPORT", id)
           linked == [task[t] EXCEPT !.pc = "link", !.todo = {}]
           done == [task[t] EXCEPT !.pc = "audit", !.id = 0, !.todo = {}, !.result = v]
<1>1. /\ task[t] \in Task /\ task[t].pc = "record" /\ task[t].op \in {"evaluate", "report"}
      /\ approvals' = approvals /\ audit' = audit
    BY InvTyping DEF ImportRecord, TaskOK, FlowOK
<1>2. CASE task' = AfterImport(t, EngineError)
    BY <1>1, <1>2, ErrorNamesNothing, MapsAfterImport
<1>3. ASSUME NEW rule, task' = Become(t, [task[t] EXCEPT !.todo = task[t].todo \ {rule}])
      PROVE  Maps
    <2> DEFINE r == [task[t] EXCEPT !.todo = task[t].todo \ {rule}]
    <2>1. r.pc = "record" /\ r.op = task[t].op /\ r.id = id /\ r.beh = task[t].beh
        BY <1>1 DEF Task
    <2> HIDE DEF r
    <2>2. DecidedBy(r) = DecidedBy(task[t])
        BY <1>1, <2>1 DEF DecidedBy
    <2> QED
        BY <1>1, <1>3, <2>1, <2>2, HandsKept DEF r
<1>4. CASE task[t].op = "evaluate" /\ task' = AfterImport(t, v)
    <2>1. task' = Become(t, done)
        BY <1>4 DEF AfterImport
    <2>2. /\ done.pc = "audit" /\ done.op = "evaluate" /\ done.beh = task[t].beh
          /\ done.result.approval = id
        BY <1>1, <1>4 DEF Task, Answer
    <2> HIDE DEF done
    <2>3. DecidedBy(done) = DecidedBy(task[t])
        BY <1>1, <1>4, <2>2 DEF DecidedBy
    <2> QED
        BY <1>1, <2>1, <2>2, <2>3, HandsKept
<1>5. CASE task' = Become(t, linked)
    <2>1. linked.pc = "link"
        BY <1>1 DEF Task
    <2> HIDE DEF linked
    <2>2. DecidedBy(linked) = 0
        BY <2>1, Undecided
    <2> QED
        BY <1>1, <1>5, <2>2, EmptyHanded
<1> QED
    BY <1>2, <1>3, <1>4, <1>5 DEF ImportRecord

LEMMA MapsRecordEvaluation ==
    ASSUME Inv, NEW t \in Tasks, RecordEvaluation(t)
    PROVE  Maps
<1> DEFINE q == task[t].req
           v == task[t].result
           row == [cmd |-> q.cmd, tool |-> q.tool, session |-> q.session,
                   beh |-> task[t].beh, ctx |-> task[t].ctx, outcome |-> v.outcome,
                   class |-> v.class, approval |-> v.approval,
                   executed |-> FALSE, imported |-> 0]
           kept == [task[t] EXCEPT !.pc = "put", !.result = [v EXCEPT !.event = Len(audit) + 1]]
           dry == [task[t] EXCEPT !.pc = "reply"]
           failed == [task[t] EXCEPT !.pc = "put", !.result = EngineError]
<1>1. /\ task[t] \in Task /\ task[t].pc = "audit" /\ task[t].op = "evaluate"
      /\ task[t].beh \in Behaviours /\ task[t].ctx \in Contexts /\ q.cmd \in Commands
      /\ q.tool \in Tools \cup {None} /\ q.session \in Sessions \cup {None}
      /\ v \in EvaluationResult /\ approvals' = approvals
    BY InvTyping DEF RecordEvaluation, TaskOK, FlowOK, Task
<1>2. kept.pc = "put" /\ dry.pc = "reply" /\ failed.pc = "put"
    BY <1>1 DEF Task
<1>3. row \in AuditEvent /\ row.beh = task[t].beh /\ row.approval = v.approval
    BY <1>1 DEF AuditEvent, EvaluationResult
<1>4. \/ audit' = Append(audit, row) /\ task' = Become(t, kept)
      \/ audit' = audit /\ (task' = Become(t, dry) \/ task' = Become(t, failed))
    BY DEF RecordEvaluation
<1> HIDE DEF kept, dry, failed, row
<1>5. DecidedBy(kept) = 0 /\ DecidedBy(dry) = 0 /\ DecidedBy(failed) = 0
    BY <1>2, Undecided
<1>6. CASE audit' = audit
    BY <1>1, <1>4, <1>5, <1>6, EmptyHanded
<1>7. CASE audit' = Append(audit, row) /\ task' = Become(t, kept)
    <2>1. Allowance(kept.beh, DecidedBy(kept)) = None
        BY <1>5 DEF Allowance
    <2>2. Held(task') = [Held(task) EXCEPT ![t] = None]
        BY <1>7, <2>1, HeldStep
    <2>3. Held(task)[t] = Allowance(row.beh, row.approval)
        BY <1>1, <1>3 DEF Held, DecidedBy
    <2>4. Decisions(audit') = Append(Decisions(audit), Held(task)[t])
        BY <1>3, <1>7, <2>3, InvTyping, DecisionsAppend
    <2> QED
        BY <1>1, <2>2, <2>4, Records DEF Maps
<1> QED
    BY <1>4, <1>6, <1>7

LEMMA MapsFinish ==
    ASSUME Inv, NEW t \in Tasks, CachePut(t) \/ Reply(t) \/ ResetCache(t)
    PROVE  Maps
<1> DEFINE r == [task[t] EXCEPT !.pc = "reply"]
<1>1. /\ approvals' = approvals /\ audit' = audit
      /\ task' = Become(t, r) \/ task' = Become(t, Idle)
    BY DEF CachePut, Reply, ResetCache, store
<1>2. r.pc = "reply"
    BY InvTyping DEF Task
<1> HIDE DEF r
<1>3. DecidedBy(r) = 0
    BY <1>2, Undecided
<1> QED
    BY <1>1, <1>3, IdleUndecided, EmptyHanded

LEMMA MapsReportExecution ==
    ASSUME Inv, NEW t \in Tasks, NEW p \in Reports, ReportExecution(t, p)
    PROVE  Maps
<1>1. PICK e \in DOMAIN audit :
        /\ audit' = [audit EXCEPT ![e] = [audit[e] EXCEPT !.executed = TRUE]]
        /\ \/ task' = task
           \/ task' = Become(t, [Idle EXCEPT
                    !.pc = "import", !.op = "report", !.row = e,
                    !.beh = audit[e].beh, !.ctx = context,
                    !.req = [cmd |-> audit[e].cmd, tool |-> p.tool,
                             session |-> audit[e].session,
                             consent |-> p.consent, dry |-> FALSE]])
    BY DEF ReportExecution
<1> DEFINE v == [audit[e] EXCEPT !.executed = TRUE]
           r == [Idle EXCEPT !.pc = "import", !.op = "report", !.row = e,
                    !.beh = audit[e].beh, !.ctx = context,
                    !.req = [cmd |-> audit[e].cmd, tool |-> p.tool,
                             session |-> audit[e].session,
                             consent |-> p.consent, dry |-> FALSE]]
<1>2. e \in 1 .. Len(audit) /\ audit[e] \in AuditEvent /\ audit \in Seq(AuditEvent)
    BY InvTyping
<1>3. v \in AuditEvent /\ v.beh = audit[e].beh /\ v.approval = audit[e].approval
    BY <1>2 DEF AuditEvent
<1>4. r.pc = "import"
    BY DEF Idle
<1>5. approvals' = approvals
    BY DEF ReportExecution
<1> HIDE DEF v, r
<1>6. Decisions(audit') = Decisions(audit)
    BY <1>1, <1>2, <1>3, DecisionsUpdate DEF v
<1>7. DecidedBy(r) = 0
    BY <1>4, Undecided
<1>8. CASE task' = task
    BY <1>5, <1>6, <1>8, Stutters DEF Maps
<1>9. CASE task' = Become(t, r)
    BY <1>5, <1>6, <1>7, <1>9, EmptyHanded
<1> QED
    BY <1>1, <1>8, <1>9 DEF r

LEMMA MapsLinkImport ==
    ASSUME Inv, NEW t \in Tasks, LinkImport(t)
    PROVE  Maps
<1> DEFINE e == task[t].row
           v == [audit[e] EXCEPT !.imported = task[t].id]
           r == [task[t] EXCEPT !.pc = "reset"]
<1>1. /\ e \in 1 .. Len(audit) /\ audit \in Seq(AuditEvent) /\ audit[e] \in AuditEvent
      /\ task[t] \in Task
    BY InvTyping DEF LinkImport, TaskOK, FlowOK, RowOK
<1>2. v \in AuditEvent /\ v.beh = audit[e].beh /\ v.approval = audit[e].approval
    BY <1>1 DEF AuditEvent, Task
<1>3. r.pc = "reset"
    BY <1>1 DEF Task
<1>4. /\ approvals' = approvals /\ audit' \in {audit, [audit EXCEPT ![e] = v]}
      /\ task' = Become(t, r) \/ task' = Become(t, Idle)
    BY DEF LinkImport
<1> HIDE DEF e, v, r
<1>5. Decisions(audit') = Decisions(audit)
    BY <1>1, <1>2, <1>4, DecisionsUpdate
<1>6. DecidedBy(r) = 0
    BY <1>3, Undecided
<1> QED
    BY <1>4, <1>5, <1>6, IdleUndecided, EmptyHanded

(* A handler of the user's: the goroutine was idle and is about to reset.  *)
LEMMA AdminHolds ==
    ASSUME Inv, NEW t \in Tasks, NEW n, task[t].pc = "idle",
           task' = Become(t, [Idle EXCEPT !.pc = "reset", !.op = "admin", !.id = n])
    PROVE  Held(task') = Held(task)
<1> DEFINE r == [Idle EXCEPT !.pc = "reset", !.op = "admin", !.id = n]
<1>1. r.pc = "reset"
    BY DEF Idle
<1> HIDE DEF r
<1>2. DecidedBy(r) = 0 /\ DecidedBy(task[t]) = 0
    BY <1>1, Undecided
<1>3. Allowance(r.beh, DecidedBy(r)) = Allowance(task[t].beh, DecidedBy(task[t]))
    BY <1>2 DEF Allowance
<1> QED
    BY <1>3, HeldStep DEF r

LEMMA MapsSetState ==
    ASSUME Inv, NEW t \in Tasks, NEW id \in DOMAIN approvals, NEW s \in SetStates,
           SetState(t, id, s)
    PROVE  Maps
<1>1. /\ id \in 1 .. Len(approvals) /\ approvals \in Seq(Approval) /\ s \in States
      /\ approvals[id].state # "REVOKED" /\ audit' = audit
      /\ approvals' = [approvals EXCEPT ![id] = [approvals[id] EXCEPT !.state = s]]
    BY InvTyping, ConstantsAssumption DEF SetState
<1>2. Trusted(approvals') = [Trusted(approvals) EXCEPT
                                 ![id] = [Trusted(approvals)[id] EXCEPT !.state = s]]
    <2>1. [[approvals[id] EXCEPT !.state = s] EXCEPT !.used = FALSE]
              = [[approvals[id] EXCEPT !.used = FALSE] EXCEPT !.state = s]
        BY <1>1 DEF Approval
    <2> QED
        BY <1>1, <2>1 DEF Trusted
<1>3. id \in DOMAIN Trusted(approvals) /\ Trusted(approvals)[id].state # "REVOKED"
    BY <1>1, TrustedIs
<1>4. Held(task') = Held(task)
    BY AdminHolds DEF SetState
<1> QED
    BY <1>1, <1>2, <1>3, <1>4, Changes DEF Maps

LEMMA MapsCreateApproval ==
    ASSUME Inv, NEW t \in Tasks, NEW e \in DOMAIN audit, NEW kind \in CreateKinds,
           CreateApproval(t, e, kind)
    PROVE  Maps
<1> DEFINE v == NewApproval(kind, audit[e].beh, audit[e].cmd, {}, context)
<1>1. audit[e] \in AuditEvent /\ kind \in Kinds /\ context \in Contexts
      /\ approvals \in Seq(Approval)
    BY InvTyping, ConstantsAssumption DEF Inv, TypeOK
<1>2. v \in Approval /\ v.state = "ACTIVE"
    BY <1>1 DEF NewApproval, Approval, AuditEvent, States
<1>3. approvals' = Append(approvals, v) /\ audit' = audit
    BY DEF CreateApproval
<1>4. Held(task') = Held(task)
    BY AdminHolds DEF CreateApproval
<1> HIDE DEF v
<1> QED
    BY <1>1, <1>2, <1>3, <1>4, TrustedAppend, Grants DEF Maps

LEMMA MapsEnvironment ==
    ASSUME Inv, Environment
    PROVE  Maps
<1>1. approvals' = approvals /\ audit' = audit
    BY DEF Environment, EditWorkspace, SwitchContext, ConfigChanged, Tick, Crash, store
<1>2. CASE task' = task
    BY <1>1, <1>2, Stutters DEF Maps
<1>3. CASE Crash
    <2>1. \A t \in Tasks : Allowance(task'[t].beh, DecidedBy(task'[t])) = None
        BY <1>3, IdleUndecided DEF Crash, Allowance
    <2>2. Held(task') = [t \in Tasks |-> None]
        BY <2>1 DEF Held
    <2> QED
        BY <1>1, <2>2, VoidsAll DEF Maps
<1> QED
    BY <1>2, <1>3 DEF Environment, EditWorkspace, SwitchContext, ConfigChanged, Tick

-----------------------------------------------------------------------------
(* Gate implements Trust: whatever requests, approvals, revocations,       *)
(* edits, failures and restarts interleave, every recorded ALLOW by an     *)
(* approval was given at one step by an approval that was active at that   *)
(* step and covers it, and a revoked approval stays revoked (match.go      *)
(* Match, import.go Import, approvals.go SetState).                        *)
THEOREM TrustHolds == Spec => TrustIsKept
<1>1. Init => Ledger!Init
    <2>1. ASSUME Init
          PROVE  Trusted(approvals) = <<>> /\ Decisions(audit) = <<>>
        BY <2>1 DEF Init, Trusted, Decisions
    <2>2. ASSUME Init
          PROVE  Held(task) = [t \in Tasks |-> None]
        BY <2>2, IdleUndecided DEF Init, Held, Allowance
    <2> QED
        BY <2>1, <2>2 DEF Ledger!Init
<1>2. ASSUME Inv, [Next]_vars
      PROVE  [Ledger!Next]_(Ledger!vars)
    <2>1. ASSUME NEW t \in Tasks, Begin(t)
          PROVE  Maps
        BY <1>2, <2>1, MapsBegin, MapsReportExecution, MapsSetState, MapsCreateApproval DEF Begin
    <2>2. ASSUME NEW t \in Tasks, Step(t)
          PROVE  Maps
        BY <1>2, <2>2, MapsResolve, MapsMatch, MapsRecordUse, MapsImportCheck, MapsImportCreate,
           MapsImportRecord, MapsRecordEvaluation, MapsFinish, MapsLinkImport DEF Step
    <2>3. CASE UNCHANGED vars
        BY <2>3, Stutters DEF vars, Maps
    <2>4. Maps
        BY <1>2, <2>1, <2>2, <2>3, MapsEnvironment DEF Next, Maps
    <2> QED
        BY <2>4 DEF Maps
<1> QED
    BY <1>1, <1>2, InvAlways, PTL DEF Spec, TrustIsKept, Ledger!Spec
=============================================================================
