------------------------------- MODULE Serve -------------------------------
(***************************************************************************)
(* One hook process asks one daemon over a socket: connecting, the accept  *)
(* loop, a goroutine per connection, the client's deadlines and its retry  *)
(* after a lazy start, and what is left in the audit log when the daemon   *)
(* is told to stop, is killed, or has its statements cancelled half way.   *)
(*                                                                         *)
(* All tool calls are of one session and one command, the case in which    *)
(* the keys of the result cache and the correlation of prompts can mix     *)
(* them up.  What an evaluation decides is a free choice of Verdicts (Gate *)
(* says how it is made), so that two evaluations of one command may differ.*)
(* The lock that keeps a second daemon out is Daemon's concern: here one   *)
(* daemon runs at a time.                                                  *)
(***************************************************************************)
EXTENDS Naturals, Sequences, FiniteSets

CONSTANTS
    Hooks,        \* hook processes
    Scenarios,    \* what the hooks are called for, and how many deadlines pass
                  \* while both ends of a connection are alive
    Calls,        \* tool calls
    Verdicts,     \* what an evaluation may decide
    LazyStart,    \* config.Daemon.LazyStart
    MaxStarts,    \* bound: how often a daemon is started again
    None

Outcomes == {"ALLOW", "BLOCK", "MISMATCH", "NO_APPROVAL"}

\* hookio.go: the two events that ask for a decision.
Event ==
    [name : {"PreToolUse", "PermissionRequest"}, call : Calls, bypassing : BOOLEAN]

ASSUME ScenariosAssumption == Scenarios \subseteq [event : [Hooks -> Event], deadlines : Nat]
ASSUME VerdictsAssumption == Verdicts \subseteq Outcomes
ASSUME BoundAssumption == LazyStart \in BOOLEAN /\ MaxStarts \in Nat

\* A tool call is not the key of the session, and no answer is None.
Answers == [decision : Outcomes \cup {"ENGINE_ERROR", "OK"}, event : Nat \cup {None}]

ASSUME NoneAssumption ==
    /\ "session" \notin Calls
    /\ None \notin Calls \cup Nat \cup Answers
    /\ None \notin {"session", "silence", "allow", "deny", "prompt", "defer"}

VARIABLES
    daemon,       \* "up"; "draining", not accepting any more; "failing", with its
                  \* contexts cancelled or its store closed; "down"
    starts,       \* daemons started so far
    cache,        \* the result cache: key -> answer
    audit,        \* the audit rows
    task,         \* task[t]: how far the connection of call t has come
    work,         \* work[t]: what its goroutine holds between two statements
    reply,        \* reply[t]: the response written to its connection
    deadlines,    \* bound: how many more deadlines pass
    clock,        \* the time, which moves when a hook reads it
    stamp,        \* stamp[h]: ReceivedAt of the hook's request
    event,        \* event[h]: what h is called for
    pc,           \* pc[h]: where the hook process is
    result,       \* result[h]: the evaluation the hook received
    told          \* told[h]: what the hook told the agent

vars == <<daemon, starts, cache, audit, task, work, reply, deadlines, clock, stamp, event, pc, result, told>>
server == <<daemon, starts, cache>>
time == <<clock, stamp, event>>
client == <<time, pc, result, told>>

(* The requests a hook makes, one connection each.                         *)
Methods == {"evaluate", "evaluate_again", "record_prompt", "record_adapter_action"}
Tasks == Hooks \X Methods
Asks(t) == t[2] \in {"evaluate", "evaluate_again"}
EventOf(t) == event[t[1]]

EngineError == [decision |-> "ENGINE_ERROR", event |-> None]
Acknowledged == [decision |-> "OK", event |-> None]

Init ==
    /\ daemon = "up" /\ starts = 0
    /\ cache = [k \in {} |-> None]
    /\ audit = << >>
    /\ task = [t \in Tasks |-> "none"]
    /\ work = [t \in Tasks |-> None]
    /\ reply = [t \in Tasks |-> None]
    /\ clock = 0 /\ stamp = [h \in Hooks |-> 0]
    /\ \E s \in Scenarios : event = s.event /\ deadlines = s.deadlines
    /\ pc = [h \in Hooks |-> "start"]
    /\ result = [h \in Hooks |-> None]
    /\ told = [h \in Hooks |-> None]

-----------------------------------------------------------------------------
(* The server: the accept loop and one goroutine per connection.           *)

\* Accept returns, wg.Add(1), and the goroutine runs.  Between the two the
\* connection is not counted; Shutdown below does not rely on the count.
Accept(t) ==
    /\ daemon = "up"
    /\ task[t] = "queued"
    /\ task' = [task EXCEPT ![t] = "running"]
    /\ UNCHANGED <<deadlines, server, audit, work, reply, client>>

\* A deadline passes: of the client's call or of the request's context.
Expire == deadlines > 0 /\ deadlines' = deadlines - 1

\* A statement fails once its context is cancelled or past its deadline, or
\* the store is closed.
Statement(ok) ==
    \/ ok = (daemon # "failing") /\ UNCHANGED deadlines
    \/ ~ok /\ daemon # "failing" /\ Expire

\* toolUseIDForRequest: a PermissionRequest carries no tool call.
ToolUse(e) == IF e.name = "PermissionRequest" THEN None ELSE e.call

\* Mutant: every hook of the session looks under the session's key.
lookupSession(e) == "session"

\* resultCache.get looks under one key, put stores under both.
lookupKey(e) == IF ToolUse(e) = None THEN "session" ELSE ToolUse(e)
cacheKeys(e) == {"session", ToolUse(e)} \ {None}

\* handleEvaluate: an answer of the cache, or a fresh decision.
AnswerFromCache(t) ==
    /\ task[t] = "running" /\ Asks(t)
    /\ lookupKey(EventOf(t)) \in DOMAIN cache
    /\ work' = [work EXCEPT ![t] = cache[lookupKey(EventOf(t))]]
    /\ task' = [task EXCEPT ![t] = "answering"]
    /\ UNCHANGED <<deadlines, server, audit, reply, client>>

Decide(t) ==
    /\ task[t] = "running" /\ Asks(t)
    /\ lookupKey(EventOf(t)) \notin DOMAIN cache
    /\ \E v \in Verdicts : work' = [work EXCEPT ![t] = [decision |-> v, event |-> None]]
    /\ task' = [task EXCEPT ![t] = "decided"]
    /\ UNCHANGED <<deadlines, server, audit, reply, client>>

Row(t, at, decision, shown) ==
    [hook |-> EventOf(t).name, call |-> ToolUse(EventOf(t)), at |-> at,
     decision |-> decision, prompt |-> shown, action |-> None]

\* RecordEvaluation, then resultCache.put of what is answered.
Record(t) ==
    /\ task[t] = "decided"
    /\ \E ok \in BOOLEAN :
        /\ Statement(ok)
        /\ audit' = IF ok THEN Append(audit, Row(t, stamp[t[1]], work[t].decision, FALSE)) ELSE audit
        /\ LET answer == IF ok THEN [work[t] EXCEPT !.event = Len(audit')] ELSE EngineError
           IN /\ work' = [work EXCEPT ![t] = answer]
              /\ cache' = [k \in DOMAIN cache \cup cacheKeys(EventOf(t)) |->
                             IF k \in cacheKeys(EventOf(t)) THEN answer ELSE cache[k]]
    /\ task' = [task EXCEPT ![t] = "answering"]
    /\ UNCHANGED <<daemon, starts, reply, client>>

\* FindRecentBySessionCommand: ORDER BY at DESC, id DESC among the rows that
\* are not older than the window.
NewerRow(i, j) ==
    \/ audit[i].at > audit[j].at
    \/ audit[i].at = audit[j].at /\ i >= j

\* Mutant: the oldest row of the window, as without DESC.
FindOldest(notBefore) ==
    LET rows == {i \in DOMAIN audit : audit[i].at >= notBefore}
    IN IF rows = {} THEN None ELSE CHOOSE i \in rows : \A j \in rows : NewerRow(j, i)

FindRecentBySessionCommand(notBefore) ==
    LET rows == {i \in DOMAIN audit : audit[i].at >= notBefore}
    IN IF rows = {} THEN None ELSE CHOOSE i \in rows : \A j \in rows : NewerRow(i, j)

FindPrompted(t) ==
    /\ task[t] = "running" /\ t[2] = "record_prompt"
    /\ \/ \E notBefore \in 0..clock :
            /\ Statement(TRUE)
            /\ work' = [work EXCEPT ![t] = FindRecentBySessionCommand(notBefore)]
            /\ task' = [task EXCEPT ![t] = "found"]
       \/ /\ Statement(FALSE)
          /\ work' = [work EXCEPT ![t] = EngineError]
          /\ task' = [task EXCEPT ![t] = "answering"]
    /\ UNCHANGED <<server, audit, reply, client>>

\* UpdatePrompt on the row that was found, or a row of the prompt's own.
RecordPrompt(t) ==
    /\ task[t] = "found"
    /\ \E ok \in BOOLEAN :
        /\ Statement(ok)
        /\ audit' = IF ~ok THEN audit
                    ELSE IF work[t] = None THEN Append(audit, Row(t, clock, "NO_APPROVAL", TRUE))
                    ELSE [audit EXCEPT ![work[t]].prompt = TRUE]
        /\ work' = [work EXCEPT ![t] = IF ok THEN Acknowledged ELSE EngineError]
    /\ task' = [task EXCEPT ![t] = "answering"]
    /\ UNCHANGED <<server, reply, client>>

\* mapping.go: what the adapter does with a decision.
MapPreToolUse(decision, bypassing) ==
    CASE decision = "ALLOW" -> "allow"
      [] decision = "BLOCK" -> "deny"
      [] decision = "MISMATCH" /\ ~bypassing -> "prompt"
      [] OTHER -> "defer"

MapPermissionRequest(decision) ==
    CASE decision = "ALLOW" -> "allow"
      [] decision = "BLOCK" -> "deny"
      [] OTHER -> "prompt"

AdapterAction(h) ==
    LET e == event[h]
    IN IF e.name = "PreToolUse" THEN MapPreToolUse(result[h].decision, e.bypassing)
       ELSE MapPermissionRequest(result[h].decision)

\* SetAdapterAction on the row the evaluation named.
RecordAdapterAction(t) ==
    /\ task[t] = "running" /\ t[2] = "record_adapter_action"
    /\ \E ok \in BOOLEAN :
        /\ Statement(ok)
        /\ audit' = IF ok THEN [audit EXCEPT ![result[t[1]].event].action = AdapterAction(t[1])]
                    ELSE audit
        /\ work' = [work EXCEPT ![t] = IF ok THEN Acknowledged ELSE EngineError]
    /\ task' = [task EXCEPT ![t] = "answering"]
    /\ UNCHANGED <<server, reply, client>>

\* The response is written and the connection closed; nobody reads it once
\* the client has given up.
Answer(t) ==
    /\ task[t] = "answering"
    /\ reply' = [reply EXCEPT ![t] = IF pc[t[1]] = t[2] THEN work[t] ELSE None]
    /\ task' = [task EXCEPT ![t] = "over"]
    /\ work' = [work EXCEPT ![t] = None]
    /\ UNCHANGED <<deadlines, server, audit, client>>

-----------------------------------------------------------------------------
(* The daemon's end.                                                       *)

\* Closing the listener resets what was not accepted.
StopListening == [t \in Tasks |-> IF task[t] = "queued" THEN "over" ELSE task[t]]

\* A shutdown request: Shutdown stops accepting and waits.
RequestShutdown ==
    /\ daemon = "up"
    /\ daemon' = "draining"
    /\ task' = StopListening
    /\ UNCHANGED <<deadlines, starts, cache, audit, work, reply, client>>

\* A signal also cancels the context of the requests in flight.
Signal ==
    /\ daemon \in {"up", "draining"}
    /\ daemon' = "failing"
    /\ task' = StopListening
    /\ UNCHANGED <<deadlines, starts, cache, audit, work, reply, client>>

\* Shutdown returns when the wait group is empty, which an accepted connection
\* that was not added yet does not prevent, or when the grace time is over; Run
\* closes the store, and the process has not ended yet.
Shutdown ==
    /\ daemon = "draining"
    /\ daemon' = "failing"
    /\ UNCHANGED <<deadlines, starts, cache, audit, task, work, reply, client>>

\* The process ends, by itself or killed: its goroutines and its cache go.
Exit ==
    /\ daemon # "down"
    /\ daemon' = "down"
    /\ cache' = [k \in {} |-> None]
    /\ task' = [t \in Tasks |-> IF task[t] = "none" THEN "none" ELSE "over"]
    /\ work' = [t \in Tasks |-> None]
    /\ UNCHANGED <<deadlines, starts, audit, reply, client>>

\* By a hook's lazy start or by the service manager.
Start ==
    /\ daemon = "down" /\ starts < MaxStarts
    /\ daemon' = "up" /\ starts' = starts + 1
    /\ UNCHANGED <<deadlines, cache, audit, task, work, reply, client>>

-----------------------------------------------------------------------------
(* The hook process.                                                       *)

\* Client.Call up to the written request.
Dial(h, method, waiting) ==
    /\ daemon = "up"
    /\ task' = [task EXCEPT ![<<h, method>>] = "queued"]
    /\ pc' = [pc EXCEPT ![h] = waiting]

\* Claude asks for permission after PreToolUse has ended without an answer
\* that settles the call.
MayBegin(h) ==
    event[h].name = "PermissionRequest" =>
        \A g \in Hooks :
            event[g].name = "PreToolUse" /\ event[g].call = event[h].call
                => pc[g] = "done" /\ told[g] \notin {"allow", "deny"}

Evaluate(h) ==
    /\ pc[h] = "start" /\ MayBegin(h)
    /\ \/ Dial(h, "evaluate", "evaluate")
       \/ daemon # "up" /\ pc' = [pc EXCEPT ![h] = "unreached"] /\ UNCHANGED task
    /\ clock' = clock + 1 /\ stamp' = [stamp EXCEPT ![h] = clock + 1]
    /\ UNCHANGED <<deadlines, event, server, audit, work, reply, result, told>>

\* The first attempt failed: start the daemon and wait for a ping.
Retry(h) ==
    /\ pc[h] = "unreached" /\ LazyStart
    /\ Dial(h, "evaluate_again", "evaluate_again")
    /\ UNCHANGED <<deadlines, server, time, audit, work, reply, result, told>>

\* The daemon did not come up in time, or may not be started: silence.
GiveUp(h) ==
    /\ pc[h] = "unreached"
    /\ pc' = [pc EXCEPT ![h] = "done"]
    /\ told' = [told EXCEPT ![h] = "silence"]
    /\ UNCHANGED <<deadlines, server, time, audit, task, work, reply, result>>

\* Next of a hook that has its evaluation: a PermissionRequest reports the
\* dialog before it answers.
Received(h) ==
    IF event[h].name = "PermissionRequest" THEN "prompt" ELSE "write"

ReceiveEvaluation(h) ==
    /\ pc[h] \in {"evaluate", "evaluate_again"}
    /\ reply[<<h, pc[h]>>] # None
    /\ result' = [result EXCEPT ![h] = reply[<<h, pc[h]>>]]
    /\ pc' = [pc EXCEPT ![h] = Received(h)]
    /\ UNCHANGED <<deadlines, server, time, audit, task, work, reply, told>>

\* The connection broke without an answer, or the deadline passed, and then
\* the daemon may still be at it.
Fails(t) ==
    /\ reply[t] = None
    /\ IF task[t] = "over" THEN UNCHANGED deadlines ELSE Expire

EvaluationFails(h) ==
    /\ pc[h] \in {"evaluate", "evaluate_again"}
    /\ Fails(<<h, pc[h]>>)
    /\ IF pc[h] = "evaluate"
       THEN pc' = [pc EXCEPT ![h] = "unreached"] /\ UNCHANGED told
       ELSE pc' = [pc EXCEPT ![h] = "done"] /\ told' = [told EXCEPT ![h] = "silence"]
    /\ UNCHANGED <<server, time, audit, task, work, reply, result>>

\* A report whose failure is only logged.
Finished(t) ==
    \/ reply[t] # None /\ UNCHANGED deadlines
    \/ Fails(t)

ReportPrompt(h) ==
    /\ pc[h] = "prompt"
    /\ \/ Dial(h, "record_prompt", "record_prompt")
       \/ daemon # "up" /\ pc' = [pc EXCEPT ![h] = "write"] /\ UNCHANGED task
    /\ UNCHANGED <<deadlines, server, time, audit, work, reply, result, told>>

PromptReported(h) ==
    /\ pc[h] = "record_prompt"
    /\ Finished(<<h, pc[h]>>)
    /\ pc' = [pc EXCEPT ![h] = "write"]
    /\ UNCHANGED <<server, time, audit, task, work, reply, result, told>>

\* The answer goes to the agent; the annotation follows, for an event.
WriteResponse(h) ==
    /\ pc[h] = "write"
    /\ told' = [told EXCEPT ![h] = AdapterAction(h)]
    /\ pc' = [pc EXCEPT ![h] = IF result[h].event = None THEN "done" ELSE "annotate"]
    /\ UNCHANGED <<deadlines, server, time, audit, task, work, reply, result>>

Annotate(h) ==
    /\ pc[h] = "annotate"
    /\ \/ Dial(h, "record_adapter_action", "record_adapter_action")
       \/ daemon # "up" /\ pc' = [pc EXCEPT ![h] = "done"] /\ UNCHANGED task
    /\ UNCHANGED <<deadlines, server, time, audit, work, reply, result, told>>

Annotated(h) ==
    /\ pc[h] = "record_adapter_action"
    /\ Finished(<<h, pc[h]>>)
    /\ pc' = [pc EXCEPT ![h] = "done"]
    /\ UNCHANGED <<server, time, audit, task, work, reply, result, told>>

-----------------------------------------------------------------------------
HookStep(h) ==
    \/ Evaluate(h) \/ Retry(h) \/ GiveUp(h)
    \/ ReceiveEvaluation(h) \/ EvaluationFails(h)
    \/ ReportPrompt(h) \/ PromptReported(h)
    \/ WriteResponse(h) \/ Annotate(h) \/ Annotated(h)

ServerStep(t) ==
    \/ Accept(t)
    \/ AnswerFromCache(t) \/ Decide(t) \/ Record(t)
    \/ FindPrompted(t) \/ RecordPrompt(t) \/ RecordAdapterAction(t)
    \/ Answer(t)

DaemonStep == RequestShutdown \/ Signal \/ Shutdown \/ Exit \/ Start

Next ==
    \/ \E h \in Hooks : HookStep(h)
    \/ \E t \in Tasks : ServerStep(t)
    \/ DaemonStep

Spec == Init /\ [][Next]_vars

-----------------------------------------------------------------------------
\* What the agent was told and what the log says agree, across retries, lost
\* answers, cancelled statements and restarts (hook.go, "a decision and its
\* delivery can be told apart afterwards"): a hook allows, denies or forces a
\* dialog only with a decision that is on record, for its own tool call; and a
\* row that says what the adapter did says what some hook did with that row.
DeliveryIsOnRecord ==
    /\ \A h \in Hooks :
        LET e == event[h]
            settled == IF e.name = "PreToolUse" THEN {"allow", "deny", "prompt"} ELSE {"allow", "deny"}
        IN told[h] \in settled =>
            /\ result[h].event # None
            /\ audit[result[h].event].decision = result[h].decision
            /\ e.name = "PreToolUse" => audit[result[h].event].call = e.call
    /\ \A i \in DOMAIN audit : audit[i].action # None =>
        \E h \in Hooks : told[h] = audit[i].action /\ result[h].event = i

\* A prompt the daemon acknowledged is marked on a row that is not older than
\* the evaluation its hook was answered with, although the row is looked for in
\* one statement and marked or inserted in another (Recorder.RecordPrompt).
PromptIsMarked ==
    \A h \in Hooks :
        LET evaluated == result[h].event
        IN reply[<<h, "record_prompt">>] = Acknowledged /\ evaluated # None =>
            \E i \in DOMAIN audit : audit[i].prompt /\ audit[i].at >= audit[evaluated].at
=============================================================================
