------------------------------- MODULE Decide ------------------------------
(***************************************************************************)
(* One daemon deciding on command lines of a changing project: the         *)
(* evaluation of a request from its text to the decision (context, parser, *)
(* resolver, policy), approvals made from what was evaluated, and the      *)
(* cache of generated directories that outlives the requests.              *)
(*                                                                         *)
(* A request is [line, cwd, hint].  Requests are decided one at a time     *)
(* here; module Gate has the interleavings of the handlers.  While a       *)
(* decision is pending the project stands still: an approval is made from  *)
(* the action stored with the evaluation, so an edit before it and an edit *)
(* after it give the same state.                                           *)
(***************************************************************************)
EXTENDS Resolver

CONSTANTS
    Worlds,      \* by name: states of the project and of the files around it
    Requests,    \* command lines that are evaluated
    UserTrusts,  \* the requests somebody answers with an approval
    FollowUps,   \* the requests evaluated once there is an approval
    Budgets,     \* commands examined before the time budget ends
    MaxApprovals \* approvals ever made

ASSUME BudgetsAssumption == Budgets \subseteq Nat /\ \E b \in Budgets : \A c \in Budgets : c <= b

VARIABLES
    world,     \* the name of the state the files and repositories are in
    cache,     \* generated directories the daemon has answered about
    approvals, \* the approvals stored
    origin,    \* by approval id: the evaluation it was made from
    asked      \* the decision just taken, or NotAsked

vars == <<world, cache, approvals, origin, asked>>

Now == Worlds[world]

NotAsked == [request |-> [line |-> <<>>, cwd |-> <<>>, hint |-> <<>>]]

Ample == CHOOSE b \in Budgets : \A c \in Budgets : c <= b

Context(request) == BuildContext(Now, cache, request.cwd, request.hint)

\* The floor asks the repository of the workspace for its default branch.
Default(ctx) == DefaultBranch(ReadGitInfo(Now, ctx.ws))

\* Every remembered answer about a generated directory is still the right one.
CacheIsFresh(ws) == \A d \in DOMAIN cache : cache[d] = ComputeGeneratedRoot(Now.fs, d, ws)

Init ==
    /\ world \in DOMAIN Worlds
    /\ cache = [d \in {} |-> FALSE]
    /\ approvals = {} /\ origin = <<>>
    /\ asked = NotAsked

\* What a request comes to in a context.
Answer(request, limit, ctx, act) ==
    [request |-> request, limit |-> limit, act |-> act, ws |-> ctx.ws,
     floor |-> Outcome(HardRules(act, ctx.ws, Default(ctx))),
     decision |-> EvaluateDetailed(approvals, act, ctx.ws, Default(ctx))]

AnswerIn(request, limit, ctx) ==
    Answer(request, limit, ctx, ResolveInContext(ctx, limit, request.line, request.cwd))

Evaluate(request, limit) ==
    /\ asked = NotAsked
    /\ approvals = {} \/ request \in FollowUps
    /\ limit = Ample \/ limit < Len(request.line)
    /\ asked' = AnswerIn(request, limit, Context(request))
    /\ cache' = IF asked'.ws = <<>> THEN cache
                ELSE Remember(Now.fs, cache, LookedUp(asked'.act), asked'.ws)
    /\ UNCHANGED <<world, approvals, origin>>

\* The user trusts what was just evaluated.
Approve(kind) ==
    /\ asked # NotAsked /\ asked.request \in UserTrusts
    /\ Cardinality(approvals) < MaxApprovals
    /\ Validate(asked.act, asked.ws, Default(Context(asked.request)))
    /\ approvals' = approvals \cup {Build(Len(origin) + 1, asked.act, kind)}
    /\ origin' = Append(origin, [request |-> asked.request, world |-> world,
                                 fresh |-> CacheIsFresh(asked.ws)])
    /\ asked' = NotAsked
    /\ UNCHANGED <<world, cache>>

Dismiss ==
    /\ asked # NotAsked
    /\ asked' = NotAsked
    /\ UNCHANGED <<world, cache, approvals, origin>>

Revoke ==
    /\ asked = NotAsked
    /\ \E a \in approvals :
          /\ a.state = "ACTIVE"
          /\ approvals' = (approvals \ {a}) \cup {[a EXCEPT !.state = "REVOKED"]}
    /\ UNCHANGED <<world, cache, origin, asked>>

EditProject ==
    /\ asked = NotAsked
    /\ world' \in DOMAIN Worlds \ {world}
    /\ UNCHANGED <<cache, approvals, origin, asked>>

\* The cache lives in the daemon's memory.
RestartDaemon ==
    /\ asked = NotAsked /\ DOMAIN cache # {}
    /\ cache' = [d \in {} |-> FALSE]
    /\ UNCHANGED <<world, approvals, origin, asked>>

Next ==
    \/ \E request \in Requests, limit \in Budgets : Evaluate(request, limit)
    \/ \E kind \in {"EXACT", "SEMANTIC"} : Approve(kind)
    \/ Dismiss \/ Revoke \/ EditProject \/ RestartDaemon

Spec == Init /\ [][Next]_vars

-----------------------------------------------------------------------------
(* What an approval is worth.                                              *)

\* An approval works: the line it was made from is let through as long as
\* nothing it was judged by has changed, the remembered directories included,
\* and it is examined in full.
ApprovedIsRecognised ==
    asked # NotAsked =>
        \A a \in approvals :
            (/\ a.state = "ACTIVE" /\ asked.limit = Ample
             /\ origin[a.id].request = asked.request
             /\ origin[a.id].world = world
             /\ origin[a.id].fresh /\ CacheIsFresh(asked.ws))
            => asked.decision.outcome = "ALLOW"

=============================================================================
