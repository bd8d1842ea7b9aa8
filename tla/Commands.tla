------------------------------ MODULE Commands -----------------------------
(***************************************************************************)
(* What a parsed command line does: the resolver (internal/resolver), its  *)
(* option grammars and the recognisers of the programs it models.          *)
(*                                                                         *)
(* The world is [fs, manifests, git, globalHooks, npm, text]: the file     *)
(* tree, the package.json files by path, what .git says by repository      *)
(* root, core.hooksPath of the user, the npm configuration, and the        *)
(* content of the build files.  A request is resolved in a context [world, *)
(* cache, ws, status].  A recognised command is [op, status, effects,      *)
(* targets, git, fps, inside]; inside holds what its scripts run.          *)
(*                                                                         *)
(* An option that changes nothing is spelled "safe", "safevalue" when it   *)
(* takes the next word and "safeinline" when its value follows "=".        *)
(***************************************************************************)
EXTENDS Shell, Policy, TLC

CONSTANTS
    MaxDepth,           \* wrapper hops followed
    MaxCommands,        \* commands of an approvable line
    MaxFingerprintFiles \* files one fingerprint covers

ASSUME DepthAssumption == MaxDepth \in Nat

-----------------------------------------------------------------------------
(* Option grammars.                                                        *)

Grammar(flags, value, inline, cluster, permissive) ==
    [flags |-> flags \cup {"safe"}, value |-> value \cup {"safevalue"},
     inline |-> inline \cup {"safeinline"}, cluster |-> cluster,
     permissive |-> permissive]

Grammars ==
    [readfile |-> Grammar({}, {"-n", "-c", "-q", "-w", "-s", "-t"}, {}, TRUE, TRUE),
     ls       |-> Grammar({"-R", "--recursive"}, {}, {}, TRUE, TRUE),
     noop     |-> Grammar({}, {}, {}, TRUE, TRUE),
     rm       |-> Grammar({"-r", "-R", "--recursive", "-f", "--force"}, {}, {}, TRUE, FALSE),
     cp       |-> Grammar({"-r", "-R", "-a", "--recursive"}, {"-t"}, {}, TRUE, FALSE),
     mv       |-> Grammar({}, {"-t"}, {}, TRUE, FALSE),
     mkdir    |-> Grammar({}, {"-m"}, {}, TRUE, FALSE),
     cat      |-> Grammar({}, {}, {}, TRUE, FALSE),
     grep     |-> Grammar({"-r", "-R", "--recursive"}, {"-e", "-f"}, {}, TRUE, TRUE),
     find     |-> Grammar({"-delete"}, {"-fprint", "-exec"}, {}, FALSE, FALSE),
     gitread  |-> Grammar({}, {}, {}, FALSE, FALSE),
     gitdiff  |-> Grammar({"--no-index"}, {"--output"}, {}, FALSE, FALSE),
     gitadd   |-> Grammar({"-A"}, {"--pathspec-from-file"}, {}, FALSE, FALSE),
     gitcommit |-> Grammar({"-a", "--no-verify"}, {"-m", "-am", "-F"}, {}, FALSE, FALSE),
     gitcheckout |-> Grammar({"-f", "--force"}, {"-b"}, {}, FALSE, FALSE),
     gitreset |-> Grammar({"--hard", "--merge", "--keep"}, {}, {}, FALSE, FALSE),
     gitpush  |-> Grammar({"-f", "--force", "--delete", "-d", "--all", "--mirror", "--tags",
                           "--no-verify"}, {}, {"--force-with-lease"}, FALSE, FALSE),
     curl     |-> Grammar({"-k", "-O", "-I"}, {"-X", "-d", "-T", "-o", "-u", "-K", "-b", "-c"},
                          {}, TRUE, FALSE),
     gradle   |-> Grammar({}, {}, {}, FALSE, FALSE),
     maven    |-> Grammar({}, {}, {}, FALSE, FALSE),
     jstest   |-> Grammar({}, {}, {}, FALSE, FALSE),
     rimraf   |-> Grammar({}, {}, {}, FALSE, FALSE)]

\* One option of a scan: refused when the grammar does not know it or knows it
\* without a value, else recorded with the values it was given.
SetOption(scan, name, values) ==
    [scan EXCEPT !.options = (name :> (IF name \in DOMAIN @ THEN @[name] ELSE <<>>) \o values) @@ @]

ScanOption(g, scan, name, token, inline) ==
    LET listed == name \in g.flags \cup g.value \cup g.inline
    IN  IF ~listed /\ ~g.permissive THEN [scan EXCEPT !.unknown = TRUE]
        ELSE IF inline
             THEN IF listed /\ name \notin g.value \cup g.inline
                  THEN [scan EXCEPT !.unknown = TRUE] ELSE SetOption(scan, name, <<token>>)
        ELSE IF name \in g.value THEN [scan EXCEPT !.need = name]
        ELSE SetOption(scan, name, <<>>)

\* A cluster such as -rf; a letter that takes a value takes the rest of it.
ScanCluster(g, scan, token) ==
    IF token.inline THEN [scan EXCEPT !.unknown = TRUE]
    ELSE LET n      == Len(token.letters)
             takers == {i \in 1 .. n - 1 : token.letters[i] \in g.value}
             last   == IF takers = {} THEN n ELSE CHOOSE i \in takers : \A j \in takers : i <= j
         IN  FoldLeftDomain(LAMBDA s, i : ScanOption(g, s, token.letters[i], token,
                                                     takers # {} /\ i = last),
                            scan, SubSeq(token.letters, 1, last))

ScanToken(g, scan, token) ==
    IF scan.need # "" THEN [SetOption(scan, scan.need, <<token>>) EXCEPT !.need = ""]
    ELSE IF scan.ended \/ ~token.opt
         THEN [scan EXCEPT !.operands = Append(@, token),
                           !.leading = IF scan.saw THEN @ ELSE @ + 1]
    ELSE LET seen == [scan EXCEPT !.saw = TRUE]
         IN  IF token.text = "--" THEN [seen EXCEPT !.ended = TRUE]
             ELSE IF token.letters = <<>> \/ ~g.cluster
             THEN ScanOption(g, seen, token.text, token, token.inline)
             ELSE ScanCluster(g, seen, token)

Scanned(scan) ==
    [ok |-> ~scan.unknown /\ scan.need = "", operands |-> scan.operands,
     leading |-> SubSeq(scan.operands, 1, scan.leading), options |-> scan.options]

Scan(grammar, args) ==
    Scanned(FoldLeft(LAMBDA s, t : ScanToken(Grammars[grammar], s, t),
                     [ended |-> FALSE, need |-> "", operands |-> <<>>, leading |-> 0,
                      saw |-> FALSE, unknown |-> FALSE, options |-> [x \in {} |-> <<>>]],
                     args))

HasAny(scan, names) == DOMAIN scan.options \cap names # {}

\* Every value the named options were given.
All(scan, names) == UNION {ToSet(scan.options[n]) : n \in DOMAIN scan.options \cap names}

-----------------------------------------------------------------------------
(* Context: workspace, repositories and manifests.                         *)

CanonicalDir(fs, p) ==
    LET clean == Clean(p) IN IF EvalSymlinks(fs, clean) \in DOMAIN fs
                             THEN EvalSymlinks(fs, clean) ELSE clean

Deepest(paths) == CHOOSE p \in paths : \A q \in paths : Len(q) <= Len(p)

HasGit(fs, p) == EvalSymlinks(fs, Append(p, ".git")) \in DOMAIN fs

\* <<>> stands for none: a workspace at the root is refused anyway.
NearestGitRoot(fs, dir) ==
    LET roots == {p \in Prefixes(dir) : HasGit(fs, p)}
    IN  IF roots = {} THEN <<>> ELSE Deepest(roots)

FindWorkspace(fs, cwd, hint) ==
    LET root == NearestGitRoot(fs, cwd)
        candidate == IF root # <<>> THEN root
                     ELSE IF hint # <<>> /\ Under(cwd, hint) THEN hint ELSE cwd
    IN  IF Under(Home, candidate) \/ IsSystem(candidate) THEN <<>> ELSE candidate

\* Of the remembered directories only the outdated ones make a difference.
ContextIn(world, cache, ws) ==
    [world |-> world, cache |-> Outdated(world.fs, cache, ws), ws |-> ws,
     status |-> IF ws = <<>> THEN "CONTEXT_FAILED" ELSE "RESOLVED"]

BuildContext(world, cache, cwd, hint) ==
    ContextIn(world, cache,
              FindWorkspace(world.fs, CanonicalDir(world.fs, cwd), CanonicalDir(world.fs, hint)))

\* What .git says: [branch, heads, remotes, hooksPath], read without git.
NoInfo == [branch |-> "", heads |-> [x \in {} |-> ""], remotes |-> [x \in {} |-> ""],
           hooksPath |-> <<>>]

ReadGitInfo(world, root) == IF root \in DOMAIN world.git THEN world.git[root] ELSE NoInfo

\* refs/remotes/<remote>/HEAD, origin first.
DefaultBranch(info) ==
    IF DOMAIN info.heads = {} THEN ""
    ELSE info.heads[IF "origin" \in DOMAIN info.heads THEN "origin"
                    ELSE CHOOSE r \in DOMAIN info.heads : TRUE]

HooksDir(world, root) ==
    LET info == ReadGitInfo(world, root)
    IN  IF info.hooksPath # <<>> THEN info.hooksPath
        ELSE IF world.globalHooks # <<>> THEN world.globalHooks
        ELSE root \o <<".git", "hooks">>

PresentHooks(world, root) ==
    {Last(p) : p \in {q \in DOMAIN world.fs : /\ q # <<>> /\ Parent(q) = HooksDir(world, root)
                                              /\ ~IsDir(world.fs, q)}}

HooksForOperation ==
    [GIT_COMMIT |-> {"pre-commit", "prepare-commit-msg", "commit-msg", "post-commit"},
     GIT_PUSH |-> {"pre-push"}, GIT_CHECKOUT |-> {"post-checkout"}]

\* <<>> when there is none between the directory and the workspace root.
NearestPackageJSON(fs, dir, ws) ==
    LET here  == CanonicalDir(fs, dir)
        found == {p \in Prefixes(here) : Len(p) >= Len(ws) /\ IsFile(fs, Append(p, "package.json"))}
    IN  IF found = {} THEN <<>> ELSE Append(Deepest(found), "package.json")

-----------------------------------------------------------------------------
(* Building blocks of the recognisers.                                     *)

PathWord(p) == Token(FALSE, "", <<>>, FALSE, "", TRUE, p, FALSE)

Here == Token(FALSE, "", <<>>, FALSE, "", FALSE, <<>>, FALSE)

TargetFor(req, word) ==
    Normalize(req.ctx.world.fs, req.ctx.cache, req.ctx.ws, req.cmd.cwd, word)

TargetsFor(req, word) ==
    NormalizeWord(req.ctx.world.fs, req.ctx.cache, req.ctx.ws, req.cmd.cwd, word)

TargetsOf(req, words) == UNION {TargetsFor(req, w) : w \in words}

PathTarget(req, p) == TargetFor(req, PathWord(p))

\* addEffect: a wildcard target marks the effect too.
Effect(type, target, flags) ==
    [type |-> type, target |-> target, net |-> NoNet, prog |-> NoProg,
     flags |-> flags \cup ({"wildcard"} \cap target.flags)]

Effects(types, targets, flags) == {Effect(y, t, flags) : y \in types, t \in targets}

NetworkEffect(net, flags) ==
    [type |-> "NETWORK", target |-> NoTarget, net |-> net, prog |-> NoProg, flags |-> flags]

ExecuteEffect(name, resolution) ==
    [type |-> "EXECUTE", target |-> NoTarget, net |-> NoNet, flags |-> {},
     prog |-> [name |-> name, resolution |-> resolution, streamed |-> FALSE]]

NoPrints == [k \in {} |-> {}]

\* A command with everything it does; its targets are those of its effects.
Done(op, status, effects) ==
    [op |-> op, status |-> status, effects |-> effects,
     targets |-> {e.target : e \in effects} \ {NoTarget},
     git |-> NoGit, fps |-> NoPrints, inside |-> {}]

Resolved(op, effects) == Done(op, "RESOLVED", effects)

Unresolved(req, op) == Done(op, "UNRESOLVED", {ExecuteEffect(req.cmd.name, "UNRESOLVED")})

\* WeakerStatus over all of them.  Failures of the context and of the parser
\* rank alike and the first one met stays: the context's comes first.
Weakest(statuses) ==
    IF "CONTEXT_FAILED" \in statuses THEN "CONTEXT_FAILED"
    ELSE IF "PARSE_FAILED" \in statuses THEN "PARSE_FAILED"
    ELSE IF "UNRESOLVED" \in statuses THEN "UNRESOLVED"
    ELSE IF "DECLARED" \in statuses THEN "DECLARED" ELSE "RESOLVED"

Degrade(c) == [c EXCEPT !.status = Weakest({@, "UNRESOLVED"})]

-----------------------------------------------------------------------------
(* Programs that work on files.                                            *)

IsOperand(word) == word.text # "-"

Recursive(scan) == IF HasAny(scan, {"-r", "-R", "-a", "--recursive"}) THEN {"recursive"} ELSE {}

RecognizeRead(req, scan) ==
    Resolved("FS_READ", Effects({"READ"}, TargetsOf(req, {w \in ToSet(scan.operands) : IsOperand(w)}), {}))

RecognizeList(req, scan) ==
    LET words == IF scan.operands = <<>> THEN {Here} ELSE ToSet(scan.operands)
    IN  Resolved("FS_READ", Effects({"READ"}, TargetsOf(req, words), Recursive(scan)))

RecognizeRemove(req, scan) ==
    LET flags == Recursive(scan) \cup IF HasAny(scan, {"-f", "--force"}) THEN {"force"} ELSE {}
    IN  IF scan.operands = <<>> THEN Unresolved(req, "FS_DELETE")
        ELSE Resolved("FS_DELETE", Effects({"DELETE"}, TargetsOf(req, ToSet(scan.operands)), flags))

\* -t names the destination, else the last operand is it.
HasDestination(scan) ==
    IF HasAny(scan, {"-t"}) THEN scan.operands # <<>> ELSE Len(scan.operands) >= 2

Sources(scan) ==
    ToSet(IF HasAny(scan, {"-t"}) THEN scan.operands ELSE Front(scan.operands))

Destination(scan) ==
    IF HasAny(scan, {"-t"}) THEN Last(scan.options["-t"]) ELSE Last(scan.operands)

RecognizeCopy(req, scan) ==
    IF ~HasDestination(scan) THEN Unresolved(req, "FS_COPY")
    ELSE Resolved("FS_COPY",
                  Effects({"READ"}, TargetsOf(req, Sources(scan)), Recursive(scan))
                  \cup Effects({"CREATE", "WRITE"}, {TargetFor(req, Destination(scan))},
                               Recursive(scan)))

RecognizeMove(req, scan) ==
    IF ~HasDestination(scan) THEN Unresolved(req, "FS_MOVE")
    ELSE Resolved("FS_MOVE",
                  {Effect("DELETE", t, IF t.isDir THEN {"recursive"} ELSE {}) :
                      t \in TargetsOf(req, Sources(scan))}
                  \cup Effects({"CREATE"}, {TargetFor(req, Destination(scan))}, {}))

RecognizeMakeDir(req, scan) ==
    IF scan.operands = <<>> THEN Unresolved(req, "FS_CREATE")
    ELSE Resolved("FS_CREATE", Effects({"CREATE"}, TargetsOf(req, ToSet(scan.operands)), {}))

\* Without -e or -f the first operand is the pattern.
GrepFiles(scan) ==
    IF HasAny(scan, {"-e", "-f"}) \/ scan.operands = <<>> THEN scan.operands
    ELSE Tail(scan.operands)

RecognizeGrep(req, scan) ==
    LET files == {w \in ToSet(GrepFiles(scan)) : IsOperand(w)}
    IN  Resolved("FS_READ",
                 Effects({"READ"}, TargetsOf(req, All(scan, {"-f"})), {})
                 \cup Effects({"READ"}, TargetsOf(req, files), Recursive(scan)))

\* Start paths precede the first predicate.
FindEffects(req, scan, targets) ==
    Effects({"READ"}, targets, {})
    \cup Effects(IF HasAny(scan, {"-delete"}) THEN {"DELETE"} ELSE {}, targets,
                 {"recursive", "wildcard"})
    \cup Effects({"CREATE", "WRITE"}, {TargetFor(req, w) : w \in All(scan, {"-fprint"})}, {})
    \cup {ExecuteEffect(w.text, "UNRESOLVED") : w \in All(scan, {"-exec"})}

RecognizeFind(req, scan) ==
    LET starts == {w \in ToSet(scan.leading) : w.text \notin {"(", ")", "!"}}
    IN  Done(IF HasAny(scan, {"-delete"}) THEN "FS_DELETE" ELSE "FS_READ",
             IF All(scan, {"-exec"}) = {} THEN "RESOLVED" ELSE "UNRESOLVED",
             FindEffects(req, scan, TargetsOf(req, IF starts = {} THEN {Here} ELSE starts)))

-----------------------------------------------------------------------------
(* git.                                                                    *)

GitSafeGlobals == {"safe", "--no-pager"}

\* The options before the subcommand: the -C directory and where the
\* subcommand stands (0 when there is none).
GitGlobalOptions(args) ==
    FoldLeftDomain(
        LAMBDA s, i : IF s.at # 0 THEN s
                      ELSE IF s.need THEN [s EXCEPT !.need = FALSE, !.dir = <<args[i]>>]
                      ELSE IF ~args[i].opt THEN [s EXCEPT !.at = i]
                      ELSE IF args[i].text = "-C" THEN [s EXCEPT !.need = TRUE]
                      ELSE IF args[i].text \in GitSafeGlobals THEN s
                      ELSE [s EXCEPT !.unknown = TRUE],
        [dir |-> <<>>, at |-> 0, need |-> FALSE, unknown |-> FALSE], args)

\* The repository of the directory the command runs in, which need not be the
\* workspace; outside a repository the directory itself.
RootFrom(fs, cwd) ==
    LET roots == {p \in Prefixes(cwd) : HasGit(fs, p)} IN IF roots = {} THEN cwd ELSE Deepest(roots)

GitRoot(req) == RootFrom(req.ctx.world.fs, CanonicalDir(req.ctx.world.fs, req.cmd.cwd))

RepoEffects(req, types, flags) == Effects(types, {PathTarget(req, GitRoot(req))}, flags)

GitDirEffects(req, types) == Effects(types, {PathTarget(req, Append(GitRoot(req), ".git"))}, {})

\* A client-side hook runs code of the workspace.
WithHooks(req, c, skipped) ==
    LET hooks == (HooksForOperation[c.op] \cap PresentHooks(req.ctx.world, GitRoot(req))) \ skipped
    IN  IF hooks = {} THEN c
        ELSE Degrade([c EXCEPT !.effects = @ \cup {ExecuteEffect("git hook", "UNRESOLVED")}])

\* Only the words after "--" are certain to be paths.
Separators(args) == {i \in DOMAIN args : args[i].text = "--"}

GitPathspecs(args) ==
    IF Separators(args) = {} THEN {}
    ELSE LET first == CHOOSE i \in Separators(args) : \A j \in Separators(args) : i <= j
         IN  {args[i] : i \in first + 1 .. Len(args)}

GitRead(req, op, args) ==
    Resolved(op, RepoEffects(req, {"READ"}, {})
                 \cup Effects({"READ"}, TargetsOf(req, GitPathspecs(args)), {}))

GitDiff(req, scan, args) ==
    LET compared == {w \in ToSet(scan.operands) : IsOperand(w)}
        outputs  == {TargetFor(req, w) : w \in All(scan, {"--output"})}
        noIndex  == HasAny(scan, {"--no-index"})
    IN  IF noIndex /\ Len(scan.operands) # 2 THEN Unresolved(req, "GIT_DIFF")
        ELSE Resolved("GIT_DIFF",
                 (IF noIndex THEN Effects({"READ"}, TargetsOf(req, compared), {})
                  ELSE RepoEffects(req, {"READ"}, {}))
                 \cup Effects({"READ"}, TargetsOf(req, GitPathspecs(args)), {})
                 \cup Effects({"CREATE", "WRITE"}, outputs, {}))

GitAdd(req, scan) ==
    Resolved("GIT_ADD",
        (IF scan.operands = <<>> THEN RepoEffects(req, {"READ"}, {})
         ELSE Effects({"READ"}, TargetsOf(req, ToSet(scan.operands)), {}))
        \cup Effects({"READ"}, TargetsOf(req, All(scan, {"--pathspec-from-file"})), {})
        \cup GitDirEffects(req, {"WRITE"}))

GitCommit(req, scan) ==
    WithHooks(req,
        Resolved("GIT_COMMIT",
            (IF HasAny(scan, {"-a", "-am"}) THEN RepoEffects(req, {"READ"}, {}) ELSE {})
            \cup Effects({"READ"}, TargetsOf(req, ToSet(scan.operands) \cup All(scan, {"-F"})), {})
            \cup GitDirEffects(req, {"WRITE"})),
        IF HasAny(scan, {"--no-verify"}) THEN {"pre-commit", "commit-msg"} ELSE {})

GitCheckout(req, scan, restore, args) ==
    LET flags == IF restore \/ HasAny(scan, {"-f", "--force"}) \/ Separators(args) # {}
                 THEN {"discards_changes"} ELSE {}
    IN  WithHooks(req,
            Resolved("GIT_CHECKOUT",
                RepoEffects(req, {"WRITE"}, flags)
                \cup Effects({"WRITE"}, TargetsOf(req, GitPathspecs(args)), flags)
                \cup GitDirEffects(req, {"WRITE"})),
            {})

GitReset(req, scan) ==
    Resolved("GIT_RESET",
        GitDirEffects(req, {"WRITE"})
        \cup IF HasAny(scan, {"--hard", "--merge", "--keep"})
             THEN RepoEffects(req, {"WRITE"}, {"discards_changes"}) ELSE {})

\* A refspec is a word [text] with the force and delete marks among letters:
\* "+src:dst" carries "+", ":dst" carries ":"; text is the destination branch.
PushBranch(info, refspecs) ==
    IF refspecs # <<>> THEN [branch |-> refspecs[1].text, known |-> refspecs[1].text # ""]
    ELSE [branch |-> info.branch, known |-> info.branch # ""]

GitPush(req, scan) ==
    LET info     == ReadGitInfo(req.ctx.world, GitRoot(req))
        remote   == IF scan.operands = <<>> THEN "origin" ELSE scan.operands[1].text
        refspecs == IF scan.operands = <<>> THEN <<>> ELSE Tail(scan.operands)
        marked(m) == \E i \in DOMAIN refspecs : m \in ToSet(refspecs[i].letters)
        flags    == {f \in {"force", "delete", "broad"} :
                       \/ f = "force" /\ (marked("+") \/ HasAny(scan, {"-f", "--force", "--force-with-lease"}))
                       \/ f = "delete" /\ (marked(":") \/ HasAny(scan, {"--delete", "-d"}))
                       \/ f = "broad" /\ HasAny(scan, {"--all", "--mirror", "--tags"})}
    IN  IF remote \notin DOMAIN info.remotes THEN Unresolved(req, "GIT_PUSH")
        ELSE WithHooks(req,
                [Resolved("GIT_PUSH",
                    {NetworkEffect([NoNet EXCEPT !.host = info.remotes[remote]], flags)}
                    \cup GitDirEffects(req, {"READ"}))
                    EXCEPT !.git = PushBranch(info, refspecs)],
                IF HasAny(scan, {"--no-verify"}) THEN {"pre-push"} ELSE {})

\* The grammar and the operation of a subcommand.
GitGrammar ==
    [status |-> "gitread", log |-> "gitread", show |-> "gitread", branch |-> "gitread",
     diff |-> "gitdiff", add |-> "gitadd", commit |-> "gitcommit", checkout |-> "gitcheckout",
     restore |-> "gitcheckout", reset |-> "gitreset", push |-> "gitpush"]

GitOp == [status |-> "GIT_STATUS", log |-> "GIT_LOG", show |-> "GIT_SHOW",
          branch |-> "GIT_BRANCH", diff |-> "GIT_DIFF", add |-> "GIT_ADD",
          commit |-> "GIT_COMMIT", checkout |-> "GIT_CHECKOUT", restore |-> "GIT_CHECKOUT",
          reset |-> "GIT_RESET", push |-> "GIT_PUSH"]

GitSubcommand(req, sub, args, scan) ==
    IF ~scan.ok THEN Unresolved(req, GitOp[sub])
    ELSE CASE sub \in {"status", "log", "show"} -> GitRead(req, GitOp[sub], args)
           [] sub = "branch"   -> Resolved("GIT_BRANCH", RepoEffects(req, {"READ"}, {}))
           [] sub = "diff"     -> GitDiff(req, scan, args)
           [] sub = "add"      -> GitAdd(req, scan)
           [] sub = "commit"   -> GitCommit(req, scan)
           [] sub \in {"checkout", "restore"} -> GitCheckout(req, scan, sub = "restore", args)
           [] sub = "reset"    -> GitReset(req, scan)
           [] sub = "push"     -> GitPush(req, scan)

\* -C moves the directory the command works in, on its canonical path.
RecognizeGit(req) ==
    LET args  == req.cmd.args
        split == GitGlobalOptions(args)
        moved == IF split.dir = <<>> THEN req
                 ELSE [req EXCEPT !.cmd.cwd = TargetFor(req, split.dir[1]).path]
    IN  IF split.unknown \/ split.at = 0 \/ args[split.at].text \notin DOMAIN GitGrammar
        THEN Unresolved(req, "UNKNOWN")
        ELSE LET sub  == args[split.at].text
                 rest == SubSeq(args, split.at + 1, Len(args))
             IN  GitSubcommand(moved, sub, rest, Scan(GitGrammar[sub], rest))

=============================================================================
