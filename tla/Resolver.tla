------------------------------ MODULE Resolver -----------------------------
(***************************************************************************)
(* The recognisers of network and build tools, the rules that hold for     *)
(* every command, package scripts, and the aggregation of a line into the  *)
(* action the policy decides on (internal/resolver).                       *)
(***************************************************************************)
EXTENDS Commands

-----------------------------------------------------------------------------
(* curl.  A URL operand carries the host as its text.                      *)

CurlMethod(scan) ==
    IF HasAny(scan, {"-X"}) THEN Last(scan.options["-X"]).text
    ELSE IF HasAny(scan, {"-T"}) THEN "PUT"
    ELSE IF HasAny(scan, {"-d"}) THEN "POST"
    ELSE IF HasAny(scan, {"-I"}) THEN "HEAD" ELSE "GET"

\* A value that names a file to send starts with "@"; letters keep the mark.
CurlBodyFiles(scan) == {w \in All(scan, {"-d"}) : "@" \in ToSet(w.letters)}

\* A cookie value without "=" is the name of a file.
CurlCookieFiles(scan) == {w \in All(scan, {"-b"}) : ~w.inline}

RecognizeCurl(req, scan) ==
    LET urls  == ToSet(scan.operands)
        flags == {f \in {"inline_credential", "insecure_tls"} :
                    HasAny(scan, IF f = "insecure_tls" THEN {"-k"} ELSE {"-u"})}
        net(w) == [host |-> w.text, method |-> CurlMethod(scan), declared |-> ""]
        reads == TargetsOf(req, All(scan, {"-T"}) \cup CurlBodyFiles(scan) \cup CurlCookieFiles(scan))
        saves == {TargetFor(req, w) : w \in {v \in All(scan, {"-c", "-o"}) : IsOperand(v)}}
                 \cup IF HasAny(scan, {"-O"}) THEN {PathTarget(req, req.cmd.cwd)} ELSE {}
    IN  IF HasAny(scan, {"-K"}) \/ urls = {} \/ \E w \in urls : w.amb
        THEN Unresolved(req, "HTTP_REQUEST")
        ELSE Resolved("HTTP_REQUEST",
                {NetworkEffect(net(w), flags) : w \in urls}
                \cup Effects({"READ"}, reads, {}) \cup Effects({"CREATE", "WRITE"}, saves, {}))

-----------------------------------------------------------------------------
(* Build tools: declared, and pinned by the files that define the build.   *)

Registry == [NoNet EXCEPT !.declared = "dependency-registry"]

BuildOpRank == [BUILD_TOOL_INFO |-> 0, CLEAN |-> 1, RUN_TESTS |-> 2, BUILD |-> 3]

\* What the tool is declared to do: read the project, write (and, when it
\* cleans, delete) its output directories, use its cache, fetch, run code.
BuildEnvelope(req, dirs, cache, cleans) ==
    LET ws      == req.ctx.ws
        outputs == {PathTarget(req, d) : d \in dirs}
        stores  == {PathTarget(req, Append(Home, c)) : c \in cache}
    IN  Effects({"READ"}, {PathTarget(req, ws)}, {"recursive"})
        \cup Effects({"CREATE", "WRITE"} \cup IF cleans THEN {"DELETE"} ELSE {}, outputs, {"recursive"})
        \cup Effects({"READ", "WRITE"}, stores, {"recursive"})
        \cup {NetworkEffect(Registry, {}), ExecuteEffect(req.cmd.name, "DECLARED")}

SkippedDirs == {"node_modules", ".git", "build", "dist", "target", ".gradle", "out", "coverage"}

\* The files below root that a fingerprint walk keeps.
Collect(fs, root, names) ==
    {p \in DOMAIN fs : /\ IsFile(fs, p) /\ Under(p, root) /\ p # root
                       /\ names = {} \/ Last(p) \in names
                       /\ \A i \in Len(root) + 1 .. Len(p) - 1 : p[i] \notin SkippedDirs}

FileSetFingerprint(world, files) ==
    {<<p, IF p \in DOMAIN world.text THEN world.text[p] ELSE "">> :
        p \in {q \in files : IsFile(world.fs, q)}}

GradleScripts == {"build.gradle", "settings.gradle", "init.gradle"}

GradleConfigFiles(world, ws) ==
    {Append(ws, "gradlew"), Append(ws, "gradle.properties"),
     Home \o <<".gradle", "gradle.properties">>, Home \o <<".gradle", "init.gradle">>}
    \cup Collect(world.fs, ws, GradleScripts)
    \cup Collect(world.fs, Append(ws, "buildSrc"), {})
    \cup Collect(world.fs, Home \o <<".gradle", "init.d">>, GradleScripts)

MavenConfigFiles(world, ws) ==
    {Append(ws, "mvnw"), Home \o <<".m2", "settings.xml">>, Home \o <<".m2", "toolchains.xml">>}
    \cup Collect(world.fs, ws, {"pom.xml"}) \cup Collect(world.fs, Append(ws, ".mvn"), {})

PrintKey(kind, path, name) == [kind |-> kind, path |-> path, name |-> name]

\* A task or goal is a word with its name as text; parts is the module path.
GradleTaskOp ==
    [test |-> "RUN_TESTS", build |-> "BUILD", clean |-> "CLEAN", tasks |-> "BUILD_TOOL_INFO"]

MavenGoalOp ==
    [test |-> "RUN_TESTS", install |-> "BUILD", package |-> "BUILD", clean |-> "CLEAN",
     validate |-> "BUILD_TOOL_INFO"]

Strongest(ops) == CHOOSE o \in ops : \A p \in ops : BuildOpRank[p] <= BuildOpRank[o]

\* The checks both tools make, then the envelope and the fingerprint.
DeclareBuild(req, scan, table, effects, key, files) ==
    LET tasks == {w.text : w \in ToSet(scan.operands)}
        ops   == {table[x] : x \in tasks}
        present == {p \in files : IsFile(req.ctx.world.fs, p)}
    IN  IF tasks = {} \/ req.ctx.ws = <<>> \/ ~(tasks \subseteq DOMAIN table)
        THEN Unresolved(req, "UNKNOWN")
        ELSE IF Cardinality(present) > MaxFingerprintFiles
        THEN Unresolved(req, Strongest(ops))
        ELSE [Done(Strongest(ops), "DECLARED", effects)
                 EXCEPT !.fps = [k \in {PrintKey(key, req.ctx.ws, "")} |->
                                    FileSetFingerprint(req.ctx.world, present)]]

Cleans(scan) == \E w \in ToSet(scan.operands) : w.text = "clean"

IncludesBuild(world, ws) ==
    LET p == Append(ws, "settings.gradle")
    IN  IsFile(world.fs, p) /\ p \in DOMAIN world.text /\ world.text[p] = "includeBuild"

RecognizeGradle(req, scan) ==
    LET ws   == req.ctx.ws
        dirs == {Append(ws, "build"), Append(ws, ".gradle")}
                \cup {Append(ws \o w.parts, "build") : w \in ToSet(scan.operands)}
    IN  IF IncludesBuild(req.ctx.world, ws) THEN Unresolved(req, "UNKNOWN")
        ELSE DeclareBuild(req, scan, GradleTaskOp, BuildEnvelope(req, dirs, {".gradle"}, Cleans(scan)),
                          "gradle-config", GradleConfigFiles(req.ctx.world, ws))

RecognizeMaven(req, scan) ==
    LET ws   == req.ctx.ws
        poms == Collect(req.ctx.world.fs, ws, {"pom.xml"})
        dirs == {Append(ws, "target")} \cup {Append(Parent(p), "target") : p \in poms}
        installs == \E w \in ToSet(scan.operands) : w.text = "install"
        repo == {PathTarget(req, Append(Home, ".m2"))}
    IN  DeclareBuild(req, scan, MavenGoalOp,
            BuildEnvelope(req, dirs, IF installs THEN {".m2"} ELSE {}, Cleans(scan))
            \cup Effects({"READ"}, IF installs THEN {} ELSE repo, {"recursive"}),
            "maven-config", MavenConfigFiles(req.ctx.world, ws))

TestOutputs == {<<"coverage">>, <<"node_modules", ".cache">>}

\* A test runner: reads the project, writes its own output, runs project code.
TestEnvelope(req) ==
    Effects({"READ"}, {PathTarget(req, req.ctx.ws)}, {"recursive"})
    \cup Effects({"CREATE", "WRITE"}, {PathTarget(req, req.ctx.ws \o d) : d \in TestOutputs},
                 {"recursive"})
    \cup {ExecuteEffect(req.cmd.name, "DECLARED")}

RecognizeJSTest(req, scan) ==
    IF req.ctx.ws = <<>> THEN Unresolved(req, "RUN_TESTS")
    ELSE Done("RUN_TESTS", "DECLARED",
              TestEnvelope(req)
              \cup Effects({"READ"}, TargetsOf(req, ToSet(scan.operands)), {"recursive"}))

\* Of node only "node --test" is modelled.
RecognizeNode(req) ==
    IF req.cmd.args = <<>> \/ req.cmd.args[1].text # "--test" THEN Unresolved(req, "UNKNOWN")
    ELSE IF req.ctx.ws = <<>> THEN Unresolved(req, "RUN_TESTS")
    ELSE Done("RUN_TESTS", "DECLARED", TestEnvelope(req))

RecognizeRimraf(req, scan) ==
    IF scan.operands = <<>> THEN Unresolved(req, "FS_DELETE")
    ELSE Done("FS_DELETE", "DECLARED",
              Effects({"DELETE"}, TargetsOf(req, ToSet(scan.operands)), {"recursive", "force"}))

-----------------------------------------------------------------------------
(* Package managers.                                                       *)

InstallSubcommands == {"install", "ci", "add", "update", "uninstall"}

NpmRefusedFlags == {"-w", "--workspace", "--prefix", "--dir", "--userconfig", "--registry"}

NpmExecSafeFlags == {"-y", "--yes", "--no-install"}

Lockfiles == {"package-lock.json", "pnpm-lock.yaml", "yarn.lock"}

\* The words before "--"; those after it are passed to the script.
BeforeEnd(args) ==
    IF Separators(args) = {} THEN args
    ELSE SubSeq(args, 1, (CHOOSE i \in Separators(args) : \A j \in Separators(args) : i <= j) - 1)

FlagPresent(args, flags) ==
    \E i \in DOMAIN BeforeEnd(args) : args[i].text \in flags

Passthrough(args) == SubSeq(args, Len(BeforeEnd(args)) + 2, Len(args))

ManifestOf(req) == NearestPackageJSON(req.ctx.world.fs, req.cmd.cwd, req.ctx.ws)

NpmInstall(req, args, manifest) ==
    LET dir      == Parent(manifest)
        written  == {manifest} \cup {p \in {Append(dir, f) : f \in Lockfiles} :
                                        IsFile(req.ctx.world.fs, p)}
        installs == Done("INSTALL_DEPENDENCIES", "DECLARED",
            {NetworkEffect(Registry, {})}
            \cup Effects({"CREATE", "WRITE"}, {PathTarget(req, Append(dir, "node_modules"))}, {"recursive"})
            \cup Effects({"WRITE"}, {PathTarget(req, p) : p \in written}, {}))
    IN  IF FlagPresent(args, NpmRefusedFlags) \/ req.ctx.ws = <<>> \/ manifest = <<>>
        THEN Unresolved(req, "INSTALL_DEPENDENCIES")
        ELSE IF FlagPresent(args, {"--ignore-scripts"}) THEN installs
        ELSE Degrade([installs EXCEPT
                 !.effects = @ \cup {ExecuteEffect("lifecycle scripts", "UNRESOLVED")}])

\* The script with its pre and post stages, in the order they run.
PreStage == [test |-> "pretest", clean |-> "preclean"]

PostStage == [test |-> "posttest", clean |-> "postclean"]

ScriptStages(scripts, name) ==
    LET stage(x) == IF x \in DOMAIN scripts THEN <<x>> ELSE <<>>
    IN  stage(IF name \in DOMAIN PreStage THEN PreStage[name] ELSE "") \o stage(name)
        \o stage(IF name \in DOMAIN PostStage THEN PostStage[name] ELSE "")

\* The text of a stage: what npm was given after "--" ends up behind the
\* script's own last command.
StageText(text, extra) ==
    [i \in DOMAIN text |-> IF i = Len(text) THEN [text[i] EXCEPT !.args = @ \o extra] ELSE text[i]]

\* MergeFingerprints: the first value of a key stays.  Resolutions of one world
\* agree on the value of a key, so the order of the others does not matter.
MergePrints(own, prints) ==
    [k \in DOMAIN own \cup UNION {DOMAIN f : f \in prints} |->
        IF k \in DOMAIN own THEN own[k] ELSE (CHOOSE f \in prints : k \in DOMAIN f)[k]]

\* A wrapper takes over what its scripts do; there are no results for any
\* other command, which stays as it is.
TakeOver(c, results, children) ==
    [op      |-> c.op,
     git     |-> c.git,
     status  |-> Weakest({c.status} \cup {r.status : r \in results} \cup {x.status : x \in children}),
     effects |-> c.effects \cup UNION {x.effects : x \in children},
     targets |-> c.targets \cup UNION {x.targets : x \in children},
     fps     |-> MergePrints(c.fps, {x.fps : x \in children}),
     inside  |-> {[op |-> x.op, effects |-> x.effects, git |-> x.git] : x \in children}
                 \cup UNION {x.inside : x \in children}]

Absorb(c, results) ==
    TakeOver(c, ToSet(results), UNION {ToSet(r.commands) : r \in ToSet(results)})

\* What a call of a package manager asks for.  A project-supplied yarn or a
\* pnpm hook file runs code on every call.
NpmCall(cmd, npm) ==
    LET args == cmd.args
        sub  == args[1].text
        call(kind, name, rest) == [kind |-> kind, name |-> name, args |-> rest]
    IN  IF (cmd.name = "yarn" /\ npm.yarnPath) \/ (cmd.name = "pnpm" /\ npm.pnpmFile)
        THEN call("unknown", "", <<>>)
        ELSE IF cmd.name = "npx" THEN call("exec", "", args)
        ELSE IF args = <<>> THEN call("unknown", "", <<>>)
        ELSE IF sub \in InstallSubcommands THEN call("install", "", Tail(args))
        ELSE IF sub = "exec" THEN call("exec", "", Tail(args))
        ELSE IF sub = "run"
             THEN IF Len(args) = 1 THEN call("run", "", <<>>)
                  ELSE call("run", args[2].text, SubSeq(args, 3, Len(args)))
        ELSE IF sub = "test" \/ cmd.name \in {"yarn", "pnpm"} THEN call("run", sub, Tail(args))
        ELSE call("unknown", "", <<>>)

ScriptKey(manifest, name) == PrintKey("npm-script", manifest, name)

ScriptsIn(world, manifest) == world.manifests[manifest].scripts

RunRefused(req, call, manifest) ==
    \/ FlagPresent(call.args, NpmRefusedFlags) \/ req.ctx.ws = <<>> \/ manifest = <<>>
    \/ ScriptKey(manifest, call.name) \in req.chain
    \/ call.name \notin DOMAIN ScriptsIn(req.ctx.world, manifest)
    \/ req.ctx.world.npm.shell = "unknown"

\* A script to resolve is [text, cwd, key].
RunScripts(scripts, call, manifest) ==
    LET stages   == ScriptStages(scripts, call.name)
        extra(x) == IF x = call.name THEN Passthrough(call.args) ELSE <<>>
    IN  [i \in DOMAIN stages |->
            [text |-> StageText(scripts[stages[i]], extra(stages[i])),
             cwd  |-> Parent(manifest), key |-> ScriptKey(manifest, stages[i])]]

ScriptPrints(world, name, manifest) ==
    LET scripts == ScriptsIn(world, manifest)
        keys    == {ScriptKey(manifest, x) : x \in ToSet(ScriptStages(scripts, name))}
    IN  [k \in keys \cup {PrintKey("script-shell", <<>>, ""), PrintKey("packageManager", <<>>, "")} |->
            CASE k.kind = "script-shell"   -> world.npm.shell
              [] k.kind = "packageManager" -> world.manifests[manifest].manager
              [] k.kind = "npm-script"     -> scripts[k.name]]

NpmRunScript(req, call, manifest) ==
    IF RunRefused(req, call, manifest) THEN Unresolved(req, "RUN_SCRIPT")
    ELSE [Resolved("RUN_SCRIPT", {}) EXCEPT !.fps = ScriptPrints(req.ctx.world, call.name, manifest)]

\* npx and exec: only a binary that is already installed.
BinaryAt(args) == SelectInSeq(args, LAMBDA t : ~t.opt)

BinaryOf(args, at, manifest) == Parent(manifest) \o <<"node_modules", ".bin", args[at].text>>

ExecRefused(req, args, manifest) ==
    LET at == BinaryAt(args)
    IN  \/ at = 0 \/ ~({args[i].text : i \in 1 .. at - 1} \subseteq NpmExecSafeFlags \cup {"--"})
        \/ req.ctx.ws = <<>> \/ manifest = <<>>
        \/ BinaryOf(args, at, manifest) \notin DOMAIN req.ctx.world.fs

ExecScripts(cwd, args, manifest) ==
    LET at == BinaryAt(args)
    IN  <<[text |-> <<[kind |-> "call", name |-> args[at].text, redirs |-> <<>>, env |-> {},
                       args |-> SubSeq(args, at + 1, Len(args)), join |-> "", group |-> 0,
                       redirected |-> FALSE, background |-> FALSE]>>,
           cwd |-> cwd, key |-> PrintKey("exec", BinaryOf(args, at, manifest), "")]>>

\* The package manager itself; what its scripts do is absorbed later.
NpmCommand(req, call, manifest) ==
    CASE call.kind = "run"     -> NpmRunScript(req, call, manifest)
      [] call.kind = "exec"    -> IF ExecRefused(req, call.args, manifest)
                                  THEN Unresolved(req, "UNKNOWN") ELSE Resolved("RUN_SCRIPT", {})
      [] call.kind = "install" -> NpmInstall(req, call.args, manifest)
      [] call.kind = "unknown" -> Unresolved(req, "UNKNOWN")

RecognizeNpm(req) ==
    NpmCommand(req, NpmCall(req.cmd, req.ctx.world.npm), ManifestOf(req))

\* The scripts a command runs, in their order.
NpmScripts(req, call, manifest) ==
    IF call.kind = "run" /\ ~RunRefused(req, call, manifest)
    THEN RunScripts(ScriptsIn(req.ctx.world, manifest), call, manifest)
    ELSE IF call.kind = "exec" /\ ~ExecRefused(req, call.args, manifest)
    THEN ExecScripts(req.cmd.cwd, call.args, manifest) ELSE <<>>

PackageManagers == {"npm", "pnpm", "yarn", "npx"}

ScriptsOf(req) ==
    IF req.cmd.name \notin PackageManagers THEN <<>>
    ELSE NpmScripts(req, NpmCall(req.cmd, req.ctx.world.npm), ManifestOf(req))

-----------------------------------------------------------------------------
(* Dispatch, and the rules for every command.                              *)

GrammarOf ==
    [head |-> "readfile", wc |-> "readfile", ls |-> "ls", echo |-> "noop", true |-> "noop",
     rm |-> "rm", cp |-> "cp", mv |-> "mv", mkdir |-> "mkdir", cat |-> "cat", grep |-> "grep",
     find |-> "find", curl |-> "curl", gradle |-> "gradle", mvn |-> "maven", jest |-> "jstest",
     rimraf |-> "rimraf"]

UnknownOp ==
    [readfile |-> "FS_READ", ls |-> "FS_READ", noop |-> "NOOP", rm |-> "FS_DELETE", cp |-> "FS_COPY",
     mv |-> "FS_MOVE", mkdir |-> "FS_CREATE", cat |-> "FS_READ", grep |-> "FS_READ",
     find |-> "FS_READ", curl |-> "HTTP_REQUEST", gradle |-> "UNKNOWN", maven |-> "UNKNOWN",
     jstest |-> "RUN_TESTS", rimraf |-> "FS_DELETE"]

RecognizeScanned(req, g, scan) ==
    IF ~scan.ok THEN Unresolved(req, UnknownOp[g])
    ELSE CASE g \in {"readfile", "cat"} -> RecognizeRead(req, scan)
           [] g = "ls"     -> RecognizeList(req, scan)
           [] g = "noop"   -> Resolved("NOOP", {})
           [] g = "rm"     -> RecognizeRemove(req, scan)
           [] g = "cp"     -> RecognizeCopy(req, scan)
           [] g = "mv"     -> RecognizeMove(req, scan)
           [] g = "mkdir"  -> RecognizeMakeDir(req, scan)
           [] g = "grep"   -> RecognizeGrep(req, scan)
           [] g = "find"   -> RecognizeFind(req, scan)
           [] g = "curl"   -> RecognizeCurl(req, scan)
           [] g = "gradle" -> RecognizeGradle(req, scan)
           [] g = "maven"  -> RecognizeMaven(req, scan)
           [] g = "jstest" -> RecognizeJSTest(req, scan)
           [] g = "rimraf" -> RecognizeRimraf(req, scan)

DispatchCommand(req) ==
    LET name == req.cmd.name
    IN  IF name = "git" THEN RecognizeGit(req)
        ELSE IF name = "node" THEN RecognizeNode(req)
        ELSE IF name \in PackageManagers THEN RecognizeNpm(req)
        ELSE IF name \in DOMAIN GrammarOf THEN RecognizeScanned(req, GrammarOf[name], Scan(GrammarOf[name], req.cmd.args))
        ELSE Unresolved(req, "UNKNOWN")

RedirectionTypes(op) ==
    IF op = "<" THEN {"READ"} ELSE IF op \in {">>", "&>>"} THEN {"WRITE"} ELSE {"CREATE", "WRITE"}

ApplyRedirections(req, c) ==
    LET added == UNION {{[Effect(y, t, {}) EXCEPT !.flags = {}] :
                            y \in RedirectionTypes(r.op), t \in TargetsFor(req, r.word)} :
                        r \in ToSet(req.cmd.redirs)}
    IN  [c EXCEPT !.effects = @ \cup added, !.targets = @ \cup {e.target : e \in added}]

ApplyEnvironmentOverrides(req, c) ==
    IF \E n \in req.cmd.env : IsDangerousEnvAssignment(n) THEN Degrade(c) ELSE c

\* An interpreter that is fed by a pipe runs what nobody has read.
ApplyStreamedInput(req, c) ==
    LET own(e) == e.type = "EXECUTE" /\ e.prog.name = req.cmd.name
        marked == {[e EXCEPT !.prog.streamed = own(e) \/ @] : e \in c.effects}
        added  == [ExecuteEffect(req.cmd.name, "UNRESOLVED") EXCEPT !.prog.streamed = TRUE]
    IN  IF ~req.cmd.pipedFrom \/ req.cmd.name \notin StreamInterpreters THEN c
        ELSE Degrade([c EXCEPT !.effects = IF \E e \in @ : own(e) THEN marked ELSE @ \cup {added}])

ApplyElevation(req, c) ==
    IF ~req.cmd.elevated THEN c
    ELSE Degrade([c EXCEPT !.effects = {[e EXCEPT !.flags = @ \cup {"elevated"}] : e \in @}])

\* One command, given what its scripts came to.
Recognize(req, results) ==
    ApplyElevation(req, ApplyStreamedInput(req, ApplyEnvironmentOverrides(req,
        ApplyRedirections(req, Absorb(DispatchCommand(req), results)))))

-----------------------------------------------------------------------------
(* Scripts of scripts.                                                     *)

\* A request of a command line is [ctx, cmd, chain]; chain holds the scripts
\* that lead to it.
HopRequest(req, script, cmd) ==
    [ctx |-> req.ctx, cmd |-> cmd, chain |-> req.chain \cup {script.key}]

Hops(req) ==
    UNION {{HopRequest(req, s, c) : c \in ToSet(Parse(s.text, s.cwd).commands)} :
           s \in ToSet(ScriptsOf(req))}

\* Everything that is asked below the requests of the line, by wrapper hops.
Levels(top) ==
    LET lev[n \in 0 .. MaxDepth] == IF n = 0 THEN top ELSE UNION {Hops(r) : r \in lev[n - 1]}
    IN  lev

\* limit is the number of commands examined before the time budget ends.
Examined(commands, limit) == DOMAIN commands \cap 1 .. limit

Late(commands, limit) == ~(DOMAIN commands \subseteq 1 .. limit)

LateStatus(late) == IF late THEN "UNRESOLVED" ELSE "RESOLVED"

ParseStatus(parsed) == IF ParsedOK(parsed) THEN "RESOLVED" ELSE "PARSE_FAILED"

\* resolveScript: below holds what the requests one hop further down come to.
ResolveParsed(req, script, parsed, limit, below) ==
    [status |-> Weakest({ParseStatus(parsed), LateStatus(Late(parsed.commands, limit))}),
     commands |-> [i \in Examined(parsed.commands, limit) |->
                      below[HopRequest(req, script, parsed.commands[i])]]]

ResolveScript(req, script, limit, below) ==
    ResolveParsed(req, script, Parse(script.text, script.cwd), limit, below)

NotFollowed == [status |-> "UNRESOLVED", commands |-> <<>>]

\* The scripts of a request when n more hops are followed.
ScriptResults(req, scripts, limit, n, below) ==
    [i \in DOMAIN scripts |->
        IF n = 0 THEN NotFollowed ELSE ResolveScript(req, scripts[i], limit, below)]

RecognizeAll(requests, limit, n, below) ==
    [r \in requests |-> Recognize(r, ScriptResults(r, ScriptsOf(r), limit, n, below))]

\* What every request comes to, by the hops still followed below it, from
\* the deepest ones up.  No request is deeper than MaxDepth, so the check of
\* the depth that recognize repeats never fails.
Resolutions(levels, limit) ==
    LET tab[n \in 0 .. MaxDepth] ==
            RecognizeAll(levels[MaxDepth - n], limit, n, IF n = 0 THEN <<>> ELSE tab[n - 1])
    IN  tab

-----------------------------------------------------------------------------
(* The action.                                                             *)

\* aggregate: the weakest status, everything any command does.  Commands past
\* the cap cost the approval, never the floor's view of them.
Aggregate(ctx, line, commands, status, incomplete) ==
    LET all  == ToSet(commands)
        capped == IF Len(commands) > MaxCommands THEN "UNRESOLVED" ELSE "RESOLVED"
    IN  [project |-> ctx.ws, raw |-> line, incomplete |-> incomplete,
         status |-> Weakest({status, capped} \cup {c.status : c \in all}),
         commands |-> commands,
         nested |-> {[op |-> c.op, effects |-> c.effects, git |-> c.git] : c \in all}
                    \cup UNION {c.inside : c \in all},
         ops |-> [i \in DOMAIN commands |-> commands[i].op],
         effects |-> UNION {c.effects : c \in all},
         fps |-> MergePrints(NoPrints, {c.fps : c \in all})]

LineRequest(ctx, cmd) == [ctx |-> ctx, cmd |-> cmd, chain |-> {}]

\* What the commands of a line come to.
LineResults(ctx, commands, limit, found) ==
    [i \in Examined(commands, limit) |-> found[LineRequest(ctx, commands[i])]]

FoundFor(ctx, commands, limit) ==
    Resolutions(Levels({LineRequest(ctx, c) : c \in ToSet(commands)}), limit)[MaxDepth]

ResolveLine(ctx, limit, line, parsed) ==
    Aggregate(ctx, line,
              LineResults(ctx, parsed.commands, limit, FoundFor(ctx, parsed.commands, limit)),
              Weakest({ctx.status, ParseStatus(parsed), LateStatus(Late(parsed.commands, limit))}),
              Truncated(parsed) \/ Late(parsed.commands, limit))

ResolveInContext(ctx, limit, line, cwd) == ResolveLine(ctx, limit, line, Parse(line, cwd))

\* Every path a resolution looked up, for the cache of generated directories.
LookedUp(act) == {e.target.path : e \in act.effects}

=============================================================================
