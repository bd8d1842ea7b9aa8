------------------------------ MODULE Machine ------------------------------
(***************************************************************************)
(* What a command line really touches, by the rules of the shell, the      *)
(* kernel and the programs it calls: a reference to hold the resolver's    *)
(* prediction against.  Every definition is external to the repository.    *)
(*                                                                         *)
(* All commands are taken to succeed on the file tree as it is when the    *)
(* request is evaluated.  A touch is [type, path, inside]; inside marks a  *)
(* path the line does not name itself: an entry a copy or a move makes in  *)
(* a directory.  Programs the resolver does not model, the payload of an   *)
(* interpreter and the body of a compound command touch nothing here.      *)
(***************************************************************************)
EXTENDS Resolver

Touch(types, paths, inside) ==
    {[type |-> y, path |-> p, inside |-> inside] : y \in types, p \in paths}

\* Path resolution of the kernel from a directory: ".." leaves the directory a
\* link led to; the last component is followed on demand.
KernelPath(fs, dir, parts, follow) ==
    FoldLeftDomain(LAMBDA acc, i :
                       IF parts[i] = ".." THEN Parent(acc)
                       ELSE IF i = Len(parts) /\ ~follow THEN Append(acc, parts[i])
                       ELSE FollowLink(fs, Append(acc, parts[i])),
                   dir, parts)

\* The paths a word stands for once the shell has expanded it.
ShellPaths(fs, cwd, token, follow) ==
    LET known == [HOME |-> Home, TMPDIR |-> TempDir, PWD |-> cwd]
        start == IF token.var \in DOMAIN known THEN EvalSymlinks(fs, known[token.var])
                 ELSE IF token.abs THEN <<>> ELSE EvalSymlinks(fs, cwd)
        plain == KernelPath(fs, start, token.parts, follow \/ token.glob)
        found == {p \in DOMAIN fs : p # <<>> /\ Parent(p) = plain}
    IN  IF token.var \notin DOMAIN known \cup {""} \/ token.subst THEN {}
        ELSE IF token.glob THEN {IF follow THEN FollowLink(fs, p) ELSE p : p \in found}
        ELSE {plain}

Paths(fs, cwd, tokens, follow) == UNION {ShellPaths(fs, cwd, w, follow) : w \in tokens}

Subtree(fs, p) == {q \in DOMAIN fs : Under(q, p)} \cup {p}

-----------------------------------------------------------------------------
(* Programs.                                                               *)

\* The options that take the next word, as the programs define them.
TakesValue ==
    [head |-> {"-n", "-c"}, wc |-> {}, ls |-> {}, cat |-> {}, rm |-> {}, cp |-> {"-t"},
     mv |-> {"-t"}, mkdir |-> {"-m"}, grep |-> {"-e", "-f"}, find |-> {"-fprint", "-exec"},
     curl |-> {"-X", "-d", "-T", "-o", "-u", "-K", "-b", "-c"}, rimraf |-> {}]

RealScan(st) ==
    LET g == [Grammar({}, TakesValue[st.name], {}, st.name # "find", TRUE) EXCEPT !.inline = {}]
    IN  FoldLeft(LAMBDA s, t : ScanToken(g, s, t),
                 [ended |-> FALSE, need |-> "", operands |-> <<>>, leading |-> 0, saw |-> FALSE,
                  unknown |-> FALSE, options |-> [x \in {} |-> <<>>]], st.args)

\* Where a copy or a move puts its sources: into a directory, or at the path.
\* A directory that the destination already holds keeps what it has.
Landing(fs, cwd, sources, dest) ==
    UNION {IF IsDir(fs, d)
           THEN Touch({"CREATE"}, {Append(d, Last(s)) : s \in {q \in sources : q # <<>>}}, TRUE)
           ELSE Touch({"CREATE"}, {d}, FALSE) :
           d \in ShellPaths(fs, cwd, dest, TRUE)}

RemovalOf(fs, entries, recursive) ==
    UNION {IF ~IsDir(fs, p) THEN Touch({"DELETE"}, {p}, FALSE)
           ELSE IF recursive THEN Touch({"DELETE"}, Subtree(fs, p), FALSE) ELSE {} : p \in entries}

\* The paths git itself guarantees to be files: operands of add and the two
\* sides of diff --no-index.
GitTouches(fs, cwd, st) ==
    LET words == {w \in ToSet(st.args) : ~w.opt}
        named == words \ {st.args[1]}
    IN  IF st.args = <<>> THEN {}
        ELSE IF \/ st.args[1].text = "add"
                \/ st.args[1].text = "diff" /\ \E w \in ToSet(st.args) : w.text = "--no-index"
        THEN Touch({"READ"}, Paths(fs, cwd, named, TRUE), FALSE) ELSE {}

ProgramTouches(fs, cwd, st, scan) ==
    LET operands  == ToSet(scan.operands)
        recursive == Recursive(scan) # {}
        named     == Paths(fs, cwd, operands, TRUE)
        entries   == Paths(fs, cwd, operands, FALSE)
        moved     == HasDestination(scan)
    IN  CASE st.name \in {"cat", "head", "wc"} ->
                Touch({"READ"}, Paths(fs, cwd, {w \in operands : IsOperand(w)}, TRUE), FALSE)
          [] st.name = "grep" ->
                LET files == Paths(fs, cwd, {w \in ToSet(GrepFiles(scan)) : IsOperand(w)}, TRUE)
                IN  Touch({"READ"}, UNION {IF recursive THEN Subtree(fs, p) ELSE {p} : p \in files}, FALSE)
                    \cup Touch({"READ"}, Paths(fs, cwd, All(scan, {"-f"}), TRUE), FALSE)
          [] st.name = "ls" ->
                LET dirs == IF operands = {} THEN Paths(fs, cwd, {Here}, TRUE) ELSE named
                IN  Touch({"READ"}, UNION {IF recursive THEN Subtree(fs, p) ELSE {p} : p \in dirs}, FALSE)
          [] st.name = "rm" -> RemovalOf(fs, entries, recursive)
          [] st.name = "rimraf" -> RemovalOf(fs, entries, TRUE)
          [] st.name = "mkdir" -> Touch({"CREATE"}, named, FALSE)
          [] st.name = "cp" ->
                IF ~moved THEN {}
                ELSE LET from == Paths(fs, cwd, Sources(scan), TRUE)
                     IN  Touch({"READ"}, UNION {IF recursive THEN Subtree(fs, p) ELSE {p} : p \in from}, FALSE)
                         \cup Landing(fs, cwd, from, Destination(scan))
          [] st.name = "mv" ->
                IF ~moved THEN {}
                ELSE LET from == Paths(fs, cwd, Sources(scan), FALSE)
                     IN  RemovalOf(fs, from, TRUE) \cup Landing(fs, cwd, from, Destination(scan))
          [] st.name = "find" ->
                LET starts == Paths(fs, cwd, IF scan.leading = 0 THEN {Here}
                                             ELSE ToSet(SubSeq(scan.operands, 1, scan.leading)), FALSE)
                IN  Touch({"READ"}, {p \in starts : IsDir(fs, p)}, FALSE)
                    \cup (IF HasAny(scan, {"-delete"}) THEN RemovalOf(fs, starts, TRUE) ELSE {})
                    \cup Touch({"WRITE"}, Paths(fs, cwd, All(scan, {"-fprint"}), TRUE), FALSE)
          [] st.name = "curl" ->
                Touch({"READ"}, Paths(fs, cwd, All(scan, {"-T"}) \cup CurlBodyFiles(scan)
                                               \cup CurlCookieFiles(scan), TRUE), FALSE)
                \cup Touch({"WRITE"}, Paths(fs, cwd, All(scan, {"-o", "-c"}), TRUE), FALSE)
          [] OTHER -> {}

\* >&word is a redirection of both streams when word is not a number.
RealRedirections == [op \in {">", ">>", "<", "<>", "&>", ">&"} |->
                        IF op = "<" THEN {"READ"} ELSE {"WRITE"}]

RedirectionTouches(fs, cwd, st) ==
    UNION {Touch(RealRedirections[r.op],
                 {p \in ShellPaths(fs, cwd, r.word, TRUE) : ~Under(p, <<"dev">>)}, FALSE) :
           r \in ToSet(st.redirs)}

-----------------------------------------------------------------------------
(* Lines.                                                                  *)

\* What sudo and doas run.
Inner(st) ==
    LET words == StripElevationOptions(st.args)
    IN  IF st.name \in {"sudo", "doas"} /\ words # <<>>
        THEN [st EXCEPT !.name = words[1].text, !.args = Tail(words)] ELSE st

\* The scripts a statement makes npm run, with the directory they run in.
ScriptName(st) ==
    IF st.name # "npm" \/ st.args = <<>> THEN ""
    ELSE IF st.args[1].text = "test" THEN "test"
    ELSE IF st.args[1].text = "run" /\ Len(st.args) > 1 THEN st.args[2].text ELSE ""

Manifest(world, cwd) ==
    LET dir   == EvalSymlinks(world.fs, cwd)
        found == {Append(p, "package.json") : p \in Prefixes(dir)} \cap DOMAIN world.manifests
    IN  IF found = {} THEN <<>> ELSE Deepest(found)

StagesRun(world, cwd, st) ==
    LET m == Manifest(world, cwd)
    IN  IF m = <<>> \/ ScriptName(st) = "" THEN <<>>
        ELSE IF ScriptName(st) \notin DOMAIN world.manifests[m].scripts THEN <<>>
        ELSE ScriptStages(world.manifests[m].scripts, ScriptName(st))

CallLimit == 3

RECURSIVE Happens(_, _, _, _)

\* Everything a line touches, and the scripts it runs.  cd moves the commands
\* after it; the directory is the shell's logical one.
Happens(world, start, line, depth) ==
    LET own(cwd, st) ==
            IF st.name = "git" THEN GitTouches(world.fs, cwd, st)
            ELSE IF st.name \in DOMAIN TakesValue THEN ProgramTouches(world.fs, cwd, st, RealScan(st))
            ELSE {}
        extra(st, x) == IF x = ScriptName(st) THEN Passthrough(Tail(st.args)) ELSE <<>>
        runs(st, m, stages) ==
            IF depth = CallLimit THEN {}
            ELSE {Happens(world, Parent(m), StageText(world.manifests[m].scripts[x], extra(st, x)),
                          depth + 1) : x \in stages}
        after(cwd, args) ==
            IF args = <<>> THEN Home ELSE Clean(Absolutize(Expand(args[1], start), cwd))
        step(s, st, m, stages, inner) ==
            [cwd     |-> IF st.name # "cd" THEN s.cwd
                         ELSE after(s.cwd, SelectSeq(st.args, LAMBDA w : w.text # "--")),
             touches |-> s.touches \cup own(s.cwd, st) \cup RedirectionTouches(world.fs, s.cwd, st)
                         \cup UNION {r.touches : r \in inner},
             scripts |-> s.scripts \cup {<<m, x>> : x \in stages} \cup UNION {r.scripts : r \in inner}]
        called(s, st, m, stages) == step(s, st, m, stages, runs(st, m, stages))
        call(s, st) ==
            called(s, st, Manifest(world, s.cwd), ToSet(StagesRun(world, s.cwd, st)))
    IN  FoldLeftDomain(LAMBDA s, i : IF line[i].kind = "call" THEN call(s, Inner(line[i])) ELSE s,
                       [cwd |-> start, touches |-> {}, scripts |-> {}], line)

=============================================================================
