------------------------------- MODULE Scope -------------------------------
(***************************************************************************)
(* Path normalisation and scope classification (internal/scope and the     *)
(* path rules of internal/platform, Linux rules).  A path is a sequence of *)
(* component names, the root is <<>>.  A file tree fs maps every existing  *)
(* path to a node [kind, to]; to is where a link leads and is free of      *)
(* further links, so resolving takes one pass over the components.         *)
(* A word of a command line is [abs, parts, glob, amb]: the literal        *)
(* directory prefix, whether "/*" follows it, and whether it still holds a *)
(* variable nobody expanded.                                               *)
(***************************************************************************)
EXTENDS Naturals, FiniteSets, Sequences, SequencesExt

CONSTANTS
    Home,             \* the user's home directory
    SystemRoots,      \* named system roots; the root <<>> is one by itself
    TempRoots,        \* temp roots, in every spelling links give them
    StandardHomeDirs, \* names that are broad directly under Home
    SensitiveTrees,   \* directories whose whole subtree is sensitive
    SensitiveNames,   \* final components that are sensitive anywhere
    ToolCaches,       \* directories of package and build tool caches
    GeneratedExtra,   \* configured generated roots
    MaxGlobMatches    \* matches looked at for links that leave the directory

-----------------------------------------------------------------------------
(* Path rules.                                                             *)

Under(p, root) == IsPrefix(root, p)

Parent(p) == IF p = <<>> THEN p ELSE Front(p)

IsTemp(p) == \E r \in TempRoots : Under(p, r)

IsSystem(p) ==
    /\ ~IsTemp(p)
    /\ p = <<>> \/ \E r \in SystemRoots : Under(p, r)

IsSensitive(p) ==
    \/ \E d \in SensitiveTrees : Under(p, d)
    \/ p # <<>> /\ Last(p) \in SensitiveNames

IsToolCache(p) == \E d \in ToolCaches : Under(p, d)

\* A path that names a whole area rather than one item.
IsBroad(p, ws) ==
    p \in {<<>>, ws, Home} \cup {Append(Home, n) : n \in StandardHomeDirs}
          \cup TempRoots \cup SystemRoots

-----------------------------------------------------------------------------
(* From a word to a canonical path.                                        *)

IsFile(fs, p) == p \in DOMAIN fs /\ fs[p].kind = "file"

IsDir(fs, p) == p \in DOMAIN fs /\ fs[p].kind = "dir"

\* filepath.Clean: "." disappears, ".." removes what precedes it.
Clean(parts) ==
    LET upTo[n \in 0 .. Len(parts)] ==
            IF n = 0 THEN <<>>
            ELSE IF parts[n] = ".." THEN Parent(upTo[n - 1])
            ELSE IF parts[n] = "." THEN upTo[n - 1] ELSE Append(upTo[n - 1], parts[n])
    IN  upTo[Len(parts)]

Absolutize(word, cwd) == IF word.abs THEN word.parts ELSE cwd \o word.parts

\* One component of filepath.EvalSymlinks.
FollowLink(fs, p) ==
    IF p \in DOMAIN fs /\ fs[p].kind = "link" THEN fs[p].to ELSE p

EvalSymlinks(fs, p) ==
    LET upTo[n \in 0 .. Len(p)] ==
            IF n = 0 THEN <<>> ELSE FollowLink(fs, Append(upTo[n - 1], p[n]))
    IN  upTo[Len(p)]

\* The longest prefix that resolves to something that exists is resolved, the
\* remainder is appended as written.
Canonicalize(fs, p) ==
    LET resolving == {n \in 0 .. Len(p) : n = 0 \/ EvalSymlinks(fs, SubSeq(p, 1, n)) \in DOMAIN fs}
        cut == CHOOSE n \in resolving : \A k \in resolving : k <= n
    IN  EvalSymlinks(fs, SubSeq(p, 1, cut)) \o SubSeq(p, cut + 1, Len(p))

\* A path written with ".." that started in the workspace and ends outside.
EscapesWorkspace(word, cleaned, ws) ==
    /\ ws # <<>>
    /\ \E i \in DOMAIN word.parts : word.parts[i] = ".."
    /\ ~word.abs \/ Under(Clean(word.parts), ws)
    /\ ~Under(cleaned, ws)

\* How approvals show a path: relative to the workspace, else to the home
\* directory, else absolute; a wildcard stays visible.
Display(p, ws, glob) ==
    LET base == IF ws # <<>> /\ Under(p, ws) THEN ws
                ELSE IF Under(p, Home) THEN Home ELSE <<>>
    IN  [base |-> IF base = <<>> THEN "/" ELSE IF base = ws THEN "." ELSE "~",
         rest |-> SubSeq(p, Len(base) + 1, Len(p)),
         glob |-> glob]

-----------------------------------------------------------------------------
(* Generated directories.                                                  *)

NodeGenerated == {"node_modules", "dist", "build"}

\* The rules for one directory: next to a package.json, a Gradle build file or
\* a pom.xml, below buildSrc, or configured.
ComputeGeneratedRoot(fs, dir, ws) ==
    /\ dir # ws /\ dir # <<>>
    /\ LET beside(f) == IsFile(fs, Append(Parent(dir), f))
       IN  \/ dir \in GeneratedExtra
           \/ Last(dir) \in NodeGenerated /\ beside("package.json")
           \/ /\ Last(dir) = "build"
              /\ beside("build.gradle") \/ Parent(dir) = Append(ws, "buildSrc")
           \/ dir = Append(ws, ".gradle")
           \/ Last(dir) = "target" /\ beside("pom.xml")

\* Directories whose answer depends on what lies beside them.  The cache keeps
\* an answer for every directory; the others can never disagree with a fresh
\* computation and are left out of it.
DependsOnMarker(dir) == dir # <<>> /\ Last(dir) \in NodeGenerated \cup {"build", "target"}

\* The answer given for dir when cache holds the answers given before.
IsGeneratedRoot(fs, cache, dir, ws) ==
    IF dir \in DOMAIN cache THEN cache[dir] ELSE ComputeGeneratedRoot(fs, dir, ws)

\* The remembered answers that a fresh computation would not give.
Outdated(fs, cache, ws) ==
    [d \in {x \in DOMAIN cache : cache[x] # ComputeGeneratedRoot(fs, x, ws)} |-> cache[d]]

\* The directories the walk from p up to the workspace looks at.
Ancestors(p, ws) == {SubSeq(p, 1, n) : n \in Len(ws) .. Len(p)}

UnderGeneratedRoot(fs, cache, p, ws) ==
    /\ ws # <<>> /\ Under(p, ws)
    /\ \E dir \in Ancestors(p, ws) : IsGeneratedRoot(fs, cache, dir, ws)

\* The cache after a request: it enumerated the generated roots of the
\* workspace, never descending into one, and looked at paths.
Remember(fs, cache, paths, ws) ==
    LET seen == {d \in UNION {Ancestors(p, ws) : p \in {q \in paths : Under(q, ws)}}
                       \cup {q \in DOMAIN fs :
                                /\ q # <<>> /\ Under(q, ws) /\ fs[q].kind = "dir"
                                /\ ~UnderGeneratedRoot(fs, cache, Parent(q), ws)} :
                    DependsOnMarker(d)}
    IN  [d \in DOMAIN cache \cup seen |-> IsGeneratedRoot(fs, cache, d, ws)]

-----------------------------------------------------------------------------
(* Classification.                                                         *)

ScopeOf(fs, cache, p, ws) ==
    IF IsSystem(p) THEN "SYSTEM"
    ELSE IF ws # <<>> /\ Under(p, ws)
    THEN IF UnderGeneratedRoot(fs, cache, p, ws) THEN "GENERATED" ELSE "WORKSPACE"
    ELSE IF Under(p, Home) THEN "HOME" ELSE "OUTSIDE"

FlagsOf(p, ws) ==
    {f \in {"temp", "sensitive", "tool_cache", "broad"} :
        \/ f = "temp" /\ IsTemp(p)
        \/ f = "sensitive" /\ IsSensitive(p)
        \/ f = "tool_cache" /\ IsToolCache(p)
        \/ f = "broad" /\ IsBroad(p, ws)}

Target(fs, cache, p, ws, glob, amb, extra) ==
    [path |-> p, scope |-> ScopeOf(fs, cache, p, ws), flags |-> FlagsOf(p, ws) \cup extra,
     isDir |-> IsDir(fs, p), amb |-> amb, display |-> Display(p, ws, glob)]

\* How the word reached the place.
Manner(word, cleaned, canonical, ws) ==
    {f \in {"traversal", "symlink_escape", "wildcard"} :
        \/ f = "traversal" /\ EscapesWorkspace(word, cleaned, ws)
        \/ f = "symlink_escape" /\ ws # <<>> /\ Under(cleaned, ws) /\ ~Under(canonical, ws)
        \/ f = "wildcard" /\ word.glob}

Located(fs, cache, ws, word, cleaned, canonical) ==
    Target(fs, cache, canonical, ws, word.glob, word.amb, Manner(word, cleaned, canonical, ws))

Normalize(fs, cache, ws, cwd, word) ==
    LET cleaned == Clean(Absolutize(word, cwd))
    IN  Located(fs, cache, ws, word, cleaned, Canonicalize(fs, cleaned))

\* The entries a wildcard matches that resolve outside the wildcard's own
\* directory, which primary names; none are looked at when there are too many.
EscapingMatches(fs, cache, ws, primary) ==
    LET matches == {p \in DOMAIN fs : p # <<>> /\ Parent(p) = primary.path}
        escaped == {q \in {Canonicalize(fs, p) : p \in matches} : ~Under(q, primary.path)}
    IN  IF Cardinality(matches) > MaxGlobMatches THEN {}
        ELSE {Target(fs, cache, q, ws, FALSE, FALSE, {"symlink_escape"}) : q \in escaped}

\* As a bug: a wildcard judged by its directory alone.
NormalizeDirectoryOnly(fs, cache, ws, cwd, word) == {Normalize(fs, cache, ws, cwd, word)}

WithMatches(fs, cache, ws, word, primary) ==
    {primary} \cup IF word.glob /\ ~word.amb THEN EscapingMatches(fs, cache, ws, primary) ELSE {}

NormalizeWord(fs, cache, ws, cwd, word) ==
    WithMatches(fs, cache, ws, word, Normalize(fs, cache, ws, cwd, word))

=============================================================================
