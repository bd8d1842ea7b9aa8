------------------------------ MODULE MCDecide -----------------------------
(* A project at ~/w with a package.json, links that leave it, a credential  *)
(* file and a script that calls another one; four states of it.             *)
EXTENDS Foresight

MCHome == <<"home", "u">>
W == MCHome \o <<"w">>
MCSystemRoots == {<<"etc">>}
MCTempRoots == {<<"tmp">>}
MCTempDir == <<"tmp">>
MCSensitiveTrees == {Append(MCHome, ".ssh")}

-----------------------------------------------------------------------------
(* Words and statements.                                                    *)

Rel(parts) == Token(FALSE, "", <<>>, FALSE, "", FALSE, parts, FALSE)
Abs(parts) == Token(FALSE, "", <<>>, FALSE, "", TRUE, parts, FALSE)
Star(parts) == Token(FALSE, "", <<>>, FALSE, "", FALSE, parts, TRUE)
In(var, parts) == Token(FALSE, "", <<>>, FALSE, var, FALSE, parts, FALSE)
Txt(text) == Token(FALSE, text, <<>>, FALSE, "", FALSE, <<text>>, FALSE)
Marked(text, mark) == Token(FALSE, text, <<mark>>, FALSE, "", FALSE, <<text>>, FALSE)
Flag(text) == Token(TRUE, text, <<text>>, FALSE, "", FALSE, <<>>, FALSE)
Flags(a, b) == Token(TRUE, "", <<a, b>>, FALSE, "", FALSE, <<>>, FALSE)
Long(text) == Token(TRUE, text, <<>>, FALSE, "", FALSE, <<>>, FALSE)

Call(name, args) ==
    [kind |-> "call", name |-> name, args |-> args, redirs |-> <<>>, env |-> {}, join |-> "",
     group |-> 0, redirected |-> FALSE, background |-> FALSE]

Then(join, st) == [st EXCEPT !.join = join]
To(st, op, word) == [st EXCEPT !.redirs = <<[op |-> op, word |-> word]>>]

A == Rel(<<"src", "a">>)
Build1 == Rel(<<"build">>)
RmRf(word) == Call("rm", <<Flags("-r", "-f"), word>>)
Echo == Call("echo", <<Txt("x")>>)
Git(args) == Call("git", args)
Npm(args) == Call("npm", args)

-----------------------------------------------------------------------------
(* Worlds.                                                                  *)

D == [kind |-> "dir", to |-> <<>>]
F == [kind |-> "file", to |-> <<>>]
L(to) == [kind |-> "link", to |-> to]

Below(root, tree) == [p \in {root \o q : q \in DOMAIN tree} |-> tree[SubSeq(p, Len(root) + 1, Len(p))]]

Project ==
    (<<>> :> D) @@ (<<".git">> :> D) @@ (<<".git", "hooks">> :> D)
    @@ (<<"package.json">> :> F) @@ (<<"build.gradle">> :> F) @@ (<<".env">> :> F)
    @@ (<<"src">> :> D) @@ (<<"src", "a">> :> F)
    @@ (<<"build">> :> D) @@ (<<"build", "out">> :> F) @@ (<<"build", "esc">> :> L(<<"data", "f">>))
    @@ (<<"lnk">> :> L(MCHome \o <<"Documents">>))
    @@ (<<"node_modules">> :> D) @@ (<<"node_modules", ".bin">> :> D)
    @@ (<<"node_modules", ".bin", "rimraf">> :> F)

Around ==
    (<<>> :> D) @@ (<<"etc">> :> D) @@ (<<"etc", "p">> :> F) @@ (<<"tmp">> :> D) @@ (<<"tmp", "t">> :> D)
    @@ (<<"data">> :> D) @@ (<<"data", "f">> :> F)
    @@ (<<"home">> :> D) @@ (MCHome :> D) @@ (Append(MCHome, ".ssh") :> D)
    @@ (MCHome \o <<".ssh", "k">> :> F)
    @@ (MCHome \o <<"Documents">> :> D) @@ (MCHome \o <<"Documents", "x">> :> F)

Scripts(clean, test) ==
    [clean |-> clean, test |-> test, pretest |-> <<Npm(<<Txt("run"), Txt("clean")>>)>>]

NoFiles == [p \in {} |-> F]

World(project, scripts, gradle, branch) ==
    [fs |-> Around @@ Below(W, project),
     manifests |-> IF <<"package.json">> \in DOMAIN project
                   THEN Append(W, "package.json") :> [scripts |-> scripts, manager |-> "npm"] ELSE NoFiles,
     git |-> W :> [branch |-> branch, heads |-> [origin |-> "main"],
                   remotes |-> [origin |-> "git.example"], hooksPath |-> <<>>],
     globalHooks |-> <<>>, npm |-> [shell |-> "sh", yarnPath |-> TRUE, pnpmFile |-> FALSE],
     text |-> Append(W, "build.gradle") :> gradle]

CleanBuild == <<RmRf(Build1)>>
CatA == <<Call("cat", <<A>>)>>
Without(tree, p) == [q \in DOMAIN tree \ {p} |-> tree[q]]

\* As checked out; the scripts edited, the inner one and the outer one; the
\* package.json and the link gone and a commit hook present; the build file
\* edited and main checked out.
MCWorlds ==
    [checkout |-> World(Project, Scripts(CleanBuild, CatA), "v1", "topic"),
     inner    |-> World(Project, Scripts(<<RmRf(Rel(<<"build", "out">>))>>, CatA), "v1", "topic"),
     bare     |-> World(Without(Without(Project, <<"package.json">>), <<"build", "esc">>)
              @@ (<<".git", "hooks", "pre-commit">> :> F),
           Scripts(CleanBuild, CatA), "v1", "topic"),
     outer    |-> World(Project, Scripts(CleanBuild, <<Echo, Then("&&", RmRf(Abs(<<"etc">>)))>>), "v2", "main")]

-----------------------------------------------------------------------------
(* Lines.                                                                   *)

FileLines ==
    {<<Call("cat", <<w>>)>> : w \in {A, Star(<<"build">>), Rel(<<"lnk", "x">>), Rel(<<".env">>),
                                     In("PWD", <<"src", "a">>), In("X", <<>>), Star(<<"src">>)}}
    \cup {<<RmRf(w)>> : w \in {Build1, Rel(<<"src">>), Rel(<<".git">>), Rel(<<>>), Rel(<<"..">>),
                               Rel(<<"lnk">>), Star(<<"lnk">>), Star(<<"build">>), Rel(<<"build", "out">>), In("HOME", <<>>), In("TMPDIR", <<"t">>),
                               Abs(<<"data">>), Abs(<<"etc">>), Rel(<<"src", "..", "build">>)}}
    \cup {<<Call("rm", <<w>>)>> : w \in {A, Star(<<"build">>), Abs(<<"data", "f">>)}}
    \cup {<<Call("rm", <<Long("--unknown"), A>>)>>, <<Call("rm", <<Long("--"), A>>)>>,
          <<Call("head", <<Flag("-n"), Txt("1"), A>>)>>, <<Call("ls", <<Flag("-R")>>)>>,
          <<Call("ls", <<Rel(<<"lnk">>)>>)>>,
          <<Call("cp", <<A, Build1>>)>>, <<Call("cp", <<Flag("-r"), Rel(<<"src">>), Abs(<<"etc">>)>>)>>,
          <<Call("cp", <<Flag("-t"), Build1, A>>)>>, <<Call("cp", <<A>>)>>,
          <<Call("mv", <<A, Build1>>)>>, <<Call("mv", <<Rel(<<"src">>), In("HOME", <<"Documents">>)>>)>>,
          <<Call("mv", <<In("HOME", <<"Documents">>), Build1>>)>>,
          <<Call("mkdir", <<Rel(<<"build", "new">>)>>)>>,
          <<Call("grep", <<Flag("-r"), Txt("x"), Rel(<<"src">>)>>)>>,
          <<Call("grep", <<Flag("-f"), Rel(<<".env">>), A>>)>>,
          <<Call("find", <<Rel(<<"src">>), Long("safe")>>)>>, <<Call("find", <<Build1, Long("-delete")>>)>>,
          <<Call("find", <<Abs(<<"data">>), Long("-delete")>>)>>,
          <<Call("find", <<Rel(<<"src">>), Long("-exec"), Txt("rm")>>)>>,
          <<To(Echo, ">", A)>>, <<To(Echo, ">", Abs(<<"etc", "p">>))>>, <<To(Echo, ">", Abs(<<"dev", "null">>))>>,
          <<To(Call("cat", <<>>), "<", Rel(<<"lnk", "x">>))>>}

ToolLines ==
    {<<Git(<<Txt(sub)>>)>> : sub \in {"status", "push", "branch", "stash"}}
    \cup {<<Git(<<Txt("commit"), Long("-m"), Txt("x")>>)>>,
          <<Git(<<Txt("add"), A>>)>>, <<Git(<<Txt("add"), Rel(<<".env">>)>>)>>,
          <<Git(<<Txt("checkout"), Long("--"), A>>)>>, <<Git(<<Txt("reset"), Long("--hard")>>)>>,
          <<Git(<<Txt("push"), Long("--force")>>)>>, <<Git(<<Txt("push"), Txt("other")>>)>>,
          <<Git(<<Txt("push"), Txt("origin"), Marked("main", "+")>>)>>,
          <<Git(<<Long("-C"), Abs(<<"data">>), Txt("status")>>)>>,
          <<Git(<<Txt("diff"), Long("--no-index"), A, Abs(<<"data", "f">>)>>)>>,
          <<Call("curl", <<Txt("api.example")>>)>>,
          <<Call("curl", <<Flag("-d"), [Rel(<<".env">>) EXCEPT !.letters = <<"@">>], Txt("api.example")>>)>>,
          <<Call("curl", <<Flag("-o"), Abs(<<"etc", "p">>), Txt("api.example")>>)>>,
          <<Call("curl", <<Txt("api.example")>>), Then("|", Call("sh", <<>>))>>,
          <<Call("gradle", <<[Txt("build") EXCEPT !.parts = <<>>]>>)>>,
          <<Call("mvn", <<Txt("test")>>)>>, <<Call("jest", <<>>)>>, <<Call("node", <<Long("--test")>>)>>,
          <<Npm(<<Txt("test")>>)>>, <<Npm(<<Txt("run"), Txt("clean"), Long("--"), Abs(<<"data">>)>>)>>,
          <<Npm(<<Txt("run"), Txt("clean")>>)>>, <<Npm(<<Txt("run"), Txt("none")>>)>>,
          <<Npm(<<Txt("install"), Long("--ignore-scripts")>>)>>,
          <<Call("npx", <<Txt("rimraf"), Build1>>)>>, <<Call("npx", <<Txt("other")>>)>>,
          <<Call("yarn", <<Txt("test")>>)>>}

LongLines ==
    {<<Call("sudo", <<Txt("rm"), Flags("-r", "-f"), Abs(<<"etc">>)>>)>>,
     <<Call("sudo", <<Flag("-u"), Txt("root"), Txt("cat"), A>>)>>,
     <<[Call("ls", <<>>) EXCEPT !.env = {"CI"}]>>, <<[Call("ls", <<>>) EXCEPT !.env = {"LD_PRELOAD"}]>>,
     <<Call("cd", <<Rel(<<"src">>)>>), Then("&&", Call("cat", <<Rel(<<"a">>)>>))>>,
     <<Call("cd", <<Abs(<<"etc">>)>>), Then(";", Call("rm", <<Rel(<<"p">>)>>))>>,
     <<Call("cd", <<>>), Then(";", RmRf(Rel(<<"Documents">>)))>>,
     <<Call("cd", <<Txt("-")>>), Then(";", RmRf(Abs(<<"etc">>)))>>,
     <<Call("eval", <<Txt("x")>>)>>, <<[Echo EXCEPT !.background = TRUE]>>,
     <<[kind |-> "for"] @@ Echo>>,
     <<Call("sh", <<Flag("-c"), Txt("x")>>)>>,
     <<[Echo EXCEPT !.group = 1, !.redirected = TRUE]>>,
     <<Call("cat", <<[A EXCEPT !.subst = TRUE]>>)>>,
     <<Call("cat", <<A>>), Then("|", Call("wc", <<>>))>>,
     <<Echo, Then("&&", RmRf(Build1))>>,
     <<Echo, Then(";", Echo), Then(";", RmRf(Abs(<<"etc">>)))>>,
     <<Echo, Then(";", Echo), Then(";", Echo), Then(";", RmRf(Abs(<<"etc">>)))>>,
     <<Echo, Then(";", Npm(<<Txt("test")>>))>>}

At(cwd, lines) == {[line |-> l, cwd |-> cwd, hint |-> W] : l \in lines}

MCRequests == At(W, FileLines \cup ToolLines \cup LongLines)
              \cup At(MCHome, {<<Call("cat", <<Rel(<<"w", "src", "a">>)>>)>>, <<RmRf(Rel(<<"Documents">>))>>})

\* The lines somebody trusts, and what is tried after that.
MCUserTrusts ==
    At(W, {<<RmRf(Build1)>>, <<Npm(<<Txt("test")>>)>>, <<To(Echo, ">", A)>>,
           <<Call("gradle", <<[Txt("build") EXCEPT !.parts = <<>>]>>)>>})

MCFollowUps ==
    MCUserTrusts
    \cup At(W, {<<RmRf(Rel(<<"src">>))>>, <<RmRf(Rel(<<"build", "out">>))>>, <<RmRf(Star(<<"build">>))>>,
                <<Npm(<<Txt("run"), Txt("clean")>>)>>, <<To(Echo, ">", Abs(<<"etc", "p">>))>>,
                <<Echo, Then("&&", RmRf(Build1))>>, <<Call("cat", <<Star(<<"build">>)>>)>>,
                <<Call("find", <<Build1, Long("-delete")>>)>>})

=============================================================================
