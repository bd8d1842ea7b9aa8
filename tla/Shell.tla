------------------------------- MODULE Shell -------------------------------
(***************************************************************************)
(* From a command line to the flat list of simple commands                 *)
(* (internal/parser/posix and internal/parser/expand.go).                  *)
(*                                                                         *)
(* A line is the sequence of its statements, in the order the walker meets *)
(* them.  A statement is [kind, name, args, redirs, env, join, group,      *)
(* redirected, background]: kind is "call" for a simple command and names  *)
(* any other construct, join is the operator before it, group is 0 or the  *)
(* number of the ( ) or { } group it stands in, redirected says that this  *)
(* group carries a redirection of its own.  A token of a command is        *)
(* [opt, text, letters, inline, var, subst] together with the word of      *)
(* module Scope that it spells: opt says it starts with "-", letters are   *)
(* the options of a short cluster, inline says a value follows after "=",  *)
(* var is the variable it starts with and subst says that it holds a       *)
(* substitution.                                                           *)
(***************************************************************************)
EXTENDS Scope

CONSTANTS
    TempDir,           \* the value of $TMPDIR
    MaxSimpleCommands, \* longest line that can be approved
    MaxParsedCommands  \* commands kept of one line

-----------------------------------------------------------------------------
(* Words.                                                                  *)

Token(opt, text, letters, inline, var, abs, parts, glob) ==
    [opt |-> opt, text |-> text, letters |-> letters, inline |-> inline,
     var |-> var, subst |-> FALSE, abs |-> abs, parts |-> parts, glob |-> glob,
     amb |-> FALSE]

\* The only variables the parser knows; a leading ~ counts as $HOME and $PWD is
\* the directory the line started in.  Any other one leaves the word ambiguous.
Expand(token, cwd) ==
    LET known == [HOME |-> Home, PWD |-> cwd, TMPDIR |-> TempDir]
        text  == IF token.var \in DOMAIN known
                 THEN [token EXCEPT !.var = "", !.abs = TRUE,
                                    !.parts = known[token.var] \o token.parts]
                 ELSE token
    IN  [text EXCEPT !.amb = text.var # "" \/ text.subst]

-----------------------------------------------------------------------------
(* Names the walker treats apart.                                          *)

RefusedBuiltins ==
    {"eval", "source", "exec", "xargs", "alias", "export", "pushd", "popd", "trap"}

ElevationWrappers == {"sudo", "doas", "su", "runas"}

StreamInterpreters == {"sh", "bash", "python", "node", "perl", "ruby"}

InlineScriptFlags == {"-c", "--command", "-e", "--eval"}

ElevationValueFlags == {"-u", "--user", "-g", "-h"}

IgnoredRedirectionTargets == {<<"dev", "null">>, <<"dev", "stdout">>, <<"dev", "stderr">>}

NeutralEnvNames == {"CI", "NODE_ENV", "NO_COLOR"}

IsDangerousEnvAssignment(name) == name \notin NeutralEnvNames

\* Redirections that name a file; a descriptor duplication, also one written
\* >&word, and a here-document are dropped.
FileRedirection(op) == op \in {">", ">|", ">>", "<", "<>", "&>", "&>>"}

HasInlineScriptFlag(args) == \E i \in DOMAIN args : args[i].text \in InlineScriptFlags

\* The words of the command a sudo or doas line runs.
StripElevationOptions(args) ==
    LET after(i)   == SubSeq(args, i, Len(args))
        skipped(i) == \/ args[i].opt /\ args[i].text # "--"
                      \/ i > 1 /\ args[i - 1].text \in ElevationValueFlags
        stops      == {i \in DOMAIN args : ~skipped(i)}
        first      == CHOOSE i \in stops : \A j \in stops : i <= j
    IN  IF stops = {} THEN <<>>
        ELSE IF args[first].text = "--" THEN after(first + 1) ELSE after(first)

-----------------------------------------------------------------------------
(* The walker: a fold over the statements.  Its state is the directory cd   *)
(* moved to, the commands emitted so far, the kinds of construct it         *)
(* refused, and whether the pipeline or group it is in emitted a command.   *)

Command(st, args, start, cwd, piped) ==
    [name |-> st.name, args |-> args,
     redirs |-> SelectSeq([i \in DOMAIN st.redirs |->
                              [op |-> st.redirs[i].op,
                               word |-> Expand(st.redirs[i].word, start)]],
                          LAMBDA r : /\ FileRedirection(r.op)
                                     /\ r.word.parts \notin IgnoredRedirectionTargets),
     env |-> st.env, cwd |-> cwd, elevated |-> FALSE, pipedFrom |-> piped]

\* emit: past MaxSimpleCommands the line is refused but still examined; past
\* MaxParsedCommands the command is dropped and the line counts as truncated.
Emit(walk, cmd) ==
    LET count == Len(walk.commands)
        refused == {k \in {"too_many", "truncated"} :
                      count >= IF k = "too_many" THEN MaxSimpleCommands ELSE MaxParsedCommands}
    IN  [walk EXCEPT !.unsupported = @ \cup refused,
                     !.commands = IF count >= MaxParsedCommands THEN @ ELSE Append(@, cmd),
                     !.emitted = TRUE]

Refuse(walk, kinds) == [walk EXCEPT !.unsupported = @ \cup kinds]

\* cd moves the directory of every later command, whatever group it stands in.
ChangeDir(walk, cmd) ==
    LET args == IF cmd.args # <<>> /\ cmd.args[1].text = "--" THEN Tail(cmd.args) ELSE cmd.args
    IN  IF args = <<>> THEN [Emit(walk, cmd) EXCEPT !.cwd = Home]
        ELSE IF args[1].text = "-" THEN Emit(Refuse(walk, {"cd_dash"}), cmd)
        ELSE [Emit(walk, cmd) EXCEPT !.cwd = Absolutize(args[1], cmd.cwd)]

\* dispatch without the elevation case, which hands its inner command on.
DispatchPlain(walk, cmd) ==
    IF cmd.name \in RefusedBuiltins THEN Emit(Refuse(walk, {"builtin"}), cmd)
    ELSE IF cmd.name \in StreamInterpreters /\ HasInlineScriptFlag(cmd.args)
         THEN Emit(Refuse(walk, {"shell_wrapper"}), cmd)
    ELSE IF cmd.name = "cd" THEN ChangeDir(walk, cmd)
    ELSE Emit(walk, cmd)

\* As a bug: a walker that stops at the wrapper.
DispatchWrapperOnly(walk, cmd) ==
    IF cmd.name \notin ElevationWrappers THEN DispatchPlain(walk, cmd)
    ELSE Emit(Refuse(walk, {"elevation"}), [cmd EXCEPT !.elevated = TRUE])

Dispatch(walk, cmd) ==
    IF cmd.name \notin ElevationWrappers THEN DispatchPlain(walk, cmd)
    ELSE LET inner    == StripElevationOptions(cmd.args)
             elevated == [cmd EXCEPT !.elevated = TRUE]
             refused  == Refuse(walk, {"elevation"})
         IN  IF cmd.name \in {"sudo", "doas"} /\ inner # <<>>
             THEN DispatchPlain(refused, [elevated EXCEPT !.name = inner[1].text,
                                                          !.args = Tail(inner)])
             ELSE Emit(refused, elevated)

\* stmt: one statement of the line that started in directory start.
Statement(walk, st, start) ==
    LET args    == [i \in DOMAIN st.args |-> Expand(st.args[i], start)]
        words   == st.args \o [i \in DOMAIN st.redirs |-> st.redirs[i].word]
        inside  == st.group # 0 /\ st.group = walk.group
        emitted == (st.join = "|" \/ inside) /\ walk.emitted
        refused == {k \in {"background", "group_redirection", "substitution", "construct"} :
                      \/ k = "background" /\ st.background
                      \/ k = "group_redirection" /\ st.redirected
                      \/ k = "substitution" /\ \E i \in DOMAIN words : words[i].subst
                      \/ k = "construct" /\ st.kind # "call"}
        entered == [Refuse(walk, refused) EXCEPT !.group = st.group, !.emitted = emitted]
        cmd     == Command(st, args, start, walk.cwd, st.join = "|" /\ emitted)
    IN  IF st.kind = "call" THEN Dispatch(entered, cmd) ELSE entered

Parse(line, cwd) ==
    FoldLeft(LAMBDA walk, st : Statement(walk, st, cwd),
             [cwd |-> cwd, commands |-> <<>>, unsupported |-> {}, group |-> 0,
              emitted |-> FALSE],
             line)

ParsedOK(parsed) == parsed.unsupported = {}

Truncated(parsed) == "truncated" \in parsed.unsupported

=============================================================================
