----------------------------- MODULE Foresight -----------------------------
(***************************************************************************)
(* The decisions of module Decide held against what the lines really do    *)
(* (module Machine).                                                       *)
(***************************************************************************)
EXTENDS Decide, Machine

Reality == Happens(Now, asked.request.cwd, asked.request.line, 0)

\* An effect foresees a touch of the path it names, of anything below it when
\* it is recursive or a wildcard, and of an entry made in the directory it
\* names; removing a link is foreseen by an effect on where the link leads.
Foresees(e, t) ==
    LET path == e.target.path
        wide == e.flags \cap {"recursive", "wildcard"} # {} \/ "wildcard" \in e.target.flags
    IN  /\ e.target # NoTarget /\ e.type = t.type
        /\ \/ t.path = path
           \/ wide /\ Under(t.path, path)
           \/ t.inside /\ t.path # <<>> /\ Parent(t.path) = path
           \/ t.type = "DELETE" /\ FollowLink(Now.fs, t.path) = path

\* A line that is let through touches only what its predicted effects name:
\* whatever the parser dropped, an option swallowed, a wildcard matched or a
\* link led to, there is no file the decision did not look at.  Declared build
\* and test tools run code nobody predicts and are left out.
AllowedTouchesPredicted ==
    (asked # NotAsked /\ asked.decision.outcome = "ALLOW" /\ asked.act.status = "RESOLVED") =>
        \A t \in Reality.touches : \E e \in asked.act.effects : Foresees(e, t)

\* Changes nobody can take back: to the system, to credentials, and the
\* removal of a whole directory outside the workspace.  A credential file
\* goes with the directory of the workspace it lies in.
Harmful(t) ==
    LET own == t.type = "DELETE" /\ Under(t.path, asked.ws)
    IN  /\ t.type \in Changes /\ ~t.inside
        /\ \/ IsSystem(t.path)
           \/ IsSensitive(t.path) /\ ~own
           \/ t.type = "DELETE" /\ IsDir(Now.fs, t.path) /\ ~own /\ ~IsTemp(t.path)

\* Lines whose directory the walker tracks as a shell does: cd stands outside
\* any group and is followed by ; or && only, no word uses $PWD after it, and
\* no group carries a redirection.
Followed(line) ==
    LET cds == {i \in DOMAIN line : line[i].name = "cd"}
        words(i) == ToSet(line[i].args) \cup {r.word : r \in ToSet(line[i].redirs)}
    IN  /\ \A i \in DOMAIN line : ~line[i].redirected /\ line[i].kind = "call"
        /\ cds # {} => \A i \in DOMAIN line :
              /\ line[i].group = 0 /\ line[i].join \in {"", ";", "&&"}
              /\ \A w \in words(i) : w.var # "PWD"

\* The floor sees the harm: a line that would change a system location or a
\* credential, or remove a directory outside the workspace, is blocked
\* whatever its syntax, nesting, elevation or length, unless the daemon says
\* itself that it did not look at all of the line.
HarmIsFloored ==
    (/\ asked # NotAsked /\ asked.ws # <<>> /\ Followed(asked.request.line)
     /\ \E t \in Reality.touches : Harmful(t))
    => asked.floor = "BLOCK" \/ (asked.act.incomplete /\ asked.decision.outcome = "ASK")

\* What a package script or a build file says, as of a world.
ScriptText(w, s) ==
    IF s[1] \in DOMAIN w.manifests /\ s[2] \in DOMAIN w.manifests[s[1]].scripts
    THEN w.manifests[s[1]].scripts[s[2]] ELSE <<>>

\* Trust follows the text that was trusted: an approval lets a line through
\* only while every script the trusted line ran, at any depth, reads as it did
\* then, and while the files of a declared build read as they did.
TrustFollowsTheScript ==
    (asked # NotAsked /\ asked.decision.class = "APPROVAL_MATCH") =>
        LET from  == origin[asked.decision.approval]
            trust == CHOOSE a \in approvals : a.id = asked.decision.approval
            ran   == Happens(Worlds[from.world], from.request.cwd, from.request.line, 0).scripts
        IN  /\ \A s \in ran : ScriptText(Now, s) = ScriptText(Worlds[from.world], s)
            /\ (\E i \in DOMAIN trust.ops : trust.ops[i] \in {"BUILD", "CLEAN"})
                  => Now.text = Worlds[from.world].text

=============================================================================
