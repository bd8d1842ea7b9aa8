------------------------------- MODULE Setup -------------------------------
(***************************************************************************)
(* Installing and removing the integration: `intenter setup claude`,       *)
(* `intenter uninstall claude`, `intenter daemon install` and the removal  *)
(* of one of the agent's allow rules.  They edit files that belong to      *)
(* other people (Claude's settings, shell start-up files, the skills       *)
(* directory), move the data directory of the product's former name, and   *)
(* may fail or be interrupted between any two steps.  Claude and the user  *)
(* edit the same files meanwhile.                                          *)
(*                                                                         *)
(* The settings tree is abstracted to the hook entries of every event and  *)
(* the set of allow rules; a start-up file is a sequence of tokens: lines  *)
(* of text, newlines and the managed block (with the newline that ends     *)
(* it), under the current or the former markers.                           *)
(***************************************************************************)
EXTENDS Naturals, Sequences, FiniteSets, SequencesExt

CONSTANTS
    Events,        \* hook events Claude has
    Required,      \* those a hook is installed for: hookEvents, and
                   \* ConfigChange where the configuration asks for it
    Rules,         \* rules of permissions.allow
    Paths,         \* where the executable has lived
    Spaced,        \* those of Paths with a space in them
    Detected,      \* start-up files of the shells found on the machine
    Candidates,    \* every start-up file a block could be in
    Standalone,    \* those that exist only for the block (fish)
    Words,         \* lines of text found in start-up files
    Machines,      \* what is found before the first command: the settings,
                   \* the skill, the start-up files, and the data directory
                   \* and service of the former product
    SetupOptions,  \* [dry, noService, noStartup]
    RemoveOptions, \* [keep, purge]
    MaxBackups,    \* how many backups are kept
    MaxTime,       \* bound: seconds that pass
    MaxOps,        \* bound: commands run
    MaxEdits,      \* bound: edits by Claude and the user
    Faults,        \* may a step fail?
    Crashes        \* may a command be interrupted?

ASSUME SetupAssumption ==
    /\ Required \subseteq Events /\ Spaced \subseteq Paths /\ Paths # {}
    /\ Detected \subseteq Candidates /\ Standalone \subseteq Candidates
    /\ MaxBackups \in Nat \ {0} /\ MaxTime \in Nat /\ MaxOps \in Nat /\ MaxEdits \in Nat
    /\ Faults \in BOOLEAN /\ Crashes \in BOOLEAN

VARIABLES
    settings,  \* Claude's settings file
    skill,     \* the file at skills/intenter/SKILL.md
    file,      \* the shell start-up files
    backups,   \* <<prefix, second>> -> content, under the data directory
    oldDir,    \* the former data directory: names of what is in it
    newDir,    \* the data directory: names of what is in it
    db,        \* what intenter.db holds
    service,   \* [exe, old]: the registration, and the former one
    daemon,    \* does a daemon run?
    exe,       \* where the executable is now
    clock, ops, edits,
    proc,      \* the command being run
    mine,      \* history: what the user's part of the settings should be
    lines,     \* history: the user's own lines of every start-up file
    clean      \* history: a start-up file before the block, or edited since

world == <<settings, skill, file, backups, oldDir, newDir, db, service, daemon>>
history == <<mine, lines, clean>>
vars == <<world, exe, clock, ops, edits, proc, history>>

-----------------------------------------------------------------------------
(* Hook entries.                                                           *)

Hook(path) == [kind |-> "intenter", path |-> path]

(* owns: this very executable (compared as paths, quoted or not).          *)
owns(e, path) == e = Hook(path)

(* OwnedByAnyIntenter: the command is split at blanks and must have three  *)
(* fields, so a path with a blank in it is not recognised.                 *)
OwnedByAnyIntenter(e) == e.kind = "intenter" /\ e.path \notin Spaced

ownedByLegacy(e) == e.kind = "agentguard"

(* The hooks of an event: at every place <<group, position>> an entry, with *)
(* the matcher of its group.  A group is where its entries are, so that one *)
(* left without any is gone.                                               *)
Keep(groups, Drop(_)) ==
    [p \in {q \in DOMAIN groups : ~Drop(groups[q].entry)} |-> groups[p]]

removeLegacyEntries(groups) == Keep(groups, ownedByLegacy)

matcherFor(event) ==
    CASE event = "ConfigChange" -> "config" [] event = "SessionEnd" -> "any" [] OTHER -> "tools"

(* The entries that are ours; the first, in the order of groups and        *)
(* entries, is refreshed.                                                  *)
OwnAt(groups, path) ==
    {p \in DOMAIN groups : owns(groups[p].entry, path) \/ OwnedByAnyIntenter(groups[p].entry)}

FirstOf(places) ==
    CHOOSE p \in places : \A q \in places : p[1] < q[1] \/ (p[1] = q[1] /\ p[2] <= q[2])

(* The place of a group appended to the others.                            *)
After(groups) == <<1 + Max({0} \cup {p[1] : p \in DOMAIN groups}), 1>>

Put(groups, place, event, path) ==
    [p \in DOMAIN groups \cup {place} |->
        IF p = place THEN [matcher |-> matcherFor(event), entry |-> Hook(path)] ELSE groups[p]]

(* As bugs: an entry of a binary that moved is not found, and the group is *)
(* written anew.                                                           *)
installAlways(found, event, path) ==
    LET groups == removeLegacyEntries(found)
    IN Put(groups, After(groups), event, path)

installGroup(found, event, path) ==
    LET groups == removeLegacyEntries(found)
        at == OwnAt(groups, path)
        others == {p \in DOMAIN groups : p[1] # FirstOf(at)[1]}
    IN IF at = {} THEN installAlways(found, event, path)
       ELSE Put([p \in others |-> groups[p]], FirstOf(at), event, path)

installEntry(found, event, path) ==
    LET groups == removeLegacyEntries(found)
        at == OwnAt(groups, path)
    IN IF at = {} THEN Put(groups, After(groups), event, path)
                  ELSE [groups EXCEPT ![FirstOf(at)].entry = Hook(path)]

InstallHooks(tree, path) ==
    [tree EXCEPT !.hooks = [e \in Events |->
        IF e \in Required THEN installEntry(@[e], e, path) ELSE @[e]]]

OursOrLegacy(e) == OwnedByAnyIntenter(e) \/ ownedByLegacy(e)

(* As a bug: entries of the former product stay.                           *)
RemoveOwnOnly(tree) ==
    [tree EXCEPT !.hooks = [e \in Events |-> Keep(@[e], OwnedByAnyIntenter)]]

RemoveHooks(tree) == [tree EXCEPT !.hooks = [e \in Events |-> Keep(@[e], OursOrLegacy)]]

HasHook(tree, event, Is(_)) ==
    \E p \in DOMAIN tree.hooks[event] : Is(tree.hooks[event][p].entry)

(* readSettingsTree: a missing file is an empty tree, a broken one an      *)
(* error.                                                                  *)
Empty == [state |-> "ok", hooks |-> [e \in Events |-> <<>>], rules |-> {}]

Tree(s) == IF s.state = "absent" THEN Empty ELSE s

Foreign(s) ==
    [hooks |-> [e \in Events |-> Keep(s.hooks[e], LAMBDA h : h.kind # "user")],
     rules |-> s.rules]

-----------------------------------------------------------------------------
(* Start-up files.                                                         *)

Absent == [here |-> FALSE, text |-> <<>>]

Text(t) == [here |-> TRUE, text |-> t]

IndexOf(text, mark) == CHOOSE i \in DOMAIN text : text[i] = mark /\ \A j \in 1 .. i - 1 : text[j] # mark

Holds(f, mark) == mark \in ToSet(f.text)

(* As a bug: the block is appended whether or not the file has one.        *)
appendBlock(f) == Text(IF f.text = <<>> THEN <<"block">> ELSE f.text \o <<"nl", "block">>)

writeBlock(f) == IF Holds(f, "block") THEN f ELSE appendBlock(f)

(* As a bug: two characters go, as in a file with carriage returns.        *)
trimTwo(t) == IF Len(t) > 1 /\ Last(t) = "nl" THEN Front(Front(t)) ELSE t

trimOneNewline(t) == IF t # <<>> /\ Last(t) = "nl" THEN Front(t) ELSE t

(* As a bug: the newline put before the block stays.                       *)
removeBare(f, name, mark) ==
    LET at == IndexOf(f.text, mark)
        rest == SubSeq(f.text, 1, at - 1) \o SubSeq(f.text, at + 1, Len(f.text))
    IN IF ~Holds(f, mark) THEN f ELSE Text(rest)

removeBlockMarked(f, name, mark) ==
    LET at == IndexOf(f.text, mark)
        rest == trimOneNewline(SubSeq(f.text, 1, at - 1)) \o SubSeq(f.text, at + 1, Len(f.text))
    IN IF ~Holds(f, mark) THEN f
       ELSE IF name \in Standalone /\ ToSet(rest) \subseteq {"nl"} THEN Absent ELSE Text(rest)

(* The former fish drop-in has a name of its own; the two are one file     *)
(* here, since each holds a block and nothing else.                        *)
removeLegacyBlock(files) == [n \in Candidates |-> removeBlockMarked(files[n], n, "former")]

StartupInstall(files) ==
    [n \in Candidates |->
        IF n \in Detected THEN writeBlock(removeLegacyBlock(files)[n])
                          ELSE removeLegacyBlock(files)[n]]

StartupRemove(files) ==
    removeLegacyBlock([n \in Candidates |-> removeBlockMarked(files[n], n, "block")])

Managed == {"block", "former"}

Breaks == Managed \cup {"nl"}

(* Reading a text: the lines behind the reader, blank ones left out, and   *)
(* the line it is in.                                                      *)
Unread == [lines |-> <<>>, line |-> <<>>]

EndLine(r) ==
    [lines |-> IF r.line = <<>> THEN r.lines ELSE Append(r.lines, r.line), line |-> <<>>]

ReadToken(r, t) == IF t \in Breaks THEN EndLine(r) ELSE [r EXCEPT !.line = Append(@, t)]

Reading(text) ==
    LET upTo[n \in 0 .. Len(text)] ==
            IF n = 0 THEN Unread ELSE ReadToken(upTo[n - 1], text[n])
    IN upTo[Len(text)]

(* The lines of a file outside the block.                                  *)
Lines(text) == EndLine(Reading(text)).lines

(* What a start-up file is made of; "b" is a line added later.             *)
Tokens == Words \cup {"b", "nl"} \cup Managed

(* What a file without any block of ours holds, to be found again.         *)
Untouched(f) == [known |-> ToSet(f.text) \cap Managed = {}, text |-> f.text]

-----------------------------------------------------------------------------
(* Backups and directories.                                                *)

(* As a bug: the sort is the other way round.                              *)
pruneNewest(saved, prefix) ==
    LET newer == {k \in DOMAIN saved : k[1] = prefix /\
                    Cardinality({n \in DOMAIN saved : n[1] = prefix /\ n[2] < k[2]}) >= MaxBackups}
    IN [k \in DOMAIN saved \ newer |-> saved[k]]

(* pruneBackups: the newest MaxBackups of a prefix, by their second.       *)
prune(saved, prefix) ==
    LET older == {k \in DOMAIN saved : k[1] = prefix /\
                    Cardinality({n \in DOMAIN saved : n[1] = prefix /\ n[2] > k[2]}) >= MaxBackups}
    IN [k \in DOMAIN saved \ older |-> saved[k]]

(* backupFile: one file per prefix and second; the later one replaces.     *)
Saved(prefix, content) ==
    prune([k \in DOMAIN backups \cup {<<prefix, clock>>} |->
              IF k = <<prefix, clock>> THEN content ELSE backups[k]], prefix)

InData(names) == newDir \cup names

dirHasFiles == newDir # {}

(* migrateOneDir moves the former directory, never over files of the new   *)
(* one.                                                                    *)
MayMigrate == oldDir # {} /\ ~dirHasFiles

-----------------------------------------------------------------------------
(* What is found before the first command *)

HooksFound(groups) ==
    /\ IsFiniteSet(DOMAIN groups) /\ DOMAIN groups \subseteq Nat \X Nat
    /\ \A p \in DOMAIN groups :
        /\ groups[p] = [matcher |-> groups[p].matcher, entry |-> groups[p].entry]
        /\ groups[p].entry.kind \in {"user", "intenter", "agentguard"}

SettingsFound(s) ==
    /\ s = [state |-> s.state, hooks |-> s.hooks, rules |-> s.rules]
    /\ s.state \in {"ok", "absent", "broken"} /\ s.rules \subseteq Rules
    /\ s.hooks = [e \in Events |-> s.hooks[e]]
    /\ \A e \in Events : HooksFound(s.hooks[e])
    /\ s.state = "absent" => s.rules = {} /\ \A e \in Events : DOMAIN s.hooks[e] = {}

(* An earlier installation left at most one hook for an event, and one     *)
(* block of either product in a file.                                      *)
InstalledOnce(m) ==
    /\ \A e \in Events : \A p, q \in DOMAIN m.settings.hooks[e] :
        m.settings.hooks[e][p].entry.kind = "intenter" /\ m.settings.hooks[e][q].entry.kind = "intenter"
            => p = q
    /\ \A n \in Candidates : \A i, j \in DOMAIN m.file[n].text :
        m.file[n].text[i] = m.file[n].text[j] /\ m.file[n].text[i] \in Managed => i = j

ASSUME MachinesAssumption ==
    \A m \in Machines :
        /\ SettingsFound(m.settings) /\ InstalledOnce(m)
        /\ m.file \in [Candidates -> [here : BOOLEAN, text : Seq(Tokens)]]

-----------------------------------------------------------------------------
(* A command: its step, its options, the tree it read, and how it went.    *)

Idle == [op |-> "none", pc |-> "idle", opt |-> [dry |-> FALSE], tree |-> Empty,
         rule |-> "none", saved |-> Empty, result |-> "none"]

Init ==
    /\ \E m \in Machines :
        /\ settings = m.settings /\ skill = m.skill /\ file = m.file
        /\ oldDir = m.old /\ service = [exe |-> "none", old |-> m.service]
    /\ backups = <<>>
    /\ newDir = {}
    /\ db = "none"
    /\ daemon = FALSE
    /\ exe \in Paths
    /\ clock = 0 /\ ops = 0 /\ edits = 0
    /\ proc = Idle
    /\ mine = Foreign(settings)
    /\ lines = [n \in Candidates |-> Lines(file[n].text)]
    /\ clean = [n \in Candidates |-> Untouched(file[n])]

Begin(op, pc, opt, rule) ==
    /\ proc.pc = "idle"
    /\ ops < MaxOps
    /\ ops' = ops + 1
    /\ proc' = [Idle EXCEPT !.op = op, !.pc = pc, !.opt = opt, !.rule = rule]
    /\ UNCHANGED <<world, exe, clock, edits, history>>

RunSetup == \E o \in SetupOptions : Begin("setup", "detect", o, "none")

RunUninstall == \E o \in RemoveOptions : Begin("uninstall", "backup", o, "none")

(* `intenter daemon install`; EnsureDirs comes first.                      *)
RunRegister == Begin("register", "dirs", [dry |-> FALSE], "none")

RunRemoveRule == \E r \in Rules : Begin("rule", "read", [dry |-> FALSE], r)

At(op, pc) == proc.op = op /\ proc.pc = pc

Dry == proc.op = "setup" /\ proc.opt.dry

Goto(pc) == proc' = [proc EXCEPT !.pc = pc]

(* Run stops at the first step that fails.                                 *)
Finish(how) ==
    proc' = [proc EXCEPT !.pc = "idle", !.result = how, !.tree = Empty, !.saved = Empty, !.rule = "none"]

steps == <<exe, clock, ops, edits, history>>

(* Any required step may fail: a file or directory that cannot be read or  *)
(* written, a daemon that does not answer.  Setup only warns about the     *)
(* skill, the start-up check and the migration, daemon install about all   *)
(* that follows the registration.                                          *)
MayFail ==
    CASE proc.op = "setup" -> proc.pc \notin {"skill", "startup", "migrate", "moving", "rename"}
      [] proc.op = "register" -> proc.pc = "dirs"
      [] OTHER -> TRUE

StepFails ==
    /\ Faults
    /\ proc.pc # "idle" /\ MayFail
    /\ Finish("failed")
    /\ UNCHANGED <<world, steps>>

(* The command is interrupted.                                             *)
Interrupt ==
    /\ Crashes
    /\ proc.pc # "idle"
    /\ Finish("failed")
    /\ UNCHANGED <<world, steps>>

-----------------------------------------------------------------------------
(* intenter setup claude *)

(* Detect, then EnsureSettingsFile.                                        *)
Detect ==
    /\ At("setup", "detect")
    /\ settings' = IF Dry \/ settings.state # "absent" THEN settings ELSE Empty
    /\ Goto("backup")
    /\ UNCHANGED <<skill, file, backups, oldDir, newDir, db, service, daemon, steps>>

(* backup, of setup and of uninstall: a missing file needs none.           *)
Backup ==
    /\ proc.op \in {"setup", "uninstall"} /\ proc.pc = "backup"
    /\ IF Dry \/ settings.state = "absent"
         THEN UNCHANGED <<backups, newDir>>
         ELSE /\ backups' = Saved("settings", settings)
              /\ newDir' = InData({"backup"})
    /\ proc' = [proc EXCEPT !.pc = "hooks", !.saved = settings]
    /\ UNCHANGED <<settings, skill, file, oldDir, db, service, daemon, steps>>

(* InstallHooks reads the tree ...                                         *)
ReadTree ==
    /\ proc.op \in {"setup", "uninstall"} /\ proc.pc = "hooks" /\ ~Dry
    /\ settings.state # "broken"
    /\ ~(proc.op = "uninstall" /\ settings.state = "absent")
    /\ proc' = [proc EXCEPT !.pc = "write", !.tree = Tree(settings)]
    /\ UNCHANGED <<world, steps>>

(* ... which may not be JSON, and nothing is to be edited in a dry run or  *)
(* by uninstall when there is no file.                                     *)
SkipTree ==
    /\ proc.op \in {"setup", "uninstall"} /\ proc.pc = "hooks"
    /\ IF Dry \/ (proc.op = "uninstall" /\ settings.state = "absent")
         THEN Goto("skill")
         ELSE settings.state = "broken" /\ Finish("failed")
    /\ UNCHANGED <<world, steps>>

(* ... and writes a new one over it, by rename.                            *)
WriteTree ==
    /\ proc.op \in {"setup", "uninstall"} /\ proc.pc = "write"
    /\ settings' = IF proc.op = "setup" THEN InstallHooks(proc.tree, exe) ELSE RemoveHooks(proc.tree)
    /\ Goto("skill")
    /\ UNCHANGED <<skill, file, backups, oldDir, newDir, db, service, daemon, steps>>

(* installSkill: a file without the marker is the user's and is saved      *)
(* first; failing is not an error.                                         *)
InstallSkill ==
    /\ At("setup", "skill")
    /\ \/ Dry /\ UNCHANGED <<skill, backups, newDir>>
       \/ Faults /\ UNCHANGED <<skill, backups, newDir>>
       \/ /\ ~Dry
          /\ skill' = "ours"
          /\ IF skill = "user" THEN /\ backups' = Saved("skill", Empty)
                                    /\ newDir' = InData({"backup"})
                               ELSE UNCHANGED <<backups, newDir>>
    /\ Goto("startup")
    /\ UNCHANGED <<settings, file, oldDir, db, service, daemon, steps>>

(* installStartupCheck: the former block goes, the current one is written  *)
(* or refreshed, and the update state is recorded in the data directory.   *)
InstallStartupCheck ==
    /\ At("setup", "startup")
    /\ \/ /\ Dry \/ proc.opt.noStartup \/ Faults
          /\ UNCHANGED <<file, newDir>>
       \/ /\ ~Dry /\ ~proc.opt.noStartup
          /\ file' = StartupInstall(file)
          /\ newDir' = InData({"state"})
    /\ Goto("migrate")
    /\ UNCHANGED <<settings, skill, backups, oldDir, db, service, daemon, steps>>

(* MigrateLegacyDataDir, entry by entry.  The other case, one rename of the*)
(* whole directory, is for callers that have not made the new one: by now  *)
(* a backup or EnsureDirs always has.                                      *)
MigrateEntry ==
    /\ proc.pc \in {"migrate", "moving"} /\ ~Dry
    /\ proc.pc = "migrate" => MayMigrate
    /\ \E n \in oldDir :
        /\ oldDir' = oldDir \ {n}
        /\ newDir' = InData({n})
        /\ Goto(IF oldDir' = {} THEN "rename" ELSE "moving")
    /\ UNCHANGED <<settings, skill, file, backups, db, service, daemon, steps>>

MigrateNothing ==
    /\ proc.pc = "migrate"
    /\ Dry \/ ~MayMigrate
    /\ Goto("storage")
    /\ UNCHANGED <<world, steps>>

(* A rename that fails ends the migration with a warning: the command goes *)
(* on with what is there.                                                  *)
MigrateFails ==
    /\ Faults
    /\ proc.pc \in {"migrate", "moving", "rename"} /\ ~Dry
    /\ proc.pc = "migrate" => MayMigrate
    /\ Goto("storage")
    /\ UNCHANGED <<world, steps>>

(* renameLegacyDatabase never clobbers a database of the new name.         *)
RenameDatabase ==
    /\ proc.pc = "rename"
    /\ IF "agentguard.db" \in newDir /\ db = "none"
         THEN /\ newDir' = (newDir \ {"agentguard.db"}) \cup {"intenter.db"}
              /\ db' = "former"
         ELSE UNCHANGED <<newDir, db>>
    /\ Goto("storage")
    /\ UNCHANGED <<settings, skill, file, backups, oldDir, service, daemon, steps>>

(* EnsureDirs and OpenAndMigrate: a database that is not there is created. *)
OpenStorage ==
    /\ proc.pc = "storage"
    /\ IF Dry THEN UNCHANGED <<newDir, db>>
       ELSE /\ newDir' = InData({"intenter.db"})
            /\ db' = IF db = "none" THEN "new" ELSE db
    /\ IF proc.op = "register" THEN Finish("done") ELSE Goto("service")
    /\ UNCHANGED <<settings, skill, file, backups, oldDir, service, daemon, steps>>

(* installService: the former registration goes first; without a service   *)
(* manager, or when it refuses, the machine runs unmanaged.                *)
InstallService ==
    /\ At("setup", "service")
    /\ IF Dry THEN UNCHANGED service
       ELSE \E gone, registered \in BOOLEAN :
            /\ ~gone => Faults
            /\ registered => ~proc.opt.noService
            /\ service' = [exe |-> IF registered THEN exe ELSE service.exe,
                           old |-> service.old /\ ~gone]
    /\ Goto(IF Dry THEN "selftest" ELSE "daemon")
    /\ UNCHANGED <<settings, skill, file, backups, oldDir, newDir, db, daemon, steps>>

(* ensureDaemonRunning: spawn unless one answers.                          *)
EnsureDaemon ==
    /\ At("setup", "daemon")
    /\ daemon' = TRUE
    /\ newDir' = IF daemon THEN newDir ELSE InData({"log"})
    /\ Goto("selftest")
    /\ UNCHANGED <<settings, skill, file, backups, oldDir, db, service, steps>>

(* selfTest runs the hook command found in the settings file; what it      *)
(* finds must be an Intenter hook.  inventoryRules before it only counts.  *)
SelfTest ==
    /\ At("setup", "selftest")
    /\ IF Dry \/ \A e \in Required : HasHook(settings, e, OwnedByAnyIntenter)
         THEN Goto("meta") ELSE Finish("failed")
    /\ UNCHANGED <<world, steps>>

RecordMeta ==
    /\ At("setup", "meta")
    /\ Finish("done")
    /\ UNCHANGED <<world, steps>>

-----------------------------------------------------------------------------
(* intenter uninstall claude *)

RemoveSkill ==
    /\ At("uninstall", "skill")
    /\ skill' = "none"
    /\ Goto("startup")
    /\ UNCHANGED <<settings, file, backups, oldDir, newDir, db, service, daemon, steps>>

RemoveStartupCheck ==
    /\ At("uninstall", "startup")
    /\ file' = StartupRemove(file)
    /\ newDir' = IF file' = file THEN newDir ELSE InData({"state"})
    /\ Goto("daemon")
    /\ UNCHANGED <<settings, skill, backups, oldDir, db, service, daemon, steps>>

(* stopDaemon: ask it to exit, wait, unregister; a registration that stays *)
(* is only a warning.                                                      *)
StopDaemon ==
    /\ At("uninstall", "daemon")
    /\ IF proc.opt.keep THEN UNCHANGED <<daemon, service>>
       ELSE /\ daemon' = FALSE
            /\ \/ service' = [service EXCEPT !.exe = "none"]
               \/ Faults /\ UNCHANGED service
    /\ Goto("purge")
    /\ UNCHANGED <<settings, skill, file, backups, oldDir, newDir, db, steps>>

(* As a bug: the data goes whether or not the user asked.                  *)
PurgeAlways ==
    /\ At("uninstall", "purge")
    /\ newDir' = {} /\ db' = "none" /\ backups' = <<>>
    /\ Finish("done")
    /\ UNCHANGED <<settings, skill, file, oldDir, service, daemon, steps>>

Purge ==
    /\ At("uninstall", "purge")
    /\ IF proc.opt.purge
         THEN newDir' = {} /\ db' = "none" /\ backups' = <<>>
         ELSE UNCHANGED <<newDir, db, backups>>
    /\ Finish("done")
    /\ UNCHANGED <<settings, skill, file, oldDir, service, daemon, steps>>

-----------------------------------------------------------------------------
(* intenter daemon install, and removing a rule *)

(* EnsureDirs, RemoveLegacyService, Install; then writeMeta migrates.      *)
Register ==
    /\ At("register", "dirs")
    /\ \E gone \in BOOLEAN : (~gone => Faults) /\ service' = [exe |-> exe, old |-> service.old /\ ~gone]
    /\ Goto("migrate")
    /\ UNCHANGED <<settings, skill, file, backups, oldDir, newDir, db, daemon, steps>>

(* RemoveAllowRule: the rule is looked up in the file as it is now ...     *)
ReadRule ==
    /\ At("rule", "read")
    /\ IF settings.state # "ok" \/ proc.rule \notin settings.rules
         THEN Finish(IF settings.state = "broken" THEN "failed" ELSE "done")
         ELSE proc' = [proc EXCEPT !.pc = "backup", !.tree = settings]
    /\ UNCHANGED <<world, steps>>

BackupRule ==
    /\ At("rule", "backup")
    /\ backups' = Saved("settings", settings)
    /\ newDir' = InData({"backup"})
    /\ proc' = [proc EXCEPT !.pc = "write", !.saved = settings]
    /\ UNCHANGED <<settings, skill, file, oldDir, db, service, daemon, steps>>

(* ... and the tree written back without it: the user asked for that.      *)
WriteRule ==
    /\ At("rule", "write")
    /\ settings' = [proc.tree EXCEPT !.rules = @ \ {proc.rule}]
    /\ mine' = [mine EXCEPT !.rules = @ \ {proc.rule}]
    /\ Finish("done")
    /\ UNCHANGED <<skill, file, backups, oldDir, newDir, db, service, daemon, exe, clock, ops,
                   edits, lines, clean>>

-----------------------------------------------------------------------------
(* Everybody else *)

(* The window between reading the settings tree and renaming the new one   *)
(* over it is not guarded by any lock; an edit that falls into it is lost. *)
(* It is left out here: edits happen outside it.                           *)
NoTreeInHand == proc.pc # "write" /\ ~At("rule", "backup")

(* Claude stores a permission the user granted.                            *)
ClaudeAllows ==
    /\ edits < MaxEdits /\ settings.state = "ok" /\ NoTreeInHand
    /\ \E r \in Rules \ settings.rules :
        /\ settings' = [settings EXCEPT !.rules = @ \cup {r}]
        /\ mine' = [mine EXCEPT !.rules = @ \cup {r}]
    /\ edits' = edits + 1
    /\ UNCHANGED <<skill, file, backups, oldDir, newDir, db, service, daemon, exe, clock, ops,
                   proc, lines, clean>>

(* The user, or another installer, appends a line to a start-up file.      *)
AppendLine ==
    /\ edits < MaxEdits
    /\ \E n \in Candidates \ Standalone :
        /\ file' = [file EXCEPT ![n] =
                       Text(@.text \o (IF @.text # <<>> /\ Last(@.text) \notin {"nl", "block", "former"}
                                         THEN <<"nl">> ELSE <<>>) \o <<"b", "nl">>)]
        /\ lines' = [lines EXCEPT ![n] = Append(@, <<"b">>)]
        /\ clean' = [clean EXCEPT ![n] = Untouched(file'[n])]
    /\ edits' = edits + 1
    /\ UNCHANGED <<settings, skill, backups, oldDir, newDir, db, service, daemon, exe, clock, ops,
                   proc, mine>>

(* A hook finds no daemon and starts one: its log is opened before the     *)
(* former directory is looked at.                                          *)
DaemonStarts ==
    /\ ~daemon /\ proc.pc = "idle"
    /\ service.exe # "none" \/ \E e \in Events : HasHook(settings, e, OwnedByAnyIntenter)
    /\ daemon' = TRUE
    /\ newDir' = InData({"log", "intenter.db"})
    /\ db' = IF db = "none" THEN "new" ELSE db
    /\ UNCHANGED <<settings, skill, file, backups, oldDir, service, exe, clock, ops, edits, proc,
                   history>>

(* An upgrade put the executable elsewhere.                                *)
BinaryMoves ==
    /\ proc.pc = "idle" /\ edits < MaxEdits
    /\ exe' \in Paths \ {exe}
    /\ edits' = edits + 1
    /\ UNCHANGED <<world, clock, ops, proc, history>>

Tick ==
    /\ clock < MaxTime
    /\ clock' = clock + 1
    /\ UNCHANGED <<world, exe, ops, edits, proc, history>>

SetupStep ==
    \/ Detect \/ Backup \/ ReadTree \/ SkipTree \/ WriteTree \/ InstallSkill
    \/ InstallStartupCheck \/ MigrateEntry \/ MigrateNothing
    \/ MigrateFails \/ RenameDatabase \/ OpenStorage \/ InstallService \/ EnsureDaemon
    \/ SelfTest \/ RecordMeta

RemoveStep == RemoveSkill \/ RemoveStartupCheck \/ StopDaemon \/ Purge

OtherStep == Register \/ ReadRule \/ BackupRule \/ WriteRule

Next ==
    \/ RunSetup \/ RunUninstall \/ RunRegister \/ RunRemoveRule
    \/ SetupStep \/ RemoveStep \/ OtherStep \/ StepFails \/ Interrupt
    \/ ClaudeAllows \/ AppendLine \/ DaemonStarts \/ BinaryMoves \/ Tick

Spec == Init /\ [][Next]_vars

-----------------------------------------------------------------------------
(* Properties *)

(* Everything in Claude's settings that Intenter did not create stays as   *)
(* it is, in place and in order, whatever commands run, fail half way or   *)
(* are interrupted, and whatever Claude writes between their steps; only a *)
(* rule the user had removed goes (settings_edit.go, INVARIANT I-9).       *)
ForeignKept == Foreign(settings) = mine

OursAt(event) ==
    {p \in DOMAIN settings.hooks[event] : settings.hooks[event][p].entry.kind = "intenter"}

(* However often setup runs, and wherever the executable has moved between *)
(* two runs, an event never has two Intenter hooks; after a run that       *)
(* succeeded every required event has one, for the executable as it was    *)
(* then, and none of the former product (installEntry, selfTest).          *)
OneHook ==
    /\ \A e \in Events : \A p, q \in OursAt(e) : p = q
    /\ proc.op = "setup" /\ proc.result = "done" /\ ~proc.opt.dry =>
        \A e \in Required :
            /\ OursAt(e) # {}
            /\ ~HasHook(settings, e, ownedByLegacy)

(* After an uninstall that reports success nothing of Intenter runs any    *)
(* more: no hook, no skill and no start-up block, of this product or the   *)
(* former one, even if earlier commands were interrupted (uninstall.go).   *)
NothingLeft ==
    proc.op = "uninstall" /\ proc.result = "done" =>
        /\ \A e \in Events : ~HasHook(settings, e, LAMBDA h : h.kind # "user")
        /\ skill = "none"
        /\ \A n \in Candidates : ToSet(file[n].text) \cap Managed = {}

(* The settings file is only written while the copy that the same command  *)
(* took of it is in the backup directory: neither the pruning nor an older *)
(* backup of the same second takes it away (backupFile, I-9).              *)
BackedUp ==
    [][proc.pc = "write" /\ settings' # settings =>
         \E k \in DOMAIN backups : backups[k] = proc.saved]_vars

(* Neither database is ever lost or replaced by the other one, through     *)
(* failures and interruptions of the migration; data goes only by a purge  *)
(* the user asked for, and only once the hooks are out (legacy.go, purge). *)
DataKept ==
    [][\/ /\ proc.op = "uninstall" /\ proc.opt.purge /\ proc.pc = "purge"
          /\ \A e \in Events : ~HasHook(settings, e, OursOrLegacy)
       \/ /\ db # "none" => db' = db
          /\ "agentguard.db" \in oldDir \cup newDir =>
              db' = "former" \/ "agentguard.db" \in oldDir' \cup newDir']_vars

(* The user's lines of a start-up file are never changed, joined, lost or  *)
(* reordered, whatever is written and removed around them (startupcheck.go *)
(* writeBlock, removeBlockMarked).                                         *)
StartupLinesKept == \A n \in Candidates : Lines(file[n].text) = lines[n]

(* A file from which the block was removed is, unless it was edited with   *)
(* the block in it, to the byte what it was before: install and uninstall  *)
(* in any order and number, cut short anywhere (startupcheck.go            *)
(* trimOneNewline, which promises it).                                     *)
RestoredExactly ==
    \A n \in Candidates :
        clean[n].known /\ ToSet(file[n].text) \cap Managed = {} => file[n].text = clean[n].text

=============================================================================
