------------------------------- MODULE Updater ------------------------------
(***************************************************************************)
(* Update checks and self-update.  Terminals, `intenter update` commands,  *)
(* background checks and the daemon's own checker are processes that share *)
(* one state file, two file locks and the executable on disk.              *)
(*                                                                         *)
(* A read-modify-write of the state file is two steps (load, save) under   *)
(* the state lock; a prompt or an update runs under the prompt lock.  The  *)
(* instants of the state file are countdowns: how long the file still says *)
(* "not yet".  One tick is longer than a check, a prompt or a lock wait.   *)
(***************************************************************************)
EXTENDS Integers, Sequences

CONSTANTS
    Procs,        \* processes
    None,
    Versions,     \* releases, ordered as numbers
    Prereleases,  \* those of Versions that are pre-releases
    Channels,     \* release channels a check may follow
    Targets,      \* releases named with `update --version`
    Skips,        \* releases named with `update --skip`
    Remind,       \* updates.remind_every, in ticks
    Interval,     \* updates.check_every
    Backoff,      \* the waits after 1, 2, ... failed checks
    StaleAfter,   \* how long an in-progress marker is believed
    LockingWorks, \* FALSE on a filesystem that cannot lock at all
    Windows,      \* a running executable is moved aside before it is replaced
    Delegated,    \* a package manager owns the executable
    Faults,       \* network, disk and lock waits may fail
    Crashes       \* processes may die at any step

ASSUME UpdaterAssumption ==
    /\ None \notin Procs
    /\ Versions \subseteq Nat \ {0} /\ Prereleases \subseteq Versions
    /\ Targets \subseteq Versions /\ Skips \subseteq Versions
    /\ Channels \subseteq {"stable", "prerelease"} /\ "stable" \in Channels
    /\ Remind \in Nat /\ Interval \in Nat /\ StaleAfter \in Nat
    /\ Backoff \in Seq(Nat) /\ Len(Backoff) > 0
    /\ LockingWorks \in BOOLEAN /\ Windows \in BOOLEAN /\ Delegated \in BOOLEAN
    /\ Faults \in BOOLEAN /\ Crashes \in BOOLEAN

VARIABLES
    disk,       \* the state file
    newest,     \* newest release of each channel
    promptLock, \* processes that hold the prompt lock
    stateLock,  \* processes that hold the state lock
    exe,        \* the file at the executable's path
    staged,     \* the file at the staging path beside it
    aside,      \* the file displaced by a swap
    spawned,    \* a detached background check was started
    declined,   \* history: releases the user asked not to be offered again
    proc        \* the processes

vars == <<disk, newest, promptLock, stateLock, exe, staged, aside, spawned, declined, proc>>
files == <<exe, staged, aside>>

-----------------------------------------------------------------------------
(* Data *)

Missing == [ver |-> 0, is |-> "missing"]
Half(v) == [ver |-> v, is |-> "half"]
Build(v) == [ver |-> v, is |-> "whole"]
Corrupt == [ver |-> 0, is |-> "corrupt"]
Published == {Build(v) : v \in Versions}
File == {Missing, Corrupt} \cup Published \cup {Half(v) : v \in Versions}

(* The fields of the state file that decide something.  latest and skipped *)
(* are 0 while unknown; owner and marker are the in-progress record.       *)
UpdateState ==
    [latest: Versions \cup {0}, skipped: Versions \cup {0}, next: Nat,
     failures: 0 .. Len(Backoff), deferred: 0 .. Remind, prompted: 0 .. Remind,
     owner: Procs \cup {None}, marker: 0 .. StaleAfter]

NoState ==
    [latest |-> 0, skipped |-> 0, next |-> 0, failures |-> 0, deferred |-> 0,
     prompted |-> 0, owner |-> None, marker |-> 0]

Steps == {"idle", "lock", "ask", "confirm", "apply", "mutate", "save", "discover", "fetch",
          "stage", "write", "swap", "swap_in", "delegate", "restart"}
Changes == {"none", "update", "not_now", "skip_this", "check_ok", "check_failed", "skip",
            "unskip", "mark", "finish"}

(* A process: its step, the change it is making to the state file and the  *)
(* copy it loaded, the version it runs, the release it is about, the       *)
(* channel it follows, the build it downloaded, the file its descriptor    *)
(* leads to, whether the user was shown a downgrade, and how the update    *)
(* went.                                                                   *)
Process ==
    [pc: Steps, change: Changes, copy: UpdateState, run: Versions \cup {0},
     target: Versions \cup {0}, channel: Channels,
     binary: File, out: {"none", "staged", "target"}, told: BOOLEAN, ok: BOOLEAN]

Idle ==
    [pc |-> "idle", change |-> "none", copy |-> NoState, run |-> 0, target |-> 0,
     channel |-> "stable", binary |-> Missing, out |-> "none", told |-> FALSE,
     ok |-> FALSE]

Init ==
    /\ \E v \in Versions : /\ \A w \in Versions : v <= w
                           /\ exe = Build(v)
                           /\ newest = [c \in Channels |-> v]
    /\ disk = NoState
    /\ promptLock = {} /\ stateLock = {}
    /\ staged = Missing /\ aside = Missing
    /\ spawned = FALSE /\ declined = {}
    /\ proc = [p \in Procs |-> Idle]

Become(p, r) == proc' = [proc EXCEPT ![p] = r]
Goto(p, step) == Become(p, [proc[p] EXCEPT !.pc = step])
At(p, step) == proc[p].pc = step

(* The process changes the state file next.                                *)
Changing(r, change) == [r EXCEPT !.pc = "mutate", !.change = change]

(* Process p returns; what it held is released.                            *)
Done(p) ==
    /\ Become(p, Idle)
    /\ promptLock' = promptLock \ {p}

(* A lock can be taken if nobody holds it, or if nothing can be locked.    *)
Free(lock) == LockingWorks => lock = {}

-----------------------------------------------------------------------------
(* The state file *)

backoffFor(n) == IF Backoff[n] < Interval THEN Interval ELSE Backoff[n]

CheckDue(s) == s.next = 0

(* As a bug: a marker is believed for ever.                                *)
MarkedAtAll(s) == s.owner # None

UpdateRunning(s) == s.owner # None /\ s.marker > 0

(* Configuration follows the stable channel.                               *)
Eligible(s, installed) ==
    /\ s.latest > installed
    /\ s.latest \in Prereleases => installed \in Prereleases
    /\ s.latest # s.skipped
    /\ s.deferred = 0 /\ s.prompted = 0
    /\ ~UpdateRunning(s)

RecordCheckOK(s, v) ==
    [s EXCEPT !.failures = 0, !.next = Interval, !.latest = v,
              !.skipped = IF v > @ THEN 0 ELSE @]

RecordCheckFailure(s) ==
    LET n == IF s.failures < Len(Backoff) THEN s.failures + 1 ELSE s.failures
    IN  [s EXCEPT !.failures = n, !.next = backoffFor(n)]

(* As a bug: "skip this version" is treated like "not now".                *)
persistNotNow(s, choice, v) ==
    [s EXCEPT !.prompted = Remind, !.deferred = IF choice = "update" THEN @ ELSE Remind]

persist(s, choice, v) ==
    [s EXCEPT !.prompted = Remind,
              !.skipped = IF choice = "skip_this" THEN v ELSE @,
              !.deferred = CASE choice = "skip_this" -> 0
                             [] choice = "not_now"   -> Remind
                             [] OTHER                -> @]

markInProgress(s, p) == [s EXCEPT !.owner = p, !.marker = StaleAfter]

finish(s, ok) ==
    [s EXCEPT !.owner = None, !.marker = 0, !.deferred = IF ok THEN 0 ELSE @]

(* The change a process makes to the copy it loaded.                       *)
Changed(p, s) ==
    LET r == proc[p] IN
    CASE r.change \in {"update", "not_now", "skip_this"} -> persist(s, r.change, r.target)
      [] r.change = "check_ok"     -> RecordCheckOK(s, r.target)
      [] r.change = "check_failed" -> RecordCheckFailure(s)
      [] r.change = "skip"         -> [s EXCEPT !.skipped = r.target]
      [] r.change = "unskip"       -> [s EXCEPT !.skipped = 0]
      [] r.change = "mark"         -> markInProgress(s, p)
      [] r.change = "finish"       -> finish(s, r.ok)
      [] OTHER                     -> s

(* What follows a Mutate.  An answer that could not be recorded is only    *)
(* warned about; an update that could not be marked does not start.        *)
AfterMutate(p, written) ==
    LET r == proc[p] IN
    \/ /\ r.change = "update"
       /\ Become(p, Changing(r, "mark"))
       /\ UNCHANGED promptLock
    \/ /\ r.change = "mark" /\ written
       /\ Goto(p, IF Delegated THEN "delegate" ELSE "fetch")
       /\ UNCHANGED promptLock
    \/ /\ r.change # "update"
       /\ r.change = "mark" => ~written
       /\ Done(p)

(* As a bug: nobody waits for the lock.                                    *)
MutateUnlocked(p) ==
    /\ At(p, "mutate")
    /\ Become(p, [proc[p] EXCEPT !.pc = "save", !.copy = disk])
    /\ UNCHANGED <<disk, newest, promptLock, stateLock, files, spawned, declined>>

(* Store.Mutate: take the state lock and load; the wait for the lock has a *)
(* deadline.                                                               *)
Mutate(p) ==
    /\ At(p, "mutate")
    /\ \/ /\ Free(stateLock)
          /\ stateLock' = stateLock \cup {p}
          /\ Become(p, [proc[p] EXCEPT !.pc = "save", !.copy = disk])
          /\ UNCHANGED promptLock
       \/ /\ Faults
          /\ AfterMutate(p, FALSE)
          /\ UNCHANGED stateLock
    /\ UNCHANGED <<disk, newest, files, spawned, declined>>

(* Change, Save (a rename) and unlock.                                     *)
Save(p) ==
    /\ At(p, "save")
    /\ stateLock' = stateLock \ {p}
    /\ \/ /\ disk' = Changed(p, proc[p].copy)
          /\ declined' = CASE proc[p].change \in {"skip", "skip_this"} -> declined \cup {proc[p].target}
                           [] proc[p].change = "unskip" -> {}
                           [] OTHER -> declined
          /\ AfterMutate(p, TRUE)
       \/ /\ Faults
          /\ AfterMutate(p, FALSE)
          /\ UNCHANGED <<disk, declined>>
    /\ UNCHANGED <<newest, files, spawned>>

-----------------------------------------------------------------------------
(* Commands: they run the executable at the path, which on Windows first   *)
(* drops what an earlier swap displaced.                                   *)

Starts(p) ==
    /\ At(p, "idle") /\ exe \in Published
    /\ IF Windows THEN aside' \in {aside, Missing} ELSE aside' = aside
    /\ UNCHANGED <<newest, stateLock, promptLock, exe, staged, disk, declined>>

(* As a bug: only the release itself is looked at, not earlier answers.    *)
StartupCheckUnasked(p) ==
    /\ Starts(p)
    /\ spawned' \in {spawned, TRUE}
    /\ spawned' # spawned => CheckDue(disk)
    /\ IF disk.latest > exe.ver
       THEN Become(p, [Idle EXCEPT !.pc = "lock", !.run = exe.ver, !.target = disk.latest])
       ELSE UNCHANGED proc

(* `update --startup` in a new terminal: load once, start a check if one   *)
(* is due and no daemon answers, go on if there is something to offer.     *)
runStartupCheck(p) ==
    /\ Starts(p)
    /\ spawned' \in {spawned, TRUE}
    /\ spawned' # spawned => CheckDue(disk)
    /\ IF Eligible(disk, exe.ver)
       THEN Become(p, [Idle EXCEPT !.pc = "lock", !.run = exe.ver, !.target = disk.latest])
       ELSE UNCHANGED proc

(* A terminal that does not get the prompt lock starts silently.           *)
AcquirePromptLock(p) ==
    /\ At(p, "lock")
    /\ \/ /\ Free(promptLock)
          /\ promptLock' = promptLock \cup {p}
          /\ Goto(p, "ask")
       \/ /\ ~Free(promptLock) \/ Faults
          /\ Done(p)
    /\ UNCHANGED <<disk, newest, stateLock, files, spawned, declined>>

(* Prompter.Ask: silence and anything unexpected count as "not now".       *)
Ask(p) ==
    /\ At(p, "ask")
    /\ \E choice \in {"update", "not_now", "skip_this"} : Become(p, Changing(proc[p], choice))
    /\ UNCHANGED <<disk, newest, promptLock, stateLock, files, spawned, declined>>

(* As a bug: --yes needs no --allow-downgrade.                             *)
PlanUnguarded(p, v, yes, allow) ==
    LET target == IF v = 0 THEN disk.latest ELSE v IN
    /\ Starts(p)
    /\ target # 0
    /\ Become(p, [Idle EXCEPT !.pc = IF yes THEN "apply" ELSE "confirm", !.run = exe.ver,
                              !.target = target,
                              !.told = target < exe.ver /\ (allow \/ ~yes)])
    /\ UNCHANGED spawned

(* `intenter update`: BuildPlan and the refusals of confirmPlan.  v is the *)
(* release named by the user, 0 for the newest known one.                  *)
BuildPlan(p, v, yes, allow) ==
    LET target == IF v = 0 THEN disk.latest ELSE v IN
    /\ Starts(p)
    /\ target # 0
    /\ target < exe.ver /\ yes => allow
    /\ Become(p, [Idle EXCEPT !.pc = IF yes THEN "apply" ELSE "confirm", !.run = exe.ver,
                              !.target = target,
                              !.told = target < exe.ver /\ (allow \/ ~yes)])
    /\ UNCHANGED spawned

confirmPlan(p) ==
    /\ At(p, "confirm")
    /\ Goto(p, "apply") \/ Become(p, Idle)
    /\ UNCHANGED <<disk, newest, promptLock, stateLock, files, spawned, declined>>

(* `update --skip v` and `update --unskip` (v = 0).                        *)
runSkip(p, v) ==
    /\ Starts(p)
    /\ Become(p, Changing([Idle EXCEPT !.target = v], IF v = 0 THEN "unskip" ELSE "skip"))
    /\ UNCHANGED spawned

Checks(p, channel) == Become(p, [Idle EXCEPT !.pc = "discover", !.channel = channel])

(* The detached `update --background-check`.                               *)
runBackgroundCheck(p) ==
    /\ Starts(p) /\ spawned
    /\ Checks(p, "stable")
    /\ spawned' = FALSE

(* The daemon's checker, when its timer fires and a check is due.          *)
runOnce(p) ==
    /\ At(p, "idle") /\ CheckDue(disk)
    /\ Checks(p, "stable")
    /\ UNCHANGED <<disk, newest, promptLock, stateLock, files, spawned, declined>>

(* `update --check`, which may follow another channel for one command.     *)
runCheckNow(p, channel) ==
    /\ Starts(p)
    /\ Checks(p, channel)
    /\ UNCHANGED spawned

discover(p) ==
    /\ At(p, "discover")
    /\ \/ Become(p, Changing([proc[p] EXCEPT !.target = newest[proc[p].channel]], "check_ok"))
       \/ Faults /\ Become(p, Changing(proc[p], "check_failed"))
    /\ UNCHANGED <<disk, newest, promptLock, stateLock, files, spawned, declined>>

-----------------------------------------------------------------------------
(* Apply *)

(* As a bug: a lock that is held is ignored.                               *)
ApplyUnlocked(p) ==
    /\ At(p, "apply")
    /\ promptLock' = promptLock \cup {p}
    /\ Become(p, Changing(proc[p], "mark"))
    /\ UNCHANGED <<disk, newest, stateLock, files, spawned, declined>>

(* Apply takes the prompt lock, unless the prompt that led here holds it.  *)
Apply(p) ==
    /\ At(p, "apply")
    /\ \/ /\ Free(promptLock)
          /\ promptLock' = promptLock \cup {p}
          /\ Become(p, Changing(proc[p], "mark"))
       \/ /\ ~Free(promptLock) \/ Faults
          /\ Done(p)
    /\ UNCHANGED <<disk, newest, stateLock, files, spawned, declined>>

(* The deferred finish of Apply.                                           *)
Finish(p, ok) == Become(p, Changing([proc[p] EXCEPT !.ok = ok, !.out = "none", !.binary = Missing], "finish"))

(* What the release host may serve: an archive, the build its checksums    *)
(* file lists, and whether the signature verifies.  Only the publisher     *)
(* signs, and it lists what it built.                                      *)
Downloads ==
    {d \in [archive: Published \cup {Corrupt}, listed: Published \cup {Corrupt}, signed: BOOLEAN] :
        d.signed => d.listed \in Published}

(* As a bug: the archive is checked against a list nobody signed.          *)
VerifiedUnsigned(d, v) == d.archive = d.listed

(* verifySignature, verifyChecksum, and the build runs and reports v.      *)
Verified(d, v) == d.signed /\ d.archive = d.listed /\ d.archive = Build(v)

(* Fetcher.Fetch, into a directory of its own.                             *)
Fetch(p) ==
    /\ At(p, "fetch")
    /\ \/ \E d \in Downloads : 
            /\ Verified(d, proc[p].target)
            /\ Become(p, [proc[p] EXCEPT !.pc = "stage", !.binary = d.archive])
       \/ Faults /\ Finish(p, FALSE)
    /\ UNCHANGED <<disk, newest, promptLock, stateLock, files, spawned, declined>>

(* copyExecutable opens the staging path with O_TRUNC; a staging file that *)
(* is there is emptied for whoever else has it open.                       *)
copyExecutable(p) ==
    /\ At(p, "stage")
    /\ staged' = Half(proc[p].target)
    /\ Become(p, [proc[p] EXCEPT !.pc = "write", !.out = "staged"])
    /\ UNCHANGED <<disk, newest, promptLock, stateLock, exe, aside, spawned, declined>>

(* The copy reaches the file its descriptor leads to, wherever that file   *)
(* has been renamed since; a failed copy is removed by its path.           *)
WriteStaged(p) ==
    /\ At(p, "write")
    /\ \/ /\ staged' = IF proc[p].out = "staged" THEN proc[p].binary ELSE staged
          /\ exe' = IF proc[p].out = "target" THEN proc[p].binary ELSE exe
          /\ Become(p, [proc[p] EXCEPT !.pc = "swap", !.out = "none"])
       \/ /\ Faults
          /\ staged' = Missing /\ UNCHANGED exe
          /\ Finish(p, FALSE)
    /\ UNCHANGED <<disk, newest, promptLock, stateLock, aside, spawned, declined>>

(* The staging file becomes the executable: other descriptors on it follow *)
(* the file, those on the replaced executable lead nowhere.                *)
Installs(p) ==
    /\ exe' = staged /\ staged' = Missing
    /\ proc' = [q \in Procs |->
        IF q = p THEN [proc[p] EXCEPT !.pc = "restart", !.out = "none", !.binary = Missing]
        ELSE [proc[q] EXCEPT !.out = CASE @ = "staged" -> "target"
                                       [] @ = "target" -> "none"
                                       [] OTHER -> @]]

(* swap: one rename, or on Windows the executable is moved aside first.    *)
swap(p) ==
    /\ At(p, "swap")
    /\ \/ /\ ~Windows /\ staged # Missing
          /\ Installs(p)
          /\ UNCHANGED aside
       \/ /\ Windows
          /\ aside' = exe /\ exe' = Missing
          /\ Goto(p, "swap_in")
          /\ UNCHANGED staged
       \/ /\ staged = Missing \/ Faults
          /\ staged' = Missing
          /\ Finish(p, FALSE)
          /\ UNCHANGED <<exe, aside>>
    /\ UNCHANGED <<disk, newest, promptLock, stateLock, spawned, declined>>

(* As a bug: the displaced executable is not put back.                     *)
swapInNoUndo(p) ==
    /\ At(p, "swap_in")
    /\ \/ /\ staged # Missing
          /\ Installs(p)
          /\ aside' \in {aside, Missing}
       \/ /\ staged = Missing \/ Faults
          /\ staged' = Missing
          /\ Finish(p, FALSE)
          /\ UNCHANGED <<exe, aside>>
    /\ UNCHANGED <<disk, newest, promptLock, stateLock, spawned, declined>>

(* The second rename; if it fails the first is undone.                     *)
swapIn(p) ==
    /\ At(p, "swap_in")
    /\ \/ /\ staged # Missing
          /\ Installs(p)
          /\ aside' \in {aside, Missing}
       \/ /\ staged = Missing \/ Faults
          /\ exe' = aside /\ aside' = Missing /\ staged' = Missing
          /\ Finish(p, FALSE)
    /\ UNCHANGED <<disk, newest, promptLock, stateLock, spawned, declined>>

(* The package manager installs what it considers newest, or fails.        *)
delegate(p) ==
    /\ At(p, "delegate")
    /\ \/ /\ exe' = Build(newest["stable"])
          /\ Goto(p, "restart")
       \/ /\ Faults
          /\ Finish(p, FALSE)
          /\ UNCHANGED exe
    /\ UNCHANGED <<disk, newest, promptLock, stateLock, staged, aside, spawned, declined>>

(* Restart the daemon and wait until it reports the target.                *)
afterReplacement(p) ==
    /\ At(p, "restart")
    /\ \/ exe = Build(proc[p].target) /\ Finish(p, TRUE)
       \/ (Faults \/ exe # Build(proc[p].target)) /\ Finish(p, FALSE)
    /\ UNCHANGED <<disk, newest, promptLock, stateLock, files, spawned, declined>>

-----------------------------------------------------------------------------
(* The environment *)

Publish(c, v) ==
    /\ v > newest[c]
    /\ c = "stable" => v \notin Prereleases
    /\ newest' = [newest EXCEPT ![c] = v]
    /\ UNCHANGED <<disk, promptLock, stateLock, files, spawned, declined, proc>>

Less(n) == IF n > 0 THEN n - 1 ELSE 0

Aged(s) == [s EXCEPT !.next = Less(@), !.deferred = Less(@), !.prompted = Less(@),
                     !.marker = Less(@)]

(* Time passes, for the file and for the copies in memory.                 *)
Tick ==
    /\ Aged(disk) # disk
    /\ disk' = Aged(disk)
    /\ proc' = [p \in Procs |-> [proc[p] EXCEPT !.copy = Aged(@)]]
    /\ UNCHANGED <<newest, promptLock, stateLock, files, spawned, declined>>

(* A terminal is closed or the machine goes down: the kernel drops locks.  *)
Die(p) ==
    /\ Crashes /\ ~At(p, "idle")
    /\ Done(p)
    /\ stateLock' = stateLock \ {p}
    /\ UNCHANGED <<disk, newest, files, spawned, declined>>

Step(p) ==
    \/ Mutate(p) \/ Save(p) \/ AcquirePromptLock(p) \/ Ask(p) \/ confirmPlan(p) \/ discover(p)
    \/ Apply(p) \/ Fetch(p) \/ copyExecutable(p) \/ WriteStaged(p) \/ swap(p) \/ swapIn(p)
    \/ delegate(p) \/ afterReplacement(p)

Begin(p) ==
    \/ runStartupCheck(p)
    \/ \E v \in Targets \cup {0}, yes, allow \in BOOLEAN : BuildPlan(p, v, yes, allow)
    \/ \E v \in Skips \cup {0} : runSkip(p, v)
    \/ runBackgroundCheck(p) \/ runOnce(p)
    \/ \E c \in Channels : runCheckNow(p, c)

Next ==
    \/ \E p \in Procs : Begin(p) \/ Step(p) \/ Die(p)
    \/ \E c \in Channels, v \in Versions : Publish(c, v)
    \/ Tick

Spec == Init /\ [][Next]_vars

(* Running processes get on and the clock goes on; nobody has to start     *)
(* anything.                                                               *)
FairSpec == Spec /\ WF_vars(Tick) /\ \A p \in Procs : WF_vars(Step(p))

-----------------------------------------------------------------------------
(* Properties *)

TypeOK ==
    /\ disk \in UpdateState
    /\ newest \in [Channels -> Versions]
    /\ promptLock \subseteq Procs /\ stateLock \subseteq Procs
    /\ exe \in File /\ staged \in File /\ aside \in File
    /\ spawned \in BOOLEAN /\ declined \subseteq Versions
    /\ proc \in [Procs -> Process]

(* The executable's path always names a complete, published build: at no   *)
(* step, of however many terminals, and after no crash or failure, a       *)
(* half-written, tampered or missing one (replace.go Replace, download.go  *)
(* Fetch).                                                                 *)
ExecutableIsWhole == exe \in Published

Applying(p) ==
    \/ proc[p].pc \in {"fetch", "stage", "write", "swap", "swap_in", "delegate", "restart"}
    \/ proc[p].pc \in {"mutate", "save"} /\ proc[p].change = "finish"

(* On Windows the path is empty between the two renames of a swap, but the *)
(* build that was there is then beside it, to be restored after a crash;   *)
(* an update that lives on, failed or not, leaves a build at the path      *)
(* (replace_windows.go swap).                                              *)
ExecutableSurvives ==
    /\ exe \in Published \/ (exe = Missing /\ aside \in Published)
    /\ \A p \in Procs : Applying(p) /\ ~At(p, "swap_in") => exe \in Published

(* While an update runs the state file says so, in its name: no other      *)
(* process replaces or clears the marker (apply.go markInProgress, finish).*)
MarkerIsOwned == \A p \in Procs : Applying(p) => disk.owner = p

SkipChangedOnPurpose ==
    disk'.skipped # disk.skipped =>
        \E p \in Procs :
            /\ At(p, "save")
            /\ \/ proc[p].change \in {"skip", "skip_this"} /\ disk'.skipped = proc[p].target
               \/ proc[p].change = "unskip" /\ disk'.skipped = 0
               \/ /\ proc[p].change = "check_ok" /\ disk'.skipped = 0
                  /\ proc[p].target > disk.skipped

(* Two processes never lose each other's answer: a skipped version changes *)
(* only by another skip, an unskip, or a check that found something newer  *)
(* than the version skipped now (state.go Mutate).                         *)
AnswersKept == [][SkipChangedOnPurpose]_vars

Prompted(p) == At(p, "lock") /\ proc'[p].pc = "ask"

Answered(s, v) == v = s.skipped \/ s.deferred > 0 \/ s.prompted > 0

(* Of many terminals that open at once one asks: a prompt is not shown     *)
(* while the answer another terminal got is in force (runStartupCheck).    *)
AskedOnce == [][\A p \in Procs : Prompted(p) => ~Answered(disk, proc[p].target)]_vars

(* A release the user skipped is not offered again (prompt.go ChoiceSkip). *)
NeverOfferedAgain == [][\A p \in Procs : Prompted(p) => proc[p].target \notin declined]_vars

Swapping(p) == proc[p].pc \in {"swap", "swap_in"}

(* The build at the path, or the one a Windows swap has just moved aside.  *)
Installed == IF exe = Missing THEN aside.ver ELSE exe.ver

DowngradeAgreed ==
    Installed' < Installed => \E p \in Procs : Swapping(p) /\ proc[p].told

(* The executable is never replaced by an older one unless the user of     *)
(* that command was shown a downgrade and agreed (Older, confirmPlan).     *)
NoSilentDowngrade == [][DowngradeAgreed]_vars

Quiet == \A p \in Procs : At(p, "idle")

Offerable == exe \in Published /\ disk.latest > exe.ver /\ disk.latest # disk.skipped
             /\ disk.latest \notin Prereleases

(* Silence ends: once nothing runs, a newer release that is not skipped    *)
(* becomes due again, whatever crashed update or old answer the file still *)
(* remembers (state.go UpdateRunning, Eligible).                           *)
SilenceEnds == (Quiet /\ Offerable) ~> (~Quiet \/ ~Offerable \/ Eligible(disk, exe.ver))
=============================================================================
