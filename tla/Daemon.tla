------------------------------- MODULE Daemon -------------------------------
(***************************************************************************)
(* The life of the per-user daemon: the single-instance lock, the files it *)
(* publishes (pid file, socket, daemon.json), its start-up and shutdown    *)
(* sequence, self-refresh after an upgrade, the hooks that start it lazily *)
(* and the CLI that restarts it.                                           *)
(*                                                                         *)
(* Each process slot runs `daemon run` at most once at a time; the slot's  *)
(* name is its pid.  Every system call that another process can observe    *)
(* is a step of its own: opening the lock file and locking it are two      *)
(* steps, and so are the four steps of Lock.Release.  A file names the     *)
(* process that wrote it, is absent (None), or names a process that no     *)
(* longer exists (Stale).                                                  *)
(***************************************************************************)
EXTENDS Naturals, FiniteSets

CONSTANTS
    Procs,        \* process slots a daemon may run in
    Inodes,       \* inodes the lock path can name
    Hooks,        \* hook processes of the agent
    None, Stale,
    Versions,     \* releases that may be installed, natural numbers
    OtherVersion, \* release of another copy of the CLI on the PATH
    MaxShutdowns, \* shutdown requests that may reach one daemon
    Overlap,      \* TRUE if acquiring the lock may overlap releasing it
    Faults,       \* TRUE if start-up steps fail and processes die
    CLI           \* TRUE if a user runs `intenter daemon restart`

ASSUME DaemonAssumption ==
    /\ None \notin Procs \cup Inodes /\ Stale \notin Procs \cup {None}
    /\ Versions \subseteq Nat /\ OtherVersion \in Nat /\ MaxShutdowns \in Nat
    /\ Overlap \in BOOLEAN /\ Faults \in BOOLEAN /\ CLI \in BOOLEAN

VARIABLES
    pc,        \* what each process does next
    file,      \* the inode each process has opened as lock file
    locked,    \* processes that hold the flock on their inode
    lockPath,  \* inode the lock path names
    pidFile, socket, info, \* owners of the published files
    ver,       \* release each process was started from
    installed, \* release of the executable on disk
    refreshed, \* processes that stop in order to restart into a new binary
    renewing,  \* of those, the ones whose refresh will close the channel
    closed,    \* processes whose shutdownRequested channel is closed
    asked,     \* shutdown goroutines that have not looked at the channel yet
    checked,   \* shutdown goroutines that found it open and will close it
    hook,      \* what each hook does next
    cli        \* the restart command: its step and the pid it read

files == <<lockPath, pidFile, socket, info>>
stopping == <<refreshed, renewing, closed, asked, checked>>
vars == <<pc, file, locked, files, ver, installed, stopping, hook, cli>>

Starting == {"open", "flock", "pid", "store", "listen", "info"}
Stopping == {"stop", "drop_info", "close_store", "unlock", "rm_pid", "rm_lock"}
PCs == {"none", "serve"} \cup Starting \cup Stopping

\* Processes between a successful flock and the unlock of Release.
Holding == {"pid", "store", "listen", "info", "serve", "stop", "drop_info",
            "close_store", "unlock"}

\* Processes that have the database open.
StoreOpen == {"listen", "info", "serve", "stop", "drop_info", "close_store"}

HookSteps == {"idle", "first", "start", "wait", "second", "answered", "deferred"}
CliSteps == {"idle", "poll", "wait", "gone", "start"}

TypeOK ==
    /\ pc \in [Procs -> PCs]
    /\ file \in [Procs -> Inodes \cup {None}]
    /\ locked \in SUBSET Procs
    /\ lockPath \in Inodes \cup {None}
    /\ pidFile \in Procs \cup {None, Stale}
    /\ socket \in Procs \cup {None, Stale}
    /\ info \in Procs \cup {None, Stale}
    /\ ver \in [Procs -> Versions]
    /\ installed \in Versions
    /\ refreshed \in SUBSET Procs /\ renewing \in SUBSET Procs
    /\ closed \in SUBSET Procs
    /\ asked \in [Procs -> 0..MaxShutdowns]
    /\ checked \in [Procs -> 0..MaxShutdowns]
    /\ hook \in [Hooks -> HookSteps]
    /\ cli \in [step : CliSteps, pid : Procs \cup {None, Stale}]

Init ==
    /\ pc = [p \in Procs |-> "none"]
    /\ file = [p \in Procs |-> None]
    /\ locked = {} /\ lockPath = None
    /\ pidFile = None /\ socket = None /\ info = None
    /\ installed \in Versions /\ (\A v \in Versions : installed <= v)
    /\ ver = [p \in Procs |-> installed]
    /\ refreshed = {} /\ renewing = {} /\ closed = {}
    /\ asked = [p \in Procs |-> 0] /\ checked = [p \in Procs |-> 0]
    /\ hook = [h \in Hooks |-> "idle"]
    /\ cli = [step |-> "idle", pid |-> None]

At(p, from) == pc[p] = from
Goto(p, to) == pc' = [pc EXCEPT ![p] = to]

\* What a file or a remembered pid names once process p is gone.
Forget(owner, p) == IF owner = p THEN Stale ELSE owner

\* Process p is gone: the kernel closes its files, which releases the flock,
\* and its goroutines end; the files it published stay as they are.
Exit(p) ==
    /\ Goto(p, "none")
    /\ file' = [file EXCEPT ![p] = None]
    /\ locked' = locked \ {p}
    /\ refreshed' = refreshed \ {p} /\ renewing' = renewing \ {p}
    /\ closed' = closed \ {p}
    /\ asked' = [asked EXCEPT ![p] = 0] /\ checked' = [checked EXCEPT ![p] = 0]
    /\ pidFile' = Forget(pidFile, p)
    /\ socket' = Forget(socket, p)
    /\ info' = Forget(info, p)
    /\ cli' = [cli EXCEPT !.pid = Forget(@, p)]

\* A new process starts in a free slot, from the executable on disk.
Spawn(p) ==
    /\ At(p, "none")
    /\ Goto(p, "open")
    /\ ver' = [ver EXCEPT ![p] = installed]

-----------------------------------------------------------------------------
(* Start-up: AcquireLock and Daemon.Run.                                   *)

\* OpenFile with O_CREATE: the inode the path names, or a fresh one.
OpenLockFile(p) ==
    /\ At(p, "open")
    /\ Overlap \/ \A q \in Procs : pc[q] \notin {"rm_pid", "rm_lock"}
    /\ \/ /\ lockPath # None
          /\ file' = [file EXCEPT ![p] = lockPath]
          /\ UNCHANGED lockPath
       \/ /\ lockPath = None
          /\ \E i \in Inodes : /\ \A q \in Procs : file[q] # i
                               /\ file' = [file EXCEPT ![p] = i]
                               /\ lockPath' = i
    /\ Goto(p, "flock")
    /\ UNCHANGED <<locked, pidFile, socket, info, ver, installed, stopping, hook, cli>>

Contended(p) == \E q \in locked : file[q] = file[p]

\* As a bug: the outcome of the lock call is ignored.
TryLockIgnored(p) ==
    /\ At(p, "flock")
    /\ locked' = locked \cup {p}
    /\ Goto(p, "pid")
    /\ UNCHANGED <<file, files, ver, installed, stopping, hook, cli>>

\* flock without blocking; a process that is turned away exits.
TryLock(p) ==
    /\ At(p, "flock")
    /\ \/ /\ Contended(p)
          /\ Exit(p)
          /\ UNCHANGED <<lockPath, ver, installed, hook>>
       \/ /\ ~Contended(p)
          /\ locked' = locked \cup {p}
          /\ Goto(p, "pid")
          /\ UNCHANGED <<file, files, ver, installed, stopping, hook, cli>>

\* A failed write goes straight to Release.
WritePid(p) ==
    /\ At(p, "pid")
    /\ \/ pidFile' = p /\ Goto(p, "store")
       \/ Faults /\ Goto(p, "unlock") /\ UNCHANGED pidFile
    /\ UNCHANGED <<file, locked, lockPath, socket, info, ver, installed, stopping, hook, cli>>

OpenStore(p) ==
    /\ At(p, "store")
    /\ \/ Goto(p, "listen")
       \/ Faults /\ Goto(p, "unlock")
    /\ UNCHANGED <<file, locked, files, ver, installed, stopping, hook, cli>>

\* listen removes whatever socket file is there and binds its own.
Listen(p) ==
    /\ At(p, "listen")
    /\ \/ socket' = p /\ Goto(p, "info")
       \/ Faults /\ Goto(p, "close_store") /\ socket' \in {socket, None}
    /\ UNCHANGED <<file, locked, lockPath, pidFile, info, ver, installed, stopping, hook, cli>>

\* WriteDaemonInfo replaces daemon.json by a rename; a failure closes the
\* listener, which removes the socket file.
WriteDaemonInfo(p) ==
    /\ At(p, "info")
    /\ \/ info' = p /\ Goto(p, "serve") /\ UNCHANGED socket
       \/ Faults /\ Goto(p, "close_store") /\ socket' = None /\ UNCHANGED info
    /\ UNCHANGED <<file, locked, lockPath, pidFile, ver, installed, stopping, hook, cli>>

-----------------------------------------------------------------------------
(* Shutdown: the select of Run, Server.Shutdown and the deferred calls.    *)

\* As a bug: the single-instance lock is released before the endpoint.
LeaveServeUnlocking(p) ==
    /\ At(p, "serve")
    /\ locked' = locked \ {p}
    /\ Goto(p, "stop")
    /\ UNCHANGED <<file, files, ver, installed, stopping, hook, cli>>

\* A signal cancels the context, or shutdownRequested is closed.
LeaveServe(p) ==
    /\ At(p, "serve")
    /\ Goto(p, "stop")
    /\ UNCHANGED <<file, locked, files, ver, installed, stopping, hook, cli>>

\* Close of the listener removes the socket file; in-flight requests finish or
\* the grace runs out.
CloseListener(p) ==
    /\ At(p, "stop")
    /\ socket' = None
    /\ Goto(p, "drop_info")
    /\ UNCHANGED <<file, locked, lockPath, pidFile, info, ver, installed, stopping, hook, cli>>

RemoveDaemonInfo(p) ==
    /\ At(p, "drop_info")
    /\ info' = None
    /\ Goto(p, "close_store")
    /\ UNCHANGED <<file, locked, lockPath, pidFile, socket, ver, installed, stopping, hook, cli>>

CloseStore(p) ==
    /\ At(p, "close_store")
    /\ Goto(p, "unlock")
    /\ UNCHANGED <<file, locked, files, ver, installed, stopping, hook, cli>>

\* As a bug: the pid file goes first, while the lock is still held.
UnlockPidFirst(p) ==
    /\ At(p, "unlock")
    /\ pidFile' = None
    /\ Goto(p, "rm_pid")
    /\ UNCHANGED <<file, locked, lockPath, socket, info, ver, installed, stopping, hook, cli>>

\* Release: unlock and close, remove the pid file, remove the lock file.
Unlock(p) ==
    /\ At(p, "unlock")
    /\ Overlap \/ \A q \in Procs : pc[q] # "flock"
    /\ locked' = locked \ {p}
    /\ file' = [file EXCEPT ![p] = None]
    /\ Goto(p, "rm_pid")
    /\ UNCHANGED <<files, ver, installed, stopping, hook, cli>>

RemovePid(p) ==
    /\ At(p, "rm_pid")
    /\ pidFile' = None
    /\ Goto(p, "rm_lock")
    /\ UNCHANGED <<file, locked, lockPath, socket, info, ver, installed, stopping, hook, cli>>

\* The path is removed, whichever inode it names now; then the process ends.
RemoveLockFile(p) ==
    /\ At(p, "rm_lock")
    /\ lockPath' = None
    /\ Exit(p)
    /\ UNCHANGED <<ver, installed, hook>>

\* A crash, a kill or a power cut, at any step.
Die(p) ==
    /\ Faults /\ ~At(p, "none")
    /\ Exit(p)
    /\ UNCHANGED <<lockPath, ver, installed, hook>>

-----------------------------------------------------------------------------
(* The requests to stop.                                                   *)

\* handleShutdown answers and starts a goroutine that sleeps 50 ms.
handleShutdown(p) ==
    /\ At(p, "serve") /\ asked[p] + checked[p] < MaxShutdowns
    /\ asked' = [asked EXCEPT ![p] = @ + 1]

\* Any client may ask: `daemon stop`, an update, the uninstaller.
ShutdownRequest(p) ==
    /\ socket = p /\ handleShutdown(p)
    /\ UNCHANGED <<pc, file, locked, files, ver, installed, refreshed, renewing, closed, checked, hook, cli>>

\* As a bug: the goroutine asks again after it has asked.
CheckShutdownAgain(p) ==
    /\ asked[p] > 0
    /\ checked' = IF p \in closed THEN checked ELSE [checked EXCEPT ![p] = @ + 1]
    /\ UNCHANGED <<pc, file, locked, files, ver, installed, refreshed, renewing, closed, asked, hook, cli>>

\* RequestShutdown first looks whether the channel is closed ...
CheckShutdown(p) ==
    /\ asked[p] > 0
    /\ asked' = [asked EXCEPT ![p] = @ - 1]
    /\ checked' = IF p \in closed THEN checked ELSE [checked EXCEPT ![p] = @ + 1]
    /\ UNCHANGED <<pc, file, locked, files, ver, installed, refreshed, renewing, closed, hook, cli>>

\* ... and then closes it.  Closing it twice panics in a plain goroutine,
\* which ends the process without its deferred calls.
CloseShutdown(p) ==
    /\ checked[p] > 0
    /\ \/ /\ p \notin closed
          /\ closed' = closed \cup {p}
          /\ checked' = [checked EXCEPT ![p] = @ - 1]
          /\ UNCHANGED <<pc, file, locked, files, ver, installed, refreshed, renewing, asked, hook, cli>>
       \/ /\ p \in closed
          /\ Exit(p)
          /\ UNCHANGED <<lockPath, ver, installed, hook>>

\* As a bug: a newer copy elsewhere on the PATH is enough.
RefreshAnyNewer(p, client) == client > ver[p]

\* refreshWatch.decide: the client is newer and this daemon's own executable
\* is no longer the file it was started from.
RefreshDue(p, client) == client > ver[p] /\ installed # ver[p]

\* observeClient after a served request; refreshOnce lets one through, and it
\* looks at the channel as every RequestShutdown does.
Observe(p, client) ==
    /\ At(p, "serve") /\ p \notin refreshed /\ RefreshDue(p, client)
    /\ refreshed' = refreshed \cup {p}
    /\ renewing' = IF p \in closed THEN renewing ELSE renewing \cup {p}
    /\ UNCHANGED <<pc, file, locked, files, ver, installed, closed, asked, checked, hook, cli>>

\* The observer runs under a recover, so closing a closed channel is logged.
CloseForRefresh(p) ==
    /\ p \in renewing
    /\ renewing' = renewing \ {p}
    /\ closed' = closed \cup {p}
    /\ UNCHANGED <<pc, file, locked, files, ver, installed, refreshed, asked, checked, hook, cli>>

\* An upgrade replaces the executable under the running daemon.
Upgrade ==
    /\ \E v \in Versions : v > installed /\ installed' = v
    /\ UNCHANGED <<pc, file, locked, files, ver, stopping, hook, cli>>

-----------------------------------------------------------------------------
(* Hooks: one call, a lazy start, one retry.                               *)

\* A call is answered by the process the socket file leads to.
Reachable == \E p \in Procs : socket = p /\ At(p, "serve")

HookGoto(h, from, to) == hook[h] = from /\ hook' = [hook EXCEPT ![h] = to]

\* The agent runs the hook.
HookFires(h) ==
    /\ HookGoto(h, "idle", "first")
    /\ UNCHANGED <<pc, file, locked, files, ver, installed, stopping, cli>>

\* Any failed call, not only an unreachable daemon, leads to the lazy start;
\* the second failure defers to the agent.
HookCalls(h) ==
    /\ \/ Reachable /\ HookGoto(h, "first", "answered")
       \/ (Faults \/ ~Reachable) /\ HookGoto(h, "first", "start")
       \/ Reachable /\ HookGoto(h, "second", "answered")
       \/ (Faults \/ ~Reachable) /\ HookGoto(h, "second", "deferred")
    /\ UNCHANGED <<pc, file, locked, files, ver, installed, stopping, cli>>

\* LazyStart spawns a daemon; without a free slot the spawn fails.
HookSpawns(h) ==
    /\ \/ \E p \in Procs : Spawn(p) /\ HookGoto(h, "start", "wait")
       \/ /\ Faults \/ \A p \in Procs : ~At(p, "none")
          /\ HookGoto(h, "start", "deferred")
          /\ UNCHANGED <<pc, ver>>
    /\ UNCHANGED <<file, locked, files, installed, stopping, cli>>

\* As a bug: the wait has no deadline.
HookWaitsForever(h) ==
    /\ Reachable /\ HookGoto(h, "wait", "second")
    /\ UNCHANGED <<pc, file, locked, files, ver, installed, stopping, cli>>

\* waitForDaemon: a ping is answered, or two seconds pass.
HookWaits(h) ==
    /\ \/ Reachable /\ HookGoto(h, "wait", "second")
       \/ HookGoto(h, "wait", "deferred")
    /\ UNCHANGED <<pc, file, locked, files, ver, installed, stopping, cli>>

\* The next hook process of the session.
HookEnds(h) ==
    /\ \/ HookGoto(h, "answered", "idle")
       \/ HookGoto(h, "deferred", "idle")
    /\ UNCHANGED <<pc, file, locked, files, ver, installed, stopping, cli>>

-----------------------------------------------------------------------------
(* `intenter daemon restart` and the restart of an update.                 *)

CliGoto(to) == cli' = [cli EXCEPT !.step = to]

\* The pid is read before the shutdown request is sent.
CliStops ==
    /\ CLI /\ cli.step = "idle"
    /\ \/ \E p \in Procs : /\ socket = p /\ handleShutdown(p)
                           /\ cli' = [step |-> "poll", pid |-> pidFile]
       \/ /\ ~Reachable
          /\ cli' = [step |-> "start", pid |-> None]
          /\ UNCHANGED asked
    /\ UNCHANGED <<pc, file, locked, files, ver, installed, refreshed, renewing, closed, checked, hook>>

\* Pings until one fails, then waits for the old process unless it is gone;
\* past the deadline the command gives up.
CliPolls ==
    /\ cli.step = "poll"
    /\ \/ ~Reachable /\ CliGoto(IF cli.pid \in Procs THEN "wait" ELSE "start")
       \/ Reachable /\ CliGoto("idle")
    /\ UNCHANGED <<pc, file, locked, files, ver, installed, stopping, hook>>

\* waitForDaemonExit: the pid file is gone or names another process, or the
\* deadline passes.
CliWaits ==
    /\ cli.step = "wait"
    /\ \/ pidFile # cli.pid /\ CliGoto("gone")
       \/ CliGoto("start")
    /\ UNCHANGED <<pc, file, locked, files, ver, installed, stopping, hook>>

\* startDaemon: nothing to do if a daemon answers, else spawn one.
CliStarts ==
    /\ cli.step \in {"gone", "start"}
    /\ cli' = [step |-> "idle", pid |-> None]
    /\ \/ \E p \in Procs : ~Reachable /\ Spawn(p)
       \/ (Reachable \/ \A p \in Procs : ~At(p, "none")) /\ UNCHANGED <<pc, ver>>
    /\ UNCHANGED <<file, locked, files, installed, stopping, hook>>

-----------------------------------------------------------------------------
StartStep(p) ==
    \/ OpenLockFile(p) \/ TryLock(p) \/ WritePid(p) \/ OpenStore(p)
    \/ Listen(p) \/ WriteDaemonInfo(p)

StopStep(p) ==
    \/ CloseListener(p) \/ RemoveDaemonInfo(p) \/ CloseStore(p)
    \/ Unlock(p) \/ RemovePid(p) \/ RemoveLockFile(p)
    \/ CheckShutdown(p) \/ CloseShutdown(p) \/ CloseForRefresh(p)

HookStep(h) == HookCalls(h) \/ HookSpawns(h) \/ HookWaits(h) \/ HookEnds(h)

Next ==
    \/ \E p \in Procs :
        \/ StartStep(p) \/ StopStep(p) \/ LeaveServe(p) \/ Die(p)
        \/ ShutdownRequest(p)
        \/ \E client \in {installed, OtherVersion} : Observe(p, client)
    \/ Upgrade
    \/ \E h \in Hooks : HookFires(h) \/ HookStep(h)
    \/ CliStops \/ CliPolls \/ CliWaits \/ CliStarts

Spec == Init /\ [][Next]_vars

\* Processes and hooks that can run are scheduled, and a closed channel is
\* noticed; nobody has to call, to upgrade or to crash.
Fairness ==
    /\ \A p \in Procs :
        /\ WF_vars(StartStep(p)) /\ WF_vars(StopStep(p))
        /\ WF_vars(p \in closed /\ LeaveServe(p))
    /\ \A h \in Hooks : WF_vars(HookStep(h))

FairSpec == Spec /\ Fairness

-----------------------------------------------------------------------------
(* Properties.                                                             *)

\* Two daemons never have the database open at the same time: the lock of
\* AcquireLock keeps them apart, whatever crashes, fails or is upgraded.
SingleInstance ==
    \A p, q \in Procs : pc[p] \in StoreOpen /\ pc[q] \in StoreOpen => p = q

\* A daemon that serves can be found and stopped: the socket, daemon.json and
\* the pid file are its own, so no earlier or later daemon has removed or
\* replaced them.
ServingIsReachable ==
    \A p \in Procs : At(p, "serve") => socket = p /\ info = p /\ pidFile = p

\* When waitForDaemonExit has seen the pid file go, the old daemon holds the
\* lock no more, so the daemon started next is not turned away by it.
ExitMeansUnlocked ==
    cli.step = "gone" => cli.pid \notin locked

\* Every hook of the agent returns, with an answer or by deferring to the
\* agent's own prompt, even if no daemon ever comes up.
HookReturns == \A h \in Hooks : hook[h] = "first" ~> hook[h] \in {"answered", "deferred"}

\* Restarting into a new binary ends: a newer copy elsewhere on the PATH does
\* not make daemon after daemon restart for ever, whatever is restarted by
\* hand or crashes in between.
RefreshSettles == <>[][refreshed' \subseteq refreshed]_vars
=============================================================================
