---------------------------- MODULE DaemonProofs ----------------------------
(***************************************************************************)
(* Proofs about the daemon's life cycle.  Acquiring and releasing the      *)
(* single-instance lock is safe for any number of processes as long as the *)
(* two do not overlap (~Overlap): the invariant says that every process    *)
(* that holds a lock, or is about to try, has opened the inode the path    *)
(* names, and that nobody does while a release is removing the files.      *)
(***************************************************************************)
EXTENDS Daemon, TLAPS

\* A shutdown goroutine is counted once, before or after its check.
Bounded == \A p \in Procs : asked[p] + checked[p] <= MaxShutdowns

\* The processes that hold a lock are those between flock and unlock.
HoldersAreLocked == \A p \in Procs : pc[p] \in Holding <=> p \in locked

\* Everybody who holds or tries the lock has the inode the path names.
SameInode ==
    \A p \in Procs : pc[p] \in Holding \cup {"flock"} =>
        lockPath # None /\ file[p] = lockPath

\* While a release removes the files nobody holds or tries the lock.
ReleaseIsAlone ==
    \A p, q \in Procs : pc[p] \in {"rm_pid", "rm_lock"} =>
        pc[q] \notin Holding \cup {"flock"}

OneHolder == \A p, q \in Procs : pc[p] \in Holding /\ pc[q] \in Holding => p = q

LockInv == HoldersAreLocked /\ SameInode /\ ReleaseIsAlone /\ OneHolder

\* From bind to close the socket is the process's own, and daemon.json too.
EndpointInv ==
    \A p \in Procs :
        /\ pc[p] \in {"info", "serve"} => socket = p
        /\ pc[p] = "serve" => info = p

\* The pid file of a process that wrote it stays until its release; a pid the
\* restart command read names a process that wrote it.
PidInv ==
    \A p \in Procs :
        /\ pc[p] \in Holding \ {"pid", "unlock"} => pidFile = p
        /\ pidFile = p => pc[p] \in (Holding \ {"pid"}) \cup {"rm_pid"}
        /\ cli.pid = p => pc[p] \in (Holding \ {"pid"}) \cup {"rm_pid", "rm_lock"}
        /\ cli.pid = p /\ pc[p] = "unlock" => pidFile = p
        /\ cli.pid = p /\ cli.step = "gone" => pc[p] \in {"rm_pid", "rm_lock"}

LEMMA TypeInit == Init => TypeOK /\ Bounded
  BY DaemonAssumption DEF Init, TypeOK, Bounded, PCs, HookSteps, CliSteps

LEMMA TypeStep == TypeOK /\ Bounded /\ [Next]_vars => TypeOK' /\ Bounded'
<1> SUFFICES ASSUME TypeOK, Bounded, [Next]_vars PROVE TypeOK' /\ Bounded'
  OBVIOUS
<1> DEFINE Goal == TypeOK' /\ Bounded'
<1> USE DaemonAssumption DEF files, stopping, TypeOK, Bounded, PCs, Starting, Stopping, HookSteps, CliSteps
<1>1. ASSUME NEW p \in Procs, OpenLockFile(p) PROVE Goal
  BY <1>1 DEF OpenLockFile, At, Goto
<1>2. ASSUME NEW p \in Procs, TryLock(p) PROVE Goal
  BY <1>2 DEF TryLock, At, Goto, Exit, Forget, Contended
<1>3. ASSUME NEW p \in Procs, WritePid(p) PROVE Goal
  BY <1>3 DEF WritePid, At, Goto
<1>4. ASSUME NEW p \in Procs, OpenStore(p) PROVE Goal
  BY <1>4 DEF OpenStore, At, Goto
<1>5. ASSUME NEW p \in Procs, Listen(p) PROVE Goal
  BY <1>5 DEF Listen, At, Goto
<1>6. ASSUME NEW p \in Procs, WriteDaemonInfo(p) PROVE Goal
  BY <1>6 DEF WriteDaemonInfo, At, Goto
<1>7. ASSUME NEW p \in Procs, CloseListener(p) PROVE Goal
  BY <1>7 DEF CloseListener, At, Goto
<1>8. ASSUME NEW p \in Procs, RemoveDaemonInfo(p) PROVE Goal
  BY <1>8 DEF RemoveDaemonInfo, At, Goto
<1>9. ASSUME NEW p \in Procs, CloseStore(p) PROVE Goal
  BY <1>9 DEF CloseStore, At, Goto
<1>10. ASSUME NEW p \in Procs, Unlock(p) PROVE Goal
  BY <1>10 DEF Unlock, At, Goto
<1>11. ASSUME NEW p \in Procs, RemovePid(p) PROVE Goal
  BY <1>11 DEF RemovePid, At, Goto
<1>12. ASSUME NEW p \in Procs, RemoveLockFile(p) PROVE Goal
  BY <1>12 DEF RemoveLockFile, At, Goto, Exit, Forget
<1>13. ASSUME NEW p \in Procs, CheckShutdown(p) PROVE Goal
  BY <1>13 DEF CheckShutdown
<1>14. ASSUME NEW p \in Procs, CloseShutdown(p) PROVE Goal
  <2>1. CASE p \notin closed
    BY <1>14, <2>1 DEF CloseShutdown, Exit
  <2>2. CASE p \in closed
    BY <1>14, <2>2 DEF CloseShutdown, Exit, Goto, Forget
  <2>3. QED
    BY <2>1, <2>2
<1>15. ASSUME NEW p \in Procs, CloseForRefresh(p) PROVE Goal
  BY <1>15 DEF CloseForRefresh
<1>16. ASSUME NEW p \in Procs, LeaveServe(p) PROVE Goal
  BY <1>16 DEF LeaveServe, At, Goto
<1>17. ASSUME NEW p \in Procs, Die(p) PROVE Goal
  BY <1>17 DEF Die, At, Goto, Exit, Forget
<1>18. ASSUME NEW p \in Procs, ShutdownRequest(p) PROVE Goal
  BY <1>18 DEF ShutdownRequest, At, Goto, handleShutdown
<1>19. ASSUME NEW p \in Procs, NEW client \in {installed, OtherVersion}, Observe(p, client) PROVE Goal
  BY <1>19 DEF Observe, At
<1>20. ASSUME Upgrade PROVE Goal
  BY <1>20 DEF Upgrade
<1>21. ASSUME CliStops PROVE Goal
  <2>1. CASE \E p \in Procs : /\ socket = p /\ handleShutdown(p)
                            /\ cli' = [step |-> "poll", pid |-> pidFile]
    <3>1. PICK p \in Procs : handleShutdown(p) /\ cli' = [step |-> "poll", pid |-> pidFile]
      BY <2>1
    <3>2. asked[p] + 1 \in 0..MaxShutdowns /\ asked[p] + 1 + checked[p] <= MaxShutdowns
      BY <3>1 DEF handleShutdown, TypeOK
    <3>3. QED
      BY <1>21, <3>1, <3>2 DEF CliStops, handleShutdown
  <2>2. CASE UNCHANGED asked /\ cli' = [step |-> "start", pid |-> None]
    BY <1>21, <2>2 DEF CliStops
  <2>3. QED
    BY <1>21, <2>1, <2>2 DEF CliStops
<1>22. ASSUME CliPolls PROVE Goal
  BY <1>22 DEF CliPolls, CliGoto
<1>23. ASSUME CliWaits PROVE Goal
  BY <1>23 DEF CliWaits, CliGoto
<1>24. ASSUME CliStarts PROVE Goal
  BY <1>24 DEF CliStarts, Spawn, At, Goto
<1>25. ASSUME NEW h \in Hooks, HookFires(h) PROVE Goal
  BY <1>25 DEF HookFires, HookGoto
<1>26. ASSUME NEW h \in Hooks, HookCalls(h) PROVE Goal
  BY <1>26 DEF HookCalls, HookGoto
<1>27. ASSUME NEW h \in Hooks, HookSpawns(h) PROVE Goal
  BY <1>27 DEF HookSpawns, HookGoto, Spawn, At, Goto
<1>28. ASSUME NEW h \in Hooks, HookWaits(h) PROVE Goal
  BY <1>28 DEF HookWaits, HookGoto
<1>29. ASSUME NEW h \in Hooks, HookEnds(h) PROVE Goal
  BY <1>29 DEF HookEnds, HookGoto
<1>30. ASSUME UNCHANGED vars PROVE Goal
  BY <1>30 DEF vars
<1>. QED
  BY <1>1, <1>2, <1>3, <1>4, <1>5, <1>6, <1>7, <1>8, <1>9, <1>10, <1>11, <1>12, <1>13, <1>14, <1>15, <1>16, <1>17, <1>18, <1>19, <1>20, <1>21, <1>22, <1>23, <1>24, <1>25, <1>26, <1>27, <1>28, <1>29, <1>30 DEF Next, StartStep, StopStep, HookStep

\* The daemon's state is well formed in every run, with faults, crashes and
\* overlapping locks.
THEOREM DaemonTypeCorrect == Spec => []TypeOK
<1>1. TypeOK /\ Bounded /\ [Next]_vars => (TypeOK /\ Bounded)'
  BY TypeStep
<1>2. QED
  BY <1>1, TypeInit, PTL DEF Spec

LEMMA LockInit == Init => LockInv /\ EndpointInv /\ PidInv
  BY DaemonAssumption DEF Init, LockInv, HoldersAreLocked, SameInode, ReleaseIsAlone, OneHolder, EndpointInv, PidInv, Holding

LEMMA LockStep ==
  ASSUME ~Overlap
  PROVE  TypeOK /\ LockInv /\ [Next]_vars => LockInv'
<1> SUFFICES ASSUME TypeOK, LockInv, [Next]_vars PROVE LockInv'
  OBVIOUS
<1> DEFINE Goal == LockInv'
<1> USE DaemonAssumption DEF files, stopping, TypeOK, LockInv, HoldersAreLocked, SameInode, ReleaseIsAlone, OneHolder, Holding
<1>1. ASSUME NEW p \in Procs, OpenLockFile(p) PROVE Goal
  BY <1>1 DEF OpenLockFile, At, Goto
<1>2. ASSUME NEW p \in Procs, TryLock(p) PROVE Goal
  BY <1>2 DEF TryLock, At, Goto, Exit, Forget, Contended
<1>3. ASSUME NEW p \in Procs, WritePid(p) PROVE Goal
  BY <1>3 DEF WritePid, At, Goto
<1>4. ASSUME NEW p \in Procs, OpenStore(p) PROVE Goal
  BY <1>4 DEF OpenStore, At, Goto
<1>5. ASSUME NEW p \in Procs, Listen(p) PROVE Goal
  BY <1>5 DEF Listen, At, Goto
<1>6. ASSUME NEW p \in Procs, WriteDaemonInfo(p) PROVE Goal
  BY <1>6 DEF WriteDaemonInfo, At, Goto
<1>7. ASSUME NEW p \in Procs, CloseListener(p) PROVE Goal
  BY <1>7 DEF CloseListener, At, Goto
<1>8. ASSUME NEW p \in Procs, RemoveDaemonInfo(p) PROVE Goal
  BY <1>8 DEF RemoveDaemonInfo, At, Goto
<1>9. ASSUME NEW p \in Procs, CloseStore(p) PROVE Goal
  BY <1>9 DEF CloseStore, At, Goto
<1>10. ASSUME NEW p \in Procs, Unlock(p) PROVE Goal
  BY <1>10 DEF Unlock, At, Goto
<1>11. ASSUME NEW p \in Procs, RemovePid(p) PROVE Goal
  BY <1>11 DEF RemovePid, At, Goto
<1>12. ASSUME NEW p \in Procs, RemoveLockFile(p) PROVE Goal
  BY <1>12 DEF RemoveLockFile, At, Goto, Exit, Forget
<1>13. ASSUME NEW p \in Procs, CheckShutdown(p) PROVE Goal
  BY <1>13 DEF CheckShutdown
<1>14. ASSUME NEW p \in Procs, CloseShutdown(p) PROVE Goal
  BY <1>14 DEF CloseShutdown, At, Goto, Exit, Forget
<1>15. ASSUME NEW p \in Procs, CloseForRefresh(p) PROVE Goal
  BY <1>15 DEF CloseForRefresh
<1>16. ASSUME NEW p \in Procs, LeaveServe(p) PROVE Goal
  BY <1>16 DEF LeaveServe, At, Goto
<1>17. ASSUME NEW p \in Procs, Die(p) PROVE Goal
  BY <1>17 DEF Die, At, Goto, Exit, Forget
<1>18. ASSUME NEW p \in Procs, ShutdownRequest(p) PROVE Goal
  BY <1>18 DEF ShutdownRequest, At, Goto, handleShutdown
<1>19. ASSUME NEW p \in Procs, NEW client \in {installed, OtherVersion}, Observe(p, client) PROVE Goal
  BY <1>19 DEF Observe, At
<1>20. ASSUME Upgrade PROVE Goal
  BY <1>20 DEF Upgrade
<1>21. ASSUME CliStops PROVE Goal
  BY <1>21 DEF CliStops, handleShutdown, At
<1>22. ASSUME CliPolls PROVE Goal
  BY <1>22 DEF CliPolls, CliGoto
<1>23. ASSUME CliWaits PROVE Goal
  BY <1>23 DEF CliWaits, CliGoto
<1>24. ASSUME CliStarts PROVE Goal
  BY <1>24 DEF CliStarts, Spawn, At, Goto
<1>25. ASSUME NEW h \in Hooks, HookFires(h) PROVE Goal
  BY <1>25 DEF HookFires, HookGoto
<1>26. ASSUME NEW h \in Hooks, HookCalls(h) PROVE Goal
  BY <1>26 DEF HookCalls, HookGoto
<1>27. ASSUME NEW h \in Hooks, HookSpawns(h) PROVE Goal
  BY <1>27 DEF HookSpawns, HookGoto, Spawn, At, Goto
<1>28. ASSUME NEW h \in Hooks, HookWaits(h) PROVE Goal
  BY <1>28 DEF HookWaits, HookGoto
<1>29. ASSUME NEW h \in Hooks, HookEnds(h) PROVE Goal
  BY <1>29 DEF HookEnds, HookGoto
<1>30. ASSUME UNCHANGED vars PROVE Goal
  BY <1>30 DEF vars
<1>. QED
  BY <1>1, <1>2, <1>3, <1>4, <1>5, <1>6, <1>7, <1>8, <1>9, <1>10, <1>11, <1>12, <1>13, <1>14, <1>15, <1>16, <1>17, <1>18, <1>19, <1>20, <1>21, <1>22, <1>23, <1>24, <1>25, <1>26, <1>27, <1>28, <1>29, <1>30 DEF Next, StartStep, StopStep, HookStep

LEMMA EndpointStep == TypeOK /\ LockInv /\ EndpointInv /\ [Next]_vars => EndpointInv'
<1> SUFFICES ASSUME TypeOK, LockInv, EndpointInv, [Next]_vars PROVE EndpointInv'
  OBVIOUS
<1> DEFINE Goal == EndpointInv'
<1> USE DaemonAssumption DEF files, stopping, TypeOK, LockInv, OneHolder, Holding, EndpointInv
<1>1. ASSUME NEW p \in Procs, OpenLockFile(p) PROVE Goal
  BY <1>1 DEF OpenLockFile, At, Goto
<1>2. ASSUME NEW p \in Procs, TryLock(p) PROVE Goal
  BY <1>2 DEF TryLock, At, Goto, Exit, Forget, Contended
<1>3. ASSUME NEW p \in Procs, WritePid(p) PROVE Goal
  BY <1>3 DEF WritePid, At, Goto
<1>4. ASSUME NEW p \in Procs, OpenStore(p) PROVE Goal
  BY <1>4 DEF OpenStore, At, Goto
<1>5. ASSUME NEW p \in Procs, Listen(p) PROVE Goal
  BY <1>5 DEF Listen, At, Goto
<1>6. ASSUME NEW p \in Procs, WriteDaemonInfo(p) PROVE Goal
  BY <1>6 DEF WriteDaemonInfo, At, Goto
<1>7. ASSUME NEW p \in Procs, CloseListener(p) PROVE Goal
  BY <1>7 DEF CloseListener, At, Goto
<1>8. ASSUME NEW p \in Procs, RemoveDaemonInfo(p) PROVE Goal
  BY <1>8 DEF RemoveDaemonInfo, At, Goto
<1>9. ASSUME NEW p \in Procs, CloseStore(p) PROVE Goal
  BY <1>9 DEF CloseStore, At, Goto
<1>10. ASSUME NEW p \in Procs, Unlock(p) PROVE Goal
  BY <1>10 DEF Unlock, At, Goto
<1>11. ASSUME NEW p \in Procs, RemovePid(p) PROVE Goal
  BY <1>11 DEF RemovePid, At, Goto
<1>12. ASSUME NEW p \in Procs, RemoveLockFile(p) PROVE Goal
  BY <1>12 DEF RemoveLockFile, At, Goto, Exit, Forget
<1>13. ASSUME NEW p \in Procs, CheckShutdown(p) PROVE Goal
  BY <1>13 DEF CheckShutdown
<1>14. ASSUME NEW p \in Procs, CloseShutdown(p) PROVE Goal
  BY <1>14 DEF CloseShutdown, At, Goto, Exit, Forget
<1>15. ASSUME NEW p \in Procs, CloseForRefresh(p) PROVE Goal
  BY <1>15 DEF CloseForRefresh
<1>16. ASSUME NEW p \in Procs, LeaveServe(p) PROVE Goal
  BY <1>16 DEF LeaveServe, At, Goto
<1>17. ASSUME NEW p \in Procs, Die(p) PROVE Goal
  BY <1>17 DEF Die, At, Goto, Exit, Forget
<1>18. ASSUME NEW p \in Procs, ShutdownRequest(p) PROVE Goal
  BY <1>18 DEF ShutdownRequest, At, Goto, handleShutdown
<1>19. ASSUME NEW p \in Procs, NEW client \in {installed, OtherVersion}, Observe(p, client) PROVE Goal
  BY <1>19 DEF Observe, At
<1>20. ASSUME Upgrade PROVE Goal
  BY <1>20 DEF Upgrade
<1>21. ASSUME CliStops PROVE Goal
  BY <1>21 DEF CliStops, handleShutdown, At
<1>22. ASSUME CliPolls PROVE Goal
  BY <1>22 DEF CliPolls, CliGoto
<1>23. ASSUME CliWaits PROVE Goal
  BY <1>23 DEF CliWaits, CliGoto
<1>24. ASSUME CliStarts PROVE Goal
  BY <1>24 DEF CliStarts, Spawn, At, Goto
<1>25. ASSUME NEW h \in Hooks, HookFires(h) PROVE Goal
  BY <1>25 DEF HookFires, HookGoto
<1>26. ASSUME NEW h \in Hooks, HookCalls(h) PROVE Goal
  BY <1>26 DEF HookCalls, HookGoto
<1>27. ASSUME NEW h \in Hooks, HookSpawns(h) PROVE Goal
  BY <1>27 DEF HookSpawns, HookGoto, Spawn, At, Goto
<1>28. ASSUME NEW h \in Hooks, HookWaits(h) PROVE Goal
  BY <1>28 DEF HookWaits, HookGoto
<1>29. ASSUME NEW h \in Hooks, HookEnds(h) PROVE Goal
  BY <1>29 DEF HookEnds, HookGoto
<1>30. ASSUME UNCHANGED vars PROVE Goal
  BY <1>30 DEF vars
<1>. QED
  BY <1>1, <1>2, <1>3, <1>4, <1>5, <1>6, <1>7, <1>8, <1>9, <1>10, <1>11, <1>12, <1>13, <1>14, <1>15, <1>16, <1>17, <1>18, <1>19, <1>20, <1>21, <1>22, <1>23, <1>24, <1>25, <1>26, <1>27, <1>28, <1>29, <1>30 DEF Next, StartStep, StopStep, HookStep

LEMMA PidStep == TypeOK /\ LockInv /\ PidInv /\ [Next]_vars => PidInv'
<1> SUFFICES ASSUME TypeOK, LockInv, PidInv, [Next]_vars PROVE PidInv'
  OBVIOUS
<1> DEFINE Goal == PidInv'
<1> USE DaemonAssumption DEF files, stopping, TypeOK, LockInv, OneHolder, ReleaseIsAlone, Holding, PidInv
<1>1. ASSUME NEW p \in Procs, OpenLockFile(p) PROVE Goal
  BY <1>1 DEF OpenLockFile, At, Goto
<1>2. ASSUME NEW p \in Procs, TryLock(p) PROVE Goal
  BY <1>2 DEF TryLock, At, Goto, Exit, Forget, Contended
<1>3. ASSUME NEW p \in Procs, WritePid(p) PROVE Goal
  BY <1>3 DEF WritePid, At, Goto
<1>4. ASSUME NEW p \in Procs, OpenStore(p) PROVE Goal
  BY <1>4 DEF OpenStore, At, Goto
<1>5. ASSUME NEW p \in Procs, Listen(p) PROVE Goal
  BY <1>5 DEF Listen, At, Goto
<1>6. ASSUME NEW p \in Procs, WriteDaemonInfo(p) PROVE Goal
  BY <1>6 DEF WriteDaemonInfo, At, Goto
<1>7. ASSUME NEW p \in Procs, CloseListener(p) PROVE Goal
  BY <1>7 DEF CloseListener, At, Goto
<1>8. ASSUME NEW p \in Procs, RemoveDaemonInfo(p) PROVE Goal
  BY <1>8 DEF RemoveDaemonInfo, At, Goto
<1>9. ASSUME NEW p \in Procs, CloseStore(p) PROVE Goal
  BY <1>9 DEF CloseStore, At, Goto
<1>10. ASSUME NEW p \in Procs, Unlock(p) PROVE Goal
  BY <1>10 DEF Unlock, At, Goto
<1>11. ASSUME NEW p \in Procs, RemovePid(p) PROVE Goal
  BY <1>11 DEF RemovePid, At, Goto
<1>12. ASSUME NEW p \in Procs, RemoveLockFile(p) PROVE Goal
  BY <1>12 DEF RemoveLockFile, At, Goto, Exit, Forget
<1>13. ASSUME NEW p \in Procs, CheckShutdown(p) PROVE Goal
  BY <1>13 DEF CheckShutdown
<1>14. ASSUME NEW p \in Procs, CloseShutdown(p) PROVE Goal
  BY <1>14 DEF CloseShutdown, At, Goto, Exit, Forget
<1>15. ASSUME NEW p \in Procs, CloseForRefresh(p) PROVE Goal
  BY <1>15 DEF CloseForRefresh
<1>16. ASSUME NEW p \in Procs, LeaveServe(p) PROVE Goal
  BY <1>16 DEF LeaveServe, At, Goto
<1>17. ASSUME NEW p \in Procs, Die(p) PROVE Goal
  BY <1>17 DEF Die, At, Goto, Exit, Forget
<1>18. ASSUME NEW p \in Procs, ShutdownRequest(p) PROVE Goal
  BY <1>18 DEF ShutdownRequest, At, Goto, handleShutdown
<1>19. ASSUME NEW p \in Procs, NEW client \in {installed, OtherVersion}, Observe(p, client) PROVE Goal
  BY <1>19 DEF Observe, At
<1>20. ASSUME Upgrade PROVE Goal
  BY <1>20 DEF Upgrade
<1>21. ASSUME CliStops PROVE Goal
  BY <1>21 DEF CliStops, handleShutdown, At
<1>22. ASSUME CliPolls PROVE Goal
  BY <1>22 DEF CliPolls, CliGoto
<1>23. ASSUME CliWaits PROVE Goal
  BY <1>23 DEF CliWaits, CliGoto
<1>24. ASSUME CliStarts PROVE Goal
  BY <1>24 DEF CliStarts, Spawn, At, Goto
<1>25. ASSUME NEW h \in Hooks, HookFires(h) PROVE Goal
  BY <1>25 DEF HookFires, HookGoto
<1>26. ASSUME NEW h \in Hooks, HookCalls(h) PROVE Goal
  BY <1>26 DEF HookCalls, HookGoto
<1>27. ASSUME NEW h \in Hooks, HookSpawns(h) PROVE Goal
  BY <1>27 DEF HookSpawns, HookGoto, Spawn, At, Goto
<1>28. ASSUME NEW h \in Hooks, HookWaits(h) PROVE Goal
  BY <1>28 DEF HookWaits, HookGoto
<1>29. ASSUME NEW h \in Hooks, HookEnds(h) PROVE Goal
  BY <1>29 DEF HookEnds, HookGoto
<1>30. ASSUME UNCHANGED vars PROVE Goal
  BY <1>30 DEF vars
<1>. QED
  BY <1>1, <1>2, <1>3, <1>4, <1>5, <1>6, <1>7, <1>8, <1>9, <1>10, <1>11, <1>12, <1>13, <1>14, <1>15, <1>16, <1>17, <1>18, <1>19, <1>20, <1>21, <1>22, <1>23, <1>24, <1>25, <1>26, <1>27, <1>28, <1>29, <1>30 DEF Next, StartStep, StopStep, HookStep

LEMMA DaemonInv ==
  ASSUME ~Overlap
  PROVE  Spec => [](TypeOK /\ LockInv /\ EndpointInv /\ PidInv)
<1> DEFINE I == TypeOK /\ Bounded /\ LockInv /\ EndpointInv /\ PidInv
<1>1. Init => I
  BY TypeInit, LockInit
<1>2. I /\ [Next]_vars => I'
  BY TypeStep, LockStep, EndpointStep, PidStep
<1>3. QED
  BY <1>1, <1>2, PTL DEF Spec

\* AcquireLock keeps daemons apart, for any number of processes, crashes and
\* failures, as long as no process acquires while another releases.
THEOREM OneDaemon ==
  ASSUME ~Overlap
  PROVE  Spec => []SingleInstance
<1>1. LockInv => SingleInstance
  BY DEF LockInv, OneHolder, SingleInstance, StoreOpen, Holding
<1>2. QED
  BY <1>1, DaemonInv, PTL

\* Under the same condition no daemon removes or replaces the socket, the
\* daemon.json or the pid file of one that serves.
THEOREM ServingIsFound ==
  ASSUME ~Overlap
  PROVE  Spec => []ServingIsReachable
<1>1. EndpointInv /\ PidInv => ServingIsReachable
  BY DEF EndpointInv, PidInv, ServingIsReachable, At, Holding, StoreOpen, Starting, Stopping
<1>2. QED
  BY <1>1, DaemonInv, PTL

\* And a restart that saw the pid file go finds the lock free of the old
\* daemon.
THEOREM ExitIsSeenAfterUnlock ==
  ASSUME ~Overlap
  PROVE  Spec => []ExitMeansUnlocked
<1>1. TypeOK /\ LockInv /\ PidInv => ExitMeansUnlocked
  BY DEF TypeOK, LockInv, HoldersAreLocked, PidInv, ExitMeansUnlocked, Holding
<1>2. QED
  BY <1>1, DaemonInv, PTL
=============================================================================
