--------------------------- MODULE UpdaterProofs ---------------------------
(***************************************************************************)
(* Proofs about update checks and self-update, for any number of processes *)
(* and releases, with failures and crashes.                                *)
(***************************************************************************)
EXTENDS Updater, TLAPS

-----------------------------------------------------------------------------
(* The inductive invariant *)

(* Whoever offers, installs or skips something knows what.                 *)
TargetOK(r) ==
    /\ r.pc \in {"lock", "ask", "confirm", "apply", "fetch", "stage", "write", "swap", "swap_in",
                 "delegate", "restart"} => r.target \in Versions
    /\ r.change \in {"update", "not_now", "skip_this", "skip", "mark"} => r.target \in Versions

TypeInv == TypeOK /\ \A p \in Procs : TargetOK(proc[p])

(* The steps under the prompt lock.                                        *)
Prompting(r) ==
    \/ r.pc \in {"ask", "fetch", "stage", "write", "swap", "swap_in", "delegate", "restart"}
    \/ /\ r.pc \in {"mutate", "save"}
       /\ r.change \in {"update", "not_now", "skip_this", "mark", "finish"}

(* Between load and save nobody else has the lock, and the copy is what    *)
(* the file still says.                                                    *)
StateLockInv == \A p \in Procs : At(p, "save") => stateLock = {p} /\ proc[p].copy = disk

PromptLockInv == \A p \in Procs : Prompting(proc[p]) => promptLock = {p}

(* What an update has in hand: the verified build of its target, an open   *)
(* staging file that is still at its path, the complete staging file.      *)
HandsOK(r) ==
    /\ r.pc \in {"stage", "write"} => r.binary = Build(r.target)
    /\ r.out = IF r.pc = "write" THEN "staged" ELSE "none"
    /\ r.pc \in {"swap", "swap_in"} => staged = Build(r.target)

(* What can go on while there is no executable to run: the daemon's check. *)
Checking(r) ==
    \/ r.pc \in {"idle", "discover"}
    \/ r.pc \in {"mutate", "save"} /\ r.change \in {"check_ok", "check_failed"}

(* The path is empty only between the two renames of a swap, or after a    *)
(* crash there; the build that was there is then beside it.                *)
PathInv ==
    /\ exe \in Published \/ (Windows /\ exe = Missing /\ aside \in Published)
    /\ \A p \in Procs : At(p, "swap_in") => exe = Missing
    /\ exe = Missing => \/ \E p \in Procs : At(p, "swap_in")
                       \/ \A p \in Procs : Checking(proc[p])

FileInv == PathInv /\ \A p \in Procs : HandsOK(proc[p])

(* Only one process at a time: a single terminal and no daemon.            *)
Alone == \A p, q \in Procs : p = q

-----------------------------------------------------------------------------
(* Types *)

LEMMA Numbers ==
    /\ Versions \subseteq Nat /\ 0 \notin Versions
    /\ Remind \in Nat /\ Interval \in Nat /\ StaleAfter \in Nat
BY UpdaterAssumption

LEMMA FileTypes ==
    /\ Missing \in File /\ Corrupt \in File /\ Published \subseteq File
    /\ \A v \in Versions : Build(v) \in Published /\ Half(v) \in File /\ Build(v).ver = v
    /\ \A f \in Published : f.ver \in Versions /\ f # Missing
<1>1. Missing \in File /\ Corrupt \in File /\ Published \subseteq File
    BY DEF File
<1>2. \A v \in Versions : Build(v) \in Published /\ Half(v) \in File /\ Build(v).ver = v
    BY DEF File, Published, Build
<1>3. \A f \in Published : f.ver \in Versions /\ f.is = "whole"
    BY DEF Published, Build
<1>4. \A f \in Published : f # Missing
    BY <1>3 DEF Missing
<1> QED
    BY <1>1, <1>2, <1>3, <1>4

LEMMA NoStateType == NoState \in UpdateState
<1>1. 0 \in 0 .. Remind /\ 0 \in 0 .. StaleAfter /\ 0 \in 0 .. Len(Backoff)
    BY UpdaterAssumption
<1> QED
    BY <1>1 DEF NoState, UpdateState

LEMMA IdleType == Idle \in Process /\ TargetOK(Idle)
<1>1. "stable" \in Channels
    BY UpdaterAssumption
<1>2. Idle \in Process
    BY <1>1, NoStateType, FileTypes DEF Idle, Process, Steps, Changes
<1> QED
    BY <1>2 DEF Idle, TargetOK

LEMMA AgedType ==
    ASSUME NEW s \in UpdateState
    PROVE  /\ Aged(s) \in UpdateState
           /\ Aged(s).owner = s.owner /\ Aged(s).skipped = s.skipped
<1>1. \A n \in Nat : Less(n) \in Nat
    BY DEF Less
<1>2. \A m \in Nat : \A n \in 0 .. m : Less(n) \in 0 .. m
    BY DEF Less
<1>3. /\ s.next \in Nat /\ s.marker \in 0 .. StaleAfter
      /\ s.deferred \in 0 .. Remind /\ s.prompted \in 0 .. Remind
    BY DEF UpdateState
<1>4. /\ Less(s.next) \in Nat /\ Less(s.marker) \in 0 .. StaleAfter
      /\ Less(s.deferred) \in 0 .. Remind /\ Less(s.prompted) \in 0 .. Remind
    BY <1>1, <1>2, <1>3, Numbers
<1> QED
    BY <1>4 DEF Aged, UpdateState

LEMMA PersistType ==
    ASSUME NEW s \in UpdateState, NEW v \in Versions \cup {0}, NEW c,
           NEW d, d = persist(s, c, v)
    PROVE  /\ d \in UpdateState /\ d.owner = s.owner
           /\ d.skipped = IF c = "skip_this" THEN v ELSE s.skipped
<1>1. 0 \in 0 .. Remind /\ Remind \in 0 .. Remind
    BY Numbers
<1> QED
    BY <1>1 DEF UpdateState, persist

LEMMA CheckOKType ==
    ASSUME NEW s \in UpdateState, NEW v \in Versions \cup {0},
           NEW d, d = RecordCheckOK(s, v)
    PROVE  /\ d \in UpdateState /\ d.owner = s.owner
           /\ d.skipped = IF v > s.skipped THEN 0 ELSE s.skipped
<1>1. 0 \in 0 .. Len(Backoff) /\ Interval \in Nat
    BY UpdaterAssumption
<1> QED
    BY <1>1 DEF UpdateState, RecordCheckOK

LEMMA CheckFailureType ==
    ASSUME NEW s \in UpdateState, NEW d, d = RecordCheckFailure(s)
    PROVE  /\ d \in UpdateState /\ d.owner = s.owner /\ d.skipped = s.skipped
<1> DEFINE n == IF s.failures < Len(Backoff) THEN s.failures + 1 ELSE s.failures
<1>1. Len(Backoff) \in Nat /\ Len(Backoff) > 0 /\ \A k \in 1 .. Len(Backoff) : Backoff[k] \in Nat
    BY UpdaterAssumption
<1>2. s.failures \in 0 .. Len(Backoff)
    BY DEF UpdateState
<1>3. n \in 1 .. Len(Backoff) /\ n \in 0 .. Len(Backoff)
    BY <1>1, <1>2
<1>4. backoffFor(n) \in Nat
    BY <1>1, <1>3, Numbers DEF backoffFor
<1>5. d = [s EXCEPT !.failures = n, !.next = backoffFor(n)]
    BY DEF RecordCheckFailure
<1> HIDE DEF n
<1> QED
    BY <1>3, <1>4, <1>5 DEF UpdateState

LEMMA MarkType ==
    ASSUME NEW s \in UpdateState, NEW p \in Procs, NEW d, d = markInProgress(s, p)
    PROVE  d \in UpdateState /\ d.owner = p /\ d.skipped = s.skipped
<1>1. StaleAfter \in 0 .. StaleAfter
    BY Numbers
<1> QED
    BY <1>1 DEF UpdateState, markInProgress

LEMMA FinishType ==
    ASSUME NEW s \in UpdateState, NEW ok \in BOOLEAN, NEW d, d = finish(s, ok)
    PROVE  d \in UpdateState /\ d.skipped = s.skipped
<1>1. 0 \in 0 .. Remind /\ 0 \in 0 .. StaleAfter
    BY Numbers
<1> QED
    BY <1>1 DEF UpdateState, finish

LEMMA SkipType ==
    ASSUME NEW s \in UpdateState, NEW v \in Versions \cup {0},
           NEW d, d = [s EXCEPT !.skipped = v]
    PROVE  d \in UpdateState /\ d.owner = s.owner /\ d.skipped = v
BY DEF UpdateState

(* What a change to the state file leaves of it.                           *)
LEMMA ChangedType ==
    ASSUME NEW p \in Procs, NEW s \in UpdateState, proc[p] \in Process,
           NEW d, d = Changed(p, s)
    PROVE  /\ d \in UpdateState
           /\ proc[p].change = "mark" => d.owner = p
           /\ proc[p].change \notin {"mark", "finish"} => d.owner = s.owner
           /\ d.skipped # s.skipped =>
                \/ proc[p].change \in {"skip", "skip_this"} /\ d.skipped = proc[p].target
                \/ proc[p].change = "unskip" /\ d.skipped = 0
                \/ proc[p].change = "check_ok" /\ d.skipped = 0 /\ proc[p].target > s.skipped
<1> DEFINE r == proc[p]
           v == proc[p].target
<1>1. v \in Versions \cup {0}
    BY DEF Process
<1>2. r.ok \in BOOLEAN
    BY Zenon DEF Process
<1>3. CASE r.change \in {"update", "not_now", "skip_this"}
    <2>1. d = persist(s, r.change, v)
        BY <1>3 DEF Changed
    <2> QED
        BY <1>1, <1>3, <2>1, PersistType
<1>4. CASE r.change = "check_ok"
    <2>1. d = RecordCheckOK(s, v)
        BY <1>4 DEF Changed
    <2> QED
        BY <1>1, <1>4, <2>1, CheckOKType
<1>5. CASE r.change = "check_failed"
    <2>1. d = RecordCheckFailure(s)
        BY <1>5 DEF Changed
    <2> QED
        BY <1>5, <2>1, CheckFailureType
<1>6. CASE r.change = "skip"
    <2>1. d = [s EXCEPT !.skipped = v]
        BY <1>6 DEF Changed
    <2> QED
        BY <1>1, <1>6, <2>1, SkipType
<1>7. CASE r.change = "unskip"
    <2>1. d = [s EXCEPT !.skipped = 0]
        BY <1>7 DEF Changed
    <2> QED
        BY <1>7, <2>1, SkipType
<1>8. CASE r.change = "mark"
    <2>1. d = markInProgress(s, p)
        BY <1>8 DEF Changed
    <2> QED
        BY <1>8, <2>1, MarkType
<1>9. CASE r.change = "finish"
    <2>1. d = finish(s, r.ok)
        BY <1>9 DEF Changed
    <2> QED
        BY <1>2, <1>9, <2>1, FinishType
<1>10. CASE r.change = "none"
    <2>1. d = s
        BY <1>10 DEF Changed
    <2> QED
        BY <1>10, <2>1
<1>11. r.change \in Changes
    BY DEF Process
<1> QED
    BY <1>3, <1>4, <1>5, <1>6, <1>7, <1>8, <1>9, <1>10, <1>11 DEF Changes

(* What a process becomes in a step is a process, and it knows its target. *)
Sound(r) == r \in Process /\ TargetOK(r)

LEMMA BecomeType ==
    ASSUME TypeInv, NEW p \in Procs, NEW r, Sound(r), Become(p, r)
    PROVE  proc' \in [Procs -> Process] /\ \A q \in Procs : TargetOK(proc[q])'
BY DEF TypeInv, TypeOK, Become, TargetOK, Sound

LEMMA SoundNow ==
    ASSUME TypeInv, NEW p \in Procs
    PROVE  Sound(proc[p])
BY DEF TypeInv, TypeOK, Sound

LEMMA GotoSound ==
    ASSUME NEW r, Sound(r), NEW s \in Steps,
           r.target \in Versions \/ s \in {"idle", "mutate", "save", "discover"}
    PROVE  Sound([r EXCEPT !.pc = s])
BY DEF Sound, Process, TargetOK

LEMMA ChangingSound ==
    ASSUME NEW r, Sound(r), NEW c \in Changes,
           c \in {"update", "not_now", "skip_this", "skip", "mark"} => r.target \in Versions
    PROVE  Sound(Changing(r, c))
BY DEF Sound, Process, TargetOK, Changing, Steps

LEMMA FinishSound ==
    ASSUME NEW r, Sound(r), NEW ok \in BOOLEAN
    PROVE  Sound(Changing([r EXCEPT !.ok = ok, !.out = "none", !.binary = Missing], "finish"))
<1>1. Sound([r EXCEPT !.ok = ok, !.out = "none", !.binary = Missing])
    BY FileTypes DEF Sound, Process, TargetOK
<1> QED
    BY <1>1, ChangingSound DEF Changes

(* The steps, one by one *)

LEMMA AfterMutateType ==
    ASSUME TypeInv, NEW p \in Procs, NEW written \in BOOLEAN, AfterMutate(p, written)
    PROVE  /\ proc' \in [Procs -> Process] /\ \A q \in Procs : TargetOK(proc[q])'
           /\ promptLock' \subseteq Procs
<1>1. Sound(proc[p])
    BY SoundNow
<1>2. CASE proc[p].change = "update" /\ Become(p, Changing(proc[p], "mark")) /\ UNCHANGED promptLock
    <2>1. Sound(Changing(proc[p], "mark"))
        BY <1>1, <1>2, ChangingSound DEF Sound, TargetOK, Changes
    <2> QED
        BY <1>2, <2>1, BecomeType DEF TypeInv, TypeOK
<1>3. CASE /\ proc[p].change = "mark"
           /\ Goto(p, IF Delegated THEN "delegate" ELSE "fetch")
           /\ UNCHANGED promptLock
    <2>1. Sound([proc[p] EXCEPT !.pc = IF Delegated THEN "delegate" ELSE "fetch"])
        BY <1>1, <1>3, GotoSound DEF Sound, TargetOK, Steps
    <2> QED
        BY <1>3, <2>1, BecomeType DEF Goto, TypeInv, TypeOK
<1>4. CASE Done(p)
    BY <1>4, IdleType, BecomeType DEF Sound, Done, TypeInv, TypeOK
<1> QED
    BY <1>2, <1>3, <1>4 DEF AfterMutate

LEMMA MutateType ==
    ASSUME TypeInv, NEW p \in Procs, Mutate(p)
    PROVE  TypeInv'
<1>1. CASE /\ stateLock' = stateLock \cup {p} /\ UNCHANGED promptLock
           /\ Become(p, [proc[p] EXCEPT !.pc = "save", !.copy = disk])
    <2>1. Sound([proc[p] EXCEPT !.pc = "save", !.copy = disk])
        BY ZenonT(60), SoundNow DEF Sound, Process, TargetOK, TypeInv, TypeOK, Steps
    <2> QED
        BY <1>1, <2>1, BecomeType DEF Mutate, TypeInv, TypeOK, files
<1>2. CASE AfterMutate(p, FALSE) /\ UNCHANGED stateLock
    BY <1>2, AfterMutateType DEF Mutate, TypeInv, TypeOK, files
<1> QED
    BY <1>1, <1>2 DEF Mutate

LEMMA SaveType ==
    ASSUME TypeInv, NEW p \in Procs, Save(p)
    PROVE  TypeInv'
<1>1. proc[p] \in Process /\ proc[p].copy \in UpdateState /\ TargetOK(proc[p])
    BY DEF TypeInv, TypeOK, Process
<1>2. \E w \in BOOLEAN : AfterMutate(p, w)
    BY DEF Save
<1>3. disk' \in UpdateState
    BY <1>1, ChangedType DEF Save, TypeInv, TypeOK
<1>4. declined' \subseteq Versions
    BY <1>1 DEF Save, TargetOK, TypeInv, TypeOK
<1> QED
    BY <1>2, <1>3, <1>4, AfterMutateType DEF Save, TypeInv, TypeOK, files

(* What a command finds when it starts.                                    *)
LEMMA StartsType ==
    ASSUME TypeInv, NEW p \in Procs, NEW r, Starts(p), Sound(r), Become(p, r), spawned' \in BOOLEAN
    PROVE  TypeInv'
<1>1. aside' \in File
    BY FileTypes DEF Starts, TypeInv, TypeOK
<1> QED
    BY <1>1, BecomeType DEF Starts, TypeInv, TypeOK

(* A process that starts about a release, or about none.                   *)
LEMMA StartedSound ==
    ASSUME NEW s \in {"lock", "confirm", "apply"}, NEW run \in Versions, NEW v \in Versions,
           NEW told \in BOOLEAN
    PROVE  /\ Sound([Idle EXCEPT !.pc = s, !.run = run, !.target = v, !.told = told])
           /\ Sound([Idle EXCEPT !.pc = s, !.run = run, !.target = v])
BY IdleType DEF Sound, Process, TargetOK, Steps

LEMMA BeginType ==
    ASSUME TypeInv, NEW p \in Procs, Begin(p)
    PROVE  TypeInv'
<1>1. ASSUME runStartupCheck(p)
      PROVE  TypeInv'
    <2>1. exe.ver \in Versions /\ spawned' \in BOOLEAN
        BY <1>1, FileTypes DEF runStartupCheck, Starts, TypeInv, TypeOK
    <2>2. CASE Eligible(disk, exe.ver)
        <3>1. disk.latest \in Versions \cup {0}
            BY DEF TypeInv, TypeOK, UpdateState
        <3>2. disk.latest > exe.ver /\ exe.ver \in Nat
            BY <2>1, <2>2, Numbers DEF Eligible
        <3>3. disk.latest \in Versions
            BY <3>1, <3>2
        <3> QED
            BY <1>1, <2>1, <2>2, <3>3, StartedSound, StartsType DEF runStartupCheck
    <2>3. CASE ~Eligible(disk, exe.ver)
        <3>1. aside' \in File
            BY <1>1, FileTypes DEF runStartupCheck, Starts, TypeInv, TypeOK
        <3> QED
            BY <1>1, <2>1, <2>3, <3>1 DEF runStartupCheck, Starts, TypeInv, TypeOK, TargetOK
    <2> QED
        BY <2>2, <2>3
<1>2. ASSUME NEW v \in Targets \cup {0}, NEW yes \in BOOLEAN, NEW allow \in BOOLEAN,
             BuildPlan(p, v, yes, allow)
      PROVE  TypeInv'
    <2> DEFINE target == IF v = 0 THEN disk.latest ELSE v
               told == target < exe.ver /\ (allow \/ ~yes)
    <2>1. exe.ver \in Versions /\ spawned' \in BOOLEAN
        BY <1>2, FileTypes DEF BuildPlan, Starts, TypeInv, TypeOK
    <2>2. target \in Versions
        BY <1>2, UpdaterAssumption DEF BuildPlan, TypeInv, TypeOK, UpdateState
    <2>3. told \in BOOLEAN
        OBVIOUS
    <2>4. Become(p, [Idle EXCEPT !.pc = IF yes THEN "apply" ELSE "confirm", !.run = exe.ver,
                                 !.target = target, !.told = told])
        BY <1>2 DEF BuildPlan
    <2>5. Starts(p)
        BY <1>2 DEF BuildPlan
    <2> HIDE DEF target, told
    <2>6. Sound([Idle EXCEPT !.pc = IF yes THEN "apply" ELSE "confirm", !.run = exe.ver,
                             !.target = target, !.told = told])
        BY <2>1, <2>2, <2>3, StartedSound
    <2> QED
        BY <2>1, <2>4, <2>5, <2>6, StartsType
<1>3. ASSUME NEW v \in Skips \cup {0}, runSkip(p, v)
      PROVE  TypeInv'
    <2>1. v \in Versions \cup {0}
        BY UpdaterAssumption
    <2>2. Sound([Idle EXCEPT !.target = v]) /\ [Idle EXCEPT !.target = v].target = v
        BY <2>1, IdleType DEF Sound, Idle, Process, TargetOK
    <2>3. Sound(Changing([Idle EXCEPT !.target = v], IF v = 0 THEN "unskip" ELSE "skip"))
        BY <2>1, <2>2, ChangingSound DEF Changes
    <2> QED
        BY <1>3, <2>3, StartsType DEF runSkip, TypeInv, TypeOK
<1>4. \A c \in Channels : Sound([Idle EXCEPT !.pc = "discover", !.channel = c])
    BY IdleType DEF Sound, Process, TargetOK, Steps
<1>5. "stable" \in Channels
    BY UpdaterAssumption
<1>6. ASSUME runBackgroundCheck(p)
      PROVE  TypeInv'
    BY <1>4, <1>5, <1>6, StartsType DEF runBackgroundCheck, Checks
<1>7. ASSUME runOnce(p)
      PROVE  TypeInv'
    BY <1>4, <1>5, <1>7, BecomeType DEF runOnce, Checks, TypeInv, TypeOK, files
<1>8. ASSUME NEW c \in Channels, runCheckNow(p, c)
      PROVE  TypeInv'
    BY <1>4, <1>8, StartsType DEF runCheckNow, Checks, TypeInv, TypeOK
<1> QED
    BY <1>1, <1>2, <1>3, <1>6, <1>7, <1>8 DEF Begin

(* Steps of one process that leave the state file, the releases and the    *)
(* files alone.                                                            *)
LEMMA MoveType ==
    ASSUME TypeInv, NEW p \in Procs, NEW r, Sound(r), Become(p, r),
           promptLock' \subseteq Procs, stateLock' \subseteq Procs,
           exe' \in File, staged' \in File, aside' \in File,
           UNCHANGED <<disk, newest, spawned, declined>>
    PROVE  TypeInv'
BY BecomeType DEF TypeInv, TypeOK

LEMMA DieType ==
    ASSUME TypeInv, NEW p \in Procs, Die(p)
    PROVE  TypeInv'
BY IdleType, MoveType DEF Die, Done, Sound, TypeInv, TypeOK, files

LEMMA PromptType ==
    ASSUME TypeInv, NEW p \in Procs,
           AcquirePromptLock(p) \/ Ask(p) \/ confirmPlan(p) \/ discover(p) \/ Apply(p)
    PROVE  TypeInv'
<1>1. Sound(proc[p]) /\ Sound(Idle)
    BY SoundNow, IdleType DEF Sound
<1>2. promptLock \cup {p} \subseteq Procs /\ promptLock \ {p} \subseteq Procs
    BY DEF TypeInv, TypeOK
<1>3. exe \in File /\ staged \in File /\ aside \in File
      /\ promptLock \subseteq Procs /\ stateLock \subseteq Procs
    BY DEF TypeInv, TypeOK
<1>4. ASSUME AcquirePromptLock(p)
      PROVE  TypeInv'
    <2>1. Sound([proc[p] EXCEPT !.pc = "ask"])
        BY <1>1, <1>4, GotoSound DEF AcquirePromptLock, At, Sound, TargetOK, Steps
    <2> QED
        BY <1>1, <1>2, <1>3, <1>4, <2>1, MoveType DEF AcquirePromptLock, Goto, Done, files
<1>5. ASSUME Ask(p)
      PROVE  TypeInv'
    <2>1. \A c \in {"update", "not_now", "skip_this"} : Sound(Changing(proc[p], c))
        BY <1>1, <1>5, ChangingSound DEF Ask, At, Sound, TargetOK, Changes
    <2> QED
        BY <1>3, <1>5, <2>1, MoveType DEF Ask, files
<1>6. ASSUME confirmPlan(p)
      PROVE  TypeInv'
    <2>1. Sound([proc[p] EXCEPT !.pc = "apply"])
        BY <1>1, <1>6, GotoSound DEF confirmPlan, At, Sound, TargetOK, Steps
    <2> QED
        BY <1>1, <1>3, <1>6, <2>1, MoveType DEF confirmPlan, Goto, files
<1>7. ASSUME discover(p)
      PROVE  TypeInv'
    <2>1. newest[proc[p].channel] \in Versions
        BY DEF TypeInv, TypeOK, Process
    <2>2. Sound([proc[p] EXCEPT !.target = newest[proc[p].channel]])
        BY <1>1, <2>1 DEF Sound, Process, TargetOK
    <2>3. /\ Sound(Changing([proc[p] EXCEPT !.target = newest[proc[p].channel]], "check_ok"))
          /\ Sound(Changing(proc[p], "check_failed"))
        BY <1>1, <2>2, ChangingSound DEF Changes
    <2> QED
        BY <1>3, <1>7, <2>3, MoveType DEF discover, files
<1>8. ASSUME Apply(p)
      PROVE  TypeInv'
    <2>1. Sound(Changing(proc[p], "mark"))
        BY <1>1, <1>8, ChangingSound DEF Apply, At, Sound, TargetOK, Changes
    <2> QED
        BY <1>1, <1>2, <1>3, <1>8, <2>1, MoveType DEF Apply, Done, files
<1> QED
    BY <1>4, <1>5, <1>6, <1>7, <1>8

(* A staging file that becomes the executable.                             *)
LEMMA InstallsType ==
    ASSUME TypeInv, NEW p \in Procs, Installs(p), proc[p].target \in Versions
    PROVE  /\ proc' \in [Procs -> Process] /\ \A q \in Procs : TargetOK(proc[q])'
           /\ exe' \in File /\ staged' \in File
<1> DEFINE r == [proc[p] EXCEPT !.pc = "restart", !.out = "none", !.binary = Missing]
           moved(q) == CASE proc[q].out = "staged" -> "target"
                         [] proc[q].out = "target" -> "none"
                         [] OTHER -> proc[q].out
<1>1. Sound(r)
    BY ZenonT(60), SoundNow, FileTypes DEF Sound, Process, TargetOK, Steps
<1>2. \A q \in Procs : moved(q) \in {"none", "staged", "target"}
    BY DEF TypeInv, TypeOK, Process
<1>3. proc' = [q \in Procs |-> IF q = p THEN r ELSE [proc[q] EXCEPT !.out = moved(q)]]
    BY DEF Installs
<1> HIDE DEF r, moved
<1>4. \A q \in Procs : Sound([proc[q] EXCEPT !.out = moved(q)])
    BY ZenonT(60), <1>2, SoundNow DEF Sound, Process, TargetOK
<1>5. \A q \in Procs : Sound(proc'[q])
    BY <1>1, <1>3, <1>4
<1>6. proc' = [q \in Procs |-> proc'[q]]
    BY <1>3
<1> QED
    BY <1>5, <1>6, FileTypes DEF Sound, TargetOK, Installs, TypeInv, TypeOK

LEMMA UpdateType ==
    ASSUME TypeInv, NEW p \in Procs,
           \/ Fetch(p) \/ copyExecutable(p) \/ WriteStaged(p) \/ swap(p) \/ swapIn(p)
           \/ delegate(p) \/ afterReplacement(p)
    PROVE  TypeInv'
<1>1. Sound(proc[p]) /\ proc[p].target \in Versions
    BY SoundNow DEF Sound, TargetOK, At, Fetch, copyExecutable, WriteStaged, swap, swapIn,
                    delegate, afterReplacement
<1>2. /\ exe \in File /\ staged \in File /\ aside \in File /\ Missing \in File
      /\ promptLock \subseteq Procs /\ stateLock \subseteq Procs
    BY FileTypes DEF TypeInv, TypeOK
<1>3. \A ok \in BOOLEAN :
        Sound(Changing([proc[p] EXCEPT !.ok = ok, !.out = "none", !.binary = Missing], "finish"))
    BY <1>1, FinishSound
<1>4. ASSUME NEW ok \in BOOLEAN, Finish(p, ok),
             exe' \in File, staged' \in File, aside' \in File,
             UNCHANGED <<disk, newest, promptLock, stateLock, spawned, declined>>
      PROVE  TypeInv'
    BY <1>2, <1>3, <1>4, MoveType DEF Finish
<1>5. ASSUME Fetch(p)
      PROVE  TypeInv'
    <2>1. CASE Finish(p, FALSE)
        BY <1>2, <1>4, <1>5, <2>1 DEF Fetch, files
    <2>2. CASE \E d \in Downloads : /\ Verified(d, proc[p].target)
                                    /\ Become(p, [proc[p] EXCEPT !.pc = "stage", !.binary = d.archive])
        <3>1. PICK d \in Downloads : /\ Verified(d, proc[p].target)
                                     /\ Become(p, [proc[p] EXCEPT !.pc = "stage", !.binary = d.archive])
            BY <2>2
        <3>2. d.archive \in File
            BY <1>1, <3>1, FileTypes DEF Verified
        <3>3. Sound([proc[p] EXCEPT !.pc = "stage", !.binary = d.archive])
            BY <1>1, <3>2 DEF Sound, Process, TargetOK, Steps
        <3> QED
            BY <1>2, <1>5, <3>1, <3>3, MoveType DEF Fetch, files
    <2> QED
        BY <1>5, <2>1, <2>2 DEF Fetch
<1>6. ASSUME copyExecutable(p)
      PROVE  TypeInv'
    <2>1. Sound([proc[p] EXCEPT !.pc = "write", !.out = "staged"])
        BY <1>1 DEF Sound, Process, TargetOK, Steps
    <2> QED
        BY <1>1, <1>2, <1>6, <2>1, FileTypes, MoveType DEF copyExecutable
<1>7. ASSUME WriteStaged(p)
      PROVE  TypeInv'
    <2>1. CASE staged' = Missing /\ UNCHANGED exe /\ Finish(p, FALSE)
        BY <1>2, <1>4, <1>7, <2>1 DEF WriteStaged
    <2>2. CASE /\ staged' = IF proc[p].out = "staged" THEN proc[p].binary ELSE staged
               /\ exe' = IF proc[p].out = "target" THEN proc[p].binary ELSE exe
               /\ Become(p, [proc[p] EXCEPT !.pc = "swap", !.out = "none"])
        <3>1. proc[p].binary \in File
            BY <1>1 DEF Sound, Process
        <3>2. Sound([proc[p] EXCEPT !.pc = "swap", !.out = "none"])
            BY <1>1 DEF Sound, Process, TargetOK, Steps
        <3>3. exe' \in File /\ staged' \in File
            BY <1>2, <2>2, <3>1
        <3> QED
            BY <1>2, <1>7, <2>2, <3>2, <3>3, MoveType DEF WriteStaged
    <2> QED
        BY <1>7, <2>1, <2>2 DEF WriteStaged
<1>8. ASSUME swap(p)
      PROVE  TypeInv'
    <2>1. CASE Installs(p) /\ UNCHANGED aside
        BY <1>1, <1>8, <2>1, InstallsType DEF swap, TypeInv, TypeOK
    <2>2. CASE aside' = exe /\ exe' = Missing /\ Goto(p, "swap_in") /\ UNCHANGED staged
        <3>1. Sound([proc[p] EXCEPT !.pc = "swap_in"])
            BY <1>1, GotoSound DEF Steps
        <3> QED
            BY <1>2, <1>8, <2>2, <3>1, MoveType DEF swap, Goto
    <2>3. CASE staged' = Missing /\ Finish(p, FALSE) /\ UNCHANGED <<exe, aside>>
        BY <1>2, <1>4, <1>8, <2>3 DEF swap
    <2> QED
        BY <1>8, <2>1, <2>2, <2>3 DEF swap
<1>9. ASSUME swapIn(p)
      PROVE  TypeInv'
    <2>1. CASE Installs(p) /\ aside' \in {aside, Missing}
        BY <1>1, <1>2, <1>9, <2>1, InstallsType DEF swapIn, TypeInv, TypeOK
    <2>2. CASE exe' = aside /\ aside' = Missing /\ staged' = Missing /\ Finish(p, FALSE)
        BY <1>2, <1>4, <1>9, <2>2 DEF swapIn
    <2> QED
        BY <1>9, <2>1, <2>2 DEF swapIn
<1>10. ASSUME delegate(p)
       PROVE  TypeInv'
    <2>1. Build(newest["stable"]) \in File
        BY FileTypes, UpdaterAssumption DEF TypeInv, TypeOK
    <2>2. Sound([proc[p] EXCEPT !.pc = "restart"])
        BY <1>1, GotoSound DEF Steps
    <2>3. CASE exe' = Build(newest["stable"]) /\ Goto(p, "restart")
        BY <1>2, <1>10, <2>1, <2>2, <2>3, MoveType DEF delegate, Goto
    <2>4. CASE Finish(p, FALSE) /\ UNCHANGED exe
        BY <1>2, <1>4, <1>10, <2>4 DEF delegate
    <2> QED
        BY <1>10, <2>3, <2>4 DEF delegate
<1>11. ASSUME afterReplacement(p)
       PROVE  TypeInv'
    BY <1>2, <1>4, <1>11 DEF afterReplacement, files
<1> QED
    BY <1>5, <1>6, <1>7, <1>8, <1>9, <1>10, <1>11

LEMMA TickType ==
    ASSUME TypeInv, Tick
    PROVE  TypeInv'
<1>1. \A q \in Procs : proc[q] \in Process /\ Aged(proc[q].copy) \in UpdateState
    BY AgedType DEF TypeInv, TypeOK, Process
<1>2. \A q \in Procs : proc'[q] = [proc[q] EXCEPT !.copy = Aged(proc[q].copy)]
    BY DEF Tick
<1>3. \A q \in Procs : Sound([proc[q] EXCEPT !.copy = Aged(proc[q].copy)])
    BY ZenonT(60), <1>1, SoundNow DEF Sound, Process, TargetOK
<1>4. proc' \in [Procs -> Process] /\ \A q \in Procs : TargetOK(proc[q])'
    BY <1>2, <1>3 DEF Sound, Tick, TargetOK
<1>5. disk' \in UpdateState
    BY AgedType DEF Tick, TypeInv, TypeOK
<1> QED
    BY <1>4, <1>5 DEF Tick, TypeInv, TypeOK, files

LEMMA TypeStep ==
    ASSUME TypeInv, [Next]_vars
    PROVE  TypeInv'
<1>1. ASSUME NEW p \in Procs, Step(p)
      PROVE  TypeInv'
    BY <1>1, MutateType, SaveType, PromptType, UpdateType DEF Step
<1>2. ASSUME NEW c \in Channels, NEW v \in Versions, Publish(c, v)
      PROVE  TypeInv'
    BY <1>2 DEF Publish, TypeInv, TypeOK, TargetOK, files
<1>3. CASE UNCHANGED vars
    BY <1>3 DEF vars, TypeInv, TypeOK, TargetOK
<1> QED
    BY <1>1, <1>2, <1>3, BeginType, DieType, TickType DEF Next

LEMMA TypeInit == Init => TypeInv
<1> SUFFICES ASSUME Init
             PROVE  TypeInv
    OBVIOUS
<1>1. exe \in File /\ staged \in File /\ aside \in File /\ newest \in [Channels -> Versions]
    BY FileTypes DEF Init
<1> QED
    BY <1>1, IdleType, NoStateType DEF Init, TypeInv, TypeOK

(* The state file, the files and the processes stay well formed, and       *)
(* whoever offers, installs or skips a release names a published one.      *)
THEOREM UpdaterTypeCorrect == Spec => []TypeOK
<1>1. TypeInv /\ [Next]_vars => TypeInv'
    BY TypeStep
<1>2. TypeInv => TypeOK
    BY DEF TypeInv
<1> QED
    BY <1>1, <1>2, TypeInit, PTL DEF Spec

-----------------------------------------------------------------------------
(* The locks *)

LockInv == StateLockInv /\ PromptLockInv /\ MarkerIsOwned

(* The lock as a process leaves it that takes it, releases it or neither.  *)
Passed(p, lock, after) ==
    after = lock \/ after = lock \ {p} \/ (lock = {} /\ after = {p})

(* What one process may do without disturbing the others.                  *)
Polite(p) ==
    /\ \A q \in Procs \ {p} : /\ proc'[q].pc = proc[q].pc /\ proc'[q].change = proc[q].change
                              /\ proc'[q].copy = proc[q].copy
    /\ Passed(p, stateLock, stateLock') /\ Passed(p, promptLock, promptLock')
    /\ disk' # disk => At(p, "save")
    /\ disk'.owner # disk.owner => Prompting(proc[p])
    /\ At(p, "save")' => stateLock' = {p} /\ proc'[p].copy = disk'
    /\ Prompting(proc'[p]) => promptLock' = {p}
    /\ Applying(p)' => disk'.owner = p

LEMMA LockFrame ==
    ASSUME LockInv, NEW p \in Procs, Polite(p)
    PROVE  LockInv'
<1>1. ASSUME NEW q \in Procs \ {p}, Prompting(proc[q])
      PROVE  promptLock' = {q} /\ ~Prompting(proc[p])
    BY <1>1 DEF LockInv, PromptLockInv, Polite, Passed
<1>2. ASSUME NEW q \in Procs \ {p}, At(q, "save")
      PROVE  stateLock' = {q} /\ ~At(p, "save")
    BY <1>2 DEF LockInv, StateLockInv, Polite, Passed
<1>3. \A q \in Procs \ {p} : Prompting(proc'[q]) = Prompting(proc[q])
    BY DEF Polite, Prompting
<1>4. \A q \in Procs : Applying(q) => Prompting(proc[q])
    BY DEF Applying, Prompting
<1>5. \A q \in Procs \ {p} : Applying(q)' = Applying(q)
    BY DEF Polite, Applying
<1>6. StateLockInv'
    BY <1>2 DEF LockInv, StateLockInv, Polite, At
<1>7. PromptLockInv'
    BY <1>1, <1>3 DEF PromptLockInv, Polite
<1>8. MarkerIsOwned'
    BY <1>1, <1>4, <1>5 DEF LockInv, MarkerIsOwned, Polite
<1> QED
    BY <1>6, <1>7, <1>8 DEF LockInv

(* Becoming something that is not between load and save, with the state    *)
(* file and the state lock left alone.                                     *)
LEMMA MovePolite ==
    ASSUME TypeInv, LockInv, NEW p \in Procs, NEW r, Become(p, r),
           UNCHANGED <<disk, stateLock>>, Passed(p, promptLock, promptLock'),
           r.pc # "save",
           Prompting(r) => promptLock' = {p},
           r.pc \in {"fetch", "stage", "write", "swap", "swap_in", "delegate", "restart"}
             \/ (r.pc = "mutate" /\ r.change = "finish") => Applying(p)
    PROVE  LockInv'
<1>1. proc'[p] = r /\ \A q \in Procs \ {p} : proc'[q] = proc[q]
    BY DEF Become, TypeInv, TypeOK
<1>2. Applying(p)' => Applying(p)
    BY <1>1 DEF Applying
<1>3. Applying(p) => disk.owner = p
    BY DEF LockInv, MarkerIsOwned
<1>4. Polite(p)
    BY <1>1, <1>2, <1>3 DEF Polite, Passed, At
<1> QED
    BY <1>4, LockFrame

(* What a command, a terminal or a timer starts.                           *)
LEMMA BeginShape ==
    ASSUME NEW p \in Procs, Begin(p)
    PROVE  /\ UNCHANGED <<disk, stateLock, promptLock, exe, staged>>
           /\ proc[p].pc = "idle"
           /\ exe \in Published \/ UNCHANGED aside
           /\ \/ UNCHANGED proc
              \/ \E r : /\ Become(p, r) /\ r.out = "none"
                        /\ exe \in Published \/ r.pc = "discover"
                        /\ \/ r.pc \in {"lock", "confirm", "apply", "discover"}
                           \/ r.pc = "mutate" /\ r.change \in {"skip", "unskip"}
<1>1. /\ UNCHANGED <<disk, stateLock, promptLock, exe, staged>> /\ proc[p].pc = "idle"
      /\ exe \in Published \/ UNCHANGED aside
    BY DEF Begin, runStartupCheck, BuildPlan, runSkip, runBackgroundCheck, runOnce, runCheckNow,
           Starts, files, At
<1>2. ASSUME runStartupCheck(p)
      PROVE  \/ UNCHANGED proc
             \/ Become(p, [Idle EXCEPT !.pc = "lock", !.run = exe.ver, !.target = disk.latest])
    BY <1>2 DEF runStartupCheck
<1>3. /\ [Idle EXCEPT !.pc = "lock", !.run = exe.ver, !.target = disk.latest].pc = "lock"
      /\ [Idle EXCEPT !.pc = "lock", !.run = exe.ver, !.target = disk.latest].out = "none"
    BY DEF Idle
<1>4. ASSUME NEW v \in Targets \cup {0}, NEW yes \in BOOLEAN, NEW allow \in BOOLEAN,
             BuildPlan(p, v, yes, allow)
      PROVE  \E r : Become(p, r) /\ r.out = "none" /\ r.pc \in {"confirm", "apply"}
    <2> DEFINE target == IF v = 0 THEN disk.latest ELSE v
               r == [Idle EXCEPT !.pc = IF yes THEN "apply" ELSE "confirm", !.run = exe.ver,
                                 !.target = target,
                                 !.told = target < exe.ver /\ (allow \/ ~yes)]
    <2>1. Become(p, r)
        BY <1>4 DEF BuildPlan
    <2>2. r.pc \in {"confirm", "apply"} /\ r.out = "none"
        BY DEF Idle
    <2> QED
        BY <2>1, <2>2
<1>5. ASSUME NEW v \in Skips \cup {0}, runSkip(p, v)
      PROVE  \E r : Become(p, r) /\ r.out = "none" /\ r.pc = "mutate" /\ r.change \in {"skip", "unskip"}
    <2> DEFINE r == Changing([Idle EXCEPT !.target = v], IF v = 0 THEN "unskip" ELSE "skip")
    <2>1. Become(p, r)
        BY <1>5 DEF runSkip
    <2>2. r.pc = "mutate" /\ r.out = "none" /\ r.change \in {"skip", "unskip"}
        BY DEF Idle, Changing
    <2> QED
        BY <2>1, <2>2
<1>6. ASSUME NEW c, Checks(p, c)
      PROVE  \E r : Become(p, r) /\ r.out = "none" /\ r.pc = "discover"
    <2> DEFINE r == [Idle EXCEPT !.pc = "discover", !.channel = c]
    <2>1. r.pc = "discover" /\ r.out = "none"
        BY DEF Idle
    <2> QED
        BY <1>6, <2>1 DEF Checks
<1>7. \/ UNCHANGED proc
      \/ \E r : /\ Become(p, r) /\ r.out = "none"
                /\ exe \in Published \/ r.pc = "discover"
                /\ \/ r.pc \in {"lock", "confirm", "apply", "discover"}
                   \/ r.pc = "mutate" /\ r.change \in {"skip", "unskip"}
    <2>1. CASE runStartupCheck(p)
        BY <1>2, <1>3, <2>1 DEF runStartupCheck, Starts
    <2>2. CASE \E v \in Targets \cup {0}, yes, allow \in BOOLEAN : BuildPlan(p, v, yes, allow)
        BY ZenonT(60), <1>4, <2>2 DEF BuildPlan, Starts
    <2>3. CASE \E v \in Skips \cup {0} : runSkip(p, v)
        BY <1>5, <2>3 DEF runSkip, Starts
    <2>4. CASE \E c : Checks(p, c)
        BY <1>6, <2>4
    <2> QED
        BY <2>1, <2>2, <2>3, <2>4 DEF Begin, runBackgroundCheck, runOnce, runCheckNow
<1> QED
    BY <1>1, <1>7

LEMMA BeginLocks ==
    ASSUME TypeInv, LockInv, NEW p \in Procs, Begin(p)
    PROVE  LockInv'
<1>1. UNCHANGED <<disk, stateLock, promptLock>>
    BY BeginShape
<1>2. CASE UNCHANGED proc
    BY <1>1, <1>2 DEF LockInv, StateLockInv, PromptLockInv, MarkerIsOwned, Prompting, Applying, At
<1>3. ASSUME NEW r, Become(p, r),
             \/ r.pc \in {"lock", "confirm", "apply", "discover"}
             \/ r.pc = "mutate" /\ r.change \in {"skip", "unskip"}
      PROVE  LockInv'
    BY <1>1, <1>3, MovePolite DEF Prompting, Passed
<1> QED
    BY <1>2, <1>3, BeginShape

(* What follows a Mutate starts to apply only after the marker is written. *)
LEMMA AfterMutateLocks ==
    ASSUME TypeInv, LockInv, NEW p \in Procs, NEW written \in BOOLEAN,
           At(p, "mutate") \/ At(p, "save"), AfterMutate(p, written)
    PROVE  /\ \A q \in Procs \ {p} : proc'[q] = proc[q]
           /\ Passed(p, promptLock, promptLock')
           /\ proc'[p].pc # "save"
           /\ Prompting(proc'[p]) => promptLock' = {p}
           /\ Applying(p)' => proc[p].change = "mark" /\ written
<1>1. CASE proc[p].change = "update" /\ Become(p, Changing(proc[p], "mark")) /\ UNCHANGED promptLock
    <2>1. proc'[p].pc = "mutate" /\ proc'[p].change = "mark" /\ \A q \in Procs \ {p} : proc'[q] = proc[q]
        BY <1>1 DEF Become, Changing, TypeInv, TypeOK, Process
    <2>2. promptLock = {p}
        BY <1>1 DEF LockInv, PromptLockInv, Prompting, At
    <2> QED
        BY <1>1, <2>1, <2>2 DEF Applying, Passed
<1>2. CASE /\ proc[p].change = "mark" /\ written
           /\ Goto(p, IF Delegated THEN "delegate" ELSE "fetch")
           /\ UNCHANGED promptLock
    <2>1. proc'[p].pc \in {"delegate", "fetch"} /\ \A q \in Procs \ {p} : proc'[q] = proc[q]
        BY <1>2 DEF Goto, Become, TypeInv, TypeOK, Process
    <2>2. promptLock = {p}
        BY <1>2 DEF LockInv, PromptLockInv, Prompting, At
    <2> QED
        BY <1>2, <2>1, <2>2 DEF Passed
<1>3. CASE Done(p)
    <2>1. proc'[p] = Idle /\ \A q \in Procs \ {p} : proc'[q] = proc[q]
        BY <1>3 DEF Done, Become, TypeInv, TypeOK
    <2>2. proc'[p].pc = "idle"
        BY <2>1 DEF Idle
    <2> QED
        BY <1>3, <2>1, <2>2 DEF Done, Passed, Prompting, Applying
<1> QED
    BY <1>1, <1>2, <1>3 DEF AfterMutate

LEMMA MutateLocks ==
    ASSUME TypeInv, LockInv, LockingWorks, NEW p \in Procs, Mutate(p)
    PROVE  LockInv'
<1>1. CASE /\ Free(stateLock) /\ stateLock' = stateLock \cup {p} /\ UNCHANGED promptLock
           /\ Become(p, [proc[p] EXCEPT !.pc = "save", !.copy = disk])
    <2>1. /\ proc'[p].pc = "save" /\ proc'[p].change = proc[p].change /\ proc'[p].copy = disk
          /\ \A q \in Procs \ {p} : proc'[q] = proc[q]
        BY <1>1 DEF Become, TypeInv, TypeOK, Process
    <2>2. stateLock = {} /\ stateLock' = {p} /\ disk' = disk
        BY <1>1 DEF Free, Mutate
    <2>3. Prompting(proc'[p]) => promptLock' = {p}
        BY <1>1, <2>1 DEF Mutate, At, Prompting, LockInv, PromptLockInv
    <2>4. Applying(p)' => disk'.owner = p
        BY <1>1, <2>1, <2>2 DEF Mutate, At, Applying, LockInv, MarkerIsOwned
    <2>5. Polite(p)
        BY <1>1, <2>1, <2>2, <2>3, <2>4 DEF Polite, Passed
    <2> QED
        BY <2>5, LockFrame
<1>2. CASE AfterMutate(p, FALSE) /\ UNCHANGED stateLock
    <2>1. Polite(p)
        BY <1>2, AfterMutateLocks DEF Mutate, Polite, Passed, At
    <2> QED
        BY <2>1, LockFrame
<1> QED
    BY <1>1, <1>2 DEF Mutate

LEMMA SaveLocks ==
    ASSUME TypeInv, LockInv, NEW p \in Procs, Save(p)
    PROVE  LockInv'
<1>1. At(p, "save") /\ proc[p].copy = disk /\ disk \in UpdateState /\ proc[p] \in Process
    BY DEF Save, LockInv, StateLockInv, TypeInv, TypeOK
<1>2. stateLock' = stateLock \ {p}
    BY DEF Save
<1>3. CASE disk' = Changed(p, proc[p].copy) /\ AfterMutate(p, TRUE)
    <2>1. /\ proc[p].change = "mark" => disk'.owner = p
          /\ proc[p].change \notin {"mark", "finish"} => disk'.owner = disk.owner
        BY <1>1, <1>3, ChangedType
    <2>2. disk'.owner # disk.owner => Prompting(proc[p])
        BY <1>1, <2>1 DEF Prompting, At
    <2>3. Polite(p)
        BY <1>1, <1>2, <1>3, <2>1, <2>2, AfterMutateLocks DEF Polite, Passed, At
    <2> QED
        BY <2>3, LockFrame
<1>4. CASE UNCHANGED disk /\ AfterMutate(p, FALSE)
    <2>1. Polite(p)
        BY <1>1, <1>2, <1>4, AfterMutateLocks DEF Polite, Passed, At
    <2> QED
        BY <2>1, LockFrame
<1> QED
    BY <1>3, <1>4 DEF Save

LEMMA DoneLocks ==
    ASSUME TypeInv, LockInv, NEW p \in Procs, Done(p), UNCHANGED <<disk, stateLock>>
    PROVE  LockInv'
<1>1. Idle.pc = "idle"
    BY DEF Idle
<1> QED
    BY <1>1, MovePolite DEF Done, Prompting, Passed

LEMMA PromptLocks ==
    ASSUME TypeInv, LockInv, LockingWorks, NEW p \in Procs,
           AcquirePromptLock(p) \/ Ask(p) \/ confirmPlan(p) \/ discover(p) \/ Apply(p)
    PROVE  LockInv'
<1>1. UNCHANGED <<disk, stateLock>>
    BY DEF AcquirePromptLock, Ask, confirmPlan, discover, Apply
<1>2. proc[p] \in Process
    BY DEF TypeInv, TypeOK
<1>3. \A c \in Changes : Changing(proc[p], c).pc = "mutate" /\ Changing(proc[p], c).change = c
    BY <1>2 DEF Changing, Process
<1>4. Free(promptLock) /\ promptLock' = promptLock \cup {p} =>
        promptLock' = {p} /\ Passed(p, promptLock, promptLock')
    BY DEF Free, Passed
<1>5. ASSUME AcquirePromptLock(p)
      PROVE  LockInv'
    <2>1. [proc[p] EXCEPT !.pc = "ask"].pc = "ask"
        BY <1>2 DEF Process
    <2> QED
        BY <1>1, <1>4, <1>5, <2>1, MovePolite, DoneLocks DEF AcquirePromptLock, Goto
<1>6. ASSUME Ask(p)
      PROVE  LockInv'
    <2>1. promptLock = {p} /\ promptLock' = promptLock
        BY <1>6 DEF Ask, At, LockInv, PromptLockInv, Prompting
    <2> QED
        BY <1>1, <1>3, <1>6, <2>1, MovePolite DEF Ask, Passed, Changes
<1>7. ASSUME confirmPlan(p)
      PROVE  LockInv'
    <2>1. [proc[p] EXCEPT !.pc = "apply"].pc = "apply" /\ Idle.pc = "idle"
        BY <1>2 DEF Process, Idle
    <2> QED
        BY <1>1, <1>7, <2>1, MovePolite DEF confirmPlan, Goto, Passed, Prompting
<1>8. ASSUME discover(p)
      PROVE  LockInv'
    <2> DEFINE r == Changing([proc[p] EXCEPT !.target = newest[proc[p].channel]], "check_ok")
    <2>1. r.pc = "mutate" /\ r.change = "check_ok"
        BY <1>2 DEF Changing, Process
    <2>2. Become(p, r) \/ Become(p, Changing(proc[p], "check_failed"))
        BY <1>8 DEF discover
    <2>3. UNCHANGED promptLock
        BY <1>8 DEF discover
    <2> HIDE DEF r
    <2> QED
        BY <1>1, <1>3, <2>1, <2>2, <2>3, MovePolite DEF Passed, Prompting, Changes
<1>9. ASSUME Apply(p)
      PROVE  LockInv'
    BY <1>1, <1>3, <1>4, <1>9, MovePolite, DoneLocks DEF Apply, Changes
<1> QED
    BY <1>5, <1>6, <1>7, <1>8, <1>9

(* An update holds the prompt lock and its marker from fetch to finish.    *)
LEMMA UpdateLocks ==
    ASSUME TypeInv, LockInv, NEW p \in Procs,
           \/ Fetch(p) \/ copyExecutable(p) \/ WriteStaged(p) \/ swap(p) \/ swapIn(p)
           \/ delegate(p) \/ afterReplacement(p)
    PROVE  LockInv'
<1>1. UNCHANGED <<disk, stateLock, promptLock>>
    BY DEF Fetch, copyExecutable, WriteStaged, swap, swapIn, delegate, afterReplacement
<1>2. proc[p] \in Process
    BY DEF TypeInv, TypeOK
<1>3. Applying(p) /\ Prompting(proc[p])
    BY DEF Fetch, copyExecutable, WriteStaged, swap, swapIn, delegate, afterReplacement, At, Applying,
           Prompting
<1>4. promptLock = {p} /\ Passed(p, promptLock, promptLock')
    BY <1>1, <1>3 DEF LockInv, PromptLockInv, Passed
<1>5. ASSUME NEW r, Become(p, r), r.pc # "save"
      PROVE  LockInv'
    BY <1>1, <1>3, <1>4, <1>5, MovePolite
<1>6. ASSUME NEW ok \in BOOLEAN, Finish(p, ok)
      PROVE  LockInv'
    <2> DEFINE r == Changing([proc[p] EXCEPT !.ok = ok, !.out = "none", !.binary = Missing], "finish")
    <2>1. r.pc = "mutate"
        BY <1>2 DEF Changing, Process
    <2>2. Become(p, r)
        BY <1>6 DEF Finish
    <2> HIDE DEF r
    <2> QED
        BY <1>5, <2>1, <2>2
<1>7. ASSUME NEW s \in Steps \ {"save"}, Goto(p, s)
      PROVE  LockInv'
    <2>1. [proc[p] EXCEPT !.pc = s].pc = s
        BY <1>2 DEF Process
    <2> QED
        BY <1>5, <1>7, <2>1 DEF Goto
<1>8. ASSUME Installs(p)
      PROVE  LockInv'
    <2>1. /\ proc'[p].pc = "restart"
          /\ \A q \in Procs \ {p} : /\ proc'[q].pc = proc[q].pc /\ proc'[q].change = proc[q].change
                                    /\ proc'[q].copy = proc[q].copy
        BY <1>8 DEF Installs, TypeInv, TypeOK, Process
    <2>2. disk.owner = p
        BY <1>3 DEF LockInv, MarkerIsOwned
    <2>3. Polite(p)
        BY <1>1, <1>4, <2>1, <2>2 DEF Polite, Passed, At
    <2> QED
        BY <2>3, LockFrame
<1>9. \A b : [proc[p] EXCEPT !.pc = "stage", !.binary = b].pc = "stage"
    BY <1>2 DEF Process
<1>10. [proc[p] EXCEPT !.pc = "write", !.out = "staged"].pc = "write"
    BY <1>2 DEF Process
<1>11. [proc[p] EXCEPT !.pc = "swap", !.out = "none"].pc = "swap"
    BY <1>2 DEF Process
<1>12. ASSUME Fetch(p)
       PROVE  LockInv'
    BY <1>5, <1>6, <1>9, <1>12 DEF Fetch
<1>13. ASSUME copyExecutable(p)
       PROVE  LockInv'
    BY <1>5, <1>10, <1>13 DEF copyExecutable
<1>14. ASSUME WriteStaged(p)
       PROVE  LockInv'
    BY <1>5, <1>6, <1>11, <1>14 DEF WriteStaged
<1>15. ASSUME swap(p) \/ swapIn(p)
       PROVE  LockInv'
    BY <1>6, <1>7, <1>8, <1>15 DEF swap, swapIn, Steps
<1>16. ASSUME delegate(p) \/ afterReplacement(p)
       PROVE  LockInv'
    BY <1>6, <1>7, <1>16 DEF delegate, afterReplacement, Steps
<1> QED
    BY <1>12, <1>13, <1>14, <1>15, <1>16

LEMMA DieLocks ==
    ASSUME TypeInv, LockInv, NEW p \in Procs, Die(p)
    PROVE  LockInv'
<1>1. proc'[p].pc = "idle" /\ \A q \in Procs \ {p} : proc'[q] = proc[q]
    BY DEF Die, Done, Become, Idle, TypeInv, TypeOK
<1>2. Polite(p)
    BY <1>1 DEF Die, Done, Polite, Passed, Prompting, Applying, At
<1> QED
    BY <1>2, LockFrame

LEMMA TickLocks ==
    ASSUME TypeInv, LockInv, Tick
    PROVE  LockInv'
<1>1. \A q \in Procs : /\ proc'[q].pc = proc[q].pc /\ proc'[q].change = proc[q].change
                       /\ proc'[q].copy = Aged(proc[q].copy)
    BY DEF Tick, TypeInv, TypeOK, Process
<1>2. disk' = Aged(disk) /\ disk'.owner = disk.owner /\ UNCHANGED <<stateLock, promptLock>>
    BY AgedType DEF Tick, TypeInv, TypeOK
<1>3. StateLockInv'
    BY <1>1, <1>2 DEF LockInv, StateLockInv, At
<1>4. PromptLockInv'
    BY <1>1, <1>2 DEF LockInv, PromptLockInv, Prompting
<1>5. MarkerIsOwned'
    BY <1>1, <1>2 DEF LockInv, MarkerIsOwned, Applying
<1> QED
    BY <1>3, <1>4, <1>5 DEF LockInv

LEMMA LockStep ==
    ASSUME TypeInv, LockInv, LockingWorks, [Next]_vars
    PROVE  LockInv'
<1>1. ASSUME NEW p \in Procs, Step(p)
      PROVE  LockInv'
    BY <1>1, MutateLocks, SaveLocks, PromptLocks, UpdateLocks DEF Step
<1>2. CASE (\E c \in Channels, v \in Versions : Publish(c, v)) \/ UNCHANGED vars
    <2>1. UNCHANGED <<disk, stateLock, promptLock, proc>>
        BY <1>2 DEF Publish, vars
    <2> QED
        BY <2>1 DEF LockInv, StateLockInv, PromptLockInv, MarkerIsOwned, Prompting, Applying, At
<1> QED
    BY <1>1, <1>2, BeginLocks, DieLocks, TickLocks DEF Next

LEMMA LockInit == Init => LockInv
<1> SUFFICES ASSUME Init
             PROVE  LockInv
    OBVIOUS
<1>1. \A p \in Procs : proc[p].pc = "idle"
    BY DEF Init, Idle
<1> QED
    BY <1>1 DEF LockInv, StateLockInv, PromptLockInv, MarkerIsOwned, Prompting, Applying, At

(* Where files can be locked, the state file names the update that runs:   *)
(* no other process replaces or clears its marker (apply.go).              *)
THEOREM MarkerHolds ==
    ASSUME LockingWorks
    PROVE  Spec => []MarkerIsOwned
<1>1. TypeInv /\ LockInv /\ [Next]_vars => TypeInv' /\ LockInv'
    BY TypeStep, LockStep
<1>2. LockInv => MarkerIsOwned
    BY DEF LockInv
<1> QED
    BY <1>1, <1>2, TypeInit, LockInit, PTL DEF Spec

(* A step that changes the skipped version is a save of somebody who meant *)
(* to, made to the file as it still is.                                    *)
LEMMA AnswerStep ==
    ASSUME TypeInv, LockInv, [Next]_vars
    PROVE  SkipChangedOnPurpose
<1> SUFFICES ASSUME disk'.skipped # disk.skipped
             PROVE  SkipChangedOnPurpose
    BY DEF SkipChangedOnPurpose
<1>1. ~Tick
    BY AgedType DEF Tick, TypeInv, TypeOK
<1>2. PICK p \in Procs : Begin(p) \/ Step(p) \/ Die(p)
    BY <1>1 DEF Next, Publish, vars
<1>3. ~Begin(p) /\ ~Die(p)
    BY DEF Begin, runStartupCheck, BuildPlan, runSkip, runBackgroundCheck, runOnce, runCheckNow,
           Starts, Die
<1>4. Save(p)
    BY <1>2, <1>3 DEF Step, Mutate, AcquirePromptLock, Ask, confirmPlan, discover, Apply, Fetch,
                      copyExecutable, WriteStaged, swap, swapIn, delegate, afterReplacement
<1>5. At(p, "save") /\ proc[p].copy = disk /\ disk \in UpdateState /\ proc[p] \in Process
    BY <1>4 DEF Save, LockInv, StateLockInv, TypeInv, TypeOK
<1>6. disk' = Changed(p, disk)
    BY <1>4, <1>5 DEF Save
<1> QED
    BY <1>5, <1>6, ChangedType DEF SkipChangedOnPurpose

(* Where files can be locked, no answer of the user is lost: the skipped   *)
(* version changes only by a skip, an unskip, or a check that found        *)
(* something newer than the version skipped at that moment (state.go).     *)
THEOREM AnswersHold ==
    ASSUME LockingWorks
    PROVE  Spec => AnswersKept
<1>1. TypeInv /\ LockInv /\ [Next]_vars => TypeInv' /\ LockInv'
    BY TypeStep, LockStep
<1>2. TypeInv /\ LockInv /\ [Next]_vars => [SkipChangedOnPurpose]_vars
    BY AnswerStep
<1> QED
    BY <1>1, <1>2, TypeInit, LockInit, PTL DEF Spec, AnswersKept

-----------------------------------------------------------------------------
(* The executable *)

(* What a step of p leaves alone in the other processes.                   *)
Aloof(p) ==
    \A q \in Procs \ {p} : /\ proc'[q].pc = proc[q].pc /\ proc'[q].change = proc[q].change
                           /\ proc'[q].target = proc[q].target /\ proc'[q].binary = proc[q].binary
                           /\ proc'[q].out = proc[q].out

LEMMA BecomeAloof ==
    ASSUME TypeInv, NEW p \in Procs, NEW r, Become(p, r)
    PROVE  proc'[p] = r /\ Aloof(p)
BY DEF Become, TypeInv, TypeOK, Aloof

(* Only who holds the prompt lock may touch the staging file.              *)
LEMMA HandsFrame ==
    ASSUME LockInv, FileInv, NEW p \in Procs, Aloof(p),
           staged' # staged => Prompting(proc[p]),
           PathInv', HandsOK(proc[p])'
    PROVE  FileInv'
<1>1. ASSUME NEW q \in Procs \ {p}, proc[q].pc \in {"swap", "swap_in"}
      PROVE  staged' = staged
    BY <1>1 DEF LockInv, PromptLockInv, Prompting
<1>2. \A q \in Procs \ {p} : HandsOK(proc[q])'
    BY <1>1 DEF FileInv, HandsOK, Aloof
<1> QED
    BY <1>2 DEF FileInv

(* A step that leaves the path alone.                                      *)
LEMMA PathKept ==
    ASSUME PathInv, NEW p \in Procs, Aloof(p), UNCHANGED exe, exe \in Published \/ UNCHANGED aside,
           proc[p].pc # "swap_in", proc'[p].pc # "swap_in",
           exe = Missing /\ Checking(proc[p]) => Checking(proc'[p])
    PROVE  PathInv'
<1>1. exe \in Published => exe # Missing
    BY FileTypes
<1>2. \A q \in Procs : proc'[q].pc = "swap_in" <=> proc[q].pc = "swap_in"
    BY DEF Aloof
<1>3. (\A q \in Procs : Checking(proc[q])) /\ exe = Missing => \A q \in Procs : Checking(proc'[q])
    BY DEF Aloof, Checking
<1>4. exe' \in Published \/ (Windows /\ exe' = Missing /\ aside' \in Published)
    BY <1>1 DEF PathInv
<1>5. \A q \in Procs : proc'[q].pc = "swap_in" => exe' = Missing
    BY <1>2 DEF PathInv, At
<1>6. exe' = Missing => \/ \E q \in Procs : proc'[q].pc = "swap_in"
                        \/ \A q \in Procs : Checking(proc'[q])
    BY <1>2, <1>3 DEF PathInv, At
<1> QED
    BY <1>4, <1>5, <1>6 DEF PathInv, At, Checking

(* Whoever holds the prompt lock and is not between the renames finds a    *)
(* build at the path.                                                      *)
LEMMA PathFilled ==
    ASSUME LockInv, FileInv, NEW p \in Procs, Prompting(proc[p])
    PROVE  /\ \A q \in Procs \ {p} : ~Prompting(proc[q]) /\ proc[q].pc # "swap_in"
           /\ proc[p].pc # "swap_in" => exe \in Published
<1>1. \A q \in Procs \ {p} : ~Prompting(proc[q])
    BY DEF LockInv, PromptLockInv
<1>2. \A q \in Procs \ {p} : proc[q].pc # "swap_in"
    BY <1>1 DEF Prompting
<1>3. ~Checking(proc[p])
    BY DEF Prompting, Checking
<1> QED
    BY <1>1, <1>2, <1>3 DEF FileInv, PathInv, At

(* A step that leaves a build at the path.                                 *)
LEMMA PathMended ==
    ASSUME NEW p \in Procs, Aloof(p), \A q \in Procs \ {p} : proc[q].pc # "swap_in",
           exe' \in Published, proc'[p].pc # "swap_in"
    PROVE  PathInv'
<1>1. exe' # Missing
    BY FileTypes
<1>2. \A q \in Procs : proc'[q].pc # "swap_in"
    BY DEF Aloof
<1> QED
    BY <1>1, <1>2 DEF PathInv, At

(* Becoming something that has nothing in hand, with the path left alone.  *)
LEMMA EmptyHands ==
    ASSUME TypeInv, LockInv, FileInv, NEW p \in Procs, NEW r, Become(p, r),
           UNCHANGED exe, exe \in Published \/ UNCHANGED aside,
           staged' # staged => Prompting(proc[p]),
           proc[p].pc # "swap_in", exe = Missing /\ Checking(proc[p]) => Checking(r),
           r.pc \notin {"stage", "write", "swap", "swap_in"}, r.out = "none"
    PROVE  FileInv'
<1>1. proc'[p] = r /\ Aloof(p)
    BY BecomeAloof
<1>2. HandsOK(proc[p])'
    BY <1>1 DEF HandsOK
<1>3. PathInv'
    BY <1>1, PathKept DEF FileInv
<1> QED
    BY <1>1, <1>2, <1>3, HandsFrame

LEMMA NothingInHand ==
    ASSUME TypeInv, FileInv, NEW p \in Procs, proc[p].pc # "write"
    PROVE  /\ \A s \in Steps : /\ [proc[p] EXCEPT !.pc = s].pc = s
                               /\ [proc[p] EXCEPT !.pc = s].out = "none"
           /\ \A c : /\ Changing(proc[p], c).pc = "mutate" /\ Changing(proc[p], c).change = c
                     /\ Changing(proc[p], c).out = "none"
           /\ Idle.pc = "idle" /\ Idle.out = "none"
<1>1. proc[p] \in Process /\ proc[p].out = "none"
    BY DEF FileInv, HandsOK, TypeInv, TypeOK
<1> QED
    BY <1>1 DEF Process, Changing, Idle

LEMMA BeginFiles ==
    ASSUME TypeInv, LockInv, FileInv, NEW p \in Procs, Begin(p)
    PROVE  FileInv'
<1>1. /\ UNCHANGED <<exe, staged>> /\ proc[p].pc # "swap_in"
      /\ exe \in Published \/ UNCHANGED aside
      /\ exe \in Published => exe # Missing
    BY BeginShape, FileTypes
<1>2. CASE UNCHANGED proc
    BY <1>1, <1>2 DEF FileInv, PathInv, HandsOK, At, Checking
<1>3. ASSUME NEW r, Become(p, r), r.out = "none", exe \in Published \/ r.pc = "discover",
             r.pc \in {"lock", "confirm", "apply", "discover", "mutate"}
      PROVE  FileInv'
    <2>1. exe = Missing => Checking(r)
        BY <1>1, <1>3 DEF Checking
    <2> QED
        BY <1>1, <1>3, <2>1, EmptyHands
<1> QED
    BY <1>2, <1>3, BeginShape

(* The steps before and after an update touch no file.                     *)
LEMMA OtherFiles ==
    ASSUME TypeInv, LockInv, FileInv, NEW p \in Procs,
           \/ Mutate(p) \/ Save(p) \/ AcquirePromptLock(p) \/ Ask(p) \/ confirmPlan(p) \/ discover(p)
           \/ Apply(p)
    PROVE  FileInv'
<1>1. UNCHANGED <<exe, staged, aside>>
    BY DEF Mutate, Save, AcquirePromptLock, Ask, confirmPlan, discover, Apply, files
<1>2. proc[p].pc \notin {"write", "swap_in"}
    BY DEF Mutate, Save, AcquirePromptLock, Ask, confirmPlan, discover, Apply, At
<1>3. proc[p] \in Process /\ proc[p].out = "none"
    BY <1>2 DEF FileInv, HandsOK, TypeInv, TypeOK
<1>4. ASSUME Become(p, Idle)
      PROVE  FileInv'
    <2>1. Idle.pc = "idle" /\ Idle.out = "none" /\ Checking(Idle)
        BY DEF Idle, Checking
    <2> QED
        BY <1>1, <1>2, <1>4, <2>1, EmptyHands
<1>5. ASSUME NEW c, ~Checking(proc[p]) \/ c = "check_failed", Become(p, Changing(proc[p], c))
      PROVE  FileInv'
    <2>1. /\ Changing(proc[p], c).pc = "mutate" /\ Changing(proc[p], c).change = c
          /\ Changing(proc[p], c).out = "none"
        BY <1>2, NothingInHand
    <2>2. Checking(proc[p]) => Checking(Changing(proc[p], c))
        BY <1>5, <2>1 DEF Checking
    <2> QED
        BY <1>1, <1>2, <1>5, <2>1, <2>2, EmptyHands
<1>6. ASSUME NEW s \in Steps \ {"stage", "write", "swap", "swap_in"}, ~Checking(proc[p]), Goto(p, s)
      PROVE  FileInv'
    BY ZenonT(60), <1>1, <1>2, <1>6, NothingInHand, EmptyHands DEF Goto
<1>7. ASSUME NEW w \in BOOLEAN, proc[p].pc \in {"mutate", "save"}, AfterMutate(p, w)
      PROVE  FileInv'
    <2>1. proc[p].change \in {"update", "mark"} => ~Checking(proc[p])
        BY <1>7 DEF Checking
    <2> QED
        BY <1>4, <1>5, <1>6, <1>7, <2>1 DEF AfterMutate, Done, Steps
<1>8. CASE Mutate(p)
    <2>1. CASE Become(p, [proc[p] EXCEPT !.pc = "save", !.copy = disk])
        <3> DEFINE r == [proc[p] EXCEPT !.pc = "save", !.copy = disk]
        <3>1. r.pc = "save" /\ r.out = "none" /\ r.change = proc[p].change
            BY <1>3 DEF Process
        <3>2. Become(p, r)
            BY <2>1
        <3> HIDE DEF r
        <3>3. Checking(proc[p]) => Checking(r)
            BY <1>8, <3>1 DEF Checking, Mutate, At
        <3> QED
            BY <1>1, <1>2, <3>1, <3>2, <3>3, EmptyHands
    <2> QED
        BY <1>7, <1>8, <2>1 DEF Mutate, At
<1>9. CASE Save(p)
    BY <1>7, <1>9 DEF Save, At
<1>10. CASE AcquirePromptLock(p) \/ Ask(p) \/ confirmPlan(p) \/ Apply(p)
    <2>1. ~Checking(proc[p])
        BY <1>10 DEF AcquirePromptLock, Ask, confirmPlan, Apply, At, Checking
    <2> QED
        BY <1>4, <1>5, <1>6, <1>10, <2>1 DEF AcquirePromptLock, Ask, confirmPlan, Apply, Done, Steps
<1>11. CASE discover(p)
    <2> DEFINE r == Changing([proc[p] EXCEPT !.target = newest[proc[p].channel]], "check_ok")
    <2>1. r.pc = "mutate" /\ r.out = "none" /\ r.change = "check_ok"
        BY <1>3 DEF Changing, Process
    <2>2. Become(p, r) \/ Become(p, Changing(proc[p], "check_failed"))
        BY <1>11 DEF discover
    <2> HIDE DEF r
    <2>3. Checking(r)
        BY <2>1 DEF Checking
    <2> QED
        BY <1>1, <1>2, <1>5, <2>1, <2>2, <2>3, EmptyHands
<1> QED
    BY <1>8, <1>9, <1>10, <1>11

(* A process that dies has nothing in hand any more; between the renames   *)
(* it leaves the path empty.                                               *)
LEMMA DieFiles ==
    ASSUME TypeInv, LockInv, FileInv, Windows /\ Crashes => Alone, NEW p \in Procs, Die(p)
    PROVE  FileInv'
<1>1. UNCHANGED <<exe, staged, aside>> /\ Become(p, Idle)
    BY DEF Die, Done, files
<1>2. Idle.pc = "idle" /\ Idle.out = "none" /\ Checking(Idle)
    BY DEF Idle, Checking
<1>3. CASE proc[p].pc # "swap_in"
    BY <1>1, <1>2, <1>3, EmptyHands
<1>4. CASE proc[p].pc = "swap_in"
    <2>1. exe = Missing /\ Windows /\ aside \in Published
        BY <1>4, FileTypes DEF FileInv, PathInv, At
    <2>2. \A q \in Procs : q = p
        BY <2>1 DEF Die, Alone
    <2>3. proc'[p] = Idle /\ Aloof(p)
        BY <1>1, BecomeAloof
    <2>4. \A q \in Procs : Checking(proc'[q]) /\ proc'[q].pc # "swap_in"
        BY <1>2, <2>2, <2>3
    <2>5. PathInv'
        BY <1>1, <2>1, <2>4 DEF PathInv, At, Checking
    <2>6. HandsOK(proc[p])'
        BY <1>2, <2>3 DEF HandsOK
    <2> QED
        BY <1>1, <2>3, <2>5, <2>6, HandsFrame
<1> QED
    BY <1>3, <1>4

(* Replacing the executable: the staging file takes the path.              *)
LEMMA InstallsFiles ==
    ASSUME TypeInv, LockInv, FileInv, NEW p \in Procs, Prompting(proc[p]),
           proc[p].pc \in {"swap", "swap_in"}, Installs(p)
    PROVE  FileInv' /\ Aloof(p) /\ proc'[p].pc = "restart"
<1>1. proc[p] \in Process /\ proc[p].target \in Versions /\ staged = Build(proc[p].target)
    BY SoundNow DEF Sound, TargetOK, FileInv, HandsOK
<1>2. ASSUME NEW q \in Procs \ {p}
      PROVE  proc[q].out = "none" /\ proc[q].pc # "swap_in"
    <2>1. ~Prompting(proc[q]) /\ proc[q].pc # "swap_in"
        BY PathFilled
    <2> QED
        BY <2>1 DEF FileInv, HandsOK, Prompting
<1>3. ASSUME NEW q \in Procs \ {p}
      PROVE  proc'[q] = [proc[q] EXCEPT !.out = "none"]
    BY <1>2 DEF Installs
<1>4. Aloof(p)
    BY <1>2, <1>3 DEF Aloof, TypeInv, TypeOK, Process
<1>5. proc'[p].pc = "restart" /\ proc'[p].out = "none" /\ exe' = staged
    BY <1>1 DEF Installs, Process
<1>6. exe' \in Published
    BY <1>1, <1>5, FileTypes
<1>7. HandsOK(proc[p])'
    BY <1>5 DEF HandsOK
<1>8. PathInv'
    BY <1>2, <1>4, <1>5, <1>6, PathMended
<1> QED
    BY <1>4, <1>5, <1>7, <1>8, HandsFrame

LEMMA UpdateFiles ==
    ASSUME TypeInv, LockInv, FileInv, NEW p \in Procs,
           \/ Fetch(p) \/ copyExecutable(p) \/ WriteStaged(p) \/ swap(p)
           \/ delegate(p) \/ afterReplacement(p)
    PROVE  FileInv'
<1>1. Prompting(proc[p]) /\ proc[p].pc # "swap_in" /\ ~Checking(proc[p])
    BY DEF Fetch, copyExecutable, WriteStaged, swap, delegate, afterReplacement, At,
           Prompting, Checking
<1>2. /\ proc[p] \in Process /\ proc[p].target \in Versions /\ HandsOK(proc[p])
      /\ exe \in Published /\ \A q \in Procs \ {p} : proc[q].pc # "swap_in"
    BY <1>1, SoundNow, PathFilled
       DEF Sound, TargetOK, At, Fetch, copyExecutable, WriteStaged, swap, delegate,
           afterReplacement, FileInv
<1>3. ASSUME NEW r, Become(p, r), UNCHANGED exe, HandsOK(proc[p])', r.pc # "swap_in"
      PROVE  FileInv'
    <2>1. proc'[p] = r /\ Aloof(p)
        BY <1>3, BecomeAloof
    <2>2. PathInv'
        BY <1>2, <1>3, <2>1, PathMended
    <2> QED
        BY <1>1, <1>3, <2>1, <2>2, HandsFrame
<1>4. ASSUME NEW ok \in BOOLEAN, Finish(p, ok), UNCHANGED exe
      PROVE  FileInv'
    <2> DEFINE r == Changing([proc[p] EXCEPT !.ok = ok, !.out = "none", !.binary = Missing], "finish")
    <2>1. r.pc = "mutate" /\ r.out = "none"
        BY <1>2 DEF Changing, Process
    <2>2. Become(p, r)
        BY <1>4 DEF Finish
    <2> HIDE DEF r
    <2>3. proc'[p] = r
        BY <2>2, BecomeAloof
    <2>4. HandsOK(proc[p])'
        BY <2>1, <2>3 DEF HandsOK
    <2> QED
        BY <1>3, <1>4, <2>1, <2>2, <2>4
<1>5. ASSUME Fetch(p)
      PROVE  FileInv'
    <2>1. CASE \E d \in Downloads : /\ Verified(d, proc[p].target)
                                    /\ Become(p, [proc[p] EXCEPT !.pc = "stage", !.binary = d.archive])
        <3>1. PICK d \in Downloads : /\ Verified(d, proc[p].target)
                                     /\ Become(p, [proc[p] EXCEPT !.pc = "stage", !.binary = d.archive])
            BY <2>1
        <3> DEFINE r == [proc[p] EXCEPT !.pc = "stage", !.binary = d.archive]
        <3>2. d.archive = Build(proc[p].target)
            BY <3>1 DEF Verified
        <3>3. proc[p].out = "none"
            BY <1>2, <1>5 DEF HandsOK, Fetch, At
        <3>4. /\ r.pc = "stage" /\ r.binary = d.archive /\ r.out = "none"
              /\ r.target = proc[p].target
            BY <1>2, <3>3 DEF Process
        <3>5. Become(p, r)
            BY <3>1
        <3> HIDE DEF r
        <3>6. proc'[p] = r
            BY <3>5, BecomeAloof
        <3>7. HandsOK(proc[p])'
            BY <3>2, <3>4, <3>6 DEF HandsOK
        <3> QED
            BY <1>3, <1>5, <3>4, <3>5, <3>7 DEF Fetch, files
    <2> QED
        BY <1>4, <1>5, <2>1 DEF Fetch, files
<1>6. ASSUME copyExecutable(p)
      PROVE  FileInv'
    <2> DEFINE r == [proc[p] EXCEPT !.pc = "write", !.out = "staged"]
    <2>1. /\ r.pc = "write" /\ r.binary = proc[p].binary /\ r.out = "staged"
          /\ r.target = proc[p].target
        BY <1>2 DEF Process
    <2>2. Become(p, r)
        BY <1>6 DEF copyExecutable
    <2> HIDE DEF r
    <2>3. proc'[p] = r
        BY <2>2, BecomeAloof
    <2>4. HandsOK(proc[p])'
        BY <1>2, <1>6, <2>1, <2>3 DEF HandsOK, copyExecutable, At
    <2> QED
        BY <1>3, <1>6, <2>1, <2>2, <2>4 DEF copyExecutable
<1>7. ASSUME WriteStaged(p)
      PROVE  FileInv'
    <2> DEFINE r == [proc[p] EXCEPT !.pc = "swap", !.out = "none"]
    <2>1. proc[p].out = "staged" /\ proc[p].binary = Build(proc[p].target)
        BY <1>2, <1>7 DEF HandsOK, WriteStaged, At
    <2>2. CASE /\ staged' = IF proc[p].out = "staged" THEN proc[p].binary ELSE staged
               /\ exe' = IF proc[p].out = "target" THEN proc[p].binary ELSE exe
               /\ Become(p, [proc[p] EXCEPT !.pc = "swap", !.out = "none"])
        <3>1. r.pc = "swap" /\ r.out = "none" /\ r.target = proc[p].target
            BY <1>2 DEF Process
        <3>2. exe' = exe /\ staged' = proc[p].binary /\ Become(p, r)
            BY <2>1, <2>2
        <3> HIDE DEF r
        <3>3. proc'[p] = r
            BY <3>2, BecomeAloof
        <3>4. HandsOK(proc[p])'
            BY <2>1, <3>1, <3>2, <3>3 DEF HandsOK
        <3> QED
            BY <1>3, <3>1, <3>2, <3>4
    <2> QED
        BY <1>4, <1>7, <2>2 DEF WriteStaged
<1>8. ASSUME swap(p)
      PROVE  FileInv'
    <2>1. CASE Installs(p)
        BY <1>1, <1>8, <2>1, InstallsFiles DEF swap, At
    <2>2. CASE Windows /\ aside' = exe /\ exe' = Missing /\ Goto(p, "swap_in") /\ UNCHANGED staged
        <3> DEFINE r == [proc[p] EXCEPT !.pc = "swap_in"]
        <3>1. r.pc = "swap_in" /\ r.out = "none" /\ r.target = proc[p].target
            BY <1>2, <1>8 DEF Process, HandsOK, swap, At
        <3>2. Become(p, r)
            BY <2>2 DEF Goto
        <3> HIDE DEF r
        <3>3. proc'[p] = r /\ Aloof(p)
            BY <3>2, BecomeAloof
        <3>4. HandsOK(proc[p])'
            BY <1>2, <1>8, <2>2, <3>1, <3>3 DEF HandsOK, swap, At
        <3>5. PathInv'
            BY <1>2, <2>2, <3>1, <3>3 DEF PathInv, At
        <3> QED
            BY <2>2, <3>3, <3>4, <3>5, HandsFrame
    <2> QED
        BY <1>4, <1>8, <2>1, <2>2 DEF swap
<1>9. ASSUME delegate(p)
      PROVE  FileInv'
    <2>1. CASE exe' = Build(newest["stable"]) /\ Goto(p, "restart")
        <3> DEFINE r == [proc[p] EXCEPT !.pc = "restart"]
        <3>1. exe' \in Published
            BY <2>1, FileTypes, UpdaterAssumption DEF TypeInv, TypeOK
        <3>2. proc[p].out = "none"
            BY <1>2, <1>9 DEF HandsOK, delegate, At
        <3>3. r.pc = "restart" /\ r.out = "none"
            BY <1>2, <3>2 DEF Process
        <3>4. Become(p, r)
            BY <2>1 DEF Goto
        <3> HIDE DEF r
        <3>5. proc'[p] = r /\ Aloof(p)
            BY <3>4, BecomeAloof
        <3>6. HandsOK(proc[p])'
            BY <3>3, <3>5 DEF HandsOK
        <3>7. PathInv'
            BY <1>2, <3>1, <3>3, <3>5, PathMended
        <3> QED
            BY <1>9, <3>5, <3>6, <3>7, HandsFrame DEF delegate
    <2> QED
        BY <1>4, <1>9, <2>1 DEF delegate
<1>10. ASSUME afterReplacement(p)
       PROVE  FileInv'
    BY <1>4, <1>10 DEF afterReplacement, files
<1> QED
    BY <1>5, <1>6, <1>7, <1>8, <1>9, <1>10

(* The second rename, or the first one undone: a build is at the path.     *)
LEMMA SwapInFiles ==
    ASSUME TypeInv, LockInv, FileInv, NEW p \in Procs, swapIn(p)
    PROVE  FileInv'
<1>1. proc[p].pc = "swap_in" /\ Prompting(proc[p]) /\ proc[p] \in Process
    BY DEF swapIn, At, Prompting, TypeInv, TypeOK
<1>2. exe = Missing /\ aside \in Published /\ \A q \in Procs \ {p} : proc[q].pc # "swap_in"
    BY <1>1, PathFilled, FileTypes DEF FileInv, PathInv, At
<1>3. CASE Installs(p)
    BY <1>1, <1>3, InstallsFiles
<1>4. CASE exe' = aside /\ Finish(p, FALSE)
    <2> DEFINE r == Changing([proc[p] EXCEPT !.ok = FALSE, !.out = "none", !.binary = Missing], "finish")
    <2>1. r.pc = "mutate" /\ r.out = "none"
        BY <1>1 DEF Changing, Process
    <2>2. Become(p, r)
        BY <1>4 DEF Finish
    <2> HIDE DEF r
    <2>3. proc'[p] = r /\ Aloof(p)
        BY <2>2, BecomeAloof
    <2>4. HandsOK(proc[p])'
        BY <2>1, <2>3 DEF HandsOK
    <2>5. PathInv'
        BY <1>2, <1>4, <2>1, <2>3, PathMended
    <2> QED
        BY <1>1, <2>3, <2>4, <2>5, HandsFrame
<1> QED
    BY <1>3, <1>4 DEF swapIn

LEMMA FileStep ==
    ASSUME TypeInv, LockInv, FileInv, Windows /\ Crashes => Alone, [Next]_vars
    PROVE  FileInv'
<1>1. ASSUME NEW p \in Procs, Step(p)
      PROVE  FileInv'
    BY <1>1, OtherFiles, UpdateFiles, SwapInFiles DEF Step
<1>2. ASSUME NEW p \in Procs, Die(p)
      PROVE  FileInv'
    BY <1>2, DieFiles
<1>3. ASSUME UNCHANGED <<exe, staged, aside>>,
             \A q \in Procs : /\ proc'[q].pc = proc[q].pc /\ proc'[q].change = proc[q].change
                              /\ proc'[q].target = proc[q].target /\ proc'[q].out = proc[q].out
                              /\ proc'[q].binary = proc[q].binary
      PROVE  FileInv'
    BY <1>3 DEF FileInv, PathInv, HandsOK, At, Checking
<1>4. CASE (\E c \in Channels, v \in Versions : Publish(c, v)) \/ UNCHANGED vars
    <2>1. UNCHANGED <<exe, staged, aside, proc>>
        BY <1>4 DEF Publish, vars, files
    <2> QED
        BY <1>3, <2>1
<1>5. CASE Tick
    <2>1. \A q \in Procs : /\ proc'[q].pc = proc[q].pc /\ proc'[q].change = proc[q].change
                           /\ proc'[q].target = proc[q].target /\ proc'[q].out = proc[q].out
                           /\ proc'[q].binary = proc[q].binary
        BY <1>5 DEF Tick, TypeInv, TypeOK, Process
    <2> QED
        BY <1>3, <1>5, <2>1 DEF Tick, files
<1> QED
    BY <1>1, <1>2, <1>4, <1>5, BeginFiles DEF Next

LEMMA FileInit == Init => FileInv
<1> SUFFICES ASSUME Init
             PROVE  FileInv
    OBVIOUS
<1>1. exe \in Published /\ exe # Missing
    BY FileTypes DEF Init
<1>2. \A p \in Procs : proc[p].pc = "idle" /\ proc[p].out = "none"
    BY DEF Init, Idle
<1> QED
    BY <1>1, <1>2 DEF FileInv, PathInv, HandsOK, At

(* Where files can be locked and a running executable can be renamed over, *)
(* the executable's path names a complete, published build at every step   *)
(* of any number of updates, failed and crashed ones included.             *)
THEOREM ExecutableHolds ==
    ASSUME LockingWorks, ~Windows
    PROVE  Spec => []ExecutableIsWhole
<1>1. TypeInv /\ LockInv /\ FileInv /\ [Next]_vars => TypeInv' /\ LockInv' /\ FileInv'
    BY TypeStep, LockStep, FileStep
<1>2. FileInv => ExecutableIsWhole
    BY DEF FileInv, PathInv, ExecutableIsWhole
<1> QED
    BY <1>1, <1>2, TypeInit, LockInit, FileInit, PTL DEF Spec

(* On every platform a build is at the path or, between the renames of a   *)
(* Windows swap and after a crash there, beside it; an update that lives   *)
(* on leaves one at the path.  The hypothesis excludes one case: on        *)
(* Windows, a second update that finds the path empty after a crash drops  *)
(* the build beside it before its own rename, which may then fail.         *)
THEOREM SurvivesHolds ==
    ASSUME LockingWorks, Windows /\ Crashes => Alone
    PROVE  Spec => []ExecutableSurvives
<1>1. TypeInv /\ LockInv /\ FileInv /\ [Next]_vars => TypeInv' /\ LockInv' /\ FileInv'
    BY TypeStep, LockStep, FileStep
<1>2. ASSUME LockInv, FileInv
      PROVE  ExecutableSurvives
    <2>1. exe \in Published \/ (exe = Missing /\ aside \in Published)
        BY <1>2 DEF FileInv, PathInv
    <2>2. ASSUME NEW p \in Procs, Applying(p), ~At(p, "swap_in")
          PROVE  exe \in Published
        <3>1. Prompting(proc[p])
            BY <2>2 DEF Applying, Prompting
        <3> QED
            BY <1>2, <2>2, <3>1, PathFilled DEF At
    <2> QED
        BY <2>1, <2>2 DEF ExecutableSurvives
<1> QED
    BY <1>1, <1>2, TypeInit, LockInit, FileInit, PTL DEF Spec

-----------------------------------------------------------------------------
(* One process at a time *)

(* On the way to an update, to the answer of a prompt, to the record of a  *)
(* check that found something.                                             *)
Planned(r) ==
    \/ r.pc \in {"lock", "ask", "confirm", "apply", "fetch", "stage", "write", "swap", "swap_in"}
    \/ r.pc \in {"mutate", "save"} /\ r.change \in {"update", "mark"}

Offered(r) ==
    \/ r.pc \in {"lock", "ask"}
    \/ r.pc \in {"mutate", "save"} /\ r.change \in {"update", "not_now", "skip_this"}

Found(r) == r.pc \in {"mutate", "save"} /\ r.change = "check_ok"

Skipping(r) == r.pc \in {"mutate", "save"} /\ r.change = "skip"

(* How a step leads from r to s: nobody gets into any of these but from    *)
(* it, with what it is about unchanged, or by looking for a release.       *)
Leads(r, s) ==
    /\ s.pc # "lock"
    /\ Planned(s) => Planned(r) /\ s.told = r.told /\ s.target = r.target
    /\ Offered(s) => Offered(r) /\ s.target = r.target
    /\ Found(s) => \/ Found(r) /\ s.target = r.target
                   \/ r.pc = "discover" /\ s.target = newest[r.channel]
    /\ Skipping(s) => Skipping(r)
    /\ s.pc = "delegate" => Delegated

LEMMA LeadsNowhere ==
    ASSUME NEW r, NEW s, s.pc \in {"idle", "restart"} \/ (s.pc = "mutate" /\ s.change = "finish")
    PROVE  Leads(r, s)
BY DEF Leads, Planned, Offered, Found, Skipping

LEMMA LeadsOn ==
    ASSUME NEW r, NEW s, s.told = r.told, s.target = r.target, s.pc # "lock",
           \/ Planned(r) /\ s.pc \in {"confirm", "apply", "fetch", "stage", "write", "swap", "swap_in"}
           \/ Planned(r) /\ s.pc = "mutate" /\ s.change = "mark"
           \/ Delegated /\ s.pc = "delegate"
           \/ s.pc = "mutate" /\ s.change = "check_failed"
           \/ r.pc = "lock" /\ s.pc = "ask"
           \/ r.pc = "ask" /\ s.pc = "mutate" /\ s.change \in {"update", "not_now", "skip_this"}
           \/ r.pc = "mutate" /\ s.pc = "save" /\ s.change = r.change
    PROVE  Leads(r, s)
BY DEF Leads, Planned, Offered, Found, Skipping

LEMMA Onward ==
    ASSUME TypeInv, NEW p \in Procs, Step(p)
    PROVE  Leads(proc[p], proc'[p])
<1> DEFINE r == proc[p]
<1>1. r \in Process
    BY DEF TypeInv, TypeOK
<1>2. \A s : Become(p, s) => proc'[p] = s
    BY DEF Become, TypeInv, TypeOK
<1>3. ASSUME Become(p, Idle)
      PROVE  Leads(r, proc'[p])
    BY <1>2, <1>3, LeadsNowhere DEF Idle
<1>4. ASSUME NEW ok \in BOOLEAN, Finish(p, ok)
      PROVE  Leads(r, proc'[p])
    <2> DEFINE s == Changing([r EXCEPT !.ok = ok, !.out = "none", !.binary = Missing], "finish")
    <2>1. s.pc = "mutate" /\ s.change = "finish"
        BY <1>1 DEF Changing, Process
    <2>2. proc'[p] = s
        BY <1>2, <1>4 DEF Finish
    <2> HIDE DEF s
    <2> QED
        BY <2>1, <2>2, LeadsNowhere
<1>5. ASSUME NEW c, Become(p, Changing(r, c))
      PROVE  /\ proc'[p].pc = "mutate" /\ proc'[p].change = c
             /\ proc'[p].told = r.told /\ proc'[p].target = r.target
    BY ZenonT(60), <1>1, <1>2, <1>5 DEF Changing, Process
<1>6. ASSUME NEW to \in Steps, Goto(p, to)
      PROVE  proc'[p].pc = to /\ proc'[p].told = r.told /\ proc'[p].target = r.target
    BY <1>1, <1>2, <1>6 DEF Goto, Process
<1>7. ASSUME NEW w \in BOOLEAN, r.pc \in {"mutate", "save"}, AfterMutate(p, w)
      PROVE  Leads(r, proc'[p])
    <2>1. CASE r.change = "update" /\ Become(p, Changing(r, "mark"))
        <3>1. Planned(r)
            BY <1>7, <2>1 DEF Planned
        <3> QED
            BY <1>5, <2>1, <3>1, LeadsOn
    <2>2. CASE r.change = "mark" /\ Goto(p, IF Delegated THEN "delegate" ELSE "fetch")
        <3>1. Planned(r)
            BY <1>7, <2>2 DEF Planned
        <3>2. /\ proc'[p].pc = IF Delegated THEN "delegate" ELSE "fetch"
              /\ proc'[p].told = r.told /\ proc'[p].target = r.target
            BY <1>6, <2>2 DEF Steps
        <3> QED
            BY <3>1, <3>2, LeadsOn
    <2> QED
        BY <1>3, <1>7, <2>1, <2>2 DEF AfterMutate, Done
<1>8. CASE Mutate(p)
    <2>1. CASE Become(p, [r EXCEPT !.pc = "save", !.copy = disk])
        <3>1. /\ proc'[p].pc = "save" /\ proc'[p].change = r.change
              /\ proc'[p].told = r.told /\ proc'[p].target = r.target
            BY ZenonT(60), <1>1, <1>2, <2>1 DEF Process
        <3> QED
            BY <1>8, <3>1, LeadsOn DEF Mutate, At
    <2> QED
        BY <1>7, <1>8, <2>1 DEF Mutate, At
<1>9. CASE Save(p)
    BY <1>7, <1>9 DEF Save, At
<1>10. CASE AcquirePromptLock(p)
    BY <1>3, <1>6, <1>10, LeadsOn DEF AcquirePromptLock, At, Done, Steps
<1>11. CASE Ask(p)
    BY <1>5, <1>11, LeadsOn DEF Ask, At
<1>12. CASE confirmPlan(p)
    BY <1>3, <1>6, <1>12, LeadsOn DEF confirmPlan, At, Steps, Planned
<1>13. CASE discover(p)
    <2>1. CASE Become(p, Changing([r EXCEPT !.target = newest[r.channel]], "check_ok"))
        <3>1. /\ proc'[p].pc = "mutate" /\ proc'[p].change = "check_ok"
              /\ proc'[p].target = newest[r.channel]
            BY <1>1, <1>2, <2>1 DEF Changing, Process
        <3> QED
            BY <1>13, <3>1 DEF Leads, Planned, Offered, Found, Skipping, discover, At
    <2> QED
        BY <1>5, <1>13, <2>1, LeadsOn DEF discover
<1>14. CASE Apply(p)
    BY <1>3, <1>5, <1>14, LeadsOn DEF Apply, At, Done, Planned
<1>15. CASE Fetch(p) \/ copyExecutable(p) \/ WriteStaged(p)
    <2>1. Planned(r)
        BY <1>15 DEF Fetch, copyExecutable, WriteStaged, At, Planned
    <2>2. ASSUME NEW d, Become(p, [r EXCEPT !.pc = "stage", !.binary = d.archive])
          PROVE  Leads(r, proc'[p])
        <3>1. proc'[p].pc = "stage" /\ proc'[p].told = r.told /\ proc'[p].target = r.target
            BY ZenonT(60), <1>1, <1>2, <2>2 DEF Process
        <3> QED
            BY <2>1, <3>1, LeadsOn
    <2>3. ASSUME NEW to \in {"write", "swap"}, NEW o, Become(p, [r EXCEPT !.pc = to, !.out = o])
          PROVE  Leads(r, proc'[p])
        <3>1. proc'[p].pc = to /\ proc'[p].told = r.told /\ proc'[p].target = r.target
            BY <1>1, <1>2, <2>3 DEF Process
        <3> QED
            BY <2>1, <3>1, LeadsOn
    <2> QED
        BY <1>4, <1>15, <2>2, <2>3 DEF Fetch, copyExecutable, WriteStaged
<1>16. CASE swap(p) \/ swapIn(p)
    <2>1. CASE Installs(p)
        <3>1. proc'[p].pc = "restart"
            BY <1>1, <2>1 DEF Installs, Process
        <3> QED
            BY <3>1, LeadsNowhere
    <2>2. CASE Goto(p, "swap_in")
        BY <1>6, <1>16, <2>2, LeadsOn DEF swap, swapIn, At, Steps, Planned
    <2> QED
        BY <1>4, <1>16, <2>1, <2>2 DEF swap, swapIn
<1>17. CASE delegate(p) \/ afterReplacement(p)
    <2>1. CASE Goto(p, "restart")
        BY <1>6, <2>1, LeadsNowhere DEF Steps
    <2> QED
        BY <1>4, <1>17, <2>1 DEF delegate, afterReplacement
<1> QED
    BY <1>8, <1>9, <1>10, <1>11, <1>12, <1>13, <1>14, <1>15, <1>16, <1>17 DEF Step

(* What a command starts with.                                             *)
LEMMA Begins ==
    ASSUME TypeInv, NEW p \in Procs, Begin(p)
    PROVE  /\ UNCHANGED <<disk, newest, declined, exe>> /\ proc[p].pc = "idle"
           /\ exe \in Published \/ UNCHANGED aside
           /\ proc'[p].pc = "lock" => ~Answered(disk, proc'[p].target)
           /\ Offered(proc'[p]) => proc'[p].target = disk.latest
           /\ Planned(proc'[p]) => /\ exe \in Published
                                   /\ proc'[p].told \/ proc'[p].target >= exe.ver
           /\ ~Found(proc'[p])
           /\ Skipping(proc'[p]) => Skips # {}
           /\ proc'[p].pc # "delegate"
<1> DEFINE Right(s) ==
        /\ s.pc = "lock" => ~Answered(disk, s.target)
        /\ Offered(s) => s.target = disk.latest
        /\ Planned(s) => exe \in Published /\ (s.told \/ s.target >= exe.ver)
        /\ ~Found(s)
        /\ Skipping(s) => Skips # {}
        /\ s.pc # "delegate"
<1>1. /\ UNCHANGED <<disk, newest, declined, exe>> /\ proc[p].pc = "idle"
      /\ exe \in Published \/ UNCHANGED aside
    BY DEF Begin, runStartupCheck, BuildPlan, runSkip, runBackgroundCheck, runOnce, runCheckNow,
           Starts, files, At
<1>2. \A s : Become(p, s) => proc'[p] = s
    BY DEF Become, TypeInv, TypeOK
<1>3. CASE UNCHANGED proc
    <2>1. Right(proc[p])
        BY <1>1 DEF Offered, Planned, Found, Skipping
    <2> QED
        BY <1>1, <1>3, <2>1
<1>4. CASE Eligible(disk, exe.ver) /\ runStartupCheck(p)
    <2> DEFINE s == [Idle EXCEPT !.pc = "lock", !.run = exe.ver, !.target = disk.latest]
    <2>1. s.pc = "lock" /\ s.target = disk.latest
        BY DEF Idle
    <2>2. proc'[p] = s
        BY <1>2, <1>4 DEF runStartupCheck
    <2> HIDE DEF s
    <2>3. exe \in Published /\ exe.ver \in Nat /\ disk \in UpdateState /\ disk.latest \in Nat
        BY <1>4, FileTypes, Numbers DEF runStartupCheck, Starts, TypeInv, TypeOK, UpdateState
    <2>4. disk.latest >= exe.ver /\ ~Answered(disk, disk.latest)
        BY <1>4, <2>3 DEF Eligible, Answered, UpdateState
    <2>5. Right(s)
        BY <2>1, <2>3, <2>4 DEF Offered, Planned, Found, Skipping
    <2> QED
        BY <1>1, <2>2, <2>5
<1>5. ASSUME NEW v \in Targets \cup {0}, NEW yes \in BOOLEAN, NEW allow \in BOOLEAN,
             BuildPlan(p, v, yes, allow)
      PROVE  Right(proc'[p])
    <2> DEFINE target == IF v = 0 THEN disk.latest ELSE v
               s == [Idle EXCEPT !.pc = IF yes THEN "apply" ELSE "confirm", !.run = exe.ver,
                                 !.target = target,
                                 !.told = target < exe.ver /\ (allow \/ ~yes)]
    <2>1. proc'[p] = s
        BY <1>2, <1>5 DEF BuildPlan
    <2>2. /\ s.pc \in {"confirm", "apply"} /\ s.target = target
          /\ s.told = (target < exe.ver /\ (allow \/ ~yes))
        BY DEF Idle
    <2> HIDE DEF s
    <2>3. exe \in Published /\ exe.ver \in Nat /\ target \in Nat
        BY <1>5, FileTypes, Numbers, UpdaterAssumption
           DEF BuildPlan, Starts, TypeInv, TypeOK, UpdateState
    <2>4. target < exe.ver /\ yes => allow
        BY <1>5 DEF BuildPlan
    <2> HIDE DEF target
    <2>5. s.told \/ s.target >= exe.ver
        <3>1. CASE target < exe.ver
            <4>1. allow \/ ~yes
                BY <2>4, <3>1
            <4> QED
                BY <2>2, <3>1, <4>1, Zenon
        <3>2. CASE ~(target < exe.ver)
            BY <2>2, <2>3, <3>2
        <3> QED
            BY <3>1, <3>2
    <2> QED
        BY <2>1, <2>2, <2>3, <2>5 DEF Offered, Planned, Found, Skipping
<1>6. ASSUME NEW v \in Skips \cup {0}, runSkip(p, v)
      PROVE  Right(proc'[p])
    <2> DEFINE s == Changing([Idle EXCEPT !.target = v], IF v = 0 THEN "unskip" ELSE "skip")
    <2>1. proc'[p] = s
        BY <1>2, <1>6 DEF runSkip
    <2>2. s.pc = "mutate" /\ s.change = IF v = 0 THEN "unskip" ELSE "skip"
        BY DEF Idle, Changing
    <2> HIDE DEF s
    <2>3. v # 0 => Skips # {}
        BY <1>6
    <2> QED
        BY <2>1, <2>2, <2>3 DEF Offered, Planned, Found, Skipping
<1>7. ASSUME NEW c, Checks(p, c)
      PROVE  Right(proc'[p])
    <2> DEFINE s == [Idle EXCEPT !.pc = "discover", !.channel = c]
    <2>1. proc'[p] = s
        BY <1>2, <1>7 DEF Checks
    <2>2. s.pc = "discover"
        BY DEF Idle
    <2> HIDE DEF s
    <2> QED
        BY <2>1, <2>2 DEF Offered, Planned, Found, Skipping
<1>8. CASE \E c : Checks(p, c)
    BY <1>1, <1>7, <1>8
<1> QED
    BY <1>1, <1>3, <1>4, <1>5, <1>6, <1>8
       DEF Begin, runStartupCheck, runBackgroundCheck, runOnce, runCheckNow

(* A process in a prompt asks about a release nobody has answered for.     *)
AskInv == \A p \in Procs : At(p, "lock") => ~Answered(disk, proc[p].target)

LEMMA TickKeeps ==
    ASSUME TypeInv, Tick
    PROVE  /\ UNCHANGED <<newest, declined, exe, staged, aside>>
           /\ disk'.latest = disk.latest /\ disk'.skipped = disk.skipped
           /\ disk.deferred = 0 => disk'.deferred = 0
           /\ disk.prompted = 0 => disk'.prompted = 0
           /\ \A p \in Procs : /\ proc'[p].pc = proc[p].pc /\ proc'[p].change = proc[p].change
                               /\ proc'[p].target = proc[p].target /\ proc'[p].told = proc[p].told
<1>1. disk \in UpdateState /\ disk' = Aged(disk) /\ UNCHANGED <<newest, declined, exe, staged, aside>>
    BY DEF Tick, TypeInv, TypeOK, files
<1>2. /\ disk'.latest = disk.latest /\ disk'.skipped = disk.skipped
      /\ disk'.deferred = Less(disk.deferred) /\ disk'.prompted = Less(disk.prompted)
    BY <1>1 DEF Aged, UpdateState
<1>3. Less(0) = 0
    BY DEF Less
<1>4. \A p \in Procs : /\ proc'[p].pc = proc[p].pc /\ proc'[p].change = proc[p].change
                       /\ proc'[p].target = proc[p].target /\ proc'[p].told = proc[p].told
    BY DEF Tick, TypeInv, TypeOK, Process
<1> QED
    BY <1>1, <1>2, <1>3, <1>4

LEMMA AskStep ==
    ASSUME TypeInv, AskInv, Alone, [Next]_vars
    PROVE  AskInv'
<1>1. ASSUME NEW p \in Procs, Step(p)
      PROVE  AskInv'
    <2>1. proc'[p].pc # "lock"
        BY <1>1, Onward DEF Leads
    <2> QED
        BY <2>1 DEF AskInv, At, Alone
<1>2. ASSUME NEW p \in Procs, Begin(p)
      PROVE  AskInv'
    <2>1. proc'[p].pc = "lock" => ~Answered(disk', proc'[p].target)
        BY <1>2, Begins
    <2> QED
        BY <2>1 DEF AskInv, At, Alone, Answered
<1>3. ASSUME NEW p \in Procs, Die(p)
      PROVE  AskInv'
    <2>1. proc'[p].pc # "lock"
        BY <1>3 DEF Die, Done, Become, Idle, TypeInv, TypeOK
    <2> QED
        BY <2>1 DEF AskInv, At, Alone
<1>4. CASE (\E c \in Channels, v \in Versions : Publish(c, v)) \/ UNCHANGED vars
    <2>1. UNCHANGED <<disk, proc>>
        BY <1>4 DEF Publish, vars
    <2> QED
        BY <2>1 DEF AskInv, At, Answered
<1>5. CASE Tick
    <2>1. disk.deferred \in Nat /\ disk.prompted \in Nat /\ disk'.deferred \in Nat /\ disk'.prompted \in Nat
        <3>1. TypeInv'
            BY TypeStep
        <3> QED
            BY <3>1, Numbers DEF TypeInv, TypeOK, UpdateState
    <2> QED
        BY <1>5, <2>1, TickKeeps DEF AskInv, At, Answered
<1> QED
    BY <1>1, <1>2, <1>3, <1>4, <1>5 DEF Next

(* With one process at a time a prompt is not shown while an earlier       *)
(* answer is in force: what runStartupCheck decided before it took the     *)
(* lock still holds when it has it.  With two it need not.                 *)
THEOREM AskedHolds ==
    ASSUME Alone
    PROVE  Spec => AskedOnce
<1>1. TypeInv /\ AskInv /\ [Next]_vars => TypeInv' /\ AskInv'
    BY TypeStep, AskStep
<1>2. Init => AskInv
    BY DEF Init, Idle, AskInv, At
<1>3. AskInv /\ [Next]_vars => [\A p \in Procs : Prompted(p) => ~Answered(disk, proc[p].target)]_vars
    BY DEF AskInv, Prompted
<1> QED
    BY <1>1, <1>2, <1>3, TypeInit, PTL DEF Spec, AskedOnce

(* A step changes what is installed only by completing a swap.             *)
LEMMA InstalledStep ==
    ASSUME TypeInv, LockInv, FileInv, NEW p \in Procs, proc[p].pc # "delegate", Step(p)
    PROVE  \/ Installed' = Installed
           \/ Swapping(p) /\ Installed' = proc[p].target /\ proc'[p].pc = "restart"
<1>1. ASSUME UNCHANGED <<exe, aside>>
      PROVE  Installed' = Installed
    BY <1>1 DEF Installed
<1>2. ASSUME Installs(p), proc[p].pc \in {"swap", "swap_in"}
      PROVE  Swapping(p) /\ Installed' = proc[p].target /\ proc'[p].pc = "restart"
    <2>1. proc[p] \in Process /\ proc[p].target \in Versions /\ staged = Build(proc[p].target)
        BY <1>2, SoundNow DEF Sound, TargetOK, FileInv, HandsOK
    <2>2. exe' = staged /\ proc'[p].pc = "restart"
        BY <1>2, <2>1 DEF Installs, Process
    <2>3. exe' # Missing /\ exe'.ver = proc[p].target
        BY <2>1, <2>2, FileTypes
    <2> QED
        BY <1>2, <2>2, <2>3 DEF Swapping, Installed
<1>3. CASE Mutate(p) \/ Save(p) \/ AcquirePromptLock(p) \/ Ask(p) \/ confirmPlan(p) \/ discover(p)
           \/ Apply(p) \/ Fetch(p) \/ copyExecutable(p) \/ afterReplacement(p)
    BY <1>1, <1>3 DEF Mutate, Save, AcquirePromptLock, Ask, confirmPlan, discover, Apply, Fetch,
                      copyExecutable, afterReplacement, files
<1>4. CASE WriteStaged(p)
    <2>1. proc[p].out = "staged"
        BY <1>4 DEF FileInv, HandsOK, WriteStaged, At
    <2> QED
        BY <1>1, <1>4, <2>1 DEF WriteStaged
<1>5. CASE swap(p)
    <2>1. proc[p].pc = "swap" /\ Prompting(proc[p])
        BY <1>5 DEF swap, At, Prompting
    <2>2. exe \in Published /\ exe # Missing
        BY <2>1, PathFilled, FileTypes
    <2>3. CASE aside' = exe /\ exe' = Missing
        BY <2>2, <2>3 DEF Installed
    <2> QED
        BY <1>1, <1>2, <1>5, <2>1, <2>3 DEF swap
<1>6. CASE swapIn(p)
    <2>1. proc[p].pc = "swap_in" /\ exe = Missing /\ aside \in Published /\ aside # Missing
        BY <1>6, FileTypes DEF swapIn, At, FileInv, PathInv
    <2>2. CASE exe' = aside
        BY <2>1, <2>2 DEF Installed
    <2> QED
        BY <1>2, <1>6, <2>1, <2>2 DEF swapIn
<1> QED
    BY <1>3, <1>4, <1>5, <1>6 DEF Step, delegate, At

(* Whoever is on the way to an update was shown a downgrade, or is about a *)
(* release that is not older than what is installed now.                   *)
PlanInv ==
    \A p \in Procs : /\ ~At(p, "delegate")
                     /\ Planned(proc[p]) => proc[p].told \/ proc[p].target >= Installed

LEMMA PlanStep ==
    ASSUME TypeInv, LockInv, FileInv, PlanInv, Alone, ~Delegated, [Next]_vars
    PROVE  PlanInv' /\ [DowngradeAgreed]_vars
<1>1. Installed \in Nat
    BY FileTypes, Numbers DEF Installed, FileInv, PathInv
<1>2. ASSUME Installed' = Installed
      PROVE  [DowngradeAgreed]_vars
    BY <1>1, <1>2 DEF DowngradeAgreed
<1>3. ASSUME NEW p \in Procs, Step(p)
      PROVE  PlanInv' /\ [DowngradeAgreed]_vars
    <2>1. Leads(proc[p], proc'[p])
        BY <1>3, Onward
    <2>2. \/ Installed' = Installed
          \/ Swapping(p) /\ Installed' = proc[p].target /\ proc'[p].pc = "restart"
        BY <1>3, InstalledStep DEF PlanInv, At
    <2>3. /\ proc'[p].pc # "delegate"
          /\ Planned(proc'[p]) => proc'[p].told \/ proc'[p].target >= Installed'
        BY <2>1, <2>2 DEF Leads, PlanInv, Planned
    <2>4. PlanInv'
        <3>1. \A q \in Procs : q = p
            BY DEF Alone
        <3> QED
            BY <2>3, <3>1 DEF PlanInv, At, Planned
    <2>5. CASE Swapping(p) /\ Installed' = proc[p].target
        <3>1. Planned(proc[p]) /\ proc[p].target \in Nat
            BY <2>5, SoundNow, Numbers DEF Swapping, Planned, Sound, TargetOK
        <3>2. proc[p].told \/ Installed' >= Installed
            BY <2>5, <3>1 DEF PlanInv
        <3>3. ~(Installed' >= Installed) \/ ~(Installed' < Installed)
            BY <1>1, <2>5, <3>1
        <3>4. Installed' < Installed => Swapping(p) /\ proc[p].told
            BY <2>5, <3>2, <3>3, Zenon
        <3> QED
            BY <2>4, <3>4, Zenon DEF DowngradeAgreed
    <2> QED
        BY <1>2, <2>2, <2>4, <2>5
<1>4. ASSUME NEW p \in Procs, Begin(p)
      PROVE  PlanInv' /\ [DowngradeAgreed]_vars
    <2>1. Installed' = Installed
        <3>1. exe' = exe /\ (exe \in Published \/ aside' = aside)
            BY <1>4, Begins
        <3> QED
            BY <3>1, FileTypes DEF Installed
    <2>2. Planned(proc'[p]) => proc'[p].told \/ proc'[p].target >= Installed'
        <3>1. exe \in Published => Installed = exe.ver
            BY FileTypes DEF Installed
        <3> QED
            BY <1>4, <2>1, <3>1, Begins
    <2>3. proc'[p].pc # "delegate" /\ \A q \in Procs : q = p
        BY <1>4, Begins DEF Alone
    <2> QED
        BY <1>2, <2>1, <2>2, <2>3 DEF PlanInv, At, Planned
<1>5. ASSUME NEW p \in Procs, Die(p)
      PROVE  PlanInv' /\ [DowngradeAgreed]_vars
    <2>1. proc'[p].pc = "idle" /\ UNCHANGED <<exe, aside>> /\ \A q \in Procs : q = p
        BY <1>5 DEF Die, Done, Become, Idle, TypeInv, TypeOK, files, Alone
    <2>2. Installed' = Installed
        BY <2>1 DEF Installed
    <2> QED
        BY <1>2, <2>1, <2>2 DEF PlanInv, At, Planned
<1>6. CASE (\E c \in Channels, v \in Versions : Publish(c, v)) \/ UNCHANGED vars
    <2>1. UNCHANGED <<exe, aside, proc>>
        BY <1>6 DEF Publish, vars, files
    <2>2. Installed' = Installed
        BY <2>1 DEF Installed
    <2> QED
        BY <1>2, <2>1, <2>2 DEF PlanInv, At, Planned
<1>7. CASE Tick
    <2>1. Installed' = Installed
        BY <1>7, TickKeeps DEF Installed
    <2> QED
        BY <1>2, <1>7, <2>1, TickKeeps DEF PlanInv, At, Planned
<1> QED
    BY <1>3, <1>4, <1>5, <1>6, <1>7 DEF Next

(* With one process at a time, and no package manager in between, the      *)
(* executable is replaced by an older one only after its user was shown a  *)
(* downgrade, on Windows and elsewhere, whatever fails or crashes.         *)
THEOREM DowngradeHolds ==
    ASSUME LockingWorks, Alone, ~Delegated
    PROVE  Spec => NoSilentDowngrade
<1>1. TypeInv /\ LockInv /\ FileInv /\ PlanInv /\ [Next]_vars
          => TypeInv' /\ LockInv' /\ FileInv' /\ PlanInv'
    BY TypeStep, LockStep, FileStep, PlanStep
<1>2. ASSUME Init
      PROVE  PlanInv
    <2>1. \A p \in Procs : proc[p].pc = "idle"
        BY <1>2 DEF Init, Idle
    <2> QED
        BY <2>1 DEF PlanInv, Planned, At
<1>3. TypeInv /\ LockInv /\ FileInv /\ PlanInv /\ [Next]_vars => [DowngradeAgreed]_vars
    BY PlanStep
<1> QED
    BY <1>1, <1>2, <1>3, TypeInit, LockInit, FileInit, PTL DEF Spec, NoSilentDowngrade

LEMMA ChangedLatest ==
    ASSUME NEW p \in Procs, NEW s \in UpdateState, proc[p] \in Process, NEW d, d = Changed(p, s)
    PROVE  /\ d.latest = IF proc[p].change = "check_ok" THEN proc[p].target ELSE s.latest
           /\ proc[p].change = "skip_this" => d.skipped = proc[p].target
           /\ proc[p].change = "check_ok" => d.skipped = IF proc[p].target > s.skipped THEN 0 ELSE s.skipped
           /\ proc[p].change \notin {"skip", "skip_this", "unskip", "check_ok"} => d.skipped = s.skipped
<1> DEFINE r == proc[p]
           v == proc[p].target
<1>1. v \in Versions \cup {0} /\ r.change \in Changes
    BY DEF Process
<1>2. CASE r.change \in {"update", "not_now", "skip_this"}
    <2>1. d = persist(s, r.change, v)
        BY <1>2 DEF Changed
    <2> QED
        BY <1>2, <2>1 DEF persist, UpdateState
<1>3. CASE r.change = "check_ok"
    <2>1. d = RecordCheckOK(s, v)
        BY <1>3 DEF Changed
    <2> QED
        BY <1>3, <2>1 DEF RecordCheckOK, UpdateState
<1>4. CASE r.change = "check_failed"
    <2>1. d = RecordCheckFailure(s)
        BY <1>4 DEF Changed
    <2> QED
        BY <1>4, <2>1 DEF RecordCheckFailure, UpdateState
<1>5. CASE r.change \in {"skip", "unskip"}
    <2>1. \E w : d = [s EXCEPT !.skipped = w]
        BY <1>5 DEF Changed
    <2> QED
        BY <1>5, <2>1 DEF UpdateState
<1>6. CASE r.change = "mark"
    <2>1. d = markInProgress(s, p)
        BY <1>6 DEF Changed
    <2> QED
        BY <1>6, <2>1 DEF markInProgress, UpdateState
<1>7. CASE r.change = "finish"
    <2>1. d = finish(s, r.ok)
        BY <1>7 DEF Changed
    <2> QED
        BY <1>7, <2>1 DEF finish, UpdateState
<1>8. CASE r.change = "none"
    <2>1. d = s
        BY <1>8 DEF Changed
    <2> QED
        BY <1>8, <2>1
<1> QED
    BY <1>1, <1>2, <1>3, <1>4, <1>5, <1>6, <1>7, <1>8 DEF Changes

(* The latest known release never goes back, a prompt is about that one,   *)
(* and of the declined releases only the latest known one could be offered *)
(* again: that one is the one the file says is skipped.                    *)
OfferInv ==
    /\ disk.latest <= newest["stable"]
    /\ \A d \in declined : d <= disk.latest /\ (d = disk.latest => disk.skipped = d)
    /\ \A p \in Procs :
        /\ Offered(proc[p]) => proc[p].target = disk.latest
        /\ Found(proc[p]) => disk.latest <= proc[p].target /\ proc[p].target <= newest["stable"]
        /\ ~Skipping(proc[p])

LEMMA NumbersNow ==
    ASSUME TypeInv
    PROVE  /\ disk.latest \in Nat /\ disk.skipped \in Nat /\ newest["stable"] \in Nat
           /\ declined \subseteq Nat
           /\ \A p \in Procs : proc[p].target \in Nat /\ proc[p].channel \in Channels
<1>1. Versions \cup {0} \subseteq Nat /\ "stable" \in Channels
    BY Numbers, UpdaterAssumption
<1>2. disk.latest \in Versions \cup {0} /\ disk.skipped \in Versions \cup {0}
    BY DEF TypeInv, TypeOK, UpdateState
<1>3. newest["stable"] \in Versions /\ declined \subseteq Versions
    BY <1>1 DEF TypeInv, TypeOK
<1>4. \A p \in Procs : proc[p].target \in Versions \cup {0} /\ proc[p].channel \in Channels
    BY DEF TypeInv, TypeOK, Process
<1> QED
    BY <1>1, <1>2, <1>3, <1>4

(* A step that writes nothing.                                             *)
LEMMA OfferKept ==
    ASSUME TypeInv, OfferInv, Alone, Channels = {"stable"}, NEW p \in Procs,
           UNCHANGED <<disk, declined, newest>>, Leads(proc[p], proc'[p])
    PROVE  OfferInv'
<1>1. proc[p].channel = "stable" /\ disk.latest \in Nat /\ newest["stable"] \in Nat
    BY NumbersNow
<1>2. /\ Offered(proc'[p]) => proc'[p].target = disk.latest
      /\ Found(proc'[p]) => disk.latest <= proc'[p].target /\ proc'[p].target <= newest["stable"]
      /\ ~Skipping(proc'[p])
    BY <1>1 DEF Leads, OfferInv
<1>3. \A q \in Procs : q = p
    BY DEF Alone
<1> QED
    BY <1>2, <1>3 DEF OfferInv, Offered, Found, Skipping

(* A step that writes the state file.                                      *)
LEMMA OfferSaved ==
    ASSUME TypeInv, LockInv, OfferInv, Alone, NEW p \in Procs, Save(p),
           disk' = Changed(p, proc[p].copy),
           declined' = CASE proc[p].change \in {"skip", "skip_this"} -> declined \cup {proc[p].target}
                         [] proc[p].change = "unskip" -> {}
                         [] OTHER -> declined,
           AfterMutate(p, TRUE)
    PROVE  OfferInv'
<1> DEFINE r == proc[p]
           v == proc[p].target
<1>1. /\ r \in Process /\ r.pc = "save" /\ r.copy = disk /\ disk \in UpdateState
      /\ r.change \in Changes /\ UNCHANGED newest
    BY DEF TypeInv, TypeOK, Save, At, LockInv, StateLockInv, Process
<1>2. /\ v \in Nat /\ disk.latest \in Nat /\ disk.skipped \in Nat /\ newest["stable"] \in Nat
      /\ declined \subseteq Nat
    BY NumbersNow
<1>3. disk' = Changed(p, disk)
    BY <1>1
<1>4. /\ disk'.latest = IF r.change = "check_ok" THEN v ELSE disk.latest
      /\ r.change = "skip_this" => disk'.skipped = v
      /\ r.change = "check_ok" => disk'.skipped = IF v > disk.skipped THEN 0 ELSE disk.skipped
      /\ r.change \notin {"skip", "skip_this", "unskip", "check_ok"} => disk'.skipped = disk.skipped
    BY <1>1, <1>3, ChangedLatest
<1>5. /\ r.change # "skip"
      /\ r.change = "skip_this" => v = disk.latest
      /\ r.change = "check_ok" => disk.latest <= v /\ v <= newest["stable"]
    BY <1>1 DEF OfferInv, Offered, Found, Skipping
<1>6. ~Offered(proc'[p]) /\ ~Found(proc'[p]) /\ ~Skipping(proc'[p])
    <2>1. \A s : Become(p, s) => proc'[p] = s
        BY DEF Become, TypeInv, TypeOK
    <2>2. CASE Become(p, Changing(r, "mark"))
        <3>1. proc'[p].pc = "mutate" /\ proc'[p].change = "mark"
            BY <1>1, <2>1, <2>2 DEF Changing, Process
        <3> QED
            BY <3>1 DEF Offered, Found, Skipping
    <2>3. CASE Goto(p, IF Delegated THEN "delegate" ELSE "fetch")
        <3>1. proc'[p].pc = IF Delegated THEN "delegate" ELSE "fetch"
            BY <1>1, <2>1, <2>3 DEF Goto, Process
        <3> QED
            BY <3>1 DEF Offered, Found, Skipping
    <2>4. CASE Become(p, Idle)
        BY <2>1, <2>4 DEF Offered, Found, Skipping, Idle
    <2> QED
        BY <2>2, <2>3, <2>4 DEF AfterMutate, Done
<1>7. disk'.latest <= newest'["stable"]
    BY <1>1, <1>4, <1>5 DEF OfferInv
<1>8. \A d \in declined' : d <= disk'.latest /\ (d = disk'.latest => disk'.skipped = d)
    <2>1. CASE r.change = "skip_this"
        <3>1. declined' = declined \cup {v} /\ disk'.latest = disk.latest /\ disk'.skipped = disk.latest
            BY <1>4, <1>5, <2>1
        <3> QED
            BY <1>2, <1>5, <2>1, <3>1 DEF OfferInv
    <2>2. CASE r.change = "unskip"
        BY <1>5, <2>2
    <2>3. CASE r.change = "check_ok"
        <3>1. declined' = declined /\ disk'.latest = v
            BY <1>4, <2>3
        <3>2. ASSUME NEW d \in declined
              PROVE  d <= v /\ (d = v => disk'.skipped = d)
            <4>1. d \in Nat /\ d <= disk.latest /\ (d = disk.latest => disk.skipped = d)
                BY <1>2 DEF OfferInv
            <4> QED
                BY <1>2, <1>4, <1>5, <2>3, <4>1
        <3> QED
            BY <3>1, <3>2
    <2>4. CASE r.change \notin {"skip_this", "unskip", "check_ok"}
        <3>1. declined' = declined /\ disk'.latest = disk.latest /\ disk'.skipped = disk.skipped
            BY <1>4, <1>5, <2>4
        <3> QED
            BY <3>1 DEF OfferInv
    <2> QED
        BY <2>1, <2>2, <2>3, <2>4
<1>9. \A q \in Procs : q = p
    BY DEF Alone
<1> QED
    BY <1>6, <1>7, <1>8, <1>9 DEF OfferInv, Offered, Found, Skipping

LEMMA OfferStep ==
    ASSUME TypeInv, LockInv, OfferInv, Alone, Channels = {"stable"}, Skips = {}, [Next]_vars
    PROVE  OfferInv'
<1>1. ASSUME NEW p \in Procs, Step(p)
      PROVE  OfferInv'
    <2>1. Leads(proc[p], proc'[p])
        BY <1>1, Onward
    <2>2. CASE UNCHANGED <<disk, declined, newest>>
        BY <2>1, <2>2, OfferKept
    <2>3. CASE Save(p)
        <3>1. CASE UNCHANGED <<disk, declined>>
            BY <2>2, <2>3, <3>1 DEF Save
        <3> QED
            BY <2>3, <3>1, OfferSaved DEF Save
    <2> QED
        BY <1>1, <2>2, <2>3 DEF Step, Mutate, AcquirePromptLock, Ask, confirmPlan, discover, Apply,
            Fetch, copyExecutable, WriteStaged, swap, swapIn, delegate, afterReplacement
<1>2. ASSUME NEW p \in Procs, Begin(p)
      PROVE  OfferInv'
    <2>1. /\ UNCHANGED <<disk, newest, declined>>
          /\ Offered(proc'[p]) => proc'[p].target = disk.latest
          /\ ~Found(proc'[p]) /\ ~Skipping(proc'[p])
        BY <1>2, Begins
    <2>2. \A q \in Procs : q = p
        BY DEF Alone
    <2> QED
        BY <2>1, <2>2 DEF OfferInv, Offered, Found, Skipping
<1>3. ASSUME NEW p \in Procs, Die(p)
      PROVE  OfferInv'
    <2>1. UNCHANGED <<disk, declined, newest>> /\ proc'[p] = Idle
        BY <1>3 DEF Die, Done, Become, TypeInv, TypeOK
    <2>2. Leads(proc[p], proc'[p])
        BY <2>1, LeadsNowhere DEF Idle
    <2> QED
        BY <2>1, <2>2, OfferKept
<1>4. ASSUME NEW c \in Channels, NEW v \in Versions, Publish(c, v)
      PROVE  OfferInv'
    <2>1. UNCHANGED <<disk, declined, proc>> /\ newest'["stable"] = v /\ v > newest["stable"]
        BY <1>4 DEF Publish, TypeInv, TypeOK
    <2>2. /\ v \in Nat /\ newest["stable"] \in Nat /\ disk.latest \in Nat
          /\ \A p \in Procs : proc[p].target \in Nat
        BY Numbers, NumbersNow
    <2>3. disk'.latest <= newest'["stable"]
        BY <2>1, <2>2 DEF OfferInv
    <2>4. \A p \in Procs : Found(proc[p]) => disk.latest <= proc[p].target /\ proc[p].target <= v
        BY <2>1, <2>2 DEF OfferInv
    <2> QED
        BY <2>1, <2>3, <2>4 DEF OfferInv, Offered, Found, Skipping
<1>5. CASE UNCHANGED vars
    BY <1>5 DEF vars, OfferInv, Offered, Found, Skipping
<1>6. CASE Tick
    BY <1>6, TickKeeps DEF OfferInv, Offered, Found, Skipping
<1> QED
    BY <1>1, <1>2, <1>3, <1>4, <1>5, <1>6 DEF Next

(* With one process at a time on the stable channel, a release the user    *)
(* declined in a prompt is never offered again, however many releases,     *)
(* failed checks and other answers follow.  A second channel, or a skip of *)
(* a release by name, breaks it: the file remembers one skipped release.   *)
THEOREM NeverOfferedHolds ==
    ASSUME LockingWorks, Alone, Channels = {"stable"}, Skips = {}
    PROVE  Spec => NeverOfferedAgain
<1>1. TypeInv /\ LockInv /\ AskInv /\ OfferInv /\ [Next]_vars
          => TypeInv' /\ LockInv' /\ AskInv' /\ OfferInv'
    BY TypeStep, LockStep, AskStep, OfferStep
<1>2. ASSUME Init
      PROVE  AskInv /\ OfferInv
    <2>1. \A p \in Procs : proc[p].pc = "idle"
        BY <1>2 DEF Init, Idle
    <2>2. disk.latest = 0 /\ declined = {} /\ newest["stable"] \in Nat
        BY <1>2, Numbers, UpdaterAssumption DEF Init, NoState
    <2>3. disk.latest <= newest["stable"]
        BY <2>2
    <2> QED
        BY <2>1, <2>2, <2>3 DEF AskInv, OfferInv, Offered, Found, Skipping, At
<1>3. ASSUME AskInv, OfferInv, [Next]_vars
      PROVE  [\A p \in Procs : Prompted(p) => proc[p].target \notin declined]_vars
    <2>1. ASSUME NEW p \in Procs, Prompted(p)
          PROVE  proc[p].target \notin declined
        <3>1. proc[p].target = disk.latest /\ proc[p].target # disk.skipped
            BY <1>3, <2>1 DEF AskInv, OfferInv, Prompted, Offered, At, Answered
        <3> QED
            BY <1>3, <3>1 DEF OfferInv
    <2> QED
        BY <2>1
<1> QED
    BY <1>1, <1>2, <1>3, TypeInit, LockInit, PTL DEF Spec, NeverOfferedAgain
=============================================================================
