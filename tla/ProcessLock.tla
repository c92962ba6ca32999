---------------------------- MODULE ProcessLock ----------------------------
(***************************************************************************)
(* One lock file of second_brain/locks.py: writer.lock or daemon.lock, the *)
(* single-owner file that serialises canonical writers (and daemons).      *)
(*                                                                         *)
(* The file is created with O_CREAT|O_EXCL, then filled with the owner's   *)
(* PID and process start time.  Whoever finds it in place reads it, checks *)
(* whether that process still runs and, if not, renames the file away and  *)
(* tries once more.  Nothing ties these file-system calls together, so     *)
(* each one is a step here, and any process may die between two of them.   *)
(*                                                                         *)
(* The actors are threads: the daemon's main thread and its Inbox watcher  *)
(* share one PID, and die together.                                        *)
(***************************************************************************)
EXTENDS Naturals, FiniteSets

CONSTANTS Threads,      \* threads of control that use the lock
          Pids,         \* operating-system process identifiers
          ProcOf,       \* the PID each thread runs under
          DaemonMain,   \* the threads that run the daemon's prepare_startup
          NoFile,       \* stands for "there is no file at the lock's path"
          Platforms,    \* the platforms considered: TRUE if open files are pinned (Windows)
          MaxStarts     \* bound: processes ever started under one PID

ASSUME ProcOfAssumption == ProcOf \in [Threads -> Pids]
ASSUME DaemonMainAssumption == DaemonMain \subseteq Threads
ASSUME NoFileAssumption ==
  NoFile \notin [owner: Threads, started: Nat, published: BOOLEAN]
ASSUME PlatformsAssumption == Platforms \subseteq BOOLEAN
ASSUME MaxStartsAssumption == MaxStarts \in Nat

VARIABLES pins,       \* an open file can be neither renamed nor unlinked
          alive,      \* alive[i]: a process runs under PID i
          started,    \* started[i]: the start time psutil reports for PID i
          path,       \* the file at the lock's path, or NoFile
          pc,         \* where each thread is in acquire() or clear_if_stale()
          attempt,    \* loop counter of acquire(), or Startup
          judged,     \* what the thread's last read_lock() found at the path
          misjudged   \* history: a cleaner removed a lock file that was in use

vars == <<pins, alive, started, path, pc, attempt, judged, misjudged>>

-----------------------------------------------------------------------------
(* Lock files.  A file carries the LockMetadata its creator wrote, or no   *)
(* metadata yet: it exists, empty, from os.open until os.write.            *)

LockMetadata == [owner: Threads, started: Nat, published: BOOLEAN]

NewLockFile(t) ==
  [owner |-> t, started |-> started[ProcOf[t]], published |-> FALSE]

\* Mutant: the test for a reused PID the wrong way round.
OwnerIsReused(f) ==
  /\ alive[ProcOf[f.owner]]
  /\ started[ProcOf[f.owner]] # f.started

\* lock_owner_is_live: that PID runs, with the start time recorded in the file.
OwnerIsLive(f) ==
  /\ alive[ProcOf[f.owner]]
  /\ started[ProcOf[f.owner]] = f.started

\* Mutant: any process under the recorded PID counts as the owner.
JudgedLiveByPid(f) == f # NoFile /\ f.published /\ alive[ProcOf[f.owner]]

\* read_lock returned a metadata record whose owner is live; a missing, empty or
\* unreadable file gives None, and None counts as stale.
JudgedLive(f) == f # NoFile /\ f.published /\ OwnerIsLive(f)

\* The thread created a lock file and has not yet left acquire().
Owning == {"publish", "hold", "verify", "unlink"}

InUse(f) == pc[f.owner] \in Owning

\* On Windows a file that another thread has open can be neither renamed nor
\* unlinked.  The creator has it open while it publishes; a reader opens it at
\* some moment of its inspection.
OpenByCreator == path # NoFile /\ pc[path.owner] = "publish" /\ ~path.published
OpenByReader(t) == \E u \in Threads \ {t} : pc[u] \in {"inspect", "verify"}

\* The thread's local variables mean something only inside a call.
Goto(t, label) ==
  /\ pc' = [pc EXCEPT ![t] = label]
  /\ UNCHANGED <<attempt, judged>>

Return(t) ==
  /\ pc' = [pc EXCEPT ![t] = "idle"]
  /\ attempt' = [attempt EXCEPT ![t] = 0]
  /\ judged' = [judged EXCEPT ![t] = NoFile]

\* In place of the loop counter: clear_if_stale() was called by prepare_startup.
Startup == 9

\* clear_if_stale returns to the loop of acquire(), or to the daemon's startup.
AfterClear(t) ==
  \/ attempt[t] = Startup /\ Return(t)
  \/ /\ attempt[t] # Startup
     /\ pc' = [pc EXCEPT ![t] = "open"]
     /\ judged' = [judged EXCEPT ![t] = NoFile]
     /\ UNCHANGED attempt

-----------------------------------------------------------------------------
Init ==
  /\ pins \in Platforms
  /\ alive = [i \in Pids |-> TRUE]
  /\ started = [i \in Pids |-> 1]
  /\ path = NoFile
  /\ pc = [t \in Threads |-> "idle"]
  /\ attempt = [t \in Threads |-> 0]
  /\ judged = [t \in Threads |-> NoFile]
  /\ misjudged = FALSE

\* A caller enters acquire().
Acquire(t) ==
  /\ pc[t] = "idle"
  /\ Goto(t, "open")
  /\ UNCHANGED <<pins, alive, started, path, misjudged>>

\* The daemon's prepare_startup calls clear_if_stale() without acquiring.
ClearOnStartup(t) ==
  /\ t \in DaemonMain
  /\ pc[t] = "idle"
  /\ pc' = [pc EXCEPT ![t] = "stat"]
  /\ attempt' = [attempt EXCEPT ![t] = Startup]
  /\ UNCHANGED <<pins, alive, started, path, judged, misjudged>>

\* Mutant: os.open without O_EXCL.
CreateShared(t) ==
  /\ pc[t] = "open"
  /\ path' = NewLockFile(t)
  /\ Goto(t, "publish")
  /\ UNCHANGED <<pins, alive, started, misjudged>>

\* os.open succeeds: the lock file exists, still empty.
Create(t) ==
  /\ pc[t] = "open"
  /\ path = NoFile
  /\ path' = NewLockFile(t)
  /\ Goto(t, "publish")
  /\ UNCHANGED <<pins, alive, started, misjudged>>

\* Mutant: the loop counter of acquire() is never compared.
BlockedAlwaysRetries(t) ==
  /\ pc[t] = "open"
  /\ path # NoFile
  /\ Goto(t, "stat")
  /\ UNCHANGED <<pins, alive, started, path, misjudged>>

\* Mutant: the loop of acquire() runs over range(4).
BlockedRetriesOften(t) ==
  /\ pc[t] = "open"
  /\ path # NoFile
  /\ attempt[t] < 3
  /\ pc' = [pc EXCEPT ![t] = "stat"]
  /\ attempt' = [attempt EXCEPT ![t] = @ + 1]
  /\ UNCHANGED <<pins, alive, started, path, judged, misjudged>>

\* os.open meets a file: clear it if stale and retry, once; then LockHeldError.
Blocked(t) ==
  /\ pc[t] = "open"
  /\ path # NoFile
  /\ \/ /\ attempt[t] = 0
        /\ pc' = [pc EXCEPT ![t] = "stat"]
        /\ attempt' = [attempt EXCEPT ![t] = 1]
        /\ UNCHANGED judged
     \/ /\ attempt[t] # 0
        /\ Return(t)
  /\ UNCHANGED <<pins, alive, started, path, misjudged>>

\* clear_if_stale: path.exists().
Stat(t) ==
  /\ pc[t] = "stat"
  /\ IF path = NoFile THEN AfterClear(t) ELSE Goto(t, "inspect")
  /\ UNCHANGED <<pins, alive, started, path, misjudged>>

\* clear_if_stale: read_lock() and the liveness check.  A live owner raises
\* LockHeldError, out of acquire() too.
Inspect(t) ==
  /\ pc[t] = "inspect"
  /\ \/ JudgedLive(path) /\ Return(t)
     \/ /\ ~ JudgedLive(path)
        /\ pc' = [pc EXCEPT ![t] = "replace"]
        /\ judged' = [judged EXCEPT ![t] = path]
        /\ UNCHANGED attempt
  /\ UNCHANGED <<pins, alive, started, path, misjudged>>

\* clear_if_stale: os.replace() takes away whatever file is at the path NOW.
Replace(t) ==
  /\ pc[t] = "replace"
  /\ ~ (pins /\ OpenByCreator)
  /\ misjudged' = (misjudged \/ (path # NoFile /\ InUse(path)))
  /\ path' = NoFile
  /\ AfterClear(t)
  /\ UNCHANGED <<pins, alive, started>>

\* os.replace() raises PermissionError, which leaves acquire() as it is.
ReplaceRefused(t) ==
  /\ pc[t] = "replace"
  /\ pins
  /\ path # NoFile
  /\ OpenByCreator \/ OpenByReader(t)
  /\ Return(t)
  /\ UNCHANGED <<pins, alive, started, path, misjudged>>

\* os.write, fsync and close.  The write goes to the file this thread created,
\* which may no longer be the one at the path.
Publish(t) ==
  /\ pc[t] = "publish"
  /\ path' = IF path # NoFile /\ path.owner = t
             THEN [path EXCEPT !.published = TRUE] ELSE path
  /\ Goto(t, "hold")
  /\ UNCHANGED <<pins, alive, started, misjudged>>

\* os.write or fsync raises: the descriptor is closed, the empty file stays.
PublishFails(t) ==
  /\ pc[t] = "publish"
  /\ Return(t)
  /\ UNCHANGED <<pins, alive, started, path, misjudged>>

\* The body of the with statement ends, normally or by an exception.
Leave(t) ==
  /\ pc[t] = "hold"
  /\ Goto(t, "verify")
  /\ UNCHANGED <<pins, alive, started, path, misjudged>>

\* Release reads the file back: it goes on only if the token is its own.
VerifyToken(t) ==
  /\ pc[t] = "verify"
  /\ IF path # NoFile /\ path.published /\ path.owner = t
       THEN Goto(t, "unlink") ELSE Return(t)
  /\ UNCHANGED <<pins, alive, started, path, misjudged>>

\* Release: path.unlink(), whatever file is at the path NOW.
Unlink(t) ==
  /\ pc[t] = "unlink"
  /\ ~ (pins /\ OpenByCreator)
  /\ path' = NoFile
  /\ Return(t)
  /\ UNCHANGED <<pins, alive, started, misjudged>>

\* Release: path.unlink() raises, and suppress(OSError) drops the error.
UnlinkSuppressed(t) ==
  /\ pc[t] = "unlink"
  /\ pins
  /\ OpenByCreator \/ OpenByReader(t)
  /\ Return(t)
  /\ UNCHANGED <<pins, alive, started, path, misjudged>>

\* A process dies: none of its finally clauses runs, the lock file stays.
Crash(i) ==
  /\ alive[i]
  /\ started[i] < MaxStarts
  /\ alive' = [alive EXCEPT ![i] = FALSE]
  /\ pc' = [t \in Threads |-> IF ProcOf[t] = i THEN "down" ELSE pc[t]]
  /\ attempt' = [t \in Threads |-> IF ProcOf[t] = i THEN 0 ELSE attempt[t]]
  /\ judged' = [t \in Threads |-> IF ProcOf[t] = i THEN NoFile ELSE judged[t]]
  /\ UNCHANGED <<pins, started, path, misjudged>>

\* A new process gets the PID, at a start time at least a second later.
Restart(i) ==
  /\ ~ alive[i]
  /\ alive' = [alive EXCEPT ![i] = TRUE]
  /\ started' = [started EXCEPT ![i] = @ + 1]
  /\ pc' = [t \in Threads |-> IF ProcOf[t] = i THEN "idle" ELSE pc[t]]
  /\ UNCHANGED <<pins, path, attempt, judged, misjudged>>

\* The steps of one call, once a thread has made it.
CallStep(t) ==
  \/ Create(t) \/ Blocked(t)
  \/ Stat(t) \/ Inspect(t) \/ Replace(t) \/ ReplaceRefused(t)
  \/ Publish(t) \/ PublishFails(t)
  \/ Leave(t) \/ VerifyToken(t) \/ Unlink(t) \/ UnlinkSuppressed(t)

Next ==
  \/ \E t \in Threads : Acquire(t) \/ ClearOnStartup(t) \/ CallStep(t)
  \/ \E i \in Pids : Crash(i) \/ Restart(i)

Spec == Init /\ [][Next]_vars

\* A running thread goes on with a call it made and every section ends;
\* maintenance and commands keep asking for the lock; a dead process is
\* started again, which the program leaves to its environment.
FairSpec ==
  /\ Spec
  /\ \A t \in Threads : WF_vars(CallStep(t)) /\ WF_vars(Acquire(t))
  /\ \A i \in Pids : WF_vars(Restart(i))

-----------------------------------------------------------------------------
Labels == Owning \cup {"down", "idle", "open", "stat", "inspect", "replace"}

\* The values every variable takes.
TypeOK ==
  /\ pins \in BOOLEAN
  /\ alive \in [Pids -> BOOLEAN]
  /\ started \in [Pids -> Nat]
  /\ path \in LockMetadata \cup {NoFile}
  /\ pc \in [Threads -> Labels]
  /\ attempt \in [Threads -> {0, 1, Startup}]
  /\ judged \in [Threads -> LockMetadata \cup {NoFile}]
  /\ misjudged \in BOOLEAN

\* Two threads are never inside the with statement of acquire() together: what
\* the callers of the writer lock and of the daemon lock rely on.
MutualExclusion ==
  \A t, u \in Threads : pc[t] = "hold" /\ pc[u] = "hold" => t = u

\* The token check of release, the exclusive create and the one retry lose no
\* exclusion of their own: two holders exist only after a cleaner's os.replace
\* took away a lock file that was in use.
ExclusiveUnlessMisjudged == misjudged \/ MutualExclusion

\* clear_if_stale never removes the file of a live owner that it has READ: when
\* the file about to be renamed is the very one that was inspected, with its
\* metadata in place, its owner is gone, PID reuse included.
JudgedFileNotInUse ==
  \A t \in Threads :
    /\ pc[t] = "replace"
    /\ path # NoFile
    /\ path = judged[t]
    /\ path.published
    => ~ InUse(path)

\* acquire() never waits: each call ends with the lock, with an error, or with
\* the death of its process, whatever the others do.
AcquireEnds ==
  \A t \in Threads : pc[t] = "open" ~> pc[t] \in {"hold", "idle", "down"}

\* A lock file whose owner died does not block the others for ever, even when
\* the owner's PID runs again as another process.  (Where open files are pinned,
\* readers that come one after the other may refuse every rename.)
DeadOwnerCleared ==
  (~ pins /\ path # NoFile /\ ~OwnerIsLive(path))
    ~> (path = NoFile \/ OwnerIsLive(path))
=============================================================================
