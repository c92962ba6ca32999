------------------------- MODULE ProcessLockProofs -------------------------
(***************************************************************************)
(* Proofs about ProcessLock, for every set of threads and processes, both  *)
(* file systems and any number of crashes.                                 *)
(***************************************************************************)
EXTENDS ProcessLock, TLAPS

\* As long as no cleaner has removed a lock file in use, a thread between
\* os.open and unlink owns the file at the path.
OwnersHaveTheFile ==
  ~ misjudged =>
    \A t \in Threads : pc[t] \in Owning => path # NoFile /\ path.owner = t

\* The inductive invariant.
LockInv == TypeOK /\ OwnersHaveTheFile

-----------------------------------------------------------------------------
\* A new lock file carries the creator's metadata.
LEMMA NewLockFileType ==
  ASSUME TypeOK, NEW t \in Threads
  PROVE  /\ NewLockFile(t) \in LockMetadata
         /\ NewLockFile(t) # NoFile
         /\ NewLockFile(t).owner = t
<1>1. ProcOf[t] \in Pids
  BY ProcOfAssumption
<1>2. started[ProcOf[t]] \in Nat
  BY <1>1 DEF TypeOK
<1>3. NewLockFile(t) \in LockMetadata
  BY <1>2 DEF NewLockFile, LockMetadata
<1>. QED BY <1>3, NoFileAssumption DEF NewLockFile, LockMetadata

\* The program's state keeps its type through every step.
LEMMA TypeStep == TypeOK /\ [Next]_vars => TypeOK'
<1> SUFFICES ASSUME TypeOK, [Next]_vars
             PROVE  TypeOK'
  OBVIOUS
<1> USE DEF TypeOK, Labels, Owning, Startup
<1>1. ASSUME NEW t \in Threads, Acquire(t) PROVE TypeOK'
  BY <1>1 DEF Acquire, Goto
<1>2. ASSUME NEW t \in Threads, ClearOnStartup(t) PROVE TypeOK'
  BY <1>2 DEF ClearOnStartup
<1>3. ASSUME NEW t \in Threads, Create(t) PROVE TypeOK'
  BY <1>3, NewLockFileType DEF Create, Goto
<1>4. ASSUME NEW t \in Threads, Blocked(t) PROVE TypeOK'
  BY <1>4 DEF Blocked, Return
<1>5. ASSUME NEW t \in Threads, Stat(t) PROVE TypeOK'
  BY <1>5 DEF Stat, Goto, AfterClear, Return
<1>6. ASSUME NEW t \in Threads, Inspect(t) PROVE TypeOK'
  BY <1>6 DEF Inspect, Return
<1>7. ASSUME NEW t \in Threads, Replace(t) PROVE TypeOK'
  <2>1. misjudged' \in BOOLEAN
    BY <1>7 DEF Replace
  <2>. QED BY <1>7, <2>1 DEF Replace, AfterClear, Return
<1>8. ASSUME NEW t \in Threads, ReplaceRefused(t) PROVE TypeOK'
  BY <1>8 DEF ReplaceRefused, Return
<1>9. ASSUME NEW t \in Threads, Publish(t) PROVE TypeOK'
  <2>1. path' \in LockMetadata \cup {NoFile}
    BY <1>9 DEF Publish, LockMetadata
  <2>. QED BY <1>9, <2>1 DEF Publish, Goto
<1>10. ASSUME NEW t \in Threads, PublishFails(t) PROVE TypeOK'
  BY <1>10 DEF PublishFails, Return
<1>11. ASSUME NEW t \in Threads, Leave(t) PROVE TypeOK'
  BY <1>11 DEF Leave, Goto
<1>12. ASSUME NEW t \in Threads, VerifyToken(t) PROVE TypeOK'
  BY <1>12 DEF VerifyToken, Goto, Return
<1>13. ASSUME NEW t \in Threads, Unlink(t) PROVE TypeOK'
  BY <1>13 DEF Unlink, Return
<1>14. ASSUME NEW t \in Threads, UnlinkSuppressed(t) PROVE TypeOK'
  BY <1>14 DEF UnlinkSuppressed, Return
<1>15. ASSUME NEW i \in Pids, Crash(i) PROVE TypeOK'
  BY <1>15 DEF Crash
<1>16. ASSUME NEW i \in Pids, Restart(i) PROVE TypeOK'
  BY <1>16 DEF Restart
<1>17. CASE UNCHANGED vars
  BY <1>17 DEF vars
<1>. QED
  BY <1>1, <1>2, <1>3, <1>4, <1>5, <1>6, <1>7, <1>8, <1>9, <1>10, <1>11, <1>12,
     <1>13, <1>14, <1>15, <1>16, <1>17 DEF Next, CallStep

\* The program starts with no lock file and every thread outside acquire().
LEMMA InitialState == Init => TypeOK /\ OwnersHaveTheFile
<1> SUFFICES ASSUME Init PROVE TypeOK /\ OwnersHaveTheFile
  OBVIOUS
<1>1. \A t \in Threads : pc[t] = "idle"
  BY DEF Init
<1>2. OwnersHaveTheFile
  BY <1>1 DEF OwnersHaveTheFile, Owning
<1>3. alive \in [Pids -> BOOLEAN] /\ misjudged \in BOOLEAN
  BY Zenon DEF Init
<1>4. started \in [Pids -> Nat] /\ attempt \in [Threads -> {0, 1, Startup}]
  BY DEF Init
<1>5. pc \in [Threads -> Labels]
  BY DEF Init, Labels
<1>6. path \in LockMetadata \cup {NoFile}
      /\ judged \in [Threads -> LockMetadata \cup {NoFile}]
  BY DEF Init
<1>7. pins \in BOOLEAN
  BY Zenon, PlatformsAssumption DEF Init
<1>. QED BY Zenon, <1>2, <1>3, <1>4, <1>5, <1>6, <1>7 DEF TypeOK

\* The variables keep their types in every behaviour.
THEOREM TypeCorrect == Spec => []TypeOK
<1>1. Init => TypeOK
  BY InitialState
<1>. QED BY <1>1, TypeStep, PTL DEF Spec

-----------------------------------------------------------------------------
\* The owners keep the file through every step.
LEMMA OwnersStep == LockInv /\ [Next]_vars => OwnersHaveTheFile'
<1> SUFFICES ASSUME LockInv, [Next]_vars, ~ misjudged',
                    NEW u \in Threads, pc'[u] \in Owning
             PROVE  path' # NoFile /\ path'.owner = u
  BY DEF OwnersHaveTheFile
<1> USE DEF LockInv, TypeOK, OwnersHaveTheFile, Owning
\* The steps by which a thread stays outside the lock, or inside it.
<1>1. ASSUME NEW t \in Threads,
             \/ Acquire(t) \/ ClearOnStartup(t) \/ Blocked(t)
             \/ Stat(t) \/ Inspect(t) \/ ReplaceRefused(t)
             \/ PublishFails(t) \/ Leave(t) \/ VerifyToken(t)
             \/ UnlinkSuppressed(t)
      PROVE  path' # NoFile /\ path'.owner = u
  <2>1. path' = path /\ misjudged' = misjudged
    BY <1>1 DEF Acquire, ClearOnStartup, Blocked, Stat, Inspect, ReplaceRefused,
                PublishFails, Leave, VerifyToken, UnlinkSuppressed
  <2>2. pc[u] \in Owning
    BY <1>1 DEF Acquire, ClearOnStartup, Blocked, Stat, Inspect, ReplaceRefused,
                PublishFails, Leave, VerifyToken, UnlinkSuppressed,
                Goto, Return, AfterClear
  <2>. QED BY <2>1, <2>2
<1>2. ASSUME NEW t \in Threads, Create(t)
      PROVE  path' # NoFile /\ path'.owner = u
  <2>1. u = t
    BY <1>2 DEF Create, Goto
  <2>. QED BY <1>2, <2>1, NewLockFileType DEF Create
<1>3. ASSUME NEW t \in Threads, Publish(t)
      PROVE  path' # NoFile /\ path'.owner = u
  <2>1. pc[u] \in Owning /\ ~ misjudged
    BY <1>3 DEF Publish, Goto
  <2>2. path # NoFile /\ path.owner = u /\ path \in LockMetadata
    BY <2>1
  <2>3. CASE path.owner = t
    <3>1. path' = [path EXCEPT !.published = TRUE]
      BY <1>3, <2>2, <2>3 DEF Publish
    <3>2. path' \in LockMetadata /\ path'.owner = u
      BY <2>2, <3>1 DEF LockMetadata
    <3>. QED BY <3>2, NoFileAssumption DEF LockMetadata
  <2>4. CASE path.owner # t
    BY <1>3, <2>2, <2>4 DEF Publish
  <2>. QED BY <2>3, <2>4
<1>4. ASSUME NEW t \in Threads, Replace(t)
      PROVE  path' # NoFile /\ path'.owner = u
  <2>1. pc[u] \in Owning
    BY <1>4 DEF Replace, AfterClear, Return
  <2>2. ~ misjudged /\ ~ (path # NoFile /\ InUse(path))
    BY <1>4 DEF Replace
  <2>. QED BY <2>1, <2>2 DEF InUse
<1>5. ASSUME NEW t \in Threads, Unlink(t)
      PROVE  path' # NoFile /\ path'.owner = u
  <2>1. pc[u] \in Owning /\ u # t /\ ~ misjudged
    BY <1>5 DEF Unlink, Return
  <2>2. path.owner = t
    BY <1>5, <2>1 DEF Unlink
  <2>. QED BY <2>1, <2>2
<1>6. ASSUME NEW i \in Pids, Crash(i) \/ Restart(i)
      PROVE  path' # NoFile /\ path'.owner = u
  BY <1>6 DEF Crash, Restart
<1>7. CASE UNCHANGED vars
  BY <1>7 DEF vars
<1>. QED
  BY <1>1, <1>2, <1>3, <1>4, <1>5, <1>6, <1>7 DEF Next, CallStep

\* Mutual exclusion of the lock, up to the one step that can break it: two
\* threads hold the lock only after os.replace took away a file that was in use.
THEOREM ExclusionUpToMisjudgement == Spec => []ExclusiveUnlessMisjudged
<1>1. Init => LockInv
  BY InitialState DEF LockInv
<1>2. LockInv /\ [Next]_vars => LockInv'
  BY TypeStep, OwnersStep DEF LockInv
<1>3. LockInv => ExclusiveUnlessMisjudged
  BY DEF LockInv, OwnersHaveTheFile, ExclusiveUnlessMisjudged, MutualExclusion, Owning
<1>. QED BY <1>1, <1>2, <1>3, PTL DEF Spec

-----------------------------------------------------------------------------
(* What a cleaner has read.                                                *)

\* Threads run under processes that are alive; no file comes from the future;
\* the file at the path, while its creator uses it, is that of the present
\* process; and what a cleaner found stale stays so, whatever starts or dies.
JudgedInv ==
  /\ \A t \in Threads : pc[t] # "down" => alive[ProcOf[t]]
  /\ path # NoFile =>
       /\ path.started <= started[ProcOf[path.owner]]
       /\ InUse(path) => path.started = started[ProcOf[path.owner]]
  /\ \A t \in Threads :
       pc[t] = "replace" /\ judged[t] # NoFile /\ judged[t].published =>
         /\ judged[t].started <= started[ProcOf[judged[t].owner]]
         /\ ~ OwnerIsLive(judged[t])

\* Files name a thread, and so a process, and a start time.
LEMMA FileType ==
  ASSUME TypeOK, NEW f, f \in LockMetadata \cup {NoFile}, f # NoFile
  PROVE  /\ f.owner \in Threads /\ f.started \in Nat
         /\ ProcOf[f.owner] \in Pids
         /\ started[ProcOf[f.owner]] \in Nat
BY ProcOfAssumption DEF TypeOK, LockMetadata

\* What was judged stale stays stale through every step.
LEMMA StaleStays ==
  ASSUME TypeOK, [Next]_vars, NEW f \in LockMetadata, f # NoFile,
         f.started <= started[ProcOf[f.owner]], ~ OwnerIsLive(f)
  PROVE  f.started <= started'[ProcOf[f.owner]] /\ ~ OwnerIsLive(f)'
<1>. USE DEF TypeOK, OwnerIsLive
<1>1. ProcOf[f.owner] \in Pids /\ f.started \in Nat
  BY FileType
<1>2. CASE UNCHANGED <<alive, started>>
  BY <1>2
<1>3. ASSUME NEW i \in Pids, Crash(i) PROVE f.started <= started'[ProcOf[f.owner]] /\ ~ OwnerIsLive(f)'
  BY <1>1, <1>3 DEF Crash
<1>4. ASSUME NEW i \in Pids, Restart(i) PROVE f.started <= started'[ProcOf[f.owner]] /\ ~ OwnerIsLive(f)'
  BY <1>1, <1>4 DEF Restart
<1>5. ASSUME NEW t \in Threads, Acquire(t) \/ ClearOnStartup(t) \/ CallStep(t)
      PROVE  UNCHANGED <<alive, started>>
  BY <1>5 DEF Acquire, ClearOnStartup, CallStep, Create, Blocked, Stat, Inspect, Replace,
              ReplaceRefused, Publish, PublishFails, Leave, VerifyToken, Unlink, UnlinkSuppressed
<1>. QED BY <1>2, <1>3, <1>4, <1>5 DEF Next, vars

\* A thread comes to "replace" only by the inspection, and goes into the lock only
\* by creating the file.
LEMMA Entries ==
  ASSUME TypeOK, NEW t \in Threads, Acquire(t) \/ ClearOnStartup(t) \/ CallStep(t)
  PROVE  /\ UNCHANGED <<alive, started>> /\ pc[t] # "down"
         /\ \A u \in Threads \ {t} : pc'[u] = pc[u] /\ judged'[u] = judged[u]
         /\ pc'[t] = "replace" => judged'[t] = path /\ ~ JudgedLive(path)
         /\ pc'[t] \in Owning => pc[t] \in Owning \/ Create(t)
<1>. USE DEF TypeOK, Goto, Return, AfterClear, Owning
<1>1. CASE Acquire(t) \/ ClearOnStartup(t)
  BY <1>1 DEF Acquire, ClearOnStartup
<1>2. CASE Create(t) \/ Blocked(t)
  BY <1>2 DEF Create, Blocked
<1>3. CASE Stat(t) \/ Replace(t) \/ ReplaceRefused(t)
  BY <1>3 DEF Stat, Replace, ReplaceRefused
<1>4. CASE Inspect(t)
  BY <1>4 DEF Inspect
<1>5. CASE Publish(t) \/ PublishFails(t) \/ Leave(t)
  BY <1>5 DEF Publish, PublishFails, Leave
<1>6. CASE VerifyToken(t) \/ Unlink(t) \/ UnlinkSuppressed(t)
  BY <1>6 DEF VerifyToken, Unlink, UnlinkSuppressed
<1>. QED BY <1>1, <1>2, <1>3, <1>4, <1>5, <1>6 DEF CallStep

\* What the path may come to hold.
LEMMA PathSteps ==
  ASSUME TypeOK, NEW t \in Threads, Acquire(t) \/ ClearOnStartup(t) \/ CallStep(t)
  PROVE  \/ path' \in {path, NoFile}
         \/ Create(t) /\ path' = NewLockFile(t)
         \/ /\ path # NoFile /\ path' # NoFile
            /\ path'.owner = path.owner /\ path'.started = path.started
<1>1. CASE Acquire(t) \/ ClearOnStartup(t) \/ Blocked(t) \/ Stat(t) \/ Inspect(t)
           \/ ReplaceRefused(t) \/ PublishFails(t) \/ Leave(t) \/ VerifyToken(t)
           \/ UnlinkSuppressed(t)
  BY <1>1 DEF Acquire, ClearOnStartup, Blocked, Stat, Inspect, ReplaceRefused,
              PublishFails, Leave, VerifyToken, UnlinkSuppressed
<1>2. CASE Create(t) \/ Replace(t) \/ Unlink(t)
  BY <1>2 DEF Create, Replace, Unlink
<1>3. CASE Publish(t)
  <2>1. CASE path' = path
    BY <2>1
  <2>2. CASE path' # path
    <3>1. path # NoFile /\ path \in LockMetadata /\ path' = [path EXCEPT !.published = TRUE]
      BY <1>3, <2>2 DEF Publish, TypeOK
    <3>2. path' \in LockMetadata /\ path'.owner = path.owner /\ path'.started = path.started
      BY <3>1 DEF LockMetadata
    <3>. QED BY <3>1, <3>2, NoFileAssumption DEF LockMetadata
  <2>. QED BY <2>1, <2>2
<1>. QED BY <1>1, <1>2, <1>3 DEF CallStep

\* Every step keeps what cleaners rely on.
LEMMA JudgedStep == TypeOK /\ JudgedInv /\ [Next]_vars => JudgedInv'
<1>. SUFFICES ASSUME TypeOK, JudgedInv, [Next]_vars
              PROVE  JudgedInv'
  OBVIOUS
<1>1. TypeOK'
  BY TypeStep
<1>2. ASSUME NEW t \in Threads, Acquire(t) \/ ClearOnStartup(t) \/ CallStep(t)
      PROVE  JudgedInv'
  <2>1. \A u \in Threads : pc'[u] # "down" => alive'[ProcOf[u]]
    BY <1>2, Entries DEF JudgedInv
  <2>2. path' # NoFile => path'.started <= started'[ProcOf[path'.owner]]
    <3>1. NewLockFile(t).started <= started[ProcOf[NewLockFile(t).owner]]
      BY NewLockFileType, ProcOfAssumption DEF NewLockFile, TypeOK
    <3>. QED BY <1>2, <3>1, Entries, PathSteps DEF JudgedInv
  <2>3. path' # NoFile /\ InUse(path)' => path'.started = started'[ProcOf[path'.owner]]
    <3>1. CASE Create(t)
      BY <1>2, <3>1, Entries, NewLockFileType DEF Create, NewLockFile
    <3>2. CASE ~ Create(t)
      <4>1. SUFFICES ASSUME path' # NoFile, InUse(path)'
                     PROVE  path'.started = started'[ProcOf[path'.owner]]
        OBVIOUS
      <4>2. path # NoFile /\ path'.owner = path.owner /\ path'.started = path.started
        BY <1>2, <3>2, <4>1, PathSteps
      <4>3. path.owner \in Threads /\ pc[path.owner] \in Owning
        BY <1>2, <3>2, <4>1, <4>2, Entries, FileType DEF InUse, TypeOK
      <4>. QED BY <1>2, <4>2, <4>3, Entries DEF JudgedInv, InUse
    <3>. QED BY <3>1, <3>2
  <2>4. ASSUME NEW u \in Threads, pc'[u] = "replace", judged'[u] # NoFile, judged'[u].published
        PROVE  /\ judged'[u].started <= started'[ProcOf[judged'[u].owner]]
               /\ ~ OwnerIsLive(judged[u])'
    <3>1. CASE u = t
      <4>1. judged'[u] = path /\ ~ JudgedLive(path)
        BY <1>2, <2>4, <3>1, Entries
      <4>. QED BY <1>2, <2>4, <4>1, Entries DEF JudgedInv, JudgedLive, OwnerIsLive
    <3>2. CASE u # t
      BY <1>2, <2>4, <3>2, Entries DEF JudgedInv, OwnerIsLive
    <3>. QED BY <3>1, <3>2
  <2>. QED BY <2>1, <2>2, <2>3, <2>4 DEF JudgedInv
<1>3. ASSUME NEW i \in Pids, Crash(i) \/ Restart(i)
      PROVE  JudgedInv'
  <2>1. /\ path' = path
        /\ \A u \in Threads : ProcOf[u] = i => pc'[u] \in {"down", "idle"}
        /\ \A u \in Threads : ProcOf[u] # i => pc'[u] = pc[u]
        /\ \A u \in Threads : pc'[u] = "replace" => ProcOf[u] # i /\ judged'[u] = judged[u]
        /\ \A j \in Pids \ {i} : alive'[j] = alive[j] /\ started'[j] = started[j]
        /\ started'[i] \in {started[i], started[i] + 1}
        /\ \A u \in Threads : pc'[u] # "down" => alive'[ProcOf[u]]
    <3>1. CASE Crash(i)
      BY <3>1, ProcOfAssumption DEF Crash, TypeOK, JudgedInv
    <3>2. CASE Restart(i)
      BY <3>2, ProcOfAssumption DEF Restart, TypeOK, JudgedInv
    <3>. QED BY <1>3, <3>1, <3>2
  <2>2. path' # NoFile =>
          /\ path'.started <= started'[ProcOf[path'.owner]]
          /\ InUse(path)' => path'.started = started'[ProcOf[path'.owner]]
    <3>1. CASE path = NoFile
      BY <2>1, <3>1
    <3>2. CASE path # NoFile
      <4>1. /\ path.owner \in Threads /\ path.started \in Nat /\ ProcOf[path.owner] \in Pids
            /\ started[ProcOf[path.owner]] \in Nat
        BY <3>2, FileType DEF TypeOK
      <4>2. path.started <= started'[ProcOf[path.owner]]
        BY <2>1, <3>2, <4>1 DEF JudgedInv
      <4>3. pc'[path.owner] \in Owning => path.started = started'[ProcOf[path.owner]]
        BY <2>1, <3>2, <4>1 DEF JudgedInv, InUse, Owning
      <4>. QED BY <2>1, <4>2, <4>3 DEF InUse
    <3>. QED BY <3>1, <3>2
  <2>3. ASSUME NEW u \in Threads, pc'[u] = "replace", judged'[u] # NoFile, judged'[u].published
        PROVE  /\ judged'[u].started <= started'[ProcOf[judged'[u].owner]]
               /\ ~ OwnerIsLive(judged[u])'
    <3>1. judged'[u] = judged[u] /\ pc[u] = "replace"
      BY <2>1, <2>3
    <3>2. PICK f \in LockMetadata : f = judged[u]
      BY <2>3, <3>1 DEF TypeOK
    <3>3. f # NoFile /\ f.started <= started[ProcOf[f.owner]] /\ ~ OwnerIsLive(f)
      BY <2>3, <3>1, <3>2 DEF JudgedInv
    <3>4. f.started <= started'[ProcOf[f.owner]] /\ ~ OwnerIsLive(f)'
      BY <3>3, StaleStays
    <3>. QED BY <3>1, <3>2, <3>4 DEF OwnerIsLive
  <2>. QED BY <2>1, <2>2, <2>3 DEF JudgedInv
<1>4. CASE UNCHANGED vars
  BY <1>4 DEF vars, JudgedInv, InUse, OwnerIsLive
<1>. QED BY <1>2, <1>3, <1>4 DEF Next

\* A cleaner that goes on to rename the file that it has read, metadata and all,
\* takes no file of a live owner, whatever processes die, start again, and get the
\* identifier of a dead one.
THEOREM WhatWasReadIsNotInUse == Spec => []JudgedFileNotInUse
<1>1. Init => TypeOK /\ JudgedInv
  BY InitialState, ProcOfAssumption DEF Init, JudgedInv
<1>2. TypeOK /\ JudgedInv /\ [Next]_vars => (TypeOK /\ JudgedInv)'
  BY TypeStep, JudgedStep
<1>3. TypeOK /\ JudgedInv => JudgedFileNotInUse
  <2>. SUFFICES ASSUME TypeOK, JudgedInv,
                       NEW t \in Threads, pc[t] = "replace", path # NoFile, path = judged[t],
                       path.published, InUse(path)
                PROVE  FALSE
    BY DEF JudgedFileNotInUse
  <2>1. path.owner \in Threads /\ pc[path.owner] # "down"
    BY FileType DEF TypeOK, InUse, Owning
  <2>2. OwnerIsLive(path)
    BY <2>1 DEF JudgedInv, OwnerIsLive
  <2>. QED BY <2>2 DEF JudgedInv
<1>. QED BY <1>1, <1>2, <1>3, PTL DEF Spec

-----------------------------------------------------------------------------
(* The lock that callers rely on.                                          *)

\* The lock is a thread's from os.open to unlink, and the thread is in the body
\* of the with statement in between.  A file of nobody is left behind.
HaveLock == {t \in Threads : pc[t] \in Owning}
InBody == {t \in Threads : pc[t] = "hold"}
LeftBehind == path # NoFile /\ ~ InUse(path)

Writer == INSTANCE WriterLock
            WITH Users <- Threads, users <- HaveLock, inside <- InBody, left <- LeftBehind

\* A thread that has the lock is the only one, and its is the file at the path.
LEMMA OneUser ==
  ASSUME LockInv, ~ misjudged
  PROVE  /\ \A t \in HaveLock : HaveLock = {t} /\ ~ LeftBehind
         /\ InBody \subseteq HaveLock
<1>1. \A t \in HaveLock : path # NoFile /\ path.owner = t
  BY DEF LockInv, OwnersHaveTheFile, HaveLock
<1>2. \A t \in HaveLock : ~ LeftBehind
  BY <1>1 DEF LeftBehind, InUse, HaveLock
<1>3. InBody \subseteq HaveLock
  BY DEF InBody, HaveLock, Owning
<1>. QED BY <1>1, <1>2, <1>3

\* The lock does not pass from one thread to another in one step.
LEMMA NoHandover ==
  ASSUME LockInv, ~ misjudged, [Next]_vars,
         NEW t \in Threads, NEW u \in Threads, pc[t] \in Owning, pc'[u] \in Owning
  PROVE  pc[u] \in Owning /\ t = u
<1>1. path # NoFile /\ TypeOK
  BY DEF LockInv, OwnersHaveTheFile
<1>2. pc[u] \in Owning
  <2>1. ASSUME NEW v \in Threads, Acquire(v) \/ ClearOnStartup(v) \/ CallStep(v)
        PROVE  pc[u] \in Owning
    <3>1. ~ Create(v)
      BY <1>1 DEF Create
    <3>. QED BY <1>1, <2>1, <3>1, Entries
  <2>2. ASSUME NEW i \in Pids, Crash(i) \/ Restart(i) PROVE pc[u] \in Owning
    BY <2>2 DEF Crash, Restart, Owning
  <2>3. CASE UNCHANGED vars
    BY <2>3 DEF vars
  <2>. QED BY <2>1, <2>2, <2>3 DEF Next
<1>. QED BY <1>2, OneUser DEF HaveLock

\* A file comes to the path with a thread that has the lock.
LEMMA NoneLeftByNobody ==
  ASSUME LockInv, [Next]_vars, path = NoFile, path' # NoFile
  PROVE  HaveLock' # {}
<1>1. PICK t \in Threads : Create(t)
  <2>1. ASSUME NEW t \in Threads, Acquire(t) \/ ClearOnStartup(t) \/ CallStep(t)
        PROVE  Create(t)
    BY <2>1, PathSteps DEF LockInv
  <2>2. ASSUME NEW i \in Pids PROVE ~ (Crash(i) \/ Restart(i))
    BY DEF Crash, Restart
  <2>. QED BY <2>1, <2>2 DEF Next, vars
<1>2. pc'[t] \in Owning
  BY <1>1 DEF Create, Goto, LockInv, TypeOK, Owning
<1>. QED BY <1>2 DEF HaveLock

LEMMA WriterStep ==
  ASSUME LockInv, [Next]_vars, ~ misjudged'
  PROVE  [Writer!Next]_(Writer!vars)
<1>1. ~ misjudged
  <2>1. CASE Next
    BY <2>1 DEF Next, CallStep, Acquire, ClearOnStartup, Create, Blocked, Stat, Inspect, Replace,
                ReplaceRefused, Publish, PublishFails, Leave, VerifyToken, Unlink,
                UnlinkSuppressed, Crash, Restart, LockInv, TypeOK
  <2>2. CASE UNCHANGED vars
    BY <2>2 DEF vars
  <2>. QED BY <2>1, <2>2
<1>2. LockInv'
  BY TypeStep, OwnersStep DEF LockInv
<1>3. /\ \A t \in HaveLock : HaveLock = {t} /\ ~ LeftBehind
      /\ InBody \subseteq HaveLock
  BY <1>1, OneUser
<1>4. /\ \A t \in HaveLock' : HaveLock' = {t} /\ ~ LeftBehind'
      /\ InBody' \subseteq HaveLock'
  <2>. SUFFICES (LockInv /\ ~ misjudged =>
                   /\ \A t \in HaveLock : HaveLock = {t} /\ ~ LeftBehind
                   /\ InBody \subseteq HaveLock)'
    BY <1>2
  <2>. QED BY OneUser, PTL
<1>5. CASE HaveLock = {} /\ HaveLock' = {}
  <2>1. LeftBehind' => LeftBehind
    <3>1. path' # NoFile /\ path = NoFile => FALSE
      BY <1>5, NoneLeftByNobody
    <3>2. path # NoFile => path.owner \in Threads
      BY FileType DEF LockInv, TypeOK
    <3>3. path # NoFile => LeftBehind
      BY <1>5, <3>2 DEF LeftBehind, InUse, HaveLock
    <3>. QED BY <3>1, <3>3 DEF LeftBehind
  <2>2. InBody = {} /\ InBody' = {}
    BY <1>3, <1>4, <1>5
  <2>3. LeftBehind \in BOOLEAN /\ LeftBehind' \in BOOLEAN
    BY DEF LeftBehind
  <2>4. CASE LeftBehind' = LeftBehind
    BY <1>5, <2>2, <2>4 DEF Writer!vars
  <2>5. CASE LeftBehind' # LeftBehind
    <3>1. Writer!Clear
      BY <1>5, <2>1, <2>2, <2>3, <2>5 DEF Writer!Clear
    <3>. QED BY <3>1 DEF Writer!Next
  <2>. QED BY <2>4, <2>5
<1>6. ASSUME HaveLock = {}, NEW t \in HaveLock' PROVE [Writer!Next]_(Writer!vars)
  <2>1. t \in Threads
    BY <1>6 DEF HaveLock
  <2>2. HaveLock' = {t} /\ LeftBehind' = FALSE /\ InBody' \in {{}, {t}}
    BY <1>4, <1>6 DEF LeftBehind
  <2>. QED BY <1>6, <2>1, <2>2 DEF Writer!Next, Writer!Take
<1>7. ASSUME HaveLock' = {}, NEW t \in HaveLock PROVE [Writer!Next]_(Writer!vars)
  <2>1. t \in Threads
    BY <1>7 DEF HaveLock
  <2>2. HaveLock = {t} /\ InBody' = {} /\ LeftBehind' \in BOOLEAN
    BY <1>3, <1>4, <1>7 DEF LeftBehind
  <2>. QED BY <1>7, <2>1, <2>2 DEF Writer!Next, Writer!GiveBack, Writer!LeaveBehind
<1>8. ASSUME NEW t \in HaveLock, NEW u \in HaveLock' PROVE [Writer!Next]_(Writer!vars)
  <2>1. t \in Threads /\ t = u
    BY <1>1, <1>8, NoHandover DEF HaveLock
  <2>2. HaveLock = {t} /\ HaveLock' = {t} /\ LeftBehind = FALSE /\ LeftBehind' = FALSE
    BY <1>3, <1>4, <1>8, <2>1 DEF LeftBehind
  <2>3. InBody \in {{}, {t}} /\ InBody' \in {{}, {t}}
    BY <1>3, <1>4, <2>2
  <2>. QED BY <2>1, <2>2, <2>3 DEF Writer!Next, Writer!vars, Writer!Begin, Writer!End
<1>. QED BY <1>5, <1>6, <1>7, <1>8

\* As long as no cleaner takes away a lock file in use, the file-system calls of
\* any number of threads, whose processes may die between any two of them, are
\* those of a lock with one user, which passes on by being given back or left
\* behind and is cleared by nobody while it is in use.
THEOREM LockIsImplemented == Spec /\ []~ misjudged => Writer!Spec
<1>1. Init => LockInv /\ Writer!Init
  <2>. SUFFICES ASSUME Init PROVE LockInv /\ Writer!Init
    OBVIOUS
  <2>1. \A t \in Threads : pc[t] = "idle"
    BY DEF Init
  <2>2. HaveLock = {} /\ InBody = {} /\ LeftBehind = FALSE
    BY <2>1 DEF Init, HaveLock, InBody, LeftBehind, Owning
  <2>. QED BY <2>2, InitialState DEF LockInv, Writer!Init
<1>2. LockInv /\ [Next]_vars => LockInv'
  BY TypeStep, OwnersStep DEF LockInv
<1>3. LockInv /\ [Next]_vars /\ (~ misjudged)' => [Writer!Next]_(Writer!vars)
  BY WriterStep
<1>. QED BY <1>1, <1>2, <1>3, PTL DEF Spec, Writer!Spec
=============================================================================
