------------------------- MODULE TransactionsProofs -------------------------
(***************************************************************************)
(* Proofs about Transactions, for every set of processes, operations,      *)
(* files and rows.                                                         *)
(*                                                                         *)
(* The first part allows every kind of fault and any number of crashes:    *)
(* types, no lost update, commits and aborts of whole operations, the use  *)
(* of the lock.  The second part, from "The atomic store" on, shows that   *)
(* Transactions implements AtomicStore wherever recovery has what it       *)
(* needs: for one daemon that dies outside rollback(), and for commands    *)
(* that do not die; and that its files alone do, for one daemon that dies  *)
(* anywhere.                                                               *)
(***************************************************************************)
EXTENDS MCTransactions, TLAPS

\* Where a process is inside apply(), inside rollback(), or with a manifest that
\* recover_interrupted() picked.
Writing == {"applying_row", "write", "commit", "journal", "applied_row", "restore", "fail"}
ApplyLabels == Writing \cup {"plan_row", "acquire", "check", "fail_journal", "fail_row"}
RollbackLabels == UndoLabels \cup {"undo_plan_row", "undo_acquire", "undo_check"}
RecoverLabels == RestoringLabels \cup {"recover_acquire"}

\* Where a process is inside the with statement of the writer lock.
Locked ==
  Writing \cup UndoLabels \cup RestoringLabels
    \cup {"check", "fail_journal", "fail_row", "undo_check", "release"}

\* A process inside the with statement owns the lock, so there is only one.
OwnsLock(p) == pc[p] \in Locked => lock = p

\* A process works on an operation of the kind its place in the code implies.
OperationFits(p) ==
  /\ pc[p] \in ApplyLabels => op[p] \in Ops
  /\ pc[p] \in RollbackLabels => op[p] \in Undos /\ manifest[op[p]].state # "none"
  /\ pc[p] \in RecoverLabels =>
       op[p] \in Ids /\ (op[p] \in Undos => mem[p].undoes \in Ops)

\* A process that may have to restore rows has a snapshot of them in memory.
HasSnapshot(p) ==
  /\ pc[p] \in Writing =>
       mem[p].before # None /\ manifest[op[p]].before = mem[p].before
  /\ pc[p] \in RollbackLabels => mem[p].state = "applied" /\ mem[p].before # None

\* How far the files and rows of an operation are, at each point of apply().
Written(p) ==
  /\ pc[p] = "applying_row" => todo[p] = WriteSet[op[p]]
  /\ pc[p] \in {"write", "commit"} =>
       \A f \in WriteSet[op[p]] \ todo[p] : file[f] = op[p]
  /\ pc[p] = "commit" => todo[p] = {} /\ \A r \in Scope[op[p]] : row[r] = op[p]
  /\ pc[p] \in {"restore", "fail"} =>
       \A f \in WriteSet[op[p]] \ todo[p] : file[f] = backup[op[p]][f]
  /\ pc[p] = "fail" /\ ~ mem[p].rollback_error =>
       todo[p] = {} /\ \A r \in Scope[op[p]] : row[r] = mem[p].before[r]

\* Files not yet written still have the content the plan was made against.
Unwritten(p) ==
  pc[p] \in {"applying_row", "write"} /\ op[p] \in Guarded =>
    \A f \in todo[p] : file[f] = expected[p][f]

ProcessInv(p) ==
  OwnsLock(p) /\ OperationFits(p) /\ HasSnapshot(p) /\ Written(p) /\ Unwritten(p)

\* A rollback's manifest names the operation it compensates, and the manifest of
\* an applied operation has the snapshot a rollback needs.
ManifestInv ==
  /\ \A u \in Undos : manifest[u].state # "none" => manifest[u].undoes \in Ops
  /\ \A o \in Ops : manifest[o].state = "applied" => manifest[o].before # None

\* The inductive invariant.
TxInv == TypeOK /\ ManifestInv /\ \A p \in Procs : ProcessInv(p)

-----------------------------------------------------------------------------
(* Types.                                                                  *)

ManifestStates ==
  {"none", "planned", "applying", "applied", "failed", "recovered_rollback"}

\* A fresh manifest, and a manifest with some fields changed, are manifests.
LEMMA ManifestType ==
  /\ \A s \in ManifestStates, o \in Ops \cup {None} : NewManifest(s, o) \in Manifest
  /\ \A m \in Manifest, s \in ManifestStates : [m EXCEPT !.state = s] \in Manifest
  /\ \A m \in Manifest, s \in ManifestStates, w \in SUBSET Files, b \in RowSnapshot :
       [m EXCEPT !.state = s, !.writes = w, !.before = b] \in Manifest
  /\ \A m \in Manifest, s \in ManifestStates, b \in RowSnapshot :
       [m EXCEPT !.state = s, !.after = b] \in Manifest
  /\ \A m \in Manifest, s \in ManifestStates, w \in SUBSET Files, b \in RowSnapshot :
       [m EXCEPT !.state = s, !.writes = w, !.before_rollback = b] \in Manifest
  /\ \A m \in Manifest, u \in Undos : [m EXCEPT !.rolled_back_by = u] \in Manifest
  /\ \A m \in Manifest : [m EXCEPT !.rollback_error = TRUE] \in Manifest
BY DEF Manifest, ManifestStates, NewManifest

\* Snapshots and copies have the type of what they copy.
LEMMA SnapshotType ==
  ASSUME TypeOK
  PROVE  /\ \A o : Captured(o) \in RowSnapshot
         /\ \A o : \A s \in RowSnapshot : Restored(s, o) \in RowSnapshot
         /\ \A fs : Copied(fs) \in [Files -> Content]
<1>. USE DEF TypeOK, RowSnapshot, Content
<1>1. \A o : Captured(o) \in RowSnapshot
  BY DEF Captured
<1>2. \A o : \A s \in RowSnapshot : Restored(s, o) \in RowSnapshot
  BY DEF Restored
<1>3. \A fs : Copied(fs) \in [Files -> Content]
  BY DEF Copied
<1>. QED BY <1>1, <1>2, <1>3

OpRowStates == {"none", "planned", "applying", "applied", "failed", "recovered_rollback"}
JournalStates == {"none", "applied", "failed", "rolled_back", "recovered_rollback"}

\* The four generic steps keep every type.
LEMMA RecordType ==
  ASSUME TypeOK, NEW p \in Procs, NEW from, NEW status \in OpRowStates,
         NEW to \in Labels, Record(p, from, status, to)
  PROVE  TypeOK'
BY DEF TypeOK, Record, Goto, OpRowStates, local

LEMMA JournalType ==
  ASSUME TypeOK, NEW p \in Procs, NEW from, NEW i, NEW status \in JournalStates,
         NEW to \in Labels, Journal(p, from, i, status, to)
  PROVE  TypeOK'
BY DEF TypeOK, Journal, Goto, JournalStates, local

LEMMA PutFileType ==
  ASSUME TypeOK, NEW p \in Procs, NEW at, NEW f \in Files, NEW content \in Content,
         PutFile(p, at, f, content)
  PROVE  TypeOK'
BY DEF TypeOK, PutFile

LEMMA PutRowsType ==
  ASSUME TypeOK, NEW p \in Procs, NEW at, NEW rows \in RowSnapshot,
         NEW to \in Labels, PutRows(p, at, rows, to)
  PROVE  TypeOK'
BY DEF TypeOK, PutRows, Goto, local

LEMMA ForgetType ==
  ASSUME TypeOK, NEW p \in Procs, Forget(p)
  PROVE  /\ op' \in [Procs -> Ids \cup {None}]
         /\ mem' \in [Procs -> Manifest]
         /\ expected' \in [Procs -> [Files -> Content] \cup {None}]
         /\ todo' \in [Procs -> SUBSET Files]
         /\ pending' \in [Procs -> SUBSET Ids]
<1>1. NewManifest("none", None) \in Manifest
  BY ManifestType DEF ManifestStates
<1>. QED BY <1>1 DEF TypeOK, Forget

\* Every step of apply() keeps every type.
LEMMA ApplyType ==
  ASSUME TxInv, NEW p \in Procs, ApplyStep(p)
  PROVE  TypeOK'
<1>. USE DEF TxInv, ProcessInv, OperationFits, HasSnapshot, ApplyLabels, Writing
<1>1. TypeOK
  OBVIOUS
<1>2. CASE RecordPlanned(p)
  BY <1>2, RecordType DEF RecordPlanned, OpRowStates, Labels
<1>3. CASE AcquireForApply(p)
  BY <1>3 DEF AcquireForApply, TakeLock, TypeOK, Goto, Labels, disk, local
<1>4. CASE Prepare(p)
  <2>1. [mem[p] EXCEPT !.state = "applying", !.writes = WriteSet[op[p]],
                       !.before = Captured(op[p])] \in Manifest
    <3>1. mem[p] \in Manifest /\ Captured(op[p]) \in RowSnapshot
      BY SnapshotType DEF TypeOK
    <3>2. WriteSet[op[p]] \in SUBSET Files
      BY <1>4, PlanAssumption DEF Prepare
    <3>. QED BY <3>1, <3>2, ManifestType DEF ManifestStates
  <2>2. Copied(WriteSet[op[p]]) \in [Files -> Content] /\ WriteSet[op[p]] \in SUBSET Files
    BY <1>4, SnapshotType, PlanAssumption DEF Prepare
  <2>. QED BY <1>4, <2>1, <2>2 DEF Prepare, WriteManifest, Goto, TypeOK, Labels
<1>5. CASE PrepareRefused(p)
  BY <1>5 DEF PrepareRefused, TypeOK, Goto, Labels, disk, local
<1>6. CASE RecordApplying(p)
  BY <1>6, RecordType DEF RecordApplying, OpRowStates, Labels
<1>7. ASSUME NEW f \in Files, WriteFile(p, f) PROVE TypeOK'
  <2>1. op[p] \in Content
    BY <1>7 DEF WriteFile, PutFile, Content
  <2>. QED BY <1>7, <2>1, PutFileType DEF WriteFile
<1>8. CASE MutateRows(p)
  <2>1. [r \in Rows |-> IF r \in Scope[op[p]] THEN op[p] ELSE row[r]] \in RowSnapshot
    BY <1>8 DEF MutateRows, PutRows, RowSnapshot, Content, TypeOK
  <2>. QED BY <1>8, <2>1, PutRowsType DEF MutateRows, Labels
<1>9. CASE CommitManifest(p)
  <2>1. [mem[p] EXCEPT !.state = "applied", !.after = Captured(op[p])] \in Manifest
    BY ManifestType, SnapshotType DEF ManifestStates, TypeOK
  <2>. QED BY <1>9, <2>1 DEF CommitManifest, WriteManifest, Goto, TypeOK, Labels
<1>10. CASE JournalApplied(p)
  BY <1>10, JournalType DEF JournalApplied, JournalStates, Labels
<1>11. CASE RecordApplied(p)
  BY <1>11, RecordType DEF RecordApplied, OpRowStates, Labels
<1>12. ASSUME NEW f \in Files, RestoreFile(p, f) PROVE TypeOK'
  <2>1. backup[op[p]][f] \in Content
    BY <1>12 DEF RestoreFile, PutFile, TypeOK, Ids
  <2>. QED BY <1>12, <2>1, PutFileType DEF RestoreFile
<1>13. CASE RestoreRows(p)
  <2>1. mem[p].before \in RowSnapshot
    BY <1>13 DEF RestoreRows, PutRows, TypeOK, Manifest
  <2>2. Restored(mem[p].before, op[p]) \in RowSnapshot
    BY <1>1, <2>1, SnapshotType
  <2>. QED BY <1>13, <2>2, PutRowsType DEF RestoreRows, Labels
<1>14. CASE FailManifest(p)
  <2>1. [mem[p] EXCEPT !.state = "failed"] \in Manifest
    BY ManifestType DEF ManifestStates, TypeOK
  <2>. QED BY <1>14, <2>1 DEF FailManifest, WriteManifest, Goto, TypeOK, Labels
<1>15. CASE JournalFailed(p)
  BY <1>15, JournalType DEF JournalFailed, JournalStates, Labels
<1>16. CASE RecordFailed(p)
  BY <1>16, RecordType DEF RecordFailed, OpRowStates, Labels
<1>. QED
  BY <1>2, <1>3, <1>4, <1>5, <1>6, <1>7, <1>8, <1>9, <1>10, <1>11, <1>12, <1>13,
     <1>14, <1>15, <1>16 DEF ApplyStep

\* Every step of rollback() keeps every type.
LEMMA UndoType ==
  ASSUME TxInv, NEW p \in Procs, UndoStep(p)
  PROVE  TypeOK'
<1>. USE DEF TxInv, ProcessInv, OperationFits, HasSnapshot, RollbackLabels, UndoLabels
<1>1. TypeOK
  OBVIOUS
<1>2. CASE RecordUndoPlanned(p)
  BY <1>2, RecordType DEF RecordUndoPlanned, OpRowStates, Labels
<1>3. CASE AcquireForUndo(p)
  BY <1>3 DEF AcquireForUndo, TakeLock, TypeOK, Goto, Labels, disk, local
<1>4. CASE PrepareUndo(p)
  <2>1. /\ manifest[op[p]] \in Manifest
        /\ mem[p].writes \in SUBSET Files
        /\ Captured(PlanOf(op[p])) \in RowSnapshot
    BY <1>4, SnapshotType DEF PrepareUndo, TypeOK, Ids, Manifest
  <2>2. [manifest[op[p]] EXCEPT !.state = "applying", !.writes = mem[p].writes,
                                !.before_rollback = Captured(PlanOf(op[p]))] \in Manifest
    BY <2>1, ManifestType DEF ManifestStates
  <2>3. Copied(mem[p].writes) \in [Files -> Content]
    BY SnapshotType
  <2>. QED BY <1>4, <2>1, <2>2, <2>3 DEF PrepareUndo, WriteManifest, Goto, TypeOK, Labels
<1>5. CASE UndoRefused(p)
  BY <1>5 DEF UndoRefused, TypeOK, Goto, Labels, disk, local
<1>6. CASE RecordUndoApplying(p)
  BY <1>6, RecordType DEF RecordUndoApplying, OpRowStates, Labels
<1>7. ASSUME NEW f \in Files, UndoFile(p, f) PROVE TypeOK'
  <2>1. PlanOf(op[p]) \in Ids
    BY <1>7 DEF UndoFile, PutFile, ManifestInv, PlanOf, Ids
  <2>2. backup[PlanOf(op[p])][f] \in Content
    BY <2>1 DEF TypeOK
  <2>. QED BY <1>7, <2>2, PutFileType DEF UndoFile
<1>8. CASE UndoRows(p)
  <2>1. mem[p].before \in RowSnapshot
    BY <1>8 DEF UndoRows, PutRows, TypeOK, Manifest
  <2>2. Restored(mem[p].before, PlanOf(op[p])) \in RowSnapshot
    BY <1>1, <2>1, SnapshotType
  <2>. QED BY <1>8, <2>2, PutRowsType DEF UndoRows, Labels
<1>9. CASE CommitUndo(p)
  <2>1. op[p] \in Ids /\ [manifest[op[p]] EXCEPT !.state = "applied"] \in Manifest
    BY <1>9, ManifestType DEF CommitUndo, ManifestStates, TypeOK, Ids
  <2>2. manifest' = [manifest EXCEPT ![op[p]] = [manifest[op[p]] EXCEPT !.state = "applied"]]
    BY <1>9 DEF CommitUndo
  <2>3. manifest' \in [Ids -> Manifest]
    BY <2>1, <2>2 DEF TypeOK
  <2>. QED BY <1>9, <2>3 DEF CommitUndo, Goto, TypeOK, Labels, local
<1>10. CASE JournalUndo(p)
  BY <1>10, JournalType DEF JournalUndo, JournalStates, Labels
<1>11. CASE RecordUndoApplied(p)
  BY <1>11, RecordType DEF RecordUndoApplied, OpRowStates, Labels
<1>12. CASE MarkRolledBack(p)
  <2>1. [mem[p] EXCEPT !.rolled_back_by = op[p]] \in Manifest
    BY <1>12, ManifestType DEF MarkRolledBack, TypeOK
  <2>. QED BY <1>12, <2>1 DEF MarkRolledBack, WriteManifest, Goto, TypeOK, Labels, local
<1>13. CASE JournalRolledBack(p)
  BY <1>13, JournalType DEF JournalRolledBack, JournalStates, Labels
<1>. QED
  BY <1>2, <1>3, <1>4, <1>5, <1>6, <1>7, <1>8, <1>9, <1>10, <1>11, <1>12, <1>13
  DEF UndoStep

\* Every step of recover_interrupted() keeps every type.
LEMMA RecoverType ==
  ASSUME TxInv, NEW p \in Procs, RecoverStep(p)
  PROVE  TypeOK'
<1>. USE DEF TxInv, ProcessInv, OperationFits, RecoverLabels, RestoringLabels
<1>1. TypeOK
  OBVIOUS
<1>2. CASE Boot(p)
  BY <1>2 DEF Boot, TypeOK, Goto, Labels, disk, Manifests
<1>3. ASSUME NEW i \in Ids, Scan(p, i) PROVE TypeOK'
  <2>1. CASE manifest[i].state = "applying"
    <3>1. manifest[i] \in Manifest
      BY DEF TypeOK
    <3>2. /\ op' = [op EXCEPT ![p] = i]
          /\ mem' = [mem EXCEPT ![p] = manifest[i]]
          /\ pc' = [pc EXCEPT ![p] = "recover_acquire"]
          /\ pending' = [pending EXCEPT ![p] = @ \ {i}]
          /\ UNCHANGED <<disk, lock, expected, todo, crashes>>
      BY <1>3, <2>1 DEF Scan, Goto
    <3>. QED BY <1>1, <3>1, <3>2 DEF TypeOK, Labels, disk
  <2>2. CASE manifest[i].state # "applying"
    BY <1>3, <2>2 DEF Scan, TypeOK, Goto, disk
  <2>. QED BY <2>1, <2>2
<1>4. CASE ScanDone(p)
  BY <1>4 DEF ScanDone, TypeOK, Goto, Labels, disk, local
<1>5. CASE AcquireForRecovery(p)
  <2>1. mem[p].writes \in SUBSET Files
    BY DEF TypeOK, Manifest
  <2>. QED BY <1>5, <2>1 DEF AcquireForRecovery, TakeLock, TypeOK, Goto, Labels, disk
<1>6. ASSUME NEW f \in Files, RecoverFile(p, f) PROVE TypeOK'
  <2>1. backup[op[p]][f] \in Content
    BY <1>6 DEF RecoverFile, PutFile, TypeOK
  <2>. QED BY <1>6, <2>1, PutFileType DEF RecoverFile
<1>7. CASE RecoverRows(p)
  <2>1. mem[p].before # None => Restored(mem[p].before, PlanOf(op[p])) \in RowSnapshot
    <3>1. mem[p].before # None => mem[p].before \in RowSnapshot
      BY DEF TypeOK, Manifest
    <3>. QED BY <1>1, <3>1, SnapshotType
  <2>2. (IF mem[p].before # None THEN Restored(mem[p].before, PlanOf(op[p])) ELSE row)
          \in RowSnapshot
    BY <2>1 DEF TypeOK
  <2>. QED BY <1>7, <2>2, PutRowsType DEF RecoverRows, Labels
<1>8. CASE RecoverManifest(p)
  <2>1. [mem[p] EXCEPT !.state = "recovered_rollback"] \in Manifest
    BY ManifestType DEF ManifestStates, TypeOK
  <2>. QED BY <1>8, <2>1 DEF RecoverManifest, WriteManifest, Goto, TypeOK, Labels
<1>9. CASE JournalRecovered(p)
  BY <1>9, JournalType DEF JournalRecovered, JournalStates, Labels
<1>10. CASE RecordRecovered(p)
  <2>1. (IF opRow[op[p]] = "none" THEN "none" ELSE "recovered_rollback") \in OpRowStates
    BY DEF OpRowStates
  <2>. QED BY <1>10, <2>1, RecordType DEF RecordRecovered, Labels
<1>11. CASE ReleaseRecovered(p)
  BY <1>11, ManifestType DEF ReleaseRecovered, ManifestStates, TypeOK, Goto, Labels, disk
<1>. QED
  BY <1>2, <1>3, <1>4, <1>5, <1>6, <1>7, <1>8, <1>9, <1>10, <1>11 DEF RecoverStep

\* Every step keeps every type.
LEMMA TypeStep == TxInv /\ [Next]_vars => TypeOK'
<1>. SUFFICES ASSUME TxInv, [Next]_vars
              PROVE  TypeOK'
  OBVIOUS
<1>1. TypeOK
  BY DEF TxInv
<1>2. NewManifest("none", None) \in Manifest /\ NewManifest("planned", None) \in Manifest
  BY ManifestType DEF ManifestStates
<1>3. ASSUME NEW p \in Procs, Call(p) PROVE TypeOK'
  <2>1. ASSUME NEW o \in Ops, BeginApply(p, o) PROVE TypeOK'
    BY <1>1, <1>2, <2>1 DEF BeginApply, TypeOK, WriteManifest, Goto, Labels, Ids
  <2>2. ASSUME NEW o \in Ops, NEW u \in Undos, BeginUndo(p, u, o) PROVE TypeOK'
    <3>1. NewManifest("planned", o) \in Manifest
      BY ManifestType DEF ManifestStates
    <3>. QED BY <1>1, <2>2, <3>1 DEF BeginUndo, TypeOK, WriteManifest, Goto, Labels, Ids
  <2>3. CASE BeginRecover(p)
    BY <1>1, <2>3 DEF BeginRecover, TypeOK, Goto, Labels, disk, Manifests
  <2>. QED BY <1>3, <2>1, <2>2, <2>3 DEF Call
<1>4. ASSUME NEW p \in Procs, Step(p) PROVE TypeOK'
  <2>1. CASE Release(p)
    BY <1>1, <2>1, ForgetType DEF Release, TypeOK, Goto, Labels, disk
  <2>2. CASE AcquireRefused(p)
    BY <1>1, <2>2, ForgetType DEF AcquireRefused, Idle, TypeOK, Goto, Labels, disk
  <2>. QED BY <1>4, <2>1, <2>2, ApplyType, UndoType, RecoverType DEF Step
<1>5. ASSUME NEW p \in Procs, Fault(p) PROVE TypeOK'
  <2>1. CASE Raise(p)
    <3>1. op[p] \in Ops
      BY <2>1 DEF Raise, TxInv, ProcessInv, OperationFits, ApplyLabels, Writing
    <3>2. WriteSet[op[p]] \in SUBSET Files
      BY <3>1, PlanAssumption
    <3>. QED BY <1>1, <2>1, <3>2 DEF Raise, TypeOK, Goto, Labels, disk
  <2>2. CASE RaiseUnguarded(p)
    BY <1>1, <2>2 DEF RaiseUnguarded, TypeOK, Goto, Labels, disk, local
  <2>3. CASE Crash(p)
    BY <1>1, <2>3, ForgetType, FaultAssumption DEF Crash, TypeOK, Goto, Labels, disk
  <2>4. CASE RaiseInRestore(p)
    <3>1. mem' = [mem EXCEPT ![p] = [mem[p] EXCEPT !.rollback_error = TRUE]]
      BY <2>4 DEF RaiseInRestore
    <3>2. [mem[p] EXCEPT !.rollback_error = TRUE] \in Manifest
      BY <1>1, ManifestType DEF TypeOK
    <3>3. mem' \in [Procs -> Manifest]
      BY <1>1, <3>1, <3>2 DEF TypeOK
    <3>. QED BY <1>1, <2>4, <3>3 DEF RaiseInRestore, TypeOK, Goto, Labels, disk
  <2>5. CASE RaiseInRecovery(p)
    BY <1>1, <2>5, ForgetType DEF RaiseInRecovery, Idle, TypeOK, Goto, Labels, disk
  <2>. QED BY <1>5, <2>1, <2>2, <2>3, <2>4, <2>5 DEF Fault
<1>6. ASSUME NEW p \in Procs, Restart(p) PROVE TypeOK'
  BY <1>1, <1>6 DEF Restart, Idle, TypeOK, Goto, Labels, disk, local
<1>7. CASE UNCHANGED vars
  BY <1>1, <1>7 DEF vars, TypeOK, disk, local
<1>. QED BY <1>3, <1>4, <1>5, <1>6, <1>7 DEF Next

-----------------------------------------------------------------------------
(* What a step of one process leaves to the others.                        *)

\* A step of process p changes nothing that another process relies on: not its
\* variables, not the lock it owns, and outside the lock no file, row, copy or
\* manifest that a process in the with statement works on.
Frame(p) ==
  /\ \A q \in Procs \ {p} :
       /\ pc'[q] = pc[q] /\ op'[q] = op[q] /\ mem'[q] = mem[q]
       /\ todo'[q] = todo[q] /\ expected'[q] = expected[q]
  /\ lock' = lock \/ lock \notin Procs \ {p}
  /\ pc[p] \notin Locked =>
       /\ UNCHANGED <<file, row, backup>>
       /\ \A q \in Procs \ {p} :
            pc[q] \in Writing => manifest'[op[q]] = manifest[op[q]]
  /\ \A i \in Ids : manifest[i].state # "none" => manifest'[i].state # "none"

\* It is enough that a step respects the frame and its own process's invariant.
LEMMA FrameRule ==
  ASSUME TxInv, NEW p \in Procs, Frame(p), ProcessInv(p)'
  PROVE  \A q \in Procs : ProcessInv(q)'
<1>. SUFFICES ASSUME NEW q \in Procs, q # p
              PROVE  ProcessInv(q)'
  OBVIOUS
<1>1. ProcessInv(q) /\ TypeOK
  BY DEF TxInv
<1>2. /\ pc'[q] = pc[q] /\ op'[q] = op[q] /\ mem'[q] = mem[q]
      /\ todo'[q] = todo[q] /\ expected'[q] = expected[q]
  BY DEF Frame
<1>3. pc[q] \in Locked => lock = q /\ lock' = lock /\ pc[p] \notin Locked
  BY <1>1 DEF Frame, ProcessInv, OwnsLock, TxInv
<1>4. OwnsLock(q)'
  BY <1>2, <1>3 DEF OwnsLock
<1>5. OperationFits(q)'
  BY <1>1, <1>2, NameAssumption DEF OperationFits, Frame, ProcessInv, Ids
<1>6. HasSnapshot(q)'
  BY <1>1, <1>2, <1>3 DEF HasSnapshot, Frame, ProcessInv, Locked
<1>7. Written(q)'
  BY <1>1, <1>2, <1>3 DEF Written, Frame, ProcessInv, Locked, Writing
<1>8. Unwritten(q)'
  BY <1>1, <1>2, <1>3 DEF Unwritten, Frame, ProcessInv, Locked, Writing
<1>. QED BY <1>4, <1>5, <1>6, <1>7, <1>8 DEF ProcessInv

\* The steps that only move on: they change the ledger, the operations row, or
\* nothing but the place in the code, and enter nothing that has to be set up.
Plain(p) ==
  /\ UNCHANGED <<file, row, manifest, backup, lock, op, mem, expected, todo>>
  /\ \A q \in Procs \ {p} : pc'[q] = pc[q]
  /\ \A labels \in {Locked, ApplyLabels, RollbackLabels, RecoverLabels, Writing} :
       pc'[p] \in labels => pc[p] \in labels
  /\ pc'[p] \notin {"applying_row", "commit", "restore", "fail"}
  /\ pc'[p] = "write" => pc[p] = "applying_row"

LEMMA PlainSteps ==
  ASSUME TypeOK, NEW p \in Procs,
         \/ RecordPlanned(p) \/ RecordApplying(p) \/ JournalApplied(p)
         \/ RecordApplied(p) \/ JournalFailed(p) \/ RecordFailed(p)
         \/ RecordUndoPlanned(p) \/ RecordUndoApplying(p) \/ JournalUndo(p)
         \/ RecordUndoApplied(p) \/ JournalRolledBack(p)
         \/ JournalRecovered(p) \/ RecordRecovered(p)
         \/ PrepareRefused(p) \/ UndoRefused(p) \/ RaiseUnguarded(p)
         \/ ScanDone(p) \/ Restart(p)
  PROVE  Plain(p)
<1>. USE DEF Plain, Record, Journal, Goto, disk, local, TypeOK,
             Locked, ApplyLabels, RollbackLabels, RecoverLabels, RestoringLabels,
             Writing, UndoLabels
<1>1. CASE RecordPlanned(p) \/ RecordApplying(p) \/ RecordApplied(p) \/ RecordFailed(p)
  BY <1>1 DEF RecordPlanned, RecordApplying, RecordApplied, RecordFailed
<1>2. CASE JournalApplied(p) \/ JournalFailed(p)
  BY <1>2 DEF JournalApplied, JournalFailed
<1>3. CASE RecordUndoPlanned(p) \/ RecordUndoApplying(p) \/ RecordUndoApplied(p)
  BY <1>3 DEF RecordUndoPlanned, RecordUndoApplying, RecordUndoApplied
<1>4. CASE JournalUndo(p) \/ JournalRolledBack(p)
  BY <1>4 DEF JournalUndo, JournalRolledBack
<1>5. CASE JournalRecovered(p) \/ RecordRecovered(p)
  BY <1>5 DEF JournalRecovered, RecordRecovered
<1>6. CASE PrepareRefused(p) \/ UndoRefused(p)
  BY <1>6 DEF PrepareRefused, UndoRefused
<1>7. CASE RaiseUnguarded(p)
  BY <1>7 DEF RaiseUnguarded
<1>8. CASE ScanDone(p) \/ Restart(p)
  BY <1>8 DEF ScanDone, Restart, Idle
<1>. QED BY <1>1, <1>2, <1>3, <1>4, <1>5, <1>6, <1>7, <1>8

LEMMA PlainStep ==
  ASSUME TxInv, NEW p \in Procs, Plain(p)
  PROVE  Frame(p) /\ ProcessInv(p)' /\ ManifestInv'
<1>. USE DEF TxInv, Plain
<1>1. Frame(p)
  BY DEF Frame
<1>2. ManifestInv'
  BY DEF ManifestInv
<1>3. OwnsLock(p)'
  BY DEF OwnsLock, ProcessInv
<1>4. OperationFits(p)'
  BY DEF OperationFits, ProcessInv
<1>5. HasSnapshot(p)'
  BY DEF HasSnapshot, ProcessInv
<1>6. Written(p)' /\ Unwritten(p)'
  BY DEF Written, Unwritten, ProcessInv
<1>. QED BY <1>1, <1>2, <1>3, <1>4, <1>5, <1>6 DEF ProcessInv

-----------------------------------------------------------------------------
(* The steps inside the with statement.                                    *)

\* One file gets its content, from the plan or from a copy.
LEMMA FileStep ==
  ASSUME TxInv, NEW p \in Procs, NEW f \in Files,
         WriteFile(p, f) \/ RestoreFile(p, f) \/ UndoFile(p, f) \/ RecoverFile(p, f)
  PROVE  Frame(p) /\ ProcessInv(p)' /\ ManifestInv'
<1>. USE DEF TxInv
<1>1. /\ UNCHANGED <<row, manifest, backup, lock, pc, op, mem, expected>>
      /\ todo' = [todo EXCEPT ![p] = @ \ {f}]
      /\ f \in todo[p]
      /\ pc[p] \in {"write", "restore", "undo_files", "recover_files"}
  BY DEF WriteFile, RestoreFile, UndoFile, RecoverFile, PutFile
<1>2. /\ \A g \in Files \ {f} : file'[g] = file[g]
      /\ pc[p] = "write" => file'[f] = op[p]
      /\ pc[p] = "restore" => file'[f] = backup[op[p]][f]
  BY DEF WriteFile, RestoreFile, UndoFile, RecoverFile, PutFile, TypeOK
<1>3. /\ todo'[p] = todo[p] \ {f}
      /\ todo[p] \in SUBSET Files
      /\ \A q \in Procs \ {p} : todo'[q] = todo[q]
  BY <1>1 DEF TypeOK
<1>4. Frame(p)
  BY <1>1, <1>3 DEF Frame, Locked, Writing, UndoLabels, RestoringLabels
<1>5. ManifestInv'
  BY <1>1 DEF ManifestInv
<1>6. OwnsLock(p)' /\ OperationFits(p)' /\ HasSnapshot(p)'
  BY <1>1 DEF OwnsLock, OperationFits, HasSnapshot, ProcessInv
<1>7. Written(p)'
  <2>1. pc[p] \in {"write", "restore"} => WriteSet[op[p]] \in SUBSET Files
    BY PlanAssumption DEF ProcessInv, OperationFits, ApplyLabels, Writing
  <2>2. Written(p)
    BY DEF ProcessInv
  <2>. QED BY <1>1, <1>2, <1>3, <2>1, <2>2 DEF Written
<1>8. Unwritten(p)'
  <2>1. Unwritten(p)
    BY DEF ProcessInv
  <2>. QED BY <1>1, <1>2, <1>3, <2>1 DEF Unwritten
<1>. QED BY <1>4, <1>5, <1>6, <1>7, <1>8 DEF ProcessInv

\* The rows change once every file has.
LEMMA RowStep ==
  ASSUME TxInv, NEW p \in Procs,
         MutateRows(p) \/ RestoreRows(p) \/ UndoRows(p) \/ RecoverRows(p)
  PROVE  Frame(p) /\ ProcessInv(p)' /\ ManifestInv'
<1>. USE DEF TxInv
<1>1. /\ UNCHANGED <<file, manifest, backup, lock, op, mem, expected, todo>>
      /\ todo[p] = {}
      /\ \A q \in Procs \ {p} : pc'[q] = pc[q]
      /\ \/ pc[p] = "write" /\ pc'[p] = "commit"
         \/ pc[p] = "restore" /\ pc'[p] = "fail"
         \/ pc[p] = "undo_files" /\ pc'[p] = "undo_commit"
         \/ pc[p] = "recover_files" /\ pc'[p] = "recover_manifest"
  BY DEF MutateRows, RestoreRows, UndoRows, RecoverRows, PutRows, Goto, local, TypeOK
<1>2. /\ pc[p] = "write" => \A r \in Scope[op[p]] : r \in Rows => row'[r] = op[p]
      /\ pc[p] = "restore" =>
           \A r \in Scope[op[p]] : r \in Rows => row'[r] = mem[p].before[r]
  BY DEF MutateRows, RestoreRows, UndoRows, RecoverRows, PutRows, Restored
<1>3. Frame(p)
  BY <1>1 DEF Frame, Locked, Writing, UndoLabels, RestoringLabels
<1>4. ManifestInv'
  BY <1>1 DEF ManifestInv
<1>5. OwnsLock(p)'
  BY <1>1 DEF OwnsLock, ProcessInv, Locked, Writing, UndoLabels, RestoringLabels
<1>6. OperationFits(p)'
  BY <1>1 DEF OperationFits, ProcessInv, ApplyLabels, Writing, RollbackLabels, UndoLabels,
              RecoverLabels, RestoringLabels
<1>7. HasSnapshot(p)'
  BY <1>1 DEF HasSnapshot, ProcessInv, Writing, RollbackLabels, UndoLabels
<1>8. Written(p)'
  <2>1. pc[p] \in {"write", "restore"} => Scope[op[p]] \in SUBSET Rows
    BY PlanAssumption DEF ProcessInv, OperationFits, ApplyLabels, Writing
  <2>2. Written(p)
    BY DEF ProcessInv
  <2>. QED BY <1>1, <1>2, <2>1, <2>2 DEF Written
<1>9. Unwritten(p)'
  BY <1>1 DEF Unwritten
<1>. QED BY <1>3, <1>4, <1>5, <1>6, <1>7, <1>8, <1>9 DEF ProcessInv

\* apply() and recover_interrupted() write the manifest in memory with a new state,
\* once all is written or restored.
LEMMA StateStep ==
  ASSUME TxInv, NEW p \in Procs,
         CommitManifest(p) \/ FailManifest(p) \/ RecoverManifest(p)
  PROVE  Frame(p) /\ ProcessInv(p)' /\ ManifestInv'
<1>. USE DEF TxInv
<1>. DEFINE Puts(m) ==
       /\ mem' = [mem EXCEPT ![p] = m]
       /\ manifest' = [manifest EXCEPT ![op[p]] = m]
       /\ m.before = mem[p].before /\ m.undoes = mem[p].undoes
       /\ m.state \in {"applied", "failed", "recovered_rollback"}
       /\ m.state = "applied" => pc[p] = "commit"
<1>1. PICK m : Puts(m)
  <2>1. mem[p] \in Manifest
    BY DEF TypeOK
  <2>2. CASE CommitManifest(p)
    <3>. DEFINE m1 == [mem[p] EXCEPT !.state = "applied", !.after = Captured(op[p])]
    <3>1. /\ mem' = [mem EXCEPT ![p] = m1] /\ manifest' = [manifest EXCEPT ![op[p]] = m1]
          /\ pc[p] = "commit"
      BY <2>2 DEF CommitManifest, WriteManifest
    <3>2. m1.before = mem[p].before /\ m1.undoes = mem[p].undoes /\ m1.state = "applied"
      BY <2>1 DEF Manifest
    <3>. HIDE DEF m1
    <3>. QED BY <3>1, <3>2
  <2>3. ASSUME NEW s \in {"failed", "recovered_rollback"},
               /\ mem' = [mem EXCEPT ![p] = [mem[p] EXCEPT !.state = s]]
               /\ manifest' = [manifest EXCEPT ![op[p]] = [mem[p] EXCEPT !.state = s]]
        PROVE  \E m : Puts(m)
    <3>. DEFINE m2 == [mem[p] EXCEPT !.state = s]
    <3>1. mem' = [mem EXCEPT ![p] = m2] /\ manifest' = [manifest EXCEPT ![op[p]] = m2]
      BY <2>3
    <3>2. m2.before = mem[p].before /\ m2.undoes = mem[p].undoes /\ m2.state = s
      BY <2>1 DEF Manifest
    <3>. HIDE DEF m2
    <3>. QED BY <3>1, <3>2
  <2>. QED BY <2>2, <2>3 DEF FailManifest, RecoverManifest, WriteManifest
<1>2. /\ UNCHANGED <<file, row, backup, lock, op, expected, todo>>
      /\ \A q \in Procs \ {p} : pc'[q] = pc[q]
      /\ \/ pc[p] = "commit" /\ pc'[p] = "journal"
         \/ pc[p] = "fail" /\ pc'[p] = "fail_journal"
         \/ pc[p] = "recover_manifest" /\ pc'[p] = "recover_journal"
  BY DEF CommitManifest, FailManifest, RecoverManifest, Goto, TypeOK
<1>3. /\ mem'[p] = m
      /\ \A q \in Procs \ {p} : mem'[q] = mem[q]
      /\ op[p] \in Ids
      /\ manifest'[op[p]] = m
      /\ \A i \in Ids \ {op[p]} : manifest'[i] = manifest[i]
  <2>1. op[p] \in Ids
    BY <1>2 DEF ProcessInv, OperationFits, ApplyLabels, Writing, RecoverLabels,
                RestoringLabels, Ids
  <2>. QED BY <1>1, <2>1 DEF TypeOK
<1>4. Frame(p)
  BY <1>1, <1>2, <1>3 DEF Frame, Locked, Writing, UndoLabels, RestoringLabels
<1>5. ManifestInv'
  BY <1>1, <1>2, <1>3, NameAssumption
  DEF ManifestInv, ProcessInv, OperationFits, HasSnapshot, ApplyLabels, Writing,
      RecoverLabels, RestoringLabels, Ids
<1>6. OwnsLock(p)'
  BY <1>2 DEF OwnsLock, ProcessInv, Locked, Writing, UndoLabels, RestoringLabels
<1>7. OperationFits(p)'
  BY <1>1, <1>2, <1>3 DEF OperationFits, ProcessInv, ApplyLabels, Writing, RollbackLabels,
                          UndoLabels, RecoverLabels, RestoringLabels
<1>8. HasSnapshot(p)'
  BY <1>1, <1>2, <1>3 DEF HasSnapshot, ProcessInv, Writing, RollbackLabels, UndoLabels
<1>9. Written(p)' /\ Unwritten(p)'
  BY <1>2 DEF Written, Unwritten
<1>. QED BY <1>4, <1>5, <1>6, <1>7, <1>8, <1>9 DEF ProcessInv

\* apply() takes its snapshot and copies, and sets out to write.
LEMMA PrepareStep ==
  ASSUME TxInv, NEW p \in Procs, Prepare(p)
  PROVE  Frame(p) /\ ProcessInv(p)' /\ ManifestInv'
<1>. USE DEF TxInv
<1>1. PICK m :
        /\ mem' = [mem EXCEPT ![p] = m]
        /\ manifest' = [manifest EXCEPT ![op[p]] = m]
        /\ m.before = Captured(op[p]) /\ m.state = "applying"
  <2>. DEFINE m0 == [mem[p] EXCEPT !.state = "applying", !.writes = WriteSet[op[p]],
                                   !.before = Captured(op[p])]
  <2>1. mem' = [mem EXCEPT ![p] = m0] /\ manifest' = [manifest EXCEPT ![op[p]] = m0]
    BY DEF Prepare, WriteManifest
  <2>2. m0.before = Captured(op[p]) /\ m0.state = "applying"
    BY DEF TypeOK, Manifest
  <2>. HIDE DEF m0
  <2>. QED BY <2>1, <2>2
<1>2. /\ UNCHANGED <<file, row, lock, op, expected>>
      /\ todo' = [todo EXCEPT ![p] = WriteSet[op[p]]]
      /\ \A q \in Procs \ {p} : pc'[q] = pc[q]
      /\ pc[p] = "check" /\ pc'[p] = "applying_row"
      /\ PreconditionsHold(p)
  BY DEF Prepare, Goto, TypeOK
<1>3. op[p] \in Ops
  BY <1>2 DEF ProcessInv, OperationFits, ApplyLabels
<1>4. /\ mem'[p] = m /\ todo'[p] = WriteSet[op[p]]
      /\ \A q \in Procs \ {p} : mem'[q] = mem[q] /\ todo'[q] = todo[q]
      /\ manifest'[op[p]] = m
      /\ \A i \in Ids \ {op[p]} : manifest'[i] = manifest[i]
  BY <1>1, <1>2, <1>3 DEF TypeOK, Ids
<1>5. m.before # None
  BY <1>1, SnapshotType, NameAssumption DEF RowSnapshot
<1>6. Frame(p)
  BY <1>1, <1>2, <1>4 DEF Frame, Locked, Writing
<1>7. ManifestInv'
  BY <1>1, <1>3, <1>4, NameAssumption DEF ManifestInv, Ids
<1>8. OwnsLock(p)'
  BY <1>2 DEF OwnsLock, ProcessInv, Locked
<1>9. OperationFits(p)'
  BY <1>2, <1>3 DEF OperationFits, ApplyLabels, RollbackLabels, UndoLabels,
                    RecoverLabels, RestoringLabels
<1>10. HasSnapshot(p)'
  BY <1>2, <1>4, <1>5 DEF HasSnapshot, RollbackLabels, UndoLabels
<1>11. Written(p)'
  BY <1>2, <1>4 DEF Written
<1>12. Unwritten(p)'
  BY <1>2, <1>4 DEF Unwritten, PreconditionsHold
<1>. QED BY <1>6, <1>7, <1>8, <1>9, <1>10, <1>11, <1>12 DEF ProcessInv

\* apply()'s handler sets out to restore.
LEMMA RaiseStep ==
  ASSUME TxInv, NEW p \in Procs, Raise(p)
  PROVE  Frame(p) /\ ProcessInv(p)' /\ ManifestInv'
<1>. USE DEF TxInv
<1>1. /\ UNCHANGED <<file, row, manifest, backup, lock, op, mem, expected>>
      /\ todo' = [todo EXCEPT ![p] = WriteSet[op[p]]]
      /\ \A q \in Procs \ {p} : pc'[q] = pc[q]
      /\ pc[p] \in {"write", "commit", "journal", "applied_row"} /\ pc'[p] = "restore"
  BY DEF Raise, Goto, TypeOK, disk
<1>2. todo'[p] = WriteSet[op[p]] /\ \A q \in Procs \ {p} : todo'[q] = todo[q]
  BY <1>1 DEF TypeOK
<1>3. Frame(p)
  BY <1>1, <1>2 DEF Frame, Locked, Writing
<1>4. ManifestInv'
  BY <1>1 DEF ManifestInv
<1>5. OwnsLock(p)'
  BY <1>1 DEF OwnsLock, ProcessInv, Locked, Writing
<1>6. OperationFits(p)'
  BY <1>1 DEF OperationFits, ProcessInv, ApplyLabels, Writing, RollbackLabels, UndoLabels,
              RecoverLabels, RestoringLabels
<1>7. HasSnapshot(p)'
  BY <1>1 DEF HasSnapshot, ProcessInv, Writing, RollbackLabels, UndoLabels
<1>8. Written(p)' /\ Unwritten(p)'
  BY <1>1, <1>2 DEF Written, Unwritten
<1>. QED BY <1>3, <1>4, <1>5, <1>6, <1>7, <1>8 DEF ProcessInv

\* The handler meets an exception itself, and notes it.
LEMMA RaiseInRestoreStep ==
  ASSUME TxInv, NEW p \in Procs, RaiseInRestore(p)
  PROVE  Frame(p) /\ ProcessInv(p)' /\ ManifestInv'
<1>. USE DEF TxInv
<1>1. /\ UNCHANGED <<file, row, manifest, backup, lock, op, expected, todo>>
      /\ mem' = [mem EXCEPT ![p] = [mem[p] EXCEPT !.rollback_error = TRUE]]
      /\ \A q \in Procs \ {p} : pc'[q] = pc[q]
      /\ pc[p] = "restore" /\ pc'[p] = "fail"
  BY DEF RaiseInRestore, Goto, TypeOK, disk
<1>2. PICK m : /\ mem'[p] = m
               /\ m.before = mem[p].before /\ m.undoes = mem[p].undoes /\ m.rollback_error
               /\ \A q \in Procs \ {p} : mem'[q] = mem[q]
  <2>. DEFINE n == [mem[p] EXCEPT !.rollback_error = TRUE]
  <2>1. mem' = [mem EXCEPT ![p] = n]
    BY <1>1
  <2>2. n.before = mem[p].before /\ n.undoes = mem[p].undoes /\ n.rollback_error
    BY DEF TypeOK, Manifest
  <2>. HIDE DEF n
  <2>. QED BY <2>1, <2>2 DEF TypeOK
<1>3. Frame(p)
  BY <1>1, <1>2 DEF Frame, Locked, Writing
<1>4. ManifestInv'
  BY <1>1 DEF ManifestInv
<1>5. OwnsLock(p)'
  BY <1>1 DEF OwnsLock, ProcessInv, Locked, Writing
<1>6. OperationFits(p)'
  BY <1>1 DEF OperationFits, ProcessInv, ApplyLabels, Writing, RollbackLabels, UndoLabels,
              RecoverLabels, RestoringLabels
<1>7. HasSnapshot(p)'
  BY <1>1, <1>2 DEF HasSnapshot, ProcessInv, Writing, RollbackLabels, UndoLabels
<1>8. Written(p)' /\ Unwritten(p)'
  BY <1>1, <1>2 DEF Written, Unwritten, ProcessInv
<1>. QED BY <1>3, <1>4, <1>5, <1>6, <1>7, <1>8 DEF ProcessInv

\* rollback() writes its own manifest, or marks the original's.
LEMMA UndoManifestStep ==
  ASSUME TxInv, NEW p \in Procs, PrepareUndo(p) \/ CommitUndo(p) \/ MarkRolledBack(p)
  PROVE  Frame(p) /\ ProcessInv(p)' /\ ManifestInv'
<1>. USE DEF TxInv
<1>1. /\ UNCHANGED <<file, row, lock, op, mem, expected>>
      /\ \A q \in Procs \ {p} : pc'[q] = pc[q] /\ todo'[q] = todo[q]
      /\ \/ pc[p] = "undo_check" /\ pc'[p] = "undo_applying_row"
         \/ pc[p] = "undo_commit" /\ pc'[p] = "undo_journal"
         \/ pc[p] = "undo_mark" /\ pc'[p] = "undo_mark_journal"
  BY DEF PrepareUndo, CommitUndo, MarkRolledBack, Goto, TypeOK, local
<1>2. /\ op[p] \in Undos /\ manifest[op[p]].undoes \in Ops
      /\ mem[p].state = "applied" /\ mem[p].before # None
  BY <1>1 DEF ProcessInv, OperationFits, HasSnapshot, ManifestInv, RollbackLabels, UndoLabels
<1>3. /\ \A i \in Ids : manifest[i].state # "none" => manifest'[i].state # "none"
      /\ ManifestInv'
  <2>1. CASE PrepareUndo(p)
    <3>. DEFINE m == [manifest[op[p]] EXCEPT !.state = "applying", !.writes = mem[p].writes,
                                             !.before_rollback = Captured(PlanOf(op[p]))]
    <3>1. manifest' = [manifest EXCEPT ![op[p]] = m]
      BY <2>1 DEF PrepareUndo, WriteManifest
    <3>2. m.state = "applying" /\ m.undoes = manifest[op[p]].undoes
      BY <1>2 DEF TypeOK, Ids, Manifest
    <3>. HIDE DEF m
    <3>. QED BY <1>2, <3>1, <3>2, NameAssumption DEF ManifestInv, TypeOK, Ids
  <2>2. CASE CommitUndo(p)
    <3>. DEFINE m == [manifest[op[p]] EXCEPT !.state = "applied"]
    <3>1. manifest' = [manifest EXCEPT ![op[p]] = m]
      BY <2>2 DEF CommitUndo
    <3>2. m.state = "applied" /\ m.undoes = manifest[op[p]].undoes
      BY <1>2 DEF TypeOK, Ids, Manifest
    <3>. HIDE DEF m
    <3>. QED BY <1>2, <3>1, <3>2, NameAssumption DEF ManifestInv, TypeOK, Ids
  <2>3. CASE MarkRolledBack(p)
    <3>. DEFINE m == [mem[p] EXCEPT !.rolled_back_by = op[p]]
    <3>1. manifest' = [manifest EXCEPT ![PlanOf(op[p])] = m]
      BY <2>3 DEF MarkRolledBack, WriteManifest
    <3>2. m.state = mem[p].state /\ m.before = mem[p].before
      BY DEF TypeOK, Manifest
    <3>3. PlanOf(op[p]) \in Ops
      BY <1>2, NameAssumption DEF PlanOf
    <3>. HIDE DEF m
    <3>. QED BY <1>2, <3>1, <3>2, <3>3, NameAssumption DEF ManifestInv, TypeOK, Ids
  <2>. QED BY <2>1, <2>2, <2>3
<1>4. Frame(p)
  BY <1>1, <1>3 DEF Frame, Locked, UndoLabels
<1>5. OwnsLock(p)'
  BY <1>1 DEF OwnsLock, ProcessInv, Locked, UndoLabels
<1>6. OperationFits(p)'
  <2>1. manifest'[op[p]].state # "none"
    BY <1>1, <1>2, <1>3 DEF ProcessInv, OperationFits, RollbackLabels, UndoLabels, Ids
  <2>. QED BY <1>1, <1>2, <2>1 DEF OperationFits, ApplyLabels, Writing, RecoverLabels,
                                   RestoringLabels
<1>7. HasSnapshot(p)'
  BY <1>1, <1>2 DEF HasSnapshot, Writing
<1>8. Written(p)' /\ Unwritten(p)'
  BY <1>1 DEF Written, Unwritten
<1>. QED BY <1>3, <1>4, <1>5, <1>6, <1>7, <1>8 DEF ProcessInv

-----------------------------------------------------------------------------
(* The steps into and out of the with statement, and outside it.           *)

\* A free or stale lock is taken.
LEMMA AcquireStep ==
  ASSUME TxInv, NEW p \in Procs,
         AcquireForApply(p) \/ AcquireForUndo(p) \/ AcquireForRecovery(p)
  PROVE  Frame(p) /\ ProcessInv(p)' /\ ManifestInv'
<1>. USE DEF TxInv
<1>1. /\ UNCHANGED <<file, row, manifest, backup, op, mem, expected>>
      /\ lock \in {None, "stale"} /\ lock' = p
      /\ \A q \in Procs \ {p} : pc'[q] = pc[q] /\ todo'[q] = todo[q]
      /\ \/ pc[p] = "acquire" /\ pc'[p] = "check"
         \/ pc[p] = "undo_acquire" /\ pc'[p] = "undo_check"
         \/ pc[p] = "recover_acquire" /\ pc'[p] = "recover_files"
  BY DEF AcquireForApply, AcquireForUndo, AcquireForRecovery, TakeLock, Goto, TypeOK,
         disk, local
<1>2. Frame(p)
  BY <1>1, NameAssumption DEF Frame, Locked
<1>3. ManifestInv'
  BY <1>1 DEF ManifestInv
<1>4. OwnsLock(p)'
  BY <1>1 DEF OwnsLock
<1>5. OperationFits(p)'
  BY <1>1 DEF OperationFits, ProcessInv, ApplyLabels, Writing, RollbackLabels, UndoLabels,
              RecoverLabels, RestoringLabels
<1>6. HasSnapshot(p)'
  BY <1>1 DEF HasSnapshot, ProcessInv, Writing, RollbackLabels, UndoLabels
<1>7. Written(p)' /\ Unwritten(p)'
  BY <1>1 DEF Written, Unwritten
<1>. QED BY <1>2, <1>3, <1>4, <1>5, <1>6, <1>7 DEF ProcessInv

\* A process between two calls, or dead, has nothing to keep.
Resting == {"idle", "boot", "down", "scan"}

LEMMA RestingRule ==
  ASSUME NEW p \in Procs, pc'[p] \in Resting
  PROVE  ProcessInv(p)'
BY DEF Resting, ProcessInv, OwnsLock, OperationFits, HasSnapshot, Written, Unwritten, Locked,
       ApplyLabels, RollbackLabels, RecoverLabels, RestoringLabels, Writing, UndoLabels

\* A process starts to recover, leaves the with statement, gives up, or dies.
LEMMA RestStep ==
  ASSUME TxInv, NEW p \in Procs,
         \/ Release(p) \/ ReleaseRecovered(p) \/ AcquireRefused(p) \/ Crash(p)
         \/ Boot(p) \/ BeginRecover(p) \/ RaiseInRecovery(p)
  PROVE  Frame(p) /\ ProcessInv(p)' /\ ManifestInv'
<1>. USE DEF TxInv
<1>1. UNCHANGED <<file, row, manifest, backup>>
  BY DEF Release, ReleaseRecovered, AcquireRefused, Crash, Boot, BeginRecover,
         RaiseInRecovery, disk
<1>2. /\ pc'[p] \in Resting
      /\ \A q \in Procs \ {p} : pc'[q] = pc[q]
  BY DEF Release, ReleaseRecovered, AcquireRefused, Crash, Boot, BeginRecover,
         RaiseInRecovery, Goto, Idle, Resting, TypeOK
<1>3. \A q \in Procs \ {p} :
        op'[q] = op[q] /\ mem'[q] = mem[q] /\ todo'[q] = todo[q] /\ expected'[q] = expected[q]
  BY DEF Release, ReleaseRecovered, AcquireRefused, Crash, Boot, BeginRecover,
         RaiseInRecovery, Forget, TypeOK
<1>4. lock' = lock \/ lock \notin Procs \ {p}
  <2>1. CASE Release(p) \/ ReleaseRecovered(p) \/ RaiseInRecovery(p)
    BY <2>1 DEF Release, ReleaseRecovered, RaiseInRecovery, ProcessInv, OwnsLock, Locked,
                RestoringLabels
  <2>2. CASE Boot(p)
    BY <2>2, NameAssumption DEF Boot, LockHeld
  <2>3. CASE Crash(p)
    BY <2>3 DEF Crash
  <2>4. CASE AcquireRefused(p) \/ BeginRecover(p)
    BY <2>4 DEF AcquireRefused, BeginRecover
  <2>. QED BY <2>1, <2>2, <2>3, <2>4
<1>5. Frame(p)
  BY <1>1, <1>2, <1>3, <1>4 DEF Frame
<1>6. ManifestInv'
  BY <1>1 DEF ManifestInv
<1>. QED BY <1>2, <1>5, <1>6, RestingRule

\* A manifest is read outside the lock: by the scan of a recovery.
LEMMA ScanStep ==
  ASSUME TxInv, NEW p \in Procs, NEW i \in Ids, Scan(p, i)
  PROVE  Frame(p) /\ ProcessInv(p)' /\ ManifestInv'
<1>. USE DEF TxInv
<1>1. UNCHANGED <<file, row, manifest, backup, lock, expected, todo>> /\ pc[p] = "scan"
  BY DEF Scan, disk
<1>2. \A q \in Procs \ {p} : pc'[q] = pc[q] /\ op'[q] = op[q] /\ mem'[q] = mem[q]
  BY DEF Scan, Goto, TypeOK
<1>3. Frame(p)
  BY <1>1, <1>2 DEF Frame
<1>4. ManifestInv'
  BY <1>1 DEF ManifestInv
<1>5. CASE manifest[i].state # "applying"
  <2>1. pc'[p] \in Resting
    BY <1>1, <1>5 DEF Scan, Resting
  <2>. QED BY <1>3, <1>4, <2>1, RestingRule
<1>6. CASE manifest[i].state = "applying"
  <2>1. pc'[p] = "recover_acquire" /\ op'[p] = i /\ mem'[p] = manifest[i]
    BY <1>6 DEF Scan, Goto, TypeOK
  <2>2. i \in Undos => manifest[i].undoes \in Ops
    BY <1>6 DEF ManifestInv
  <2>3. OperationFits(p)'
    BY <2>1, <2>2 DEF OperationFits, ApplyLabels, Writing, RollbackLabels, UndoLabels
  <2>4. OwnsLock(p)' /\ HasSnapshot(p)' /\ Written(p)' /\ Unwritten(p)'
    BY <2>1 DEF OwnsLock, HasSnapshot, Written, Unwritten, Locked, Writing, UndoLabels,
                RestoringLabels, RollbackLabels
  <2>. QED BY <1>3, <1>4, <2>3, <2>4 DEF ProcessInv
<1>. QED BY <1>5, <1>6

\* apply() is called: the manifest it writes outside the lock is of an operation
\* that no other process works on.
LEMMA BeginApplyStep ==
  ASSUME TxInv, NEW p \in Procs, NEW o \in Ops, BeginApply(p, o)
  PROVE  Frame(p) /\ ProcessInv(p)' /\ ManifestInv'
<1>. USE DEF TxInv
<1>1. /\ UNCHANGED <<file, row, backup, lock, todo>>
      /\ manifest' = [manifest EXCEPT ![o] = NewManifest("planned", None)]
      /\ \A q \in Procs : op[q] # o
      /\ pc[p] = "idle"
  BY DEF BeginApply, WriteManifest
<1>2. /\ \A q \in Procs \ {p} : /\ pc'[q] = pc[q] /\ op'[q] = op[q] /\ mem'[q] = mem[q]
                                /\ expected'[q] = expected[q]
      /\ pc'[p] = "plan_row" /\ op'[p] = o
  BY DEF BeginApply, Goto, TypeOK
<1>3. /\ manifest'[o].state = "planned"
      /\ \A i \in Ids \ {o} : manifest'[i] = manifest[i]
  BY <1>1 DEF TypeOK, Ids, NewManifest
<1>4. \A q \in Procs \ {p} : pc[q] \in Writing => manifest'[op[q]] = manifest[op[q]]
  BY <1>1, <1>3 DEF ProcessInv, OperationFits, ApplyLabels, Ids
<1>5. Frame(p)
  BY <1>1, <1>2, <1>3, <1>4 DEF Frame
<1>6. ManifestInv'
  BY <1>3, NameAssumption DEF ManifestInv, Ids
<1>7. OperationFits(p)'
  BY <1>2 DEF OperationFits, RollbackLabels, UndoLabels, RecoverLabels, RestoringLabels
<1>8. OwnsLock(p)' /\ HasSnapshot(p)' /\ Written(p)' /\ Unwritten(p)'
  BY <1>2 DEF OwnsLock, HasSnapshot, Written, Unwritten, Locked, Writing, UndoLabels,
              RestoringLabels, RollbackLabels
<1>. QED BY <1>5, <1>6, <1>7, <1>8 DEF ProcessInv

\* rollback() is called: it makes up a new identifier.
LEMMA BeginUndoStep ==
  ASSUME TxInv, NEW p \in Procs, NEW u \in Undos, NEW o \in Ops, BeginUndo(p, u, o)
  PROVE  Frame(p) /\ ProcessInv(p)' /\ ManifestInv'
<1>. USE DEF TxInv
<1>1. /\ UNCHANGED <<file, row, backup, lock, todo, expected>>
      /\ manifest' = [manifest EXCEPT ![u] = NewManifest("planned", o)]
      /\ manifest[o].state = "applied"
      /\ pc[p] = "idle"
  BY DEF BeginUndo, WriteManifest
<1>2. /\ \A q \in Procs \ {p} : pc'[q] = pc[q] /\ op'[q] = op[q] /\ mem'[q] = mem[q]
      /\ pc'[p] = "undo_plan_row" /\ op'[p] = u /\ mem'[p] = manifest[o]
  BY DEF BeginUndo, Goto, TypeOK
<1>3. /\ manifest'[u].state = "planned" /\ manifest'[u].undoes = o
      /\ \A i \in Ids \ {u} : manifest'[i] = manifest[i]
  BY <1>1 DEF TypeOK, Ids, NewManifest
<1>4. \A q \in Procs \ {p} : pc[q] \in Writing => manifest'[op[q]] = manifest[op[q]]
  BY <1>3, NameAssumption DEF ProcessInv, OperationFits, ApplyLabels, Ids
<1>5. Frame(p)
  BY <1>1, <1>2, <1>3, <1>4 DEF Frame
<1>6. ManifestInv'
  BY <1>3, NameAssumption DEF ManifestInv, Ids
<1>7. OperationFits(p)'
  BY <1>2, <1>3 DEF OperationFits, ApplyLabels, Writing, RecoverLabels, RestoringLabels
<1>8. HasSnapshot(p)'
  BY <1>1, <1>2 DEF HasSnapshot, Writing, ManifestInv
<1>9. OwnsLock(p)' /\ Written(p)' /\ Unwritten(p)'
  BY <1>2 DEF OwnsLock, Written, Unwritten, Locked, Writing, UndoLabels, RestoringLabels
<1>. QED BY <1>5, <1>6, <1>7, <1>8, <1>9 DEF ProcessInv

-----------------------------------------------------------------------------
(* The theorems of the first part.                                         *)

LEMMA InitialState == Init => TxInv
<1>. SUFFICES ASSUME Init
              PROVE  TxInv
  OBVIOUS
<1>1. NewManifest("none", None) \in Manifest /\ NewManifest("none", None).state = "none"
  BY ManifestType DEF ManifestStates, NewManifest
<1>2. TypeOK
  BY <1>1, FaultAssumption DEF Init, TypeOK, RowSnapshot, Content, Labels, Idle
<1>3. ManifestInv
  BY <1>1 DEF Init, ManifestInv, Ids
<1>4. ASSUME NEW p \in Procs PROVE ProcessInv(p)
  <2>1. pc[p] \in {"idle", "boot"}
    BY DEF Init, Idle
  <2>. QED
    BY <2>1 DEF ProcessInv, OwnsLock, OperationFits, HasSnapshot, Written, Unwritten, Locked,
                ApplyLabels, RollbackLabels, RecoverLabels, RestoringLabels, Writing, UndoLabels
<1>. QED BY <1>2, <1>3, <1>4 DEF TxInv

\* Every action respects the frame and its own process's invariant.
LEMMA ActionStep ==
  ASSUME TxInv, NEW p \in Procs, Call(p) \/ Step(p) \/ Fault(p) \/ Restart(p)
  PROVE  Frame(p) /\ ProcessInv(p)' /\ ManifestInv'
<1>1. CASE Call(p)
  BY <1>1, BeginApplyStep, BeginUndoStep, RestStep DEF Call
<1>2. CASE ApplyStep(p)
  BY <1>2, PlainSteps, PlainStep, FileStep, RowStep, StateStep, PrepareStep, AcquireStep
  DEF ApplyStep, TxInv
<1>3. CASE UndoStep(p)
  BY <1>3, PlainSteps, PlainStep, FileStep, RowStep, UndoManifestStep, AcquireStep
  DEF UndoStep, TxInv
<1>4. CASE RecoverStep(p)
  BY <1>4, PlainSteps, PlainStep, FileStep, RowStep, StateStep, AcquireStep, RestStep,
     ScanStep
  DEF RecoverStep, TxInv
<1>5. CASE Release(p) \/ AcquireRefused(p) \/ Crash(p) \/ RaiseInRecovery(p)
  BY <1>5, RestStep
<1>6. CASE Raise(p) \/ RaiseInRestore(p)
  BY <1>6, RaiseStep, RaiseInRestoreStep
<1>7. CASE RaiseUnguarded(p) \/ Restart(p)
  BY <1>7, PlainSteps, PlainStep DEF TxInv
<1>. QED BY <1>1, <1>2, <1>3, <1>4, <1>5, <1>6, <1>7 DEF Step, Fault

LEMMA InvariantStep == TxInv /\ [Next]_vars => TxInv'
<1>. SUFFICES ASSUME TxInv, [Next]_vars
              PROVE  TxInv'
  OBVIOUS
<1>1. TypeOK'
  BY TypeStep
<1>2. CASE Next
  BY <1>1, <1>2, ActionStep, FrameRule DEF Next, TxInv
<1>3. CASE UNCHANGED vars
  BY <1>1, <1>3 DEF vars, disk, local, TxInv, ManifestInv, ProcessInv, OwnsLock, OperationFits,
                    HasSnapshot, Written, Unwritten
<1>. QED BY <1>2, <1>3

\* The invariant holds in every behaviour.
LEMMA Invariance == Spec => []TxInv
BY InitialState, InvariantStep, PTL DEF Spec

\* The variables keep their types in every behaviour.
THEOREM TypeCorrect == Spec => []TypeOK
<1>1. TxInv => TypeOK
  BY DEF TxInv
<1>. QED BY <1>1, Invariance, PTL

\* A file that an operation is about to replace is the one its plan was made
\* against, however many processes plan and write.
THEOREM NoUpdateIsLost == Spec => []NoLostUpdate
<1>1. TxInv => NoLostUpdate
  BY DEF TxInv, ProcessInv, Unwritten, NoLostUpdate
<1>. QED BY <1>1, Invariance, PTL

\* The only step by which the manifest of an operation given to apply() comes to
\* say "applied" without a rollback, or "failed", is the one meant to.
LEMMA ManifestWriters ==
  ASSUME TxInv, Next, NEW o \in Ops, manifest'[o] # manifest[o]
  PROVE  \/ manifest'[o].state \notin {"applied", "failed"}
         \/ manifest'[o].rolled_back_by # None /\ manifest'[o].state = "applied"
         \/ \E p \in Procs : op[p] = o /\ CommitManifest(p) /\ manifest'[o].state = "applied"
         \/ \E p \in Procs : /\ op[p] = o /\ FailManifest(p) /\ manifest'[o].state = "failed"
                            /\ manifest'[o].rollback_error = mem[p].rollback_error
<1>. USE DEF TxInv
<1>1. PICK p \in Procs : Call(p) \/ Step(p) \/ Fault(p) \/ Restart(p)
  BY DEF Next
<1>2. manifest \in [Ids -> Manifest] /\ o \in Ids /\ o \notin Undos
  BY NameAssumption DEF TypeOK, Ids
<1>3. CASE Plain(p)
  BY <1>3 DEF Plain
<1>4. CASE \E f \in Files :
             WriteFile(p, f) \/ RestoreFile(p, f) \/ UndoFile(p, f) \/ RecoverFile(p, f)
  BY <1>4 DEF WriteFile, RestoreFile, UndoFile, RecoverFile, PutFile
<1>5. CASE MutateRows(p) \/ RestoreRows(p) \/ UndoRows(p) \/ RecoverRows(p)
  BY <1>5 DEF MutateRows, RestoreRows, UndoRows, RecoverRows, PutRows
<1>6. CASE \/ AcquireForApply(p) \/ AcquireForUndo(p) \/ AcquireForRecovery(p)
           \/ Release(p) \/ ReleaseRecovered(p) \/ AcquireRefused(p) \/ Crash(p)
           \/ Boot(p) \/ BeginRecover(p) \/ Raise(p) \/ RaiseInRestore(p)
           \/ RaiseInRecovery(p) \/ \E i \in Ids : Scan(p, i)
  BY <1>6 DEF AcquireForApply, AcquireForUndo, AcquireForRecovery, Release,
              ReleaseRecovered, AcquireRefused, Crash, Boot, BeginRecover, Raise,
              RaiseInRestore, RaiseInRecovery, Scan, disk
<1>7. CASE \E i \in Ops : BeginApply(p, i)
  <2>1. PICK i \in Ops : manifest' = [manifest EXCEPT ![i] = NewManifest("planned", None)]
    BY <1>7 DEF BeginApply, WriteManifest
  <2>2. i = o
    BY <1>2, <2>1
  <2>3. manifest'[o].state = "planned"
    BY <1>2, <2>1, <2>2 DEF NewManifest
  <2>. QED BY <2>3
<1>8. CASE \E u \in Undos, i \in Ops : BeginUndo(p, u, i)
  BY <1>2, <1>8 DEF BeginUndo, WriteManifest
<1>9. CASE Prepare(p)
  <2>1. manifest'[o].state = "applying"
    <3>. DEFINE m == [mem[p] EXCEPT !.state = "applying", !.writes = WriteSet[op[p]],
                                    !.before = Captured(op[p])]
    <3>1. manifest' = [manifest EXCEPT ![op[p]] = m]
      BY <1>9 DEF Prepare, WriteManifest
    <3>2. m.state = "applying"
      BY DEF TypeOK, Manifest
    <3>. HIDE DEF m
    <3>. QED BY <1>2, <3>1, <3>2
  <2>. QED BY <2>1
<1>10. CASE PrepareUndo(p) \/ CommitUndo(p)
  <2>1. op[p] \in Undos
    BY <1>10 DEF PrepareUndo, CommitUndo, ProcessInv, OperationFits, RollbackLabels, UndoLabels
  <2>. QED BY <1>2, <1>10, <2>1 DEF PrepareUndo, CommitUndo, WriteManifest
<1>11. CASE MarkRolledBack(p)
  <2>. DEFINE m == [mem[p] EXCEPT !.rolled_back_by = op[p]]
  <2>1. manifest' = [manifest EXCEPT ![PlanOf(op[p])] = m]
    BY <1>11 DEF MarkRolledBack, WriteManifest
  <2>2. op[p] \in Undos /\ mem[p].state = "applied"
    BY <1>11 DEF MarkRolledBack, ProcessInv, OperationFits, HasSnapshot, RollbackLabels,
                 UndoLabels
  <2>3. m.rolled_back_by # None /\ m.state = "applied"
    BY <2>2, NameAssumption DEF TypeOK, Manifest, Ids
  <2>. HIDE DEF m
  <2>. QED BY <1>2, <2>1, <2>3
<1>12. CASE RecoverManifest(p)
  <2>. DEFINE m == [mem[p] EXCEPT !.state = "recovered_rollback"]
  <2>1. manifest' = [manifest EXCEPT ![op[p]] = m]
    BY <1>12 DEF RecoverManifest, WriteManifest
  <2>2. m.state = "recovered_rollback"
    BY DEF TypeOK, Manifest
  <2>. HIDE DEF m
  <2>. QED BY <1>2, <2>1, <2>2
<1>13. CASE CommitManifest(p)
  <2>. DEFINE m == [mem[p] EXCEPT !.state = "applied", !.after = Captured(op[p])]
  <2>1. manifest' = [manifest EXCEPT ![op[p]] = m]
    BY <1>13 DEF CommitManifest, WriteManifest
  <2>2. m.state = "applied"
    BY DEF TypeOK, Manifest
  <2>. HIDE DEF m
  <2>. QED BY <1>2, <1>13, <2>1, <2>2
<1>14. CASE FailManifest(p)
  <2>. DEFINE m == [mem[p] EXCEPT !.state = "failed"]
  <2>1. manifest' = [manifest EXCEPT ![op[p]] = m]
    BY <1>14 DEF FailManifest, WriteManifest
  <2>2. m.state = "failed" /\ m.rollback_error = mem[p].rollback_error
    BY DEF TypeOK, Manifest
  <2>. HIDE DEF m
  <2>. QED BY <1>2, <1>14, <2>1, <2>2
<1>15. CASE Call(p)
  BY <1>6, <1>7, <1>8, <1>15 DEF Call
<1>16. CASE ApplyStep(p)
  BY <1>3, <1>4, <1>5, <1>6, <1>9, <1>13, <1>14, <1>16, PlainSteps DEF ApplyStep
<1>17. CASE UndoStep(p)
  BY <1>3, <1>4, <1>5, <1>6, <1>10, <1>11, <1>17, PlainSteps DEF UndoStep
<1>18. CASE RecoverStep(p)
  BY <1>3, <1>4, <1>5, <1>6, <1>12, <1>18, PlainSteps DEF RecoverStep
<1>19. CASE Release(p) \/ AcquireRefused(p) \/ Fault(p) \/ Restart(p)
  BY <1>3, <1>6, <1>19, PlainSteps DEF Fault
<1>. QED BY <1>1, <1>15, <1>16, <1>17, <1>18, <1>19 DEF Step

\* apply() declares complete only what is: whatever processes, faults and crashes
\* there are, a manifest comes to say "applied" when every file and row is written.
THEOREM CommitsAreWhole == Spec => CommitIsWhole
<1>1. TxInv /\ [Next]_vars => [\A o \in Ops : CommitOfWhole(o)]_vars
  <2>. SUFFICES ASSUME TxInv, Next, NEW o \in Ops,
                       Becomes(o, "applied"), manifest'[o].rolled_back_by = None
                PROVE  /\ \A f \in WriteSet[o] : file[f] = o
                       /\ \A r \in Scope[o] : row[r] = o
    BY DEF CommitOfWhole
  <2>1. PICK p \in Procs : op[p] = o /\ CommitManifest(p)
    BY ManifestWriters DEF Becomes
  <2>. QED BY <2>1 DEF CommitManifest, TxInv, ProcessInv, Written
<1>. QED BY <1>1, Invariance, PTL DEF Spec, CommitIsWhole

\* apply()'s handler declares failed without a rollback_error only what it has undone
\* entirely; an exception while it restores is always noted.
THEOREM AbortsAreWhole == Spec => AbortIsWhole
<1>1. TxInv /\ [Next]_vars => [\A o \in Ops : AbortOfWhole(o)]_vars
  <2>. SUFFICES ASSUME TxInv, Next, NEW o \in Ops, Becomes(o, "failed"),
                       ~ manifest'[o].rollback_error
                PROVE  /\ \A f \in WriteSet[o] : file[f] = backup[o][f]
                       /\ \A r \in Scope[o] : row[r] = manifest[o].before[r]
    BY DEF AbortOfWhole
  <2>1. PICK p \in Procs : op[p] = o /\ FailManifest(p) /\ ~ mem[p].rollback_error
    BY ManifestWriters DEF Becomes
  <2>2. pc[p] = "fail" /\ ProcessInv(p)
    BY <2>1 DEF FailManifest, TxInv
  <2>. QED BY <2>1, <2>2 DEF ProcessInv, Written, HasSnapshot, Writing
<1>. QED BY <1>1, Invariance, PTL DEF Spec, AbortIsWhole

-----------------------------------------------------------------------------
(* The writer lock.                                                        *)

\* The steps that take the lock, pass it on or clear it away.
LEMMA LockSteps ==
  ASSUME TxInv, NEW p \in Procs, Call(p) \/ Step(p) \/ Fault(p) \/ Restart(p), lock' # lock
  PROVE  /\ UNCHANGED <<file, row, backup>>
         /\ \/ lock \in {None, "stale"} /\ lock' = p
            \/ lock = p /\ lock' \in {None, "stale"}
            \/ lock = "stale" /\ lock' = None
<1>1. \/ AcquireForApply(p) \/ AcquireForUndo(p) \/ AcquireForRecovery(p)
      \/ Release(p) \/ ReleaseRecovered(p) \/ RaiseInRecovery(p) \/ Boot(p) \/ Crash(p)
  <2>. USE DEF PutFile, PutRows, Record, Journal, disk, local
  <2>1. ~ Call(p)
    BY DEF Call, BeginApply, BeginUndo, BeginRecover
  <2>2. CASE ApplyStep(p)
    BY <2>2 DEF ApplyStep, RecordPlanned, Prepare, PrepareRefused, RecordApplying, WriteFile,
                MutateRows, CommitManifest, JournalApplied, RecordApplied, RestoreFile,
                RestoreRows, FailManifest, JournalFailed, RecordFailed
  <2>3. CASE UndoStep(p)
    BY <2>3 DEF UndoStep, RecordUndoPlanned, PrepareUndo, UndoRefused, RecordUndoApplying,
                UndoFile, UndoRows, CommitUndo, JournalUndo, RecordUndoApplied, MarkRolledBack,
                JournalRolledBack
  <2>4. CASE RecoverStep(p)
    BY <2>4 DEF RecoverStep, Scan, ScanDone, RecoverFile, RecoverRows, RecoverManifest,
                JournalRecovered, RecordRecovered
  <2>5. ~ (AcquireRefused(p) \/ Raise(p) \/ RaiseInRestore(p) \/ RaiseUnguarded(p) \/ Restart(p))
    BY DEF AcquireRefused, Raise, RaiseInRestore, RaiseUnguarded, Restart
  <2>. QED BY <2>1, <2>2, <2>3, <2>4, <2>5 DEF Step, Fault
<1>2. CASE AcquireForApply(p) \/ AcquireForUndo(p) \/ AcquireForRecovery(p)
  BY <1>2 DEF AcquireForApply, AcquireForUndo, AcquireForRecovery, TakeLock, disk
<1>3. CASE Release(p) \/ ReleaseRecovered(p) \/ RaiseInRecovery(p)
  <2>1. lock = p
    BY <1>3 DEF Release, ReleaseRecovered, RaiseInRecovery, TxInv, ProcessInv, OwnsLock, Locked,
                RestoringLabels
  <2>. QED BY <1>3, <2>1 DEF Release, ReleaseRecovered, RaiseInRecovery, disk
<1>4. CASE Boot(p)
  BY <1>4 DEF Boot, LockHeld, disk
<1>5. CASE Crash(p)
  BY <1>5 DEF Crash, disk
<1>. QED BY <1>1, <1>2, <1>3, <1>4, <1>5

\* Who has the lock, and who is inside the with statement.
HaveLock == {p \in Procs : lock = p}
Inside == {p \in Procs : pc[p] \in Locked}
LeftBehind == lock = "stale"

Writer == INSTANCE WriterLock
            WITH Users <- Procs, users <- HaveLock, inside <- Inside, left <- LeftBehind

LEMMA InsideHasLock ==
  ASSUME TxInv
  PROVE  Inside \subseteq HaveLock
BY DEF TxInv, ProcessInv, OwnsLock, Inside, HaveLock

LEMMA WriterStep == TxInv /\ [Next]_vars => [Writer!Next]_(Writer!vars)
<1>. SUFFICES ASSUME TxInv, [Next]_vars
              PROVE  [Writer!Next]_(Writer!vars)
  OBVIOUS
<1>1. Inside \subseteq HaveLock
  BY InsideHasLock
<1>2. Inside' \subseteq HaveLock'
  <2>1. (TxInv => Inside \subseteq HaveLock)'
    BY InsideHasLock, PTL
  <2>. QED BY <2>1, InvariantStep
<1>3. CASE lock' = lock
  <2>1. HaveLock' = HaveLock /\ LeftBehind' = LeftBehind
    BY <1>3 DEF HaveLock, LeftBehind
  <2>2. CASE lock \notin Procs
    BY <1>1, <1>2, <2>1, <2>2 DEF HaveLock, Writer!vars
  <2>3. CASE lock \in Procs
    <3>1. HaveLock = {lock} /\ Inside \in {{}, {lock}} /\ Inside' \in {{}, {lock}}
      BY <1>1, <1>2, <2>1, <2>3 DEF HaveLock
    <3>. QED BY <2>1, <2>3, <3>1 DEF Writer!Next, Writer!vars, Writer!Begin, Writer!End
  <2>. QED BY <2>2, <2>3
<1>4. CASE lock' # lock
  <2>1. PICK p \in Procs : Call(p) \/ Step(p) \/ Fault(p) \/ Restart(p)
    BY <1>4 DEF Next, vars
  <2>2. CASE lock \in {None, "stale"} /\ lock' = p
    <3>1. HaveLock = {} /\ HaveLock' = {p} /\ LeftBehind' = FALSE /\ Inside' \in {{}, {p}}
      BY <1>2, <2>2, NameAssumption DEF HaveLock, LeftBehind
    <3>. QED BY <3>1 DEF Writer!Next, Writer!Take
  <2>3. CASE lock = p /\ lock' \in {None, "stale"}
    <3>1. /\ HaveLock = {p} /\ HaveLock' = {} /\ Inside' = {}
          /\ LeftBehind' \in BOOLEAN
      BY <1>2, <2>3, NameAssumption DEF HaveLock, LeftBehind
    <3>. QED BY <3>1 DEF Writer!Next, Writer!GiveBack, Writer!LeaveBehind
  <2>4. CASE lock = "stale" /\ lock' = None
    <3>1. /\ HaveLock = {} /\ HaveLock' = {} /\ Inside = {} /\ Inside' = {}
          /\ LeftBehind = TRUE /\ LeftBehind' = FALSE
      BY <1>1, <1>2, <2>4, NameAssumption DEF HaveLock, LeftBehind
    <3>. QED BY <3>1 DEF Writer!Next, Writer!Clear
  <2>. QED BY <1>4, <2>1, <2>2, <2>3, <2>4, LockSteps
<1>. QED BY <1>3, <1>4

\* Whatever fails and dies, apply(), rollback() and recovery use the writer lock as
\* the lock that ProcessLock implements: they are inside the with statement only while it
\* is theirs, and take it over from nobody who has it.
THEOREM LockIsUsed == Spec => Writer!Spec
<1>1. Init => Writer!Init
  <2>. SUFFICES ASSUME Init PROVE Writer!Init
    OBVIOUS
  <2>1. \A p \in Procs : pc[p] \in {"boot", "idle"}
    BY DEF Init, Idle
  <2>2. Inside = {}
    BY <2>1 DEF Inside, Locked, Writing, UndoLabels, RestoringLabels
  <2>3. HaveLock = {} /\ LeftBehind = FALSE
    BY NameAssumption DEF Init, HaveLock, LeftBehind
  <2>. QED BY <2>2, <2>3 DEF Writer!Init
<1>. QED BY <1>1, Invariance, WriterStep, PTL DEF Spec, Writer!Spec

\* Files, rows and copies change only by a step of the process that has the lock,
\* and keeps it.
WrittenUnderLock ==
  [][<<file, row, backup>>' # <<file, row, backup>> =>
       \E p \in Procs : lock = p /\ lock' = p]_vars

\* No file, row or copy is written without the lock: neither by a call that is refused, nor
\* after it has given the lock back, whatever fails and dies.
THEOREM NothingWithoutLock == Spec => WrittenUnderLock
<1>1. TxInv /\ [Next]_vars =>
        [<<file, row, backup>>' # <<file, row, backup>> =>
           \E p \in Procs : lock = p /\ lock' = p]_vars
  <2>. SUFFICES ASSUME TxInv, NEW p \in Procs, Call(p) \/ Step(p) \/ Fault(p) \/ Restart(p),
                       <<file, row, backup>>' # <<file, row, backup>>
                PROVE  lock = p /\ lock' = p
    BY DEF Next
  <2>1. lock' = lock
    BY LockSteps
  <2>2. Frame(p)
    BY ActionStep
  <2>3. pc[p] \in Locked
    BY <2>2 DEF Frame
  <2>. QED BY <2>1, <2>3 DEF TxInv, ProcessInv, OwnsLock
<1>. QED BY <1>1, Invariance, PTL DEF Spec, WrittenUnderLock

-----------------------------------------------------------------------------
(* The atomic store: a rollback leaves no trace.  The contents of a file (or  *)
(* of a row) lie in layers: the one on top is there, and each operation keeps *)
(* the one below its own.                                                     *)

Statuses == {"open", "applied", "undone"}

\* c is the contents of the keys (files or rows), plan[o] are the keys of o, and
\* under[o] is what o replaced.  No content lies in two layers, and all but the
\* original ones are those of operations applied and not undone.
Layered(keys, c, plan, st, under) ==
  /\ \A k \in keys : c[k] \in Ops => st[c[k]] = "applied" /\ k \in plan[c[k]]
  /\ \A o \in Ops : st[o] = "applied" => \A k \in plan[o] :
       /\ under[o][k] # c[k]
       /\ under[o][k] \in Ops => st[under[o][k]] = "applied" /\ k \in plan[under[o][k]]
  /\ \A o, q \in Ops : st[o] = "applied" /\ st[q] = "applied" /\ o # q =>
       \A k \in plan[o] \cap plan[q] : under[o][k] # under[q][k]

UnderFiles == [o \in Ops |-> IF LogicalStatus[o] = "applied" THEN LogicalPrior[o].file ELSE None]
UnderRows == [o \in Ops |-> IF LogicalStatus[o] = "applied" THEN LogicalPrior[o].row ELSE None]

FileLayers == Layered(Files, LogicalFile, WriteSet, LogicalStatus, UnderFiles)
RowLayers == Layered(Rows, LogicalRow, Scope, LogicalStatus, UnderRows)

\* A commit puts a layer on top of those that its keys have.
Commits(o, keys, top, top2, plan, st, st2, under, under2) ==
  /\ o \in Ops /\ st \in [Ops -> Statuses] /\ \A q \in Ops : plan[q] \subseteq keys
  /\ st[o] = "open" /\ st2 = [st EXCEPT ![o] = "applied"]
  /\ \A k \in keys : top2[k] = IF k \in plan[o] THEN o ELSE top[k]
  /\ \A q \in Ops : st[q] = "applied" => under2[q] = under[q]
  /\ \A k \in plan[o] : under2[o][k] = top[k]

LEMMA CommitLayers ==
  ASSUME NEW o, NEW keys, NEW top, NEW top2, NEW plan, NEW st, NEW st2, NEW under, NEW under2,
         Layered(keys, top, plan, st, under),
         Commits(o, keys, top, top2, plan, st, st2, under, under2)
  PROVE  Layered(keys, top2, plan, st2, under2)
<1>. USE DEF Commits
<1>1. /\ st2[o] = "applied"
      /\ \A q \in Ops : q # o => st2[q] = st[q]
      /\ \A q \in Ops : st[q] = "applied" => q # o
  OBVIOUS
<1>2. ASSUME NEW k \in keys, top2[k] \in Ops PROVE st2[top2[k]] = "applied" /\ k \in plan[top2[k]]
  BY <1>1, <1>2 DEF Layered
<1>3. ASSUME NEW q \in Ops, st2[q] = "applied", NEW k \in plan[q]
      PROVE  /\ under2[q][k] # top2[k]
             /\ under2[q][k] \in Ops =>
                  st2[under2[q][k]] = "applied" /\ k \in plan[under2[q][k]]
  <2>1. CASE q = o
    BY <1>1, <1>3, <2>1 DEF Layered
  <2>2. CASE q # o
    BY <1>1, <1>3, <2>2 DEF Layered
  <2>. QED BY <2>1, <2>2
<1>4. ASSUME NEW q \in Ops, NEW q2 \in Ops, st2[q] = "applied", st2[q2] = "applied", q # q2,
             NEW k \in plan[q] \cap plan[q2]
      PROVE  under2[q][k] # under2[q2][k]
  <2>1. CASE q # o /\ q2 # o
    BY <1>1, <1>4, <2>1 DEF Layered
  <2>2. CASE q = o
    BY <1>1, <1>4, <2>2 DEF Layered
  <2>3. CASE q2 = o
    BY <1>1, <1>4, <2>3 DEF Layered
  <2>. QED BY <2>1, <2>2, <2>3
<1>. QED BY <1>2, <1>3, <1>4 DEF Layered

\* A rollback, which needs its operation's layer on top everywhere, takes it away.
Undoes(o, keys, top, top2, plan, st, st2, under, under2) ==
  /\ o \in Ops /\ st \in [Ops -> Statuses] /\ \A q \in Ops : plan[q] \subseteq keys
  /\ st[o] = "applied" /\ st2 = [st EXCEPT ![o] = "undone"]
  /\ \A k \in plan[o] : top[k] = o
  /\ \A k \in keys : top2[k] = IF k \in plan[o] THEN under[o][k] ELSE top[k]
  /\ \A q \in Ops : st2[q] = "applied" => under2[q] = under[q]

LEMMA UndoLayers ==
  ASSUME NEW o, NEW keys, NEW top, NEW top2, NEW plan, NEW st, NEW st2, NEW under, NEW under2,
         Layered(keys, top, plan, st, under),
         Undoes(o, keys, top, top2, plan, st, st2, under, under2)
  PROVE  Layered(keys, top2, plan, st2, under2)
<1>. USE DEF Undoes
<1>1. /\ st2[o] = "undone"
      /\ \A q \in Ops : q # o => st2[q] = st[q]
      /\ \A q \in Ops : st2[q] = "applied" => q # o /\ st[q] = "applied"
  OBVIOUS
<1>2. ASSUME NEW k \in keys, top2[k] \in Ops PROVE st2[top2[k]] = "applied" /\ k \in plan[top2[k]]
  <2>1. CASE k \in plan[o]
    BY <1>1, <1>2, <2>1 DEF Layered
  <2>2. CASE k \notin plan[o]
    BY <1>1, <1>2, <2>2 DEF Layered
  <2>. QED BY <2>1, <2>2
<1>3. ASSUME NEW q \in Ops, st2[q] = "applied", NEW k \in plan[q]
      PROVE  /\ under2[q][k] # top2[k]
             /\ under2[q][k] \in Ops =>
                  st2[under2[q][k]] = "applied" /\ k \in plan[under2[q][k]]
  <2>1. q # o /\ st[q] = "applied" /\ under2[q] = under[q] /\ k \in keys
    BY <1>1, <1>3
  <2>2. under[q][k] # o
    BY <2>1 DEF Layered
  <2>3. under2[q][k] # top2[k]
    BY <2>1 DEF Layered
  <2>. QED BY <1>1, <2>1, <2>2, <2>3 DEF Layered
<1>4. ASSUME NEW q \in Ops, NEW q2 \in Ops, st2[q] = "applied", st2[q2] = "applied", q # q2,
             NEW k \in plan[q] \cap plan[q2]
      PROVE  under2[q][k] # under2[q2][k]
  BY <1>1, <1>4 DEF Layered
<1>. QED BY <1>2, <1>3, <1>4 DEF Layered

-----------------------------------------------------------------------------
(* Which processes act, and which faults they meet.                          *)

ApplyWork == {"applying_row", "write", "commit", "restore", "fail"}
UndoWork == {"undo_applying_row", "undo_files", "undo_commit"}
RecoverWork == {"recover_files", "recover_manifest"}
Work == ApplyWork \cup UndoWork \cup RecoverWork
AfterDeath == {"down", "boot", "scan", "recover_acquire"}
Recovering == AfterDeath \cup RestoringLabels

\* One process, which recovers when it is started.
OneDaemon(A) ==
  \E p \in Daemons : A = {p} /\ Faults[p] \subseteq {"crash", "crash_in_undo", "raise"}
\* Any number of commands, none of which dies or recovers.
Commands(A) ==
  /\ A \cap (Daemons \cup Recoverers) = {}
  /\ \A p \in A : Faults[p] \subseteq {"raise"}
\* The two cases of the theorems.
Quiet(A) == A \subseteq Procs /\ (OneDaemon(A) \/ Commands(A))

\* Recovery restores the files of a rollback that a death has cut short, but not its
\* rows.  With no such death the rows are as safe as the files.
DiesInUndo(p) == "crash_in_undo" \in Faults[p]
Whole(A) == \A p \in A : ~ DiesInUndo(p)

StoreInv(A) == FileLayers /\ (Whole(A) => RowLayers)

\* Only A acts.
Others(A) ==
  /\ \A q \in Procs \ A : op[q] = None /\ pc[q] \in {"idle", "boot"}
  /\ Commands(A) => \A q \in A : pc[q] \notin Recovering

\* No two processes work on one operation.
Distinct == \A p, q \in Procs : op[p] = op[q] /\ op[p] # None => p = q

\* The operation of a process has a manifest.
Started(p) == op[p] # None => manifest[op[p]].state # "none"

\* What the manifests on disk say.
Disk ==
  /\ \A i, j \in Ids : Applying(i) /\ Applying(j) => i = j
  /\ \A o \in Ops : Applying(o) => manifest[o].writes = WriteSet[o] /\ manifest[o].before # None
  /\ \A o \in Ops : manifest[o].state = "applied" =>
       /\ manifest[o].writes = WriteSet[o]
       /\ manifest[o].before # None /\ manifest[o].after # None
       /\ \A r \in Scope[o] : manifest[o].after[r] = o
  /\ \A u \in Undos : manifest[u].state # "none" =>
       /\ manifest[u].undoes \in Ops
       /\ manifest[manifest[u].undoes].state = "applied"
  /\ \A u \in Undos : Applying(u) =>
       /\ manifest[u].writes = WriteSet[manifest[u].undoes]
       /\ manifest[u].before_rollback # None
       /\ \A f \in WriteSet[manifest[u].undoes] : backup[u][f] = manifest[u].undoes
       /\ \A r \in Scope[manifest[u].undoes] :
            manifest[u].before_rollback[r] = manifest[u].undoes

\* An operation on its way is in the hands of a process, or left for the daemon.
HandledBy(p, i) ==
  \/ op[p] = i /\ pc[p] \in Work
  \/ /\ i \in Ops \/ DiesInUndo(p)
     /\ \/ pc[p] \in {"down", "boot"}
        \/ pc[p] = "scan" /\ i \in pending[p]
        \/ pc[p] = "recover_acquire" /\ op[p] = i
Handled(A) == \A i \in Ids : Applying(i) => \E p \in A : HandledBy(p, i)

\* apply()
InApply(p) ==
  /\ pc[p] \in {"plan_row", "acquire", "check"} =>
       manifest[op[p]].state = "planned" /\ ~ mem[p].rollback_error
  /\ pc[p] \in ApplyWork =>
       /\ Applying(op[p]) /\ mem[p] = manifest[op[p]] /\ todo[p] \subseteq WriteSet[op[p]]
       /\ ~ mem[p].rollback_error

\* rollback()
InUndo(p) ==
  LET u == op[p]
      o == manifest[u].undoes
  IN
  /\ pc[p] \in RollbackLabels =>
       /\ mem[p].undoes = manifest[o].undoes
       /\ mem[p].writes = manifest[o].writes
       /\ mem[p].before = manifest[o].before
       /\ mem[p].after = manifest[o].after
  /\ pc[p] \in {"undo_plan_row", "undo_acquire", "undo_check"} => manifest[u].state = "planned"
  /\ pc[p] \in UndoWork =>
       /\ Applying(u)
       /\ todo[p] \subseteq WriteSet[o]
  /\ pc[p] = "undo_applying_row" => todo[p] = WriteSet[o]
  /\ pc[p] \in {"undo_files", "undo_commit"} =>
       \A f \in WriteSet[o] \ todo[p] : file[f] = backup[o][f]
  /\ pc[p] = "undo_commit" =>
       todo[p] = {} /\ \A r \in Scope[o] : row[r] = mem[p].before[r]

\* recover_interrupted()
InRecovery(p) ==
  /\ pc[p] \in RecoverWork \cup {"recover_acquire"} =>
       /\ op[p] \in Ops \/ DiesInUndo(p)
       /\ Applying(op[p]) /\ mem[p] = manifest[op[p]]
  /\ pc[p] \in RecoverWork =>
       /\ todo[p] \subseteq mem[p].writes
       /\ \A f \in mem[p].writes \ todo[p] : file[f] = backup[op[p]][f]
  /\ pc[p] = "recover_manifest" =>
       /\ todo[p] = {}
       /\ op[p] \in Ops => \A r \in Scope[op[p]] : row[r] = mem[p].before[r]

Place(p) == InApply(p) /\ InUndo(p) /\ InRecovery(p)

AtomicInv(A) ==
  /\ TxInv
  /\ Others(A) /\ Distinct /\ Disk /\ Handled(A)
  /\ \A p \in Procs : Started(p)
  /\ \A p \in A : Place(p)

-----------------------------------------------------------------------------
(* What a step of one process leaves to the others, and what it has to show. *)

Acts(p) == Call(p) \/ Step(p) \/ Fault(p) \/ Restart(p)

\* Two manifests that differ at most in who rolled them back.
Same(m, n) ==
  /\ m.state = n.state /\ m.undoes = n.undoes /\ m.writes = n.writes
  /\ m.before = n.before /\ m.after = n.after

\* A step changes no manifest but that of its own operation; of an applied one
\* not even that, but for the mark of a rollback.
Beside(p) ==
  /\ \A i \in Ids : manifest[i].state = "applied" => Same(manifest'[i], manifest[i])
  /\ \A i \in Ids \ {op[p], op'[p]} :
       manifest[i].state # "applied" => manifest'[i] = manifest[i]

\* When there are several processes, they are commands.
LEMMA SeveralAreCommands ==
  ASSUME NEW A, Quiet(A), NEW p \in A, NEW q \in A, q # p
  PROVE  Commands(A)
BY DEF Quiet, OneDaemon

\* What holds at the places of the other processes still does.
LEMMA OtherPlaces ==
  ASSUME NEW A, Quiet(A), AtomicInv(A), NEW p \in A, Frame(p), Beside(p), Distinct'
  PROVE  \A q \in A \ {p} : Place(q)'
<1>. SUFFICES ASSUME NEW q \in A, q # p
              PROVE  Place(q)'
  OBVIOUS
<1>1. p \in Procs /\ q \in Procs /\ Commands(A) /\ pc[q] \notin Recovering
  BY SeveralAreCommands DEF Quiet, AtomicInv, Others
<1>2. ProcessInv(q) /\ ProcessInv(p) /\ Place(q) /\ TypeOK
  BY <1>1 DEF AtomicInv, TxInv
<1>3. pc'[q] = pc[q] /\ op'[q] = op[q] /\ mem'[q] = mem[q] /\ todo'[q] = todo[q]
  BY <1>1 DEF Frame
<1>4. pc[q] \in Locked => UNCHANGED <<file, row, backup>>
  BY <1>1, <1>2 DEF Frame, ProcessInv, OwnsLock
<1>5. pc[q] \in ApplyLabels \cup RollbackLabels =>
        op[q] \in Ids /\ op[q] # op[p] /\ op[q] # op'[p]
  BY <1>1, <1>2, <1>3, NameAssumption DEF AtomicInv, Distinct, ProcessInv, OperationFits, Ids
<1>6. InApply(q)'
  <2>1. pc[q] \in {"plan_row", "acquire", "check"} \cup ApplyWork =>
          manifest'[op[q]] = manifest[op[q]]
    BY <1>2, <1>5 DEF Place, InApply, Beside, ApplyLabels, Writing, ApplyWork, Applying
  <2>. QED BY <1>2, <1>3, <2>1 DEF Place, InApply, Applying
<1>7. InUndo(q)'
  <2>. DEFINE u == op[q]
              o == manifest[u].undoes
  <2>1. CASE pc[q] \in RollbackLabels
    <3>1. u \in Undos /\ manifest[u].state # "none"
      BY <1>2, <2>1 DEF ProcessInv, OperationFits
    <3>2. o \in Ops /\ manifest[o].state = "applied"
      BY <3>1 DEF AtomicInv, Disk
    <3>3. manifest'[u].undoes = o /\ manifest'[u].state = manifest[u].state
      BY <1>5, <2>1, <3>1 DEF Beside, Same
    <3>4. Same(manifest'[o], manifest[o])
      BY <3>2 DEF Beside, Ids
    <3>5. pc[q] \in UndoWork => UNCHANGED <<file, row, backup>>
      BY <1>4 DEF UndoWork, Locked, UndoLabels
    <3>. QED BY <1>2, <1>3, <3>3, <3>4, <3>5
             DEF Place, InUndo, Same, Applying, UndoWork
  <2>2. CASE pc[q] \notin RollbackLabels
    BY <1>3, <2>2 DEF InUndo, RollbackLabels, UndoLabels, UndoWork
  <2>. QED BY <2>1, <2>2
<1>8. InRecovery(q)'
  BY <1>1, <1>3 DEF InRecovery, Recovering, AfterDeath, RestoringLabels, RecoverWork
<1>. QED BY <1>6, <1>7, <1>8 DEF Place

\* Every operation that is on its way after a step of p is in p's hands, or
\* has been in those of another.
HandsOn(p) ==
  \A i \in Ids : Applying(i)' => HandledBy(p, i)' \/ (Applying(i) /\ ~ HandledBy(p, i))

\* What is enough for a step to keep the invariant.
LEMMA InvRule ==
  ASSUME NEW A, Quiet(A), AtomicInv(A), NEW p \in A, Acts(p),
         Beside(p), Distinct', Disk', Place(p)',
         op'[p] \in {op[p], None} \/ Started(p)',
         HandsOn(p), Commands(A) => pc'[p] \notin Recovering
  PROVE  AtomicInv(A)'
<1>1. p \in Procs /\ TxInv
  BY DEF Quiet, AtomicInv
<1>2. Frame(p)
  BY <1>1, ActionStep DEF Acts
<1>3. TxInv'
  BY <1>1, InvariantStep DEF Next, Acts
<1>4. \A q \in A : Place(q)'
  BY <1>2, OtherPlaces
<1>5. Others(A)'
  <2>1. \A q \in Procs \ {p} : pc'[q] = pc[q] /\ op'[q] = op[q]
    BY <1>2 DEF Frame
  <2>2. \A q \in Procs \ A : op'[q] = None /\ pc'[q] \in {"idle", "boot"}
    BY <2>1 DEF AtomicInv, Others
  <2>3. ASSUME Commands(A), NEW q \in A PROVE pc'[q] \notin Recovering
    BY <2>1, <2>3 DEF AtomicInv, Others, Quiet
  <2>4. ASSUME Commands(A)' PROVE Commands(A)
    BY <2>4 DEF Commands
  <2>. QED BY <2>2, <2>3, <2>4 DEF Others
<1>6. Handled(A)'
  <2>. SUFFICES ASSUME NEW i \in Ids, Applying(i)'
                PROVE  \E q \in A : HandledBy(q, i)'
    BY DEF Handled
  <2>1. CASE HandledBy(p, i)'
    BY <2>1
  <2>2. HandledBy(p, i)' \/ (Applying(i) /\ ~ HandledBy(p, i))
    BY DEF HandsOn
  <2>3. CASE Applying(i) /\ ~ HandledBy(p, i)
    <3>1. PICK q \in A : HandledBy(q, i) /\ q # p
      BY <2>3 DEF AtomicInv, Handled
    <3>2. Commands(A)
      BY <3>1, SeveralAreCommands
    <3>3. op[q] = i /\ pc[q] \in Work
      BY <3>1, <3>2 DEF HandledBy, AtomicInv, Others, Recovering, AfterDeath
    <3>4. op'[q] = i /\ pc'[q] \in Work
      BY <1>2, <3>1, <3>3 DEF Frame, Quiet
    <3>. QED BY <3>4 DEF HandledBy
  <2>. QED BY <2>1, <2>2, <2>3
<1>7. \A q \in Procs : Started(q)'
  <2>1. \A q \in Procs : op'[q] = op[q] => Started(q)'
    BY <1>1, <1>2 DEF AtomicInv, TxInv, TypeOK, Started, Frame
  <2>2. Started(p)'
    BY <1>1, <2>1 DEF Started
  <2>. QED BY <1>2, <2>1, <2>2 DEF Frame
<1>. QED BY <1>3, <1>4, <1>5, <1>6, <1>7 DEF AtomicInv

\* The same for a step that changes no manifest and no copy, and whose process
\* takes up no operation.
LEMMA KeepRule ==
  ASSUME NEW A, Quiet(A), AtomicInv(A), NEW p \in A, Acts(p),
         UNCHANGED <<manifest, backup>>, op'[p] \in {op[p], None}, Place(p)',
         Commands(A) => pc'[p] \notin Recovering,
         \A i \in Ids : Applying(i) /\ HandledBy(p, i) => HandledBy(p, i)'
  PROVE  AtomicInv(A)'
<1>1. p \in Procs /\ TxInv
  BY DEF Quiet, AtomicInv
<1>2. \A q \in Procs \ {p} : op'[q] = op[q]
  BY <1>1, ActionStep DEF Acts, Frame
<1>3. Distinct'
  BY <1>2 DEF AtomicInv, Distinct
<1>4. Beside(p)
  BY DEF Beside, Same
<1>5. Disk'
  BY DEF AtomicInv, Disk, Applying
<1>6. HandsOn(p)
  BY DEF HandsOn, Applying
<1>. QED BY <1>3, <1>4, <1>5, <1>6, InvRule

\* A process that is not on its way with an operation has nothing to keep.
Elsewhere ==
  {"idle", "boot", "down", "scan", "release", "journal", "applied_row", "fail_journal",
   "fail_row", "recover_journal", "recover_row", "recover_release"}

LEMMA ElsewhereRule ==
  ASSUME NEW p, pc'[p] \in Elsewhere
  PROVE  Place(p)'
BY DEF Elsewhere, Place, InApply, InUndo, InRecovery, ApplyWork, UndoWork, RecoverWork,
       RollbackLabels, UndoLabels

-----------------------------------------------------------------------------
(* The store that a state stands for.                                        *)

\* With operation i on its way, its copies count; with none, the disk does.
LEMMA LogicalWhen ==
  ASSUME Disk, NEW i \in Ids, Applying(i)
  PROVE  /\ LogicalFile = [f \in Files |-> IF f \in manifest[i].writes THEN backup[i][f]
                                                                     ELSE file[f]]
         /\ LogicalRow = [r \in Rows |-> IF r \in Scope[PlanOf(i)] THEN CopiedRows(i)[r]
                                                                 ELSE row[r]]
<1>1. \A j \in Ids : Applying(j) => j = i
  BY DEF Disk
<1>2. LogicalFile = [f \in Files |-> IF f \in manifest[i].writes THEN backup[i][f]
                                                              ELSE file[f]]
  <2>1. ASSUME NEW f \in Files, f \in manifest[i].writes
        PROVE  (CHOOSE j \in Ids : Applying(j) /\ f \in manifest[j].writes) = i
    BY <1>1, <2>1
  <2>. QED BY <1>1, <2>1 DEF LogicalFile
<1>3. LogicalRow = [r \in Rows |-> IF r \in Scope[PlanOf(i)] THEN CopiedRows(i)[r]
                                                          ELSE row[r]]
  <2>1. ASSUME NEW r \in Rows, r \in Scope[PlanOf(i)]
        PROVE  (CHOOSE j \in Ids : Applying(j) /\ r \in Scope[PlanOf(j)]) = i
    BY <1>1, <2>1
  <2>. QED BY <1>1, <2>1 DEF LogicalRow
<1>. QED BY <1>2, <1>3

LEMMA StatusType == LogicalStatus \in [Ops -> Statuses]
BY DEF LogicalStatus, Statuses

LEMMA LogicalElse ==
  ASSUME TypeOK, \A i \in Ids : ~ Applying(i)
  PROVE  LogicalFile = file /\ LogicalRow = row
BY DEF TypeOK, RowSnapshot, LogicalFile, LogicalRow

\* A step that changes neither manifests nor copies changes the store at most in
\* its contents.
LEMMA SilentRule ==
  ASSUME UNCHANGED <<manifest, backup, LogicalFile, LogicalRow>>
  PROVE  UNCHANGED Atomic!vars
BY DEF LogicalStatus, LogicalPrior, Atomic!vars

LEMMA SilentSame ==
  ASSUME UNCHANGED <<manifest, backup, file, row>>
  PROVE  UNCHANGED Atomic!vars
BY SilentRule DEF LogicalFile, LogicalRow, Applying, CopiedRows, PlanOf

-----------------------------------------------------------------------------
(* The steps that the store does not notice.                                 *)

AfterCommit == {"undo_journal", "undo_applied_row", "undo_mark", "undo_mark_journal"}

\* Steps that only move on.
LEMMA PlainAtomic ==
  ASSUME NEW A, Quiet(A), AtomicInv(A), NEW p \in A,
         \/ RecordPlanned(p) \/ RecordApplying(p) \/ JournalApplied(p)
         \/ RecordApplied(p) \/ JournalFailed(p) \/ RecordFailed(p)
         \/ RecordUndoPlanned(p) \/ RecordUndoApplying(p) \/ JournalUndo(p)
         \/ RecordUndoApplied(p) \/ JournalRolledBack(p)
         \/ JournalRecovered(p) \/ RecordRecovered(p)
         \/ PrepareRefused(p) \/ UndoRefused(p)
         \/ ScanDone(p) \/ Restart(p)
  PROVE  AtomicInv(A)' /\ UNCHANGED Atomic!vars
<1>1. p \in Procs /\ TxInv /\ TypeOK /\ Place(p)
  BY DEF Quiet, AtomicInv, TxInv
<1>2. Plain(p)
  BY <1>1, PlainSteps
<1>3. Acts(p)
  BY DEF Acts, Step, ApplyStep, UndoStep, RecoverStep
<1>4. pc[p] = "down" => Idle(p) = "boot"
  BY DEF Quiet, OneDaemon, Commands, Idle, AtomicInv, Others, Recovering, AfterDeath
<1>5. \/ pc[p] \notin Work \cup AfterDeath /\ pc'[p] \in Elsewhere \ AfterDeath
      \/ pc[p] = "scan" /\ pending[p] = {} /\ pc'[p] = "idle"
      \/ pc[p] = "down" /\ pc'[p] = "boot"
      \/ pc[p] = "plan_row" /\ pc'[p] = "acquire"
      \/ pc[p] = "applying_row" /\ pc'[p] = "write"
      \/ pc[p] = "undo_plan_row" /\ pc'[p] = "undo_acquire"
      \/ pc[p] = "undo_applying_row" /\ pc'[p] = "undo_files"
      \/ pc[p] \in AfterCommit /\ pc'[p] \in AfterCommit
  <2>. USE <1>1 DEF TypeOK, Record, Journal, Goto, Elsewhere, AfterCommit, Work, ApplyWork,
                    UndoWork, RecoverWork, AfterDeath
  <2>1. CASE RecordPlanned(p) \/ RecordApplying(p) \/ JournalApplied(p) \/ RecordApplied(p)
    BY <2>1 DEF RecordPlanned, RecordApplying, JournalApplied, RecordApplied
  <2>2. CASE JournalFailed(p) \/ RecordFailed(p) \/ RecordUndoPlanned(p)
             \/ RecordUndoApplying(p) \/ JournalUndo(p) \/ RecordUndoApplied(p)
    BY <2>2 DEF JournalFailed, RecordFailed, RecordUndoPlanned, RecordUndoApplying,
                JournalUndo, RecordUndoApplied
  <2>3. CASE JournalRolledBack(p) \/ JournalRecovered(p) \/ RecordRecovered(p)
    BY <2>3 DEF JournalRolledBack, JournalRecovered, RecordRecovered
  <2>4. CASE PrepareRefused(p) \/ UndoRefused(p) \/ ScanDone(p) \/ Restart(p)
    BY <1>4, <2>4 DEF PrepareRefused, UndoRefused, ScanDone, Restart
  <2>. QED BY <2>1, <2>2, <2>3, <2>4
<1>6. Place(p)'
  <2>1. CASE pc'[p] \in Elsewhere
    BY <2>1, ElsewhereRule
  <2>2. CASE pc'[p] \notin Elsewhere
    BY <1>1, <1>2, <1>5, <2>2
    DEF Plain, Place, InApply, InUndo, InRecovery, Applying, ApplyWork, UndoWork, RecoverWork,
        RollbackLabels, UndoLabels, AfterCommit, Elsewhere
  <2>. QED BY <2>1, <2>2
<1>7. ASSUME NEW i \in Ids, HandledBy(p, i) PROVE HandledBy(p, i)'
  BY <1>2, <1>5, <1>7 DEF HandledBy, Plain, Work, ApplyWork, UndoWork, RecoverWork,
                          AfterDeath, AfterCommit
<1>8. Commands(A) => pc'[p] \notin Recovering
  <2>1. Commands(A) => pc[p] \notin Recovering
    BY DEF AtomicInv, Others
  <2>2. pc'[p] \in RecoverLabels => pc[p] \in RecoverLabels
    BY <1>2 DEF Plain
  <2>3. pc'[p] \in Recovering => pc[p] \in Recovering
    BY <1>5, <2>2 DEF Recovering, RecoverLabels, RestoringLabels, AfterDeath, AfterCommit,
                      Elsewhere
  <2>. QED BY <2>1, <2>3
<1>9. AtomicInv(A)'
  BY <1>2, <1>3, <1>6, <1>7, <1>8, KeepRule DEF Plain
<1>. QED BY <1>2, <1>9, SilentSame DEF Plain

\* Processes that take the lock, leave it, give up, die, or start to recover; and an
\* exception that sends apply() to its handler.
LEMMA MoveAtomic ==
  ASSUME NEW A, Quiet(A), AtomicInv(A), NEW p \in A,
         \/ AcquireForApply(p) \/ AcquireForUndo(p) \/ AcquireForRecovery(p)
         \/ AcquireRefused(p) \/ Release(p) \/ ReleaseRecovered(p) \/ Crash(p)
         \/ Boot(p) \/ BeginRecover(p) \/ Raise(p)
  PROVE  AtomicInv(A)' /\ UNCHANGED Atomic!vars
<1>1. p \in Procs /\ TxInv /\ TypeOK /\ Place(p) /\ ProcessInv(p)
  BY DEF Quiet, AtomicInv, TxInv
<1>2. Acts(p)
  BY DEF Acts, Step, ApplyStep, UndoStep, RecoverStep, Fault, Call
<1>3. /\ UNCHANGED <<file, row, manifest, backup>>
      /\ op'[p] \in {op[p], None}
      /\ pc'[p] \notin Elsewhere => op'[p] = op[p] /\ mem'[p] = mem[p]
  <2>. USE <1>1 DEF TypeOK, Goto, Forget, Elsewhere, Idle
  <2>1. CASE AcquireForApply(p) \/ AcquireForUndo(p) \/ AcquireForRecovery(p)
    BY <2>1 DEF AcquireForApply, AcquireForUndo, AcquireForRecovery, disk, local
  <2>2. CASE AcquireRefused(p) \/ Release(p) \/ ReleaseRecovered(p) \/ Crash(p)
    BY <2>2 DEF AcquireRefused, Release, ReleaseRecovered, Crash, disk
  <2>3. CASE Boot(p) \/ BeginRecover(p) \/ Raise(p)
    BY <2>3 DEF Boot, BeginRecover, Raise, disk
  <2>. QED BY <2>1, <2>2, <2>3
<1>4. CASE AcquireForApply(p) \/ AcquireForUndo(p)
  <2>1. \/ pc[p] = "acquire" /\ pc'[p] = "check"
        \/ pc[p] = "undo_acquire" /\ pc'[p] = "undo_check"
    BY <1>1, <1>4 DEF AcquireForApply, AcquireForUndo, Goto, TypeOK
  <2>2. Place(p)'
    BY <1>1, <1>3, <2>1 DEF Place, InApply, InUndo, InRecovery, Elsewhere, ApplyWork, UndoWork,
                            RecoverWork, RollbackLabels, UndoLabels
  <2>3. /\ \A i \in Ids : ~ HandledBy(p, i)
        /\ pc'[p] \notin Recovering
    BY <2>1 DEF HandledBy, Work, ApplyWork, UndoWork, RecoverWork, Recovering, AfterDeath,
                RestoringLabels
  <2>. QED BY <1>2, <1>3, <2>2, <2>3, KeepRule, SilentSame
<1>5. CASE AcquireForRecovery(p)
  <2>1. /\ pc[p] = "recover_acquire" /\ pc'[p] = "recover_files"
        /\ todo'[p] = mem[p].writes
    BY <1>1, <1>5 DEF AcquireForRecovery, Goto, TypeOK
  <2>2. /\ op[p] \in Ops \/ DiesInUndo(p)
        /\ Applying(op[p]) /\ mem[p] = manifest[op[p]]
    BY <1>1, <2>1 DEF Place, InRecovery
  <2>4. Place(p)'
    BY <1>1, <1>3, <2>1, <2>2
    DEF Place, InApply, InUndo, InRecovery, Applying, Elsewhere, ApplyWork, UndoWork,
        RecoverWork, RollbackLabels, UndoLabels
  <2>5. /\ \A i \in Ids : HandledBy(p, i) => HandledBy(p, i)'
        /\ pc[p] \in Recovering
    BY <1>3, <2>1 DEF HandledBy, Work, ApplyWork, UndoWork, RecoverWork, Recovering,
                      AfterDeath, Elsewhere
  <2>6. ~ Commands(A)
    BY <2>5 DEF AtomicInv, Others
  <2>. QED BY <1>2, <1>3, <2>4, <2>5, <2>6, KeepRule, SilentSame
<1>6. CASE Release(p) \/ ReleaseRecovered(p)
  <2>1. /\ pc[p] \in {"release", "recover_release"} /\ pc'[p] \in {"idle", "scan"}
        /\ pc'[p] = "scan" => pc[p] \in Recovering
    BY <1>1, <1>6 DEF Release, ReleaseRecovered, Goto, TypeOK, Recovering, RestoringLabels
  <2>2. /\ \A i \in Ids : ~ HandledBy(p, i)
        /\ Commands(A) => pc'[p] \notin Recovering
    BY <2>1 DEF HandledBy, Work, ApplyWork, UndoWork, RecoverWork, Recovering, AfterDeath,
                RestoringLabels, AtomicInv, Others
  <2>3. Place(p)'
    BY <2>1, ElsewhereRule DEF Elsewhere
  <2>. QED BY <1>2, <1>3, <2>2, <2>3, KeepRule, SilentSame
<1>7. CASE AcquireRefused(p)
  <2>1. /\ pc[p] \in {"acquire", "undo_acquire", "recover_acquire"}
        /\ pc'[p] = IF pc[p] = "recover_acquire" THEN Idle(p) ELSE "idle"
    BY <1>1, <1>7 DEF AcquireRefused, Goto, TypeOK
  <2>2. pc[p] = "recover_acquire" => Idle(p) = "boot" /\ ~ Commands(A)
    BY DEF Quiet, OneDaemon, Idle, AtomicInv, Others, Recovering, AfterDeath
  <2>3. /\ \A i \in Ids : HandledBy(p, i) => HandledBy(p, i)'
        /\ Commands(A) => pc'[p] \notin Recovering
    BY <2>1, <2>2 DEF HandledBy, Work, ApplyWork, UndoWork, RecoverWork, Recovering,
                      AfterDeath, RestoringLabels
  <2>4. Place(p)'
    BY <2>1, <2>2, ElsewhereRule DEF Elsewhere
  <2>. QED BY <1>2, <1>3, <2>3, <2>4, KeepRule, SilentSame
<1>8. CASE Crash(p)
  <2>1. /\ pc'[p] = "down" /\ ~ Commands(A)
        /\ pc[p] \in UndoLabels => DiesInUndo(p)
    BY <1>1, <1>8 DEF Crash, Goto, TypeOK, Quiet, Commands, DiesInUndo
  <2>2. ASSUME NEW i \in Ids, Applying(i), HandledBy(p, i) PROVE HandledBy(p, i)'
    <3>1. i \in Ops \/ DiesInUndo(p)
      BY <1>1, <2>1, <2>2
      DEF HandledBy, Place, InRecovery, ProcessInv, OperationFits, Work, ApplyWork, UndoWork,
          RecoverWork, ApplyLabels, Writing, UndoLabels
    <3>. QED BY <2>1, <3>1 DEF HandledBy
  <2>3. Place(p)'
    BY <2>1, ElsewhereRule DEF Elsewhere
  <2>. QED BY <1>2, <1>3, <2>1, <2>2, <2>3, KeepRule, SilentSame
<1>9. CASE Boot(p) \/ BeginRecover(p)
  <2>1. /\ pc[p] \in {"boot", "idle"} /\ pc'[p] = "scan" /\ pending'[p] = Manifests
        /\ ~ Commands(A)
    BY <1>1, <1>9 DEF Boot, BeginRecover, Goto, TypeOK, Commands, AtomicInv, Others,
                      Recovering, AfterDeath
  <2>2. ASSUME NEW i \in Ids, Applying(i), HandledBy(p, i) PROVE HandledBy(p, i)'
    <3>1. i \in Manifests /\ (i \in Ops \/ DiesInUndo(p))
      BY <2>1, <2>2 DEF HandledBy, Manifests, Applying, Work, ApplyWork, UndoWork, RecoverWork
    <3>. QED BY <2>1, <3>1 DEF HandledBy
  <2>3. Place(p)'
    BY <2>1, ElsewhereRule DEF Elsewhere
  <2>. QED BY <1>2, <1>3, <2>1, <2>2, <2>3, KeepRule, SilentSame
<1>10. CASE Raise(p)
  <2>1. /\ pc[p] \in {"write", "commit"} /\ pc'[p] = "restore"
        /\ todo'[p] = WriteSet[op[p]] /\ op'[p] = op[p] /\ mem'[p] = mem[p]
    <3>1. "raise_late" \notin Faults[p]
      BY DEF Quiet, OneDaemon, Commands
    <3>. QED BY <1>1, <1>10, <3>1 DEF Raise, Goto, TypeOK
  <2>2. Place(p)'
    BY <1>1, <1>3, <2>1 DEF Place, InApply, InUndo, InRecovery, Applying, ApplyWork, UndoWork,
                            RecoverWork, RollbackLabels, UndoLabels
  <2>3. /\ \A i \in Ids : HandledBy(p, i) => HandledBy(p, i)'
        /\ pc'[p] \notin Recovering
    BY <2>1 DEF HandledBy, Work, ApplyWork, Recovering, AfterDeath, RestoringLabels
  <2>. QED BY <1>2, <1>3, <2>2, <2>3, KeepRule, SilentSame
<1>. QED BY <1>4, <1>5, <1>6, <1>7, <1>8, <1>9, <1>10

\* Recovery reads the next manifest.
LEMMA ScanAtomic ==
  ASSUME NEW A, Quiet(A), AtomicInv(A), NEW p \in A, NEW i \in Ids, Scan(p, i)
  PROVE  AtomicInv(A)' /\ UNCHANGED Atomic!vars
<1>1. p \in Procs /\ TypeOK
  BY DEF Quiet, AtomicInv, TxInv
<1>2. /\ UNCHANGED <<file, row, manifest, backup>>
      /\ pc[p] = "scan" /\ i \in pending[p] /\ pending'[p] = pending[p] \ {i}
      /\ \A q \in Procs \ {p} : op'[q] = op[q]
  BY <1>1 DEF Scan, disk, TypeOK
<1>3. Acts(p)
  BY DEF Acts, Step, RecoverStep
<1>4. ~ Commands(A) /\ A = {p}
  BY <1>2 DEF Quiet, OneDaemon, AtomicInv, Others, Recovering, AfterDeath
<1>5. CASE manifest[i].state # "applying"
  <2>1. pc'[p] = "scan" /\ op'[p] = op[p]
    BY <1>1, <1>2, <1>5 DEF Scan, TypeOK
  <2>2. \A j \in Ids : Applying(j) /\ HandledBy(p, j) => HandledBy(p, j)'
    BY <1>2, <1>5, <2>1 DEF HandledBy, Applying, Work, ApplyWork, UndoWork, RecoverWork
  <2>3. Place(p)'
    BY <2>1, ElsewhereRule DEF Elsewhere
  <2>. QED BY <1>2, <1>3, <1>4, <2>1, <2>2, <2>3, KeepRule, SilentSame
<1>6. CASE manifest[i].state = "applying"
  <2>1. pc'[p] = "recover_acquire" /\ op'[p] = i /\ mem'[p] = manifest[i]
    BY <1>1, <1>6 DEF Scan, Goto, TypeOK
  <2>2. i \in Ops \/ DiesInUndo(p)
    <3>1. Applying(i) /\ HandledBy(p, i)
      BY <1>4, <1>6 DEF Applying, AtomicInv, Handled
    <3>. QED BY <1>2, <3>1 DEF HandledBy, Work, ApplyWork, UndoWork, RecoverWork
  <2>3. Place(p)'
    BY <1>2, <1>6, <2>1, <2>2 DEF Place, InApply, InUndo, InRecovery, Applying, ApplyWork,
       UndoWork, RecoverWork, RollbackLabels, UndoLabels
  <2>4. Distinct'
    <3>1. \A q \in Procs \ {p} : op[q] = None
      BY <1>4 DEF AtomicInv, Others
    <3>. QED BY <1>2, <3>1 DEF Distinct
  <2>5. Beside(p) /\ Disk'
    BY <1>2 DEF Beside, Same, AtomicInv, Disk, Applying
  <2>6. HandsOn(p)
    <3>1. \A j \in Ids : Applying(j) => j = i
      BY <1>6 DEF AtomicInv, Disk, Applying
    <3>. QED BY <1>2, <2>1, <2>2, <3>1 DEF HandsOn, HandledBy, Applying
  <2>7. Started(p)'
    BY <1>2, <1>6, <2>1 DEF Started
  <2>. QED BY <1>2, <1>3, <1>4, <2>3, <2>4, <2>5, <2>6, <2>7, InvRule, SilentSame
<1>. QED BY <1>5, <1>6

\* The operation of a process on its way: what it is about, and what the store says.
LEMMA AtWork ==
  ASSUME NEW A, Quiet(A), AtomicInv(A), NEW p \in A, pc[p] \in Work
  PROVE  LET i == op[p]
             o == PlanOf(i)
         IN  /\ p \in Procs /\ i \in Ids /\ o \in Ops /\ Applying(i)
             /\ i \in Ops => o = i
             /\ pc[p] \in ApplyWork => i \in Ops
             /\ pc[p] \in UndoWork => i \in Undos /\ o = manifest[i].undoes
             /\ manifest[i].writes = WriteSet[o] /\ todo[p] \subseteq WriteSet[o]
             /\ LogicalFile = [f \in Files |-> IF f \in WriteSet[o] THEN backup[i][f] ELSE file[f]]
             /\ LogicalRow = [r \in Rows |-> IF r \in Scope[o] THEN CopiedRows(i)[r] ELSE row[r]]
<1>. DEFINE i == op[p]
            o == PlanOf(i)
<1>1. p \in Procs /\ ProcessInv(p) /\ Place(p) /\ Disk
  BY DEF Quiet, AtomicInv, TxInv
<1>2. i \in Ids /\ Applying(i)
  BY <1>1 DEF ProcessInv, OperationFits, Place, InApply, InUndo, InRecovery, Work, ApplyWork,
              UndoWork, RecoverWork, ApplyLabels, RollbackLabels, RecoverLabels,
              RestoringLabels, Writing, UndoLabels, Ids
<1>3. /\ o \in Ops /\ manifest[i].writes = WriteSet[o]
      /\ i \in Ops => o = i
      /\ i \in Undos => o = manifest[i].undoes
  <2>1. CASE i \in Ops
    BY <1>1, <2>1, <1>2, NameAssumption DEF PlanOf, Disk
  <2>2. CASE i \in Undos
    BY <1>1, <2>2, <1>2, NameAssumption DEF PlanOf, Disk, Applying
  <2>. QED BY <1>2, <2>1, <2>2 DEF Ids
<1>4. /\ pc[p] \in ApplyWork => i \in Ops
      /\ pc[p] \in UndoWork => i \in Undos
  BY <1>1 DEF ProcessInv, OperationFits, ApplyWork, UndoWork, ApplyLabels, RollbackLabels,
              Writing, UndoLabels
<1>5. todo[p] \subseteq WriteSet[o]
  <2>1. CASE pc[p] \in ApplyWork
    BY <1>1, <1>3, <1>4, <2>1 DEF Place, InApply
  <2>2. CASE pc[p] \in UndoWork
    BY <1>1, <1>3, <1>4, <2>2 DEF Place, InUndo
  <2>3. CASE pc[p] \in RecoverWork
    BY <1>1, <1>3, <2>3 DEF Place, InRecovery
  <2>. QED BY <2>1, <2>2, <2>3 DEF Work
<1>. QED BY <1>1, <1>2, <1>3, <1>4, <1>5, LogicalWhen

\* What is written or restored under an operation on its way does not show.
LEMMA HiddenRule ==
  ASSUME NEW A, Quiet(A), AtomicInv(A), NEW p \in A, pc[p] \in Work,
         UNCHANGED <<manifest, backup>>,
         \A f \in Files \ WriteSet[PlanOf(op[p])] : file'[f] = file[f],
         \A r \in Rows \ Scope[PlanOf(op[p])] : row'[r] = row[r],
         AtomicInv(A)'
  PROVE  UNCHANGED Atomic!vars
<1>. PICK i, o : i = op[p] /\ o = PlanOf(i)
  OBVIOUS
<1>1. /\ Disk' /\ i \in Ids /\ Applying(i) /\ manifest[i].writes = WriteSet[o]
      /\ LogicalFile = [f \in Files |-> IF f \in WriteSet[o] THEN backup[i][f] ELSE file[f]]
      /\ LogicalRow = [r \in Rows |-> IF r \in Scope[o] THEN CopiedRows(i)[r] ELSE row[r]]
  BY AtWork DEF AtomicInv
<1>2. /\ \A j \in Ids : Applying(j)' => j = i
      /\ Applying(i)'
  BY <1>1 DEF Disk, Applying
<1>3. LogicalFile' = [f \in Files |-> IF f \in WriteSet[o] THEN backup[i][f] ELSE file'[f]]
  <2>1. ASSUME NEW f \in Files, f \in WriteSet[o]
        PROVE  (CHOOSE j \in Ids : Applying(j)' /\ f \in manifest'[j].writes) = i
    BY <1>1, <1>2, <2>1
  <2>. QED BY <1>1, <1>2, <2>1 DEF LogicalFile
<1>4. LogicalRow' = [r \in Rows |-> IF r \in Scope[o] THEN CopiedRows(i)[r] ELSE row'[r]]
  <2>1. PlanOf(i)' = o /\ CopiedRows(i)' = CopiedRows(i)
    BY DEF PlanOf, CopiedRows
  <2>2. ASSUME NEW r \in Rows, r \in Scope[o]
        PROVE  (CHOOSE j \in Ids : Applying(j)' /\ r \in Scope[PlanOf(j)']) = i
    BY <1>1, <1>2, <2>1, <2>2
  <2>. QED BY <1>1, <1>2, <2>1, <2>2 DEF LogicalRow
<1>. QED BY <1>1, <1>3, <1>4, SilentRule

\* One file gets its content, from the plan or from a copy.
LEMMA FileAtomic ==
  ASSUME NEW A, Quiet(A), AtomicInv(A), NEW p \in A, NEW f \in Files,
         WriteFile(p, f) \/ RestoreFile(p, f) \/ UndoFile(p, f) \/ RecoverFile(p, f)
  PROVE  AtomicInv(A)' /\ UNCHANGED Atomic!vars
<1>1. p \in Procs /\ TypeOK /\ Place(p) /\ Disk
  BY DEF Quiet, AtomicInv, TxInv
<1>2. /\ UNCHANGED <<row, manifest, backup, pc, op, mem>>
      /\ todo'[p] = todo[p] \ {f} /\ f \in todo[p]
      /\ pc[p] \in {"write", "restore", "undo_files", "recover_files"}
      /\ \A g \in Files \ {f} : file'[g] = file[g]
      /\ pc[p] = "undo_files" => file'[f] = backup[PlanOf(op[p])][f]
      /\ pc[p] = "recover_files" => file'[f] = backup[op[p]][f]
  BY <1>1 DEF WriteFile, RestoreFile, UndoFile, RecoverFile, PutFile, TypeOK
<1>3. Acts(p)
  BY DEF Acts, Step, ApplyStep, UndoStep, RecoverStep
<1>4. /\ pc[p] \in Work
      /\ PlanOf(op[p]) \in Ops /\ todo[p] \subseteq WriteSet[PlanOf(op[p])]
      /\ pc[p] \in ApplyWork => PlanOf(op[p]) = op[p]
      /\ pc[p] \in UndoWork => PlanOf(op[p]) = manifest[op[p]].undoes
      /\ WriteSet[PlanOf(op[p])] \subseteq Files
  <2>1. pc[p] \in Work
    BY <1>2 DEF Work, ApplyWork, UndoWork, RecoverWork
  <2>. QED BY <2>1, AtWork, PlanAssumption
<1>5. Place(p)'
  <2>1. InApply(p)'
    BY <1>1, <1>2, <1>4 DEF Place, InApply, Applying, ApplyWork
  <2>2. InUndo(p)'
    BY <1>1, <1>2, <1>4 DEF Place, InUndo, Applying, UndoWork, RollbackLabels, UndoLabels
  <2>3. InRecovery(p)'
    <3>1. mem[p].writes \subseteq Files
      BY <1>1 DEF TypeOK, Manifest
    <3>. QED BY <1>1, <1>2, <3>1 DEF Place, InRecovery, Applying, RecoverWork
  <2>. QED BY <2>1, <2>2, <2>3 DEF Place
<1>6. AtomicInv(A)'
  <2>1. Commands(A) => pc'[p] \notin Recovering
    BY <1>2 DEF AtomicInv, Others
  <2>2. \A i \in Ids : HandledBy(p, i) => HandledBy(p, i)'
    BY <1>2, <1>4 DEF HandledBy
  <2>. QED BY <1>2, <1>3, <1>5, <2>1, <2>2, KeepRule
<1>. QED BY <1>2, <1>4, <1>6, HiddenRule

\* The rows change, once every file has.
LEMMA RowAtomic ==
  ASSUME NEW A, Quiet(A), AtomicInv(A), NEW p \in A,
         MutateRows(p) \/ RestoreRows(p) \/ UndoRows(p) \/ RecoverRows(p)
  PROVE  AtomicInv(A)' /\ UNCHANGED Atomic!vars
<1>1. p \in Procs /\ TypeOK /\ Place(p) /\ Disk
  BY DEF Quiet, AtomicInv, TxInv
<1>2. /\ UNCHANGED <<file, manifest, backup, op, mem, todo>> /\ todo[p] = {}
      /\ \/ pc[p] = "write" /\ pc'[p] = "commit"
         \/ pc[p] = "restore" /\ pc'[p] = "fail"
         \/ pc[p] = "undo_files" /\ pc'[p] = "undo_commit"
         \/ pc[p] = "recover_files" /\ pc'[p] = "recover_manifest"
  BY <1>1 DEF MutateRows, RestoreRows, UndoRows, RecoverRows, PutRows, Goto, local, TypeOK
<1>3. Acts(p)
  BY DEF Acts, Step, ApplyStep, UndoStep, RecoverStep
<1>4. /\ pc[p] \in Work /\ PlanOf(op[p]) \in Ops
      /\ pc[p] \in ApplyWork => op[p] \in Ops
      /\ op[p] \in Ops => PlanOf(op[p]) = op[p]
      /\ pc[p] \in UndoWork => PlanOf(op[p]) = manifest[op[p]].undoes
      /\ Scope[PlanOf(op[p])] \subseteq Rows
  BY <1>2, AtWork, PlanAssumption DEF Work, ApplyWork, UndoWork, RecoverWork
<1>5. /\ \A r \in Rows \ Scope[PlanOf(op[p])] : row'[r] = row[r]
      /\ pc[p] = "undo_files" \/ (pc[p] = "recover_files" /\ op[p] \in Ops) =>
           \A r \in Scope[PlanOf(op[p])] : row'[r] = mem[p].before[r]
  <2>1. CASE MutateRows(p)
    BY <1>4, <2>1 DEF MutateRows, PutRows, ApplyWork
  <2>2. CASE RestoreRows(p)
    BY <1>4, <2>2 DEF RestoreRows, PutRows, Restored, ApplyWork
  <2>3. CASE UndoRows(p)
    BY <1>4, <2>3 DEF UndoRows, PutRows, Restored
  <2>4. CASE RecoverRows(p)
    <3>1. op[p] \in Ops => mem[p].before # None
      BY <1>1, <2>4 DEF RecoverRows, PutRows, Place, InRecovery, RecoverWork, Disk
    <3>. QED BY <1>4, <2>4, <3>1 DEF RecoverRows, PutRows, Restored
  <2>. QED BY <2>1, <2>2, <2>3, <2>4
<1>6. Place(p)'
  BY <1>1, <1>2, <1>4, <1>5
  DEF Place, InApply, InUndo, InRecovery, Applying, ApplyWork, UndoWork, RecoverWork,
      RollbackLabels, UndoLabels
<1>7. AtomicInv(A)'
  <2>1. Commands(A) => pc'[p] \notin Recovering
    BY <1>2 DEF AtomicInv, Others, Recovering, RestoringLabels, AfterDeath
  <2>2. \A i \in Ids : HandledBy(p, i) => HandledBy(p, i)'
    BY <1>2 DEF HandledBy, Work, ApplyWork, UndoWork, RecoverWork
  <2>. QED BY <1>2, <1>3, <1>6, <2>1, <2>2, KeepRule
<1>. QED BY <1>2, <1>4, <1>5, <1>7, HiddenRule

-----------------------------------------------------------------------------
(* The steps that begin an operation, mark it, or take it back.              *)

\* What the step to the manifest m of one's own operation i needs, when others are
\* left alone.
Rewrites(p, i, m) ==
  /\ manifest' = [manifest EXCEPT ![i] = m]
  /\ \A j \in Ids \ {i} : manifest'[j] = manifest[j]
  /\ manifest'[i] = m

LEMMA RewriteRule ==
  ASSUME TypeOK, NEW p, NEW i \in Ids, NEW m, manifest' = [manifest EXCEPT ![i] = m]
  PROVE  Rewrites(p, i, m)
BY DEF TypeOK, Rewrites

\* The store does not change when it is the same with and without an operation on
\* its way: when the operation's files and rows are those of its copies.
LEMMA EndRule ==
  ASSUME NEW i \in Ids, Applying(i), Disk, TypeOK', TypeOK,
         \A j \in Ids : ~ Applying(j)',
         UNCHANGED <<file, row>>,
         manifest[i].writes \subseteq Files, Scope[PlanOf(i)] \subseteq Rows,
         \A f \in manifest[i].writes : file[f] = backup[i][f]
  PROVE  /\ UNCHANGED LogicalFile
         /\ (\A r \in Scope[PlanOf(i)] : row[r] = CopiedRows(i)[r]) => UNCHANGED LogicalRow
<1>1. /\ LogicalFile = file
      /\ (\A r \in Scope[PlanOf(i)] : row[r] = CopiedRows(i)[r]) => LogicalRow = row
  <2>1. /\ LogicalFile = [f \in Files |-> IF f \in manifest[i].writes THEN backup[i][f]
                                                                     ELSE file[f]]
        /\ LogicalRow = [r \in Rows |-> IF r \in Scope[PlanOf(i)] THEN CopiedRows(i)[r]
                                                                 ELSE row[r]]
    BY LogicalWhen
  <2>2. /\ LogicalFile = [f \in Files |-> file[f]]
        /\ (\A r \in Scope[PlanOf(i)] : row[r] = CopiedRows(i)[r]) =>
             LogicalRow = [r \in Rows |-> row[r]]
    BY <2>1
  <2>. QED BY <2>2 DEF TypeOK, RowSnapshot
<1>2. LogicalFile' = file' /\ LogicalRow' = row'
  BY DEF TypeOK, RowSnapshot, LogicalFile, LogicalRow
<1>. QED BY <1>1, <1>2

\* The same when an operation sets out.
LEMMA StartRule ==
  ASSUME NEW i \in Ids, TypeOK, UNCHANGED <<file, row>>,
         \A j \in Ids : ~ Applying(j),
         \A j \in Ids : manifest'[j].state = "applying" => j = i,
         manifest'[i].state = "applying",
         manifest'[i].writes \subseteq Files,
         \A f \in manifest'[i].writes : backup'[i][f] = file[f],
         NEW o, PlanOf(i)' = o, Scope[o] \subseteq Rows,
         \A r \in Scope[o] : CopiedRows(i)'[r] = row[r]
  PROVE  UNCHANGED <<LogicalFile, LogicalRow>>
<1>1. LogicalFile = file /\ LogicalRow = row
  BY LogicalElse
<1>2. \A j \in Ids : Applying(j)' <=> j = i
  BY DEF Applying
<1>3. LogicalFile' = file
  <2>1. ASSUME NEW f \in Files, f \in manifest'[i].writes
        PROVE  (CHOOSE j \in Ids : Applying(j)' /\ f \in manifest'[j].writes) = i
    BY <1>2, <2>1
  <2>2. LogicalFile' = [f \in Files |-> file[f]]
    BY <1>2, <2>1 DEF LogicalFile
  <2>. QED BY <2>2 DEF TypeOK
<1>4. LogicalRow' = row
  <2>1. ASSUME NEW r \in Rows, r \in Scope[o]
        PROVE  (CHOOSE j \in Ids : Applying(j)' /\ r \in Scope[PlanOf(j)']) = i
    BY <1>2, <2>1
  <2>2. LogicalRow' = [r \in Rows |-> row[r]]
    BY <1>2, <2>1 DEF LogicalRow
  <2>. QED BY <2>2 DEF TypeOK, RowSnapshot
<1>. QED BY <1>1, <1>3, <1>4

\* A step that makes no manifest applied, and keeps those that are.
LEMMA StatusRule ==
  ASSUME Disk,
         \A i \in Ids : manifest'[i].state = "applied" <=> manifest[i].state = "applied",
         \A i \in Ids : manifest[i].state = "applied" => Same(manifest'[i], manifest[i]),
         \A o \in Ops : manifest[o].state = "applied" => backup'[o] = backup[o]
  PROVE  UNCHANGED <<LogicalStatus, LogicalPrior>>
<1>1. LogicalStatus' = LogicalStatus
  BY DEF LogicalStatus, Same, Ids
<1>2. \A o \in Ops : LogicalStatus[o] # "open" => manifest[o].state = "applied"
  BY DEF LogicalStatus, Disk
<1>3. \A o \in Ops : LogicalStatus[o] # "open" =>
        backup'[o] = backup[o] /\ manifest'[o].before = manifest[o].before
  BY <1>2 DEF Same, Ids
<1>. QED BY <1>1, <1>3 DEF LogicalPrior

\* A handler, or recovery, declares what it has restored: rows, too, unless it was a
\* rollback that was cut short.
LEMMA RestoredAtomic ==
  ASSUME NEW A, Quiet(A), AtomicInv(A), NEW p \in A, FailManifest(p) \/ RecoverManifest(p)
  PROVE  /\ AtomicInv(A)'
         /\ UNCHANGED <<LogicalFile, LogicalStatus, LogicalPrior>>
         /\ Whole(A) => UNCHANGED LogicalRow
<1>1. p \in Procs /\ TypeOK /\ Place(p) /\ Disk /\ ProcessInv(p) /\ TxInv
  BY DEF Quiet, AtomicInv, TxInv
<1>2. Acts(p)
  BY DEF Acts, Step, ApplyStep, RecoverStep
<1>3. PICK i, o : i = op[p] /\ o = PlanOf(i)
  OBVIOUS
<1>4. /\ UNCHANGED <<file, row, backup, op>>
      /\ \/ pc[p] = "fail" /\ pc'[p] = "fail_journal"
         \/ pc[p] = "recover_manifest" /\ pc'[p] = "recover_journal"
  BY <1>1 DEF FailManifest, RecoverManifest, Goto, TypeOK
<1>5. /\ i \in Ids /\ o \in Ops /\ Applying(i)
      /\ i \in Ops => o = i
      /\ pc[p] = "fail" => i \in Ops /\ ~ mem[p].rollback_error
      /\ i \in Undos => o = manifest[i].undoes
      /\ manifest[i].writes = WriteSet[o]
      /\ WriteSet[o] \subseteq Files /\ Scope[o] \subseteq Rows
      /\ mem[p] = manifest[i]
      /\ \A j \in Ids : Applying(j) => j = i
      /\ i \in Ops \/ ~ Whole(A)
  <2>1. /\ i \in Ids /\ o \in Ops /\ Applying(i)
        /\ i \in Ops => o = i
        /\ pc[p] = "fail" => i \in Ops
        /\ manifest[i].writes = WriteSet[o]
    BY <1>3, <1>4, AtWork DEF Work, ApplyWork, RecoverWork
  <2>2. mem[p] = manifest[i] /\ (i \in Ops \/ DiesInUndo(p))
    BY <1>1, <1>3, <1>4, <2>1 DEF Place, InApply, InRecovery, ApplyWork, RecoverWork
  <2>3. i \in Undos => o = manifest[i].undoes
    BY <1>3, NameAssumption DEF PlanOf
  <2>4. pc[p] = "fail" => ~ mem[p].rollback_error
    BY <1>1 DEF Place, InApply, ApplyWork
  <2>. QED BY <1>1, <2>1, <2>2, <2>3, <2>4, PlanAssumption DEF Disk, Whole
<1>6. PICK s \in {"failed", "recovered_rollback"} :
        manifest' = [manifest EXCEPT ![i] = [mem[p] EXCEPT !.state = s]]
  BY <1>3 DEF FailManifest, RecoverManifest, WriteManifest
<1>7. PICK m : /\ m = [mem[p] EXCEPT !.state = s]
               /\ m.state = s /\ m.undoes = manifest[i].undoes
  <2>1. mem[p] \in Manifest
    BY <1>1 DEF TypeOK
  <2>2. [mem[p] EXCEPT !.state = s].state = s /\ [mem[p] EXCEPT !.state = s].undoes = mem[p].undoes
    BY <2>1 DEF Manifest
  <2>. QED BY <1>5, <2>2
<1>8. Rewrites(p, i, m)
  BY <1>1, <1>5, <1>6, <1>7, RewriteRule
<1>9. \A j \in Ids : ~ Applying(j)'
  BY <1>5, <1>7, <1>8 DEF Rewrites, Applying
<1>10. AtomicInv(A)'
  <2>1. Beside(p)
    BY <1>3, <1>5, <1>8 DEF Beside, Rewrites, Same, Applying
  <2>2. Distinct'
    BY <1>1, <1>4 DEF AtomicInv, Distinct
  <2>3. Disk'
    <3>1. ASSUME NEW q \in Ops, manifest'[q].state = "applied"
          PROVE  manifest'[q] = manifest[q]
      BY <1>5, <1>7, <1>8, <3>1 DEF Rewrites, Ids
    <3>2. ASSUME NEW u \in Undos, manifest'[u].state # "none"
          PROVE  /\ manifest'[u].undoes \in Ops
                 /\ manifest'[manifest'[u].undoes].state = "applied"
      <4>1. manifest'[u].undoes = manifest[u].undoes /\ manifest[u].state # "none"
        BY <1>5, <1>7, <1>8, <3>2 DEF Rewrites, Ids, Applying
      <4>2. manifest[u].undoes \in Ops /\ manifest[manifest[u].undoes].state = "applied"
        BY <1>1, <4>1 DEF Disk
      <4>3. manifest[u].undoes # i
        BY <1>5, <4>2 DEF Applying
      <4>. QED BY <1>8, <4>1, <4>2, <4>3 DEF Rewrites, Ids
    <3>. QED BY <1>1, <1>9, <3>1, <3>2 DEF Disk, Ids
  <2>4. Place(p)'
    BY <1>4, ElsewhereRule DEF Elsewhere
  <2>5. Commands(A) => pc'[p] \notin Recovering
    BY <1>4 DEF AtomicInv, Others, Recovering, RestoringLabels, AfterDeath
  <2>6. HandsOn(p)
    BY <1>9 DEF HandsOn
  <2>. QED BY <1>2, <1>4, <2>1, <2>2, <2>3, <2>4, <2>5, <2>6, InvRule
<1>11. UNCHANGED LogicalFile /\ (Whole(A) => UNCHANGED LogicalRow)
  <2>1. \A f \in manifest[i].writes : file[f] = backup[i][f]
    BY <1>1, <1>3, <1>4, <1>5 DEF ProcessInv, Written, Place, InRecovery, RecoverWork
  <2>2. Whole(A) => \A r \in Scope[PlanOf(i)] : row[r] = CopiedRows(i)[r]
    BY <1>1, <1>3, <1>4, <1>5
    DEF ProcessInv, Written, Place, InRecovery, RecoverWork, CopiedRows
  <2>3. TypeOK'
    BY <1>10 DEF AtomicInv, TxInv
  <2>. QED BY <1>1, <1>3, <1>4, <1>5, <1>9, <2>1, <2>2, <2>3, EndRule
<1>12. UNCHANGED <<LogicalStatus, LogicalPrior>>
  <2>1. \A j \in Ids : j # i => manifest'[j] = manifest[j]
    BY <1>8 DEF Rewrites
  <2>2. manifest[i].state # "applied" /\ manifest'[i].state # "applied"
    BY <1>5, <1>7, <1>8 DEF Applying, Rewrites
  <2>. QED BY <1>1, <1>4, <2>1, <2>2, StatusRule DEF Same
<1>. QED BY <1>10, <1>11, <1>12

\* In the with statement, before and after the work, no operation is on its way.
LEMMA NothingOnItsWay ==
  ASSUME NEW A, Quiet(A), AtomicInv(A), NEW p \in A, pc[p] \in Locked, pc[p] \notin Work
  PROVE  \A i \in Ids : ~ Applying(i)
<1>. SUFFICES ASSUME NEW i \in Ids, Applying(i)
              PROVE  FALSE
  OBVIOUS
<1>1. PICK q \in A : HandledBy(q, i)
  BY DEF AtomicInv, Handled
<1>2. q # p
  BY <1>1 DEF HandledBy, Locked, Writing, UndoLabels, RestoringLabels
<1>3. Commands(A)
  BY <1>2, SeveralAreCommands
<1>4. pc[q] \in Work
  BY <1>1, <1>3 DEF HandledBy, AtomicInv, Others, Recovering, AfterDeath
<1>5. pc[q] \in Locked
  BY <1>4 DEF Locked, Writing, UndoLabels, RestoringLabels, Work, ApplyWork, UndoWork,
              RecoverWork
<1>. QED BY <1>2, <1>5 DEF Quiet, AtomicInv, TxInv, ProcessInv, OwnsLock

\* apply() declares what it is about to write.
LEMMA PrepareAtomic ==
  ASSUME NEW A, Quiet(A), AtomicInv(A), NEW p \in A, Prepare(p)
  PROVE  AtomicInv(A)' /\ UNCHANGED Atomic!vars
<1>1. p \in Procs /\ TypeOK /\ Place(p) /\ Disk /\ ProcessInv(p)
  BY DEF Quiet, AtomicInv, TxInv
<1>2. Acts(p)
  BY DEF Acts, Step, ApplyStep
<1>3. PICK o : o = op[p]
  OBVIOUS
<1>4. /\ UNCHANGED <<file, row, op>>
      /\ pc[p] = "check" /\ pc'[p] = "applying_row"
      /\ todo'[p] = WriteSet[o]
      /\ backup' = [backup EXCEPT ![o] = Copied(WriteSet[o])]
  BY <1>1, <1>3 DEF Prepare, Goto, TypeOK
<1>5. /\ o \in Ops /\ o \in Ids /\ o \notin Undos
      /\ manifest[o].state = "planned"
      /\ \A j \in Ids : ~ Applying(j)
      /\ WriteSet[o] \subseteq Files /\ Scope[o] \subseteq Rows
  <2>1. o \in Ops /\ manifest[o].state = "planned"
    BY <1>1, <1>3, <1>4 DEF ProcessInv, OperationFits, ApplyLabels, Place, InApply
  <2>2. \A j \in Ids : ~ Applying(j)
    BY <1>4, NothingOnItsWay DEF Locked, Work, ApplyWork, UndoWork, RecoverWork
  <2>. QED BY <2>1, <2>2, NameAssumption, PlanAssumption DEF Ids
<1>6. PICK m :
        /\ mem'[p] = m /\ manifest' = [manifest EXCEPT ![o] = m]
        /\ m.state = "applying" /\ m.writes = WriteSet[o] /\ m.before = Captured(o)
        /\ ~ m.rollback_error
  <2>. DEFINE m0 == [mem[p] EXCEPT !.state = "applying", !.writes = WriteSet[o],
                                   !.before = Captured(o)]
  <2>1. mem'[p] = m0 /\ manifest' = [manifest EXCEPT ![o] = m0]
    BY <1>1, <1>3 DEF Prepare, WriteManifest, TypeOK
  <2>2. /\ m0.before = Captured(o) /\ m0.state = "applying" /\ m0.writes = WriteSet[o]
        /\ ~ m0.rollback_error
    <3>1. mem[p] \in Manifest /\ ~ mem[p].rollback_error
      BY <1>1, <1>4 DEF TypeOK, Place, InApply
    <3>. QED BY <3>1 DEF Manifest
  <2>. HIDE DEF m0
  <2>. QED BY <2>1, <2>2
<1>7. Rewrites(p, o, m)
  BY <1>1, <1>5, <1>6, RewriteRule
<1>8. /\ \A j \in Ids : manifest'[j].state = "applying" => j = o
      /\ \A i \in Ids : manifest'[i].state = "applied" => i # o /\ manifest'[i] = manifest[i]
      /\ \A i \in Ids : manifest[i].state = "applied" => i # o /\ manifest'[i] = manifest[i]
      /\ \A i \in Ids : i # o => backup'[i] = backup[i]
  BY <1>1, <1>4, <1>5, <1>6, <1>7 DEF Rewrites, Applying, TypeOK
<1>9. AtomicInv(A)'
  <2>1. Beside(p)
    BY <1>3, <1>7, <1>8 DEF Beside, Rewrites, Same
  <2>2. Distinct'
    BY <1>4 DEF AtomicInv, Distinct
  <2>3. Disk'
    <3>1. m.before # None
      BY <1>1, <1>6, SnapshotType, NameAssumption DEF RowSnapshot
    <3>2. ASSUME NEW u \in Undos, manifest'[u].state # "none"
          PROVE  /\ manifest'[u].undoes \in Ops
                 /\ manifest'[manifest'[u].undoes].state = "applied"
      <4>1. manifest'[u] = manifest[u] /\ manifest[u].undoes \in Ops
            /\ manifest[manifest[u].undoes].state = "applied"
        BY <1>1, <1>5, <1>7, <3>2 DEF Rewrites, Ids, Disk
      <4>. QED BY <1>8, <4>1 DEF Ids
    <3>3. \A q \in Ops : manifest'[q].state = "applying" =>
             manifest'[q].writes = WriteSet[q] /\ manifest'[q].before # None
      BY <1>6, <1>7, <1>8, <3>1 DEF Rewrites, Ids
    <3>4. \A q \in Ops : manifest'[q].state = "applied" => manifest'[q] = manifest[q]
      BY <1>8 DEF Ids
    <3>5. \A u \in Undos : manifest'[u].state # "applying"
      BY <1>5, <1>8 DEF Ids
    <3>. QED BY <1>1, <1>8, <3>2, <3>3, <3>4, <3>5 DEF Disk, Applying, Ids
  <2>4. Place(p)'
    BY <1>3, <1>4, <1>6, <1>7
    DEF Place, InApply, InUndo, InRecovery, Applying, Rewrites, ApplyWork, UndoWork,
        RecoverWork, RollbackLabels, UndoLabels
  <2>5. pc'[p] \notin Recovering
    BY <1>4 DEF Recovering, RestoringLabels, AfterDeath
  <2>6. HandsOn(p)
    BY <1>3, <1>4, <1>8 DEF HandsOn, HandledBy, Applying, Work, ApplyWork
  <2>. QED BY <1>2, <1>4, <2>1, <2>2, <2>3, <2>4, <2>5, <2>6, InvRule
<1>10. UNCHANGED <<LogicalFile, LogicalRow>>
  <2>1. \A f \in WriteSet[o] : backup'[o][f] = file[f]
    BY <1>1, <1>4, <1>5 DEF TypeOK, Copied
  <2>2. PlanOf(o)' = o /\ CopiedRows(o)' = m.before
    BY <1>5, <1>7 DEF PlanOf, CopiedRows, Rewrites
  <2>3. \A r \in Scope[o] : m.before[r] = row[r]
    BY <1>5, <1>6 DEF Captured
  <2>4. manifest'[o].state = "applying" /\ manifest'[o].writes = WriteSet[o]
    BY <1>6, <1>7 DEF Rewrites
  <2>. QED BY <1>1, <1>4, <1>5, <1>8, <2>1, <2>2, <2>3, <2>4, StartRule
<1>11. UNCHANGED <<LogicalStatus, LogicalPrior>>
  BY <1>1, <1>8, StatusRule DEF Same, Ids
<1>. QED BY <1>9, <1>10, <1>11 DEF Atomic!vars

\* rollback() declares what it is about to restore.
LEMMA PrepareUndoAtomic ==
  ASSUME NEW A, Quiet(A), AtomicInv(A), NEW p \in A, PrepareUndo(p)
  PROVE  AtomicInv(A)' /\ UNCHANGED Atomic!vars
<1>1. p \in Procs /\ TypeOK /\ Place(p) /\ Disk /\ ProcessInv(p)
  BY DEF Quiet, AtomicInv, TxInv
<1>2. Acts(p)
  BY DEF Acts, Step, UndoStep
<1>3. PICK u, o : u = op[p] /\ o = manifest[u].undoes
  OBVIOUS
<1>4. pc[p] = "undo_check"
  BY DEF PrepareUndo
<1>5. /\ u \in Undos /\ u \in Ids /\ u \notin Ops /\ PlanOf(u) = o
      /\ manifest[u].state = "planned"
      /\ o \in Ops /\ o \in Ids /\ o # u
      /\ manifest[o].state = "applied"
      /\ mem[p].writes = WriteSet[o]
      /\ \A r \in Scope[o] : mem[p].after[r] = o
      /\ \A j \in Ids : ~ Applying(j)
      /\ WriteSet[o] \subseteq Files /\ Scope[o] \subseteq Rows
  <2>1. u \in Undos /\ manifest[u].state = "planned"
    BY <1>1, <1>3, <1>4 DEF ProcessInv, OperationFits, RollbackLabels, Place, InUndo
  <2>2. o \in Ops /\ manifest[o].state = "applied"
    BY <1>1, <1>3, <2>1 DEF Disk
  <2>3. /\ mem[p].writes = WriteSet[o]
        /\ \A r \in Scope[o] : mem[p].after[r] = o
    BY <1>1, <1>3, <1>4, <2>2 DEF Disk, Place, InUndo, RollbackLabels
  <2>4. \A j \in Ids : ~ Applying(j)
    BY <1>4, NothingOnItsWay DEF Locked, Work, ApplyWork, UndoWork, RecoverWork
  <2>. QED BY <1>3, <2>1, <2>2, <2>3, <2>4, NameAssumption, PlanAssumption DEF Ids, PlanOf
<1>6. /\ UNCHANGED <<file, row, op, mem>>
      /\ pc'[p] = "undo_applying_row"
      /\ todo'[p] = WriteSet[o]
      /\ backup' = [backup EXCEPT ![u] = Copied(WriteSet[o])]
      /\ \A f \in WriteSet[o] : file[f] = o
      /\ \A r \in Scope[o] : row[r] = o
  BY <1>1, <1>3, <1>5 DEF PrepareUndo, StillAsApplied, Goto, TypeOK
<1>7. PICK m :
        /\ manifest' = [manifest EXCEPT ![u] = m]
        /\ m.state = "applying" /\ m.writes = WriteSet[o] /\ m.before_rollback = Captured(o)
        /\ m.undoes = o
  <2>. DEFINE m0 == [manifest[u] EXCEPT !.state = "applying", !.writes = WriteSet[o],
                                        !.before_rollback = Captured(o)]
  <2>1. manifest' = [manifest EXCEPT ![u] = m0]
    BY <1>1, <1>3, <1>5 DEF PrepareUndo, WriteManifest
  <2>2. /\ m0.before_rollback = Captured(o) /\ m0.state = "applying"
        /\ m0.writes = WriteSet[o] /\ m0.undoes = o
    BY <1>1, <1>3, <1>5 DEF TypeOK, Manifest
  <2>. HIDE DEF m0
  <2>. QED BY <2>1, <2>2
<1>8. Rewrites(p, u, m)
  BY <1>1, <1>5, <1>7, RewriteRule
<1>9. /\ \A j \in Ids : manifest'[j].state = "applying" => j = u
      /\ \A i \in Ids : manifest'[i].state = "applied" => i # u /\ manifest'[i] = manifest[i]
      /\ \A i \in Ids : manifest[i].state = "applied" => i # u /\ manifest'[i] = manifest[i]
      /\ \A i \in Ids : i # u => backup'[i] = backup[i]
      /\ \A f \in WriteSet[o] : backup'[u][f] = o
  <2>1. \A i \in Ids : i # u => backup'[i] = backup[i]
    BY <1>1, <1>5, <1>6 DEF TypeOK
  <2>2. \A f \in WriteSet[o] : backup'[u][f] = o
    BY <1>1, <1>5, <1>6 DEF TypeOK, Copied
  <2>. QED BY <1>5, <1>7, <1>8, <2>1, <2>2 DEF Rewrites, Applying
<1>10. /\ m.before_rollback # None
       /\ \A r \in Scope[o] : m.before_rollback[r] = row[r] /\ row[r] = o
  <2>1. m.before_rollback # None
    BY <1>1, <1>7, SnapshotType, NameAssumption DEF RowSnapshot
  <2>. QED BY <1>5, <1>6, <1>7, <2>1 DEF Captured
<1>11. AtomicInv(A)'
  <2>1. Beside(p)
    BY <1>3, <1>8, <1>9 DEF Beside, Rewrites, Same
  <2>2. Distinct'
    BY <1>6 DEF AtomicInv, Distinct
  <2>3. Disk'
    <3>1. ASSUME NEW v \in Undos, manifest'[v].state # "none"
          PROVE  /\ manifest'[v].undoes \in Ops
                 /\ manifest'[manifest'[v].undoes].state = "applied"
      <4>1. manifest'[v].undoes = manifest[v].undoes /\ manifest[v].state # "none"
        BY <1>3, <1>5, <1>7, <1>8, <3>1 DEF Rewrites, Ids
      <4>2. manifest[v].undoes \in Ops /\ manifest[manifest[v].undoes].state = "applied"
        BY <1>1, <4>1 DEF Disk
      <4>. QED BY <1>9, <4>1, <4>2 DEF Ids
    <3>2. ASSUME NEW v \in Undos, manifest'[v].state = "applying"
          PROVE  /\ manifest'[v].writes = WriteSet[manifest'[v].undoes]
                 /\ manifest'[v].before_rollback # None
                 /\ \A f \in WriteSet[manifest'[v].undoes] : backup'[v][f] = manifest'[v].undoes
                 /\ \A r \in Scope[manifest'[v].undoes] :
                      manifest'[v].before_rollback[r] = manifest'[v].undoes
      <4>1. v = u /\ manifest'[v] = m
        BY <1>8, <1>9, <3>2 DEF Rewrites, Ids
      <4>. QED BY <1>7, <1>9, <1>10, <4>1
    <3>3. \A q \in Ops : manifest'[q].state = "applied" => manifest'[q] = manifest[q]
      BY <1>9 DEF Ids
    <3>4. \A q \in Ops : manifest'[q].state # "applying"
      BY <1>5, <1>9 DEF Ids
    <3>. QED BY <1>1, <1>9, <3>1, <3>2, <3>3, <3>4 DEF Disk, Applying, Ids
  <2>4. Place(p)'
    <3>1. manifest'[u] = m /\ manifest'[o] = manifest[o]
      BY <1>5, <1>8, <1>9 DEF Rewrites
    <3>. QED BY <1>1, <1>3, <1>4, <1>6, <1>7, <3>1
         DEF Place, InApply, InUndo, InRecovery, Applying, ApplyWork, UndoWork,
             RecoverWork, RollbackLabels, UndoLabels
  <2>5. pc'[p] \notin Recovering
    BY <1>6 DEF Recovering, RestoringLabels, AfterDeath
  <2>6. HandsOn(p)
    BY <1>3, <1>6, <1>9 DEF HandsOn, HandledBy, Applying, Work, UndoWork
  <2>. QED BY <1>2, <1>6, <2>1, <2>2, <2>3, <2>4, <2>5, <2>6, InvRule
<1>12. UNCHANGED <<LogicalFile, LogicalRow>>
  <2>1. manifest'[u] = m
    BY <1>8 DEF Rewrites
  <2>2. PlanOf(u)' = o /\ CopiedRows(u)' = m.before_rollback
    BY <1>5, <1>7, <2>1 DEF PlanOf, CopiedRows
  <2>3. \A f \in WriteSet[o] : backup'[u][f] = file[f]
    BY <1>6, <1>9
  <2>. QED BY <1>1, <1>5, <1>6, <1>7, <1>9, <1>10, <2>1, <2>2, <2>3, StartRule
<1>13. UNCHANGED <<LogicalStatus, LogicalPrior>>
  BY <1>1, <1>5, <1>9, StatusRule DEF Same, Ids
<1>. QED BY <1>11, <1>12, <1>13 DEF Atomic!vars

\* The store is the same when what is on its way, its manifest and its copies are.
LEMMA ShownRule ==
  ASSUME TypeOK, TypeOK', Disk, Disk', UNCHANGED <<file, row>>,
         \A i \in Ids : Applying(i)' <=> Applying(i),
         \A i \in Ids : Applying(i) => manifest'[i] = manifest[i] /\ backup'[i] = backup[i]
  PROVE  UNCHANGED <<LogicalFile, LogicalRow>>
<1>1. CASE \A i \in Ids : ~ Applying(i)
  <2>1. LogicalFile = file /\ LogicalRow = row
    BY <1>1, LogicalElse
  <2>2. LogicalFile' = file' /\ LogicalRow' = row'
    BY <1>1 DEF TypeOK, RowSnapshot, LogicalFile, LogicalRow
  <2>. QED BY <2>1, <2>2
<1>2. ASSUME NEW i \in Ids, Applying(i) PROVE UNCHANGED <<LogicalFile, LogicalRow>>
  <2>1. /\ \A j \in Ids : Applying(j)' => j = i
        /\ Applying(i)'
        /\ manifest'[i] = manifest[i] /\ backup'[i] = backup[i]
    BY <1>2 DEF Disk
  <2>2. PlanOf(i)' = PlanOf(i) /\ CopiedRows(i)' = CopiedRows(i)
    BY <2>1 DEF PlanOf, CopiedRows
  <2>3. LogicalFile' = [f \in Files |-> IF f \in manifest[i].writes THEN backup[i][f]
                                                                  ELSE file[f]]
    <3>1. ASSUME NEW f \in Files, f \in manifest[i].writes
          PROVE  (CHOOSE j \in Ids : Applying(j)' /\ f \in manifest'[j].writes) = i
      BY <1>2, <2>1, <3>1
    <3>. QED BY <1>2, <2>1, <3>1 DEF LogicalFile
  <2>4. LogicalRow' = [r \in Rows |-> IF r \in Scope[PlanOf(i)] THEN CopiedRows(i)[r]
                                                              ELSE row[r]]
    <3>1. ASSUME NEW r \in Rows, r \in Scope[PlanOf(i)]
          PROVE  (CHOOSE j \in Ids : Applying(j)' /\ r \in Scope[PlanOf(j)']) = i
      BY <1>2, <2>1, <2>2, <3>1
    <3>. QED BY <1>2, <2>1, <2>2, <3>1 DEF LogicalRow
  <2>. QED BY <1>2, <2>3, <2>4, LogicalWhen
<1>. QED BY <1>1, <1>2

\* apply() is called.
LEMMA BeginApplyAtomic ==
  ASSUME NEW A, Quiet(A), AtomicInv(A), NEW p \in A, NEW o \in Ops, BeginApply(p, o)
  PROVE  AtomicInv(A)' /\ UNCHANGED Atomic!vars
<1>1. p \in Procs /\ TypeOK /\ Disk
  BY DEF Quiet, AtomicInv, TxInv
<1>2. Acts(p)
  BY DEF Acts, Call
<1>3. /\ UNCHANGED <<file, row, backup>>
      /\ pc[p] = "idle" /\ pc'[p] = "plan_row"
      /\ op'[p] = o /\ \A q \in Procs \ {p} : op'[q] = op[q]
      /\ \A q \in Procs : op[q] # o
      /\ manifest[o].state \notin {"applying", "applied"}
      /\ o \in Ids /\ o \notin Undos
  BY <1>1, NameAssumption DEF BeginApply, Goto, TypeOK, Ids
<1>4. PICK m : /\ m = NewManifest("planned", None) /\ m.state = "planned"
               /\ ~ m.rollback_error
  <2>1. /\ NewManifest("planned", None).state = "planned"
        /\ ~ NewManifest("planned", None).rollback_error
    BY DEF NewManifest
  <2>. QED BY <2>1
<1>5. Rewrites(p, o, m) /\ mem'[p] = m
  BY <1>1, <1>3, <1>4, RewriteRule DEF BeginApply, WriteManifest, TypeOK
<1>6. /\ \A i \in Ids : manifest'[i].state = "applied" => i # o /\ manifest'[i] = manifest[i]
      /\ \A i \in Ids : manifest[i].state = "applied" => i # o /\ manifest'[i] = manifest[i]
      /\ \A i \in Ids : manifest'[i].state = "applying" => i # o /\ manifest'[i] = manifest[i]
      /\ \A i \in Ids : manifest[i].state = "applying" => i # o /\ manifest'[i] = manifest[i]
  BY <1>3, <1>4, <1>5 DEF Rewrites
<1>7. Disk'
  <2>1. ASSUME NEW u \in Undos, manifest'[u].state # "none"
        PROVE  /\ manifest'[u] = manifest[u]
               /\ manifest'[u].undoes \in Ops
               /\ manifest'[manifest'[u].undoes].state = "applied"
    <3>1. manifest'[u] = manifest[u] /\ manifest[u].undoes \in Ops
          /\ manifest[manifest[u].undoes].state = "applied"
      BY <1>1, <1>3, <1>5, <2>1 DEF Rewrites, Ids, Disk
    <3>. QED BY <1>6, <3>1 DEF Ids
  <2>2. ASSUME NEW u \in Undos, manifest'[u].state = "applying"
        PROVE  manifest'[u] = manifest[u]
    BY <1>6, <2>2 DEF Ids
  <2>3. ASSUME NEW q \in Ops, manifest'[q].state \in {"applied", "applying"}
        PROVE  manifest'[q] = manifest[q]
    BY <1>6, <2>3 DEF Ids
  <2>4. \A i, j \in Ids : Applying(i)' /\ Applying(j)' => i = j
    BY <1>1, <1>6 DEF Disk, Applying
  <2>. QED BY <1>1, <1>3, <2>1, <2>2, <2>3, <2>4 DEF Disk, Applying
<1>8. AtomicInv(A)'
  <2>1. Beside(p)
    BY <1>3, <1>5, <1>6 DEF Beside, Rewrites, Same
  <2>2. Distinct'
    BY <1>1, <1>3 DEF AtomicInv, Distinct
  <2>3. Place(p)'
    BY <1>3, <1>4, <1>5
    DEF Place, InApply, InUndo, InRecovery, Rewrites, ApplyWork, UndoWork,
        RecoverWork, RollbackLabels, UndoLabels
  <2>4. pc'[p] \notin Recovering
    BY <1>3 DEF Recovering, RestoringLabels, AfterDeath
  <2>5. HandsOn(p)
    BY <1>3, <1>6 DEF HandsOn, HandledBy, Applying, Work, ApplyWork, UndoWork, RecoverWork
  <2>6. Started(p)'
    BY <1>3, <1>4, <1>5 DEF Started, Rewrites
  <2>. QED BY <1>2, <1>7, <2>1, <2>2, <2>3, <2>4, <2>5, <2>6, InvRule
<1>9. UNCHANGED <<LogicalFile, LogicalRow>>
  <2>1. TypeOK'
    BY <1>8 DEF AtomicInv, TxInv
  <2>. QED BY <1>1, <1>3, <1>6, <1>7, <2>1, ShownRule DEF Applying
<1>10. UNCHANGED <<LogicalStatus, LogicalPrior>>
  BY <1>1, <1>3, <1>6, StatusRule DEF Same
<1>. QED BY <1>8, <1>9, <1>10 DEF Atomic!vars

\* rollback() is called.
LEMMA BeginUndoAtomic ==
  ASSUME NEW A, Quiet(A), AtomicInv(A), NEW p \in A, NEW u \in Undos, NEW o \in Ops,
         BeginUndo(p, u, o)
  PROVE  AtomicInv(A)' /\ UNCHANGED Atomic!vars
<1>1. p \in Procs /\ TypeOK /\ Disk
  BY DEF Quiet, AtomicInv, TxInv
<1>2. Acts(p)
  BY DEF Acts, Call
<1>3. /\ UNCHANGED <<file, row, backup>>
      /\ pc[p] = "idle" /\ pc'[p] = "undo_plan_row"
      /\ op'[p] = u /\ \A q \in Procs \ {p} : op'[q] = op[q]
      /\ mem'[p] = manifest[o] /\ manifest[o].state = "applied"
      /\ manifest[u].state = "none"
      /\ u \in Ids /\ u \notin Ops /\ o \in Ids /\ o # u /\ u # None
  BY <1>1, NameAssumption DEF BeginUndo, Goto, TypeOK, Ids
<1>4. PICK m : m = NewManifest("planned", o) /\ m.state = "planned" /\ m.undoes = o
  <2>1. NewManifest("planned", o).state = "planned" /\ NewManifest("planned", o).undoes = o
    BY DEF NewManifest
  <2>. QED BY <2>1
<1>5. Rewrites(p, u, m)
  BY <1>1, <1>3, <1>4, RewriteRule DEF BeginUndo, WriteManifest
<1>6. /\ \A i \in Ids : manifest'[i].state = "applied" => i # u /\ manifest'[i] = manifest[i]
      /\ \A i \in Ids : manifest[i].state = "applied" => i # u /\ manifest'[i] = manifest[i]
      /\ \A i \in Ids : manifest'[i].state = "applying" => i # u /\ manifest'[i] = manifest[i]
      /\ \A i \in Ids : manifest[i].state = "applying" => i # u /\ manifest'[i] = manifest[i]
  BY <1>3, <1>4, <1>5 DEF Rewrites
<1>7. Disk'
  <2>1. ASSUME NEW v \in Undos, manifest'[v].state # "none"
        PROVE  /\ manifest'[v].undoes \in Ops
               /\ manifest'[manifest'[v].undoes].state = "applied"
    <3>1. manifest'[v].undoes \in Ops /\ manifest[manifest'[v].undoes].state = "applied"
      <4>1. CASE v = u
        BY <1>3, <1>4, <1>5, <4>1 DEF Rewrites
      <4>2. CASE v # u
        BY <1>1, <1>5, <2>1, <4>2 DEF Rewrites, Ids, Disk
      <4>. QED BY <4>1, <4>2
    <3>. QED BY <1>6, <3>1 DEF Ids
  <2>2. ASSUME NEW i \in Ids, manifest'[i].state \in {"applied", "applying"}
        PROVE  manifest'[i] = manifest[i]
    BY <1>6, <2>2
  <2>3. \A i, j \in Ids : Applying(i)' /\ Applying(j)' => i = j
    BY <1>1, <1>6 DEF Disk, Applying
  <2>. QED BY <1>1, <1>3, <2>1, <2>2, <2>3 DEF Disk, Applying, Ids
<1>8. AtomicInv(A)'
  <2>1. Beside(p)
    BY <1>3, <1>5, <1>6 DEF Beside, Rewrites, Same
  <2>2. \A q \in Procs : op[q] # u
    BY <1>3 DEF AtomicInv, Started
  <2>3. Distinct'
    BY <1>1, <1>3, <2>2 DEF AtomicInv, Distinct
  <2>4. Place(p)'
    <3>1. manifest'[u] = m /\ manifest'[o] = manifest[o]
      BY <1>3, <1>5 DEF Rewrites
    <3>. QED BY <1>3, <1>4, <3>1
         DEF Place, InApply, InUndo, InRecovery, ApplyWork, UndoWork,
             RecoverWork, RollbackLabels, UndoLabels
  <2>5. pc'[p] \notin Recovering
    BY <1>3 DEF Recovering, RestoringLabels, AfterDeath
  <2>6. HandsOn(p)
    BY <1>3, <1>6 DEF HandsOn, HandledBy, Applying, Work, ApplyWork, UndoWork, RecoverWork
  <2>7. Started(p)'
    BY <1>3, <1>4, <1>5 DEF Started, Rewrites
  <2>. QED BY <1>2, <1>7, <2>1, <2>3, <2>4, <2>5, <2>6, <2>7, InvRule
<1>9. UNCHANGED <<LogicalFile, LogicalRow>>
  <2>1. TypeOK'
    BY <1>8 DEF AtomicInv, TxInv
  <2>. QED BY <1>1, <1>3, <1>6, <1>7, <2>1, ShownRule DEF Applying
<1>10. UNCHANGED <<LogicalStatus, LogicalPrior>>
  BY <1>1, <1>3, <1>6, StatusRule DEF Same
<1>. QED BY <1>8, <1>9, <1>10 DEF Atomic!vars

\* rollback() marks the operation that it took back.
LEMMA MarkAtomic ==
  ASSUME NEW A, Quiet(A), AtomicInv(A), NEW p \in A, MarkRolledBack(p)
  PROVE  AtomicInv(A)' /\ UNCHANGED Atomic!vars
<1>1. p \in Procs /\ TypeOK /\ Place(p) /\ Disk /\ ProcessInv(p)
  BY DEF Quiet, AtomicInv, TxInv
<1>2. Acts(p)
  BY DEF Acts, Step, UndoStep
<1>3. PICK u, o : u = op[p] /\ o = manifest[u].undoes
  OBVIOUS
<1>4. pc[p] = "undo_mark"
  BY DEF MarkRolledBack
<1>5. /\ u \in Undos /\ u \in Ids /\ u \notin Ops /\ PlanOf(u) = o
      /\ o \in Ops /\ o \in Ids /\ o # u
      /\ manifest[o].state = "applied"
      /\ Same(mem[p], manifest[o])
      /\ \A j \in Ids : ~ Applying(j)
  <2>1. u \in Undos /\ manifest[u].state # "none" /\ mem[p].state = "applied"
    BY <1>1, <1>3, <1>4 DEF ProcessInv, OperationFits, HasSnapshot, RollbackLabels, UndoLabels
  <2>2. o \in Ops /\ manifest[o].state = "applied"
    BY <1>1, <1>3, <2>1 DEF Disk
  <2>3. Same(mem[p], manifest[o])
    BY <1>1, <1>3, <1>4, <2>1, <2>2 DEF Same, Place, InUndo, RollbackLabels, UndoLabels
  <2>4. \A j \in Ids : ~ Applying(j)
    BY <1>4, NothingOnItsWay DEF Locked, UndoLabels, Work, ApplyWork, UndoWork, RecoverWork
  <2>. QED BY <1>3, <2>1, <2>2, <2>3, <2>4, NameAssumption DEF Ids, PlanOf
<1>6. /\ UNCHANGED <<file, row, backup, op, mem>>
      /\ pc'[p] = "undo_mark_journal"
  BY <1>1 DEF MarkRolledBack, Goto, TypeOK, local
<1>7. PICK m : manifest' = [manifest EXCEPT ![o] = m] /\ Same(m, manifest[o])
  <2>. DEFINE m0 == [mem[p] EXCEPT !.rolled_back_by = u]
  <2>1. manifest' = [manifest EXCEPT ![o] = m0]
    BY <1>3, <1>5 DEF MarkRolledBack, WriteManifest
  <2>2. Same(m0, mem[p])
    BY <1>1 DEF TypeOK, Manifest, Same
  <2>3. Same(m0, manifest[o])
    BY <1>5, <2>2 DEF Same
  <2>. HIDE DEF m0
  <2>. QED BY <2>1, <2>3
<1>8. Rewrites(p, o, m)
  BY <1>1, <1>5, <1>7, RewriteRule
<1>9. \A i \in Ids : Same(manifest'[i], manifest[i]) /\ (i \in Undos => manifest'[i] = manifest[i])
  BY <1>5, <1>7, <1>8, NameAssumption DEF Rewrites, Same
<1>10. AtomicInv(A)'
  <2>1. Beside(p)
    BY <1>5, <1>8, <1>9 DEF Beside, Rewrites
  <2>2. Distinct'
    BY <1>6 DEF AtomicInv, Distinct
  <2>3. Disk'
    BY <1>1, <1>6, <1>9 DEF Disk, Applying, Same, Ids
  <2>4. Place(p)'
    BY <1>1, <1>3, <1>4, <1>5, <1>6, <1>9
    DEF Place, InApply, InUndo, InRecovery, Same, ApplyWork, UndoWork, RecoverWork,
        RollbackLabels, UndoLabels
  <2>5. pc'[p] \notin Recovering
    BY <1>6 DEF Recovering, RestoringLabels, AfterDeath
  <2>6. HandsOn(p)
    BY <1>5, <1>9 DEF HandsOn, Applying, Same
  <2>. QED BY <1>2, <1>6, <2>1, <2>2, <2>3, <2>4, <2>5, <2>6, InvRule
<1>11. UNCHANGED <<LogicalFile, LogicalRow>>
  <2>1. TypeOK' /\ Disk'
    BY <1>10 DEF AtomicInv, TxInv
  <2>. QED BY <1>1, <1>5, <1>6, <1>9, <2>1, ShownRule DEF Applying, Same
<1>12. UNCHANGED <<LogicalStatus, LogicalPrior>>
  BY <1>1, <1>6, <1>9, StatusRule DEF Same
<1>. QED BY <1>10, <1>11, <1>12 DEF Atomic!vars

-----------------------------------------------------------------------------
(* The two steps that the store notices.                                     *)

\* The manifest that says "applied" is the moment at which an operation happens.
LEMMA CommitAtomic ==
  ASSUME NEW A, Quiet(A), AtomicInv(A), NEW p \in A, CommitManifest(p)
  PROVE  AtomicInv(A)' /\ op[p] \in Ops /\ Atomic!Commit(op[p])
<1>1. p \in Procs /\ TypeOK /\ Place(p) /\ Disk /\ ProcessInv(p)
  BY DEF Quiet, AtomicInv, TxInv
<1>2. Acts(p)
  BY DEF Acts, Step, ApplyStep
<1>3. PICK o : o = op[p]
  OBVIOUS
<1>4. /\ UNCHANGED <<file, row, backup, op>>
      /\ pc[p] = "commit" /\ pc'[p] = "journal"
  BY <1>1 DEF CommitManifest, Goto, TypeOK
<1>5. /\ o \in Ops /\ o \in Ids /\ o \notin Undos /\ Applying(o)
      /\ manifest[o].writes = WriteSet[o] /\ manifest[o].before # None
      /\ mem[p] = manifest[o]
      /\ \A j \in Ids : Applying(j) => j = o
      /\ WriteSet[o] \subseteq Files /\ Scope[o] \subseteq Rows
      /\ LogicalFile = [f \in Files |-> IF f \in WriteSet[o] THEN backup[o][f] ELSE file[f]]
      /\ LogicalRow = [r \in Rows |-> IF r \in Scope[o] THEN manifest[o].before[r] ELSE row[r]]
  <2>1. /\ o \in Ops /\ o \in Ids /\ Applying(o) /\ PlanOf(o) = o
        /\ manifest[o].writes = WriteSet[o]
        /\ LogicalFile = [f \in Files |-> IF f \in WriteSet[o] THEN backup[o][f] ELSE file[f]]
        /\ LogicalRow = [r \in Rows |-> IF r \in Scope[o] THEN CopiedRows(o)[r] ELSE row[r]]
    BY <1>3, <1>4, AtWork DEF Work, ApplyWork
  <2>2. mem[p] = manifest[o] /\ manifest[o].before # None /\ \A j \in Ids : Applying(j) => j = o
    BY <1>1, <1>3, <1>4, <2>1 DEF Place, InApply, ApplyWork, Disk
  <2>. QED BY <2>1, <2>2, NameAssumption, PlanAssumption DEF CopiedRows
<1>6. /\ \A f \in WriteSet[o] : file[f] = o
      /\ \A r \in Scope[o] : row[r] = o
  BY <1>1, <1>3, <1>4 DEF ProcessInv, Written
<1>7. PICK m :
        /\ manifest' = [manifest EXCEPT ![o] = m]
        /\ m.state = "applied" /\ m.writes = WriteSet[o] /\ m.before = manifest[o].before
        /\ m.after = Captured(o)
  <2>. DEFINE m0 == [mem[p] EXCEPT !.state = "applied", !.after = Captured(o)]
  <2>1. manifest' = [manifest EXCEPT ![o] = m0]
    BY <1>3 DEF CommitManifest, WriteManifest
  <2>2. /\ m0.state = "applied" /\ m0.writes = WriteSet[o] /\ m0.before = manifest[o].before
        /\ m0.after = Captured(o)
    <3>1. mem[p] \in Manifest
      BY <1>1 DEF TypeOK
    <3>2. /\ m0.state = "applied" /\ m0.writes = mem[p].writes /\ m0.before = mem[p].before
          /\ m0.after = Captured(o)
      BY <3>1 DEF Manifest
    <3>. QED BY <1>5, <3>2
  <2>. HIDE DEF m0
  <2>. QED BY <2>1, <2>2
<1>8. Rewrites(p, o, m)
  BY <1>1, <1>5, <1>7, RewriteRule
<1>9. \A j \in Ids : ~ Applying(j)'
  BY <1>5, <1>7, <1>8 DEF Rewrites, Applying
<1>10. m.after # None /\ \A r \in Scope[o] : m.after[r] = o
  <2>1. m.after # None
    BY <1>1, <1>7, SnapshotType, NameAssumption DEF RowSnapshot
  <2>. QED BY <1>5, <1>6, <1>7, <2>1 DEF Captured
<1>11. AtomicInv(A)'
  <2>1. Beside(p)
    BY <1>3, <1>5, <1>8 DEF Beside, Rewrites, Same, Applying
  <2>2. Distinct'
    BY <1>4 DEF AtomicInv, Distinct
  <2>3. Disk'
    <3>1. ASSUME NEW q \in Ops, manifest'[q].state = "applied"
          PROVE  /\ manifest'[q].writes = WriteSet[q]
                 /\ manifest'[q].before # None /\ manifest'[q].after # None
                 /\ \A r \in Scope[q] : manifest'[q].after[r] = q
      <4>1. CASE q = o
        BY <1>5, <1>7, <1>8, <1>10, <4>1 DEF Rewrites
      <4>2. CASE q # o
        BY <1>1, <1>8, <3>1, <4>2 DEF Rewrites, Ids, Disk
      <4>. QED BY <4>1, <4>2
    <3>2. ASSUME NEW u \in Undos, manifest'[u].state # "none"
          PROVE  /\ manifest'[u].undoes \in Ops
                 /\ manifest'[manifest'[u].undoes].state = "applied"
      <4>1. manifest'[u] = manifest[u] /\ manifest[u].undoes \in Ops
            /\ manifest[manifest[u].undoes].state = "applied"
        BY <1>1, <1>5, <1>8, <3>2 DEF Rewrites, Ids, Disk
      <4>2. manifest[u].undoes # o
        BY <1>5, <4>1 DEF Applying
      <4>. QED BY <1>8, <4>1, <4>2 DEF Rewrites, Ids
    <3>. QED BY <1>9, <3>1, <3>2 DEF Disk, Ids
  <2>4. Place(p)'
    BY <1>4, ElsewhereRule DEF Elsewhere
  <2>5. pc'[p] \notin Recovering
    BY <1>4 DEF Recovering, RestoringLabels, AfterDeath
  <2>6. HandsOn(p)
    BY <1>9 DEF HandsOn
  <2>. QED BY <1>2, <1>4, <2>1, <2>2, <2>3, <2>4, <2>5, <2>6, InvRule
<1>12. \A u \in Undos : manifest'[u] = manifest[u]
                       /\ ~ (manifest[u].undoes = o /\ manifest[u].state = "applied")
  <2>1. \A u \in Undos : manifest'[u] = manifest[u]
    BY <1>5, <1>8 DEF Rewrites, Ids
  <2>. QED BY <1>1, <1>5, <2>1 DEF Disk, Applying
<1>13. LogicalStatus[o] = "open" /\ LogicalStatus' = [LogicalStatus EXCEPT ![o] = "applied"]
  <2>1. LogicalStatus[o] = "open"
    BY <1>5, <1>12 DEF LogicalStatus, Applying
  <2>2. LogicalStatus'[o] = "applied"
    BY <1>5, <1>7, <1>8, <1>12 DEF LogicalStatus, Rewrites
  <2>3. \A q \in Ops \ {o} : LogicalStatus'[q] = LogicalStatus[q]
    BY <1>8, <1>12 DEF LogicalStatus, Rewrites, Ids
  <2>4. /\ LogicalStatus = [q \in Ops |-> LogicalStatus[q]]
        /\ LogicalStatus' = [q \in Ops |-> LogicalStatus'[q]]
    BY DEF LogicalStatus
  <2>. QED BY <2>1, <2>2, <2>3, <2>4
<1>14. /\ LogicalFile' = [f \in Files |-> IF f \in WriteSet[o] THEN o ELSE LogicalFile[f]]
       /\ LogicalRow' = [r \in Rows |-> IF r \in Scope[o] THEN o ELSE LogicalRow[r]]
  <2>1. LogicalFile' = [f \in Files |-> file[f]] /\ LogicalRow' = [r \in Rows |-> row[r]]
    BY <1>4, <1>9 DEF LogicalFile, LogicalRow
  <2>. QED BY <1>5, <1>6, <2>1
<1>15. LogicalPrior' =
         [LogicalPrior EXCEPT ![o] = [file |-> [f \in WriteSet[o] |-> LogicalFile[f]],
                                      row  |-> [r \in Scope[o] |-> LogicalRow[r]]]]
  <2>1. /\ LogicalPrior = [q \in Ops |-> LogicalPrior[q]]
        /\ LogicalPrior' = [q \in Ops |-> LogicalPrior'[q]]
    BY DEF LogicalPrior
  <2>2. \A q \in Ops \ {o} : LogicalPrior'[q] = LogicalPrior[q]
    <3>1. \A q \in Ops \ {o} : /\ LogicalStatus'[q] = LogicalStatus[q]
                               /\ manifest'[q] = manifest[q] /\ backup'[q] = backup[q]
      BY <1>4, <1>8, <1>13, StatusType DEF Rewrites, Ids
    <3>. QED BY <3>1 DEF LogicalPrior
  <2>3. /\ [f \in WriteSet[o] |-> LogicalFile[f]] = [f \in WriteSet[o] |-> backup[o][f]]
        /\ [r \in Scope[o] |-> LogicalRow[r]] = [r \in Scope[o] |-> manifest[o].before[r]]
    BY <1>5
  <2>4. /\ LogicalStatus'[o] = "applied"
        /\ backup'[o] = backup[o] /\ manifest'[o].before = manifest[o].before
    BY <1>4, <1>5, <1>7, <1>8, <1>13, StatusType DEF Rewrites
  <2>5. LogicalPrior'[o] = [file |-> [f \in WriteSet[o] |-> backup[o][f]],
                            row  |-> [r \in Scope[o] |-> manifest[o].before[r]]]
    BY <1>5, <2>4 DEF LogicalPrior
  <2>. QED BY <1>5, <2>1, <2>2, <2>3, <2>5
<1>. QED BY <1>3, <1>5, <1>11, <1>13, <1>14, <1>15 DEF Atomic!Commit

\* The rollback's manifest that says "applied" is the moment at which its operation is
\* taken back; there is nothing to take back only when the plan names no file and, if no
\* rollback is cut short, no row.
LEMMA UndoAtomic ==
  ASSUME NEW A, Quiet(A), AtomicInv(A), StoreInv(A), NEW p \in A, CommitUndo(p)
  PROVE  LET o == manifest[op[p]].undoes
         IN  /\ AtomicInv(A)' /\ o \in Ops /\ manifest'[op[p]].undoes = o
             /\ \/ Atomic!Undo(o) /\ LogicalStatus[o] = "applied"
                \/ /\ WriteSet[o] = {} /\ (Whole(A) => Scope[o] = {})
                   /\ UNCHANGED <<LogicalFile, LogicalStatus, LogicalPrior>>
                   /\ Whole(A) => UNCHANGED LogicalRow
<1>1. p \in Procs /\ TypeOK /\ Place(p) /\ Disk /\ ProcessInv(p)
  BY DEF Quiet, AtomicInv, TxInv
<1>2. Acts(p)
  BY DEF Acts, Step, UndoStep
<1>3. PICK u, o : u = op[p] /\ o = manifest[u].undoes
  OBVIOUS
<1>4. /\ UNCHANGED <<file, row, backup, op, mem>>
      /\ pc[p] = "undo_commit" /\ pc'[p] = "undo_journal"
  BY <1>1 DEF CommitUndo, Goto, TypeOK, local
<1>5. /\ u \in Undos /\ u \in Ids /\ u \notin Ops /\ Applying(u) /\ PlanOf(u) = o
      /\ o \in Ops /\ o \in Ids /\ o # u
      /\ manifest[o].state = "applied"
      /\ manifest[u].writes = WriteSet[o]
      /\ \A j \in Ids : Applying(j) => j = u
      /\ WriteSet[o] \subseteq Files /\ Scope[o] \subseteq Rows
  <2>1. /\ o \in Ops /\ u \in Undos /\ u \in Ids /\ Applying(u) /\ PlanOf(u) = o
        /\ manifest[u].writes = WriteSet[o]
    BY <1>3, <1>4, AtWork DEF Work, UndoWork
  <2>2. manifest[o].state = "applied" /\ \A j \in Ids : Applying(j) => j = u
    BY <1>1, <1>3, <2>1 DEF Disk, Applying
  <2>. QED BY <2>1, <2>2, NameAssumption, PlanAssumption DEF Ids
<1>6. /\ LogicalFile = [f \in Files |-> IF f \in WriteSet[o] THEN o ELSE file[f]]
      /\ LogicalRow = [r \in Rows |-> IF r \in Scope[o] THEN o ELSE row[r]]
  <2>1. /\ LogicalFile = [f \in Files |-> IF f \in WriteSet[o] THEN backup[u][f] ELSE file[f]]
        /\ LogicalRow = [r \in Rows |-> IF r \in Scope[o] THEN CopiedRows(u)[r] ELSE row[r]]
    BY <1>1, <1>5, LogicalWhen
  <2>2. /\ \A f \in WriteSet[o] : backup[u][f] = o
        /\ \A r \in Scope[o] : CopiedRows(u)[r] = o
    BY <1>1, <1>3, <1>5 DEF Disk, CopiedRows
  <2>. QED BY <2>1, <2>2
<1>7. /\ \A f \in WriteSet[o] : file[f] = backup[o][f]
      /\ \A r \in Scope[o] : row[r] = manifest[o].before[r]
  BY <1>1, <1>3, <1>4 DEF Place, InUndo, RollbackLabels, UndoLabels
<1>8. PICK m : manifest' = [manifest EXCEPT ![u] = m] /\ m.state = "applied" /\ m.undoes = o
  <2>. DEFINE m0 == [manifest[u] EXCEPT !.state = "applied"]
  <2>1. manifest' = [manifest EXCEPT ![u] = m0]
    BY <1>3 DEF CommitUndo
  <2>2. m0.state = "applied" /\ m0.undoes = o
    BY <1>1, <1>3, <1>5 DEF TypeOK, Manifest
  <2>. HIDE DEF m0
  <2>. QED BY <2>1, <2>2
<1>9. Rewrites(p, u, m)
  BY <1>1, <1>5, <1>8, RewriteRule
<1>10. \A j \in Ids : ~ Applying(j)'
  BY <1>5, <1>8, <1>9 DEF Rewrites, Applying
<1>11. AtomicInv(A)'
  <2>1. Beside(p)
    BY <1>3, <1>5, <1>9 DEF Beside, Rewrites, Same, Applying
  <2>2. Distinct'
    BY <1>4 DEF AtomicInv, Distinct
  <2>3. Disk'
    <3>1. ASSUME NEW q \in Ops PROVE manifest'[q] = manifest[q]
      BY <1>5, <1>9 DEF Rewrites, Ids
    <3>2. ASSUME NEW v \in Undos, manifest'[v].state # "none"
          PROVE  /\ manifest'[v].undoes \in Ops
                 /\ manifest'[manifest'[v].undoes].state = "applied"
      <4>1. manifest'[v].undoes = manifest[v].undoes /\ manifest[v].state # "none"
        BY <1>3, <1>5, <1>8, <1>9, <3>2 DEF Rewrites, Ids, Applying
      <4>. QED BY <1>1, <3>1, <4>1 DEF Disk
    <3>. QED BY <1>1, <1>10, <3>1, <3>2 DEF Disk, Ids
  <2>4. Place(p)'
    <3>1. manifest'[u] = m /\ manifest'[o] = manifest[o]
      BY <1>5, <1>9 DEF Rewrites
    <3>. QED BY <1>1, <1>3, <1>4, <1>8, <3>1
         DEF Place, InApply, InUndo, InRecovery, ApplyWork, UndoWork, RecoverWork,
             RollbackLabels, UndoLabels
  <2>5. pc'[p] \notin Recovering
    BY <1>4 DEF Recovering, RestoringLabels, AfterDeath
  <2>6. HandsOn(p)
    BY <1>10 DEF HandsOn
  <2>. QED BY <1>2, <1>4, <2>1, <2>2, <2>3, <2>4, <2>5, <2>6, InvRule
<1>12. \A q \in Ops : manifest'[q] = manifest[q]
  BY <1>5, <1>9 DEF Rewrites, Ids
<1>13. /\ LogicalStatus[o] # "open"
       /\ LogicalStatus' = [LogicalStatus EXCEPT ![o] = "undone"]
  <2>1. LogicalStatus[o] # "open"
    BY <1>5 DEF LogicalStatus
  <2>2. LogicalStatus'[o] = "undone"
    BY <1>5, <1>8, <1>9 DEF LogicalStatus, Rewrites
  <2>3. \A q \in Ops \ {o} : LogicalStatus'[q] = LogicalStatus[q]
    <3>1. ASSUME NEW q \in Ops \ {o}, NEW v \in Undos
          PROVE  (manifest'[v].undoes = q /\ manifest'[v].state = "applied")
                   <=> (manifest[v].undoes = q /\ manifest[v].state = "applied")
      BY <1>3, <1>5, <1>8, <1>9 DEF Rewrites, Ids
    <3>. QED BY <1>12, <3>1 DEF LogicalStatus
  <2>4. /\ LogicalStatus = [q \in Ops |-> LogicalStatus[q]]
        /\ LogicalStatus' = [q \in Ops |-> LogicalStatus'[q]]
    BY DEF LogicalStatus
  <2>. QED BY <2>1, <2>2, <2>3, <2>4
<1>14. LogicalPrior' = LogicalPrior
  <2>1. \A q \in Ops : LogicalStatus'[q] = "open" <=> LogicalStatus[q] = "open"
    BY <1>5, <1>13, StatusType
  <2>. QED BY <1>4, <1>12, <2>1 DEF LogicalPrior
<1>15. LogicalFile' = [f \in Files |-> file[f]] /\ LogicalRow' = [r \in Rows |-> row[r]]
  BY <1>4, <1>10 DEF LogicalFile, LogicalRow
<1>16. CASE LogicalStatus[o] = "applied"
  <2>1. LogicalPrior[o] = [file |-> [f \in WriteSet[o] |-> backup[o][f]],
                           row  |-> [r \in Scope[o] |-> manifest[o].before[r]]]
    BY <1>5, <1>16 DEF LogicalPrior
  <2>2. LogicalFile' = [f \in Files |-> IF f \in WriteSet[o] THEN LogicalPrior[o].file[f]
                                                           ELSE LogicalFile[f]]
    BY <1>5, <1>6, <1>7, <1>15, <2>1
  <2>3. LogicalRow' = [r \in Rows |-> IF r \in Scope[o] THEN LogicalPrior[o].row[r]
                                                      ELSE LogicalRow[r]]
    BY <1>5, <1>6, <1>7, <1>15, <2>1
  <2>4. Atomic!Untouched(o)
    BY <1>5, <1>6 DEF Atomic!Untouched
  <2>5. Atomic!Undo(o)
    BY <1>13, <1>14, <1>16, <2>2, <2>3, <2>4 DEF Atomic!Undo
  <2>. QED BY <1>3, <1>5, <1>8, <1>9, <1>11, <1>16, <2>5 DEF Rewrites
<1>17. CASE LogicalStatus[o] # "applied"
  <2>1. WriteSet[o] = {} /\ (Whole(A) => Scope[o] = {})
    BY <1>5, <1>6, <1>17 DEF StoreInv, FileLayers, RowLayers, Layered
  <2>2. LogicalStatus' = LogicalStatus
    BY <1>13, <1>17, StatusType DEF Statuses
  <2>3. LogicalFile' = LogicalFile /\ (Whole(A) => LogicalRow' = LogicalRow)
    BY <1>6, <1>15, <2>1
  <2>. QED BY <1>3, <1>5, <1>8, <1>9, <1>11, <1>14, <2>1, <2>2, <2>3 DEF Rewrites
<1>. QED BY <1>16, <1>17

-----------------------------------------------------------------------------
(* The store's files.                                                        *)

\* The files of the store alone: its specification, with no rows.
FilePrior ==
  [o \in Ops |-> IF LogicalStatus[o] = "open" THEN None
                 ELSE [file |-> LogicalPrior[o].file, row |-> [r \in {} |-> Original]]]

FileStore == INSTANCE AtomicStore
               WITH Rows <- {}, Scope <- [o \in Ops |-> {}],
                    file <- LogicalFile, row <- [r \in {} |-> Original],
                    status <- LogicalStatus, prior <- FilePrior, NoPrior <- None

\* What the store does, it does to its files.
LEMMA FilesOfCommit ==
  ASSUME NEW o \in Ops, Atomic!Commit(o)
  PROVE  FileStore!Commit(o)
<1>1. /\ LogicalStatus[o] = "open" /\ LogicalStatus' = [LogicalStatus EXCEPT ![o] = "applied"]
      /\ LogicalFile' = [f \in Files |-> IF f \in WriteSet[o] THEN o ELSE LogicalFile[f]]
  BY DEF Atomic!Commit
<1>2. /\ \A q \in Ops : q # o => LogicalPrior'[q] = LogicalPrior[q]
      /\ LogicalPrior'[o].file = [f \in WriteSet[o] |-> LogicalFile[f]]
  <2>1. LogicalPrior = [q \in Ops |-> LogicalPrior[q]]
    BY DEF LogicalPrior
  <2>. QED BY <2>1 DEF Atomic!Commit
<1>3. PICK none : none = [r \in {} |-> Original]
  OBVIOUS
<1>4. FilePrior' = [FilePrior EXCEPT ![o] = [file |-> [f \in WriteSet[o] |-> LogicalFile[f]],
                                             row  |-> none]]
  <2>1. LogicalStatus \in [Ops -> Statuses]
    BY StatusType
  <2>2. /\ LogicalStatus'[o] = "applied"
        /\ \A q \in Ops : q # o => LogicalStatus'[q] = LogicalStatus[q]
    BY <1>1, <2>1
  <2>3. FilePrior = [q \in Ops |-> IF LogicalStatus[q] = "open" THEN None
                                   ELSE [file |-> LogicalPrior[q].file, row |-> none]]
    BY <1>3 DEF FilePrior
  <2>4. FilePrior' = [q \in Ops |-> IF LogicalStatus'[q] = "open" THEN None
                                    ELSE [file |-> LogicalPrior'[q].file, row |-> none]]
    BY <1>3 DEF FilePrior
  <2>. QED BY <1>2, <2>2, <2>3, <2>4
<1>5. [r \in [q \in Ops |-> {}][o] |-> [r2 \in {} |-> Original][r]] = none
  BY <1>3
<1>6. [r \in {} |-> IF r \in [q \in Ops |-> {}][o] THEN o ELSE [r2 \in {} |-> Original][r]]
        = [r \in {} |-> Original]
  OBVIOUS
<1>. QED BY <1>1, <1>4, <1>5, <1>6 DEF FileStore!Commit

LEMMA FilesOfUndo ==
  ASSUME NEW o \in Ops, Atomic!Undo(o)
  PROVE  FileStore!Undo(o)
<1>1. /\ LogicalStatus[o] = "applied" /\ LogicalStatus' = [LogicalStatus EXCEPT ![o] = "undone"]
      /\ \A f \in WriteSet[o] : LogicalFile[f] = o
      /\ LogicalFile' = [f \in Files |-> IF f \in WriteSet[o] THEN LogicalPrior[o].file[f]
                                                              ELSE LogicalFile[f]]
      /\ LogicalPrior' = LogicalPrior
  BY DEF Atomic!Undo, Atomic!Untouched
<1>2. FilePrior[o].file = LogicalPrior[o].file
  BY <1>1 DEF FilePrior
<1>3. FilePrior' = FilePrior
  <2>1. \A q \in Ops : LogicalStatus'[q] = "open" <=> LogicalStatus[q] = "open"
    BY <1>1, StatusType
  <2>. QED BY <1>1, <2>1 DEF FilePrior
<1>4. FileStore!Untouched(o)
  BY <1>1 DEF FileStore!Untouched
<1>5. [r \in {} |-> IF r \in [q \in Ops |-> {}][o] THEN FilePrior[o].row[r]
                                                  ELSE [r2 \in {} |-> Original][r]]
        = [r \in {} |-> Original]
  OBVIOUS
<1>. QED BY <1>1, <1>2, <1>3, <1>4, <1>5 DEF FileStore!Undo

LEMMA FilesOfStore == [Atomic!Next]_(Atomic!vars) => [FileStore!Next]_(FileStore!vars)
<1>1. UNCHANGED Atomic!vars => UNCHANGED FileStore!vars
  BY DEF Atomic!vars, FileStore!vars, FilePrior
<1>. QED BY <1>1, FilesOfCommit, FilesOfUndo DEF Atomic!Next, FileStore!Next

\* What the store has not noticed, its files have not.
LEMMA FilesSilent ==
  ASSUME UNCHANGED <<LogicalFile, LogicalStatus, LogicalPrior>>
  PROVE  UNCHANGED FileStore!vars
BY DEF FileStore!vars, FilePrior

-----------------------------------------------------------------------------
(* What the atomic store keeps.                                              *)

\* The layers lie as before after every step of the store.
LEMMA FileLayersStep == FileLayers /\ [FileStore!Next]_(FileStore!vars) => FileLayers'
<1>. SUFFICES ASSUME FileLayers, [FileStore!Next]_(FileStore!vars)
              PROVE  FileLayers'
  OBVIOUS
<1>1. /\ LogicalStatus \in [Ops -> Statuses] /\ LogicalStatus' \in [Ops -> Statuses]
      /\ \A q \in Ops : LogicalStatus[q] = "applied" => FilePrior[q].file = UnderFiles[q]
      /\ \A q \in Ops : LogicalStatus'[q] = "applied" => FilePrior'[q].file = UnderFiles'[q]
  BY StatusType DEF LogicalStatus, Statuses, FilePrior, UnderFiles
<1>2. ASSUME NEW o \in Ops, FileStore!Commit(o) PROVE FileLayers'
  <2>1. /\ \A q \in Ops : q # o => FilePrior'[q] = FilePrior[q]
        /\ \A k \in WriteSet[o] : FilePrior'[o].file[k] = LogicalFile[k]
    <3>1. FilePrior = [q \in Ops |-> FilePrior[q]]
      BY DEF FilePrior
    <3>. QED BY <1>2, <3>1 DEF FileStore!Commit
  <2>2. /\ LogicalStatus[o] = "open"
        /\ LogicalStatus' = [LogicalStatus EXCEPT ![o] = "applied"]
    BY <1>2 DEF FileStore!Commit
  <2>3. /\ \A q \in Ops : LogicalStatus[q] = "applied" => UnderFiles'[q] = UnderFiles[q]
        /\ \A k \in WriteSet[o] : UnderFiles'[o][k] = LogicalFile[k]
    BY <1>1, <2>1, <2>2
  <2>4. \A k \in Files : LogicalFile'[k] = IF k \in WriteSet[o] THEN o ELSE LogicalFile[k]
    BY <1>2 DEF FileStore!Commit
  <2>5. Commits(o, Files, LogicalFile, LogicalFile', WriteSet, LogicalStatus, LogicalStatus',
                UnderFiles, UnderFiles')
    BY <1>1, <2>2, <2>3, <2>4, PlanAssumption DEF Commits
  <2>. QED BY <2>5, CommitLayers DEF FileLayers
<1>3. ASSUME NEW o \in Ops, FileStore!Undo(o) PROVE FileLayers'
  <2>1. /\ LogicalStatus[o] = "applied"
        /\ LogicalStatus' = [LogicalStatus EXCEPT ![o] = "undone"]
        /\ FilePrior' = FilePrior
        /\ \A k \in WriteSet[o] : LogicalFile[k] = o
    BY <1>3 DEF FileStore!Undo, FileStore!Untouched
  <2>2. \A q \in Ops : LogicalStatus'[q] = "applied" => UnderFiles'[q] = UnderFiles[q]
    BY <1>1, <2>1
  <2>3. \A k \in Files : LogicalFile'[k] = IF k \in WriteSet[o] THEN UnderFiles[o][k]
                                                                 ELSE LogicalFile[k]
    BY <1>1, <1>3, <2>1 DEF FileStore!Undo
  <2>4. Undoes(o, Files, LogicalFile, LogicalFile', WriteSet, LogicalStatus, LogicalStatus',
               UnderFiles, UnderFiles')
    BY <1>1, <2>1, <2>2, <2>3, PlanAssumption DEF Undoes
  <2>. QED BY <2>4, UndoLayers DEF FileLayers
<1>4. CASE UNCHANGED FileStore!vars
  <2>1. \A q \in Ops : LogicalStatus[q] = "applied" => UnderFiles'[q] = UnderFiles[q]
    BY <1>1, <1>4 DEF FileStore!vars
  <2>2. UnderFiles' = UnderFiles
    BY <1>4, <2>1 DEF FileStore!vars, UnderFiles
  <2>. QED BY <1>4, <2>2 DEF FileStore!vars, FileLayers
<1>. QED BY <1>2, <1>3, <1>4 DEF FileStore!Next

LEMMA RowLayersStep == RowLayers /\ [Atomic!Next]_(Atomic!vars) => RowLayers'
<1>. SUFFICES ASSUME RowLayers, [Atomic!Next]_(Atomic!vars)
              PROVE  RowLayers'
  OBVIOUS
<1>1. LogicalStatus \in [Ops -> Statuses] /\ LogicalStatus' \in [Ops -> Statuses]
  BY StatusType DEF LogicalStatus, Statuses
<1>2. ASSUME NEW o \in Ops, Atomic!Commit(o) PROVE RowLayers'
  <2>1. /\ \A q \in Ops : q # o => LogicalPrior'[q] = LogicalPrior[q]
        /\ \A k \in Scope[o] : LogicalPrior'[o].row[k] = LogicalRow[k]
    <3>1. LogicalPrior = [q \in Ops |-> LogicalPrior[q]]
      BY DEF LogicalPrior
    <3>. QED BY <1>2, <3>1 DEF Atomic!Commit
  <2>2. /\ LogicalStatus[o] = "open"
        /\ LogicalStatus' = [LogicalStatus EXCEPT ![o] = "applied"]
    BY <1>2 DEF Atomic!Commit
  <2>3. /\ \A q \in Ops : LogicalStatus[q] = "applied" => UnderRows'[q] = UnderRows[q]
        /\ \A k \in Scope[o] : UnderRows'[o][k] = LogicalRow[k]
    BY <1>1, <2>1, <2>2 DEF UnderRows
  <2>4. \A k \in Rows : LogicalRow'[k] = IF k \in Scope[o] THEN o ELSE LogicalRow[k]
    BY <1>2 DEF Atomic!Commit
  <2>5. Commits(o, Rows, LogicalRow, LogicalRow', Scope, LogicalStatus, LogicalStatus',
                UnderRows, UnderRows')
    BY <1>1, <2>2, <2>3, <2>4, PlanAssumption DEF Commits
  <2>. QED BY <2>5, CommitLayers DEF RowLayers
<1>3. ASSUME NEW o \in Ops, Atomic!Undo(o) PROVE RowLayers'
  <2>1. /\ LogicalStatus[o] = "applied"
        /\ LogicalStatus' = [LogicalStatus EXCEPT ![o] = "undone"]
        /\ LogicalPrior' = LogicalPrior
        /\ \A k \in Scope[o] : LogicalRow[k] = o
    BY <1>3 DEF Atomic!Undo, Atomic!Untouched
  <2>2. /\ \A q \in Ops : LogicalStatus'[q] = "applied" => UnderRows'[q] = UnderRows[q]
        /\ UnderRows[o] = LogicalPrior[o].row
    BY <1>1, <2>1 DEF UnderRows
  <2>3. \A k \in Rows : LogicalRow'[k] = IF k \in Scope[o] THEN UnderRows[o][k]
                                                            ELSE LogicalRow[k]
    BY <1>3, <2>2 DEF Atomic!Undo
  <2>4. Undoes(o, Rows, LogicalRow, LogicalRow', Scope, LogicalStatus, LogicalStatus',
               UnderRows, UnderRows')
    BY <1>1, <2>1, <2>2, <2>3, PlanAssumption DEF Undoes
  <2>. QED BY <2>4, UndoLayers DEF RowLayers
<1>4. CASE UNCHANGED Atomic!vars
  BY <1>4 DEF Atomic!vars, RowLayers, UnderRows
<1>. QED BY <1>2, <1>3, <1>4 DEF Atomic!Next

\* A step of the store, or one of which only the rows of a rollback that was cut short
\* tell, keeps them all.
LEMMA StoreStep ==
  ASSUME NEW A, StoreInv(A), [FileStore!Next]_(FileStore!vars),
         Whole(A) => [Atomic!Next]_(Atomic!vars)
  PROVE  StoreInv(A)'
<1>1. Whole(A)' => Whole(A)
  BY DEF Whole, DiesInUndo
<1>. QED BY <1>1, FileLayersStep, RowLayersStep DEF StoreInv

-----------------------------------------------------------------------------
(* The theorems of the second part.                                          *)

\* A step of a process is a step of the store, or one that the store does not notice.
LEMMA AtomicStep ==
  ASSUME NEW A, Quiet(A), AtomicInv(A), StoreInv(A), NEW p \in A, Acts(p)
  PROVE  /\ AtomicInv(A)' /\ StoreInv(A)'
         /\ [FileStore!Next]_(FileStore!vars)
         /\ Whole(A) => [Atomic!Next]_(Atomic!vars)
<1>1. /\ AtomicInv(A)'
      /\ \/ [Atomic!Next]_(Atomic!vars)
         \/ /\ UNCHANGED <<LogicalFile, LogicalStatus, LogicalPrior>>
            /\ Whole(A) => UNCHANGED LogicalRow
  <2>1. ~ (RaiseInRestore(p) \/ RaiseUnguarded(p) \/ RaiseInRecovery(p))
    BY DEF RaiseInRestore, RaiseUnguarded, RaiseInRecovery, Quiet, OneDaemon, Commands
  <2>2. CASE CommitManifest(p)
    BY <2>2, CommitAtomic DEF Atomic!Next
  <2>3. CASE CommitUndo(p)
    BY <2>3, UndoAtomic DEF Atomic!Next
  <2>4. CASE Call(p)
    BY <2>4, BeginApplyAtomic, BeginUndoAtomic, MoveAtomic DEF Call
  <2>5. CASE ApplyStep(p)
    BY <2>2, <2>5, PlainAtomic, MoveAtomic, FileAtomic, RowAtomic, RestoredAtomic, PrepareAtomic
    DEF ApplyStep
  <2>6. CASE UndoStep(p)
    BY <2>3, <2>6, PlainAtomic, MoveAtomic, FileAtomic, RowAtomic, PrepareUndoAtomic, MarkAtomic
    DEF UndoStep
  <2>7. CASE RecoverStep(p)
    BY <2>7, PlainAtomic, MoveAtomic, ScanAtomic, FileAtomic, RowAtomic, RestoredAtomic
    DEF RecoverStep
  <2>8. CASE Release(p) \/ AcquireRefused(p) \/ Fault(p) \/ Restart(p)
    BY <2>1, <2>8, PlainAtomic, MoveAtomic DEF Fault
  <2>. QED BY <2>4, <2>5, <2>6, <2>7, <2>8 DEF Acts, Step
<1>2. /\ [FileStore!Next]_(FileStore!vars)
      /\ Whole(A) => [Atomic!Next]_(Atomic!vars)
  BY <1>1, FilesOfStore, FilesSilent DEF Atomic!vars
<1>. QED BY <1>1, <1>2, StoreStep

\* Nothing happens, and at the start.
LEMMA AtomicStutter ==
  ASSUME NEW A, AtomicInv(A), StoreInv(A), UNCHANGED vars
  PROVE  AtomicInv(A)' /\ StoreInv(A)' /\ UNCHANGED FileStore!vars /\ UNCHANGED Atomic!vars
<1>. USE DEF vars, disk, local
<1>1. UNCHANGED Atomic!vars /\ UNCHANGED FileStore!vars
  <2>1. UNCHANGED Atomic!vars
    BY SilentSame
  <2>. QED BY <2>1, FilesSilent DEF Atomic!vars
<1>2. TxInv'
  BY InvariantStep DEF AtomicInv
<1>3. Others(A)' /\ Distinct' /\ Disk' /\ \A p \in Procs : Started(p)'
  BY DEF AtomicInv, Others, Distinct, Disk, Applying, Started, Commands
<1>4. Handled(A)'
  BY DEF AtomicInv, Handled, HandledBy, Applying
<1>5. \A p \in A : Place(p)'
  BY DEF AtomicInv, Place, InApply, InUndo, InRecovery, Applying
<1>. QED BY <1>1, <1>2, <1>3, <1>4, <1>5, StoreStep DEF AtomicInv

LEMMA AtomicStart ==
  ASSUME NEW A, A \subseteq Procs, Init
  PROVE  AtomicInv(A) /\ StoreInv(A) /\ FileStore!Init /\ Atomic!Init
<1>1. NewManifest("none", None).state = "none"
  BY DEF NewManifest
<1>2. /\ \A i \in Ids : manifest[i].state = "none"
      /\ \A p \in Procs : op[p] = None /\ pc[p] \in {"idle", "boot"}
      /\ \A p \in Procs \ Daemons : pc[p] = "idle"
  BY <1>1 DEF Init, Idle
<1>3. AtomicInv(A)
  <2>1. TxInv
    BY InitialState
  <2>2. Others(A)
    BY <1>2 DEF Others, Commands, Recovering, AfterDeath, RestoringLabels
  <2>3. Distinct /\ Disk /\ Handled(A) /\ \A p \in Procs : Started(p)
    BY <1>2 DEF Distinct, Disk, Handled, Applying, Started, Ids
  <2>4. \A p \in A : Place(p)
    BY <1>2 DEF Place, InApply, InUndo, InRecovery, ApplyWork, UndoWork, RecoverWork,
                RollbackLabels, UndoLabels
  <2>. QED BY <2>1, <2>2, <2>3, <2>4 DEF AtomicInv
<1>4. LogicalFile = file /\ LogicalRow = row
  BY <1>2, <1>3, LogicalElse DEF AtomicInv, TxInv, Applying
<1>5. LogicalStatus = [o \in Ops |-> "open"]
  BY <1>2 DEF LogicalStatus, Ids
<1>6. LogicalPrior = [o \in Ops |-> None]
  BY <1>5 DEF LogicalPrior
<1>7. StoreInv(A)
  BY <1>4, <1>5, NameAssumption DEF Init, StoreInv, FileLayers, RowLayers, Layered, Ids
<1>8. FilePrior = [o \in Ops |-> None]
  BY <1>5 DEF FilePrior
<1>. QED BY <1>3, <1>4, <1>5, <1>6, <1>7, <1>8 DEF Init, Atomic!Init, FileStore!Init

\* The only step by which the manifest of a rollback comes to say "applied".
LEMMA UndoWriters ==
  ASSUME TxInv, NEW p \in Procs, Acts(p), NEW u \in Undos,
         manifest'[u] # manifest[u], manifest'[u].state = "applied"
  PROVE  CommitUndo(p) /\ op[p] = u
<1>. USE DEF TxInv
<1>1. manifest \in [Ids -> Manifest] /\ u \in Ids /\ u \notin Ops
  BY NameAssumption DEF TypeOK, Ids
<1>2. ~ Plain(p)
  BY DEF Plain
<1>3. ~ \E f \in Files :
          WriteFile(p, f) \/ RestoreFile(p, f) \/ UndoFile(p, f) \/ RecoverFile(p, f)
  BY DEF WriteFile, RestoreFile, UndoFile, RecoverFile, PutFile
<1>4. ~ (MutateRows(p) \/ RestoreRows(p) \/ UndoRows(p) \/ RecoverRows(p))
  BY DEF MutateRows, RestoreRows, UndoRows, RecoverRows, PutRows
<1>5. ~ \/ AcquireForApply(p) \/ AcquireForUndo(p) \/ AcquireForRecovery(p)
        \/ Release(p) \/ ReleaseRecovered(p) \/ AcquireRefused(p) \/ Crash(p)
        \/ Boot(p) \/ BeginRecover(p) \/ Raise(p) \/ RaiseInRestore(p)
        \/ RaiseInRecovery(p) \/ \E i \in Ids : Scan(p, i)
  BY DEF AcquireForApply, AcquireForUndo, AcquireForRecovery, Release,
         ReleaseRecovered, AcquireRefused, Crash, Boot, BeginRecover, Raise,
         RaiseInRestore, RaiseInRecovery, Scan, disk
<1>6. ~ \E i \in Ops : BeginApply(p, i)
  BY <1>1 DEF BeginApply, WriteManifest
<1>7. ~ \E v \in Undos, i \in Ops : BeginUndo(p, v, i)
  BY <1>1 DEF BeginUndo, WriteManifest, NewManifest
<1>8. ~ (Prepare(p) \/ CommitManifest(p) \/ FailManifest(p))
  <2>1. Prepare(p) \/ CommitManifest(p) \/ FailManifest(p) => op[p] \in Ops
    BY DEF Prepare, CommitManifest, FailManifest, ProcessInv, OperationFits, ApplyLabels, Writing
  <2>. QED BY <1>1, <2>1 DEF Prepare, CommitManifest, FailManifest, WriteManifest
<1>9. ~ PrepareUndo(p)
  <2>. SUFFICES ASSUME PrepareUndo(p)
                PROVE  FALSE
    OBVIOUS
  <2>. DEFINE m == [manifest[op[p]] EXCEPT !.state = "applying", !.writes = mem[p].writes,
                                           !.before_rollback = Captured(PlanOf(op[p]))]
  <2>1. manifest' = [manifest EXCEPT ![op[p]] = m] /\ op[p] \in Ids
    BY DEF PrepareUndo, WriteManifest, ProcessInv, OperationFits, RollbackLabels, Ids
  <2>2. m.state = "applying"
    BY <1>1, <2>1 DEF Manifest
  <2>. HIDE DEF m
  <2>. QED BY <1>1, <2>1, <2>2
<1>10. ~ MarkRolledBack(p)
  <2>1. MarkRolledBack(p) => PlanOf(op[p]) \in Ops
    BY DEF MarkRolledBack, ProcessInv, OperationFits, RollbackLabels, UndoLabels, ManifestInv,
           PlanOf
  <2>. QED BY <1>1, <2>1 DEF MarkRolledBack, WriteManifest
<1>11. ~ RecoverManifest(p)
  <2>. SUFFICES ASSUME RecoverManifest(p)
                PROVE  FALSE
    OBVIOUS
  <2>. DEFINE m == [mem[p] EXCEPT !.state = "recovered_rollback"]
  <2>1. manifest' = [manifest EXCEPT ![op[p]] = m]
    BY DEF RecoverManifest, WriteManifest
  <2>2. m.state = "recovered_rollback"
    BY DEF TypeOK, Manifest
  <2>. HIDE DEF m
  <2>. QED BY <1>1, <2>1, <2>2
<1>12. CommitUndo(p) => op[p] = u
  BY <1>1 DEF CommitUndo
<1>13. ~ Call(p)
  BY <1>5, <1>6, <1>7 DEF Call
<1>14. ~ ApplyStep(p)
  BY <1>2, <1>3, <1>4, <1>5, <1>8, PlainSteps DEF ApplyStep
<1>15. UndoStep(p) => CommitUndo(p)
  BY <1>2, <1>3, <1>4, <1>5, <1>9, <1>10, PlainSteps DEF UndoStep
<1>16. ~ RecoverStep(p)
  BY <1>2, <1>3, <1>4, <1>5, <1>11, PlainSteps DEF RecoverStep
<1>17. ~ (Release(p) \/ AcquireRefused(p) \/ Fault(p) \/ Restart(p))
  BY <1>2, <1>5, PlainSteps DEF Fault
<1>. QED BY <1>12, <1>13, <1>14, <1>15, <1>16, <1>17 DEF Acts, Step

\* Any number of commands whose writes may fail, none of which dies; or one daemon
\* that dies between any two writes of apply() and of recovery, any number of times,
\* and recovers when it is started again: what they do to files, rows and manifests
\* is what a store does on which operations and rollbacks happen whole, at one moment.
THEOREM TransactionsAreAtomic ==
  ASSUME Quiet(Procs), Whole(Procs)
  PROVE  Spec => Atomic!Spec
<1>1. Init => AtomicInv(Procs) /\ StoreInv(Procs) /\ Atomic!Init
  BY AtomicStart DEF Quiet
<1>2. AtomicInv(Procs) /\ StoreInv(Procs) /\ [Next]_vars =>
        AtomicInv(Procs)' /\ StoreInv(Procs)' /\ [Atomic!Next]_(Atomic!vars)
  BY AtomicStep, AtomicStutter DEF Next, Acts
<1>. QED BY <1>1, <1>2, PTL DEF Spec, Atomic!Spec

\* The daemon may also die inside rollback(), any number of times: what it does to the
\* files is still what such a store does.  A death inside rollback() costs rows, and no
\* more than rows.
THEOREM FilesAreAtomic ==
  ASSUME Quiet(Procs)
  PROVE  Spec => FileStore!Spec
<1>1. Init => AtomicInv(Procs) /\ StoreInv(Procs) /\ FileStore!Init
  BY AtomicStart DEF Quiet
<1>2. AtomicInv(Procs) /\ StoreInv(Procs) /\ [Next]_vars =>
        AtomicInv(Procs)' /\ StoreInv(Procs)' /\ [FileStore!Next]_(FileStore!vars)
  BY AtomicStep, AtomicStutter DEF Next, Acts
<1>. QED BY <1>1, <1>2, PTL DEF Spec, FileStore!Spec

\* The same of the daemon at work alone among other processes, files and rows.
THEOREM DaemonIsAtomic ==
  ASSUME d \in Procs \cap Daemons, Faults[d] \subseteq {"crash", "raise"}
  PROVE  MCSpec => ImplementsAtomicStore
<1>. DEFINE Inv == team = {d} => AtomicInv({d}) /\ StoreInv({d})
<1>1. Quiet({d}) /\ Whole({d})
  BY DEF Quiet, OneDaemon, Whole, DiesInUndo
<1>2. MCInit => Inv /\ (team = {d} => Atomic!Init)
  BY AtomicStart DEF MCInit
<1>3. Inv /\ [MCNext]_<<vars, team>> => Inv' /\ [team = {d} => Atomic!Next]_(Atomic!vars)
  <2>. SUFFICES ASSUME Inv, [MCNext]_<<vars, team>>, team = {d}
                PROVE  AtomicInv({d})' /\ StoreInv({d})' /\ [Atomic!Next]_(Atomic!vars)
    BY DEF MCNext
  <2>1. CASE MCNext
    <3>1. Acts(d)
      BY <2>1 DEF MCNext, Acts
    <3>. QED BY <1>1, <3>1, AtomicStep
  <2>2. CASE UNCHANGED <<vars, team>>
    BY <2>2, AtomicStutter
  <2>. QED BY <2>1, <2>2
<1>. HIDE DEF Inv
<1>. QED BY <1>2, <1>3, PTL DEF MCSpec, ImplementsAtomicStore

\* An operation that writes a file is rolled back at most once, however many rollbacks
\* of it are under way and wherever the daemon dies; if it does not die inside rollback(),
\* so is one that writes rows only.
THEOREM UndoneAtMostOnce ==
  ASSUME Quiet(Procs),
         \A o \in Ops : WriteSet[o] # {} \/ (Whole(Procs) /\ Scope[o] # {})
  PROVE  Spec => []UndoneOnce
<1>1. Init => AtomicInv(Procs) /\ StoreInv(Procs) /\ UndoneOnce
  <2>1. NewManifest("none", None).state = "none"
    BY DEF NewManifest
  <2>. QED BY <2>1, AtomicStart DEF Init, UndoneOnce, Ids
<1>2. AtomicInv(Procs) /\ StoreInv(Procs) /\ UndoneOnce /\ [Next]_vars =>
        AtomicInv(Procs)' /\ StoreInv(Procs)' /\ UndoneOnce'
  <2>. SUFFICES ASSUME AtomicInv(Procs), StoreInv(Procs), UndoneOnce, [Next]_vars
                PROVE  AtomicInv(Procs)' /\ StoreInv(Procs)' /\ UndoneOnce'
    OBVIOUS
  <2>1. CASE UNCHANGED vars
    BY <2>1, AtomicStutter DEF UndoneOnce, vars, disk
  <2>2. ASSUME NEW p \in Procs, Acts(p)
        PROVE  AtomicInv(Procs)' /\ StoreInv(Procs)' /\ UndoneOnce'
    <3>1. AtomicInv(Procs)' /\ StoreInv(Procs)'
      BY <2>2, AtomicStep
    <3>2. ASSUME NEW u \in Undos, NEW v \in Undos,
                 manifest'[u].state = "applied", manifest'[v].state = "applied",
                 manifest'[u].undoes = manifest'[v].undoes,
                 manifest'[u] # manifest[u], u # v
          PROVE  FALSE
      <4>1. CommitUndo(p) /\ op[p] = u
        BY <2>2, <3>2, UndoWriters DEF AtomicInv
      <4>2. manifest'[v] = manifest[v]
        BY <2>2, <3>2, <4>1, UndoWriters DEF AtomicInv
      <4>3. PICK o \in Ops : /\ manifest'[u].undoes = o
                             /\ \/ LogicalStatus[o] = "applied"
                                \/ WriteSet[o] = {} /\ (Whole(Procs) => Scope[o] = {})
        BY <4>1, UndoAtomic
      <4>4. LogicalStatus[o] = "undone"
        BY <3>2, <4>2, <4>3 DEF LogicalStatus
      <4>. QED BY <4>3, <4>4
    <3>3. UndoneOnce'
      BY <3>2 DEF UndoneOnce
    <3>. QED BY <3>1, <3>3
  <2>. QED BY <2>1, <2>2 DEF Next, Acts
<1>. QED BY <1>1, <1>2, PTL DEF Spec

\* What a death leaves half done is never forgotten: as long as a manifest says "applying",
\* a process is at work on it, or the daemon is down or has it before it in its recovery.
THEOREM InterruptedIsHandled ==
  ASSUME Quiet(Procs)
  PROVE  Spec => []Handled(Procs)
<1>1. Init => AtomicInv(Procs) /\ StoreInv(Procs)
  BY AtomicStart DEF Quiet
<1>2. AtomicInv(Procs) /\ StoreInv(Procs) /\ [Next]_vars =>
        AtomicInv(Procs)' /\ StoreInv(Procs)'
  BY AtomicStep, AtomicStutter DEF Next, Acts
<1>3. AtomicInv(Procs) => Handled(Procs)
  BY DEF AtomicInv
<1>. QED BY <1>1, <1>2, <1>3, PTL DEF Spec

-----------------------------------------------------------------------------
(* Files and rows that go together.                                          *)

\* A file and a row that some plan names together, which every plan names together.
Partners(f, r) == \E o \in Ops : f \in WriteSet[o] /\ r \in Scope[o]
PairedPlans ==
  \A f \in Files, r \in Rows : Partners(f, r) =>
    \A o \in Ops : f \in WriteSet[o] <=> r \in Scope[o]

\* They have one content in the store, and in what each operation replaced.
PairInv ==
  \A f \in Files, r \in Rows : Partners(f, r) =>
    /\ LogicalFile[f] = LogicalRow[r]
    /\ \A o \in Ops : LogicalStatus[o] # "open" /\ f \in WriteSet[o] =>
         LogicalPrior[o].file[f] = LogicalPrior[o].row[r]

\* The store keeps them together, because it commits and undoes whole operations.
LEMMA PairStep ==
  ASSUME PairedPlans, PairInv, [Atomic!Next]_(Atomic!vars)
  PROVE  PairInv'
<1>. SUFFICES ASSUME NEW f \in Files, NEW r \in Rows, Partners(f, r)
              PROVE  /\ LogicalFile'[f] = LogicalRow'[r]
                     /\ \A o \in Ops : LogicalStatus'[o] # "open" /\ f \in WriteSet[o] =>
                          LogicalPrior'[o].file[f] = LogicalPrior'[o].row[r]
  BY DEF PairInv
<1>1. /\ \A o \in Ops : f \in WriteSet[o] <=> r \in Scope[o]
      /\ LogicalFile[f] = LogicalRow[r]
      /\ \A o \in Ops : LogicalStatus[o] # "open" /\ f \in WriteSet[o] =>
           LogicalPrior[o].file[f] = LogicalPrior[o].row[r]
      /\ LogicalStatus \in [Ops -> Statuses]
  BY StatusType DEF PairedPlans, PairInv
<1>2. ASSUME NEW o \in Ops, Atomic!Commit(o)
      PROVE  /\ LogicalFile'[f] = LogicalRow'[r]
             /\ \A q \in Ops : LogicalStatus'[q] # "open" /\ f \in WriteSet[q] =>
                  LogicalPrior'[q].file[f] = LogicalPrior'[q].row[r]
  <2>1. LogicalFile'[f] = LogicalRow'[r]
    BY <1>1, <1>2 DEF Atomic!Commit
  <2>2. /\ \A q \in Ops : q # o => LogicalPrior'[q] = LogicalPrior[q]
        /\ LogicalPrior'[o] = [file |-> [g \in WriteSet[o] |-> LogicalFile[g]],
                               row  |-> [k \in Scope[o] |-> LogicalRow[k]]]
    <3>1. LogicalPrior = [q \in Ops |-> LogicalPrior[q]]
      BY DEF LogicalPrior
    <3>. QED BY <1>2, <3>1 DEF Atomic!Commit
  <2>3. \A q \in Ops : q # o => LogicalStatus'[q] = LogicalStatus[q]
    BY <1>1, <1>2 DEF Atomic!Commit
  <2>. QED BY <1>1, <2>1, <2>2, <2>3
<1>3. ASSUME NEW o \in Ops, Atomic!Undo(o)
      PROVE  /\ LogicalFile'[f] = LogicalRow'[r]
             /\ \A q \in Ops : LogicalStatus'[q] # "open" /\ f \in WriteSet[q] =>
                  LogicalPrior'[q].file[f] = LogicalPrior'[q].row[r]
  <2>1. LogicalStatus[o] # "open"
    BY <1>3 DEF Atomic!Undo
  <2>2. LogicalFile'[f] = LogicalRow'[r]
    BY <1>1, <1>3, <2>1 DEF Atomic!Undo
  <2>3. /\ LogicalPrior' = LogicalPrior
        /\ \A q \in Ops : LogicalStatus'[q] # "open" => LogicalStatus[q] # "open"
    BY <1>1, <1>3, <2>1 DEF Atomic!Undo
  <2>. QED BY <1>1, <2>2, <2>3
<1>4. CASE UNCHANGED Atomic!vars
  BY <1>1, <1>4 DEF Atomic!vars
<1>. QED BY <1>2, <1>3, <1>4 DEF Atomic!Next

\* A file and a row that plans name together only both have an operation's content or
\* neither has, whenever nobody is at work and nothing is left to recover, if nothing
\* dies inside rollback(): what a run refutes of a daemon that does.
THEOREM PartnersAreAligned ==
  ASSUME Quiet(Procs), Whole(Procs), PairedPlans
  PROVE  Spec => []Aligned
<1>1. Init => AtomicInv(Procs) /\ StoreInv(Procs) /\ PairInv
  <2>1. Init => AtomicInv(Procs) /\ StoreInv(Procs) /\ Atomic!Init
    BY AtomicStart DEF Quiet
  <2>2. Atomic!Init => PairInv
    BY DEF Atomic!Init, PairInv
  <2>. QED BY <2>1, <2>2
<1>2. AtomicInv(Procs) /\ StoreInv(Procs) /\ PairInv /\ [Next]_vars =>
        AtomicInv(Procs)' /\ StoreInv(Procs)' /\ PairInv'
  <2>1. AtomicInv(Procs) /\ StoreInv(Procs) /\ [Next]_vars =>
          AtomicInv(Procs)' /\ StoreInv(Procs)' /\ [Atomic!Next]_(Atomic!vars)
    BY AtomicStep, AtomicStutter DEF Next, Acts
  <2>. QED BY <2>1, PairStep
<1>3. AtomicInv(Procs) /\ PairInv => Aligned
  <2>. SUFFICES ASSUME AtomicInv(Procs), PairInv, \A i \in Ids : ~ Applying(i),
                       NEW o \in Ops, NEW f \in Files, NEW r \in Rows,
                       f \in WriteSet[o], r \in Scope[o]
                PROVE  file[f] = o <=> row[r] = o
    BY DEF Aligned
  <2>1. LogicalFile = file /\ LogicalRow = row
    BY LogicalElse DEF AtomicInv, TxInv
  <2>2. LogicalFile[f] = LogicalRow[r]
    BY DEF PairInv, Partners
  <2>. QED BY <2>1, <2>2
<1>. QED BY <1>1, <1>2, <1>3, PTL DEF Spec
=============================================================================
