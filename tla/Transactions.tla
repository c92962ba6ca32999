---------------------------- MODULE Transactions ----------------------------
(***************************************************************************)
(* The canonical transaction manager, second_brain/transactions/manager.py *)
(* and db_mutations.py: apply, rollback and recover_interrupted, run by    *)
(* several processes (the daemon, command-line and MCP processes) that     *)
(* share the vault, the SQLite database and .brain/.                       *)
(*                                                                         *)
(* Each durable write is a step of its own: the replacement of one file,   *)
(* one SQLite transaction, one manifest.  A process may crash between two  *)
(* of them, or meet an exception.  The writer lock is taken here to do     *)
(* what its callers expect of it (ProcessLock says how far it does).       *)
(*                                                                         *)
(* A content is named by the operation that wrote it.  A file that does    *)
(* not exist is one more content, which restoring brings back by unlink.   *)
(***************************************************************************)
EXTENDS Naturals, FiniteSets

CONSTANTS Procs,      \* processes that mutate the brain
          Daemons,    \* those that run prepare_startup before anything else
          Recoverers, \* those from which the recover command may be run
          Ops,        \* operations that apply() is given
          Undos,      \* operation identifiers rollback() makes up
          Files, Rows,
          WriteSet,   \* WriteSet[o]: the files that plan o writes
          Scope,      \* Scope[o]: the rows that its DatabaseMutationPlan declares
          Guarded,    \* operations whose writes carry an expected_hash
          Original,   \* the content of every file and row at the start
          None,       \* JSON null: no snapshot, no operation, no lock owner
          Faults,     \* Faults[p]: the kinds of faults process p meets, of AllFaults
          MaxCrashes  \* bound: crashes in a behaviour

\* "crash":            a process dies outside rollback()
\* "crash_in_undo":    a process dies inside rollback()
\* "raise":            a file or database write of apply() fails, in its try
\* "raise_late":       the ledger or operations row fails, still in the try
\* "raise_in_restore": the handler of apply() fails to restore a file or the rows
\* "raise_unguarded":  a write fails where nothing catches it
AllFaults == {"crash", "crash_in_undo", "raise", "raise_late", "raise_in_restore",
              "raise_unguarded"}

Ids == Ops \cup Undos
Content == Ops \cup {Original}

ASSUME ProcessAssumption == Daemons \subseteq Procs /\ Recoverers \subseteq Procs
ASSUME PlanAssumption == WriteSet \in [Ops -> SUBSET Files] /\ Scope \in [Ops -> SUBSET Rows]
ASSUME NameAssumption ==
  /\ Ops \cap Undos = {}
  /\ Original \notin Ids
  /\ "stale" \notin Procs
  /\ None \notin Procs \cup {"stale"} \cup Ids \cup [Files -> Content] \cup [Rows -> Content]
ASSUME FaultAssumption == Faults \in [Procs -> SUBSET AllFaults] /\ MaxCrashes \in Nat

VARIABLES
  \* on disk
  file,      \* the vault's canonical files
  row,       \* the rows the plans declare
  manifest,  \* .brain/transactions/<id>/manifest.json
  backup,    \* .brain/history/<id>/: the copies made before an operation's writes
  journal,   \* the state in .brain/ledgers/<id>.json, or "none"
  opRow,     \* the status in the operations table, or "none"
  lock,      \* writer.lock: its live owner, "stale" when the owner died, or None
  \* in each process
  pc,        \* where it is
  op,        \* the operation it works on
  mem,       \* the manifest it keeps in memory (rollback: the original's)
  expected,  \* the file contents its plan was made against
  todo,      \* files still to write or to restore
  pending,   \* manifests recover_interrupted has still to look at
  \* bound
  crashes

disk == <<file, row, manifest, backup, journal, opRow>>
local == <<op, mem, expected, todo, pending>>
vars == <<disk, lock, pc, local, crashes>>

-----------------------------------------------------------------------------
(* Manifests.  undoes names the operation a rollback compensates; before   *)
(* and after are the row snapshots that recovery and rollback restore and  *)
(* compare; before_rollback is the snapshot a rollback records of itself.  *)

RowSnapshot == [Rows -> Content]

Manifest ==
  [state: {"none", "planned", "applying", "applied", "failed", "recovered_rollback"},
   undoes: Ops \cup {None},
   writes: SUBSET Files,
   before: RowSnapshot \cup {None},
   after: RowSnapshot \cup {None},
   before_rollback: RowSnapshot \cup {None},
   rolled_back_by: Undos \cup {None},
   rollback_error: BOOLEAN]

NewManifest(state, o) ==
  [state |-> state, undoes |-> o, writes |-> {}, before |-> None, after |-> None,
   before_rollback |-> None, rolled_back_by |-> None, rollback_error |-> FALSE]

\* The operation whose plan (files and row scopes) identifier i is about.
PlanOf(i) == IF i \in Ops THEN i ELSE manifest[i].undoes

\* capture_snapshot: the declared rows, and no other.
Captured(o) == [r \in Rows |-> IF r \in Scope[o] THEN row[r] ELSE Original]

\* restore_snapshot: the declared rows get their recorded content back, and no
\* other row is touched.
Restored(snapshot, o) ==
  [r \in Rows |-> IF r \in Scope[o] THEN snapshot[r] ELSE row[r]]

\* The copies of the files about to be written, in .brain/history.
Copied(fs) == [f \in Files |-> IF f \in fs THEN file[f] ELSE Original]

Goto(p, label) == pc' = [pc EXCEPT ![p] = label]

WriteManifest(i, m) == manifest' = [manifest EXCEPT ![i] = m]

\* _record_operation: the status of the process's operation in the operations
\* table, in a SQLite transaction of its own.
Record(p, from, status, to) ==
  /\ pc[p] = from
  /\ opRow' = [opRow EXCEPT ![op[p]] = status]
  /\ Goto(p, to)
  /\ UNCHANGED <<file, row, manifest, backup, journal, lock, local, crashes>>

\* .brain/ledgers/<id>.json, rewritten from the manifest in memory.
Journal(p, from, i, state, to) ==
  /\ pc[p] = from
  /\ journal' = [journal EXCEPT ![i] = state]
  /\ Goto(p, to)
  /\ UNCHANGED <<file, row, manifest, backup, opRow, lock, local, crashes>>

\* One file of those still to do gets its content; nothing else changes.
PutFile(p, at, f, content) ==
  /\ pc[p] = at
  /\ f \in todo[p]
  /\ file' = [file EXCEPT ![f] = content]
  /\ todo' = [todo EXCEPT ![p] = @ \ {f}]
  /\ UNCHANGED <<row, manifest, backup, journal, opRow, lock, pc, op, mem,
                 expected, pending, crashes>>

\* Mutant: the rows, and so the end of the writes, do not wait for the files.
PutRowsEarly(p, at, rows, to) ==
  /\ pc[p] = at
  /\ row' = rows
  /\ Goto(p, to)
  /\ UNCHANGED <<file, manifest, backup, journal, opRow, lock, local, crashes>>

\* All files are done; the rows change in one SQLite transaction.
PutRows(p, at, rows, to) ==
  /\ pc[p] = at
  /\ todo[p] = {}
  /\ row' = rows
  /\ Goto(p, to)
  /\ UNCHANGED <<file, manifest, backup, journal, opRow, lock, local, crashes>>

\* A process whose recovery raises ends: the daemon does not become live.
Idle(p) == IF p \in Daemons THEN "boot" ELSE "idle"

Forget(p) ==
  /\ op' = [op EXCEPT ![p] = None]
  /\ mem' = [mem EXCEPT ![p] = NewManifest("none", None)]
  /\ expected' = [expected EXCEPT ![p] = None]
  /\ todo' = [todo EXCEPT ![p] = {}]
  /\ pending' = [pending EXCEPT ![p] = {}]

\* Mutant: the lock is taken whoever owns it.
TakeLockAnyway(p) == lock' = p

\* _writer_lock: a free or stale lock is taken, a live owner raises.
TakeLock(p) == lock \in {None, "stale"} /\ lock' = p
LockHeld == lock \notin {None, "stale"}

-----------------------------------------------------------------------------
Init ==
  /\ file = [f \in Files |-> Original]
  /\ row = [r \in Rows |-> Original]
  /\ manifest = [i \in Ids |-> NewManifest("none", None)]
  /\ backup = [i \in Ids |-> [f \in Files |-> Original]]
  /\ journal = [i \in Ids |-> "none"]
  /\ opRow = [i \in Ids |-> "none"]
  /\ lock = None
  /\ pc = [p \in Procs |-> Idle(p)]
  /\ op = [p \in Procs |-> None]
  /\ mem = [p \in Procs |-> NewManifest("none", None)]
  /\ expected = [p \in Procs |-> None]
  /\ todo = [p \in Procs |-> {}]
  /\ pending = [p \in Procs |-> {}]
  /\ crashes = 0

(***************************************************************************)
(* apply()                                                                 *)
(***************************************************************************)

\* A caller reads the files, plans against them and calls apply(), which writes
\* the "planned" manifest.  An operation that did not complete may be retried
\* under its identifier (the approval of a review does).
BeginApply(p, o) ==
  /\ pc[p] = "idle"
  /\ manifest[o].state \in {"none", "planned", "failed", "recovered_rollback"}
  /\ \A q \in Procs : op[q] # o
  /\ op' = [op EXCEPT ![p] = o]
  /\ expected' = [expected EXCEPT ![p] = IF o \in Guarded THEN file ELSE None]
  /\ mem' = [mem EXCEPT ![p] = NewManifest("planned", None)]
  /\ WriteManifest(o, NewManifest("planned", None))
  /\ Goto(p, "plan_row")
  /\ UNCHANGED <<file, row, backup, journal, opRow, lock, todo, pending, crashes>>

RecordPlanned(p) == Record(p, "plan_row", "planned", "acquire")

AcquireForApply(p) ==
  /\ pc[p] = "acquire"
  /\ TakeLock(p)
  /\ Goto(p, "check")
  /\ UNCHANGED <<disk, local, crashes>>

\* Any acquisition that meets a live owner raises TransactionError; an operation
\* stays "planned", an interrupted one stays "applying".
AcquireRefused(p) ==
  /\ pc[p] \in {"acquire", "undo_acquire", "recover_acquire"}
  /\ LockHeld
  /\ Goto(p, IF pc[p] = "recover_acquire" THEN Idle(p) ELSE "idle")
  /\ Forget(p)
  /\ UNCHANGED <<disk, lock, crashes>>

\* Mutant: the preconditions are not verified again under the lock.
PreconditionsAssumed(p) == op[p] \in Ops

\* Preconditions once more, now under the lock.
PreconditionsHold(p) ==
  op[p] \in Guarded => \A f \in WriteSet[op[p]] : file[f] = expected[p][f]

\* Snapshot of the rows, copies of the files, then the "applying" manifest that
\* makes them recoverable.
Prepare(p) ==
  LET o == op[p]
      m == [mem[p] EXCEPT !.state = "applying", !.writes = WriteSet[o], !.before = Captured(o)]
  IN
  /\ pc[p] = "check"
  /\ PreconditionsHold(p)
  /\ backup' = [backup EXCEPT ![o] = Copied(WriteSet[o])]
  /\ mem' = [mem EXCEPT ![p] = m]
  /\ WriteManifest(o, m)
  /\ todo' = [todo EXCEPT ![p] = WriteSet[o]]
  /\ Goto(p, "applying_row")
  /\ UNCHANGED <<file, row, journal, opRow, lock, op, expected, pending, crashes>>

PrepareRefused(p) ==
  /\ pc[p] = "check"
  /\ ~ PreconditionsHold(p)
  /\ Goto(p, "release")
  /\ UNCHANGED <<disk, lock, local, crashes>>

RecordApplying(p) == Record(p, "applying_row", "applying", "write")

\* _atomic_text_replace of one file.
WriteFile(p, f) == PutFile(p, "write", f, op[p])

\* db_action, in one SQLite transaction.
MutateRows(p) ==
  PutRows(p, "write",
          [r \in Rows |-> IF r \in Scope[op[p]] THEN op[p] ELSE row[r]], "commit")

CommitManifest(p) ==
  LET m == [mem[p] EXCEPT !.state = "applied", !.after = Captured(op[p])] IN
  /\ pc[p] = "commit"
  /\ mem' = [mem EXCEPT ![p] = m]
  /\ WriteManifest(op[p], m)
  /\ Goto(p, "journal")
  /\ UNCHANGED <<file, row, backup, journal, opRow, lock, op, expected, todo,
                 pending, crashes>>

JournalApplied(p) == Journal(p, "journal", op[p], "applied", "applied_row")

RecordApplied(p) == Record(p, "applied_row", "applied", "release")

\* The end of the with statement, by return or by an exception.
Release(p) ==
  /\ pc[p] = "release"
  /\ lock' = None
  /\ Goto(p, "idle")
  /\ Forget(p)
  /\ UNCHANGED <<disk, crashes>>

\* Mutant: the handler restores the files the loop had not reached.
RaiseRestoresRest(p) ==
  /\ "raise" \in Faults[p]
  /\ pc[p] \in {"write", "commit"}
  /\ Goto(p, "restore")
  /\ UNCHANGED <<disk, lock, local, crashes>>

\* An exception in the try of apply(): its handler starts to restore.
Raise(p) ==
  /\ \/ "raise" \in Faults[p] /\ pc[p] \in {"write", "commit"}
     \/ "raise_late" \in Faults[p] /\ pc[p] \in {"journal", "applied_row"}
  /\ todo' = [todo EXCEPT ![p] = WriteSet[op[p]]]
  /\ Goto(p, "restore")
  /\ UNCHANGED <<disk, lock, op, mem, expected, pending, crashes>>

RestoreFile(p, f) == PutFile(p, "restore", f, backup[op[p]][f])

RestoreRows(p) == PutRows(p, "restore", Restored(mem[p].before, op[p]), "fail")

\* An exception while restoring ends the restoring, and only that: the operation
\* is declared failed all the same, with the error noted as rollback_error.
RaiseInRestore(p) ==
  /\ "raise_in_restore" \in Faults[p]
  /\ pc[p] = "restore"
  /\ mem' = [mem EXCEPT ![p].rollback_error = TRUE]
  /\ Goto(p, "fail")
  /\ UNCHANGED <<disk, lock, op, expected, todo, pending, crashes>>

FailManifest(p) ==
  LET m == [mem[p] EXCEPT !.state = "failed"] IN
  /\ pc[p] = "fail"
  /\ mem' = [mem EXCEPT ![p] = m]
  /\ WriteManifest(op[p], m)
  /\ Goto(p, "fail_journal")
  /\ UNCHANGED <<file, row, backup, journal, opRow, lock, op, expected, todo,
                 pending, crashes>>

JournalFailed(p) == Journal(p, "fail_journal", op[p], "failed", "fail_row")

RecordFailed(p) == Record(p, "fail_row", "failed", "release")

(***************************************************************************)
(* rollback()                                                              *)
(***************************************************************************)

\* The original's manifest is read, and the compensating one written, before
\* the lock is taken.
BeginUndo(p, u, o) ==
  /\ pc[p] = "idle"
  /\ manifest[u].state = "none"
  /\ manifest[o].state = "applied"
  /\ manifest[o].rolled_back_by = None
  /\ op' = [op EXCEPT ![p] = u]
  /\ mem' = [mem EXCEPT ![p] = manifest[o]]
  /\ WriteManifest(u, NewManifest("planned", o))
  /\ Goto(p, "undo_plan_row")
  /\ UNCHANGED <<file, row, backup, journal, opRow, lock, expected, todo, pending,
                 crashes>>

RecordUndoPlanned(p) == Record(p, "undo_plan_row", "planned", "undo_acquire")

AcquireForUndo(p) ==
  /\ pc[p] = "undo_acquire"
  /\ TakeLock(p)
  /\ Goto(p, "undo_check")
  /\ UNCHANGED <<disk, local, crashes>>

\* Mutant: the manifest as it was read before the lock is believed.
StillAppliedInMemory(p) == mem[p].state = "applied" /\ mem[p].rolled_back_by = None

\* Files by hash and rows by snapshot are still what the operation left.
StillAsApplied(p) ==
  LET o == PlanOf(op[p]) IN
  /\ \A f \in mem[p].writes : file[f] = o
  /\ \A r \in Scope[o] : row[r] = mem[p].after[r]

PrepareUndo(p) ==
  LET u == op[p]
      m == [manifest[u] EXCEPT !.state = "applying", !.writes = mem[p].writes,
                               !.before_rollback = Captured(PlanOf(u))]
  IN
  /\ pc[p] = "undo_check"
  /\ StillAsApplied(p)
  /\ backup' = [backup EXCEPT ![u] = Copied(mem[p].writes)]
  /\ WriteManifest(u, m)
  /\ todo' = [todo EXCEPT ![p] = mem[p].writes]
  /\ Goto(p, "undo_applying_row")
  /\ UNCHANGED <<file, row, journal, opRow, lock, op, mem, expected, pending, crashes>>

UndoRefused(p) ==
  /\ pc[p] = "undo_check"
  /\ ~ StillAsApplied(p)
  /\ Goto(p, "release")
  /\ UNCHANGED <<disk, lock, local, crashes>>

RecordUndoApplying(p) == Record(p, "undo_applying_row", "applying", "undo_files")

UndoFile(p, f) == PutFile(p, "undo_files", f, backup[PlanOf(op[p])][f])

UndoRows(p) ==
  PutRows(p, "undo_files", Restored(mem[p].before, PlanOf(op[p])), "undo_commit")

CommitUndo(p) ==
  /\ pc[p] = "undo_commit"
  /\ manifest' = [manifest EXCEPT ![op[p]].state = "applied"]
  /\ Goto(p, "undo_journal")
  /\ UNCHANGED <<file, row, backup, journal, opRow, lock, local, crashes>>

JournalUndo(p) == Journal(p, "undo_journal", op[p], "applied", "undo_applied_row")

RecordUndoApplied(p) == Record(p, "undo_applied_row", "applied", "undo_mark")

\* The original's manifest, as it was read before the lock, gets rolled_back_by.
MarkRolledBack(p) ==
  /\ pc[p] = "undo_mark"
  /\ WriteManifest(PlanOf(op[p]), [mem[p] EXCEPT !.rolled_back_by = op[p]])
  /\ Goto(p, "undo_mark_journal")
  /\ UNCHANGED <<file, row, backup, journal, opRow, lock, local, crashes>>

JournalRolledBack(p) ==
  Journal(p, "undo_mark_journal", PlanOf(op[p]), "rolled_back", "release")

UndoLabels == {"undo_applying_row", "undo_files", "undo_commit", "undo_journal",
               "undo_applied_row", "undo_mark", "undo_mark_journal"}

\* A write fails where there is no handler: the operations row before the try of
\* apply(), what its handler writes, or anything in rollback().  The lock is
\* released, and that is all.
RaiseUnguarded(p) ==
  /\ "raise_unguarded" \in Faults[p]
  /\ pc[p] \in UndoLabels \cup {"applying_row", "fail", "fail_journal", "fail_row"}
  /\ Goto(p, "release")
  /\ UNCHANGED <<disk, lock, local, crashes>>

(***************************************************************************)
(* recover_interrupted()                                                   *)
(***************************************************************************)

Manifests == {i \in Ids : manifest[i].state # "none"}

\* prepare_startup of the daemon: clear a stale writer lock, then recover.  A
\* live owner raises, and the daemon stays down.
Boot(p) ==
  /\ pc[p] = "boot"
  /\ ~ LockHeld
  /\ lock' = None
  /\ pending' = [pending EXCEPT ![p] = Manifests]
  /\ Goto(p, "scan")
  /\ UNCHANGED <<disk, op, mem, expected, todo, crashes>>

\* The recover command.
BeginRecover(p) ==
  /\ pc[p] = "idle"
  /\ p \in Recoverers
  /\ pending' = [pending EXCEPT ![p] = Manifests]
  /\ Goto(p, "scan")
  /\ UNCHANGED <<disk, lock, op, mem, expected, todo, crashes>>

\* Mutant: recovery looks for a state that no manifest has.
ScanMisspelt(p, i) ==
  /\ pc[p] = "scan"
  /\ i \in pending[p]
  /\ pending' = [pending EXCEPT ![p] = @ \ {i}]
  /\ UNCHANGED <<disk, lock, pc, op, mem, expected, todo, crashes>>

\* The next manifest in directory order (identifiers are random) is read without
\* the lock, and skipped unless it says "applying".
Scan(p, i) ==
  /\ pc[p] = "scan"
  /\ i \in pending[p]
  /\ pending' = [pending EXCEPT ![p] = @ \ {i}]
  /\ IF manifest[i].state = "applying"
       THEN /\ op' = [op EXCEPT ![p] = i]
            /\ mem' = [mem EXCEPT ![p] = manifest[i]]
            /\ Goto(p, "recover_acquire")
       ELSE UNCHANGED <<op, mem, pc>>
  /\ UNCHANGED <<disk, lock, expected, todo, crashes>>

ScanDone(p) ==
  /\ pc[p] = "scan"
  /\ pending[p] = {}
  /\ Goto(p, "idle")
  /\ UNCHANGED <<disk, lock, local, crashes>>

AcquireForRecovery(p) ==
  /\ pc[p] = "recover_acquire"
  /\ TakeLock(p)
  /\ todo' = [todo EXCEPT ![p] = mem[p].writes]
  /\ Goto(p, "recover_files")
  /\ UNCHANGED <<disk, op, mem, expected, pending, crashes>>

RecoverFile(p, f) == PutFile(p, "recover_files", f, backup[op[p]][f])

\* Mutant: recovery restores the files only.
RecoverRowsSkipped(p) == PutRows(p, "recover_files", row, "recover_manifest")

\* Only the key "before" is looked up; a rollback's manifest has none.
RecoverRows(p) ==
  PutRows(p, "recover_files",
          IF mem[p].before # None THEN Restored(mem[p].before, PlanOf(op[p])) ELSE row,
          "recover_manifest")

RecoverManifest(p) ==
  LET m == [mem[p] EXCEPT !.state = "recovered_rollback"] IN
  /\ pc[p] = "recover_manifest"
  /\ mem' = [mem EXCEPT ![p] = m]
  /\ WriteManifest(op[p], m)
  /\ Goto(p, "recover_journal")
  /\ UNCHANGED <<file, row, backup, journal, opRow, lock, op, expected, todo,
                 pending, crashes>>

JournalRecovered(p) ==
  Journal(p, "recover_journal", op[p], "recovered_rollback", "recover_row")

\* Mutant: a status that nothing else in the program knows.
RecordRecoveredMisnamed(p) == Record(p, "recover_row", "recovered", "recover_release")

\* An UPDATE: a row that was never inserted stays absent.
RecordRecovered(p) ==
  Record(p, "recover_row",
         IF opRow[op[p]] = "none" THEN "none" ELSE "recovered_rollback",
         "recover_release")

\* The lock is taken and released once per interrupted operation.
ReleaseRecovered(p) ==
  /\ pc[p] = "recover_release"
  /\ lock' = None
  /\ op' = [op EXCEPT ![p] = None]
  /\ mem' = [mem EXCEPT ![p] = NewManifest("none", None)]
  /\ Goto(p, "scan")
  /\ UNCHANGED <<disk, expected, todo, pending, crashes>>

RestoringLabels == {"recover_files", "recover_manifest", "recover_journal",
                    "recover_row", "recover_release"}

\* Recovery has no handler either: the lock is released and the call ends, with
\* the operation as far as it was restored.
RaiseInRecovery(p) ==
  /\ "raise_unguarded" \in Faults[p]
  /\ pc[p] \in RestoringLabels
  /\ lock' = None
  /\ Goto(p, Idle(p))
  /\ Forget(p)
  /\ UNCHANGED <<disk, crashes>>

(***************************************************************************)
(* Processes                                                               *)
(***************************************************************************)

\* A process dies wherever it is; the lock it held is stale from now on.
Crash(p) ==
  /\ crashes < MaxCrashes
  /\ pc[p] # "down"
  /\ IF pc[p] \in UndoLabels THEN "crash_in_undo" \in Faults[p] ELSE "crash" \in Faults[p]
  /\ crashes' = crashes + 1
  /\ lock' = IF lock = p THEN "stale" ELSE lock
  /\ Goto(p, "down")
  /\ Forget(p)
  /\ UNCHANGED disk

\* Another process of the same kind is started.
Restart(p) ==
  /\ pc[p] = "down"
  /\ Goto(p, Idle(p))
  /\ UNCHANGED <<disk, lock, local, crashes>>

\* The steps of a call once it has been made, up to its return.
ApplyStep(p) ==
  \/ RecordPlanned(p) \/ AcquireForApply(p) \/ Prepare(p) \/ PrepareRefused(p)
  \/ RecordApplying(p) \/ (\E f \in Files : WriteFile(p, f)) \/ MutateRows(p)
  \/ CommitManifest(p) \/ JournalApplied(p) \/ RecordApplied(p)
  \/ (\E f \in Files : RestoreFile(p, f)) \/ RestoreRows(p)
  \/ FailManifest(p) \/ JournalFailed(p) \/ RecordFailed(p)

UndoStep(p) ==
  \/ RecordUndoPlanned(p) \/ AcquireForUndo(p) \/ PrepareUndo(p) \/ UndoRefused(p)
  \/ RecordUndoApplying(p) \/ (\E f \in Files : UndoFile(p, f)) \/ UndoRows(p)
  \/ CommitUndo(p) \/ JournalUndo(p) \/ RecordUndoApplied(p)
  \/ MarkRolledBack(p) \/ JournalRolledBack(p)

RecoverStep(p) ==
  \/ Boot(p) \/ (\E i \in Ids : Scan(p, i)) \/ ScanDone(p) \/ AcquireForRecovery(p)
  \/ (\E f \in Files : RecoverFile(p, f)) \/ RecoverRows(p)
  \/ RecoverManifest(p) \/ JournalRecovered(p) \/ RecordRecovered(p)
  \/ ReleaseRecovered(p)

Step(p) == ApplyStep(p) \/ UndoStep(p) \/ RecoverStep(p) \/ Release(p) \/ AcquireRefused(p)

Call(p) ==
  \/ \E o \in Ops : BeginApply(p, o) \/ (\E u \in Undos : BeginUndo(p, u, o))
  \/ BeginRecover(p)

Fault(p) ==
  \/ Raise(p) \/ RaiseInRestore(p) \/ RaiseUnguarded(p) \/ RaiseInRecovery(p)
  \/ Crash(p)

Next == \E p \in Procs : Call(p) \/ Step(p) \/ Fault(p) \/ Restart(p)

Spec == Init /\ [][Next]_vars

\* A running process goes on with its call, and a dead daemon is started again.
FairSpec == Spec /\ \A p \in Procs : WF_vars(Step(p)) /\ WF_vars(Restart(p))
-----------------------------------------------------------------------------
Labels ==
  UndoLabels \cup
  {"boot", "idle", "down", "release",
   "plan_row", "acquire", "check", "applying_row", "write", "commit", "journal",
   "applied_row", "restore", "fail", "fail_journal", "fail_row",
   "undo_plan_row", "undo_acquire", "undo_check",
   "scan", "recover_acquire", "recover_files", "recover_manifest",
   "recover_journal", "recover_row", "recover_release"}

\* The values every variable takes.
TypeOK ==
  /\ file \in [Files -> Content]
  /\ row \in RowSnapshot
  /\ manifest \in [Ids -> Manifest]
  /\ backup \in [Ids -> [Files -> Content]]
  /\ journal \in [Ids -> {"none", "applied", "failed", "rolled_back", "recovered_rollback"}]
  /\ opRow \in [Ids -> {"none", "planned", "applying", "applied", "failed",
                        "recovered_rollback"}]
  /\ lock \in Procs \cup {"stale", None}
  /\ pc \in [Procs -> Labels]
  /\ op \in [Procs -> Ids \cup {None}]
  /\ mem \in [Procs -> Manifest]
  /\ expected \in [Procs -> [Files -> Content] \cup {None}]
  /\ todo \in [Procs -> SUBSET Files]
  /\ pending \in [Procs -> SUBSET Ids]
  /\ crashes \in Nat

Becomes(i, state) == manifest[i].state # state /\ manifest'[i].state = state

CommitOfWhole(o) ==
  Becomes(o, "applied") /\ manifest'[o].rolled_back_by = None =>
    /\ \A f \in WriteSet[o] : file[f] = o
    /\ \A r \in Scope[o] : row[r] = o

AbortOfWhole(o) ==
  Becomes(o, "failed") /\ ~ manifest'[o].rollback_error =>
    /\ \A f \in WriteSet[o] : file[f] = backup[o][f]
    /\ \A r \in Scope[o] : row[r] = manifest[o].before[r]

\* apply(): a manifest comes to say "applied" only when every file and every
\* declared row already has its new content; no prefix of an operation is ever
\* declared complete, whatever the other processes do.  (The step that adds
\* rolled_back_by to an older manifest declares nothing complete.)
CommitIsWhole == [][\A o \in Ops : CommitOfWhole(o)]_vars

\* apply(): a manifest says "failed", without a rollback_error, only when every
\* file and every declared row is back to what it was when the operation took its
\* copies.
AbortIsWhole == [][\A o \in Ops : AbortOfWhole(o)]_vars

\* _verify_preconditions under the lock: a write that carries an expected_hash
\* replaces exactly the content its plan was made against.
NoLostUpdate ==
  \A p \in Procs : pc[p] = "write" /\ op[p] \in Guarded =>
    \A f \in todo[p] : file[f] = expected[p][f]

\* rollback(): an operation is compensated once, although rolled_back_by is read
\* before the lock and written after everything else.
UndoneOnce ==
  \A u, v \in Undos :
    /\ manifest[u].state = "applied" /\ manifest[v].state = "applied"
    /\ manifest[u].undoes = manifest[v].undoes
    => u = v

\* A manifest left "applying" does not stay so: the process finishes or its
\* successor, a daemon, recovers it.
InterruptedResolved ==
  \A p \in Daemons, i \in Ids :
    op[p] = i /\ manifest[i].state = "applying" ~> manifest[i].state # "applying"

-----------------------------------------------------------------------------
(* The abstract store: an operation counts from the moment its manifest    *)
(* says "applied".  Until then its files and rows count as its copies say. *)

Applying(i) == manifest[i].state = "applying"

LogicalFile ==
  [f \in Files |->
     IF \E i \in Ids : Applying(i) /\ f \in manifest[i].writes
     THEN backup[CHOOSE i \in Ids : Applying(i) /\ f \in manifest[i].writes][f]
     ELSE file[f]]

CopiedRows(i) == IF i \in Ops THEN manifest[i].before ELSE manifest[i].before_rollback

LogicalRow ==
  [r \in Rows |->
     IF \E i \in Ids : Applying(i) /\ r \in Scope[PlanOf(i)]
     THEN CopiedRows(CHOOSE i \in Ids : Applying(i) /\ r \in Scope[PlanOf(i)])[r]
     ELSE row[r]]

LogicalStatus ==
  [o \in Ops |->
     IF \E u \in Undos : manifest[u].undoes = o /\ manifest[u].state = "applied"
     THEN "undone"
     ELSE IF manifest[o].state = "applied" THEN "applied" ELSE "open"]

LogicalPrior ==
  [o \in Ops |->
     IF LogicalStatus[o] = "open" THEN None
     ELSE [file |-> [f \in WriteSet[o] |-> backup[o][f]],
           row  |-> [r \in Scope[o] |-> manifest[o].before[r]]]]

Atomic == INSTANCE AtomicStore
            WITH file <- LogicalFile, row <- LogicalRow, status <- LogicalStatus,
                 prior <- LogicalPrior, NoPrior <- None

\* Files and rows of an operation change together: when nobody holds the lock and
\* no operation is left to recover, a file and a row that only occur together in
\* the plans both have an operation's content, or neither has.
Aligned ==
  lock = None /\ (\A i \in Ids : ~ Applying(i)) =>
    \A o \in Ops, f \in Files, r \in Rows :
      f \in WriteSet[o] /\ r \in Scope[o] => (file[f] = o <=> row[r] = o)
=============================================================================
