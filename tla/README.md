# Verification of the second-brain engine

TLA+ models of the engine in `src/src/second_brain/` (paths below are relative to
it), TLC runs over small instances of them, and theorems checked by TLAPS.

## 1. The system

The engine keeps a personal knowledge base as ordinary Markdown files (the
*vault*), a SQLite database with search and vector indexes that can be rebuilt,
and a directory `.brain/` with transaction manifests, copies, ledgers, locks and
logs. A background daemon, a command line and an MCP server run as separate
processes over the same files; the daemon has watcher threads of its own. No
server stands between them: exclusion is a lock file, atomicity is a manifest
plus copies plus SQLite transactions, memory across rebuilds is JSON ledgers.

### Inventory

| Component | State it keeps | Operations | Interacts with |
|---|---|---|---|
| Process lock (`locks.py`) | `writer.lock`, `daemon.lock` | `acquire`, release, `clear_if_stale` | transactions, daemon |
| Canonical transactions (`transactions/`) | vault files, declared SQLite rows, manifests, history copies, operations rows, one ledger file per operation | `apply`, `rollback`, `recover_interrupted` | lock; called by every canonical writer |
| Durable ledgers (`storage/durable.py`) | JSONL event files, resolution files | `append_jsonl_event` | review, gaps, projects, egress, rebuild |
| Review (`review/`) | `review_items` rows, staged notes, proposals, the Needs Review page | `stage`, `approve`, `reject`, `rollback` | transactions, resolution and project ledgers |
| Projects (`knowledge/projects.py`) | project and state rows, PROJECT.md, project events | `create`, `update_state`, `create_handoff` | transactions, review, ledgers |
| Knowledge gaps (`knowledge/gaps.py`, `verification/service.py`) | `questions` rows, gap ledger, the Unanswered Questions page | `record_unanswered`, `recheck`, `reopen`, `dismiss` | retrieval, ledgers, transactions |
| Rebuild and migration (`rebuild.py`, `migration.py`) | a fresh database, the archived one | `rebuild`, `migrate_phase2_runtime` | every ledger, raw evidence |
| Ingestion (`ingest/`) | Inbox, raw evidence, manifests, source records, `sources` and `processing_jobs` rows | `ingest_file`, `process_inbox`, watcher events | storage, compiler |
| Source permissions (`ingest/egress.py`) | sensitivity in row, manifest and record | `allow_cloud`, `local_only` | ingestion, compiler |
| Compiler (`knowledge/compiler.py`) | concepts, claims, decisions, questions, resolution files | `compile_source`, `retry_ai_work` | providers, transactions, review, gaps |
| Maintenance (`maintenance/`) | `maintenance_state.json`, heartbeat | `run_once`, `due`, `mark_success`, nightly, weekly, monthly | everything above |
| Structure (`knowledge/graph_materializer.py`, `maps.py`, `restructuring.py`) | generated blocks in notes, the maps, advisory review items, the audit | `materialize`, `generate`, `generate_proposals`, `write_audit` | transactions, review, and the users' own edits |
| Storage, retrieval, verification, parsers, providers, MCP, CLI, backup | SQLite itself, otherwise none of their own | queries and pure functions | used by all |

### What is hard about it

* *Two processes at once.* Reads happen before the writer lock is taken
  (manifests in `rollback` and `recover_interrupted`, rows in `recheck`, the
  pending items of the dashboards), and ledgers are appended with no lock at all.
* *Death between two writes.* Every operation is a list of durable writes in
  several media: Markdown files, SQLite, manifests, JSONL.
* *A write that fails* in the middle, with handlers around some places only.
* *Stale locks*: a lock file without a live owner must be taken away, and one
  with a live owner never; PIDs are reused; Windows pins open files.
* *Replay*: what a rebuild restores must be what was there.
* *Retries*: an approval, an ingestion or a compilation tried again.
* *Time*: a routine may fail, be cut short, or run past the end of its day, week or month.
* *People*: they edit the notes that every night rewrites, and take no lock.

### What makes each component correct

* Lock: no two holders; a dead owner never blocks for ever; every call ends.
* Transactions: an operation happens as a whole or not at all, a rollback puts
  back what the operation replaced, no guarded write replaces content its plan
  has not seen, what was interrupted is resolved.
* Ledgers: no event is lost or recorded twice.
* Review and projects: the item, its note, its operation, the resolution ledger,
  the project's history and the dashboard tell one story.
* Gaps: ledger, table and dashboard agree, and a rebuild brings gaps back.
* Ingestion: no evidence is lost, every preserved source is indexed once, a
  permission set by the owner stands.
* Compiler: what a source says is added once and overwrites nothing; a changed
  meaning is proposed, never stored; what is stored can be rebuilt; queued work is
  done in the end.
* Projects: rows, index, STATE.md and the event ledger tell one state; HANDOFF.md
  catches up with it.
* Maintenance: a missed or failed routine is made up for, none is skipped for nothing.
* Structure: what users wrote is kept; links show the knowledge there is in the end, the
  brief and the maps what they are to list of it; clusters are connected components; every
  finding is proposed, once.

## 2. The modules

| Module | Models | Atomic steps |
|---|---|---|
| `ProcessLock` | one lock file, `locks.py` | one file-system call |
| `WriterLock` | what the users of the lock rely on | one whole take, or give back |
| `AtomicStore` | what the transaction manager promises | one whole operation |
| `Transactions` | `manager.py`, `db_mutations.py`, `prepare_startup` | one durable write |
| `GapLifecycle` | `gaps.py`, and the parts of `verification/service.py`, `durable.py`, `migration.py`, `rebuild.py` about gaps | one SQLite transaction; an append is two steps |
| `ReviewFlow` | `review/service.py`, `ProjectService.update_state`, the project events | one operation of the transaction manager, one append |
| `Ingest` | `ingest/service.py`, `watcher.py`, `process_inbox`, the Inbox part of `run_once`, `egress.py` | one durable write |
| `Compiler` | `compiler.py`, `extractor.py`, `matcher.py`, `retry_ai_work`, the part of `rebuild.py` about concepts and decisions | one read, one operation of the transaction manager; the replay of one decision |
| `Projects` | `projects.py`, the project parts of `review/service.py` and `rebuild.py`, `refresh_handoffs` | one read, one operation of the transaction manager, one append |
| `Components` | what clusters of concepts are: the connected components of the relationships | |
| `Clusters` (extends `Components`) | the search for them, `restructuring.py:229-241` | one concept of the loop, one pop |
| `Structure` (extends `Components`) | `graph_materializer.py`, `maps.py`, `restructuring.py`, the bodies of `NightlyMaintenance.run` from the pages on, `WeeklyMaintenance.run`, `MonthlyMaintenance.run` | one read, one operation |
| `Maintenance` (extends `Structure`) | `scheduler.py`, `daemon.py`, the maintain commands of `cli.py` | one routine's beginning or end, one step of `Structure` |
| `MC...` | small instances for TLC | |
| `ProcessLockProofs`, `TransactionsProofs`, `GapLifecycleProofs`, `ReviewFlowProofs`, `IngestProofs`, `CompilerProofs`, `ProjectsProofs`, `MaintenanceProofs` | theorems | |

The modules form layers. `ProcessLock` shows how far the lock excludes;
`Transactions` takes the lock to do what its callers expect and shows how far an
operation is atomic. The two meet in `WriterLock`: the lock file implements it as long as nothing is
misjudged (`LockIsImplemented`), and the transaction manager uses the lock in no other way
(`LockIsUsed`). `ReviewFlow`, `GapLifecycle` and `Compiler` take operations to be atomic
(`AtomicStore` is the statement of that) and study what lies between them, and so do `Projects`
and `Structure`, which `Maintenance` puts under the daemon's clock.
`Ingest` stands beside them: the code takes no lock and uses no operation there.

### ProcessLock

`path` is the lock file, with its metadata or, between `os.open` and `os.write`,
without (`published`). `pc` follows each thread through `acquire`:
`Acquire`, `Create` or `Blocked`, `Stat`/`Inspect`/`Replace` (`clear_if_stale`:
look for the file, read and judge it, rename away whatever is at the path by
then), one more `Create`, `Publish`, the body, `Leave`/`VerifyToken`/`Unlink`.
Threads of one process share a PID and die together (`Crash`, `Restart`);
`started` is the start time that tells a reused PID from its former user.
`pins`, chosen at the start from `Platforms`, is the difference between Windows and
POSIX: whether an open file can be neither renamed nor unlinked. The legacy `key=value` lock format is a file that has
metadata or has none. The "stale lock" ledger event that `clear_if_stale`
appends is left out: nothing reads it.

### Transactions

The disk is `file`, `row`, `manifest`, `backup`, `journal` (the per-operation
ledger), `opRow` (the operations table) and `lock`; each process has its place
`pc`, the manifest in its memory `mem`, the contents its plan expects and the
files it still has to write. A content is named by the operation that wrote it,
which is all that hashes tell apart; a missing file is one more content. Files of
one operation are written in any order (the code's order is the plan's).
`BeginApply` … `RecordApplied` is `apply`, `Raise` … `RecordFailed` its handler,
`BeginUndo` … `JournalRolledBack` is `rollback`, `Scan` … `ReleaseRecovered` is
`recover_interrupted`. `Faults` selects what may go wrong in which process: a crash outside or
inside `rollback`, a failing write inside the `try`, after the `applied` manifest,
in the restoring of the handler, or where there is no handler: the handler's own records, `rollback`
and recovery. A restore that raises ends the restoring, and the manifest says `failed` all the same, with
`rollback_error` (`RaiseInRestore`, `FailManifest`). Two processes applying the *same* operation identifier
are excluded here (no caller shares one, but an approval does: `ReviewFlow`
covers that case). Path policy (`_resolve_target`) is left out.

`WriterLock` has one user at most, who is inside the `with` statement or on the way in or out, and gives
the lock back or leaves it behind; what was left behind may be cleared. A thread of `ProcessLock`
is a user from a successful create to the unlink; a process of `Transactions` is
one while `lock` names it.

`AtomicStore` has two actions, `Commit` and `Undo`. The refinement mapping reads
the concrete disk as a store: a file or row that an operation with an `applying`
manifest may have overwritten counts as its copy says, until the manifest says
`applied`. The mapping is of the daemon, who recovers before it works; that is why
`ImplementsAtomicStore` is stated in `MCTransactions`, of behaviours of the daemon.

### GapLifecycle

`status` is the questions table, `ledger` is `knowledge-gaps.jsonl`, `dashboard`
the page, `archived` the database a rebuild moves away, `origin` how a question
came up (extracted ones are in the resolution ledger of their source, too).
`Transition` is `_transition`: it compares and writes from the row fetched
earlier. `ReadLedger`/`ReplaceLedger` is `append_jsonl_event`. `List`/`Hash`/
`Refresh` is `refresh_dashboards`, whose expected hash is taken after the rows
were read. `BeginRebuild` … `Replay` is the migration of rows without events, the
archiving of the database, and the replay. What retrieval finds, and whether it verifies, is left open.
`recheck` looks at the rows that it has fetched one after the other. For a row with evidence it ends in one of three ways:
`Resolve`; `Unresolved`, if there is an answer that matches the question badly; or `Refuse`:
`answer_from_hits` records its own refusal as a new open question, with a row, an event and a refresh of the
dashboard, after which `recheck` goes on (`back`) or ends, if the refresh is refused.
`mode` is the kind of a behaviour: in `alone` a call starts when no other is under way
and no process dies; in `beside` anything may happen, and the properties that speak
of calls one after the other say nothing of it.

### ReviewFlow

`item`, `note` and `dashboard` are the three views of an item; `proposal` is the
content its plan was made against, `manifest` and `file` the operation and its
target, `resolution` the resolution ledger that all items of one source share,
`events` the project ledger. One `call` record per process holds what the call
has read so far. The places in a call are those between two operations:
`approve` is resolution (read, then hash), verify, plan, apply, event, list,
hash, persist; `reject` and `rollback` are parts of the same chain. An operation
may be refused because another process holds the writer lock (`Contended`).
Changes of a project that need no review (`Updates`) run beside. In `MCReviewFlow`
the variable `alone` says of which kind a behaviour is: calls one after the other
without a death, or calls that overlap and die anywhere; `DecisionIsTruth` speaks of the
first kind.

### Ingest

The Inbox is `inbox`, a content at each path; the evidence is `raw`, `manifest` and
`record`; the database is `row` (the `sources` table), `index` (which of a source's
texts can be searched) and `waiting` (the sources with a job in state `NEEDS_AI`,
which is all that the nightly retry reads of `processing_jobs`). A content stands
for its bytes, its SHA-256 and the identifier made of it. `pc`, `on` and `got` follow
each call of `ingest_file`: `Hash`, `Lookup` (`source_by_hash`), `Preserve`, `Stat`,
`WriteManifest`, `WriteRecord`, `ClearInbox`, `Expose` (the row appears), `Extract`,
`UpsertExtracted`, `ReplaceSegments`, `UpsertFinal`, `FinishJob`, and the second
round of manifest, record and clearing. A path without a parser takes the short
way. `Raise` is any exception in the `try` and goes to the handler (`Fail`), which
marks row and job. Callers are the watcher's threads, the daemon's main thread with
its listing `todo`, and commands; the daemon's threads die together, by a kill or
because a listed file has gone (`ListedFileGone`). `ChangeRow`, `ChangeManifest` and
`ChangeRecord` are the three writes of `_set_permission`. `cut` remembers which
sources a death left half done: the properties about settled sources leave those
out, because nothing in the code finishes them. `Orderly` says that people leave
alone a path, and the permission of a source, that a call is working on. Of the
sensitivities, the two that the owner can set are modelled; the two that refuse
`allow_cloud` behave in a call as `local_only` does.

### Compiler

A provider finds one concept, one decision and one question in a source's text; `Topic`,
`Meaning` and `Names` say which answers share a title, mean the same, and replace whose decision. Which
provider is `configured` (with its model) is read when a process starts, and the user may have changed it
since (`Reads`); a call asks the one it has read (`by`). The cache has an answer for each
source and provider (`Cached`), as its key does, and `Permits` says which providers a
source may be sent to (`EgressBlocked`).
A decision stands for claims and entities too (rows that are replaced under the
identifier of the extraction), a question for conflicts, relationships, open loops and
project candidates (rows under a new identifier each time). Identifiers are made
when a provider answers: `Id` is a source and the provider, which is asked about it once. `status`,
`record`, `job`, `cache`, `ledger`, `decision`, `note`, `concept`, `asked` and
`proposals` are the rows, notes and files; the knowledge notes of entities and claims
follow their rows. `call` holds for each process what it has read: `todo` is the rest
of the night's list, `on` the source in hand, `text` the extraction, `same` and
`proposal` what the matcher found, `ledger`, `record` and `read` what the plan rests
on. `LookUp`, `Ask`, `Match` (the row), `HashNote` (its note), `Plan`, `Apply`, `Stage` are the stretches of
`compile_source` between its reads and its two operations; `NeedsAi` is a provider
that is away, or none; `ApplyRefused` a changed hash or a held lock; `Raise` an
exception or a death, which ends the whole night. `BeginNight` is `retry_ai_work`, of
one daemon; `BeginCommand` the call after a command's ingestion. `Approve` and
`Reject` are the review of `ReviewFlow`, in one step. `BeginRebuild` archives the
database and restores sources, concepts and questions; `ReplayDecision` is the loop
over decisions, which fails if none can be inserted (`RebuildFails`). In `mode` `alone` calls follow each other and a rebuild is one of
them; in `beside` compilations overlap. Foreign keys are not modelled, nor is
the recheck of gaps at the end (`GapLifecycle`), nor the rollback of a compile operation: it would put
the predecessor's row and note back as they were, and nothing in `src/second_brain` calls it
(`tests/test_phase25_decision_supersession.py:107` does).

A rebuild leaves `proposals` as they are: the rows of review items do not survive it
(see the limits), but their notes and stored plans do, and no property relates the two.

### Projects

A state is named by the change that brings it: `created`, an ambiguous change (`Items`),
or another (`Updates`). `rows`, `index`, `state_md`, `handoff` and `ledger` are the five
places that hold it; `proposal` is what the plan of a change expects of the files,
`before` what its operation has captured of rows, index and files, `applied` the
operations that can be rolled back. `call` holds what the command and the daemon are
doing. `BeginCreate` and `BeginUpdate` are `create` and `update_state` up to the
operation; `Apply`, `Undo`, `Stage`, `Persist` and `Refresh` are operations, of which
each is refused if its preconditions do not hold (`Refused`, `RefreshRefused`) or
another holds the lock (`Contended`); `AppendEvent` is the append afterwards, with
`AppliedEvent` or `CompensatingEvent`. `ReadState`, `HashHandoff`, `Refresh` is
`create_handoff`, which reads the row before it hashes the file. A handoff carries the
time at which it was rendered, so that two of one state are different files: `Stamps`
are these times, of which a fresh one is always later than those in use. `Rebuild`
replays the ledger, or STATE.md without one. `cut` is history: a process died between
an operation and its event.

### Structure

`known` and `rels` are the rows of concepts and relationships, which approvals bring and
rollbacks take away (`AddConcept`, `RemoveConcept`); `note` is for each object its
note, with a counter for the user's text and the links in the generated block; `home`
and `map` are the concepts that the night's brief and a map list; `pending` the
restructuring items. `pass` is what a caller is doing and has read. The nightly run is
`ReadPages`, `WritePages`, `ReadGraph` (`_refs`, `_edges`), `ReadNotes`, `HashNotes`,
`Link`, `PlanMaps`, `Draw`; the weekly one `Analyze`, `Choose` and `Stage` for each
finding, `WriteAudit`, `WriteBrief`. The code reads and hashes one note after the
other; here all are read and then all hashed, which is longer a window for each.
A brief lists the `BriefSize` concepts updated last: when a concept is updated is left out, so that any so many may
be them (`Briefs`). A map, which stands for the five, lists the best `MapSize` of the
concepts related to it by a keyword or a retrieval, and of all concepts `Fallback` if none is (`Mapped`);
who is related (`Related`) and their order (`Rank`) are constants.
`Contended` is the operation of another process that holds the lock, `Fails` any other
exception. `Save` is a user. Before the pages, a nightly run ingests, compiles and
refreshes handoffs and dashboards: those are `Ingest`, `Compiler`, `Projects`,
`GapLifecycle`, `ReviewFlow`, and here one place (`read`) where a run may fail.
Findings are those of `analyze` about concepts and relationships; those about projects,
states, queries and questions are a constant (`Standing`). Clusters are connected components here
(`ConceptClusters`), and `Clusters` shows that the search finds them. `First` is the order of
types; within a type the order is that of a hash.

### Clusters

`analyze` goes through the concepts (`todo`) and starts a search from each that no earlier one has `visited`
(`StartSearch`, `SkipConcept`). A search pops the top of `frontier`, skips it if it has been
visited since it was pushed (`PopVisited`), or marks and lists it and pushes its neighbours that are not visited
(`Visit`), a second time, it may be. `component` is the list of the search under way, `clusters`
those that have ended. The loop and the pushes are in the order of identifiers, which are random:
any order is taken.

### Maintenance

`mark` is `maintenance_state.json`, where a time is compared with the current day, week or
month only: `never`, `past` or `current`. `NewDay` ends a day at any moment, and with it
perhaps the week and the month. `StartDaemon`, `ProcessInbox`, `FindDue`, `BeginRoutine`,
`FinishRoutine` are the loop, `DaemonEnds` its end for whatever reason; `due` is found
once for all. `BeginCommand` and `EndCommand` are the maintain commands, which may be
killed and mark nothing. `late` are the callers whose routine began in an earlier period,
`brief` the briefs of the current period, `overrun` those routines whose mark comes from a
run that began before the period did.

## 3. The runs

All runs finish exhaustively; none uses a state constraint. Bounds are constants
of the modules and guards of the actions; where a run holds behaviours of several
kinds, the MC module says in its next-state relation what each kind leaves out.

| Run | Instance | Shows |
|---|---|---|
| `lock_platforms` | 3 threads in 2 processes, 2 starts per PID, open files free and open files pinned | exclusion up to misjudgement, no judged file in use, every call ends; where files are free also: a dead owner's lock is cleared |
| `lock_exclusion` | 2 processes, 1 start, pinned | **violated**: two holders without any crash |
| `transactions` | 1 daemon that recovers at start, 1 rollback, 2 crashes, failing writes inside the `try`; or 2 commands, 2 rollbacks, failing writes; or 1 command that may be told to recover, 1 operation, no rollback, failing writes everywhere, while restoring and recovering too; 2 operations that share a file and a row | the daemon implements `AtomicStore` and resolves what was interrupted; all: no lost update, one compensation per operation, what is declared applied, or failed and restored, is so as a whole |
| `tx_undo_crash` | 1 daemon, crash inside rollback | **violated**: files and rows part |
| `gaps_calls` | 2 processes, 2 questions of several histories, each of which a refusal may open; 4 calls one after the other, or 2 that overlap and die anywhere | alone: a rebuild brings every gap back; beside: no migrated event twice |
| `gaps_append_race` | 2 processes, 2 questions | **violated**: an event is lost |
| `review` | one call after the other about 2 items (one about a project) and 1 update; or 2 processes, 2 items of one source, crashes anywhere | item, operation, resolution and dashboard agree; rollback restores, no event twice |
| `ingest_daemon` | the loop and 1 watcher thread, 3 paths (a text at two of them under one name, a file without a parser), 2 drops, 1 exception or death, 1 permission change | no evidence lost; a settled source is searchable and rebuildable; a file left in the Inbox is preserved in the end |
| `compiler_nightly` | 1 daemon, 1 command, 2 queued sources and an ingested one, 2 providers, one of which may be sent one of the sources only, 1 change of provider, 3 titles, decisions that replace each other in a chain or a fork, 1 exception, death or absent provider, 1 rebuild; one after the other, and overlapping | one concept for a title, meanings change by review only, notes = rows, what one provider said of each source is rebuilt in order; what is queued and may be sent is proposed |
| `compiler_retried` | 1 queued source whose decision an ingested one replaces, no fault, nothing overlaps | **violated**: a superseded decision is active again |
| `projects` | 1 command at a time and the nightly refresh, 2 ambiguous changes and 1 other, 2 planned, 1 death, rebuilds | rows, index, STATE.md and ledger tell one state; the handoff catches up |
| `maintenance` | the daemon and 1 command; 3 concepts, 1 source, 3 relationships; 3 changes, 1 rejection, 1 failure, 1 end of the daemon; nightly only, weekly only, or all routines; or the search alone, over 512 graphs of 4 concepts and 1 other object | the schedule, users' text, links, brief and maps, clusters, proposals |

Why the bounds are enough to meet the interesting cases: two processes are what a
race needs; two operations that share one file and one row, each with one of its
own, give every overlap of write sets; two crashes interrupt a recovery that
follows a crash; two starts let a PID be reused while a cleaner still judges
its first user; two drops of one content let two calls meet at every pair of
their steps, at one path and at two; four calls reach open → candidate → resolved → reopened →
rebuild; three sources are the fewest in which decisions form a chain and a fork while
two of them share a title; two planned changes of a project are approved, rolled back and
rebuilt in each order; three concepts make a cluster that no single relationship
joins, one of them with a title of its own; a limit of one proposal for each run makes every
finding but the first wait; brief and maps have room for one concept, so that what is listed differs
from what is known; two questions let a recheck have one and a refusal
open the other (their number bounds the refusals); four concepts, any two of which are joined or not, make
every graph of four, whose searches start anywhere and push in any order, with a loop, a relationship
back and an end that is no concept besides. `maintenance` asks four questions of four configurations:
nightly only, with a command and edits, for links and maps; weekly only, with rejections and
failures, for proposals; all routines, with ends of the daemon and a quiet vault, for the
schedule; none, for the search. Every action and every disjunct of `Next` fires in some passing run, and
for each property of each passing run there is a mutant of the code (in the
modules, marked `Mutant`) that the same run finds violating it.

### The properties, and what would break them

* `ExclusiveUnlessMisjudged`, `JudgedFileNotInUse`: two holders exist only after
  an `os.replace` took away a file in use, and that never is the very file that
  was read with its metadata in place. (Broken by a non-exclusive create, or by
  comparing start times the wrong way round.)
* `AcquireEnds`, `DeadOwnerCleared`: one retry only, identity by PID *and* start time.
* `ImplementsAtomicStore`: every order of writes, failures, crashes and recoveries
  looks like whole operations. (Broken by a recovery that skips the rows, or by a
  lock that is not waited for.)
* `CommitIsWhole`, `AbortIsWhole`, `NoLostUpdate`, `UndoneOnce`,
  `InterruptedResolved`: the parts of it that still hold under faults beyond the atomic
  store's. `AbortIsWhole` excepts what the code admits: a manifest with `rollback_error`.
* `RebuildPreserves` (gaps), of calls one after the other: ledger and table agree after
  any calls, or a rebuild would change a gap, one that a refusal opened inside a recheck too; `MigratedOnce`, of all.
* `DecisionIsTruth`, `RollbackRestores`, `AppliedEventOnce` (review). (Broken by a
  resolution entry that is left, by an operation that is not verified, by an event that
  is not looked for.)
* `EvidenceKept`: a file leaves the Inbox only when copy, manifest and record
  exist, whichever of several calls removes it. (Broken by clearing before the
  manifest and the record are written.)
* `SettledIsSearchable`, `RebuildKeepsSource`: two calls on one
  content overwrite each other's rows, manifests, records and index entries in any
  order, and yet agree once both are done. (Broken by a record that is not indexed
  again after `replace_segments`, by a manifest that is not written again.)
* `EventuallyPreserved`: what is dropped is preserved although events are missed,
  calls fail and the daemon dies. (Broken by a duplicate test that looks at the raw
  store.)
* `OneConcept`, `MeaningReviewed`: matcher, plan and operation agree although other
  compilations and reviews come in between. (Broken by a matcher that takes another
  meaning for another concept, by an operation that stores the update.)
* `RebuildPreserves` (compiler): a ledger written once answers for rows that are written
  every night, the order of replay is that of supersession, and none is missing at the
  end, if one provider has answered about each source. (Broken by a replay in the order of the files.)
* `NoteShowsRow` (compiler): two compilations may replace one decision, and die
  anywhere.
* `EventuallyProposed`: a night that fails, or a death between the operation and its
  proposal, is made up for by a later night, of sources that may be sent to any provider that is
  configured. (Broken by proposals of the first compilation only.)
* `StateAgrees` (projects): five places written at four moments tell one state after any
  order of approvals, updates, rollbacks, refusals and rebuilds. (Broken by a
  compensating event that names another state than the one put back.)
* `HandoffCatchesUp`: a refresh may write a state that it read before the last change;
  a later night mends it. (Broken by a refresh that takes another row than the active one.)
* `SkippedOnlyByOverrun`, `RoutineMadeUp`: a mark stands for a finished routine. (Broken by
  marking after a failure, by a routine that is due once only.)
* `UserTextKept`: a nightly run replaces whole notes and yet keeps what users saved since,
  but for one moment. (Broken by an operation that does not look at the hash.)
* `GraphCatchesUp`: two passes at once, conflicts, failures and removals do not leave a note
  with the links of the past, nor a brief or a map with a list of the past. (Broken by links on one
  side only.)
* `ClustersAreComponents`: the search by hand against connectedness. A concept is pushed once for each neighbour
  that is visited before it; a cluster's size is that of the list. (Broken by a search that lists
  what it pops, visited or not.)
* `EveryFindingProposed`: the limit and the order of types starve no finding. (Broken by a
  run that stages what is pending.)

### Where the code and its documents part

* `lock_exclusion`: `docs/SECURITY.md` says live owners are protected. A lock file
  that is still empty counts as having no owner, and `os.replace` takes whatever
  is at the path: with two contenders two threads hold the lock.
* `tx_undo_crash`: `docs/TRANSACTION_RECOVERY.md` says recovery leaves Markdown and
  SQLite aligned. `rollback` records its row snapshot under `before_rollback`;
  recovery looks up `before` and so restores the files of an interrupted rollback
  and not its rows.
* `gaps_append_race`: `docs/BRAIN_STATE.md` calls the histories append-only. Two
  concurrent appends keep one event.
* `compiler_retried`: `docs/DATA_MODEL.md` says a predecessor is marked superseded and
  not silently overwritten. The retry compiles every source that has ever had a job in
  state `NEEDS_AI`, every night, because nothing changes the job; each time the source's
  decision replaces its row and note as it was extracted, `active`, whatever has superseded
  it since.

### Limits met while modelling, for which no run is kept

They follow from the same models by other instances, and bound what the passing
runs may be read to say.

* An exception after the `applied` manifest makes `apply` restore under it; a crash
  before `failed` is written leaves a half-restored operation that recovery skips
  (`Faults = {"raise_late", "crash"}` breaks `Aligned`). A restore that fails
  itself leaves a half-restored operation declared `failed`, which recovery never looks at again. Tried again under
  its identifier, it copies what it left as the state before; a rollback of it then changes
  nothing, and can be done twice (the run has no rollback beside such failures).
* `recover_interrupted` acts on the manifest it read before the lock: run beside a
  live writer it reverts an operation that has completed since.
* A command that clears a stale writer lock does not recover first; recovery later
  restores interrupted operations in the order of their random identifiers.
* `recheck` moves a gap that another process dismissed after its row was fetched.
* Every refusal inside `recheck` adds a question with the text of the one it was looking at, and
  the next recheck looks at both.
* A crash between a gap's row and its event, or between the two events of a
  migrated gap, makes the next rebuild restore an older state.
* An approval that dies after its operation leaves the item pending: it can be
  rejected with its content in place, or, if the target did not exist before,
  approved again with its own content as the state to restore.
* A dashboard lists rows read before the expected hash is taken: a page written in
  between is replaced by an older list.
* Project events are appended after the operation, outside its lock: two commands at once
  may append in the other order, and a death in between loses the event (`cut`).
* Items of one source share a resolution ledger whose exact content a rollback
  demands: a later decision on the source makes an earlier approval irreversible.
* On Windows a reader that has the lock file open makes `release` leave it behind,
  for as long as the process lives.
* The second of two calls on one file fails at `path.stat()` once the first has
  cleared it, and marks the source, which the first completes or has completed,
  `FAILED`; manifest and record go on saying otherwise.
* A source whose ingestion failed or died after its row appeared is `DUPLICATE` when
  it is dropped again: it stays as it is, unparsed, and a rebuild keeps it so (it restores rows and no
  processing jobs); and the file stays in the Inbox.
* A permission that the owner changes while a call works on the source is
  overwritten by the call's next `upsert_source` or manifest.
* One content dropped at two paths of different lanes, or with suffixes of which one
  has no parser, and ingested by two calls at once, may end with a row from one and a
  manifest from the other.
* `_clear_inbox_copy_if_safe` unlinks what is at the Inbox path, not what it has copied:
  a file saved over its predecessor while a call works on it is gone without a copy
  (`Orderly = FALSE` breaks `EvidenceKept`), and the second clearing, after parsing,
  keeps that window open as long as parsing takes.
* Every night adds new rows of questions, open loops, conflicts, relationships and project candidates for
  the sources it compiles again, and stages their proposals again, rejected ones too.
* After a recompilation the statuses of superseded decisions differ from what a rebuild
  restores (`RebuildPreserves` of `Compiler` speaks of sources compiled once); a decision
  that two others replace may name another `superseded_by` after a rebuild.
* Claims are replayed in the order of the ledgers' names, with foreign keys on: a claim whose
  ledger comes before that of the claim it supersedes makes the rebuild fail.
* A rebuild restores neither jobs nor cached answers: what was queued is not retried any more.
* Two compilations that overlap may create two concepts of one title
  (`OneConcept` without `mode = "alone"`), which no passing run reaches; a nightly command beside the daemon may
  ask twice about one source, and store a decision under an identifier that its ledger lacks.
* Sources that a watcher or the daemon's loop ingests while a provider is configured are
  `CLASSIFIED` and have no job to retry: only commands compile what they ingest.
* After a change of provider every queued source that may be sent to it is asked about again: its concepts are matched
  once more, under its title a new one may be made, and its claims, entities and decisions are added
  to those of the first answer, under identifiers of their own. Their rows and notes are stored; the
  resolution ledger exists and is not written again (`compiler.py:439`). A rebuild restores decisions from the
  ledgers only, and so loses them (`RebuildPreserves` without `OneAnswer` fails), against
  `docs/REBUILD_GUARANTEES.md`.
* An exception about one source ends the night, and comes back the next night before the
  sources listed after it.
* A provider that is away makes the row of a source compiled before `NEEDS_AI`; its
  record says `COMPLETE`.
* A file that is still being written when it is found is ingested as it is; in `Ingest` files are
  whole when they appear.
* The daemon's loop ends the daemon when a file of its listing has been cleared by
  a watcher thread meanwhile (`FileNotFoundError` from `ingest`).
* Every night rewrites HANDOFF.md with the time, so that a state change still pending
  cannot be approved after a night, nor an applied one rolled back; and it rewrites the
  blocks of concept notes, so that a later rollback of an approved concept conflicts.
* `create_handoff` reads the row, which has no `last_completed`: after a night the handoff
  says `_None recorded._`. The text that the search finds has two lines less after an
  approval than after an update or a rebuild.
* After an approval, its rollback and a rebuild the history has a row for each of the two;
  before the rebuild it had neither. A rebuild also sets back `updated_at` of projects.
* A rebuild restores no review item: the notes stay, the items cannot be decided any more
  (`docs/BRAIN_STATE.md:3` counts review history among what is durable).
* A user's save between the moment when the materializer reads a note (line 81) and the
  moment when it hashes it (line 88) is written over (`UserTextKept` excepts it).
* A note that loses its last relationship keeps its generated block: only notes with
  a relationship are rendered (`GraphCatchesUp` speaks of those).
* A routine that ends in the next period marks that period, whose brief is then skipped
  (`overrun`). What is due is found once, so that a long night makes the weekly run begin in the week
  after the one in which it was due.
* `maintain` commands mark nothing: the daemon runs the routine once more.
* A finding that a reviewer rejects comes back in the next week, before later ones; five
  of them, rejected every week, keep all others waiting (`MaxRejections`). The signature holds the
  numbers of the summary, so that a growing cluster gets an item for each size. Two weekly runs
  at once may stage one finding twice.

## 4. Fairness

Safety runs use `Spec`, without fairness. `ProcessLock!FairSpec` assumes that a
thread goes on with a call it has made, that protected sections end, that callers
keep asking and that a dead process is started again. `Transactions!FairSpec` assumes that a running
process goes on with its call and a dead daemon is started again.
`Ingest!FairSpec` assumes that a running call goes on, that the daemon's loop comes
round and that a daemon that ended is started again; nothing is assumed of watcher
events, commands, the owner, or people. `Compiler!FairSpec` assumes that a
compilation or replay goes on and that the daemon's night comes round; nothing of
commands, reviews or rebuilds. `Projects!FairSpec` assumes that the daemon's night comes
round and goes on, and that there is always a later time to stamp; nothing of commands.
`Maintenance!FairSpec` assumes that time passes, that the loop and a command's steps go on, and that a
daemon that has ended is started again.

That a dead process is started again is an assumption about the environment in all of them, not something the
repository provides: `scripts/setup_windows.ps1:52-66` registers, if asked to, a task that starts the daemon when
the user logs on, and nothing that restarts it on failure; `docs/OPERATIONS.md:45` says what the scheduler
recognizes after a restart, and not who restarts. Read liveness as: if somebody starts the daemon again.

Weak fairness is enough in all six: nothing in the code waits, so an enabled step of a process stays
enabled until it is taken or the process dies.

## 5. The proofs

| Theorem | Says | By |
|---|---|---|
| `ProcessLockProofs!TypeCorrect` | types | inductive |
| `ProcessLockProofs!ExclusionUpToMisjudgement` | `ExclusiveUnlessMisjudged`, for any number of threads, PIDs, restarts | `LockInv` |
| `ProcessLockProofs!WhatWasReadIsNotInUse` | `JudgedFileNotInUse`, for any number of threads, PIDs, restarts | `JudgedInv` |
| `ProcessLockProofs!LockIsImplemented` | `ProcessLock` implements `WriterLock`, for any number of threads, PIDs, restarts, as long as nothing is misjudged | `LockInv` |
| `TransactionsProofs!TypeCorrect` | types, every fault | `TxInv` |
| `TransactionsProofs!NoUpdateIsLost` | `NoLostUpdate` | `TxInv` |
| `TransactionsProofs!CommitsAreWhole`, `AbortsAreWhole` | the action properties, every fault; the second unless the manifest notes that the restoring failed | `TxInv` |
| `TransactionsProofs!LockIsUsed` | `Transactions` implements `WriterLock`, every fault | `TxInv` |
| `TransactionsProofs!NothingWithoutLock` | files, rows and copies change only by a step of the lock's owner, every fault | `TxInv` |
| `TransactionsProofs!DaemonIsAtomic` | `ImplementsAtomicStore`: the refinement of `AtomicStore`, if the daemon dies outside `rollback` only | `AtomicInv`, `StoreInv` |
| `TransactionsProofs!TransactionsAreAtomic` | `Spec => Atomic!Spec`, for one such daemon or any number of commands | `AtomicInv`, `StoreInv` |
| `TransactionsProofs!FilesAreAtomic` | the files implement `AtomicStore`, of the same and of a daemon that dies inside `rollback` too | `AtomicInv`, `StoreInv` |
| `TransactionsProofs!UndoneAtMostOnce` | `UndoneOnce`, of the same, if every operation writes a file, or if the daemon dies outside `rollback` only and every operation writes something | itself, with those |
| `TransactionsProofs!InterruptedIsHandled` | nothing that a death leaves half done is forgotten, of the same | `AtomicInv` |
| `TransactionsProofs!PartnersAreAligned` | `Aligned`, if nothing dies inside `rollback` and every plan names a file and its row together | `PairInv`, with those |
| `GapLifecycleProofs!TypeCorrect` | types | `Inv` |
| `GapLifecycleProofs!MigratedAtMostOnce` | `MigratedOnce`, for any number of processes, deaths included | `OnceInv` |
| `GapLifecycleProofs!RebuildKeepsGaps` | `RebuildPreserves`, for ledgers of any length, refusals inside a recheck included | `UpInv`, `AloneInv` |
| `GapLifecycleProofs!NothingLostAlone` | calls one after the other only append to the ledger | `AloneInv` |
| `ReviewFlowProofs!Types` | types; no call reaches a place its kind has no status for | `TypeInv` |
| `ReviewFlowProofs!NotesShowRows` | `NoteShowsRow` | itself inductive |
| `ReviewFlowProofs!RollbacksRestore` | `RollbackRestores`, if every file existed | `RollbackInv` |
| `ReviewFlowProofs!EventsOnce` | `AppliedEventOnce` | itself, with types |
| `ReviewFlowProofs!DecisionsAgreeAlone` | decision, operation, ledger and dashboard agree between calls, for any number of items and files, if calls follow each other and none dies | `CalmInv` |
| `ReviewFlowProofs!DecisionsAreTrue` | `DecisionIsTruth`, of the instance in `MCReviewFlow` | `CalmInv` |
| `IngestProofs!Types` | types; a caller has a digest exactly while past hashing | inductive |
| `IngestProofs!EvidenceIsKept` | `EvidenceKept`, if people leave a path alone while a call works on it | `EvidenceInv` |
| `IngestProofs!SettledSourcesAreSearchable` | `SettledIsSearchable`, if also the files of one content agree on lane and parser | `SettledInv` |
| `IngestProofs!RebuildKeepsSettledSources` | `RebuildKeepsSource`, of the same | `SettledInv` |
| `CompilerProofs!Types` | types | inductive |
| `ProjectsProofs!Types` | types | `TypeInv` |
| `ProjectsProofs!StateAgreement` | `StateAgrees`, for any number of changes and plans | `AgreeInv`, with `HandoffInv`, `OnceInv` |
| `CompilerProofs!CompiledIsRestorable`, `NotesShowRows` | `Restorable` (a source that one provider has answered about is in its ledger), `NoteShowsRow` | `KeepInv` |
| `CompilerProofs!OneTitleOneConcept`, `MeaningsAreReviewed` | `OneConcept`, `MeaningReviewed` | `MatchInv`, with `KeepInv` |
| `CompilerProofs!RebuildRestores` | `RebuildPreserves`, for any number of sources and chains of any length, one provider's answer for each source | `GraphInv`, with `KeepInv` |
| `MaintenanceProofs!TypeCorrect` | types; the daemon has a pass just while its loop waits for it | `Inv` |
| `MaintenanceProofs!BriefNotSkipped` | `SkippedOnlyByOverrun` | `BriefsOK`, with `PlacesOK`, `DaemonOK` |
| `MaintenanceProofs!SavedTextStays` | `UserTextKept`, for any number of notes and callers | `ReadsOK`, with `NotesOK` |
| `MaintenanceProofs!SearchFindsComponents` | `ClustersAreComponents`, for any finite set of concepts, any relationships and orders | `SearchInv` |

Assumptions are those named in the modules (`PlanAssumption`, `NameAssumption`,
`ChangeAssumption`, …): constants have their types and names are distinct. Sets
need not be finite, but for the concepts of `Clusters` (`ConceptAssumption`).

*The lock.* Exclusion is not inductive: `LockInv` adds that every thread between
create and unlink is the owner of the file at the path, as long as no cleaner has
misjudged; two holders would then own one file. From the same invariant the lock file is a
`WriterLock` until something is misjudged: a failing write of the metadata and a suppressed failure of
the unlink leave it behind, as a death does, and a call may be refused at any time.

*Transactions.* `TxInv` says for each process what its place implies: holding the
lock (a process past `acquire` is `lock`), the agreement of `mem` with the manifest
on disk, which files are already written, what the copies hold. A frame rule
(`FrameRule`) states which variables a process's part depends on, so that each
step is proved once for the process that takes it and the others follow, because
only the holder of the lock writes files, rows and copies. The invariant holds
under all faults, so the two action properties do, and so does the use of the lock: whoever is inside
the `with` statement is `lock`, and a step either leaves `lock` alone or is one of the six of `WriterLock`.

That operations implement `AtomicStore` takes two invariants more. `AtomicInv` ties memory and disk
together over deaths: at most one manifest is `applying`, and some process handles it, or will
when it starts again (`Handled`); what an applying operation has written and what a rollback
or a recovery has put back so far is as its place says (`Place`). `StoreInv` says of the abstract
store that the contents of a file lie in layers (`FileLayers`), and those of a row too (`RowLayers`):
each applied operation keeps the one below its own, and no content lies in two layers. So the hash which a rollback
expects can be there only if the operation is on top, and it is undone once, if it
writes anything: an empty operation has no hash to differ. Each step is then one of the
abstract store or a stutter. The theorems are about one daemon that may die and
recovers before it works, or about any number of commands that do not die (`Quiet`).

A death inside `rollback` breaks the refinement (`tx_undo_crash`), because recovery restores the
files of the rollback and not its rows. `RowLayers` is therefore conditional on
no such death (`Whole`), and `FileLayers` is not: the files alone, the manifests with them, are those of an
`AtomicStore` without rows (`FileStore`) wherever the daemon dies, so that an operation which writes
a file is still undone once. `Handled` survives such deaths too. That rows and files
go together (`Aligned`) is proved of the abstract store first, whose operations are whole
(`PairInv`), and carried over at the moments when disk and store are the same.

A daemon beside commands that die is not covered, and cannot be: the copies of an operation that the
dead daemon left behind may hold an earlier operation's content, a command may clear the stale lock and roll that earlier
operation back, as it does not recover first, and the daemon's recovery then puts
the content back which was undone. Three kinds of failing writes are left out too. One that no handler catches (`raise_unguarded`) leaves an
`applying` manifest behind as a death does, with nobody who is started again. One after the `applied`
manifest (`raise_late`) makes the handler put back, file by file, what already counts as applied.
One while restoring (`raise_in_restore`) leaves what was written, and no copy counts any more.

*Gaps.* `UpInv` says that nothing is known of a question that has not come up. `OnceInv` says
that no migrated event is in the ledger twice, nor in the text that a process is about to replace it with:
deaths and overlapping calls lose events, and never double one. `AloneInv`, for calls one after the other, says at each place of the
call how far rows and ledger are apart (`Phase`): but for the question whose event is on its way, the row
is what a replay of the ledger gives. A replay looks at the last event of a question only,
which is what makes it provable without induction over the ledger.

*Review.* `TypeInv` strengthens `TypeOK` by `Fits`: which kinds of call can be at
which label (an `update` never reaches `persist`, where it would have no status).
`RollbackInv` says that the copy of every applied, not undone manifest is the
proposal's content; it needs `Existed` (no target missing at the start), because
a missing file has no expected hash, and without it the property fails.
`CalmInv` is for calls one after the other. `Phase` says at each place of the one call under way how far
item, operation, ledger and dashboard are apart, and what of it the call has in its hand to write.
`Undoable` says that the ledger which an approval leaves is the one that it found with its own entry
changed, so that a rollback that is accepted puts exactly that entry back.

*Ingestion.* `EvidenceInv` says for each call what its place implies: past `preserve`
its copy is in the raw store, past `manifest` and `record` those exist, and until the
call ends its path holds the content it hashed or nothing. The last part is where
`Orderly` enters, and without it the property fails. Copies,
manifests and records are only ever added, so a call's part survives the steps of
every other call.
`SettledInv` speaks of a source from the last change of its row on (`Steady`): every call still
open on it is going to write the very entry that is in the row (`Last`), and its manifest, record and index
say the same or such a call, or the owner's, is still to write them. Calls agree on that entry
because the files of one content do (`Agreeing`), and the owner's change and a call do not
overlap on a source (`Orderly`); TLC finds a counterexample without either, and section 3 says what happens
then.

*The compiler.* `Restorable` rests on there being one answer of each provider about a source, which no
single step shows: `KeepInv` adds that no two calls hold one source (`Turns`), that a
source which a provider has been asked about has its cached answer or is never compiled again
(`Answered`), and what each call knows at its place (`Place`): from the cache on, its
text is the cached one of its provider; before the operation, the notes it read are those of exactly the
decisions it replaces. `MatchInv` adds that a call which found no concept still finds its own source
without one when it stores it and, if calls do not overlap, its title too.
A step of one call is carried over to the others by `OwnStep` and `NoConcept`, because no
two calls hold one source (`Apart`).
`GraphInv` is about the graph of supersession in the ledgers. That it has no cycle is stated of subsets: every
nonempty set of entries has one that replaces none of the others. A new entry keeps this, as
nothing replaces it yet (`LastEntry`), and what is left of a replay is such a set, so that no
induction along a chain is needed. What a replay inserts is new to the database, because its predecessors
there have their own entries there. All of it is of sources that one provider has answered about (`OneAnswer`),
and without that it fails. The rows are those which the graph gives to the entries that are in the
database (`RowOf`), before, during and after a replay.

*Projects.* That the rows put back by a rollback are those of the state that the
compensating event names takes the whole history. `TypeInv` adds to the types which calls can
be at which place. `HandoffInv` says that no two applied changes were planned against the same handoff, and none
against the one that is there: what a plan expects comes back only when its operation is rolled
back, so that no change is applied twice.
`OnceInv` says that a change has at most one applied event, and one only if it was planned.
`AgreeInv` says that rows, index and STATE.md agree and that, for every applied
operation, the event before its own names the state that it has captured. A rollback
then puts back a state that agrees, and its event tells of it.

*Maintenance.* Three parts make `Inv` inductive. `ReadsOK` says what a pass that has read
the notes and not written them knows: the text in its hand is no newer than that of the note, unless the
note had just been created, and no older, unless the note was saved in the moment that `raced`
records. An operation of notes replaces a text only if the hash still holds, hence by the same text.
`BriefsOK` says that a pass that is past its brief has left it,
unless its period has ended since (`late`). `DaemonOK` ties the pass of the daemon to its loop, so that the
routine that is marked is the one whose pass is done.

*Clusters.* `SearchInv` says of the search under way that what it has listed and what is in its frontier
belongs to the component of its start, that what it has listed is what is visited of that component, each once, and
that whoever is adjacent to it is listed or in the frontier. So when the frontier is empty, what is
listed is closed, and is the component. What earlier searches have visited is closed too, so that no search enters it.

What is only model-checked: liveness, and everything stated with `FairSpec`
(`AcquireEnds`, `DeadOwnerCleared`, `InterruptedResolved`, `EventuallyPreserved`, `EventuallyProposed`,
`HandoffCatchesUp`, `RoutineMadeUp`, `GraphCatchesUp`, `EveryFindingProposed`); liveness and `ENABLED` are out
of the prover's reach. Every safety property of a passing run has a theorem. Of the four that a run refutes, three have
a theorem that says how far they hold: `MutualExclusion` until a misjudgement
(`ExclusionUpToMisjudgement`), `Aligned` without a death inside `rollback` (`PartnersAreAligned`),
`AppendOnly` of calls one after the other (`NothingLostAlone`). For `SupersededStays` there is none: a second compilation breaks it, and so would
the rollback of a compile operation, which is not modelled.
The induction theorems of the library take an operator, which these provers cannot
instantiate.

## 6. Not modelled, and why

* People editing the vault, except the notes and maps that `Structure` rewrites and the
  Inbox of `Ingest`: they take no lock, and the window between the check of a hash and the
  replacement is inherent.
* The rollback of a compile operation, which nothing in `src/second_brain` calls.
* Path policy, rendering, parsing, ranking, prompts: data, without shared state.
* SQLite's own locking: each `store.transaction()` is one step.
* Archive extraction, folder discovery and the classification of contents: pure
  functions of the files they read.
* The scores behind the ranking of maps, the wording of pages, briefs and audits, `validate_wikilinks`, and
  findings of low severity, which are never proposed.
* `verify_source_integrity`: it compares the hashes of the 25 newest sources and reports; nothing
  acts on it.
* Rows of projects, queries and questions as causes of structural findings: constant.
* Skills and claims in a rebuild.
* Storage, retrieval, verification of answers, providers, MCP and CLI entry points:
  each of their calls is a call of a service above.
* Backup, doctor, bootstrap: sequential file copying and diagnosis. That a backup
  reads without the writer lock is a known hazard.

## 7. Plan

Done: `ProcessLock`, `Transactions`, `GapLifecycle`, `ReviewFlow`, `Ingest`, `Compiler`,
`Projects`, `Structure`, `Clusters`, `Maintenance`. What would come next:

1. The replay of claims with their foreign keys, and of skills, in a module of the whole
   rebuild.
2. Recovery of two interrupted operations in `Transactions`, and two processes at work beside
   a failing restore; a backup beside a writer.
3. Proofs: the refinement with a recovery that restores the rows of an interrupted rollback, once the
   program records them where it looks for them.
