------------------------------- MODULE Ingest -------------------------------
(***************************************************************************)
(* Deterministic ingestion: second_brain/ingest/service.py, with the Inbox *)
(* watcher (watcher.py), the daemon's loop over the Inbox                  *)
(* (nightly.process_inbox, daemon.run_once), the ingest command, and the   *)
(* owner's changes of a source's sensitivity (egress.py).                  *)
(*                                                                         *)
(* A file dropped into the Inbox is hashed, copied into the raw store,     *)
(* described by a manifest and a Source Record, removed from the Inbox,    *)
(* and only then entered into the database, parsed and indexed.  Several   *)
(* threads of the daemon, and commands, may do this to one file together;  *)
(* no lock is taken.  Each durable write is a step; between any two steps  *)
(* the process may die, and most steps may raise.                          *)
(*                                                                         *)
(* A content stands for its bytes, their SHA-256 and the source named      *)
(* after it.                                                               *)
(***************************************************************************)
EXTENDS Naturals, FiniteSets

CONSTANTS Paths,      \* places of files in the Inbox
          Contents,   \* what files contain
          NameOf,     \* the file name at a path; folders may repeat a name
          Lane,       \* the sensitivity that classification gives files at a path
          Supported,  \* the paths whose suffix has a parser
          Scans,      \* the contents whose text needs a capability not configured
          Files,      \* the pairs of path and content that people drop
          Watchers,   \* the watcher threads of the daemon
          Loop,       \* the daemon's main thread
          Commands,   \* processes that run the ingest command
          HasAI,      \* an AI provider is configured
          Orderly,    \* people leave a path alone while a call works on it
          None,       \* no file, no entry, no content
          MaxDrops,   \* bound: files dropped
          MaxFaults,  \* bound: exceptions raised, and processes killed
          MaxChanges  \* bound: permission changes

Daemon == Watchers \cup {Loop}
Callers == Daemon \cup Commands
Sensitivities == {"cloud_allowed", "local_only"}

ASSUME PathAssumption ==
  /\ Lane \in [Paths -> Sensitivities]
  /\ Supported \subseteq Paths
  /\ Files \subseteq Paths \X Contents
ASSUME CallerAssumption ==
  /\ Loop \notin Watchers
  /\ Daemon \cap Commands = {}
ASSUME SwitchAssumption == HasAI \in BOOLEAN /\ Orderly \in BOOLEAN
ASSUME BoundAssumption == MaxDrops \in Nat /\ MaxFaults \in Nat /\ MaxChanges \in Nat

VARIABLES inbox,     \* inbox[p]: the content of the file at p, or None
          raw,       \* the copies in the raw store: pairs of content and name
          manifest,  \* manifest[c]: what the source's manifest says, or None
          record,    \* record[c]: what its Source Record says, or None
          row,       \* row[c]: its row in the sources table, or None
          index,     \* index[c]: which of its texts the search index holds
          waiting,   \* the sources with a job in state NEEDS_AI whose call is over
          pc,        \* where each caller is in ingest_file
          on,        \* on[t]: the path it works on
          got,       \* got[t]: the content it hashed
          todo,      \* the rest of the loop's listing of the Inbox
          up,        \* the daemon runs
          owner,     \* the owner's permission change in progress
          cut,       \* history: sources whose ingestion or change was cut short
          drops, faults, changes

disk == <<inbox, raw, manifest, record>>
database == <<row, index, waiting>>
control == <<pc, on, got>>
environment == <<todo, up, owner, cut>>
bounds == <<drops, faults, changes>>
vars == <<disk, database, control, environment, bounds>>

-----------------------------------------------------------------------------
(* The states of a source, and what is said about it in the three places.  *)

Holding == {"UNSUPPORTED", "NEEDS_ENRICHMENT", "NEEDS_AI", "CLASSIFIED"}
Failures == {"FAILED", "QUARANTINED"}
Entry == [status: Holding \cup Failures \cup {"PRESERVED", "EXTRACTED"},
          sens: Sensitivities, extracted: BOOLEAN]

ASSUME NoneAssumption == None \notin Contents \cup Paths \cup Entry

\* The state that a call on path p and content c aims at.
FinalState(p, c) ==
  IF p \notin Supported THEN "UNSUPPORTED"
  ELSE IF c \in Scans THEN "NEEDS_ENRICHMENT"
  ELSE IF HasAI THEN "CLASSIFIED" ELSE "NEEDS_AI"

\* The SourceRecord of the call, at the given status.
Source(t, status) ==
  [status |-> status, sens |-> Lane[on[t]],
   extracted |-> on[t] \in Supported /\ status \notin {"PRESERVED"}]

\* _preserve: the place of the copy in the raw store.
Target(t) == <<got[t], NameOf[on[t]]>>

\* The labels of ingest_file after which the row of the source exists.
Parsing == {"extract", "extracted", "segments", "final_row"}
Closing == {"final_job", "final_manifest", "final_record", "final_clear"}
Opening == {"preserve", "stat", "manifest", "record", "clear", "expose"}
Hashed == {"lookup"} \cup Opening \cup Parsing \cup Closing
Working == {"hash"} \cup Hashed

\* The state of the call's row in processing_jobs.
JobState(t) ==
  CASE pc[t] = "hash" -> "DETECTED"
    [] pc[t] \in Opening \cup {"lookup"} -> "HASHED"
    [] pc[t] \in {"extract", "extracted", "segments"} -> "PRESERVED"
    [] pc[t] \in {"final_row", "final_job"} ->
         IF on[t] \in Supported THEN "INDEXED" ELSE "PRESERVED"
    [] OTHER -> FinalState(on[t], got[t])

Goto(t, label) == pc' = [pc EXCEPT ![t] = label] /\ UNCHANGED <<on, got>>

\* Mutant: the digest of one file is kept for the next.
EndCallKeepsDigest(t, state) ==
  /\ waiting' = IF state = "NEEDS_AI" THEN waiting \cup {got[t]} ELSE waiting
  /\ pc' = [pc EXCEPT ![t] = "idle"]
  /\ on' = [on EXCEPT ![t] = None]
  /\ UNCHANGED got

\* The call ends, its job in the given state.
EndCall(t, state) ==
  /\ waiting' = IF state = "NEEDS_AI" THEN waiting \cup {got[t]} ELSE waiting
  /\ pc' = [pc EXCEPT ![t] = "idle"]
  /\ on' = [on EXCEPT ![t] = None]
  /\ got' = [got EXCEPT ![t] = None]

\* The handlers at the end of ingest_file: the row, if there is one by now, and
\* the job get the state; manifest and record keep what they say.
Fail(t, state) ==
  /\ row' = IF got[t] # None /\ row[got[t]] # None
            THEN [row EXCEPT ![got[t]].status = state] ELSE row
  /\ EndCall(t, state)

-----------------------------------------------------------------------------
Init ==
  /\ inbox = [p \in Paths |-> None]
  /\ raw = {}
  /\ manifest = [c \in Contents |-> None]
  /\ record = [c \in Contents |-> None]
  /\ row = [c \in Contents |-> None]
  /\ index = [c \in Contents |-> {}]
  /\ waiting = {}
  /\ pc = [t \in Callers |-> "idle"]
  /\ on = [t \in Callers |-> None]
  /\ got = [t \in Callers |-> None]
  /\ todo = {}
  /\ up = TRUE
  /\ owner = [at |-> "idle", source |-> None, sens |-> "local_only"]
  /\ cut = {}
  /\ drops = 0 /\ faults = 0 /\ changes = 0

\* Somebody puts a file into the Inbox, or another one in its place.
Drop(p, c) ==
  /\ drops < MaxDrops
  /\ <<p, c>> \in Files
  /\ Orderly => \A t \in Callers : on[t] # p
  /\ inbox' = [inbox EXCEPT ![p] = c]
  /\ drops' = drops + 1
  /\ UNCHANGED <<raw, manifest, record, database, control, environment, faults,
                 changes>>

-----------------------------------------------------------------------------
(* Who calls ingest_file.                                                  *)

Start(t, p) ==
  /\ pc[t] = "idle"
  /\ inbox[p] # None
  /\ pc' = [pc EXCEPT ![t] = "hash"]
  /\ on' = [on EXCEPT ![t] = p]
  /\ UNCHANGED got

\* A thread of the watcher, after a file event has settled, or a command finds the
\* file there and ingests it.  When a file causes events, and how many, is open.
Call(t, p) ==
  /\ t \in Watchers => up
  /\ t # Loop
  /\ Start(t, p)
  /\ UNCHANGED <<disk, database, environment, bounds>>

\* process_inbox lists the Inbox.
List ==
  /\ up
  /\ pc[Loop] = "idle"
  /\ todo = {}
  /\ todo' = {p \in Paths : inbox[p] # None}
  /\ UNCHANGED <<disk, database, control, up, owner, cut, bounds>>

\* process_inbox ingests the next file of its listing.
TakeListed(p) ==
  /\ up
  /\ p \in todo
  /\ todo' = todo \ {p}
  /\ Start(Loop, p)
  /\ UNCHANGED <<disk, database, up, owner, cut, bounds>>

\* A process dies with its threads: their jobs stay as they are.
Stop(threads) ==
  LET hit == {t \in threads : pc[t] # "idle"} IN
  /\ up' = (up /\ Loop \notin threads)
  /\ todo' = IF Loop \in threads THEN {} ELSE todo
  /\ waiting' = waiting \cup {got[t] : t \in {u \in hit : JobState(u) = "NEEDS_AI"}}
  /\ cut' = cut \cup ({got[t] : t \in hit} \ {None})
  /\ pc' = [t \in Callers |-> IF t \in threads THEN "idle" ELSE pc[t]]
  /\ on' = [t \in Callers |-> IF t \in threads THEN None ELSE on[t]]
  /\ got' = [t \in Callers |-> IF t \in threads THEN None ELSE got[t]]
  /\ UNCHANGED <<disk, row, index, owner>>

\* The next file of the listing has gone meanwhile, and ingest() raises
\* FileNotFoundError.  In the nightly routine run_once catches it, and the rest of
\* the listing is dropped; in run_once itself nothing does up to run_forever, and
\* the daemon ends with its watcher threads.
ListedFileGone(p) ==
  /\ up
  /\ pc[Loop] = "idle"
  /\ p \in todo
  /\ inbox[p] = None
  /\ \/ Stop(Daemon)
     \/ todo' = {} /\ UNCHANGED <<disk, database, control, up, owner, cut>>
  /\ UNCHANGED bounds

\* A process is killed.
Crash ==
  /\ faults < MaxFaults
  /\ faults' = faults + 1
  /\ \E threads \in {Daemon} \cup {{k} : k \in Commands} :
       (threads = Daemon => up) /\ Stop(threads)
  /\ UNCHANGED <<drops, changes>>

\* The daemon is started again.
Restart ==
  /\ ~ up
  /\ up' = TRUE
  /\ UNCHANGED <<disk, database, control, todo, owner, cut, bounds>>

-----------------------------------------------------------------------------
(* ingest_file.                                                            *)

\* Path check and SHA-256; both raise when the file has gone.
Hash(t) ==
  /\ pc[t] = "hash"
  /\ \/ /\ inbox[on[t]] = None
        /\ Fail(t, "FAILED")
     \/ /\ inbox[on[t]] # None
        /\ pc' = [pc EXCEPT ![t] = "lookup"]
        /\ got' = [got EXCEPT ![t] = inbox[on[t]]]
        /\ UNCHANGED <<on, row, waiting>>
  /\ UNCHANGED <<disk, index, environment, bounds>>

\* Mutant: a copy in the raw store counts as an ingested source.
LookupRaw(t) ==
  /\ pc[t] = "lookup"
  /\ IF Target(t) \in raw THEN EndCall(t, "DUPLICATE")
     ELSE Goto(t, "preserve") /\ UNCHANGED waiting
  /\ UNCHANGED <<disk, row, index, environment, bounds>>

\* source_by_hash: a source with this content ends the call as DUPLICATE, and
\* the file stays in the Inbox.
Lookup(t) ==
  /\ pc[t] = "lookup"
  /\ IF row[got[t]] # None THEN EndCall(t, "DUPLICATE")
     ELSE Goto(t, "preserve") /\ UNCHANGED waiting
  /\ UNCHANGED <<disk, row, index, environment, bounds>>

\* _preserve: a copy already in place serves; otherwise the file is read again,
\* and its copy must have the digest computed before.
Preserve(t) ==
  /\ pc[t] = "preserve"
  /\ \/ /\ \/ Target(t) \in raw /\ UNCHANGED raw
           \/ inbox[on[t]] = got[t] /\ raw' = raw \cup {Target(t)}
        /\ Goto(t, "stat")
        /\ UNCHANGED <<row, waiting>>
     \/ /\ Target(t) \notin raw
        /\ inbox[on[t]] # got[t]
        /\ Fail(t, "FAILED")
        /\ UNCHANGED raw
  /\ UNCHANGED <<inbox, manifest, record, index, environment, bounds>>

\* Mutant: the Inbox copy is cleared before manifest and record are written.
StatThenClear(t) ==
  /\ pc[t] = "stat"
  /\ inbox[on[t]] # None
  /\ Goto(t, "clear")
  /\ UNCHANGED <<disk, database, environment, bounds>>

\* path.stat() of the Inbox file, which another call may have cleared by now.
Stat(t) ==
  /\ pc[t] = "stat"
  /\ IF inbox[on[t]] = None THEN Fail(t, "FAILED")
     ELSE Goto(t, "manifest") /\ UNCHANGED <<row, waiting>>
  /\ UNCHANGED <<disk, index, environment, bounds>>

\* _write_manifest, first and last.
WriteManifest(t) ==
  /\ \/ /\ pc[t] = "manifest"
        /\ manifest' = [manifest EXCEPT ![got[t]] = Source(t, "PRESERVED")]
        /\ Goto(t, "record")
     \/ /\ pc[t] = "final_manifest"
        /\ manifest' = [manifest EXCEPT ![got[t]] =
                          Source(t, FinalState(on[t], got[t]))]
        /\ Goto(t, "final_record")
  /\ UNCHANGED <<inbox, raw, record, database, environment, bounds>>

\* Mutant: the record is written, but not indexed.
WriteRecordUnindexed(t) ==
  /\ \/ /\ pc[t] = "record"
        /\ record' = [record EXCEPT ![got[t]] = Source(t, "PRESERVED")]
        /\ Goto(t, "clear")
     \/ /\ pc[t] = "final_record"
        /\ record' = [record EXCEPT ![got[t]] =
                        Source(t, FinalState(on[t], got[t]))]
        /\ Goto(t, "final_clear")
  /\ UNCHANGED <<inbox, raw, manifest, database, environment, bounds>>

\* _write_source_record, first and last: the note, and its text in the index.
WriteRecord(t) ==
  /\ \/ /\ pc[t] = "record"
        /\ record' = [record EXCEPT ![got[t]] = Source(t, "PRESERVED")]
        /\ Goto(t, "clear")
     \/ /\ pc[t] = "final_record"
        /\ record' = [record EXCEPT ![got[t]] =
                        Source(t, FinalState(on[t], got[t]))]
        /\ Goto(t, "final_clear")
  /\ index' = [index EXCEPT ![got[t]] = @ \cup {"record"}]
  /\ UNCHANGED <<inbox, raw, manifest, row, waiting, environment, bounds>>

\* _clear_inbox_copy_if_safe, first and last: unlinks whatever file is at the
\* path NOW; an OSError is ignored.
ClearInbox(t) ==
  /\ \/ /\ pc[t] = "clear"
        /\ Goto(t, "expose")
        /\ UNCHANGED waiting
     \/ /\ pc[t] = "final_clear"
        /\ EndCall(t, JobState(t))
  /\ \/ inbox' = [inbox EXCEPT ![on[t]] = None] /\ UNCHANGED faults
     \/ faults < MaxFaults /\ faults' = faults + 1 /\ UNCHANGED inbox
  /\ UNCHANGED <<raw, manifest, record, row, index, environment, drops, changes>>

\* upsert_source writes the call's SourceRecord over the row.
Upsert(t, status) == row' = [row EXCEPT ![got[t]] = Source(t, status)]

\* The row appears, and the job becomes PRESERVED.
Expose(t) ==
  /\ pc[t] = "expose"
  /\ Upsert(t, "PRESERVED")
  /\ Goto(t, IF on[t] \in Supported THEN "extract" ELSE "final_row")
  /\ UNCHANGED <<disk, index, waiting, environment, bounds>>

\* Parsing and enrichment, and the extraction file.  An archive may be unsafe.
Extract(t) ==
  /\ pc[t] = "extract"
  /\ \/ /\ Goto(t, "extracted")
        /\ UNCHANGED <<row, waiting, faults>>
     \/ /\ faults < MaxFaults
        /\ faults' = faults + 1
        /\ Fail(t, "QUARANTINED")
  /\ UNCHANGED <<disk, index, environment, drops, changes>>

UpsertExtracted(t) ==
  /\ pc[t] = "extracted"
  /\ Upsert(t, "EXTRACTED")
  /\ Goto(t, "segments")
  /\ UNCHANGED <<disk, index, waiting, environment, bounds>>

\* replace_segments removes every text of the source from the index, the record's
\* too, before it adds the segments; the vectors follow and the job is INDEXED.
ReplaceSegments(t) ==
  /\ pc[t] = "segments"
  /\ index' = [index EXCEPT ![got[t]] = {"segments"}]
  /\ Goto(t, "final_row")
  /\ UNCHANGED <<disk, row, waiting, environment, bounds>>

UpsertFinal(t) ==
  /\ pc[t] = "final_row"
  /\ Upsert(t, FinalState(on[t], got[t]))
  /\ Goto(t, "final_job")
  /\ UNCHANGED <<disk, index, waiting, environment, bounds>>

\* Mutant: the manifest keeps what it said before parsing.
FinishJobOnly(t) ==
  /\ pc[t] = "final_job"
  /\ Goto(t, "final_record")
  /\ UNCHANGED <<disk, database, environment, bounds>>

\* update_job with the final state.
FinishJob(t) ==
  /\ pc[t] = "final_job"
  /\ Goto(t, "final_manifest")
  /\ UNCHANGED <<disk, database, environment, bounds>>

\* Any other exception inside the try statement.
Raise(t) ==
  /\ pc[t] \in Working \ {"clear", "final_clear"}
  /\ faults < MaxFaults
  /\ faults' = faults + 1
  /\ Fail(t, "FAILED")
  /\ UNCHANGED <<disk, index, environment, drops, changes>>

CallStep(t) ==
  \/ Hash(t) \/ Lookup(t) \/ Preserve(t) \/ Stat(t) \/ WriteManifest(t)
  \/ WriteRecord(t) \/ ClearInbox(t) \/ Expose(t) \/ Extract(t)
  \/ UpsertExtracted(t) \/ ReplaceSegments(t) \/ UpsertFinal(t) \/ FinishJob(t)

-----------------------------------------------------------------------------
(* SourceEgressService: allow_cloud and local_only.                        *)

\* _set_permission updates the row.
ChangeRow(c, s) ==
  /\ owner.at = "idle"
  /\ row[c] # None
  /\ row[c].sens # s
  /\ Orderly => \A t \in Callers : got[t] # c
  /\ changes < MaxChanges
  /\ changes' = changes + 1
  /\ row' = [row EXCEPT ![c].sens = s]
  /\ owner' = [at |-> "manifest", source |-> c, sens |-> s]
  /\ UNCHANGED <<disk, index, waiting, control, todo, up, cut, drops, faults>>

\* _update_manifest, if there is one.
ChangeManifest ==
  /\ owner.at = "manifest"
  /\ manifest' = IF manifest[owner.source] = None THEN manifest
                 ELSE [manifest EXCEPT ![owner.source].sens = owner.sens]
  /\ owner' = [owner EXCEPT !.at = "record"]
  /\ UNCHANGED <<inbox, raw, record, database, control, todo, up, cut, bounds>>

\* _update_source_record, if there is one.
ChangeRecord ==
  /\ owner.at = "record"
  /\ record' = IF record[owner.source] = None THEN record
               ELSE [record EXCEPT ![owner.source].sens = owner.sens]
  /\ owner' = [at |-> "idle", source |-> None, sens |-> "local_only"]
  /\ UNCHANGED <<inbox, raw, manifest, database, control, todo, up, cut, bounds>>

-----------------------------------------------------------------------------
LoopStep == List \/ \E p \in Paths : TakeListed(p) \/ ListedFileGone(p)

Next ==
  \/ \E p \in Paths, c \in Contents : Drop(p, c)
  \/ \E t \in Callers, p \in Paths : Call(t, p)
  \/ LoopStep
  \/ Crash \/ Restart
  \/ \E t \in Callers : CallStep(t) \/ Raise(t)
  \/ \E c \in Contents, s \in Sensitivities : ChangeRow(c, s)
  \/ ChangeManifest \/ ChangeRecord

Spec == Init /\ [][Next]_vars

\* A running call goes on, the daemon's loop comes round, and a daemon that ended
\* is started again.
FairSpec ==
  /\ Spec
  /\ \A t \in Callers : WF_vars(CallStep(t))
  /\ WF_vars(LoopStep)
  /\ WF_vars(Restart)

-----------------------------------------------------------------------------
DiskTypes ==
  /\ inbox \in [Paths -> Contents \cup {None}]
  /\ raw \subseteq Contents \X {NameOf[p] : p \in Paths}
  /\ manifest \in [Contents -> Entry \cup {None}]
  /\ record \in [Contents -> Entry \cup {None}]

DatabaseTypes ==
  /\ row \in [Contents -> Entry \cup {None}]
  /\ waiting \subseteq Contents
  /\ index \in [Contents -> SUBSET {"segments", "record"}]

\* A caller has a path while it is in ingest_file, and a digest from hashing on.
ControlTypes ==
  /\ pc \in [Callers -> Working \cup {"idle"}]
  /\ on \in [Callers -> Paths \cup {None}]
  /\ got \in [Callers -> Contents \cup {None}]
  /\ \A t \in Callers : /\ pc[t] # "idle" => on[t] \in Paths
                        /\ pc[t] \in Hashed <=> got[t] # None

EnvironmentTypes ==
  /\ todo \subseteq Paths
  /\ up \in BOOLEAN
  /\ owner \in [at: {"idle", "manifest", "record"},
                source: Contents \cup {None}, sens: Sensitivities]
  /\ owner.at # "idle" => owner.source # None
  /\ cut \subseteq Contents
  /\ drops \in Nat /\ faults \in Nat /\ changes \in Nat

\* The values every variable takes.
TypeOK == DiskTypes /\ DatabaseTypes /\ ControlTypes /\ EnvironmentTypes

\* What a rebuild can bring a source back from.
Recoverable(c) ==
  /\ \E n \in {NameOf[p] : p \in Paths} : <<c, n>> \in raw
  /\ manifest[c] # None
  /\ record[c] # None

\* The program removes a file from the Inbox only when its content is in the raw
\* store, described by a manifest and a Source Record: whoever else ingests the
\* same file, whatever fails, and wherever a process dies.
EvidenceKept ==
  [][\A p \in Paths :
       inbox[p] # None /\ inbox'[p] = None => Recoverable(inbox[p])]_vars

\* No call and no permission change works on the source, none was cut short by
\* the death of a process, and none failed.
Settled(c) ==
  /\ row[c] # None
  /\ row[c].status \notin Failures
  /\ c \notin cut
  /\ \A t \in Callers : got[t] # c
  /\ owner.source # c

\* A settled source can be found by its record and, if it has text, by its
\* segments, although each of several calls on it emptied the index once.
SettledIsSearchable ==
  \A c \in Contents : Settled(c) =>
    index[c] = {"record"} \cup (IF row[c].extracted THEN {"segments"} ELSE {})

\* A rebuild would bring a settled source back as it is: manifest, Source Record
\* and row agree on status, sensitivity and extraction, however the writes of
\* several calls and of the owner came to be ordered.
RebuildKeepsSource ==
  \A c \in Contents : Settled(c) => manifest[c] = row[c] /\ record[c] = row[c]

\* A file left in the Inbox does not stay unpreserved: missed events, failures
\* and deaths are made up for by the daemon's loop, even when that loop itself
\* is what ended the daemon.
EventuallyPreserved ==
  \A f \in Files : inbox[f[1]] = f[2] ~> inbox[f[1]] # f[2] \/ Recoverable(f[2])
=============================================================================
