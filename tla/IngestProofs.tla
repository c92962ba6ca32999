---------------------------- MODULE IngestProofs ----------------------------
(***************************************************************************)
(* Proofs about Ingest, for any number of callers, paths, contents, files  *)
(* dropped, exceptions and deaths of processes.                            *)
(***************************************************************************)
EXTENDS Ingest, TLAPS

Labels == Working \cup {"idle"}

\* A call that has hashed a file works on a known path and content.
LEMMA HashedCall ==
  ASSUME ControlTypes, NEW t \in Callers, pc[t] \in Hashed
  PROVE  on[t] \in Paths /\ got[t] \in Contents
BY NoneAssumption DEF ControlTypes, Hashed, Opening, Parsing, Closing

\* The record that a call writes is an entry.
LEMMA SourceType ==
  ASSUME ControlTypes, NEW t \in Callers, pc[t] \in Hashed,
         NEW s \in Holding \cup {"PRESERVED", "EXTRACTED"}
  PROVE  Source(t, s) \in Entry
<1>1. Lane[on[t]] \in Sensitivities
  BY HashedCall, PathAssumption
<1>2. (on[t] \in Supported /\ s \notin {"PRESERVED"}) \in BOOLEAN
  OBVIOUS
<1>. QED BY <1>1, <1>2 DEF Source, Entry

\* Every call aims at a holding state.
LEMMA FinalStateType ==
  ASSUME NEW p, NEW c
  PROVE  FinalState(p, c) \in Holding
BY DEF FinalState, Holding

\* Going to another label of ingest_file keeps the caller's path and digest.
LEMMA GotoTypes ==
  ASSUME ControlTypes, NEW t \in Callers, pc[t] \in Hashed,
         NEW l \in Hashed, Goto(t, l)
  PROVE  ControlTypes'
<1>1. l \in Working /\ l # "idle"
  BY DEF Working, Hashed, Opening, Parsing, Closing
<1>2. pc' \in [Callers -> Working \cup {"idle"}] /\ on' = on /\ got' = got
  BY <1>1 DEF Goto, ControlTypes
<1>3. on[t] \in Paths /\ got[t] # None
  BY HashedCall, NoneAssumption
<1>4. ASSUME NEW u \in Callers
      PROVE  /\ pc'[u] # "idle" => on'[u] \in Paths
             /\ pc'[u] \in Hashed <=> got'[u] # None
  <2>1. CASE u = t
    BY <1>2, <1>3, <2>1 DEF Goto, ControlTypes
  <2>2. CASE u # t
    BY <1>2, <2>2 DEF Goto, ControlTypes
  <2>. QED BY <2>1, <2>2
<1>. QED BY <1>2, <1>4 DEF ControlTypes

\* The end of a call frees its caller.
LEMMA EndCallTypes ==
  ASSUME ControlTypes, DatabaseTypes, NEW t \in Callers, NEW state,
         state = "NEEDS_AI" => got[t] \in Contents,
         EndCall(t, state)
  PROVE  ControlTypes' /\ waiting' \subseteq Contents
<1>1. waiting' \subseteq Contents
  BY DEF EndCall, DatabaseTypes
<1>2. /\ pc' = [pc EXCEPT ![t] = "idle"]
      /\ on' = [on EXCEPT ![t] = None]
      /\ got' = [got EXCEPT ![t] = None]
  BY DEF EndCall
<1>3. /\ pc' \in [Callers -> Working \cup {"idle"}]
      /\ on' \in [Callers -> Paths \cup {None}]
      /\ got' \in [Callers -> Contents \cup {None}]
  BY <1>2 DEF ControlTypes
<1>4. "idle" \notin Hashed
  BY DEF Hashed, Opening, Parsing, Closing
<1>5. ASSUME NEW u \in Callers
      PROVE  /\ pc'[u] # "idle" => on'[u] \in Paths
             /\ pc'[u] \in Hashed <=> got'[u] # None
  BY <1>2, <1>4 DEF ControlTypes
<1>. QED BY <1>1, <1>3, <1>5 DEF ControlTypes

\* A failing call leaves the row, the job and the caller well typed.
LEMMA FailTypes ==
  ASSUME ControlTypes, DatabaseTypes, NEW t \in Callers, NEW state \in Failures,
         Fail(t, state), index' = index
  PROVE  ControlTypes' /\ DatabaseTypes'
<1>1. state # "NEEDS_AI"
  BY DEF Failures
<1>2. ControlTypes' /\ waiting' \subseteq Contents
  BY <1>1, EndCallTypes DEF Fail
<1>3. row' \in [Contents -> Entry \cup {None}]
  <2>1. CASE got[t] # None /\ row[got[t]] # None
    <3>1. got[t] \in Contents /\ row[got[t]] \in Entry
      BY <2>1 DEF ControlTypes, DatabaseTypes
    <3>2. [row[got[t]] EXCEPT !.status = state] \in Entry
      BY <3>1 DEF Entry
    <3>. QED BY <2>1, <3>1, <3>2 DEF Fail, DatabaseTypes
  <2>2. CASE ~ (got[t] # None /\ row[got[t]] # None)
    BY <2>2 DEF Fail, DatabaseTypes
  <2>. QED BY <2>1, <2>2
<1>. QED BY <1>2, <1>3 DEF DatabaseTypes

\* A job that died in state NEEDS_AI belongs to a call that had hashed its file.
LEMMA WaitingCall ==
  ASSUME ControlTypes, NEW t \in Callers, pc[t] # "idle", JobState(t) = "NEEDS_AI"
  PROVE  got[t] \in Contents
<1>1. pc[t] \in Working
  BY DEF ControlTypes
<1>2. pc[t] # "hash"
  BY DEF JobState
<1>3. pc[t] \in Hashed
  BY <1>1, <1>2 DEF Working
<1>. QED BY <1>3, HashedCall

\* The death of a process keeps the types.
LEMMA StopTypes ==
  ASSUME TypeOK, NEW threads \in SUBSET Callers, Stop(threads),
         drops' = drops, changes' = changes, faults' \in Nat
  PROVE  TypeOK'
<1> DEFINE hit == {t \in threads : pc[t] # "idle"}
<1> USE DEF TypeOK
<1>1. DiskTypes'
  BY DEF Stop, disk, DiskTypes
<1>2. ControlTypes'
  <2>1. /\ pc' \in [Callers -> Working \cup {"idle"}]
        /\ on' \in [Callers -> Paths \cup {None}]
        /\ got' \in [Callers -> Contents \cup {None}]
    BY DEF Stop, ControlTypes
  <2>2. "idle" \notin Hashed
    BY DEF Hashed, Opening, Parsing, Closing
  <2>3. ASSUME NEW u \in Callers
        PROVE  /\ pc'[u] # "idle" => on'[u] \in Paths
               /\ pc'[u] \in Hashed <=> got'[u] # None
    BY <2>2 DEF Stop, ControlTypes
  <2>. QED BY <2>1, <2>3 DEF ControlTypes
<1>3. DatabaseTypes'
  <2>1. \A t \in hit : JobState(t) = "NEEDS_AI" => got[t] \in Contents
    BY WaitingCall
  <2>2. waiting' = waiting \cup {got[t] : t \in {u \in hit : JobState(u) = "NEEDS_AI"}}
    BY DEF Stop
  <2>3. waiting' \subseteq Contents
    BY <2>1, <2>2 DEF DatabaseTypes
  <2>. QED BY <2>3 DEF Stop, DatabaseTypes
<1>4. EnvironmentTypes'
  <2>1. cut' = cut \cup ({got[t] : t \in hit} \ {None})
    BY DEF Stop
  <2>2. \A t \in hit : got[t] \in Contents \cup {None}
    BY DEF ControlTypes
  <2>3. cut' \subseteq Contents
    BY <2>1, <2>2 DEF EnvironmentTypes
  <2>4. up' \in BOOLEAN
    BY Zenon DEF Stop
  <2>5. todo' \subseteq Paths /\ owner' = owner
    BY DEF Stop, EnvironmentTypes
  <2>. QED BY <2>3, <2>4, <2>5 DEF EnvironmentTypes
<1>. QED BY <1>1, <1>2, <1>3, <1>4

\* A caller begins with a path and without a digest.
LEMMA StartTypes ==
  ASSUME ControlTypes, NEW t \in Callers, NEW p \in Paths, Start(t, p)
  PROVE  ControlTypes'
<1>1. "idle" \notin Hashed /\ "hash" \notin Hashed /\ "hash" \in Working
  BY DEF Working, Hashed, Opening, Parsing, Closing
<1>2. /\ pc' \in [Callers -> Working \cup {"idle"}]
      /\ on' \in [Callers -> Paths \cup {None}]
      /\ got' = got
  BY <1>1 DEF Start, ControlTypes
<1>3. ASSUME NEW u \in Callers
      PROVE  /\ pc'[u] # "idle" => on'[u] \in Paths
             /\ pc'[u] \in Hashed <=> got'[u] # None
  BY <1>1, <1>2 DEF Start, ControlTypes
<1>. QED BY <1>2, <1>3 DEF ControlTypes

-----------------------------------------------------------------------------
\* The types survive every step that is not one of ingest_file.
LEMMA OuterTypes ==
  ASSUME TypeOK,
         \/ \E p \in Paths, c \in Contents : Drop(p, c)
         \/ \E t \in Callers, p \in Paths : Call(t, p)
         \/ LoopStep \/ Crash \/ Restart
         \/ \E c \in Contents, s \in Sensitivities : ChangeRow(c, s)
         \/ ChangeManifest \/ ChangeRecord
  PROVE  TypeOK'
<1> USE DEF TypeOK, disk, database, control, environment, bounds
<1>1. ASSUME NEW p \in Paths, NEW c \in Contents, Drop(p, c) PROVE TypeOK'
  BY <1>1 DEF Drop, DiskTypes, DatabaseTypes, ControlTypes, EnvironmentTypes
<1>2. ASSUME NEW t \in Callers, NEW p \in Paths, Call(t, p) PROVE TypeOK'
  <2>1. ControlTypes'
    BY <1>2, StartTypes DEF Call
  <2>. QED BY <1>2, <2>1 DEF Call, DiskTypes, DatabaseTypes, EnvironmentTypes
<1>3. CASE List
  BY <1>3 DEF List, DiskTypes, DatabaseTypes, ControlTypes, EnvironmentTypes
<1>4. ASSUME NEW p \in Paths, TakeListed(p) PROVE TypeOK'
  <2>1. ControlTypes'
    BY <1>4, StartTypes DEF TakeListed, Callers, Daemon
  <2>. QED BY <1>4, <2>1 DEF TakeListed, DiskTypes, DatabaseTypes, EnvironmentTypes
<1>5. ASSUME NEW p \in Paths, ListedFileGone(p) PROVE TypeOK'
  <2>1. Daemon \in SUBSET Callers /\ faults' \in Nat
    BY <1>5 DEF Callers, ListedFileGone, EnvironmentTypes
  <2>2. CASE Stop(Daemon)
    BY <1>5, <2>1, <2>2, StopTypes DEF ListedFileGone
  <2>3. CASE todo' = {} /\ UNCHANGED <<disk, database, control, up, owner, cut>>
    BY <1>5, <2>3 DEF ListedFileGone, DiskTypes, DatabaseTypes, ControlTypes,
       EnvironmentTypes, bounds, disk, database, control
  <2>. QED BY <1>5, <2>2, <2>3 DEF ListedFileGone
<1>6. CASE Crash
  <2>1. PICK threads \in {Daemon} \cup {{k} : k \in Commands} : Stop(threads)
    BY <1>6 DEF Crash
  <2>2. threads \in SUBSET Callers /\ faults' \in Nat
    BY <1>6, <2>1 DEF Callers, Crash, EnvironmentTypes
  <2>. QED BY <1>6, <2>1, <2>2, StopTypes DEF Crash
<1>7. CASE Restart
  BY <1>7 DEF Restart, DiskTypes, DatabaseTypes, ControlTypes, EnvironmentTypes
<1>8. ASSUME NEW c \in Contents, NEW s \in Sensitivities, ChangeRow(c, s) PROVE TypeOK'
  <2>1. row[c] \in Entry
    BY <1>8 DEF ChangeRow, DatabaseTypes
  <2>2. [row[c] EXCEPT !.sens = s] \in Entry
    BY <2>1 DEF Entry
  <2>3. row' = [row EXCEPT ![c] = [row[c] EXCEPT !.sens = s]]
    BY <1>8 DEF ChangeRow
  <2>4. DatabaseTypes'
    BY <1>8, <2>2, <2>3 DEF ChangeRow, DatabaseTypes
  <2>5. EnvironmentTypes'
    BY <1>8, NoneAssumption DEF ChangeRow, EnvironmentTypes
  <2>. QED BY <1>8, <2>4, <2>5 DEF ChangeRow, DiskTypes, ControlTypes
<1>9. CASE ChangeManifest
  <2>1. manifest' \in [Contents -> Entry \cup {None}]
    <3>1. CASE manifest[owner.source] = None
      BY <1>9, <3>1 DEF ChangeManifest, DiskTypes
    <3>2. CASE manifest[owner.source] # None
      <4>1. owner.source \in Contents /\ owner.sens \in Sensitivities
        BY <1>9 DEF ChangeManifest, EnvironmentTypes
      <4> DEFINE m == manifest[owner.source]
      <4>2. m \in Entry
        BY <3>2, <4>1 DEF DiskTypes
      <4>3. [m EXCEPT !.sens = owner.sens] \in Entry
        BY <4>1, <4>2 DEF Entry
      <4>4. manifest' = [manifest EXCEPT ![owner.source] = [m EXCEPT !.sens = owner.sens]]
        BY <1>9, <3>2 DEF ChangeManifest
      <4>. QED BY <4>1, <4>3, <4>4 DEF DiskTypes
    <3>. QED BY <3>1, <3>2
  <2>2. EnvironmentTypes'
    BY <1>9 DEF ChangeManifest, EnvironmentTypes
  <2>. QED BY <1>9, <2>1, <2>2 DEF ChangeManifest, DiskTypes, DatabaseTypes, ControlTypes
<1>10. CASE ChangeRecord
  <2>1. record' \in [Contents -> Entry \cup {None}]
    <3>1. CASE record[owner.source] = None
      BY <1>10, <3>1 DEF ChangeRecord, DiskTypes
    <3>2. CASE record[owner.source] # None
      <4>1. owner.source \in Contents /\ owner.sens \in Sensitivities
        BY <1>10 DEF ChangeRecord, EnvironmentTypes
      <4> DEFINE m == record[owner.source]
      <4>2. m \in Entry
        BY <3>2, <4>1 DEF DiskTypes
      <4>3. [m EXCEPT !.sens = owner.sens] \in Entry
        BY <4>1, <4>2 DEF Entry
      <4>4. record' = [record EXCEPT ![owner.source] = [m EXCEPT !.sens = owner.sens]]
        BY <1>10, <3>2 DEF ChangeRecord
      <4>. QED BY <4>1, <4>3, <4>4 DEF DiskTypes
    <3>. QED BY <3>1, <3>2
  <2>2. EnvironmentTypes'
    BY <1>10 DEF ChangeRecord, EnvironmentTypes, Sensitivities
  <2>. QED BY <1>10, <2>1, <2>2 DEF ChangeRecord, DiskTypes, DatabaseTypes, ControlTypes
<1>. QED
  BY <1>1, <1>2, <1>3, <1>4, <1>5, <1>6, <1>7, <1>8, <1>9, <1>10 DEF LoopStep

\* The types survive every step of ingest_file.
LEMMA CallTypes ==
  ASSUME TypeOK, NEW t \in Callers, CallStep(t) \/ Raise(t)
  PROVE  TypeOK'
<1> USE DEF TypeOK, disk, database, control, environment, bounds
<1> DEFINE Labelled(l) == l \in Hashed
<1>0. ASSUME NEW l \in {"preserve", "stat", "manifest", "record", "clear", "expose",
                        "extract", "extracted", "segments", "final_row", "final_job",
                        "final_manifest", "final_record", "final_clear", "lookup"}
      PROVE  l \in Hashed
  BY <1>0 DEF Hashed, Opening, Parsing, Closing
<1>1. ASSUME Hash(t) PROVE TypeOK'
  <2>1. CASE Fail(t, "FAILED")
    BY <1>1, <2>1, FailTypes DEF Hash, Failures, DiskTypes, EnvironmentTypes
  <2>2. CASE ~ Fail(t, "FAILED")
    <3>1. on[t] \in Paths /\ inbox[on[t]] \in Contents
      BY <1>1, <2>2 DEF Hash, ControlTypes, DiskTypes
    <3>2. /\ pc' = [pc EXCEPT ![t] = "lookup"]
          /\ got' = [got EXCEPT ![t] = inbox[on[t]]]
          /\ on' = on /\ row' = row /\ waiting' = waiting
      BY <1>1, <2>2 DEF Hash
    <3>3. "lookup" \in Hashed /\ "lookup" \in Working
      BY DEF Hashed, Working
    <3>4. ASSUME NEW u \in Callers
          PROVE  /\ pc'[u] # "idle" => on'[u] \in Paths
                 /\ pc'[u] \in Hashed <=> got'[u] # None
      <4>1. CASE u = t
        BY <3>1, <3>2, <3>3, <4>1, NoneAssumption DEF ControlTypes
      <4>2. CASE u # t
        BY <3>2, <4>2 DEF ControlTypes
      <4>. QED BY <4>1, <4>2
    <3>5. ControlTypes'
      BY <3>1, <3>2, <3>3, <3>4 DEF ControlTypes
    <3>. QED BY <1>1, <3>2, <3>5 DEF Hash, DiskTypes, DatabaseTypes, EnvironmentTypes
  <2>. QED BY <2>1, <2>2
<1>2. ASSUME Lookup(t) PROVE TypeOK'
  <2>1. pc[t] \in Hashed
    BY <1>2, <1>0 DEF Lookup
  <2>2. ControlTypes' /\ waiting' \subseteq Contents
    <3>1. CASE row[got[t]] # None
      BY <1>2, <3>1, EndCallTypes DEF Lookup
    <3>2. CASE row[got[t]] = None
      BY <1>2, <1>0, <2>1, <3>2, GotoTypes DEF Lookup, DatabaseTypes
    <3>. QED BY <3>1, <3>2
  <2>. QED BY <1>2, <2>2 DEF Lookup, DiskTypes, DatabaseTypes, EnvironmentTypes
<1>3. ASSUME Preserve(t) PROVE TypeOK'
  <2>1. pc[t] \in Hashed
    BY <1>3, <1>0 DEF Preserve
  <2>2. Target(t) \in Contents \X {NameOf[p] : p \in Paths}
    BY <2>1, HashedCall DEF Target
  <2>3. raw' \subseteq Contents \X {NameOf[p] : p \in Paths}
    BY <1>3, <2>2 DEF Preserve, DiskTypes
  <2>4. ControlTypes' /\ DatabaseTypes'
    <3>1. CASE Fail(t, "FAILED")
      BY <1>3, <3>1, FailTypes DEF Preserve, Failures
    <3>2. CASE ~ Fail(t, "FAILED")
      BY <1>3, <1>0, <2>1, <3>2, GotoTypes DEF Preserve, DatabaseTypes
    <3>. QED BY <3>1, <3>2
  <2>. QED BY <1>3, <2>3, <2>4 DEF Preserve, DiskTypes, EnvironmentTypes
<1>4. ASSUME Stat(t) PROVE TypeOK'
  <2>1. pc[t] \in Hashed
    BY <1>4, <1>0 DEF Stat
  <2>2. ControlTypes' /\ DatabaseTypes'
    <3>1. CASE inbox[on[t]] = None
      BY <1>4, <3>1, FailTypes DEF Stat, Failures
    <3>2. CASE inbox[on[t]] # None
      BY <1>4, <1>0, <2>1, <3>2, GotoTypes DEF Stat, DatabaseTypes
    <3>. QED BY <3>1, <3>2
  <2>. QED BY <1>4, <2>2 DEF Stat, DiskTypes, EnvironmentTypes
<1>5. ASSUME WriteManifest(t) PROVE TypeOK'
  <2>1. pc[t] \in Hashed
    BY <1>5, <1>0 DEF WriteManifest
  <2>2. ControlTypes'
    BY <1>5, <1>0, <2>1, GotoTypes DEF WriteManifest
  <2>3. got[t] \in Contents /\ Source(t, "PRESERVED") \in Entry
        /\ Source(t, FinalState(on[t], got[t])) \in Entry
    BY <2>1, HashedCall, SourceType, FinalStateType
  <2>4. manifest' \in [Contents -> Entry \cup {None}]
    BY <1>5, <2>3 DEF WriteManifest, DiskTypes
  <2>. QED BY <1>5, <2>2, <2>4 DEF WriteManifest, DiskTypes, DatabaseTypes, EnvironmentTypes
<1>6. ASSUME WriteRecord(t) PROVE TypeOK'
  <2>1. pc[t] \in Hashed
    BY <1>6, <1>0 DEF WriteRecord
  <2>2. ControlTypes'
    BY <1>6, <1>0, <2>1, GotoTypes DEF WriteRecord
  <2>3. got[t] \in Contents /\ Source(t, "PRESERVED") \in Entry
        /\ Source(t, FinalState(on[t], got[t])) \in Entry
    BY <2>1, HashedCall, SourceType, FinalStateType
  <2>4. record' \in [Contents -> Entry \cup {None}]
    BY <1>6, <2>3 DEF WriteRecord, DiskTypes
  <2>5. index' \in [Contents -> SUBSET {"segments", "record"}]
    <3>1. index[got[t]] \cup {"record"} \in SUBSET {"segments", "record"}
      BY <2>3 DEF DatabaseTypes
    <3>. QED BY <1>6, <3>1 DEF WriteRecord, DatabaseTypes
  <2>. QED BY <1>6, <2>2, <2>4, <2>5 DEF WriteRecord, DiskTypes, DatabaseTypes, EnvironmentTypes
<1>7. ASSUME ClearInbox(t) PROVE TypeOK'
  <2>1. pc[t] \in Hashed
    BY <1>7, <1>0 DEF ClearInbox
  <2>2. got[t] \in Contents
    BY <2>1, HashedCall
  <2>3. ControlTypes' /\ waiting' \subseteq Contents
    <3>1. CASE pc[t] = "clear"
      BY <1>7, <1>0, <2>1, <3>1, GotoTypes DEF ClearInbox, DatabaseTypes
    <3>2. CASE pc[t] = "final_clear"
      BY <1>7, <2>2, <3>2, EndCallTypes DEF ClearInbox
    <3>. QED BY <1>7, <3>1, <3>2 DEF ClearInbox
  <2>4. inbox' \in [Paths -> Contents \cup {None}] /\ faults' \in Nat
    BY <1>7 DEF ClearInbox, DiskTypes, EnvironmentTypes
  <2>. QED BY <1>7, <2>3, <2>4 DEF ClearInbox, DiskTypes, DatabaseTypes, EnvironmentTypes
<1>8. ASSUME NEW s \in Holding \cup {"PRESERVED", "EXTRACTED"}, pc[t] \in Hashed, Upsert(t, s)
      PROVE  row' \in [Contents -> Entry \cup {None}]
  <2>1. got[t] \in Contents /\ Source(t, s) \in Entry
    BY <1>8, HashedCall, SourceType
  <2>. QED BY <1>8, <2>1 DEF Upsert, DatabaseTypes
<1>9. ASSUME Expose(t) PROVE TypeOK'
  <2>1. pc[t] \in Hashed
    BY <1>9, <1>0 DEF Expose
  <2>2. ControlTypes'
    BY <1>9, <1>0, <2>1, GotoTypes DEF Expose
  <2>3. row' \in [Contents -> Entry \cup {None}]
    BY <1>9, <1>8, <2>1 DEF Expose
  <2>. QED BY <1>9, <2>2, <2>3 DEF Expose, DiskTypes, DatabaseTypes, EnvironmentTypes
<1>10. ASSUME Extract(t) PROVE TypeOK'
  <2>1. pc[t] \in Hashed
    BY <1>10, <1>0 DEF Extract
  <2>2. ControlTypes' /\ DatabaseTypes'
    <3>1. CASE Fail(t, "QUARANTINED")
      BY <1>10, <3>1, FailTypes DEF Extract, Failures
    <3>2. CASE ~ Fail(t, "QUARANTINED")
      BY <1>10, <1>0, <2>1, <3>2, GotoTypes DEF Extract, DatabaseTypes
    <3>. QED BY <3>1, <3>2
  <2>3. faults' \in Nat
    BY <1>10 DEF Extract, EnvironmentTypes
  <2>. QED BY <1>10, <2>2, <2>3 DEF Extract, DiskTypes, EnvironmentTypes
<1>11. ASSUME UpsertExtracted(t) PROVE TypeOK'
  <2>1. pc[t] \in Hashed
    BY <1>11, <1>0 DEF UpsertExtracted
  <2>2. ControlTypes'
    BY <1>11, <1>0, <2>1, GotoTypes DEF UpsertExtracted
  <2>3. row' \in [Contents -> Entry \cup {None}]
    BY <1>11, <1>8, <2>1 DEF UpsertExtracted
  <2>. QED BY <1>11, <2>2, <2>3
       DEF UpsertExtracted, DiskTypes, DatabaseTypes, EnvironmentTypes
<1>12. ASSUME ReplaceSegments(t) PROVE TypeOK'
  <2>1. pc[t] \in Hashed
    BY <1>12, <1>0 DEF ReplaceSegments
  <2>2. ControlTypes'
    BY <1>12, <1>0, <2>1, GotoTypes DEF ReplaceSegments
  <2>3. index' \in [Contents -> SUBSET {"segments", "record"}]
    BY <1>12, <2>1, HashedCall DEF ReplaceSegments, DatabaseTypes
  <2>. QED BY <1>12, <2>2, <2>3
       DEF ReplaceSegments, DiskTypes, DatabaseTypes, EnvironmentTypes
<1>13. ASSUME UpsertFinal(t) PROVE TypeOK'
  <2>1. pc[t] \in Hashed
    BY <1>13, <1>0 DEF UpsertFinal
  <2>2. ControlTypes'
    BY <1>13, <1>0, <2>1, GotoTypes DEF UpsertFinal
  <2>3. row' \in [Contents -> Entry \cup {None}]
    BY <1>13, <1>8, <2>1, FinalStateType DEF UpsertFinal
  <2>. QED BY <1>13, <2>2, <2>3 DEF UpsertFinal, DiskTypes, DatabaseTypes, EnvironmentTypes
<1>14. ASSUME FinishJob(t) PROVE TypeOK'
  <2>1. ControlTypes'
    BY <1>14, <1>0, GotoTypes DEF FinishJob
  <2>. QED BY <1>14, <2>1 DEF FinishJob, DiskTypes, DatabaseTypes, EnvironmentTypes
<1>15. ASSUME Raise(t) PROVE TypeOK'
  <2>1. ControlTypes' /\ DatabaseTypes'
    BY <1>15, FailTypes DEF Raise, Failures
  <2>2. faults' \in Nat
    BY <1>15 DEF Raise, EnvironmentTypes
  <2>. QED BY <1>15, <2>1, <2>2 DEF Raise, DiskTypes, EnvironmentTypes
<1>. QED
  BY <1>1, <1>2, <1>3, <1>4, <1>5, <1>6, <1>7, <1>9, <1>10, <1>11, <1>12, <1>13,
     <1>14, <1>15 DEF CallStep

\* The program starts with empty stores and no call.
LEMMA InitialTypes == Init => TypeOK
<1> SUFFICES ASSUME Init PROVE TypeOK
  OBVIOUS
<1>1. "idle" \notin Hashed
  BY DEF Hashed, Opening, Parsing, Closing
<1>2. ControlTypes
  BY <1>1 DEF Init, ControlTypes
<1>3. DiskTypes /\ DatabaseTypes
  BY DEF Init, DiskTypes, DatabaseTypes
<1>4. EnvironmentTypes
  BY DEF Init, EnvironmentTypes, Sensitivities
<1>. QED BY <1>2, <1>3, <1>4 DEF TypeOK

LEMMA TypeStep == TypeOK /\ [Next]_vars => TypeOK'
<1> SUFFICES ASSUME TypeOK, [Next]_vars PROVE TypeOK'
  OBVIOUS
<1>1. CASE UNCHANGED vars
  BY <1>1 DEF vars, disk, database, control, environment, bounds,
              TypeOK, DiskTypes, DatabaseTypes, ControlTypes, EnvironmentTypes
<1>2. CASE \E t \in Callers : CallStep(t) \/ Raise(t)
  BY <1>2, CallTypes
<1>3. CASE Next /\ ~ \E t \in Callers : CallStep(t) \/ Raise(t)
  BY <1>3, OuterTypes DEF Next
<1>. QED BY <1>1, <1>2, <1>3

\* The variables keep their types in every behaviour: in particular a caller in
\* ingest_file always has a path, and a digest from hashing on and only then.
THEOREM Types == Spec => []TypeOK
<1>. QED BY InitialTypes, TypeStep, PTL DEF Spec

-----------------------------------------------------------------------------
(* Evidence.                                                               *)

\* From these labels on the raw copy, the manifest, the Source Record exist.
Copied == Hashed \ {"lookup", "preserve"}
Described == Copied \ {"stat", "manifest"}
Recorded == Described \ {"record"}

\* What a call past a label relies on: the file it hashed is still the one at its
\* path, unless it has been removed, and what it has written is in place.
CallInv(t) ==
  /\ pc[t] \in Hashed => inbox[on[t]] \in {got[t], None}
  /\ pc[t] \in Copied => Target(t) \in raw
  /\ pc[t] \in Described => manifest[got[t]] # None
  /\ pc[t] \in Recorded => record[got[t]] # None

\* The inductive invariant.
EvidenceInv == TypeOK /\ \A t \in Callers : CallInv(t)

\* A step that leaves a call where it is, and takes neither raw copies nor
\* manifests nor records away, keeps the call's part, if it leaves its file alone.
LEMMA OthersKeep ==
  ASSUME TypeOK, NEW u \in Callers, CallInv(u),
         pc'[u] = pc[u], on'[u] = on[u], got'[u] = got[u],
         inbox'[on[u]] \in {inbox[on[u]], None},
         raw \subseteq raw',
         \A c \in Contents : manifest[c] # None => manifest'[c] # None,
         \A c \in Contents : record[c] # None => record'[c] # None
  PROVE  CallInv(u)'
<1>1. CASE pc[u] \in Hashed
  <2>1. on[u] \in Paths /\ got[u] \in Contents
    BY <1>1, HashedCall DEF TypeOK
  <2>. QED BY <1>1, <2>1 DEF CallInv, Target
<1>2. CASE pc[u] \notin Hashed
  BY <1>2 DEF CallInv, Copied, Described, Recorded
<1>. QED BY <1>1, <1>2

\* A caller that is not past hashing relies on nothing.
LEMMA NothingHashed ==
  ASSUME NEW u, pc[u] \notin Hashed
  PROVE  CallInv(u)
BY DEF CallInv, Copied, Described, Recorded

LEMMA OutsideHashed == "idle" \notin Hashed /\ "hash" \notin Hashed
BY DEF Hashed, Opening, Parsing, Closing

\* The end of a call, for the caller and the others.
LEMMA EndKeeps ==
  ASSUME EvidenceInv, NEW t \in Callers, NEW state, EndCall(t, state),
         inbox' = inbox \/ inbox' = [inbox EXCEPT ![on[t]] = None],
         UNCHANGED <<raw, manifest, record>>
  PROVE  \A u \in Callers : CallInv(u)'
<1> SUFFICES ASSUME NEW u \in Callers PROVE CallInv(u)'
  OBVIOUS
<1> USE DEF EvidenceInv
<1>1. CASE u = t
  <2>1. pc'[u] = "idle"
    BY <1>1 DEF EndCall, TypeOK, ControlTypes
  <2>. QED BY <2>1, OutsideHashed DEF CallInv, Copied, Described, Recorded
<1>2. CASE u # t
  <2>1. pc'[u] = pc[u] /\ on'[u] = on[u] /\ got'[u] = got[u]
    BY <1>2 DEF EndCall, TypeOK, ControlTypes
  <2>2. inbox'[on[u]] \in {inbox[on[u]], None} \/ pc[u] \notin Hashed
    BY HashedCall DEF TypeOK, DiskTypes
  <2>3. CASE pc[u] \in Hashed
    BY <2>1, <2>2, <2>3, OthersKeep
  <2>4. CASE pc[u] \notin Hashed
    BY <2>1, <2>4 DEF CallInv, Copied, Described, Recorded
  <2>. QED BY <2>3, <2>4
<1>. QED BY <1>1, <1>2

\* Going on in a call, for the others.
LEMMA GotoKeepsOthers ==
  ASSUME EvidenceInv, NEW t \in Callers, pc[t] \in Hashed, NEW l, Goto(t, l),
         inbox' = inbox \/ inbox' = [inbox EXCEPT ![on[t]] = None],
         raw \subseteq raw',
         \A c \in Contents : manifest[c] # None => manifest'[c] # None,
         \A c \in Contents : record[c] # None => record'[c] # None,
         CallInv(t)'
  PROVE  \A u \in Callers : CallInv(u)'
<1> SUFFICES ASSUME NEW u \in Callers, u # t PROVE CallInv(u)'
  OBVIOUS
<1> USE DEF EvidenceInv
<1>1. pc'[u] = pc[u] /\ on'[u] = on[u] /\ got'[u] = got[u]
  BY DEF Goto, TypeOK, ControlTypes
<1>2. CASE pc[u] \in Hashed
  <2>1. inbox'[on[u]] \in {inbox[on[u]], None}
    BY <1>2, HashedCall DEF TypeOK, DiskTypes
  <2>. QED BY <1>1, <2>1, OthersKeep
<1>3. CASE pc[u] \notin Hashed
  BY <1>1, <1>3 DEF CallInv, Copied, Described, Recorded
<1>. QED BY <1>2, <1>3

\* Every step of ingest_file keeps what the calls rely on.
LEMMA CallEvidence ==
  ASSUME EvidenceInv, NEW t \in Callers, CallStep(t) \/ Raise(t)
  PROVE  \A u \in Callers : CallInv(u)'
<1> USE DEF EvidenceInv, disk, database
<1>0. ControlTypes /\ CallInv(t)
  BY DEF TypeOK
<1>1. ASSUME Hash(t) PROVE \A u \in Callers : CallInv(u)'
  <2>1. CASE Fail(t, "FAILED")
    BY <1>1, <2>1, EndKeeps DEF Hash, Fail
  <2>2. CASE ~ Fail(t, "FAILED")
    <3> SUFFICES ASSUME NEW u \in Callers PROVE CallInv(u)'
      OBVIOUS
    <3>1. /\ pc' = [pc EXCEPT ![t] = "lookup"]
          /\ got' = [got EXCEPT ![t] = inbox[on[t]]]
          /\ on' = on /\ UNCHANGED disk
      BY <1>1, <2>2 DEF Hash
    <3>2. CASE u = t
      <4>1. pc'[u] = "lookup" /\ got'[u] = inbox[on[u]]
        BY <3>1, <3>2 DEF TypeOK, ControlTypes
      <4>2. "lookup" \notin Copied
        BY DEF Copied
      <4>. QED BY <3>1, <4>1, <4>2 DEF CallInv, Described, Recorded
    <3>3. CASE u # t
      <4>1. pc'[u] = pc[u] /\ got'[u] = got[u] /\ on'[u] = on[u]
        BY <3>1, <3>3 DEF TypeOK, ControlTypes
      <4>. QED BY <3>1, <4>1, OthersKeep
    <3>. QED BY <3>2, <3>3
  <2>. QED BY <2>1, <2>2
<1>2. ASSUME Lookup(t) PROVE \A u \in Callers : CallInv(u)'
  <2>1. pc[t] \in Hashed
    BY <1>2 DEF Lookup, Hashed
  <2>2. CASE row[got[t]] # None
    BY <1>2, <2>2, EndKeeps DEF Lookup
  <2>3. CASE row[got[t]] = None
    <3>1. Goto(t, "preserve") /\ UNCHANGED disk
      BY <1>2, <2>3 DEF Lookup
    <3>2. CallInv(t)'
      BY <1>0, <2>1, <3>1 DEF Goto, ControlTypes, CallInv, Copied, Described, Recorded
    <3>. QED BY <2>1, <3>1, <3>2, GotoKeepsOthers
  <2>. QED BY <2>2, <2>3
<1>3. ASSUME Preserve(t) PROVE \A u \in Callers : CallInv(u)'
  <2>1. pc[t] \in Hashed
    BY <1>3 DEF Preserve, Hashed, Opening
  <2>2. CASE Fail(t, "FAILED") /\ UNCHANGED raw
    BY <1>3, <2>2, EndKeeps DEF Preserve, Fail
  <2>3. CASE ~ (Fail(t, "FAILED") /\ UNCHANGED raw)
    <3>1. Goto(t, "stat") /\ UNCHANGED <<inbox, manifest, record>>
          /\ raw \subseteq raw' /\ Target(t) \in raw'
      BY <1>3, <2>3 DEF Preserve
    <3>2. CallInv(t)'
      BY <1>0, <2>1, <3>1
         DEF Goto, ControlTypes, CallInv, Target, Copied, Described, Recorded
    <3>. QED BY <2>1, <3>1, <3>2, GotoKeepsOthers
  <2>. QED BY <2>2, <2>3
<1>4. ASSUME Stat(t) PROVE \A u \in Callers : CallInv(u)'
  <2>1. pc[t] \in Hashed /\ pc[t] \in Copied
    BY <1>4 DEF Stat, Copied, Hashed, Opening
  <2>2. CASE inbox[on[t]] = None
    BY <1>4, <2>2, EndKeeps DEF Stat, Fail
  <2>3. CASE inbox[on[t]] # None
    <3>1. Goto(t, "manifest") /\ UNCHANGED disk
      BY <1>4, <2>3 DEF Stat
    <3>2. CallInv(t)'
      BY <1>0, <2>1, <3>1
         DEF Goto, ControlTypes, CallInv, Target, Copied, Described, Recorded
    <3>. QED BY <2>1, <3>1, <3>2, GotoKeepsOthers
  <2>. QED BY <2>2, <2>3
<1>5. ASSUME WriteManifest(t) PROVE \A u \in Callers : CallInv(u)'
  <2>1. pc[t] \in Hashed /\ pc[t] \in Copied
    BY <1>5 DEF WriteManifest, Copied, Hashed, Opening, Closing
  <2>2. got[t] \in Contents
    BY <1>0, <2>1, HashedCall
  <2>3. PICK m \in Entry : manifest' = [manifest EXCEPT ![got[t]] = m]
    <3>1. Source(t, "PRESERVED") \in Entry /\ Source(t, FinalState(on[t], got[t])) \in Entry
      BY <1>0, <2>1, SourceType, FinalStateType
    <3>. QED BY <1>5, <3>1 DEF WriteManifest
  <2>4. manifest'[got[t]] # None
        /\ \A c \in Contents : manifest[c] # None => manifest'[c] # None
    BY <2>2, <2>3, NoneAssumption DEF TypeOK, DiskTypes
  <2>5. PICK l \in {"record", "final_record"} :
          Goto(t, l) /\ (l = "final_record" <=> pc[t] = "final_manifest")
    BY <1>5 DEF WriteManifest
  <2>6. UNCHANGED <<inbox, raw, record>>
    BY <1>5 DEF WriteManifest
  <2>7. pc[t] = "final_manifest" => pc[t] \in Recorded
    BY DEF Recorded, Described, Copied, Hashed, Closing
  <2>8. CallInv(t)'
    <3>1. pc'[t] = l /\ on'[t] = on[t] /\ got'[t] = got[t]
      BY <1>0, <2>5 DEF Goto, ControlTypes
    <3>2. inbox'[on[t]] \in {got[t], None} /\ Target(t) \in raw
      BY <1>0, <2>1, <2>6 DEF CallInv
    <3>3. l \in Recorded => record'[got[t]] # None
      BY <1>0, <2>5, <2>6, <2>7 DEF CallInv, Recorded
    <3>. QED BY <2>4, <2>6, <3>1, <3>2, <3>3 DEF CallInv, Target
  <2>. QED BY <2>1, <2>4, <2>5, <2>6, <2>8, GotoKeepsOthers
<1>6. ASSUME WriteRecord(t) PROVE \A u \in Callers : CallInv(u)'
  <2>1. pc[t] \in Hashed /\ pc[t] \in Copied /\ pc[t] \in Described
    BY <1>6 DEF WriteRecord, Described, Copied, Hashed, Opening, Closing
  <2>2. got[t] \in Contents
    BY <1>0, <2>1, HashedCall
  <2>3. PICK m \in Entry : record' = [record EXCEPT ![got[t]] = m]
    <3>1. Source(t, "PRESERVED") \in Entry /\ Source(t, FinalState(on[t], got[t])) \in Entry
      BY <1>0, <2>1, SourceType, FinalStateType
    <3>. QED BY <1>6, <3>1 DEF WriteRecord
  <2>4. record'[got[t]] # None
        /\ \A c \in Contents : record[c] # None => record'[c] # None
    BY <2>2, <2>3, NoneAssumption DEF TypeOK, DiskTypes
  <2>5. PICK l \in {"clear", "final_clear"} : Goto(t, l)
    BY <1>6 DEF WriteRecord
  <2>6. UNCHANGED <<inbox, raw, manifest>>
    BY <1>6 DEF WriteRecord
  <2>7. CallInv(t)'
    <3>1. pc'[t] = l /\ on'[t] = on[t] /\ got'[t] = got[t]
      BY <1>0, <2>5 DEF Goto, ControlTypes
    <3>2. inbox'[on[t]] \in {got[t], None} /\ Target(t) \in raw /\ manifest[got[t]] # None
      BY <1>0, <2>1, <2>6 DEF CallInv
    <3>. QED BY <2>4, <2>6, <3>1, <3>2 DEF CallInv, Target
  <2>. QED BY <2>1, <2>4, <2>5, <2>6, <2>7, GotoKeepsOthers
<1>7. ASSUME ClearInbox(t) PROVE \A u \in Callers : CallInv(u)'
  <2>1. pc[t] \in Hashed /\ pc[t] \in Recorded
    BY <1>7 DEF ClearInbox, Recorded, Described, Copied, Hashed, Opening, Closing
  <2>2. inbox' = inbox \/ inbox' = [inbox EXCEPT ![on[t]] = None]
    BY <1>7 DEF ClearInbox
  <2>3. UNCHANGED <<raw, manifest, record>>
    BY <1>7 DEF ClearInbox
  <2>4. CASE pc[t] = "clear"
    <3>1. Goto(t, "expose")
      BY <1>7, <2>4 DEF ClearInbox
    <3>2. pc'[t] = "expose" /\ on'[t] = on[t] /\ got'[t] = got[t]
      BY <1>0, <3>1 DEF Goto, ControlTypes
    <3>3. on[t] \in Paths /\ inbox'[on[t]] \in {inbox[on[t]], None}
      BY <1>0, <2>1, <2>2, HashedCall DEF TypeOK, DiskTypes
    <3>4. CallInv(t)'
      BY <1>0, <2>1, <2>3, <3>2, <3>3 DEF CallInv, Target, Recorded, Described, Copied
    <3>. QED BY <2>1, <2>2, <2>3, <3>1, <3>4, GotoKeepsOthers
  <2>5. CASE pc[t] = "final_clear"
    BY <1>7, <2>2, <2>3, <2>5, EndKeeps DEF ClearInbox
  <2>. QED BY <1>7, <2>4, <2>5 DEF ClearInbox
\* The remaining steps go on in the call and leave the disk alone, or fail.
<1>8. ASSUME Expose(t) \/ UpsertExtracted(t) \/ ReplaceSegments(t) \/ UpsertFinal(t)
             \/ FinishJob(t) \/ Extract(t) \/ Raise(t)
      PROVE  \A u \in Callers : CallInv(u)'
  <2>1. UNCHANGED <<inbox, raw, manifest, record>>
    BY <1>8 DEF Expose, UpsertExtracted, ReplaceSegments, UpsertFinal, FinishJob,
                Extract, Raise
  <2>2. CASE \E s : Fail(t, s)
    BY <2>1, <2>2, EndKeeps DEF Fail
  <2>3. CASE ~ \E s : Fail(t, s)
    <3>1. PICK l : Goto(t, l)
      BY <1>8, <2>3 DEF Expose, UpsertExtracted, ReplaceSegments, UpsertFinal,
                        FinishJob, Extract, Raise
    <3>2. pc[t] \in Recorded /\ pc[t] \in Hashed
      BY <1>8, <2>3 DEF Expose, UpsertExtracted, ReplaceSegments, UpsertFinal,
                        FinishJob, Extract, Raise, Recorded, Described, Copied,
                        Hashed, Opening, Parsing, Closing
    <3>3. on'[t] = on[t] /\ got'[t] = got[t]
      BY <3>1 DEF Goto
    <3>4. CallInv(t)'
      BY <1>0, <2>1, <3>2, <3>3 DEF CallInv, Target, Recorded, Described, Copied
    <3>. QED BY <2>1, <3>1, <3>2, <3>4, GotoKeepsOthers
  <2>. QED BY <2>2, <2>3
<1>. QED
  BY <1>1, <1>2, <1>3, <1>4, <1>5, <1>6, <1>7, <1>8 DEF CallStep

\* Every other step does, too, as long as people leave a path alone while a call
\* works on it.
LEMMA OuterEvidence ==
  ASSUME EvidenceInv, Orderly, Next, ~ \E t \in Callers : CallStep(t) \/ Raise(t),
         NEW u \in Callers
  PROVE  CallInv(u)'
<1> USE DEF EvidenceInv, disk, control
<1>1. ASSUME NEW p \in Paths, NEW c \in Contents, Drop(p, c) PROVE CallInv(u)'
  <2>1. on[u] # p
    BY <1>1 DEF Drop
  <2>2. inbox'[on[u]] = inbox[on[u]] \/ pc[u] \notin Hashed
    BY <1>1, <2>1, HashedCall DEF Drop, TypeOK, DiskTypes
  <2>3. UNCHANGED control /\ UNCHANGED <<raw, manifest, record>>
    BY <1>1 DEF Drop
  <2>4. CASE pc[u] \in Hashed
    BY <2>2, <2>3, <2>4, OthersKeep
  <2>5. CASE pc[u] \notin Hashed
    BY <2>3, <2>5 DEF CallInv, Copied, Described, Recorded
  <2>. QED BY <2>4, <2>5
<1>2. ASSUME NEW t \in Callers, NEW p \in Paths, Start(t, p), UNCHANGED disk
      PROVE  CallInv(u)'
  <2>1. CASE u = t
    <3>1. pc'[u] = "hash"
      BY <1>2, <2>1 DEF Start, TypeOK, ControlTypes
    <3>. QED BY <3>1, OutsideHashed DEF CallInv, Copied, Described, Recorded
  <2>2. CASE u # t
    <3>1. pc'[u] = pc[u] /\ on'[u] = on[u] /\ got'[u] = got[u]
      BY <1>2, <2>2 DEF Start, TypeOK, ControlTypes
    <3>. QED BY <1>2, <3>1, OthersKeep
  <2>. QED BY <2>1, <2>2
<1>3. ASSUME NEW threads, Stop(threads) PROVE CallInv(u)'
  <2>1. CASE u \in threads
    <3>1. pc'[u] = "idle"
      BY <1>3, <2>1 DEF Stop
    <3>. QED BY <3>1, OutsideHashed DEF CallInv, Copied, Described, Recorded
  <2>2. CASE u \notin threads
    <3>1. pc'[u] = pc[u] /\ on'[u] = on[u] /\ got'[u] = got[u] /\ UNCHANGED disk
      BY <1>3, <2>2 DEF Stop
    <3>. QED BY <3>1, OthersKeep
  <2>. QED BY <2>1, <2>2
<1>4. ASSUME UNCHANGED disk, UNCHANGED control PROVE CallInv(u)'
  BY <1>4, OthersKeep
<1>5. ASSUME ChangeManifest PROVE CallInv(u)'
  <2>1. \A c \in Contents : manifest[c] # None => manifest'[c] # None
    <3>1. CASE manifest[owner.source] = None
      BY <1>5, <3>1 DEF ChangeManifest
    <3>2. CASE manifest[owner.source] # None
      <4>1. owner.source \in Contents /\ owner.sens \in Sensitivities
        BY <1>5 DEF ChangeManifest, TypeOK, EnvironmentTypes
      <4> DEFINE m == manifest[owner.source]
      <4>2. m \in Entry
        BY <3>2, <4>1 DEF TypeOK, DiskTypes
      <4>3. [m EXCEPT !.sens = owner.sens] \in Entry
        BY <4>1, <4>2 DEF Entry
      <4>4. manifest' = [manifest EXCEPT ![owner.source] = [m EXCEPT !.sens = owner.sens]]
        BY <1>5, <3>2 DEF ChangeManifest
      <4>. QED BY <4>1, <4>3, <4>4, NoneAssumption DEF TypeOK, DiskTypes
    <3>. QED BY <3>1, <3>2
  <2>. QED BY <1>5, <2>1, OthersKeep DEF ChangeManifest
<1>6. ASSUME ChangeRecord PROVE CallInv(u)'
  <2>1. \A c \in Contents : record[c] # None => record'[c] # None
    <3>1. CASE record[owner.source] = None
      BY <1>6, <3>1 DEF ChangeRecord
    <3>2. CASE record[owner.source] # None
      <4>1. owner.source \in Contents /\ owner.sens \in Sensitivities
        BY <1>6 DEF ChangeRecord, TypeOK, EnvironmentTypes
      <4> DEFINE m == record[owner.source]
      <4>2. m \in Entry
        BY <3>2, <4>1 DEF TypeOK, DiskTypes
      <4>3. [m EXCEPT !.sens = owner.sens] \in Entry
        BY <4>1, <4>2 DEF Entry
      <4>4. record' = [record EXCEPT ![owner.source] = [m EXCEPT !.sens = owner.sens]]
        BY <1>6, <3>2 DEF ChangeRecord
      <4>. QED BY <4>1, <4>3, <4>4, NoneAssumption DEF TypeOK, DiskTypes
    <3>. QED BY <3>1, <3>2
  <2>. QED BY <1>6, <2>1, OthersKeep DEF ChangeRecord
<1>7. ASSUME NEW t \in Callers, NEW p \in Paths, Call(t, p) PROVE CallInv(u)'
  BY <1>2, <1>7 DEF Call
<1>8. ASSUME NEW p \in Paths, TakeListed(p) PROVE CallInv(u)'
  <2>1. Loop \in Callers
    BY DEF Callers, Daemon
  <2>. QED BY <1>2, <1>8, <2>1 DEF TakeListed
<1>9. ASSUME NEW p \in Paths, ListedFileGone(p) PROVE CallInv(u)'
  <2>1. CASE Stop(Daemon)
    BY <1>3, <2>1
  <2>2. CASE todo' = {} /\ UNCHANGED <<disk, database, control, up, owner, cut>>
    BY <1>4, <2>2
  <2>. QED BY <1>9, <2>1, <2>2 DEF ListedFileGone
<1>10. CASE Crash
  BY <1>3, <1>10 DEF Crash
<1>11. CASE List \/ Restart
  BY <1>4, <1>11 DEF List, Restart
<1>12. ASSUME NEW c \in Contents, NEW s \in Sensitivities, ChangeRow(c, s) PROVE CallInv(u)'
  BY <1>4, <1>12 DEF ChangeRow
<1>. QED
  BY <1>1, <1>5, <1>6, <1>7, <1>8, <1>9, <1>10, <1>11, <1>12 DEF Next, LoopStep

LEMMA EvidenceStep ==
  ASSUME Orderly
  PROVE  EvidenceInv /\ [Next]_vars => EvidenceInv'
<1> SUFFICES ASSUME EvidenceInv, [Next]_vars PROVE EvidenceInv'
  OBVIOUS
<1>1. TypeOK'
  BY TypeStep DEF EvidenceInv
<1>2. CASE UNCHANGED vars
  BY <1>1, <1>2 DEF EvidenceInv, CallInv, Target, vars, disk, control
<1>3. CASE \E t \in Callers : CallStep(t) \/ Raise(t)
  BY <1>1, <1>3, CallEvidence DEF EvidenceInv
<1>4. CASE Next /\ ~ \E t \in Callers : CallStep(t) \/ Raise(t)
  BY <1>1, <1>4, OuterEvidence DEF EvidenceInv
<1>. QED BY <1>2, <1>3, <1>4

\* Only ClearInbox removes a file, and it removes what its call relies on.
LEMMA RemovalStep ==
  ASSUME EvidenceInv, [Next]_vars,
         NEW p \in Paths, inbox[p] # None, inbox'[p] = None
  PROVE  Recoverable(inbox[p])
<1> USE DEF EvidenceInv, disk, TypeOK
<1>1. PICK t \in Callers : ClearInbox(t)
  <2>1. inbox' # inbox
    OBVIOUS
  <2>2. ASSUME NEW q \in Paths, NEW c \in Contents, Drop(q, c) PROVE FALSE
    BY <2>2, NoneAssumption DEF Drop, DiskTypes
  <2>3. ASSUME NEW threads, Stop(threads) PROVE FALSE
    BY <2>1, <2>3 DEF Stop
  <2>4. ASSUME NEW t \in Callers, CallStep(t) \/ Raise(t), ~ ClearInbox(t) PROVE FALSE
    BY <2>1, <2>4 DEF CallStep, Raise, Hash, Lookup, Preserve, Stat, WriteManifest,
       WriteRecord, Expose, Extract, UpsertExtracted, ReplaceSegments, UpsertFinal,
       FinishJob
  <2>5. ~ ListedFileGone(p) /\ ~ Crash /\ \A q \in Paths : ~ ListedFileGone(q)
    BY <2>3 DEF ListedFileGone, Crash
  <2>6. UNCHANGED vars => FALSE
    BY <2>1 DEF vars
  <2>7. ASSUME List \/ Restart \/ ChangeManifest \/ ChangeRecord
               \/ (\E q \in Paths : TakeListed(q))
               \/ (\E t \in Callers, q \in Paths : Call(t, q))
               \/ (\E c \in Contents, s \in Sensitivities : ChangeRow(c, s))
        PROVE  FALSE
    BY <2>1, <2>7 DEF List, Restart, ChangeManifest, ChangeRecord, TakeListed, Call,
       ChangeRow
  <2>. QED BY <2>2, <2>4, <2>5, <2>6, <2>7 DEF Next, LoopStep
<1>2. pc[t] \in Hashed /\ pc[t] \in Copied /\ pc[t] \in Described /\ pc[t] \in Recorded
  BY <1>1 DEF ClearInbox, Recorded, Described, Copied, Hashed, Opening, Closing
<1>3. on[t] = p
  BY <1>1 DEF ClearInbox, DiskTypes
<1>4. inbox[p] = got[t]
  BY <1>2, <1>3 DEF CallInv
<1>5. Target(t) \in raw /\ manifest[got[t]] # None /\ record[got[t]] # None
  BY <1>2 DEF CallInv
<1>. QED BY <1>3, <1>4, <1>5 DEF Recoverable, Target

\* Ingestion loses no evidence, whatever number of calls works on a file, wherever
\* they raise or die: if people leave a path alone while a call works on it, a
\* file leaves the Inbox only when a rebuild could bring its source back.
THEOREM EvidenceIsKept ==
  ASSUME Orderly
  PROVE  Spec => EvidenceKept
<1>1. Init => EvidenceInv
  <2> SUFFICES ASSUME Init PROVE EvidenceInv
    OBVIOUS
  <2>1. \A t \in Callers : CallInv(t)
    BY OutsideHashed DEF Init, CallInv, Copied, Described, Recorded
  <2>. QED BY <2>1, InitialTypes DEF EvidenceInv
<1>2. EvidenceInv /\ [Next]_vars => EvidenceInv'
  BY EvidenceStep
<1>3. EvidenceInv /\ [Next]_vars =>
        [\A p \in Paths :
           inbox[p] # None /\ inbox'[p] = None => Recoverable(inbox[p])]_vars
  BY RemovalStep
<1>. QED BY <1>1, <1>2, <1>3, PTL DEF Spec, EvidenceKept

-----------------------------------------------------------------------------
(* Settled sources.                                                        *)

\* Files of one content get the same sensitivity, and all of them have a parser or none.
Agreeing ==
  \A f, g \in Files : f[2] = g[2] =>
    Lane[f[1]] = Lane[g[1]] /\ (f[1] \in Supported <=> g[1] \in Supported)

\* What a call writes in the end, to the row, the manifest and the record.
Last(t) == Source(t, FinalState(on[t], got[t]))

\* From lookup to the last change of the row.
Before == Opening \cup Parsing

At(c, labels) == \E t \in Callers : got[t] = c /\ pc[t] \in labels

\* A call works on a file that was dropped.
FilesInv ==
  /\ \A p \in Paths : inbox[p] # None => <<p, inbox[p]>> \in Files
  /\ \A t \in Callers : pc[t] \in Hashed => <<on[t], got[t]>> \in Files

\* Only calls on files with a parser have segments, and they have them in the end.
CallSegments(t) ==
  /\ pc[t] \in Parsing \ {"final_row"} => on[t] \in Supported
  /\ pc[t] \in Closing \cup {"final_row"} /\ on[t] \in Supported
       => "segments" \in index[got[t]]

SegmentsInv ==
  /\ \A t \in Callers : CallSegments(t)
  /\ \A c \in Contents : "segments" \in index[c] =>
       \E f \in Files : f[2] = c /\ f[1] \in Supported

\* No call works on a source while its owner changes its permission, and none will: a
\* source with a row is a duplicate.
OwnerInv ==
  /\ owner.at = "idle" <=> owner.source = None
  /\ owner.at # "idle" => /\ row[owner.source] # None /\ row[owner.source].sens = owner.sens
                          /\ \A t \in Callers : got[t] = owner.source => pc[t] = "lookup"

\* All calls on the source are past the last change of its row, and none of them failed.
Steady(c) == row[c] # None /\ row[c].status \notin Failures /\ c \notin cut /\ ~ At(c, Before)

\* Manifest and record say what the row says, or a call, or the owner, is going to
\* write it there.
ManifestFollows(c) ==
  \/ manifest[c] = row[c]
  \/ At(c, {"final_job", "final_manifest"})
  \/ /\ owner.source = c /\ owner.at = "manifest" /\ manifest[c] # None
     /\ row[c] = [manifest[c] EXCEPT !.sens = owner.sens]

RecordFollows(c) ==
  \/ record[c] = row[c]
  \/ At(c, {"final_job", "final_manifest", "final_record"})
  \/ /\ owner.source = c /\ record[c] # None
     /\ row[c] = [record[c] EXCEPT !.sens = owner.sens]

IndexFollows(c) ==
  /\ "record" \in index[c] \/ At(c, {"final_job", "final_manifest", "final_record"})
  /\ "segments" \in index[c] <=> row[c].extracted

SourceInv(c) ==
  Steady(c) =>
    /\ \A t \in Callers : got[t] = c /\ pc[t] \in Closing => row[c] = Last(t)
    /\ ManifestFollows(c) /\ RecordFollows(c) /\ IndexFollows(c)

SettledInv ==
  TypeOK /\ FilesInv /\ SegmentsInv /\ OwnerInv /\ \A c \in Contents : SourceInv(c)

LEMMA LabelFacts ==
  /\ Before \subseteq Hashed /\ Closing \subseteq Hashed /\ Before \cap Closing = {}
  /\ "idle" \notin Hashed /\ "hash" \notin Hashed /\ "lookup" \in Hashed
  /\ "lookup" \notin Before \cup Closing
  /\ {"final_job", "final_manifest", "final_record"} \subseteq Closing
  /\ Hashed = {"lookup"} \cup Before \cup Closing
BY DEF Before, Hashed, Opening, Parsing, Closing

LEMMA LastFacts ==
  ASSUME ControlTypes, NEW t \in Callers, pc[t] \in Hashed
  PROVE  /\ Last(t) \in Entry /\ Last(t) # None
         /\ Last(t).status \notin Failures
         /\ Last(t).extracted <=> on[t] \in Supported
<1>1. FinalState(on[t], got[t]) \in Holding
  BY FinalStateType
<1>2. Last(t) \in Entry
  BY <1>1, SourceType DEF Last
<1>3. Last(t).status = FinalState(on[t], got[t])
  BY DEF Last, Source
<1>4. Last(t).extracted <=> on[t] \in Supported
  BY <1>1, Zenon DEF Last, Source, Holding
<1>. QED BY <1>1, <1>2, <1>3, <1>4, NoneAssumption DEF Holding, Failures

\* Calls on one content agree on it.
LEMMA AgreeLast ==
  ASSUME Agreeing, ControlTypes, FilesInv, NEW t \in Callers, NEW u \in Callers,
         pc[t] \in Hashed, pc[u] \in Hashed, got[t] = got[u]
  PROVE  Last(t) = Last(u) /\ (on[t] \in Supported <=> on[u] \in Supported)
<1>1. <<on[t], got[t]>> \in Files /\ <<on[u], got[u]>> \in Files
  BY DEF FilesInv
<1>2. Lane[on[t]] = Lane[on[u]] /\ (on[t] \in Supported <=> on[u] \in Supported)
  BY <1>1 DEF Agreeing
<1>3. FinalState(on[t], got[t]) = FinalState(on[u], got[u])
  BY <1>2 DEF FinalState
<1>. QED BY <1>2, <1>3 DEF Last, Source

\* Nothing is said about a source that a call is still to write, that failed or was cut.
LEMMA NotSteady ==
  ASSUME NEW c,
         \/ row'[c] = None \/ row'[c].status \in Failures \/ c \in cut'
         \/ \E t \in Callers : got'[t] = c /\ pc'[t] \in Before
  PROVE  SourceInv(c)'
BY DEF SourceInv, Steady, At

\* A step that leaves a source alone, and the calls on it.
LEMMA SourceFrame ==
  ASSUME NEW c, SourceInv(c), row'[c] = row[c], manifest'[c] = manifest[c],
         record'[c] = record[c], index'[c] = index[c], cut \subseteq cut',
         owner' = owner \/ (owner.source # c /\ owner'.source # c),
         \A t \in Callers :
           \/ got'[t] = got[t] /\ pc'[t] = pc[t] /\ on'[t] = on[t]
           \/ /\ ~ (got[t] = c /\ pc[t] \in (Before \cup Closing) \ {"final_clear"})
              /\ ~ (got'[t] = c /\ pc'[t] \in Before \cup Closing)
  PROVE  SourceInv(c)'
<1> SUFFICES ASSUME Steady(c)' PROVE SourceInv(c)'
  BY DEF SourceInv
<1>1. ASSUME NEW S, S \subseteq (Before \cup Closing) \ {"final_clear"}
      PROVE  At(c, S)' <=> At(c, S)
  BY <1>1 DEF At
<1>2. /\ At(c, Before)' <=> At(c, Before)
      /\ LET S == {"final_job", "final_manifest"} IN At(c, S)' <=> At(c, S)
      /\ LET S == {"final_job", "final_manifest", "final_record"} IN At(c, S)' <=> At(c, S)
  <2>1. Before \subseteq (Before \cup Closing) \ {"final_clear"}
    BY LabelFacts DEF Closing
  <2>2. {"final_job", "final_manifest"} \subseteq (Before \cup Closing) \ {"final_clear"}
    BY DEF Closing
  <2>3. {"final_job", "final_manifest", "final_record"}
          \subseteq (Before \cup Closing) \ {"final_clear"}
    BY DEF Closing
  <2>. QED BY <1>1, <2>1, <2>2, <2>3
<1>3. Steady(c)
  BY <1>2 DEF Steady
<1>4. ASSUME NEW t \in Callers, got'[t] = c, pc'[t] \in Closing PROVE row'[c] = Last(t)'
  <2>1. got'[t] = got[t] /\ pc'[t] = pc[t] /\ on'[t] = on[t]
    BY <1>4
  <2>. QED BY <1>3, <1>4, <2>1 DEF SourceInv, Last, Source
<1>5. ManifestFollows(c)' /\ RecordFollows(c)' /\ IndexFollows(c)'
  BY <1>2, <1>3 DEF SourceInv, ManifestFollows, RecordFollows, IndexFollows
<1>. QED BY <1>4, <1>5 DEF SourceInv

\* A call that is past lookup has its source to itself, as far as the owner goes.
LEMMA Undisturbed ==
  ASSUME TypeOK, OwnerInv, NEW t \in Callers, pc[t] \in Hashed \ {"lookup"}
  PROVE  owner.source # got[t]
<1>1. got[t] # None
  BY HashedCall, NoneAssumption DEF TypeOK
<1>. QED BY <1>1 DEF OwnerInv

\* A caller that is not past hashing owes no segments.
LEMMA OutsideLabels ==
  ASSUME NEW t, pc'[t] \notin Hashed
  PROVE  CallSegments(t)'
BY DEF CallSegments, Hashed, Parsing, Closing

\* A step of one call inside ingest_file: what is left to show is its own part.
LEMMA GoesOn ==
  ASSUME SettledInv, TypeOK', NEW t \in Callers, NEW l \in Hashed \ {"lookup"},
         pc[t] \in Hashed, Goto(t, l), NEW c, c = got[t], owner.source # c,
         UNCHANGED <<cut, owner>>,
         \A p \in Paths : inbox'[p] \in {inbox[p], None},
         \A d \in Contents \ {c} :
           /\ row'[d] = row[d] /\ manifest'[d] = manifest[d]
           /\ record'[d] = record[d] /\ index'[d] = index[d],
         "segments" \in index[c] => "segments" \in index'[c],
         "segments" \in index'[c] => "segments" \in index[c] \/ on[t] \in Supported,
         CallSegments(t)', SourceInv(c)'
  PROVE  SettledInv'
<1>1. /\ on' = on /\ got' = got /\ pc'[t] = l
      /\ \A u \in Callers \ {t} : pc'[u] = pc[u]
  BY DEF Goto, SettledInv, TypeOK, ControlTypes
<1>2. got[t] \in Contents /\ <<on[t], got[t]>> \in Files
  BY HashedCall DEF SettledInv, TypeOK, FilesInv
<1>3. FilesInv'
  <2>1. ASSUME NEW p \in Paths, inbox'[p] # None PROVE <<p, inbox'[p]>> \in Files
    BY <2>1 DEF SettledInv, FilesInv
  <2>2. ASSUME NEW u \in Callers, pc'[u] \in Hashed PROVE <<on'[u], got'[u]>> \in Files
    BY <1>1, <1>2, <2>2 DEF SettledInv, FilesInv
  <2>. QED BY <2>1, <2>2 DEF FilesInv
<1>4. SegmentsInv'
  <2>1. ASSUME NEW u \in Callers PROVE CallSegments(u)'
    <3>1. CASE u = t
      BY <3>1
    <3>2. CASE u # t /\ pc[u] \in Hashed
      <4>1. got[u] \in Contents
        BY <3>2, HashedCall DEF SettledInv, TypeOK
      <4>. QED BY <1>1, <3>2, <4>1 DEF SettledInv, SegmentsInv, CallSegments
    <3>3. CASE u # t /\ pc[u] \notin Hashed
      BY <1>1, <3>3, OutsideLabels
    <3>. QED BY <3>1, <3>2, <3>3
  <2>2. ASSUME NEW d \in Contents, "segments" \in index'[d]
        PROVE  \E f \in Files : f[2] = d /\ f[1] \in Supported
    <3>1. CASE d = c /\ on[t] \in Supported
      BY <1>2, <3>1
    <3>2. CASE "segments" \in index[d]
      BY <3>2 DEF SettledInv, SegmentsInv
    <3>. QED BY <2>2, <3>1, <3>2
  <2>. QED BY <2>1, <2>2 DEF SegmentsInv
<1>5. OwnerInv'
  <2>1. CASE owner.at = "idle"
    BY <2>1 DEF SettledInv, OwnerInv
  <2>2. CASE owner.at # "idle"
    <3>1. owner.source \in Contents \ {c}
      BY <2>2 DEF SettledInv, TypeOK, EnvironmentTypes
    <3>. QED BY <1>1, <2>2, <3>1 DEF SettledInv, OwnerInv
  <2>. QED BY <2>1, <2>2
<1>6. ASSUME NEW d \in Contents PROVE SourceInv(d)'
  <2>1. CASE d = c
    BY <2>1
  <2>2. CASE d # c
    BY <1>1, <2>2, SourceFrame DEF SettledInv
  <2>. QED BY <2>1, <2>2
<1>. QED BY <1>3, <1>4, <1>5, <1>6 DEF SettledInv

\* A step up to the last change of the row: the source is not settled anyhow.
LEMMA GoesOnBefore ==
  ASSUME SettledInv, TypeOK', NEW t \in Callers, NEW l \in Before,
         pc[t] \in Hashed, Goto(t, l), NEW c, c = got[t], owner.source # c,
         UNCHANGED <<cut, owner>>,
         \A p \in Paths : inbox'[p] \in {inbox[p], None},
         \A d \in Contents \ {c} :
           /\ row'[d] = row[d] /\ manifest'[d] = manifest[d]
           /\ record'[d] = record[d] /\ index'[d] = index[d],
         "segments" \in index[c] => "segments" \in index'[c],
         "segments" \in index'[c] => "segments" \in index[c] \/ on[t] \in Supported,
         CallSegments(t)'
  PROVE  SettledInv'
<1>1. pc'[t] = l /\ got'[t] = got[t]
  BY DEF Goto, SettledInv, TypeOK, ControlTypes
<1>2. SourceInv(c)'
  BY <1>1, NotSteady
<1>3. l \in Hashed \ {"lookup"}
  BY LabelFacts
<1>. QED BY <1>2, <1>3, GoesOn

\* The end of a call.  Either it leaves the row alone, having nothing to write any
\* more, or it marks the row as failed.
LEMMA EndsCall ==
  ASSUME SettledInv, TypeOK', NEW t \in Callers, NEW state, EndCall(t, state),
         \A p \in Paths : inbox'[p] \in {inbox[p], None},
         UNCHANGED <<manifest, record, index, cut, owner>>,
         \/ row' = row /\ pc[t] \in {"lookup", "final_clear"}
         \/ \E s \in Failures : Fail(t, s)
  PROVE  SettledInv'
<1>1. /\ pc'[t] = "idle" /\ on'[t] = None /\ got'[t] = None
      /\ \A u \in Callers \ {t} : pc'[u] = pc[u] /\ on'[u] = on[u] /\ got'[u] = got[u]
  BY DEF EndCall, SettledInv, TypeOK, ControlTypes
<1>2. FilesInv'
  <2>1. ASSUME NEW p \in Paths, inbox'[p] # None PROVE <<p, inbox'[p]>> \in Files
    BY <2>1 DEF SettledInv, FilesInv
  <2>2. ASSUME NEW u \in Callers, pc'[u] \in Hashed PROVE <<on'[u], got'[u]>> \in Files
    BY <1>1, <2>2, LabelFacts DEF SettledInv, FilesInv
  <2>. QED BY <2>1, <2>2 DEF FilesInv
<1>3. SegmentsInv'
  <2>1. ASSUME NEW u \in Callers PROVE CallSegments(u)'
    <3>1. CASE u = t
      BY <1>1, <3>1, LabelFacts, OutsideLabels
    <3>2. CASE u # t
      BY <1>1, <3>2 DEF SettledInv, SegmentsInv, CallSegments
    <3>. QED BY <3>1, <3>2
  <2>. QED BY <2>1 DEF SettledInv, SegmentsInv
<1>4. \A d \in Contents :
        \/ row'[d] = row[d]
        \/ /\ d = got[t] /\ row[d] # None /\ row'[d] \in Entry
           /\ row'[d].sens = row[d].sens /\ row'[d].status \in Failures
  <2>1. CASE row' = row
    BY <2>1
  <2>2. CASE row' # row
    <3>1. PICK s \in Failures : Fail(t, s)
      BY <2>2
    <3>2. got[t] \in Contents /\ row[got[t]] \in Entry
          /\ row' = [row EXCEPT ![got[t]] = [row[got[t]] EXCEPT !.status = s]]
      BY <2>2, <3>1 DEF Fail, SettledInv, TypeOK, ControlTypes, DatabaseTypes
    <3> DEFINE r == row[got[t]]
    <3>3. [r EXCEPT !.status = s] \in Entry /\ [r EXCEPT !.status = s].sens = r.sens
          /\ [r EXCEPT !.status = s].status = s
      BY <3>1, <3>2 DEF Entry
    <3>4. row'[got[t]] = [r EXCEPT !.status = s]
      BY <3>2 DEF SettledInv, TypeOK, DatabaseTypes
    <3>5. \A d \in Contents \ {got[t]} : row'[d] = row[d]
      BY <3>2 DEF SettledInv, TypeOK, DatabaseTypes
    <3>. QED BY <3>1, <3>2, <3>3, <3>4, <3>5, NoneAssumption
  <2>. QED BY <2>1, <2>2
<1>5. OwnerInv'
  <2>1. CASE owner.at = "idle"
    BY <2>1 DEF SettledInv, OwnerInv
  <2>2. CASE owner.at # "idle"
    <3>1. owner.source \in Contents
      BY <2>2 DEF SettledInv, TypeOK, EnvironmentTypes
    <3>2. row'[owner.source] # None /\ row'[owner.source].sens = owner.sens
      BY <1>4, <2>2, <3>1, NoneAssumption DEF SettledInv, OwnerInv
    <3>. QED BY <1>1, <2>2, <3>1, <3>2, NoneAssumption DEF SettledInv, OwnerInv
  <2>. QED BY <2>1, <2>2
<1>6. ASSUME NEW d \in Contents PROVE SourceInv(d)'
  <2>1. CASE row'[d] = row[d] /\ ~ (got[t] = d /\ pc[t] \in (Before \cup Closing) \ {"final_clear"})
    <3>1. got'[t] # d
      BY <1>1, NoneAssumption
    <3>. QED BY <1>1, <2>1, <3>1, SourceFrame DEF SettledInv
  <2>2. CASE row'[d] # row[d]
    BY <1>4, <2>2, NotSteady
  <2>3. CASE row'[d] = row[d] /\ got[t] = d /\ pc[t] \in (Before \cup Closing) \ {"final_clear"}
    <3>1. pc[t] # "lookup"
      BY <2>3, LabelFacts
    <3>2. PICK s \in Failures : Fail(t, s)
      BY <2>3, <3>1
    <3>3. row[d] = None \/ row'[d].status \in Failures
      <4>1. CASE row[d] # None
        <5>1. row' = [row EXCEPT ![d] = [row[d] EXCEPT !.status = s]]
          BY <2>3, <3>2, <4>1, NoneAssumption DEF Fail
        <5>2. row[d] \in Entry
          BY <4>1 DEF SettledInv, TypeOK, DatabaseTypes
        <5> DEFINE r == row[d]
        <5>3. [r EXCEPT !.status = s].status = s
          BY <5>2 DEF Entry
        <5>4. row'[d] = [r EXCEPT !.status = s]
          BY <5>1 DEF SettledInv, TypeOK, DatabaseTypes
        <5>. QED BY <3>2, <5>3, <5>4
      <4>. QED BY <4>1
    <3>. QED BY <2>3, <3>3, NotSteady
  <2>. QED BY <2>1, <2>2, <2>3
<1>. QED BY <1>2, <1>3, <1>5, <1>6 DEF SettledInv

\* The last writes of a call: the row stays as it is, and what the others are going
\* to write agrees with it.
LEMMA StaysSteady ==
  ASSUME SettledInv, TypeOK', NEW t \in Callers, NEW l \in Closing,
         pc[t] \in Closing, Goto(t, l), NEW c, c = got[t], row' = row, cut' = cut,
         Steady(c)'
  PROVE  /\ Steady(c) /\ row'[c] = Last(t)
         /\ \A u \in Callers : got'[u] = c /\ pc'[u] \in Closing => row'[c] = Last(u)'
<1>1. /\ on' = on /\ got' = got /\ pc'[t] = l
      /\ \A u \in Callers \ {t} : pc'[u] = pc[u]
  BY DEF Goto, SettledInv, TypeOK, ControlTypes
<1>2. Steady(c)
  <2>1. ~ At(c, Before)
    BY <1>1, LabelFacts DEF Steady, At
  <2>. QED BY <2>1 DEF Steady
<1>3. c \in Contents
  BY LabelFacts, HashedCall DEF SettledInv, TypeOK
<1>4. \A u \in Callers : got[u] = c /\ pc[u] \in Closing => row[c] = Last(u)
  BY <1>2, <1>3 DEF SettledInv, SourceInv
<1>5. \A u \in Callers : Last(u)' = Last(u)
  BY <1>1 DEF Last, Source
<1>6. \A u \in Callers : pc'[u] \in Closing => pc[u] \in Closing
  BY <1>1
<1>. QED BY <1>1, <1>2, <1>4, <1>5, <1>6

\* Calls on files that are dropped agree with the index on having segments.
LEMMA SegmentsAgree ==
  ASSUME Agreeing, SettledInv, NEW t \in Callers, pc[t] = "final_row"
  PROVE  "segments" \in index[got[t]] <=> on[t] \in Supported
<1>1. pc[t] \in Hashed
  BY DEF Hashed, Parsing
<1>2. got[t] \in Contents /\ <<on[t], got[t]>> \in Files
  BY <1>1, HashedCall DEF SettledInv, TypeOK, FilesInv
<1>3. ASSUME "segments" \in index[got[t]] PROVE on[t] \in Supported
  <2>1. PICK f \in Files : f[2] = got[t] /\ f[1] \in Supported
    BY <1>2, <1>3 DEF SettledInv, SegmentsInv
  <2>. QED BY <1>2, <2>1 DEF Agreeing
<1>4. ASSUME on[t] \in Supported PROVE "segments" \in index[got[t]]
  BY <1>4 DEF SettledInv, SegmentsInv, CallSegments
<1>. QED BY <1>3, <1>4

\* Every step of ingest_file keeps the invariant.
LEMMA CallSettled ==
  ASSUME Agreeing, SettledInv, TypeOK', NEW t \in Callers, CallStep(t) \/ Raise(t)
  PROVE  SettledInv'
<1> USE DEF disk, database, environment, bounds
<1>0. TypeOK /\ ControlTypes /\ OwnerInv /\ SegmentsInv /\ CallSegments(t)
  BY DEF SettledInv, TypeOK, SegmentsInv
<1>1. ASSUME NEW s \in Failures, Fail(t, s), UNCHANGED <<manifest, record, index, cut, owner>>,
             \A p \in Paths : inbox'[p] \in {inbox[p], None}
      PROVE  SettledInv'
  BY <1>1, EndsCall DEF Fail
<1>2. "FAILED" \in Failures /\ "QUARANTINED" \in Failures
  BY DEF Failures
<1>3. {"preserve", "stat", "manifest", "record", "clear", "expose", "extract", "extracted",
       "segments", "final_row"} \subseteq Before
  BY DEF Before, Opening, Parsing
\* Going on before the last change of the row, the index as it is or fuller.
<1>4. ASSUME NEW l \in Before, pc[t] \in Hashed, Goto(t, l), owner.source # got[t],
             UNCHANGED <<cut, owner>>,
             inbox' = inbox \/ inbox' = [inbox EXCEPT ![on[t]] = None],
             NEW S, \/ row' = row
                    \/ row' = [row EXCEPT ![got[t]] = S],
             \/ manifest' = manifest
             \/ manifest' = [manifest EXCEPT ![got[t]] = S],
             \/ record' = record
             \/ record' = [record EXCEPT ![got[t]] = S],
             \/ index' = index
             \/ index' = [index EXCEPT ![got[t]] = index[got[t]] \cup {"record"}]
             \/ on[t] \in Supported /\ index' = [index EXCEPT ![got[t]] = {"segments"}],
             CallSegments(t)'
      PROVE  SettledInv'
  <2>1. got[t] \in Contents
    BY <1>0, <1>4, HashedCall
  <2>2. \A p \in Paths : inbox'[p] \in {inbox[p], None}
    BY <1>0, <1>4 DEF TypeOK, DiskTypes
  <2>3. \A d \in Contents \ {got[t]} :
          /\ row'[d] = row[d] /\ manifest'[d] = manifest[d]
          /\ record'[d] = record[d] /\ index'[d] = index[d]
    BY <1>0, <1>4, <2>1 DEF TypeOK, DiskTypes, DatabaseTypes
  <2>4. /\ "segments" \in index[got[t]] => "segments" \in index'[got[t]]
        /\ "segments" \in index'[got[t]] => "segments" \in index[got[t]] \/ on[t] \in Supported
    BY <1>0, <1>4, <2>1 DEF TypeOK, DatabaseTypes
  <2>. QED BY <1>4, <2>2, <2>3, <2>4, GoesOnBefore
<1>5. ASSUME NEW l, Goto(t, l) PROVE pc'[t] = l /\ on' = on /\ got' = got
  BY <1>0, <1>5 DEF Goto, ControlTypes
<1>6. ASSUME pc[t] \in Hashed \ {"lookup"} PROVE pc[t] \in Hashed /\ owner.source # got[t]
  BY <1>0, <1>6, Undisturbed
\* Before parsing, a call owes nothing to the index.
<1>7. ASSUME pc'[t] \in Opening \cup {"lookup"} PROVE CallSegments(t)'
  BY <1>7 DEF CallSegments, Opening, Parsing, Closing
<1>8. {"preserve", "stat", "manifest", "record", "clear", "expose"} \subseteq Opening
      /\ Opening \subseteq Hashed \ {"lookup"} /\ Parsing \subseteq Hashed \ {"lookup"}
      /\ Closing \subseteq Hashed \ {"lookup"}
  BY DEF Hashed, Opening, Parsing, Closing
<1>9. ASSUME Hash(t) PROVE SettledInv'
  <2>1. CASE Fail(t, "FAILED")
    BY <1>1, <1>2, <1>9, <2>1 DEF Hash
  <2>2. CASE ~ Fail(t, "FAILED")
    <3>1. /\ inbox[on[t]] # None /\ pc[t] = "hash"
          /\ pc' = [pc EXCEPT ![t] = "lookup"]
          /\ got' = [got EXCEPT ![t] = inbox[on[t]]]
          /\ UNCHANGED <<on, row, waiting, disk, index, owner, cut>>
      BY <1>9, <2>2 DEF Hash
    <3>2. on[t] \in Paths /\ got[t] = None
      BY <1>0, <3>1, LabelFacts DEF ControlTypes, TypeOK
    <3>3. /\ pc'[t] = "lookup" /\ got'[t] = inbox[on[t]]
          /\ \A u \in Callers \ {t} : pc'[u] = pc[u] /\ got'[u] = got[u]
      BY <1>0, <3>1 DEF ControlTypes
    <3>4. FilesInv'
      BY <3>1, <3>2, <3>3 DEF SettledInv, FilesInv
    <3>5. SegmentsInv'
      <4>1. ASSUME NEW u \in Callers PROVE CallSegments(u)'
        <5>1. CASE u = t
          BY <1>7, <3>3, <5>1
        <5>2. CASE u # t
          BY <1>0, <3>1, <3>3, <5>2 DEF SegmentsInv, CallSegments
        <5>. QED BY <5>1, <5>2
      <4>. QED BY <1>0, <3>1, <4>1 DEF SegmentsInv
    <3>6. OwnerInv'
      BY <1>0, <3>1, <3>3 DEF OwnerInv
    <3>7. ASSUME NEW d \in Contents PROVE SourceInv(d)'
      <4>1. "lookup" \notin Before \cup Closing /\ "hash" \notin Before \cup Closing
        BY LabelFacts
      <4>. QED BY <3>1, <3>3, <4>1, SourceFrame DEF SettledInv
    <3>. QED BY <3>4, <3>5, <3>6, <3>7 DEF SettledInv
  <2>. QED BY <2>1, <2>2
<1>10. ASSUME Lookup(t) PROVE SettledInv'
  <2>1. pc[t] \in Hashed /\ pc[t] = "lookup"
    BY <1>10 DEF Lookup, Hashed
  <2>2. CASE row[got[t]] # None
    <3>1. EndCall(t, "DUPLICATE") /\ UNCHANGED <<disk, row, index, environment>>
      BY <1>10, <2>2 DEF Lookup
    <3>. QED BY <2>1, <3>1, EndsCall
  <2>3. CASE row[got[t]] = None
    <3>1. Goto(t, "preserve") /\ UNCHANGED <<disk, row, index, environment>>
      BY <1>10, <2>3 DEF Lookup
    <3>2. owner.source # got[t]
      BY <1>0, <2>1, <2>3, HashedCall, NoneAssumption DEF OwnerInv
    <3>3. CallSegments(t)'
      BY <1>5, <1>7, <1>8, <3>1
    <3>. QED BY <1>3, <1>4, <2>1, <3>1, <3>2, <3>3
  <2>. QED BY <2>2, <2>3
<1>11. ASSUME Preserve(t) PROVE SettledInv'
  <2>1. pc[t] \in Hashed \ {"lookup"}
    BY <1>8, <1>11 DEF Preserve
  <2>2. CASE Fail(t, "FAILED")
    BY <1>1, <1>2, <1>11, <2>2 DEF Preserve
  <2>3. CASE ~ Fail(t, "FAILED")
    <3>1. Goto(t, "stat") /\ UNCHANGED <<inbox, manifest, record, row, index, environment>>
      BY <1>11, <2>3 DEF Preserve
    <3>2. CallSegments(t)'
      BY <1>5, <1>7, <1>8, <3>1
    <3>. QED BY <1>3, <1>4, <1>6, <2>1, <3>1, <3>2
  <2>. QED BY <2>2, <2>3
<1>12. ASSUME Stat(t) PROVE SettledInv'
  <2>1. pc[t] \in Hashed \ {"lookup"}
    BY <1>8, <1>12 DEF Stat
  <2>2. CASE inbox[on[t]] = None
    BY <1>1, <1>2, <1>12, <2>2 DEF Stat
  <2>3. CASE inbox[on[t]] # None
    <3>1. Goto(t, "manifest") /\ UNCHANGED <<disk, row, index, environment>>
      BY <1>12, <2>3 DEF Stat
    <3>2. CallSegments(t)'
      BY <1>5, <1>7, <1>8, <3>1
    <3>. QED BY <1>3, <1>4, <1>6, <2>1, <3>1, <3>2
  <2>. QED BY <2>2, <2>3
<1>13. ASSUME WriteManifest(t) PROVE SettledInv'
  <2>1. pc[t] \in Hashed \ {"lookup"} /\ UNCHANGED <<inbox, record, row, index, environment>>
    BY <1>8, <1>13 DEF WriteManifest, Closing
  <2>2. CASE pc[t] = "manifest"
    <3>1. Goto(t, "record")
          /\ manifest' = [manifest EXCEPT ![got[t]] = Source(t, "PRESERVED")]
      BY <1>13, <2>2 DEF WriteManifest
    <3>2. CallSegments(t)'
      BY <1>5, <1>7, <1>8, <3>1
    <3>. QED BY <1>3, <1>4, <1>6, <2>1, <3>1, <3>2
  <2>3. CASE pc[t] = "final_manifest"
    <3>1. Goto(t, "final_record") /\ manifest' = [manifest EXCEPT ![got[t]] = Last(t)]
      BY <1>13, <2>3 DEF WriteManifest, Last
    <3>2. pc'[t] = "final_record" /\ on' = on /\ got' = got
      BY <1>5, <3>1
    <3>3. PICK c \in Contents : c = got[t]
      BY <1>0, <2>1, HashedCall
    <3>4. CallSegments(t)'
      BY <1>0, <2>1, <2>3, <3>2 DEF CallSegments, Closing, Parsing
    <3>5. SourceInv(c)'
      <4> SUFFICES ASSUME Steady(c)' PROVE SourceInv(c)'
        BY DEF SourceInv
      <4>1. pc[t] \in Closing /\ "final_record" \in Closing
        BY <2>3 DEF Closing
      <4>2. /\ Steady(c) /\ row'[c] = Last(t)
            /\ \A u \in Callers : got'[u] = c /\ pc'[u] \in Closing => row'[c] = Last(u)'
        BY <2>1, <3>1, <3>3, <4>1, StaysSteady
      <4>3. manifest'[c] = Last(t)
        BY <1>0, <3>1, <3>3 DEF TypeOK, DiskTypes
      <4>4. At(c, {"final_job", "final_manifest", "final_record"})'
        BY <3>2, <3>3 DEF At
      <4>5. "segments" \in index'[c] <=> row'[c].extracted
        BY <2>1, <4>2 DEF SettledInv, SourceInv, IndexFollows
      <4>. QED BY <4>2, <4>3, <4>4, <4>5 DEF SourceInv, ManifestFollows, RecordFollows, IndexFollows
    <3>6. \A d \in Contents \ {c} : manifest'[d] = manifest[d]
      BY <1>0, <3>1, <3>3 DEF TypeOK, DiskTypes
    <3>7. "final_record" \in Hashed \ {"lookup"} /\ owner.source # c
      BY <1>6, <1>8, <2>1, <3>3 DEF Closing
    <3>. QED BY <2>1, <3>1, <3>3, <3>4, <3>5, <3>6, <3>7, GoesOn
  <2>. QED BY <1>13, <2>2, <2>3 DEF WriteManifest
<1>14. ASSUME WriteRecord(t) PROVE SettledInv'
  <2>1. /\ pc[t] \in Hashed \ {"lookup"} /\ UNCHANGED <<inbox, manifest, row, environment>>
        /\ index' = [index EXCEPT ![got[t]] = index[got[t]] \cup {"record"}]
    BY <1>8, <1>14 DEF WriteRecord, Closing
  <2>2. CASE pc[t] = "record"
    <3>1. Goto(t, "clear")
          /\ record' = [record EXCEPT ![got[t]] = Source(t, "PRESERVED")]
      BY <1>14, <2>2 DEF WriteRecord
    <3>2. CallSegments(t)'
      BY <1>5, <1>7, <1>8, <3>1
    <3>. QED BY <1>3, <1>4, <1>6, <2>1, <3>1, <3>2
  <2>3. CASE pc[t] = "final_record"
    <3>1. Goto(t, "final_clear") /\ record' = [record EXCEPT ![got[t]] = Last(t)]
      BY <1>14, <2>3 DEF WriteRecord, Last
    <3>2. pc'[t] = "final_clear" /\ on' = on /\ got' = got
          /\ \A u \in Callers \ {t} : pc'[u] = pc[u]
      BY <1>0, <3>1 DEF Goto, ControlTypes
    <3>3. PICK c \in Contents : c = got[t]
      BY <1>0, <2>1, HashedCall
    <3>4. index'[c] = index[c] \cup {"record"}
      BY <1>0, <2>1, <3>3 DEF TypeOK, DatabaseTypes
    <3>5. CallSegments(t)'
      BY <1>0, <2>3, <3>2, <3>3, <3>4 DEF CallSegments, Closing, Parsing
    <3>6. SourceInv(c)'
      <4> SUFFICES ASSUME Steady(c)' PROVE SourceInv(c)'
        BY DEF SourceInv
      <4>1. pc[t] \in Closing /\ "final_clear" \in Closing
        BY <2>3 DEF Closing
      <4>2. /\ Steady(c) /\ row'[c] = Last(t)
            /\ \A u \in Callers : got'[u] = c /\ pc'[u] \in Closing => row'[c] = Last(u)'
        BY <2>1, <3>1, <3>3, <4>1, StaysSteady
      <4>3. record'[c] = Last(t)
        BY <1>0, <3>1, <3>3 DEF TypeOK, DiskTypes
      <4>4. ManifestFollows(c)'
        <5>1. ManifestFollows(c)
          BY <4>2 DEF SettledInv, SourceInv
        <5>2. LET S == {"final_job", "final_manifest"} IN At(c, S) => At(c, S)'
          BY <2>3, <3>2 DEF At
        <5>. QED BY <2>1, <5>1, <5>2 DEF ManifestFollows
      <4>5. IndexFollows(c)'
        BY <2>1, <3>4, <4>2 DEF SettledInv, SourceInv, IndexFollows
      <4>. QED BY <4>2, <4>3, <4>4, <4>5 DEF SourceInv, RecordFollows
    <3>7. \A d \in Contents \ {c} : record'[d] = record[d] /\ index'[d] = index[d]
      BY <1>0, <2>1, <3>1, <3>3 DEF TypeOK, DiskTypes, DatabaseTypes
    <3>8. "final_clear" \in Hashed \ {"lookup"} /\ owner.source # c
      BY <1>6, <1>8, <2>1, <3>3 DEF Closing
    <3>. QED BY <2>1, <3>1, <3>3, <3>4, <3>5, <3>6, <3>7, <3>8, GoesOn
  <2>. QED BY <1>14, <2>2, <2>3 DEF WriteRecord
<1>15. ASSUME ClearInbox(t) PROVE SettledInv'
  <2>1. /\ pc[t] \in Hashed \ {"lookup"} /\ UNCHANGED <<manifest, record, row, index, environment>>
        /\ inbox' = inbox \/ inbox' = [inbox EXCEPT ![on[t]] = None]
    BY <1>8, <1>15 DEF ClearInbox, Closing
  <2>2. CASE pc[t] = "clear"
    <3>1. Goto(t, "expose")
      BY <1>15, <2>2 DEF ClearInbox
    <3>2. CallSegments(t)'
      BY <1>5, <1>7, <1>8, <3>1
    <3>. QED BY <1>3, <1>4, <1>6, <2>1, <3>1, <3>2
  <2>3. CASE pc[t] = "final_clear"
    <3>1. EndCall(t, JobState(t))
      BY <1>15, <2>3 DEF ClearInbox
    <3>2. \A p \in Paths : inbox'[p] \in {inbox[p], None}
      BY <1>0, <2>1 DEF TypeOK, DiskTypes
    <3>. QED BY <2>1, <2>3, <3>1, <3>2, EndsCall
  <2>. QED BY <1>15, <2>2, <2>3 DEF ClearInbox
<1>16. ASSUME Expose(t) PROVE SettledInv'
  <2>1. /\ pc[t] \in Hashed \ {"lookup"} /\ UNCHANGED <<disk, index, environment>>
        /\ row' = [row EXCEPT ![got[t]] = Source(t, "PRESERVED")]
    BY <1>8, <1>16 DEF Expose, Upsert
  <2>2. CASE on[t] \in Supported
    <3>1. Goto(t, "extract")
      BY <1>16, <2>2 DEF Expose
    <3>2. CallSegments(t)'
      BY <1>5, <2>2, <3>1 DEF CallSegments, Closing
    <3>. QED BY <1>3, <1>4, <1>6, <2>1, <3>1, <3>2
  <2>3. CASE on[t] \notin Supported
    <3>1. Goto(t, "final_row")
      BY <1>16, <2>3 DEF Expose
    <3>2. CallSegments(t)'
      BY <1>5, <2>3, <3>1 DEF CallSegments
    <3>. QED BY <1>3, <1>4, <1>6, <2>1, <3>1, <3>2
  <2>. QED BY <2>2, <2>3
<1>17. ASSUME Extract(t) PROVE SettledInv'
  <2>1. pc[t] \in Hashed \ {"lookup"} /\ on[t] \in Supported
        /\ UNCHANGED <<disk, index, environment>>
    BY <1>0, <1>8, <1>17 DEF Extract, Parsing, CallSegments
  <2>2. CASE Fail(t, "QUARANTINED")
    BY <1>1, <1>2, <2>1, <2>2
  <2>3. CASE Goto(t, "extracted") /\ UNCHANGED row
    <3>1. CallSegments(t)'
      BY <1>5, <2>1, <2>3 DEF CallSegments, Closing
    <3>. QED BY <1>3, <1>4, <1>6, <2>1, <2>3, <3>1
  <2>. QED BY <1>17, <2>2, <2>3 DEF Extract
<1>18. ASSUME UpsertExtracted(t) PROVE SettledInv'
  <2>1. /\ pc[t] \in Hashed \ {"lookup"} /\ on[t] \in Supported
        /\ UNCHANGED <<disk, index, environment>>
        /\ row' = [row EXCEPT ![got[t]] = Source(t, "EXTRACTED")]
        /\ Goto(t, "segments")
    BY <1>0, <1>8, <1>18 DEF UpsertExtracted, Upsert, Parsing, CallSegments
  <2>2. CallSegments(t)'
    BY <1>5, <2>1 DEF CallSegments, Closing
  <2>. QED BY <1>3, <1>4, <1>6, <2>1, <2>2
<1>19. ASSUME ReplaceSegments(t) PROVE SettledInv'
  <2>1. /\ pc[t] \in Hashed \ {"lookup"} /\ on[t] \in Supported
        /\ UNCHANGED <<disk, row, environment>>
        /\ index' = [index EXCEPT ![got[t]] = {"segments"}]
        /\ Goto(t, "final_row")
    BY <1>0, <1>8, <1>19 DEF ReplaceSegments, Parsing, CallSegments
  <2>2. CallSegments(t)'
    <3>1. "segments" \in index'[got[t]]
      BY <1>0, <2>1, HashedCall DEF TypeOK, DatabaseTypes
    <3>. QED BY <1>5, <2>1, <3>1 DEF CallSegments
  <2>. QED BY <1>3, <1>4, <1>6, <2>1, <2>2
<1>20. ASSUME UpsertFinal(t) PROVE SettledInv'
  <2>1. /\ pc[t] = "final_row" /\ UNCHANGED <<disk, index, environment>>
        /\ row' = [row EXCEPT ![got[t]] = Last(t)]
        /\ Goto(t, "final_job")
    BY <1>20 DEF UpsertFinal, Upsert, Last
  <2>2. pc[t] \in Hashed \ {"lookup"}
    BY <1>8, <2>1 DEF Parsing
  <2>3. pc'[t] = "final_job" /\ on' = on /\ got' = got
        /\ \A u \in Callers \ {t} : pc'[u] = pc[u]
    BY <1>0, <2>1 DEF Goto, ControlTypes
  <2>4. PICK c \in Contents : c = got[t]
    BY <1>0, <2>2, HashedCall
  <2>5. CallSegments(t)'
    BY <1>0, <2>1, <2>3 DEF CallSegments, Closing, Parsing
  <2>6. SourceInv(c)'
    <3>1. row'[c] = Last(t)
      BY <1>0, <2>1, <2>4 DEF TypeOK, DatabaseTypes
    <3>2. ASSUME NEW u \in Callers, got'[u] = c, pc'[u] \in Closing PROVE row'[c] = Last(u)'
      <4>1. Last(u)' = Last(u)
        BY <2>3 DEF Last, Source
      <4>2. got[u] = got[t] /\ pc[u] \in Hashed
        BY <2>1, <2>2, <2>3, <2>4, <3>2, LabelFacts
      <4>3. Last(u) = Last(t)
        BY <1>0, <2>2, <4>2, AgreeLast DEF SettledInv
      <4>. QED BY <3>1, <4>1, <4>3
    <3>3. /\ At(c, {"final_job", "final_manifest"})'
          /\ At(c, {"final_job", "final_manifest", "final_record"})'
      BY <2>3, <2>4 DEF At
    <3>4. "segments" \in index'[c] <=> row'[c].extracted
      BY <1>0, <2>1, <2>2, <2>4, <3>1, LastFacts, SegmentsAgree
    <3>. QED BY <3>2, <3>3, <3>4
         DEF SourceInv, ManifestFollows, RecordFollows, IndexFollows
  <2>7. \A d \in Contents \ {c} : row'[d] = row[d]
    BY <1>0, <2>1, <2>4 DEF TypeOK, DatabaseTypes
  <2>8. "final_job" \in Hashed \ {"lookup"} /\ owner.source # c
    BY <1>6, <1>8, <2>2, <2>4 DEF Closing
  <2>. QED BY <2>1, <2>2, <2>4, <2>5, <2>6, <2>7, <2>8, GoesOn
<1>21. ASSUME FinishJob(t) PROVE SettledInv'
  <2>1. pc[t] = "final_job" /\ Goto(t, "final_manifest")
        /\ UNCHANGED <<disk, database, environment>>
    BY <1>21 DEF FinishJob
  <2>2. pc[t] \in Hashed \ {"lookup"}
    BY <1>8, <2>1 DEF Closing
  <2>3. pc'[t] = "final_manifest" /\ on' = on /\ got' = got
    BY <1>5, <2>1
  <2>4. PICK c \in Contents : c = got[t]
    BY <1>0, <2>2, HashedCall
  <2>5. CallSegments(t)'
    BY <1>0, <2>1, <2>3 DEF CallSegments, Closing, Parsing
  <2>6. SourceInv(c)'
    <3> SUFFICES ASSUME Steady(c)' PROVE SourceInv(c)'
      BY DEF SourceInv
    <3>1. pc[t] \in Closing /\ "final_manifest" \in Closing
      BY <2>1 DEF Closing
    <3>2. /\ Steady(c) /\ row'[c] = Last(t)
          /\ \A u \in Callers : got'[u] = c /\ pc'[u] \in Closing => row'[c] = Last(u)'
      BY <2>1, <2>4, <3>1, StaysSteady
    <3>3. /\ At(c, {"final_job", "final_manifest"})'
          /\ At(c, {"final_job", "final_manifest", "final_record"})'
      BY <2>3, <2>4 DEF At
    <3>4. "segments" \in index'[c] <=> row'[c].extracted
      BY <2>1, <3>2 DEF SettledInv, SourceInv, IndexFollows
    <3>. QED BY <3>2, <3>3, <3>4
         DEF SourceInv, ManifestFollows, RecordFollows, IndexFollows
  <2>7. "final_manifest" \in Hashed \ {"lookup"} /\ owner.source # c
    BY <1>6, <1>8, <2>2, <2>4 DEF Closing
  <2>. QED BY <2>1, <2>2, <2>4, <2>5, <2>6, <2>7, GoesOn
<1>22. ASSUME Raise(t) PROVE SettledInv'
  BY <1>1, <1>2, <1>22 DEF Raise
<1>. QED
  BY <1>9, <1>10, <1>11, <1>12, <1>13, <1>14, <1>15, <1>16, <1>17, <1>18, <1>19,
     <1>20, <1>21, <1>22 DEF CallStep

\* A step that changes no source and no index, and leaves every call as it is, or
\* outside of what counts for its source.
LEMMA OthersSettled ==
  ASSUME SettledInv, TypeOK', UNCHANGED <<manifest, record, row, index>>, cut \subseteq cut',
         owner' = owner,
         \A p \in Paths : inbox'[p] \in {inbox[p], None} \/ <<p, inbox'[p]>> \in Files,
         \A t \in Callers :
           \/ pc'[t] = pc[t] /\ on'[t] = on[t] /\ got'[t] = got[t]
           \/ /\ pc'[t] \notin Hashed
              /\ pc[t] \in Hashed => got[t] \in cut'
  PROVE  SettledInv'
<1>0. ASSUME NEW t \in Callers, pc'[t] \notin Hashed PROVE got'[t] = None
  BY <1>0 DEF TypeOK, ControlTypes
<1>1. FilesInv'
  <2>1. ASSUME NEW p \in Paths, inbox'[p] # None PROVE <<p, inbox'[p]>> \in Files
    BY <2>1 DEF SettledInv, FilesInv
  <2>2. ASSUME NEW u \in Callers, pc'[u] \in Hashed PROVE <<on'[u], got'[u]>> \in Files
    BY <2>2 DEF SettledInv, FilesInv
  <2>. QED BY <2>1, <2>2 DEF FilesInv
<1>2. SegmentsInv'
  <2>1. ASSUME NEW u \in Callers PROVE CallSegments(u)'
    <3>1. CASE pc'[u] \notin Hashed
      BY <3>1, OutsideLabels
    <3>2. CASE pc'[u] \in Hashed
      BY <3>2 DEF SettledInv, SegmentsInv, CallSegments
    <3>. QED BY <3>1, <3>2
  <2>. QED BY <2>1 DEF SettledInv, SegmentsInv
<1>3. OwnerInv'
  <2>1. CASE owner.at = "idle"
    BY <2>1 DEF SettledInv, OwnerInv
  <2>2. CASE owner.at # "idle"
    <3>1. owner.source # None
      BY <2>2 DEF SettledInv, OwnerInv
    <3>2. ASSUME NEW u \in Callers, got'[u] = owner.source PROVE pc'[u] = "lookup"
      BY <1>0, <2>2, <3>1, <3>2, LabelFacts DEF SettledInv, OwnerInv
    <3>. QED BY <2>2, <3>1, <3>2 DEF SettledInv, OwnerInv
  <2>. QED BY <2>1, <2>2
<1>4. ASSUME NEW d \in Contents PROVE SourceInv(d)'
  <2>1. CASE d \in cut'
    BY <2>1, NotSteady
  <2>2. CASE d \notin cut'
    <3>1. ASSUME NEW t \in Callers
          PROVE  \/ got'[t] = got[t] /\ pc'[t] = pc[t] /\ on'[t] = on[t]
                 \/ /\ ~ (got[t] = d /\ pc[t] \in (Before \cup Closing) \ {"final_clear"})
                    /\ ~ (got'[t] = d /\ pc'[t] \in Before \cup Closing)
      BY <2>2, LabelFacts
    <3>. QED BY <3>1, SourceFrame DEF SettledInv
  <2>. QED BY <2>1, <2>2
<1>. QED BY <1>1, <1>2, <1>3, <1>4 DEF SettledInv

\* The death of a process: what its calls had hashed is cut short.
LEMMA StopSettled ==
  ASSUME SettledInv, TypeOK', NEW threads \in SUBSET Callers, Stop(threads)
  PROVE  SettledInv'
<1>1. ASSUME NEW t \in Callers
      PROVE  \/ pc'[t] = pc[t] /\ on'[t] = on[t] /\ got'[t] = got[t]
             \/ pc'[t] \notin Hashed /\ (pc[t] \in Hashed => got[t] \in cut')
  <2>1. CASE t \notin threads
    BY <2>1 DEF Stop
  <2>2. CASE t \in threads
    <3>1. pc'[t] = "idle"
      BY <2>2 DEF Stop
    <3>2. ASSUME pc[t] \in Hashed PROVE got[t] \in cut'
      <4>1. got[t] # None /\ pc[t] # "idle"
        BY <3>2, HashedCall, LabelFacts, NoneAssumption DEF SettledInv, TypeOK
      <4>. QED BY <2>2, <4>1 DEF Stop
    <3>. QED BY <3>1, <3>2, LabelFacts
  <2>. QED BY <2>1, <2>2
<1>2. /\ UNCHANGED <<inbox, manifest, record, row, index, owner>>
      /\ cut \subseteq cut'
  BY DEF Stop, disk
<1>3. \A p \in Paths : inbox'[p] \in {inbox[p], None}
  BY <1>2
<1>. QED BY <1>1, <1>2, <1>3, OthersSettled

\* While the owner changes a source, no call says anything about it.
LEMMA OwnerAlone ==
  ASSUME SettledInv, NEW c, c = owner.source, owner.at # "idle", NEW S, S \subseteq Before \cup Closing
  PROVE  ~ At(c, S)
<1>1. "lookup" \notin S
  BY LabelFacts
<1>. QED BY <1>1 DEF SettledInv, OwnerInv, At

\* An entry whose sensitivity is replaced.
LEMMA Resent ==
  ASSUME NEW m \in Entry, NEW s \in Sensitivities
  PROVE  /\ [m EXCEPT !.sens = s] \in Entry
         /\ [m EXCEPT !.sens = s].sens = s
         /\ [m EXCEPT !.sens = s].status = m.status
         /\ [m EXCEPT !.sens = s].extracted = m.extracted
         /\ m.sens = s => [m EXCEPT !.sens = s] = m
BY DEF Entry

\* The owner changes a source: nobody works on it, so manifest and record agree with
\* its row.
LEMMA ChangeRowSettled ==
  ASSUME SettledInv, TypeOK', Orderly,
         NEW c \in Contents, NEW s \in Sensitivities, ChangeRow(c, s)
  PROVE  SettledInv'
<1> USE DEF disk, control
<1>1. /\ owner.at = "idle" /\ owner.source = None /\ c # None /\ row[c] \in Entry
      /\ \A t \in Callers : got[t] # c
  BY NoneAssumption DEF ChangeRow, SettledInv, OwnerInv, TypeOK, DatabaseTypes
<1>2. PICK r \in Entry : r = row[c]
  BY <1>1
<1>3. /\ row'[c] = [r EXCEPT !.sens = s]
      /\ \A d \in Contents \ {c} : row'[d] = row[d]
      /\ owner'.at = "manifest" /\ owner'.source = c /\ owner'.sens = s
      /\ UNCHANGED <<inbox, manifest, record, index, cut, pc, on, got>>
  BY <1>2 DEF ChangeRow, SettledInv, TypeOK, DatabaseTypes
<1>4. row'[c] \in Entry /\ row'[c].sens = s /\ row'[c].status = r.status
      /\ row'[c].extracted = r.extracted
  BY <1>3, Resent
<1>5. FilesInv' /\ SegmentsInv'
  BY <1>3 DEF SettledInv, FilesInv, SegmentsInv, CallSegments
<1>6. OwnerInv'
  BY <1>1, <1>3, <1>4, NoneAssumption DEF OwnerInv
<1>7. SourceInv(c)'
  <2> SUFFICES ASSUME Steady(c)' PROVE SourceInv(c)'
    BY DEF SourceInv
  <2>1. \A S : ~ At(c, S)
    BY <1>1 DEF At
  <2>2. Steady(c)
    BY <1>1, <1>2, <1>3, <1>4, <2>1, NoneAssumption DEF Steady
  <2>3. manifest[c] = r /\ record[c] = r /\ IndexFollows(c)
    BY <1>1, <1>2, <2>1, <2>2 DEF SettledInv, SourceInv, ManifestFollows, RecordFollows
  <2>4. ManifestFollows(c)' /\ RecordFollows(c)'
    BY <1>2, <1>3, <2>3, NoneAssumption DEF ManifestFollows, RecordFollows
  <2>5. IndexFollows(c)'
    BY <1>2, <1>3, <1>4, <2>1, <2>3 DEF IndexFollows
  <2>. QED BY <1>1, <1>3, <2>4, <2>5 DEF SourceInv
<1>8. ASSUME NEW d \in Contents \ {c} PROVE SourceInv(d)'
  <2>1. owner.source # d /\ owner'.source # d
    BY <1>1, <1>3, <1>8, NoneAssumption
  <2>. QED BY <1>3, <1>8, <2>1, SourceFrame DEF SettledInv
<1>. QED BY <1>5, <1>6, <1>7, <1>8 DEF SettledInv

\* The change reaches the manifest: if the source is steady, it has one.
LEMMA ChangeManifestSettled ==
  ASSUME SettledInv, TypeOK', ChangeManifest
  PROVE  SettledInv'
<1> USE DEF database, control
<1>1. PICK c \in Contents : c = owner.source
  BY DEF ChangeManifest, SettledInv, TypeOK, EnvironmentTypes
<1>2. PICK s \in Sensitivities : s = owner.sens
  BY DEF SettledInv, TypeOK, EnvironmentTypes
<1>3. /\ owner.at = "manifest"
      /\ owner'.at = "record" /\ owner'.source = c /\ owner'.sens = s
      /\ UNCHANGED <<inbox, record, row, index, cut, pc, on, got>>
  BY <1>1, <1>2 DEF ChangeManifest, SettledInv, TypeOK, EnvironmentTypes
<1>4. \A d \in Contents \ {c} : manifest'[d] = manifest[d]
  BY <1>1 DEF ChangeManifest, SettledInv, TypeOK, DiskTypes
<1>5. FilesInv' /\ SegmentsInv'
  BY <1>3 DEF SettledInv, FilesInv, SegmentsInv, CallSegments
<1>6. OwnerInv'
  BY <1>1, <1>2, <1>3, NoneAssumption DEF SettledInv, OwnerInv
<1>7. SourceInv(c)'
  <2> SUFFICES ASSUME Steady(c)' PROVE SourceInv(c)'
    BY DEF SourceInv
  <2>1. /\ ~ At(c, {"final_job", "final_manifest"})
        /\ ~ At(c, {"final_job", "final_manifest", "final_record"})
        /\ ~ At(c, Closing)
    <3>1. owner.at # "idle"
      BY <1>3
    <3>2. {"final_job", "final_manifest"} \subseteq Before \cup Closing
          /\ {"final_job", "final_manifest", "final_record"} \subseteq Before \cup Closing
          /\ Closing \subseteq Before \cup Closing
      BY LabelFacts
    <3>. QED BY <1>1, <3>1, <3>2, OwnerAlone
  <2>2. Steady(c)
    BY <1>3 DEF Steady, At
  <2>3. row[c] \in Entry /\ row[c].sens = s
    BY <1>1, <1>2, <1>3 DEF SettledInv, OwnerInv, TypeOK, DatabaseTypes
  <2>4. ManifestFollows(c) /\ RecordFollows(c) /\ IndexFollows(c)
    BY <2>2 DEF SettledInv, SourceInv
  <2>5. manifest[c] # None /\ manifest[c] \in Entry
    BY <2>1, <2>3, <2>4, NoneAssumption DEF ManifestFollows, SettledInv, TypeOK, DiskTypes
  <2>6. PICK m \in Entry : m = manifest[c]
    BY <2>5
  <2>7. manifest'[c] = [m EXCEPT !.sens = s]
    BY <1>1, <1>2, <2>5, <2>6 DEF ChangeManifest, SettledInv, TypeOK, DiskTypes
  <2>8. row[c] = m \/ row[c] = [m EXCEPT !.sens = s]
    BY <1>2, <2>1, <2>4, <2>6 DEF ManifestFollows
  <2>9. manifest'[c] = row'[c]
    BY <1>3, <2>3, <2>6, <2>7, <2>8, Resent
  <2>10. RecordFollows(c)' /\ IndexFollows(c)'
    BY <1>1, <1>2, <1>3, <2>1, <2>4 DEF RecordFollows, IndexFollows
  <2>11. \A t \in Callers : got'[t] = c => pc'[t] \notin Closing
    BY <1>3, <2>1 DEF At
  <2>. QED BY <2>9, <2>10, <2>11 DEF SourceInv, ManifestFollows
<1>8. ASSUME NEW d \in Contents \ {c} PROVE SourceInv(d)'
  BY <1>1, <1>3, <1>4, <1>8, SourceFrame DEF SettledInv
<1>. QED BY <1>5, <1>6, <1>7, <1>8 DEF SettledInv

\* The change reaches the record, and is over.
LEMMA ChangeRecordSettled ==
  ASSUME SettledInv, TypeOK', ChangeRecord
  PROVE  SettledInv'
<1> USE DEF database, control
<1>1. PICK c \in Contents : c = owner.source
  BY DEF ChangeRecord, SettledInv, TypeOK, EnvironmentTypes
<1>2. PICK s \in Sensitivities : s = owner.sens
  BY DEF SettledInv, TypeOK, EnvironmentTypes
<1>3. /\ owner.at = "record"
      /\ owner'.at = "idle" /\ owner'.source = None
      /\ UNCHANGED <<inbox, manifest, row, index, cut, pc, on, got>>
  BY DEF ChangeRecord
<1>4. \A d \in Contents \ {c} : record'[d] = record[d]
  BY <1>1 DEF ChangeRecord, SettledInv, TypeOK, DiskTypes
<1>5. FilesInv' /\ SegmentsInv'
  BY <1>3 DEF SettledInv, FilesInv, SegmentsInv, CallSegments
<1>6. OwnerInv'
  BY <1>3 DEF OwnerInv
<1>7. SourceInv(c)'
  <2> SUFFICES ASSUME Steady(c)' PROVE SourceInv(c)'
    BY DEF SourceInv
  <2>1. /\ ~ At(c, {"final_job", "final_manifest"})
        /\ ~ At(c, {"final_job", "final_manifest", "final_record"})
        /\ ~ At(c, Closing)
    <3>1. owner.at # "idle"
      BY <1>3
    <3>2. {"final_job", "final_manifest"} \subseteq Before \cup Closing
          /\ {"final_job", "final_manifest", "final_record"} \subseteq Before \cup Closing
          /\ Closing \subseteq Before \cup Closing
      BY LabelFacts
    <3>. QED BY <1>1, <3>1, <3>2, OwnerAlone
  <2>2. Steady(c)
    BY <1>3 DEF Steady, At
  <2>3. row[c] \in Entry /\ row[c].sens = s
    BY <1>1, <1>2, <1>3 DEF SettledInv, OwnerInv, TypeOK, DatabaseTypes
  <2>4. ManifestFollows(c) /\ RecordFollows(c) /\ IndexFollows(c)
    BY <2>2 DEF SettledInv, SourceInv
  <2>5. record[c] # None /\ record[c] \in Entry
    BY <2>1, <2>3, <2>4, NoneAssumption DEF RecordFollows, SettledInv, TypeOK, DiskTypes
  <2>6. PICK m \in Entry : m = record[c]
    BY <2>5
  <2>7. record'[c] = [m EXCEPT !.sens = s]
    BY <1>1, <1>2, <2>5, <2>6 DEF ChangeRecord, SettledInv, TypeOK, DiskTypes
  <2>8. row[c] = m \/ row[c] = [m EXCEPT !.sens = s]
    BY <1>2, <2>1, <2>4, <2>6 DEF RecordFollows
  <2>9. record'[c] = row'[c]
    BY <1>3, <2>3, <2>6, <2>7, <2>8, Resent
  <2>10. manifest'[c] = row'[c]
    BY <1>3, <2>1, <2>4 DEF ManifestFollows
  <2>11. IndexFollows(c)'
    BY <1>3, <2>1, <2>4 DEF IndexFollows
  <2>12. \A t \in Callers : got'[t] = c => pc'[t] \notin Closing
    BY <1>3, <2>1 DEF At
  <2>. QED BY <2>9, <2>10, <2>11, <2>12 DEF SourceInv, ManifestFollows, RecordFollows
<1>8. ASSUME NEW d \in Contents \ {c} PROVE SourceInv(d)'
  <2>1. owner.source # d /\ owner'.source # d
    BY <1>1, <1>3, <1>8, NoneAssumption
  <2>. QED BY <1>3, <1>4, <1>8, <2>1, SourceFrame DEF SettledInv
<1>. QED BY <1>5, <1>6, <1>7, <1>8 DEF SettledInv

\* Every step keeps the invariant.
LEMMA SettledStep ==
  ASSUME Orderly, Agreeing
  PROVE  SettledInv /\ [Next]_vars => SettledInv'
<1> SUFFICES ASSUME SettledInv, [Next]_vars PROVE SettledInv'
  OBVIOUS
<1> USE DEF disk, database, control, environment, bounds
<1>1. TypeOK'
  BY TypeStep DEF SettledInv
<1>2. ASSUME UNCHANGED <<disk, row, index, control, owner, cut>> PROVE SettledInv'
  BY <1>1, <1>2, OthersSettled
<1>3. ASSUME NEW p \in Paths, NEW c \in Contents, Drop(p, c) PROVE SettledInv'
  <2>1. \A q \in Paths : inbox'[q] \in {inbox[q], None} \/ <<q, inbox'[q]>> \in Files
    BY <1>3 DEF Drop, SettledInv, TypeOK, DiskTypes
  <2>. QED BY <1>1, <1>3, <2>1, OthersSettled DEF Drop
<1>4. ASSUME NEW t \in Callers, NEW p \in Paths, Start(t, p),
             UNCHANGED <<disk, row, index, owner, cut>>
      PROVE  SettledInv'
  <2>1. /\ pc[t] = "idle" /\ pc'[t] = "hash"
        /\ \A u \in Callers \ {t} : pc'[u] = pc[u] /\ on'[u] = on[u] /\ got'[u] = got[u]
    BY <1>4 DEF Start, SettledInv, TypeOK, ControlTypes
  <2>2. pc[t] \notin Hashed /\ pc'[t] \notin Hashed
    BY <2>1, LabelFacts
  <2>. QED BY <1>1, <1>4, <2>1, <2>2, OthersSettled
<1>5. ASSUME NEW t \in Callers, NEW p \in Paths, Call(t, p) PROVE SettledInv'
  BY <1>4, <1>5 DEF Call
<1>6. ASSUME NEW p \in Paths, TakeListed(p) PROVE SettledInv'
  BY <1>4, <1>6 DEF TakeListed, Callers, Daemon
<1>7. ASSUME NEW p \in Paths, ListedFileGone(p) PROVE SettledInv'
  <2>1. CASE Stop(Daemon)
    BY <1>1, <2>1, StopSettled DEF Callers
  <2>2. CASE todo' = {} /\ UNCHANGED <<disk, database, control, up, owner, cut>>
    BY <1>2, <2>2
  <2>. QED BY <1>7, <2>1, <2>2 DEF ListedFileGone
<1>8. CASE Crash
  <2>1. PICK threads \in {Daemon} \cup {{k} : k \in Commands} : Stop(threads)
    BY <1>8 DEF Crash
  <2>2. threads \in SUBSET Callers
    BY <2>1 DEF Callers
  <2>. QED BY <1>1, <2>1, <2>2, StopSettled
<1>9. CASE List \/ Restart \/ UNCHANGED vars
  BY <1>2, <1>9 DEF List, Restart, vars
<1>10. CASE \E t \in Callers : CallStep(t) \/ Raise(t)
  BY <1>1, <1>10, CallSettled
<1>11. CASE \E c \in Contents, s \in Sensitivities : ChangeRow(c, s)
  BY <1>1, <1>11, ChangeRowSettled
<1>12. CASE ChangeManifest \/ ChangeRecord
  BY <1>1, <1>12, ChangeManifestSettled, ChangeRecordSettled
<1>. QED
  BY <1>3, <1>5, <1>6, <1>7, <1>8, <1>9, <1>10, <1>11, <1>12 DEF Next, LoopStep

LEMMA SettledAlways ==
  ASSUME Orderly, Agreeing
  PROVE  Spec => []SettledInv
<1>1. Init => SettledInv
  <2> SUFFICES ASSUME Init PROVE SettledInv
    OBVIOUS
  <2>1. FilesInv /\ SegmentsInv
    <3>1. "idle" \notin Closing \cup Parsing /\ "idle" # "final_row" /\ "idle" \notin Hashed
      BY DEF Hashed, Opening, Parsing, Closing
    <3>. QED BY <3>1 DEF Init, FilesInv, SegmentsInv, CallSegments
  <2>2. OwnerInv /\ \A c \in Contents : SourceInv(c)
    BY DEF Init, OwnerInv, SourceInv, Steady
  <2>. QED BY <2>1, <2>2, InitialTypes DEF SettledInv
<1>2. SettledInv /\ [Next]_vars => SettledInv'
  BY SettledStep
<1>. QED BY <1>1, <1>2, PTL DEF Spec

\* Of a settled source no call has anything left to write.
LEMMA SettledIsSteady ==
  ASSUME SettledInv, NEW c \in Contents, Settled(c)
  PROVE  /\ \A S : ~ At(c, S)
         /\ ManifestFollows(c) /\ RecordFollows(c) /\ IndexFollows(c)
<1>1. \A S : ~ At(c, S)
  BY DEF Settled, At
<1>2. Steady(c)
  BY <1>1 DEF Settled, Steady
<1>. QED BY <1>1, <1>2 DEF SettledInv, SourceInv

\* A settled source is found by its record, and by its segments exactly if it has
\* text, whatever number of calls emptied and filled its index, in whatever order:
\* provided that files of one content agree, and that owner and people keep away from
\* what a call works on.
THEOREM SettledSourcesAreSearchable ==
  ASSUME Orderly, Agreeing
  PROVE  Spec => []SettledIsSearchable
<1>1. SettledInv => SettledIsSearchable
  <2> SUFFICES ASSUME SettledInv, NEW c \in Contents, Settled(c)
      PROVE  index[c] = {"record"} \cup (IF row[c].extracted THEN {"segments"} ELSE {})
    BY DEF SettledIsSearchable
  <2>1. "record" \in index[c] /\ ("segments" \in index[c] <=> row[c].extracted)
    BY SettledIsSteady DEF IndexFollows
  <2>2. index[c] \subseteq {"segments", "record"}
    BY DEF SettledInv, TypeOK, DatabaseTypes
  <2>. QED BY <2>1, <2>2
<1>. QED BY <1>1, SettledAlways, PTL

\* Manifest, Source Record and row of a settled source agree, whatever the order of
\* the writes of several calls and of the owner: a rebuild brings it back as it is.
\* The two hypotheses are needed: two calls with different sensitivities for the same
\* bytes, or a call and the owner, can overtake each other between row and record.
THEOREM RebuildKeepsSettledSources ==
  ASSUME Orderly, Agreeing
  PROVE  Spec => []RebuildKeepsSource
<1>1. SettledInv => RebuildKeepsSource
  <2> SUFFICES ASSUME SettledInv, NEW c \in Contents, Settled(c)
      PROVE  manifest[c] = row[c] /\ record[c] = row[c]
    BY DEF RebuildKeepsSource
  <2>1. owner.source # c
    BY DEF Settled
  <2>. QED BY <2>1, SettledIsSteady DEF ManifestFollows, RecordFollows
<1>. QED BY <1>1, SettledAlways, PTL
=============================================================================
