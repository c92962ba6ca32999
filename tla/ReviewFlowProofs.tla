-------------------------- MODULE ReviewFlowProofs --------------------------
(***************************************************************************)
(* Theorems about ReviewFlow, for every set of processes, items, updates   *)
(* and files, with any interleaving, refusal and crash.                    *)
(***************************************************************************)
EXTENDS MCReviewFlow, TLAPS, SequenceTheorems

-----------------------------------------------------------------------------
(* Notes and rows.                                                         *)

\* Only stage and _persist_item_and_views write rows and notes of items, and they
\* write both.
LEMMA NoteStep == NoteShowsRow /\ [Next]_vars => NoteShowsRow'
<1> SUFFICES ASSUME NoteShowsRow, [Next]_vars PROVE NoteShowsRow'
  OBVIOUS
<1>1. CASE UNCHANGED vars
  BY <1>1 DEF NoteShowsRow, vars, views
<1>2. ASSUME NEW p \in Procs, Call(p) PROVE NoteShowsRow'
  BY <1>2 DEF NoteShowsRow, Call, Propose, BeginApprove, BeginReject, BeginRollback,
              BeginUpdate, views
<1>3. ASSUME NEW p \in Procs, Crash(p) PROVE NoteShowsRow'
  BY <1>3 DEF NoteShowsRow, Crash, views
<1>4. ASSUME NEW p \in Procs, Step(p) PROVE NoteShowsRow'
  <2>1. ASSUME NEW i, Stage(p, i) PROVE NoteShowsRow'
    BY <2>1 DEF NoteShowsRow, Stage
  <2>2. ASSUME NEW i, Persist(p, i) PROVE NoteShowsRow'
    BY <2>2 DEF NoteShowsRow, Persist, PersistedRow
  <2>3. ASSUME NEW i, ReadResolution(p, i) \/ Verify(p, i) \/ PlanManifest(p, i)
                      \/ Apply(p, i) \/ Undo(p, i) \/ AppendEvent(p, i)
                      \/ List(p, i) \/ Hash(p, i)
        PROVE NoteShowsRow'
    BY <2>3 DEF NoteShowsRow, ReadResolution, Verify, PlanManifest, Apply, Undo,
                AppendEvent, List, Hash, views
  <2>4. ASSUME HashResolution(p) \/ Refused(p) \/ Refresh(p) \/ ViewsRefused(p)
        PROVE NoteShowsRow'
    BY <2>4 DEF NoteShowsRow, HashResolution, Refused, Refresh, ViewsRefused, views
  <2> QED
    BY <1>4, <2>1, <2>2, <2>3, <2>4 DEF Step
<1> QED
  BY <1>1, <1>2, <1>3, <1>4 DEF Next

\* stage, _persist_item_and_views: the note of an item never disagrees with its row.
THEOREM NotesShowRows == Spec => []NoteShowsRow
<1>1. Init => NoteShowsRow
  BY DEF Init, NoteShowsRow
<1> QED
  BY <1>1, NoteStep, PTL DEF Spec

-----------------------------------------------------------------------------
(* Types.  NewStatus, NewAction and AfterEvent have no value for every     *)
(* kind of call, so the types need that a call is where its kind goes.     *)

Decisions == {"approve", "reject", "rollback"}

AnyCall ==
  [at: Labels, kind: {"none", "stage", "approve", "reject", "rollback", "update"},
   change: SUBSET Changes, resolved: Resolution, resolution_seen: Resolution,
   listed: SUBSET Items, note_seen: Statuses, dashboard_seen: SUBSET Items]

\* Only update_state is called without an item.
CallRecord == {r \in AnyCall : r.kind # "update" => r.change \subseteq Items}

\* The kinds of call that come to each place.
Fits(r) ==
  /\ r.at = "stage" => r.kind = "stage"
  /\ r.at \in {"resolution", "hash_resolution", "persist"} => r.kind \in Decisions
  /\ r.at \in {"verify", "plan", "apply"} => r.kind \in {"approve", "update"}
  /\ r.at = "undo" => r.kind = "rollback"
  /\ r.at = "event" => r.kind \in {"approve", "update", "rollback"}
  /\ r.at \in {"list", "hash"} => r.kind \in Decisions \cup {"stage"}

TypeInv ==
  /\ TypeOK
  /\ call \in [Procs -> CallRecord]
  /\ \A p \in Procs : Fits(call[p])

LEMMA PendingType == Pending \in Resolution
BY DEF Pending, Resolution

LEMMA IdleType == Idle \in CallRecord /\ Fits(Idle)
BY PendingType DEF Idle, CallRecord, AnyCall, Labels, Statuses, Fits

LEMMA NewManifestType == \A s \in {"none", "planned", "applied"} : NewManifest(s) \in Manifest
BY PendingType DEF NewManifest, Manifest, Content

\* What a step has to show of the call it changes.
LEMMA CallStep ==
  ASSUME TypeInv, NEW p \in Procs, NEW r \in CallRecord, Fits(r),
         call' = [call EXCEPT ![p] = r]
  PROVE  call' \in [Procs -> CallRecord] /\ \A q \in Procs : Fits(call'[q])
<1> HIDE DEF Fits
<1> QED
  BY DEF TypeInv, TypeOK, CallRecord, AnyCall

LEMMA ReturnsType ==
  ASSUME TypeInv, NEW p \in Procs, Returns(p)
  PROVE  call' \in [Procs -> CallRecord] /\ \A q \in Procs : Fits(call'[q])
BY IdleType, CallStep DEF Returns

\* A call that moves on and reads nothing.
LEMMA GotoType ==
  ASSUME TypeInv, NEW p \in Procs, NEW label \in Labels, Goto(p, label),
         Fits([at |-> label, kind |-> call[p].kind])
  PROVE  call' \in [Procs -> CallRecord] /\ \A q \in Procs : Fits(call'[q])
<1> DEFINE r == [call[p] EXCEPT !.at = label]
<1>1. r \in CallRecord /\ r.at = label /\ r.kind = call[p].kind
  BY DEF TypeInv, TypeOK, CallRecord, AnyCall
<1>2. call' = [call EXCEPT ![p] = r]
  BY DEF Goto
<1> HIDE DEF r
<1>3. Fits(r)
  BY <1>1 DEF Fits
<1> QED
  BY <1>1, <1>2, <1>3, CallStep

LEMMA BeginsType ==
  ASSUME TypeInv, NEW p \in Procs, NEW label \in Labels, NEW c \in Changes,
         NEW kind \in {"none", "stage", "approve", "reject", "rollback", "update"},
         kind # "update" => c \in Items,
         Begins(p, kind, c, label), Fits([at |-> label, kind |-> kind])
  PROVE  call' \in [Procs -> CallRecord] /\ \A q \in Procs : Fits(call'[q])
<1> DEFINE r == [Idle EXCEPT !.at = label, !.kind = kind, !.change = {c}]
<1>1. r \in CallRecord /\ r.at = label /\ r.kind = kind
  <2> DEFINE a == [Idle EXCEPT !.at = label]
             b == [a EXCEPT !.kind = kind]
  <2>1. a \in CallRecord /\ a.at = label /\ a.change = {}
    BY IdleType DEF CallRecord, AnyCall, Idle
  <2>2. r = [b EXCEPT !.change = {c}]
    OBVIOUS
  <2> HIDE DEF a, r
  <2>3. b \in CallRecord /\ b.at = label /\ b.kind = kind /\ b.change = {}
    BY <2>1 DEF CallRecord, AnyCall
  <2> HIDE DEF b
  <2> QED
    BY <2>2, <2>3 DEF CallRecord, AnyCall
<1>2. call' = [call EXCEPT ![p] = r]
  BY DEF Begins
<1> HIDE DEF r
<1>3. Fits(r)
  BY <1>1 DEF Fits
<1> QED
  BY <1>1, <1>2, <1>3, CallStep

\* The variables other than call keep their types, whatever the call does.
Rest == <<file, proposal, item, note, dashboard, resolution, manifest, events>>

LEMMA RestType ==
  ASSUME TypeInv, UNCHANGED Rest, call' \in [Procs -> CallRecord],
         \A q \in Procs : Fits(call'[q])
  PROVE  TypeInv'
BY DEF TypeInv, TypeOK, Rest, CallRecord, AnyCall

\* Calls begin.
LEMMA CallType ==
  ASSUME TypeInv, NEW p \in Procs, Call(p)
  PROVE  TypeInv'
<1> USE ChangeAssumption DEF Changes, Fits, Decisions
<1>1. ASSUME NEW i \in Items, Propose(p, i) PROVE TypeInv'
  <2>1. call' \in [Procs -> CallRecord] /\ \A q \in Procs : Fits(call'[q])
    BY <1>1, BeginsType DEF Propose, Labels
  <2> QED
    BY <1>1, <2>1 DEF TypeInv, TypeOK, Propose, views, CallRecord, AnyCall
<1>2. ASSUME NEW v \in Updates, BeginUpdate(p, v) PROVE TypeInv'
  <2>1. call' \in [Procs -> CallRecord] /\ \A q \in Procs : Fits(call'[q])
    BY <1>2, BeginsType DEF BeginUpdate, Labels
  <2> QED
    BY <1>2, <2>1 DEF TypeInv, TypeOK, BeginUpdate, views, CallRecord, AnyCall
<1>3. ASSUME NEW i \in Items, BeginApprove(p, i) \/ BeginReject(p, i) \/ BeginRollback(p, i)
      PROVE TypeInv'
  <2>1. call' \in [Procs -> CallRecord] /\ \A q \in Procs : Fits(call'[q])
    BY <1>3, BeginsType DEF BeginApprove, BeginReject, BeginRollback, Labels
  <2> QED
    BY <1>3, <2>1, RestType DEF Rest, BeginApprove, BeginReject, BeginRollback, views
<1> QED
  BY <1>1, <1>2, <1>3 DEF Call

\* The two steps of _resolution_write.
LEMMA ResolutionType ==
  ASSUME TypeInv, NEW p \in Procs, NEW i, ReadResolution(p, i) \/ HashResolution(p)
  PROVE  TypeInv'
<1>1. call[p] \in CallRecord /\ Fits(call[p]) /\ resolution \in Resolution
  BY DEF TypeInv, TypeOK, CallRecord, AnyCall
<1>2. AfterResolution(call[p].kind) \in Labels
  BY DEF AfterResolution, Labels
<1>3. call[p].kind \in Decisions
  BY <1>1 DEF ReadResolution, HashResolution, Does, Fits
<1>4. CASE ReadResolution(p, i) /\ i \in Compiled
  <2> DEFINE after == [resolution EXCEPT ![i] = NewAction(call[p].kind)]
             m == [call[p] EXCEPT !.at = "hash_resolution"]
             r == [m EXCEPT !.resolved = after]
  <2>1. NewAction(call[p].kind) \in {"updated", "rejected", "rolled_back"}
    BY <1>3 DEF NewAction, Decisions
  <2>2. after \in Resolution
    BY <1>1, <1>4, <2>1 DEF Resolution
  <2>3. m \in CallRecord /\ m.at = "hash_resolution" /\ m.kind = call[p].kind
    BY <1>1 DEF CallRecord, AnyCall, Labels
  <2>4. call' = [call EXCEPT ![p] = r]
    BY <1>4 DEF ReadResolution
  <2> HIDE DEF m, after
  <2>5. r \in CallRecord /\ r.at = "hash_resolution" /\ r.kind = call[p].kind
    BY <2>2, <2>3 DEF CallRecord, AnyCall
  <2> HIDE DEF r
  <2>6. Fits(r)
    BY <1>3, <2>5 DEF Fits
  <2> QED
    BY <1>4, <2>4, <2>5, <2>6, CallStep, RestType DEF ReadResolution, Rest, views
<1>5. CASE ReadResolution(p, i) /\ i \notin Compiled
  <2>1. Fits([at |-> AfterResolution(call[p].kind), kind |-> call[p].kind])
    BY <1>3 DEF Fits, AfterResolution, Decisions
  <2> QED
    BY <1>2, <1>5, <2>1, GotoType, RestType DEF ReadResolution, Rest, views
<1>6. CASE HashResolution(p)
  <2> DEFINE m == [call[p] EXCEPT !.resolution_seen = resolution]
             label == AfterResolution(call[p].kind)
             r == [m EXCEPT !.at = label]
  <2>1. m \in CallRecord /\ m.kind = call[p].kind
    BY <1>1 DEF CallRecord, AnyCall
  <2>2. call' = [call EXCEPT ![p] = r]
    BY <1>6 DEF HashResolution
  <2>3. label \in Labels /\ label = IF call[p].kind = "approve" THEN "verify" ELSE "list"
    BY <1>2 DEF AfterResolution
  <2> HIDE DEF m, label
  <2>4. r \in CallRecord /\ r.at = label /\ r.kind = call[p].kind
    BY <2>1, <2>3 DEF CallRecord, AnyCall
  <2> HIDE DEF r
  <2>5. Fits(r)
    BY <1>3, <2>3, <2>4 DEF Fits, Decisions
  <2> QED
    BY <1>6, <2>2, <2>4, <2>5, CallStep, RestType DEF HashResolution, Rest, views
<1> QED
  BY <1>4, <1>5, <1>6

\* The steps that change the files, the manifests and the resolution ledger.
LEMMA OperationType ==
  ASSUME TypeInv, NEW p \in Procs, NEW i \in call[p].change,
         Stage(p, i) \/ Verify(p, i) \/ PlanManifest(p, i) \/ Apply(p, i) \/ Undo(p, i)
  PROVE  TypeInv'
<1>1. call[p] \in CallRecord /\ Fits(call[p]) /\ i \in Changes
  BY DEF TypeInv, TypeOK, CallRecord, AnyCall
<1>2. ASSUME NEW label \in Labels, Goto(p, label),
             Fits([at |-> label, kind |-> call[p].kind])
      PROVE  call' \in [Procs -> CallRecord] /\ \A q \in Procs : Fits(call'[q])
  BY <1>2, GotoType
<1>3. CASE Stage(p, i)
  <2>1. Fits([at |-> "list", kind |-> call[p].kind])
    BY <1>1, <1>3 DEF Stage, Does, Fits
  <2>2. call' \in [Procs -> CallRecord] /\ \A q \in Procs : Fits(call'[q])
    BY <1>2, <1>3, <2>1 DEF Stage, Labels
  <2> QED
    BY <1>3, <2>2 DEF TypeInv, TypeOK, Stage, Statuses, CallRecord, AnyCall
<1>4. CASE Verify(p, i)
  <2>1. Fits([at |-> "plan", kind |-> call[p].kind])
    BY <1>1, <1>4 DEF Verify, Does, Fits
  <2> QED
    BY <1>2, <1>4, <2>1, RestType DEF Verify, Labels, Rest, views
<1>5. CASE PlanManifest(p, i)
  <2>1. Fits([at |-> "apply", kind |-> call[p].kind])
    BY <1>1, <1>5 DEF PlanManifest, Does, Fits
  <2>2. call' \in [Procs -> CallRecord] /\ \A q \in Procs : Fits(call'[q])
    BY <1>2, <1>5, <2>1 DEF PlanManifest, Labels
  <2> QED
    BY <1>5, <2>2, NewManifestType DEF TypeInv, TypeOK, PlanManifest, views, CallRecord, AnyCall
<1>6. CASE Apply(p, i)
  <2>1. Fits([at |-> "event", kind |-> call[p].kind])
    BY <1>1, <1>6 DEF Apply, Does, Fits
  <2>2. call' \in [Procs -> CallRecord] /\ \A q \in Procs : Fits(call'[q])
    BY <1>2, <1>6, <2>1 DEF Apply, Labels
  <2>3. Target[i] \in Files /\ file[Target[i]] \in Content /\ i \in Content
    BY <1>1, ChangeAssumption DEF TypeInv, TypeOK, Content
  <2> DEFINE after == IF i \in Compiled THEN call[p].resolved ELSE resolution
  <2>4. after \in Resolution /\ resolution \in Resolution
    BY <1>1 DEF TypeInv, TypeOK, CallRecord, AnyCall
  <2>5. resolution' = after /\ manifest' = [manifest EXCEPT ![i] =
          [state |-> "applied", before |-> file[Target[i]], resolution_before |-> resolution,
           resolution_after |-> after, undone |-> FALSE]]
    BY <1>6 DEF Apply
  <2> HIDE DEF after
  <2>6. manifest' \in [Changes -> Manifest] /\ resolution' \in Resolution
    BY <2>3, <2>4, <2>5 DEF TypeInv, TypeOK, Manifest
  <2>7. file' \in [Files -> Content]
    BY <1>6, <2>3 DEF TypeInv, TypeOK, Apply
  <2> QED
    BY <1>6, <2>2, <2>6, <2>7 DEF TypeInv, TypeOK, Apply, views, CallRecord, AnyCall
<1>7. CASE Undo(p, i)
  <2>1. Fits([at |-> "event", kind |-> call[p].kind])
    BY <1>1, <1>7 DEF Undo, Does, Fits
  <2>2. call' \in [Procs -> CallRecord] /\ \A q \in Procs : Fits(call'[q])
    BY <1>2, <1>7, <2>1 DEF Undo, Labels
  <2>3. manifest[i] \in Manifest
    BY <1>1 DEF TypeInv, TypeOK
  <2>4. manifest' \in [Changes -> Manifest]
    BY <1>7, <2>3 DEF TypeInv, TypeOK, Undo, Manifest
  <2>5. file' \in [Files -> Content] /\ resolution' \in Resolution
    BY <1>7, <2>3 DEF TypeInv, TypeOK, Undo, Manifest
  <2> QED
    BY <1>7, <2>2, <2>4, <2>5 DEF TypeInv, TypeOK, Undo, views, CallRecord, AnyCall
<1> QED
  BY <1>3, <1>4, <1>5, <1>6, <1>7

\* The append to the project ledger.
LEMMA EventType ==
  ASSUME TypeInv, NEW p \in Procs, NEW c \in call[p].change, AppendEvent(p, c)
  PROVE  TypeInv'
<1>1. call[p] \in CallRecord /\ Fits(call[p]) /\ c \in Changes /\ events \in Seq(ProjectEvent)
  BY DEF TypeInv, TypeOK, CallRecord, AnyCall
<1>2. call[p].kind \in {"approve", "update", "rollback"}
  BY <1>1 DEF AppendEvent, Does, Fits
<1>3. call' \in [Procs -> CallRecord] /\ \A q \in Procs : Fits(call'[q])
  <2>1. CASE call[p].kind = "update"
    BY <2>1, ReturnsType DEF AppendEvent, AfterEvent
  <2>2. CASE call[p].kind = "approve"
    <3>1. Goto(p, "list")
      BY <2>2 DEF AppendEvent, AfterEvent
    <3>2. Fits([at |-> "list", kind |-> call[p].kind])
      BY <2>2 DEF Fits, Decisions
    <3> QED
      BY <3>1, <3>2, GotoType DEF Labels
  <2>3. CASE call[p].kind = "rollback"
    <3>1. Goto(p, "resolution")
      BY <2>3 DEF AppendEvent, AfterEvent
    <3>2. Fits([at |-> "resolution", kind |-> call[p].kind])
      BY <2>3 DEF Fits, Decisions
    <3> QED
      BY <3>1, <3>2, GotoType DEF Labels
  <2> QED
    BY <1>2, <2>1, <2>2, <2>3
<1>4. events' \in Seq(ProjectEvent)
  <2>1. AppliedEvent(c) \in Seq(ProjectEvent)
    <3>1. [of |-> c, status |-> "applied", shows |-> c] \in ProjectEvent
      BY <1>1 DEF ProjectEvent, Content
    <3> QED
      BY <3>1 DEF AppliedEvent
  <2>2. ASSUME NEW e \in Compensating(c) PROVE e \in ProjectEvent
    <3>1. PICK n \in IsApplied(c) \ {1} :
            e = [of |-> c, status |-> "rollback", shows |-> events[n - 1].shows]
      BY DEF Compensating
    <3>2. n \in 1..Len(events) /\ n # 1
      BY <1>1, <3>1 DEF IsApplied
    <3>3. events[n - 1] \in ProjectEvent
      BY <1>1, <3>2
    <3> QED
      BY <1>1, <3>1, <3>3 DEF ProjectEvent
  <2>3. events \o AppliedEvent(c) \in Seq(ProjectEvent)
    BY <1>1, <2>1
  <2>4. ASSUME NEW e \in Compensating(c) PROVE Append(events, e) \in Seq(ProjectEvent)
    BY <1>1, <2>2
  <2>5. \/ events' = events
        \/ events' = events \o AppliedEvent(c)
        \/ \E e \in Compensating(c) : events' = Append(events, e)
    BY DEF AppendEvent
  <2> QED
    BY <1>1, <2>3, <2>4, <2>5
<1> QED
  BY <1>3, <1>4 DEF TypeInv, TypeOK, AppendEvent, views, CallRecord, AnyCall

\* The steps that read and write the views, and the ends of calls.
LEMMA ViewType ==
  ASSUME TypeInv, NEW p \in Procs, NEW i \in call[p].change,
         List(p, i) \/ Hash(p, i) \/ Persist(p, i)
  PROVE  TypeInv'
<1>1. call[p] \in CallRecord /\ Fits(call[p])
  BY DEF TypeInv, TypeOK, CallRecord, AnyCall
<1>2. CASE List(p, i)
  <2> DEFINE m == [call[p] EXCEPT !.at = "hash"]
             listed == Listed(i, call[p].kind)
             r == [m EXCEPT !.listed = listed]
  <2>1. m \in CallRecord /\ m.at = "hash" /\ m.kind = call[p].kind
    BY <1>1 DEF CallRecord, AnyCall, Labels
  <2>2. listed \subseteq Items
    BY DEF Listed
  <2>3. call' = [call EXCEPT ![p] = r]
    BY <1>2 DEF List
  <2> HIDE DEF m, listed
  <2>4. r \in CallRecord /\ r.at = "hash" /\ r.kind = call[p].kind
    BY <2>1, <2>2 DEF CallRecord, AnyCall
  <2> HIDE DEF r
  <2>5. Fits(r)
    BY <1>1, <1>2, <2>4 DEF List, Does, Fits, Decisions
  <2> QED
    BY <1>2, <2>3, <2>4, <2>5, CallStep, RestType DEF List, Rest, views
<1>3. CASE Hash(p, i)
  <2> DEFINE a == [call[p] EXCEPT !.note_seen = note[i]]
             b == [a EXCEPT !.dashboard_seen = dashboard]
             label == IF call[p].kind = "stage" THEN "refresh" ELSE "persist"
             r == [b EXCEPT !.at = label]
  <2>1. note[i] \in Statuses /\ dashboard \subseteq Items
    <3>1. i \in Items
      BY <1>1, <1>3 DEF Hash, Does, Fits, Decisions, CallRecord
    <3> QED
      BY <3>1 DEF TypeInv, TypeOK
  <2>2. a \in CallRecord /\ a.kind = call[p].kind
    BY <1>1, <2>1 DEF CallRecord, AnyCall
  <2>3. call' = [call EXCEPT ![p] = r]
    BY <1>3 DEF Hash
  <2>4. label \in Labels /\ label = IF call[p].kind = "stage" THEN "refresh" ELSE "persist"
    BY DEF Labels
  <2> HIDE DEF a, label
  <2>5. b \in CallRecord /\ b.kind = call[p].kind
    BY <2>1, <2>2 DEF CallRecord, AnyCall
  <2> HIDE DEF b
  <2>6. r \in CallRecord /\ r.at = label /\ r.kind = call[p].kind
    BY <2>4, <2>5 DEF CallRecord, AnyCall
  <2> HIDE DEF r
  <2>7. Fits(r)
    BY <1>1, <1>3, <2>4, <2>6 DEF Hash, Does, Fits, Decisions
  <2> QED
    BY <1>3, <2>3, <2>6, <2>7, CallStep, RestType DEF Hash, Rest, views
<1>4. CASE Persist(p, i)
  <2>1. call' \in [Procs -> CallRecord] /\ \A q \in Procs : Fits(call'[q])
    BY <1>4, ReturnsType DEF Persist
  <2>2. NewStatus(call[p].kind) \in Statuses
    BY <1>1, <1>4 DEF Persist, Does, Fits, Decisions, NewStatus, Statuses
  <2>3. item' \in [Items -> Statuses] /\ note' \in [Items -> Statuses]
    BY <1>4, <2>2 DEF TypeInv, TypeOK, Persist, PersistedRow
  <2>4. dashboard' \subseteq Items /\ resolution' \in Resolution
    BY <1>1, <1>4 DEF TypeInv, TypeOK, Persist, Resolved, CallRecord, AnyCall
  <2> QED
    BY <1>4, <2>1, <2>3, <2>4 DEF TypeInv, TypeOK, Persist, CallRecord, AnyCall
<1> QED
  BY <1>2, <1>3, <1>4

LEMMA ReturnType ==
  ASSUME TypeInv, NEW p \in Procs,
         Refused(p) \/ Refresh(p) \/ ViewsRefused(p) \/ Crash(p)
  PROVE  TypeInv'
<1>1. call' \in [Procs -> CallRecord] /\ \A q \in Procs : Fits(call'[q])
  BY ReturnsType DEF Refused, Refresh, ViewsRefused, Crash
<1>2. CASE Refresh(p)
  BY <1>1, <1>2 DEF TypeInv, TypeOK, Refresh, CallRecord, AnyCall
<1>3. CASE Refused(p) \/ ViewsRefused(p) \/ Crash(p)
  BY <1>1, <1>3, RestType DEF Refused, ViewsRefused, Crash, Rest, views
<1> QED
  BY <1>2, <1>3

LEMMA TypeStep == TypeInv /\ [Next]_vars => TypeInv'
<1> SUFFICES ASSUME TypeInv, [Next]_vars PROVE TypeInv'
  OBVIOUS
<1>1. CASE UNCHANGED vars
  BY <1>1 DEF TypeInv, TypeOK, vars, views
<1>2. ASSUME NEW p \in Procs, Call(p) \/ Step(p) \/ Crash(p) PROVE TypeInv'
  BY <1>2, CallType, ResolutionType, OperationType, EventType, ViewType, ReturnType DEF Step
<1> QED
  BY <1>1, <1>2 DEF Next

LEMMA InitType == Init => TypeInv
BY ChangeAssumption, IdleType, NewManifestType, PendingType
DEF Init, TypeInv, TypeOK, Content, CallRecord, AnyCall, Statuses, Created, ProjectEvent

\* The values of every variable, in every behaviour.
THEOREM Types == Spec => []TypeOK
<1>1. TypeInv => TypeOK
  BY DEF TypeInv
<1> QED
  BY <1>1, InitType, TypeStep, PTL DEF Spec

-----------------------------------------------------------------------------
(* Rollback.  What the manifest of an applied change will restore is what  *)
(* the change was planned against, unless that was a missing file, whose   *)
(* absence no precondition expresses.                                      *)

Existed == \A f \in Files : Original[f] = "original"

\* A planned change was planned against an existing file.
FilesExist ==
  /\ \A f \in Files : file[f] # "missing"
  /\ \A c \in Changes : proposal[c] # "missing"

\* The copy of an applied change is the content it was planned against.
CopyIsPlanned ==
  \A c \in Changes : manifest[c].state = "applied" =>
    manifest[c].before = proposal[c] /\ proposal[c] # "none"

RollbackInv == TypeOK /\ FilesExist /\ CopyIsPlanned

\* A step that leaves the files, the proposals and the manifests alone.
LEMMA RollbackFrame ==
  ASSUME RollbackInv, TypeOK', UNCHANGED <<file, proposal, manifest>>
  PROVE  RollbackInv'
BY DEF RollbackInv, FilesExist, CopyIsPlanned

\* A proposal is made once, before anything is applied for it.
LEMMA RollbackPlan ==
  ASSUME RollbackInv, TypeOK', NEW c \in Changes, proposal[c] = "none",
         proposal' = [proposal EXCEPT ![c] = file[Target[c]]], UNCHANGED <<file, manifest>>
  PROVE  RollbackInv'
<1>1. Target[c] \in Files /\ file[Target[c]] # "missing"
  BY ChangeAssumption DEF RollbackInv, FilesExist
<1>2. FilesExist'
  BY <1>1 DEF RollbackInv, FilesExist, TypeOK
<1>3. CopyIsPlanned'
  BY DEF RollbackInv, CopyIsPlanned, TypeOK
<1> QED
  BY <1>2, <1>3 DEF RollbackInv

\* The file that apply copies is the one that the preconditions compared.
LEMMA RollbackApply ==
  ASSUME RollbackInv, TypeOK', NEW p \in Procs, NEW c \in Changes, Apply(p, c)
  PROVE  RollbackInv'
<1>1. Target[c] \in Files /\ file[Target[c]] \in Content
  BY ChangeAssumption DEF RollbackInv, TypeOK
<1>2. file[Target[c]] = proposal[c] /\ proposal[c] # "none" /\ c # "missing"
  BY <1>1, NameAssumption DEF Apply, PreconditionsHold, RollbackInv, FilesExist, Content
<1>3. FilesExist'
  BY <1>1, <1>2 DEF Apply, RollbackInv, FilesExist, TypeOK
<1>4. CopyIsPlanned'
  BY <1>2 DEF Apply, RollbackInv, CopyIsPlanned, TypeOK
<1> QED
  BY <1>3, <1>4 DEF RollbackInv

LEMMA RollbackUndo ==
  ASSUME RollbackInv, TypeOK', NEW p \in Procs, NEW c \in Changes, Undo(p, c)
  PROVE  RollbackInv' /\ file'[Target[c]] = proposal[c]
<1>1. Target[c] \in Files /\ manifest[c] \in Manifest
  BY ChangeAssumption DEF RollbackInv, TypeOK
<1>2. manifest[c].before = proposal[c] /\ proposal[c] # "missing"
  BY DEF Undo, MayUndo, RollbackInv, CopyIsPlanned, FilesExist
<1>3. file'[Target[c]] = proposal[c] /\ FilesExist'
  BY <1>1, <1>2 DEF Undo, RollbackInv, FilesExist, TypeOK
<1>4. CopyIsPlanned'
  BY <1>1 DEF Undo, RollbackInv, CopyIsPlanned, TypeOK, Manifest
<1> QED
  BY <1>3, <1>4 DEF RollbackInv

LEMMA RollbackStep == RollbackInv /\ TypeOK' /\ [Next]_vars => RollbackInv'
<1> SUFFICES ASSUME RollbackInv, TypeOK', [Next]_vars PROVE RollbackInv'
  OBVIOUS
<1>1. CASE UNCHANGED vars
  BY <1>1, RollbackFrame DEF vars
<1>2. ASSUME NEW p \in Procs, Call(p) PROVE RollbackInv'
  <2>1. ASSUME NEW i \in Items, Propose(p, i) PROVE RollbackInv'
    BY <2>1, RollbackPlan DEF Propose, Changes
  <2>2. ASSUME NEW v \in Updates, BeginUpdate(p, v) PROVE RollbackInv'
    BY <2>2, RollbackPlan DEF BeginUpdate, Changes
  <2>3. ASSUME NEW i \in Items, BeginApprove(p, i) \/ BeginReject(p, i) \/ BeginRollback(p, i)
        PROVE RollbackInv'
    BY <2>3, RollbackFrame DEF BeginApprove, BeginReject, BeginRollback
  <2> QED
    BY <1>2, <2>1, <2>2, <2>3 DEF Call
<1>3. ASSUME NEW p \in Procs, NEW i \in call[p].change,
             Stage(p, i) \/ ReadResolution(p, i) \/ Verify(p, i) \/ AppendEvent(p, i)
               \/ List(p, i) \/ Hash(p, i) \/ Persist(p, i)
      PROVE RollbackInv'
  BY <1>3, RollbackFrame
  DEF Stage, ReadResolution, Verify, AppendEvent, List, Hash, Persist
<1>4. ASSUME NEW p \in Procs, HashResolution(p) \/ Refused(p) \/ Refresh(p)
               \/ ViewsRefused(p) \/ Crash(p)
      PROVE RollbackInv'
  BY <1>4, RollbackFrame DEF HashResolution, Refused, Refresh, ViewsRefused, Crash
<1>5. ASSUME NEW p \in Procs, NEW i \in call[p].change,
             PlanManifest(p, i) \/ Apply(p, i) \/ Undo(p, i)
      PROVE RollbackInv'
  <2>1. i \in Changes
    BY DEF RollbackInv, TypeOK
  <2>2. CASE PlanManifest(p, i)
    BY <2>1, <2>2 DEF PlanManifest, NewManifest, RollbackInv, FilesExist, CopyIsPlanned, TypeOK
  <2> QED
    BY <1>5, <2>1, <2>2, RollbackApply, RollbackUndo
<1> QED
  BY <1>1, <1>2, <1>3, <1>4, <1>5 DEF Next, Step

\* transactions.rollback of an approved item restores what the proposal was made
\* against, for every interleaving with other processes, if every canonical file
\* existed at the start.
THEOREM RollbacksRestore == ASSUME Existed PROVE Spec => RollbackRestores
<1>1. Init => RollbackInv
  <2>1. Init => TypeOK
    BY InitType DEF TypeInv
  <2>2. Init => FilesExist /\ CopyIsPlanned
    BY Existed DEF Existed, Init, FilesExist, CopyIsPlanned, NewManifest
  <2> QED
    BY <2>1, <2>2 DEF RollbackInv
<1>2. RollbackInv /\ TypeOK' /\ [Next]_vars =>
        [\A p \in Procs, i \in Items : Undo(p, i) => file'[Target[i]] = proposal[i]]_vars
  BY RollbackUndo DEF Changes
<1> QED
  BY <1>1, <1>2, Types, RollbackStep, PTL DEF Spec, RollbackRestores

-----------------------------------------------------------------------------
(* The project ledger.                                                     *)

\* An appended event keeps the places of the others.
LEMMA AppendedEvent ==
  ASSUME events \in Seq(ProjectEvent), NEW e \in ProjectEvent, events' = Append(events, e),
         AppliedEventOnce, e.status = "applied" => IsApplied(e.of) = {}
  PROVE  AppliedEventOnce'
<1> DEFINE last == Len(events) + 1
<1>1. /\ last \in Nat /\ DOMAIN events = 1 .. Len(events) /\ last \notin DOMAIN events
      /\ DOMAIN events' = DOMAIN events \cup {last} /\ events'[last] = e
      /\ \A n \in DOMAIN events : events'[n] = events[n]
  OBVIOUS
<1> HIDE DEF last
<1>2. SUFFICES ASSUME NEW c \in Changes, NEW m \in IsApplied(c)', NEW n \in IsApplied(c)'
               PROVE  m = n
  BY DEF AppliedEventOnce
<1>3. CASE m \in DOMAIN events /\ n \in DOMAIN events
  BY <1>1, <1>3 DEF IsApplied, AppliedEventOnce
<1>4. CASE m = last
  BY <1>1, <1>4 DEF IsApplied
<1>5. CASE n = last
  BY <1>1, <1>5 DEF IsApplied
<1> QED
  BY <1>1, <1>3, <1>4, <1>5 DEF IsApplied

\* _append_project_state_event, append_jsonl_event: however many processes retry an
\* approval, and whenever they die, its event is recorded once.
THEOREM EventsOnce == Spec => []AppliedEventOnce
<1>1. Init => AppliedEventOnce
  BY DEF Init, AppliedEventOnce, IsApplied, Created
<1>2. TypeOK /\ AppliedEventOnce /\ [Next]_vars => AppliedEventOnce'
  <2> SUFFICES ASSUME TypeOK, AppliedEventOnce, [Next]_vars PROVE AppliedEventOnce'
    OBVIOUS
  <2>1. CASE UNCHANGED events
    BY <2>1 DEF AppliedEventOnce, IsApplied
  <2>2. ASSUME NEW p \in Procs, NEW c \in call[p].change, AppendEvent(p, c)
        PROVE AppliedEventOnce'
    <3>1. c \in Changes /\ events \in Seq(ProjectEvent)
      BY DEF TypeOK
    <3>2. CASE events' = events \o AppliedEvent(c)
      <4> DEFINE e == [of |-> c, status |-> "applied", shows |-> c]
      <4>1. e \in ProjectEvent /\ e.of = c
        BY <3>1 DEF ProjectEvent, Content
      <4>2. CASE IsApplied(c) = {}
        <5>1. events' = events \o <<e>>
          BY <3>2, <4>2 DEF AppliedEvent
        <5> HIDE DEF e
        <5>2. events' = Append(events, e)
          BY <3>1, <4>1, <5>1
        <5> QED
          BY <3>1, <4>1, <4>2, <5>2, AppendedEvent
      <4>3. CASE IsApplied(c) # {}
        <5>1. events' = events
          BY <3>1, <3>2, <4>3 DEF AppliedEvent
        <5> QED
          BY <2>1, <5>1
      <4> QED
        BY <4>2, <4>3
    <3>3. ASSUME NEW e \in Compensating(c), events' = Append(events, e)
          PROVE AppliedEventOnce'
      <4>1. PICK n \in IsApplied(c) \ {1} :
              e = [of |-> c, status |-> "rollback", shows |-> events[n - 1].shows]
        BY <3>3 DEF Compensating
      <4>2. events[n - 1] \in ProjectEvent
        BY <3>1, <4>1 DEF IsApplied
      <4>3. e \in ProjectEvent /\ e.status # "applied"
        BY <3>1, <4>1, <4>2 DEF ProjectEvent
      <4> QED
        BY <3>1, <3>3, <4>3, AppendedEvent
    <3>4. \/ events' = events
          \/ events' = events \o AppliedEvent(c)
          \/ \E e \in Compensating(c) : events' = Append(events, e)
      BY <2>2 DEF AppendEvent
    <3> QED
      BY <2>1, <3>2, <3>3, <3>4
  <2>3. ASSUME NEW p \in Procs, Call(p) PROVE UNCHANGED events
    BY <2>3 DEF Call, Propose, BeginApprove, BeginReject, BeginRollback, BeginUpdate
  <2>4. ASSUME NEW p \in Procs, NEW i \in call[p].change,
               Stage(p, i) \/ ReadResolution(p, i) \/ Verify(p, i) \/ PlanManifest(p, i)
                 \/ Apply(p, i) \/ Undo(p, i) \/ List(p, i) \/ Hash(p, i) \/ Persist(p, i)
        PROVE UNCHANGED events
    BY <2>4 DEF Stage, ReadResolution, Verify, PlanManifest, Apply, Undo, List, Hash, Persist
  <2>5. ASSUME NEW p \in Procs, HashResolution(p) \/ Refused(p) \/ Refresh(p)
                 \/ ViewsRefused(p) \/ Crash(p)
        PROVE UNCHANGED events
    BY <2>5 DEF HashResolution, Refused, Refresh, ViewsRefused, Crash
  <2>6. CASE UNCHANGED vars
    BY <2>1, <2>6 DEF vars
  <2> QED
    BY <2>1, <2>2, <2>3, <2>4, <2>5, <2>6 DEF Next, Step
<1> QED
  BY <1>1, <1>2, Types, PTL DEF Spec

-----------------------------------------------------------------------------
(* Decisions, when calls follow each other and no process dies.            *)

\* What the resolution ledger says of an item with its status.
Recorded(i) ==
  CASE item[i] = "applied" -> "updated"
    [] item[i] \in {"rejected", "rolled_back"} -> item[i]
    [] OTHER -> "review_pending"

\* The part of DecisionsAgree that is about one item.
Agreed(i) ==
  /\ item[i] = "applied" <=> InPlace(i)
  /\ i \in Compiled => resolution[i] = Recorded(i)

Waiting == {i \in Items : item[i] = "pending"}

\* The places of a call that decides before its operation, and after it.
Deciding == {"resolution", "hash_resolution", "verify", "plan", "apply", "undo"}
Viewing == {"list", "hash", "persist"}

\* The call has not changed what its item is about.
Unchanged(r) ==
  \/ r.kind = "approve" /\ r.at \in Deciding
  \/ r.kind = "reject"
  \/ r.kind = "rollback" /\ r.at = "undo"

\* The call is still to write the resolution ledger that it has read and changed.
Carries(r) ==
  \/ r.at \in {"hash_resolution", "verify", "plan", "apply"}
  \/ r.at \in Viewing /\ r.kind # "approve"

\* A call that stages, at its place.
Staging(r, i) ==
  /\ Agreed(i)
  /\ r.at = "stage" => item[i] = "absent" /\ dashboard = Waiting /\ proposal[i] # "none"
  /\ r.at # "stage" => item[i] = "pending"
  /\ r.at \in {"hash", "refresh"} => r.listed = Waiting
  /\ r.at = "refresh" => r.dashboard_seen = dashboard

\* A call that decides, at its place: its item has the old status until the end, its
\* operation is done or not yet, and what it has read is as it was.
Settling(r, i) ==
  /\ item[i] = IF r.kind = "rollback" THEN "applied" ELSE "pending"
  /\ dashboard = Waiting
  /\ Unchanged(r) => Agreed(i)
  /\ r.kind = "approve" /\ r.at \in {"event"} \cup Viewing =>
       InPlace(i) /\ (i \in Compiled => resolution[i] = "updated")
  /\ r.kind = "rollback" /\ r.at # "undo" => ~ InPlace(i)
  /\ r.at = "hash_resolution" => i \in Compiled
  /\ i \in Compiled =>
       /\ Carries(r) => r.resolved = [resolution EXCEPT ![i] = NewAction(r.kind)]
       /\ r.at \in Viewing /\ r.kind # "approve" => r.resolution_seen = resolution
  /\ r.at \in {"hash", "persist"} => r.listed = Waiting \ {i}
  /\ r.at = "persist" => r.note_seen = note[i] /\ r.dashboard_seen = dashboard

\* What holds while a call is under way and no other is.
Phase(r) ==
  \E i \in Changes :
    /\ r.change = {i}
    /\ \A j \in Items \ {i} : Agreed(j)
    /\ r.kind = "update" => i \in Updates /\ dashboard = Waiting
    /\ r.kind = "stage" => Staging(r, i)
    /\ r.kind \in Decisions => Settling(r, i)
    /\ r.at = "refresh" => r.kind = "stage"
    /\ r.kind # "none"

\* An operation can be undone in the resolution ledger.
Undoable ==
  \A i \in Compiled : InPlace(i) =>
    manifest[i].resolution_after = [manifest[i].resolution_before EXCEPT ![i] = "updated"]

Proposed == \A i \in Items : proposal[i] = "none" => item[i] = "absent"

OneCall ==
  \A p, q \in Procs : call[p].at # "idle" /\ call[q].at # "idle" => p = q

CalmInv ==
  /\ OneCall /\ Undoable /\ Proposed
  /\ \A p \in Procs : call[p].at # "idle" => Phase(call[p])
  /\ Quiet => DecisionsAgree

\* What Phase and the two others look at.
Facts == <<proposal, item, note, dashboard, resolution, manifest>>

LEMMA FactsFrame ==
  ASSUME UNCHANGED Facts
  PROVE  /\ \A r : Phase(r)' <=> Phase(r)
         /\ Undoable' <=> Undoable
         /\ Proposed' <=> Proposed
         /\ DecisionsAgree' <=> DecisionsAgree
BY DEF Facts, Phase, Staging, Settling, Unchanged, Carries, Agreed, Recorded, InPlace, Waiting, Undoable,
       Proposed, DecisionsAgree

LEMMA AgreedFrame ==
  ASSUME NEW j, item'[j] = item[j], manifest'[j] = manifest[j],
         j \in Compiled => resolution'[j] = resolution[j]
  PROVE  Agreed(j)' <=> Agreed(j)
BY DEF Agreed, Recorded, InPlace

LEMMA AgreeIs == DecisionsAgree <=> dashboard = Waiting /\ \A i \in Items : Agreed(i)
BY DEF DecisionsAgree, Waiting, Agreed, Recorded

\* A step of the one call under way, or the beginning of one.
LEMMA OneCallStep ==
  ASSUME TypeInv, CalmInv, NEW p \in Procs, Quiet \/ call[p].at # "idle",
         NEW r, call' = [call EXCEPT ![p] = r],
         Undoable', Proposed', r.at # "idle" => Phase(r)', r.at = "idle" => DecisionsAgree'
  PROVE  CalmInv'
<1>1. call'[p] = r /\ \A q \in Procs \ {p} : call'[q] = call[q]
  BY DEF TypeInv
<1>2. \A q \in Procs \ {p} : call'[q].at = "idle"
  BY <1>1 DEF CalmInv, OneCall, Quiet
<1>3. OneCall'
  BY <1>2 DEF OneCall
<1>4. \A q \in Procs : call'[q].at # "idle" => Phase(call[q])'
  BY <1>1, <1>2
<1>5. Quiet' => DecisionsAgree'
  BY <1>1 DEF Quiet
<1>. QED BY <1>3, <1>4, <1>5 DEF CalmInv

\* A call of whose phase nothing else depends on what it has just read.
LEMMA CallReads ==
  ASSUME TypeInv, CalmInv, NEW p \in Procs, call[p].at # "idle", UNCHANGED Facts,
         NEW r, call' = [call EXCEPT ![p] = r], r.at # "idle", Phase(r)
  PROVE  CalmInv'
<1>1. Undoable' /\ Proposed' /\ Phase(r)'
  BY FactsFrame DEF CalmInv
<1>. QED BY <1>1, OneCallStep

LEMMA CallReturns ==
  ASSUME TypeInv, CalmInv, NEW p \in Procs, call[p].at # "idle", UNCHANGED Facts,
         Returns(p), DecisionsAgree
  PROVE  CalmInv'
<1>1. Undoable' /\ Proposed' /\ DecisionsAgree'
  BY FactsFrame DEF CalmInv
<1>2. Idle.at = "idle"
  BY DEF Idle
<1>. QED BY <1>1, <1>2, OneCallStep DEF Returns

\* The record of a call that goes to another place, or has read something.
LEMMA GotoRecord ==
  ASSUME TypeInv, NEW p \in Procs, NEW label, Goto(p, label)
  PROVE  \E r : /\ call' = [call EXCEPT ![p] = r] /\ r.at = label
                /\ r.kind = call[p].kind /\ r.change = call[p].change
                /\ r.resolved = call[p].resolved
                /\ r.resolution_seen = call[p].resolution_seen
                /\ r.listed = call[p].listed
                /\ r.note_seen = call[p].note_seen
                /\ r.dashboard_seen = call[p].dashboard_seen
<1>1. PICK k \in AnyCall : k = call[p]
  BY DEF TypeInv, CallRecord
<1>2. call' = [call EXCEPT ![p] = [k EXCEPT !.at = label]]
  BY <1>1 DEF Goto
<1>3. PICK r : r = [k EXCEPT !.at = label]
  OBVIOUS
<1>4. /\ r.at = label /\ r.kind = k.kind /\ r.change = k.change /\ r.resolved = k.resolved
      /\ r.resolution_seen = k.resolution_seen /\ r.listed = k.listed
      /\ r.note_seen = k.note_seen /\ r.dashboard_seen = k.dashboard_seen
  BY <1>3 DEF AnyCall
<1>. QED BY <1>1, <1>2, <1>3, <1>4

LEMMA BeginsRecord ==
  ASSUME NEW p \in Procs, NEW kind, NEW c, NEW label, Begins(p, kind, c, label)
  PROVE  \E r : /\ call' = [call EXCEPT ![p] = r]
                /\ r.at = label /\ r.kind = kind /\ r.change = {c}
<1>1. PICK r : r = [Idle EXCEPT !.at = label, !.kind = kind, !.change = {c}]
  OBVIOUS
<1>2. r.at = label /\ r.kind = kind /\ r.change = {c}
  BY <1>1 DEF Idle
<1>. QED BY <1>1, <1>2 DEF Begins

\* The phase of a call, for its change.
LEMMA PhaseOf ==
  ASSUME TypeInv, NEW r \in CallRecord, Phase(r), NEW i \in r.change
  PROVE  /\ i \in Changes /\ r.change = {i}
         /\ \A j \in Items \ {i} : Agreed(j)
         /\ r.kind = "update" => i \in Updates /\ i \notin Items /\ dashboard = Waiting
         /\ r.kind = "stage" => i \in Items /\ Staging(r, i)
         /\ r.kind \in Decisions => i \in Items /\ Settling(r, i)
         /\ r.at = "refresh" => r.kind = "stage"
         /\ r.kind # "none"
BY ChangeAssumption DEF Phase, CallRecord, Decisions

\* Calls begin, when none is under way.
LEMMA BeginsCalm ==
  ASSUME TypeInv, CalmInv, NEW p \in Procs, Quiet, Call(p)
  PROVE  CalmInv'
<1>1. dashboard = Waiting /\ Undoable /\ Proposed /\ \A i \in Items : Agreed(i)
  BY AgreeIs DEF CalmInv
<1>2. ASSUME NEW i \in Items, Propose(p, i) PROVE CalmInv'
  <2>1. UNCHANGED <<item, note, dashboard, resolution, manifest>>
    BY <1>2 DEF Propose, views
  <2>2. proposal'[i] # "none" /\ item[i] = "absent"
    <3>1. i \in Changes /\ Target[i] \in Files
      BY ChangeAssumption DEF Changes
    <3>2. file[Target[i]] \in Content
      BY <3>1 DEF TypeInv, TypeOK
    <3>. QED BY <1>1, <1>2, <3>1, <3>2, NameAssumption
         DEF Propose, Proposed, TypeInv, TypeOK, Content
  <2>3. Undoable' /\ Waiting' = Waiting /\ \A j \in Items : Agreed(j)'
    BY <1>1, <2>1 DEF Undoable, InPlace, Waiting, Agreed, Recorded
  <2>4. Proposed'
    BY <1>1, <1>2, <2>1, <2>2 DEF Propose, Proposed, TypeInv, TypeOK
  <2>5. PICK r : /\ call' = [call EXCEPT ![p] = r]
                 /\ r.at = "stage" /\ r.kind = "stage" /\ r.change = {i}
    BY <1>2, BeginsRecord DEF Propose
  <2>6. Phase(r)'
    BY <1>1, <2>1, <2>2, <2>3, <2>5 DEF Phase, Staging, Changes, Decisions
  <2>. QED BY <2>3, <2>4, <2>5, <2>6, OneCallStep
<1>3. ASSUME NEW v \in Updates, BeginUpdate(p, v) PROVE CalmInv'
  <2>1. UNCHANGED <<item, note, dashboard, resolution, manifest>>
    BY <1>3 DEF BeginUpdate, views
  <2>2. v \notin Items
    BY ChangeAssumption
  <2>3. Undoable' /\ Waiting' = Waiting /\ \A j \in Items : Agreed(j)'
    BY <1>1, <2>1 DEF Undoable, InPlace, Waiting, Agreed, Recorded
  <2>4. Proposed'
    BY <1>1, <1>3, <2>1, <2>2 DEF BeginUpdate, Proposed, TypeInv, TypeOK, Changes
  <2>5. PICK r : /\ call' = [call EXCEPT ![p] = r]
                 /\ r.at = "verify" /\ r.kind = "update" /\ r.change = {v}
    BY <1>3, BeginsRecord DEF BeginUpdate
  <2>6. Phase(r)'
    BY <1>1, <2>1, <2>3, <2>5 DEF Phase, Changes, Decisions
  <2>. QED BY <2>3, <2>4, <2>5, <2>6, OneCallStep
<1>4. ASSUME NEW i \in Items, NEW kind \in Decisions, NEW label,
             item[i] = IF kind = "rollback" THEN "applied" ELSE "pending",
             label = IF kind = "rollback" THEN "undo" ELSE "resolution",
             Begins(p, kind, i, label), UNCHANGED Facts
      PROVE  CalmInv'
  <2>1. PICK r : /\ call' = [call EXCEPT ![p] = r]
                 /\ r.at = label /\ r.kind = kind /\ r.change = {i}
    BY <1>4, BeginsRecord
  <2>2. Settling(r, i)
    BY <1>1, <1>4, <2>1 DEF Settling, Unchanged, Carries, Deciding, Viewing, Decisions
  <2>3. Phase(r)
    BY <1>1, <1>4, <2>1, <2>2 DEF Phase, Changes, Decisions
  <2>4. Undoable' /\ Proposed' /\ Phase(r)'
    BY <1>1, <1>4, <2>3, FactsFrame
  <2>. QED BY <1>4, <2>1, <2>4, OneCallStep
<1>5. ASSUME NEW i \in Items, BeginApprove(p, i) \/ BeginReject(p, i) \/ BeginRollback(p, i)
      PROVE  CalmInv'
  BY <1>4, <1>5 DEF BeginApprove, BeginReject, BeginRollback, Decisions, Facts, views
<1>. QED BY <1>2, <1>3, <1>5 DEF Call

\* What a step may use of the one call under way.
LEMMA CallFacts ==
  ASSUME TypeInv, CalmInv, NEW p \in Procs, call[p].at # "idle"
  PROVE  /\ call[p] \in CallRecord /\ Fits(call[p]) /\ Phase(call[p])
         /\ ~ Contended(p)
         /\ Undoable /\ Proposed
BY DEF TypeInv, CalmInv, OneCall, Contended

\* The steps that read, and the append to the project ledger.
LEMMA ReadsCalm ==
  ASSUME TypeInv, CalmInv, NEW p \in Procs, NEW i \in call[p].change,
         \/ ReadResolution(p, i) \/ HashResolution(p) \/ Verify(p, i) \/ AppendEvent(p, i)
         \/ List(p, i) \/ Hash(p, i)
  PROVE  CalmInv'
<1>0. call[p].at # "idle" /\ UNCHANGED Facts
  BY DEF ReadResolution, HashResolution, Verify, AppendEvent, List, Hash, Does, Facts, views
<1>1. PICK k \in CallRecord : k = call[p] /\ Fits(k) /\ Phase(k)
  BY <1>0, CallFacts
<1>2. /\ i \in Changes /\ k.change = {i}
      /\ \A j \in Items \ {i} : Agreed(j)
      /\ k.kind = "update" => i \in Updates /\ i \notin Items /\ dashboard = Waiting
      /\ k.kind = "stage" => i \in Items /\ Staging(k, i)
      /\ k.kind \in Decisions => i \in Items /\ Settling(k, i)
      /\ k.at = "refresh" => k.kind = "stage"
      /\ k.kind # "none"
  BY <1>1, PhaseOf
<1>3. ASSUME NEW r, r.kind = k.kind, r.change = {i}, r.at # "refresh",
             r.kind = "stage" => Staging(r, i),
             r.kind \in Decisions => Settling(r, i)
      PROVE  Phase(r)
  BY <1>2, <1>3 DEF Phase
<1>4. CASE ReadResolution(p, i) /\ i \in Compiled
  <2>1. k.at = "resolution" /\ k.kind \in Decisions
    BY <1>1, <1>4 DEF ReadResolution, Does, Fits
  <2>2. PICK after : after = [resolution EXCEPT ![i] = NewAction(k.kind)]
    OBVIOUS
  <2>3. call' = [call EXCEPT ![p] = [[k EXCEPT !.at = "hash_resolution"] EXCEPT !.resolved = after]]
    BY <1>1, <1>4, <2>2 DEF ReadResolution
  <2>4. PICK r : r = [[k EXCEPT !.at = "hash_resolution"] EXCEPT !.resolved = after]
    OBVIOUS
  <2>5. r.at = "hash_resolution" /\ r.kind = k.kind /\ r.change = {i} /\ r.resolved = after
    <3>1. PICK m : m = [k EXCEPT !.at = "hash_resolution"]
      OBVIOUS
    <3>2. m \in CallRecord /\ m.at = "hash_resolution" /\ m.kind = k.kind /\ m.change = {i}
      BY <1>2, <3>1 DEF CallRecord, AnyCall, Labels
    <3>. QED BY <2>4, <3>1, <3>2 DEF CallRecord, AnyCall
  <2>6. Settling(r, i)
    BY <1>2, <1>4, <2>1, <2>2, <2>5 DEF Settling, Unchanged, Carries, Deciding, Viewing, Decisions
  <2>7. Phase(r)
    BY <1>3, <2>1, <2>5, <2>6 DEF Decisions
  <2>. QED BY <1>0, <2>3, <2>4, <2>5, <2>7, CallReads
<1>5. CASE ReadResolution(p, i) /\ i \notin Compiled
  <2>1. k.at = "resolution" /\ k.kind \in Decisions
    BY <1>1, <1>5 DEF ReadResolution, Does, Fits
  <2>2. PICK label \in {"verify", "list"} :
          Goto(p, label) /\ (label = "verify" <=> k.kind = "approve")
    BY <1>1, <1>5 DEF ReadResolution, AfterResolution
  <2>3. PICK r : /\ call' = [call EXCEPT ![p] = r] /\ r.at = label /\ r.kind = k.kind
                 /\ r.change = {i}
    BY <1>1, <1>2, <2>2, GotoRecord
  <2>4. Settling(r, i)
    BY <1>2, <1>5, <2>1, <2>2, <2>3 DEF Settling, Unchanged, Carries, Deciding, Viewing, Decisions
  <2>5. Phase(r)
    BY <1>3, <2>1, <2>2, <2>3, <2>4 DEF Decisions
  <2>. QED BY <1>0, <2>2, <2>3, <2>5, CallReads
<1>6. CASE HashResolution(p)
  <2>1. k.at = "hash_resolution" /\ k.kind \in Decisions
    BY <1>1, <1>6 DEF HashResolution, Fits
  <2>2. PICK label \in {"verify", "list"} :
          /\ label = "verify" <=> k.kind = "approve"
          /\ label = AfterResolution(k.kind)
    BY DEF AfterResolution
  <2>3. PICK r : r = [[k EXCEPT !.resolution_seen = resolution] EXCEPT !.at = label]
    OBVIOUS
  <2>4. call' = [call EXCEPT ![p] = r]
    BY <1>1, <1>6, <2>2, <2>3 DEF HashResolution
  <2>5. /\ r.at = label /\ r.kind = k.kind /\ r.change = {i} /\ r.resolved = k.resolved
        /\ r.resolution_seen = resolution
    <3>1. PICK m : m = [k EXCEPT !.resolution_seen = resolution]
      OBVIOUS
    <3>2. /\ m \in CallRecord /\ m.resolution_seen = resolution /\ m.kind = k.kind
          /\ m.change = {i} /\ m.resolved = k.resolved
      BY <1>2, <3>1 DEF CallRecord, AnyCall, TypeInv, TypeOK
    <3>. QED BY <2>3, <3>1, <3>2 DEF CallRecord, AnyCall
  <2>6. Settling(r, i)
    BY <1>2, <2>1, <2>2, <2>5 DEF Settling, Unchanged, Carries, Deciding, Viewing, Decisions
  <2>7. Phase(r)
    BY <1>3, <2>1, <2>2, <2>5, <2>6 DEF Decisions
  <2>. QED BY <1>0, <2>2, <2>4, <2>5, <2>7, CallReads
<1>7. CASE Verify(p, i)
  <2>1. k.at = "verify" /\ k.kind \in {"approve", "update"} /\ Goto(p, "plan")
    BY <1>1, <1>7 DEF Verify, Does, Fits
  <2>2. PICK r : /\ call' = [call EXCEPT ![p] = r] /\ r.at = "plan" /\ r.kind = k.kind
                 /\ r.change = {i} /\ r.resolved = k.resolved
    BY <1>1, <1>2, <2>1, GotoRecord
  <2>3. r.kind \in Decisions => Settling(r, i)
    BY <1>2, <2>1, <2>2 DEF Settling, Unchanged, Carries, Deciding, Viewing, Decisions
  <2>4. Phase(r)
    BY <1>3, <2>1, <2>2, <2>3
  <2>. QED BY <1>0, <2>2, <2>4, CallReads
<1>8. CASE AppendEvent(p, i)
  <2>1. k.at = "event" /\ k.kind \in {"approve", "update", "rollback"}
    BY <1>1, <1>8 DEF AppendEvent, Does, Fits
  <2>2. CASE k.kind = "update"
    <3>1. Returns(p)
      BY <1>1, <1>8, <2>2 DEF AppendEvent, AfterEvent
    <3>2. DecisionsAgree
      BY <1>2, <2>2, AgreeIs
    <3>. QED BY <1>0, <3>1, <3>2, CallReturns
  <2>3. CASE k.kind # "update"
    <3>1. PICK label \in {"list", "resolution"} :
            Goto(p, label) /\ (label = "list" <=> k.kind = "approve")
      BY <1>1, <1>8, <2>1, <2>3 DEF AppendEvent, AfterEvent
    <3>2. PICK r : /\ call' = [call EXCEPT ![p] = r] /\ r.at = label /\ r.kind = k.kind
                   /\ r.change = {i}
      BY <1>1, <1>2, <3>1, GotoRecord
    <3>3. k.kind \in Decisions
      BY <2>1, <2>3 DEF Decisions
    <3>4. Settling(r, i)
      BY <1>2, <2>1, <2>3, <3>1, <3>2, <3>3 DEF Settling, Unchanged, Carries, Deciding, Viewing
    <3>5. Phase(r)
      BY <1>3, <3>1, <3>2, <3>3, <3>4 DEF Decisions
    <3>. QED BY <1>0, <3>1, <3>2, <3>5, CallReads
  <2>. QED BY <2>2, <2>3
<1>9. CASE List(p, i)
  <2>1. k.at = "list" /\ k.kind \in Decisions \cup {"stage"}
    BY <1>1, <1>9 DEF List, Does, Fits
  <2>2. PICK listed \in SUBSET Items : listed = Listed(i, k.kind)
    BY DEF Listed
  <2>3. PICK r : r = [[k EXCEPT !.at = "hash"] EXCEPT !.listed = listed]
    OBVIOUS
  <2>4. call' = [call EXCEPT ![p] = r]
    BY <1>1, <1>9, <2>2, <2>3 DEF List
  <2>5. /\ r.at = "hash" /\ r.kind = k.kind /\ r.change = {i} /\ r.resolved = k.resolved
        /\ r.resolution_seen = k.resolution_seen /\ r.listed = listed
    <3>1. PICK m : m = [k EXCEPT !.at = "hash"]
      OBVIOUS
    <3>2. /\ m \in CallRecord /\ m.at = "hash" /\ m.kind = k.kind /\ m.change = {i}
          /\ m.resolved = k.resolved /\ m.resolution_seen = k.resolution_seen
      BY <1>2, <3>1 DEF CallRecord, AnyCall, Labels
    <3>. QED BY <2>3, <3>1, <3>2 DEF CallRecord, AnyCall
  <2>6. listed = IF k.kind = "stage" THEN Waiting ELSE Waiting \ {i}
    BY <2>2 DEF Listed, Waiting
  <2>7. r.kind = "stage" => Staging(r, i)
    BY <1>2, <2>1, <2>5, <2>6 DEF Staging
  <2>8. r.kind \in Decisions => Settling(r, i)
    BY <1>2, <2>1, <2>5, <2>6 DEF Settling, Unchanged, Carries, Deciding, Viewing, Decisions
  <2>9. Phase(r)
    BY <1>3, <2>5, <2>7, <2>8
  <2>. QED BY <1>0, <2>4, <2>5, <2>9, CallReads
<1>10. CASE Hash(p, i)
  <2>1. k.at = "hash" /\ k.kind \in Decisions \cup {"stage"}
    BY <1>1, <1>10 DEF Hash, Does, Fits
  <2>2. PICK label \in {"refresh", "persist"} : label = "refresh" <=> k.kind = "stage"
    OBVIOUS
  <2>3. PICK a : a = [k EXCEPT !.note_seen = note[i]]
    OBVIOUS
  <2>4. PICK b : b = [a EXCEPT !.dashboard_seen = dashboard]
    OBVIOUS
  <2>5. PICK r : r = [b EXCEPT !.at = label]
    OBVIOUS
  <2>6. call' = [call EXCEPT ![p] = r]
    BY <1>1, <1>10, <2>2, <2>3, <2>4, <2>5 DEF Hash
  <2>7. /\ r.at = label /\ r.kind = k.kind /\ r.change = {i} /\ r.resolved = k.resolved
        /\ r.resolution_seen = k.resolution_seen /\ r.listed = k.listed
        /\ r.note_seen = note[i] /\ r.dashboard_seen = dashboard
    <3>1. i \in Items
      BY <1>2, <2>1
    <3>2. /\ a \in CallRecord /\ a.kind = k.kind /\ a.change = {i} /\ a.resolved = k.resolved
          /\ a.resolution_seen = k.resolution_seen /\ a.listed = k.listed
          /\ a.note_seen = note[i]
      BY <1>2, <2>3, <3>1 DEF CallRecord, AnyCall, TypeInv, TypeOK
    <3>3. /\ b \in CallRecord /\ b.kind = k.kind /\ b.change = {i} /\ b.resolved = k.resolved
          /\ b.resolution_seen = k.resolution_seen /\ b.listed = k.listed
          /\ b.note_seen = note[i] /\ b.dashboard_seen = dashboard
      BY <2>4, <3>2 DEF CallRecord, AnyCall, TypeInv, TypeOK
    <3>. QED BY <2>5, <3>3 DEF CallRecord, AnyCall
  <2>8. r.kind = "stage" => Staging(r, i)
    BY <1>2, <2>1, <2>2, <2>7 DEF Staging
  <2>9. r.kind \in Decisions => Settling(r, i)
    BY <1>2, <2>1, <2>2, <2>7 DEF Settling, Unchanged, Carries, Deciding, Viewing, Decisions
  <2>10. Phase(r)
    BY <1>2, <2>2, <2>7, <2>8, <2>9 DEF Phase
  <2>. QED BY <1>0, <2>2, <2>6, <2>7, <2>10, CallReads
<1>. QED BY <1>4, <1>5, <1>6, <1>7, <1>8, <1>9, <1>10

\* The steps that write, and the ends of calls.
LEMMA WritesCalm ==
  ASSUME TypeInv, CalmInv, NEW p \in Procs, NEW i \in call[p].change,
         Stage(p, i) \/ PlanManifest(p, i) \/ Apply(p, i) \/ Undo(p, i) \/ Persist(p, i)
  PROVE  CalmInv'
<1>0. call[p].at # "idle"
  BY DEF Stage, PlanManifest, Apply, Undo, Persist, Does
<1>1. PICK k \in CallRecord : k = call[p] /\ Fits(k) /\ Phase(k)
  BY <1>0, CallFacts
<1>2. /\ i \in Changes /\ k.change = {i}
      /\ \A j \in Items \ {i} : Agreed(j)
      /\ k.kind = "update" => i \in Updates /\ i \notin Items /\ dashboard = Waiting
      /\ k.kind = "stage" => i \in Items /\ Staging(k, i)
      /\ k.kind \in Decisions => i \in Items /\ Settling(k, i)
  BY <1>1, PhaseOf
<1>3. Undoable /\ Proposed /\ Compiled \subseteq Items
  BY ChangeAssumption DEF CalmInv
<1>4. ASSUME NEW r, r.kind = k.kind, r.change = {i}, r.at # "refresh",
             k.kind # "none", \A j \in Items \ {i} : Agreed(j)',
             k.kind = "update" => dashboard' = Waiting',
             k.kind = "stage" => Staging(r, i)',
             k.kind \in Decisions => Settling(r, i)'
      PROVE  Phase(r)'
  BY <1>2, <1>4 DEF Phase
<1>5. CASE Stage(p, i)
  <2>1. k.at = "stage" /\ k.kind = "stage" /\ Goto(p, "list")
    BY <1>1, <1>5 DEF Stage, Does, Fits
  <2>2. UNCHANGED <<manifest, resolution, proposal>>
        /\ item' = [item EXCEPT ![i] = "pending"]
    BY <1>5 DEF Stage
  <2>3. PICK r : call' = [call EXCEPT ![p] = r] /\ r.at = "list" /\ r.kind = k.kind
                 /\ r.change = {i}
    BY <1>1, <1>2, <2>1, GotoRecord
  <2>4. item'[i] = "pending" /\ \A j \in Items \ {i} : item'[j] = item[j]
    BY <1>2, <2>1, <2>2 DEF TypeInv, TypeOK
  <2>5. \A j \in Items \ {i} : Agreed(j)'
    BY <1>2, <2>2, <2>4, AgreedFrame
  <2>6. Staging(r, i)'
    <3>1. Agreed(i) /\ item[i] = "absent"
      BY <1>2, <2>1 DEF Staging
    <3>2. Agreed(i)'
      BY <2>2, <2>4, <3>1 DEF Agreed, Recorded, InPlace
    <3>. QED BY <2>3, <2>4, <3>2 DEF Staging
  <2>7. Undoable' /\ Proposed'
    <3>1. proposal[i] # "none"
      BY <1>2, <2>1 DEF Staging
    <3>. QED BY <1>3, <2>2, <2>4, <3>1 DEF Undoable, InPlace, Proposed
  <2>8. Phase(r)'
    BY <1>4, <2>1, <2>3, <2>5, <2>6 DEF Decisions
  <2>. QED BY <1>0, <2>3, <2>7, <2>8, OneCallStep
<1>6. CASE PlanManifest(p, i)
  <2>1. k.at = "plan" /\ k.kind \in {"approve", "update"} /\ Goto(p, "apply")
        /\ UNCHANGED <<proposal, item, note, dashboard, resolution>>
    BY <1>1, <1>6 DEF PlanManifest, Does, Fits, views
  <2>2. manifest' = [manifest EXCEPT ![i] = NewManifest("planned")]
    BY <1>6 DEF PlanManifest
  <2>3. PICK r : call' = [call EXCEPT ![p] = r] /\ r.at = "apply" /\ r.kind = k.kind
                 /\ r.change = {i} /\ r.resolved = k.resolved
    BY <1>1, <1>2, <2>1, GotoRecord
  <2>4. ~ InPlace(i)' /\ \A j \in Changes \ {i} : manifest'[j] = manifest[j]
    BY <1>2, <2>2 DEF InPlace, NewManifest, TypeInv, TypeOK
  <2>5. \A j \in Items \ {i} : Agreed(j)'
    BY <1>2, <2>1, <2>4, AgreedFrame DEF Changes
  <2>6. k.kind \in Decisions => Settling(r, i)'
    <3> SUFFICES ASSUME k.kind = "approve" PROVE Settling(r, i)'
      BY <2>1 DEF Decisions
    <3>1. Settling(k, i) /\ Agreed(i) /\ item[i] = "pending"
      BY <1>2, <2>1 DEF Settling, Unchanged, Deciding, Decisions
    <3>2. Agreed(i)'
      BY <2>1, <2>4, <3>1 DEF Agreed, Recorded
    <3>. QED BY <2>1, <2>3, <2>4, <3>1, <3>2
         DEF Settling, Unchanged, Carries, Deciding, Viewing, Waiting
  <2>7. Undoable' /\ Proposed'
    <3>1. \A j \in Compiled \ {i} : j \in Changes \ {i}
      BY <1>3 DEF Changes
    <3>. QED BY <1>3, <2>1, <2>4, <3>1 DEF Undoable, InPlace, Proposed
  <2>8. Phase(r)'
    BY <1>2, <1>4, <2>1, <2>3, <2>5, <2>6 DEF Waiting
  <2>. QED BY <1>0, <2>3, <2>7, <2>8, OneCallStep
<1>7. CASE Apply(p, i)
  <2>1. k.at = "apply" /\ k.kind \in {"approve", "update"} /\ Goto(p, "event")
        /\ UNCHANGED <<proposal, item, note, dashboard>>
    BY <1>1, <1>7 DEF Apply, Does, Fits, views
  <2>2. PICK after : after = IF i \in Compiled THEN k.resolved ELSE resolution
    OBVIOUS
  <2>3. PICK m : m = [state |-> "applied", before |-> file[Target[i]],
                      resolution_before |-> resolution, resolution_after |-> after,
                      undone |-> FALSE]
    OBVIOUS
  <2>4. manifest' = [manifest EXCEPT ![i] = m] /\ resolution' = after
    BY <1>1, <1>7, <2>2, <2>3 DEF Apply
  <2>5. m.state = "applied" /\ ~ m.undone /\ m.resolution_before = resolution
        /\ m.resolution_after = after
    BY <2>3
  <2>6. PICK r : call' = [call EXCEPT ![p] = r] /\ r.at = "event" /\ r.kind = k.kind
                 /\ r.change = {i}
    BY <1>1, <1>2, <2>1, GotoRecord
  <2>7. InPlace(i)' /\ manifest'[i] = m
        /\ \A j \in Changes \ {i} : manifest'[j] = manifest[j]
    BY <1>2, <2>4, <2>5 DEF InPlace, TypeInv, TypeOK
  <2>8. i \in Compiled => k.kind = "approve" /\ after = [resolution EXCEPT ![i] = "updated"]
    <3> SUFFICES ASSUME i \in Compiled PROVE k.kind = "approve" /\ after = [resolution EXCEPT ![i] = "updated"]
      OBVIOUS
    <3>1. k.kind = "approve"
      BY <1>2, <1>3, <2>1
    <3>2. Settling(k, i)
      BY <1>2, <3>1 DEF Decisions
    <3>. QED BY <2>1, <2>2, <3>1, <3>2 DEF Settling, Carries, NewAction
  <2>9. \A j \in Compiled \ {i} : resolution'[j] = resolution[j]
    BY <2>2, <2>4, <2>8 DEF TypeInv, TypeOK, Resolution
  <2>10. \A j \in Items \ {i} : Agreed(j)'
    BY <1>2, <2>1, <2>7, <2>9, AgreedFrame DEF Changes
  <2>11. k.kind \in Decisions => Settling(r, i)'
    <3> SUFFICES ASSUME k.kind = "approve" PROVE Settling(r, i)'
      BY <2>1 DEF Decisions
    <3>1. item[i] = "pending" /\ dashboard = Waiting
      BY <1>2 DEF Settling, Decisions
    <3>2. i \in Compiled => resolution'[i] = "updated"
      BY <2>4, <2>8 DEF TypeInv, TypeOK, Resolution
    <3>. QED BY <2>1, <2>6, <2>7, <3>1, <3>2
         DEF Settling, Unchanged, Carries, Deciding, Viewing, Waiting
  <2>12. Undoable'
    <3>1. ASSUME NEW j \in Compiled \ {i}, InPlace(j)'
          PROVE  manifest'[j].resolution_after
                   = [manifest'[j].resolution_before EXCEPT ![j] = "updated"]
      <4>1. manifest'[j] = manifest[j]
        BY <1>3, <2>7, <3>1 DEF Changes
      <4>. QED BY <1>3, <3>1, <4>1 DEF Undoable, InPlace
    <3>. QED BY <2>5, <2>7, <2>8, <3>1 DEF Undoable
  <2>13. Proposed'
    BY <1>3, <2>1 DEF Proposed
  <2>14. Phase(r)'
    BY <1>2, <1>4, <2>1, <2>6, <2>10, <2>11 DEF Waiting
  <2>. QED BY <1>0, <2>6, <2>12, <2>13, <2>14, OneCallStep
<1>8. CASE Undo(p, i)
  <2>1. k.at = "undo" /\ k.kind = "rollback" /\ Goto(p, "event") /\ MayUndo(i)
        /\ UNCHANGED <<proposal, item, note, dashboard>>
    BY <1>1, <1>8 DEF Undo, Does, Fits, views
  <2>2. Settling(k, i) /\ Agreed(i) /\ item[i] = "applied" /\ InPlace(i) /\ i \in Items
    BY <1>2, <2>1 DEF Settling, Unchanged, Decisions, Agreed
  <2>3. PICK m \in Manifest : m = manifest[i]
    BY <1>2 DEF TypeInv, TypeOK
  <2>4. manifest' = [manifest EXCEPT ![i] = [m EXCEPT !.undone = TRUE]]
        /\ resolution' = IF i \in Compiled THEN m.resolution_before ELSE resolution
    BY <1>8, <2>3 DEF Undo
  <2>5. [m EXCEPT !.undone = TRUE].undone
    BY <2>3 DEF Manifest
  <2>6. PICK r : call' = [call EXCEPT ![p] = r] /\ r.at = "event" /\ r.kind = k.kind
                 /\ r.change = {i}
    BY <1>1, <1>2, <2>1, GotoRecord
  <2>7. ~ InPlace(i)' /\ \A j \in Changes \ {i} : manifest'[j] = manifest[j]
    BY <1>2, <2>4, <2>5 DEF InPlace, TypeInv, TypeOK
  <2>8. \A j \in Compiled \ {i} : resolution'[j] = resolution[j]
    <3>1. CASE i \in Compiled
      <4>1. resolution = [m.resolution_before EXCEPT ![i] = "updated"]
        BY <1>3, <2>1, <2>2, <2>3, <3>1 DEF MayUndo, Undoable
      <4>. QED BY <2>3, <2>4, <3>1, <4>1 DEF Manifest, Resolution
    <3>2. CASE i \notin Compiled
      BY <2>4, <3>2
    <3>. QED BY <3>1, <3>2
  <2>9. \A j \in Items \ {i} : Agreed(j)'
    BY <1>2, <2>1, <2>7, <2>8, AgreedFrame DEF Changes
  <2>10. Settling(r, i)'
    BY <2>1, <2>2, <2>6, <2>7 DEF Settling, Unchanged, Carries, Deciding, Viewing, Waiting
  <2>11. Undoable'
    <3>1. \A j \in Compiled \ {i} : j \in Changes \ {i}
      BY <1>3 DEF Changes
    <3>. QED BY <1>3, <2>7, <3>1 DEF Undoable, InPlace
  <2>12. Proposed'
    BY <1>3, <2>1 DEF Proposed
  <2>13. Phase(r)'
    BY <1>4, <2>1, <2>6, <2>9, <2>10 DEF Decisions
  <2>. QED BY <1>0, <2>6, <2>11, <2>12, <2>13, OneCallStep
<1>9. CASE Persist(p, i)
  <2>1. k.at = "persist" /\ k.kind \in Decisions /\ Returns(p)
        /\ UNCHANGED <<proposal, manifest>>
    BY <1>1, <1>9 DEF Persist, Does, Fits
  <2>2. i \in Items /\ Settling(k, i)
    BY <1>2, <2>1
  <2>3. item' = [item EXCEPT ![i] = NewStatus(k.kind)] /\ dashboard' = Waiting \ {i}
        /\ resolution' = IF i \in Compiled /\ k.kind # "approve" THEN k.resolved ELSE resolution
    BY <1>1, <1>9, <2>1, <2>2 DEF Persist, PersistedRow, Resolved, PersistsResolution, Settling
  <2>4. item'[i] = NewStatus(k.kind) /\ \A j \in Items \ {i} : item'[j] = item[j]
    BY <2>2, <2>3 DEF TypeInv, TypeOK
  <2>5. NewStatus(k.kind) \in {"applied", "rejected", "rolled_back"}
        /\ (NewStatus(k.kind) = "applied" <=> k.kind = "approve")
        /\ (k.kind # "approve" => NewAction(k.kind) = NewStatus(k.kind))
    BY <2>1 DEF NewStatus, NewAction, Decisions
  <2>6. i \in Compiled /\ k.kind # "approve" =>
          k.resolved = [resolution EXCEPT ![i] = NewStatus(k.kind)]
    BY <2>1, <2>2, <2>5 DEF Settling, Carries, Viewing
  <2>7. \A j \in Compiled \ {i} : resolution'[j] = resolution[j]
    BY <2>3, <2>6 DEF TypeInv, TypeOK, Resolution
  <2>8. \A j \in Items \ {i} : Agreed(j)'
    BY <1>2, <2>1, <2>4, <2>7, AgreedFrame
  <2>9. Agreed(i)'
    <3>1. InPlace(i)' <=> k.kind = "approve"
      BY <2>1, <2>2 DEF Settling, Unchanged, Viewing, Decisions, Agreed, InPlace
    <3>2. i \in Compiled => resolution'[i] = IF k.kind = "approve" THEN "updated"
                                                                   ELSE NewStatus(k.kind)
      BY <2>1, <2>2, <2>3, <2>6 DEF Settling, Viewing, TypeInv, TypeOK, Resolution
    <3>. QED BY <2>4, <2>5, <3>1, <3>2 DEF Agreed, Recorded
  <2>10. dashboard' = Waiting'
    BY <2>3, <2>4, <2>5 DEF Waiting
  <2>11. DecisionsAgree'
    BY <2>8, <2>9, <2>10 DEF DecisionsAgree, Waiting, Agreed, Recorded
  <2>12. Undoable' /\ Proposed'
    BY <1>3, <2>1, <2>2, <2>4 DEF Undoable, InPlace, Proposed, Settling
  <2>13. Idle.at = "idle"
    BY DEF Idle
  <2>. QED BY <1>0, <2>1, <2>11, <2>12, <2>13, OneCallStep DEF Returns
<1>. QED BY <1>5, <1>6, <1>7, <1>8, <1>9

\* A call ends: it has refreshed the dashboard, or an operation refuses it before it has
\* changed anything.  The operations on the views refuse no call that is alone.
LEMMA ReturnsCalm ==
  ASSUME TypeInv, CalmInv, NEW p \in Procs, Refused(p) \/ Refresh(p) \/ ViewsRefused(p)
  PROVE  CalmInv'
<1>0. call[p].at # "idle"
  BY DEF Refused, Refresh, ViewsRefused
<1>1. PICK k \in CallRecord : k = call[p] /\ Fits(k) /\ Phase(k)
  BY <1>0, CallFacts
<1>2. PICK i \in k.change : TRUE
  BY <1>1 DEF Phase
<1>3. /\ k.change = {i} /\ \A j \in Items \ {i} : Agreed(j)
      /\ k.kind = "update" => i \notin Items /\ dashboard = Waiting
      /\ k.kind = "stage" => Staging(k, i)
      /\ k.kind \in Decisions => i \in Items /\ Settling(k, i)
      /\ k.at = "refresh" => k.kind = "stage"
  BY <1>1, <1>2, PhaseOf
<1>4. ~ Contended(p)
  BY <1>0, CallFacts
<1>5. CASE Refused(p)
  <2>1. k.at \in {"stage", "verify", "apply", "undo"}
    BY <1>1, <1>5 DEF Refused
  <2>2. DecisionsAgree
    BY <1>1, <1>3, <2>1, AgreeIs DEF Fits, Settling, Staging, Unchanged, Deciding, Decisions
  <2>. QED BY <1>0, <1>5, <2>2, CallReturns DEF Refused, Facts, views
<1>6. CASE Refresh(p)
  <2>1. k.at = "refresh" /\ Staging(k, i) /\ dashboard' = Waiting /\ Returns(p)
        /\ UNCHANGED <<proposal, item, note, resolution, manifest>>
    BY <1>1, <1>3, <1>6 DEF Refresh, Staging
  <2>2. \A j \in Items : Agreed(j)
    BY <1>3, <2>1 DEF Staging
  <2>3. DecisionsAgree'
    BY <2>1, <2>2 DEF DecisionsAgree, Waiting, Agreed, Recorded, InPlace
  <2>4. Undoable' /\ Proposed'
    BY <2>1 DEF CalmInv, Undoable, InPlace, Proposed
  <2>5. Idle.at = "idle"
    BY DEF Idle
  <2>. QED BY <1>0, <2>1, <2>3, <2>4, <2>5, OneCallStep DEF Returns
<1>7. CASE ViewsRefused(p)
  <2>1. CASE k.at = "refresh"
    BY <1>1, <1>3, <1>4, <1>7, <2>1 DEF ViewsRefused, Staging
  <2>2. CASE k.at = "persist"
    <3>1. ~ ViewsUnchanged(p, i)
      BY <1>1, <1>3, <1>4, <1>7, <2>2 DEF ViewsRefused
    <3>2. Settling(k, i)
      BY <1>1, <1>3, <2>2 DEF Fits
    <3>. QED BY <1>1, <2>2, <3>1, <3>2
         DEF ViewsUnchanged, PersistsResolution, ResolutionUnchanged, Settling, Viewing
  <2>. QED BY <1>1, <1>7, <2>1, <2>2 DEF ViewsRefused
<1>. QED BY <1>5, <1>6, <1>7

\* Calls one after the other, about any items and updates; no process dies.
AloneNext == \E p \in Procs : (Quiet /\ Call(p)) \/ Step(p)

LEMMA AloneIsNext == [AloneNext]_vars => [Next]_vars
BY DEF AloneNext, Next

LEMMA CalmStep == TypeInv /\ CalmInv /\ [AloneNext]_vars => CalmInv'
<1> SUFFICES ASSUME TypeInv, CalmInv, [AloneNext]_vars PROVE CalmInv'
  OBVIOUS
<1>1. ASSUME NEW p \in Procs, Quiet, Call(p) PROVE CalmInv'
  BY <1>1, BeginsCalm
<1>2. ASSUME NEW p \in Procs, Step(p) PROVE CalmInv'
  <2>1. ASSUME NEW i \in call[p].change,
               \/ Stage(p, i) \/ ReadResolution(p, i) \/ Verify(p, i) \/ PlanManifest(p, i)
               \/ Apply(p, i) \/ Undo(p, i) \/ AppendEvent(p, i)
               \/ List(p, i) \/ Hash(p, i) \/ Persist(p, i)
        PROVE  CalmInv'
    BY <2>1, ReadsCalm, WritesCalm
  <2>2. CASE HashResolution(p)
    <3>1. PICK i \in call[p].change : TRUE
      BY <2>2 DEF HashResolution, CalmInv, Phase
    <3>. QED BY <2>2, <3>1, ReadsCalm
  <2>. QED BY <1>2, <2>1, <2>2, ReturnsCalm DEF Step
<1>3. CASE UNCHANGED vars
  <2>1. UNCHANGED Facts /\ call' = call
    BY <1>3 DEF vars, views, Facts
  <2>2. Undoable' /\ Proposed' /\ (DecisionsAgree' <=> DecisionsAgree)
    BY <2>1, FactsFrame DEF CalmInv
  <2>3. ASSUME NEW p \in Procs, call'[p].at # "idle" PROVE Phase(call[p])'
    <3>1. PICK r : r = call[p] /\ r = call'[p]
      BY <2>1
    <3>2. Phase(r)
      BY <2>1, <2>3, <3>1 DEF CalmInv
    <3>. QED BY <2>1, <3>1, <3>2, FactsFrame
  <2>4. OneCall' /\ (Quiet' <=> Quiet)
    BY <2>1 DEF CalmInv, OneCall, Quiet
  <2>. QED BY <2>2, <2>3, <2>4 DEF CalmInv
<1>. QED BY <1>1, <1>2, <1>3 DEF AloneNext

LEMMA CalmInit == Init => TypeInv /\ CalmInv
<1> SUFFICES ASSUME Init PROVE TypeInv /\ CalmInv
  OBVIOUS
<1>1. TypeInv
  BY InitType
<1>2. /\ \A p \in Procs : call[p].at = "idle"
      /\ \A c \in Changes : ~ InPlace(c)
  BY DEF Init, Idle, InPlace, NewManifest
<1>3. DecisionsAgree
  BY <1>2, ChangeAssumption DEF Init, DecisionsAgree, Changes, Pending
<1>4. Undoable /\ Proposed
  BY <1>2, ChangeAssumption DEF Init, Undoable, Proposed, Changes
<1>. QED BY <1>1, <1>2, <1>3, <1>4 DEF CalmInv, OneCall

\* stage, approve, reject, rollback and an update, one after the other: whatever is
\* decided, tried again and refused, in any order, about any number of items and
\* files, the decision on an item, its operation, its entry in the resolution ledger
\* and the dashboard agree when no call is under way.
THEOREM DecisionsAgreeAlone == Init /\ [][AloneNext]_vars => [](Quiet => DecisionsAgree)
<1>1. TypeInv /\ [AloneNext]_vars => TypeInv'
  BY AloneIsNext, TypeStep
<1>2. TypeInv /\ CalmInv => (Quiet => DecisionsAgree)
  BY DEF CalmInv
<1>. QED BY CalmInit, CalmStep, <1>1, <1>2, PTL

\* The same of the behaviours that TLC checks: those alone, about an item with a
\* compiled note, one about a project and an update of it.
THEOREM DecisionsAreTrue == MCSpec => []DecisionIsTruth
<1> DEFINE AloneInv == TypeInv /\ (alone => CalmInv)
<1>1. MCInit => AloneInv
  BY CalmInit DEF MCInit
<1>2. AloneInv /\ [MCNext]_<<vars, alone>> => AloneInv'
  <2> SUFFICES ASSUME AloneInv, [MCNext]_<<vars, alone>> PROVE AloneInv'
    OBVIOUS
  <2>1. [Next]_vars /\ alone' = alone
    BY DEF MCNext, Next
  <2>2. ASSUME alone PROVE [AloneNext]_vars
    BY <2>2 DEF MCNext, AloneNext
  <2>. QED BY <2>1, <2>2, TypeStep, CalmStep
<1>3. AloneInv => DecisionIsTruth
  BY DEF CalmInv, DecisionIsTruth
<1>. QED BY <1>1, <1>2, <1>3, PTL DEF MCSpec
=============================================================================
