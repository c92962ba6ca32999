----------------------------- MODULE ReviewFlow -----------------------------
(***************************************************************************)
(* Reviewed changes: review/service.py, and the changes of project state   *)
(* that knowledge/projects.py makes with and without a review.             *)
(*                                                                         *)
(* The calls are built from operations of the transaction manager, which   *)
(* are one step each here: Transactions shows what that takes, and when it *)
(* fails.  So is an append to the project ledger (GapLifecycle has its     *)
(* steps).  What is left open is everything between those operations:      *)
(* other processes, refusals, and the death of the process.                *)
(***************************************************************************)
EXTENDS Naturals, Sequences

CONSTANTS Procs,
          Items,     \* review items, each with the operation it proposes
          Updates,   \* unambiguous updates of the project's state, not reviewed
          Files,
          Target,    \* Target[c]: the file that change c writes
          Compiled,  \* items that compile_source staged for one source, and which
                     \* so share one resolution ledger
          Project,   \* changes of the project's state: they carry an event
          Original,  \* Original[f]: "original", or "missing" for no file
          Crashes    \* whether processes die

Changes == Items \cup Updates
Content == Changes \cup {"original", "missing"}

ASSUME ChangeAssumption ==
  /\ Items \cap Updates = {}
  /\ Target \in [Changes -> Files]
  /\ Compiled \subseteq Items
  /\ Updates \subseteq Project /\ Project \subseteq Changes
  /\ Original \in [Files -> {"original", "missing"}]
  /\ Crashes \in BOOLEAN
ASSUME NameAssumption == Changes \cap {"original", "missing", "none", "created"} = {}

VARIABLES
  file,       \* the canonical files that changes are about
  proposal,   \* the content each change was planned against, "none" if not planned
  item,       \* review_items.status, "absent" for no row
  note,       \* the status on the note of each item in 12 Staging
  dashboard,  \* the items listed in 00 Home/Needs Review.md
  resolution, \* the source's resolution ledger: the action recorded for each item
  manifest,   \* the manifest of each change
  events,     \* the project's event ledger
  call        \* what each process is doing, and what it has read for it

vars == <<file, proposal, item, note, dashboard, resolution, manifest, events, call>>
views == <<item, note, dashboard>>

-----------------------------------------------------------------------------
Resolution == [Compiled -> {"review_pending", "updated", "rejected", "rolled_back"}]

\* before: what rollback restores; after: the resolution ledger that it expects.
Manifest ==
  [state: {"none", "planned", "applied"}, before: Content, resolution_before: Resolution,
   resolution_after: Resolution, undone: BOOLEAN]

Pending == [i \in Compiled |-> "review_pending"]

NewManifest(state) ==
  [state |-> state, before |-> "original", resolution_before |-> Pending,
   resolution_after |-> Pending, undone |-> FALSE]

Idle ==
  [at |-> "idle", kind |-> "none", change |-> {}, resolved |-> Pending,
   resolution_seen |-> Pending, listed |-> {}, note_seen |-> "absent",
   dashboard_seen |-> {}]

\* Mutant: an approved item gets the name of the decision as its status.
NewStatusIsDecision(kind) ==
  CASE kind = "approve" -> "approved"
    [] kind = "reject" -> "rejected"
    [] kind = "rollback" -> "rolled_back"

\* The status that a call gives its item, and the action it records.
NewStatus(kind) ==
  CASE kind = "approve" -> "applied"
    [] kind = "reject" -> "rejected"
    [] kind = "rollback" -> "rolled_back"

NewAction(kind) ==
  CASE kind = "approve" -> "updated"
    [] kind = "reject" -> "rejected"
    [] kind = "rollback" -> "rolled_back"

Does(p, at, c) == call[p].at = at /\ c \in call[p].change

Goto(p, label) == call' = [call EXCEPT ![p].at = label]

Returns(p) == call' = [call EXCEPT ![p] = Idle]

Begins(p, kind, c, label) ==
  /\ call[p].at = "idle"
  /\ call' = [call EXCEPT ![p] = [Idle EXCEPT !.at = label, !.kind = kind, !.change = {c}]]

\* A live owner of the writer lock makes every operation raise at once.
Contended(p) == \E q \in Procs \ {p} : call[q].at # "idle"

Created == [of |-> "created", status |-> "created", shows |-> "original"]

Init ==
  /\ file = Original
  /\ proposal = [c \in Changes |-> "none"]
  /\ item = [i \in Items |-> "absent"]
  /\ note = [i \in Items |-> "absent"]
  /\ dashboard = {}
  /\ resolution = Pending
  /\ manifest = [c \in Changes |-> NewManifest("none")]
  /\ events = <<Created>>
  /\ call = [p \in Procs |-> Idle]

(***************************************************************************)
(* stage                                                                   *)
(***************************************************************************)

\* The caller plans against the file as it is; stage writes proposal.json.
Propose(p, i) ==
  /\ proposal[i] = "none"
  /\ Begins(p, "stage", i, "stage")
  /\ proposal' = [proposal EXCEPT ![i] = file[Target[i]]]
  /\ UNCHANGED <<file, views, resolution, manifest, events>>

\* The note and the row of the item, in one operation.
Stage(p, i) ==
  /\ Does(p, "stage", i)
  /\ item' = [item EXCEPT ![i] = "pending"]
  /\ note' = [note EXCEPT ![i] = "pending"]
  /\ Goto(p, "list")
  /\ UNCHANGED <<file, proposal, dashboard, resolution, manifest, events>>

(***************************************************************************)
(* approve, reject, rollback and update_state, up to the change itself     *)
(***************************************************************************)

\* get(): the status is read once.
BeginApprove(p, i) ==
  /\ item[i] = "pending"
  /\ Begins(p, "approve", i, "resolution")
  /\ UNCHANGED <<file, proposal, views, resolution, manifest, events>>

BeginReject(p, i) ==
  /\ item[i] = "pending"
  /\ Begins(p, "reject", i, "resolution")
  /\ UNCHANGED <<file, proposal, views, resolution, manifest, events>>

BeginRollback(p, i) ==
  /\ item[i] = "applied"
  /\ Begins(p, "rollback", i, "undo")
  /\ UNCHANGED <<file, proposal, views, resolution, manifest, events>>

\* update_state of an unambiguous change plans and applies in one call.
BeginUpdate(p, u) ==
  /\ proposal[u] = "none"
  /\ Begins(p, "update", u, "verify")
  /\ proposal' = [proposal EXCEPT ![u] = file[Target[u]]]
  /\ UNCHANGED <<file, views, resolution, manifest, events>>

AfterResolution(kind) == IF kind = "approve" THEN "verify" ELSE "list"

\* _resolution_write: the ledger is read and changed in memory; its hash, which
\* the write will expect, is taken afterwards.
ReadResolution(p, i) ==
  /\ Does(p, "resolution", i)
  /\ IF i \in Compiled
       THEN call' = [call EXCEPT ![p] = [@ EXCEPT !.at = "hash_resolution",
               !.resolved = [resolution EXCEPT ![i] = NewAction(call[p].kind)]]]
       ELSE Goto(p, AfterResolution(call[p].kind))
  /\ UNCHANGED <<file, proposal, views, resolution, manifest, events>>

HashResolution(p) ==
  /\ call[p].at = "hash_resolution"
  /\ call' = [call EXCEPT ![p] = [@ EXCEPT !.resolution_seen = resolution,
                                           !.at = AfterResolution(call[p].kind)]]
  /\ UNCHANGED <<file, proposal, views, resolution, manifest, events>>

ResolutionUnchanged(p, c) == c \in Compiled => resolution = call[p].resolution_seen

\* Mutant: no precondition is verified.
NothingVerified(p, c) == c \in Changes

\* _verify_preconditions: a file that was missing has no expected hash, and is not
\* looked at.
PreconditionsHold(p, c) ==
  /\ proposal[c] = "missing" \/ file[Target[c]] = proposal[c]
  /\ ResolutionUnchanged(p, c)

\* transactions.apply verifies, writes a new manifest under the identifier of the
\* proposal, and verifies again under the lock.
Verify(p, c) ==
  /\ Does(p, "verify", c)
  /\ PreconditionsHold(p, c)
  /\ Goto(p, "plan")
  /\ UNCHANGED <<file, proposal, views, resolution, manifest, events>>

PlanManifest(p, c) ==
  /\ Does(p, "plan", c)
  /\ manifest' = [manifest EXCEPT ![c] = NewManifest("planned")]
  /\ Goto(p, "apply")
  /\ UNCHANGED <<file, proposal, views, resolution, events>>

Apply(p, c) ==
  LET after == IF c \in Compiled THEN call[p].resolved ELSE resolution IN
  /\ Does(p, "apply", c)
  /\ PreconditionsHold(p, c)
  /\ manifest' = [manifest EXCEPT ![c] =
        [state |-> "applied", before |-> file[Target[c]], resolution_before |-> resolution,
         resolution_after |-> after, undone |-> FALSE]]
  /\ file' = [file EXCEPT ![Target[c]] = c]
  /\ resolution' = after
  /\ Goto(p, "event")
  /\ UNCHANGED <<proposal, views, events>>

\* transactions.rollback: the files must be what the operation left.
MayUndo(i) ==
  /\ manifest[i].state = "applied" /\ ~ manifest[i].undone
  /\ file[Target[i]] = i
  /\ i \in Compiled => resolution = manifest[i].resolution_after

Undo(p, i) ==
  /\ Does(p, "undo", i)
  /\ MayUndo(i)
  /\ file' = [file EXCEPT ![Target[i]] = manifest[i].before]
  /\ resolution' = IF i \in Compiled THEN manifest[i].resolution_before ELSE resolution
  /\ manifest' = [manifest EXCEPT ![i].undone = TRUE]
  /\ Goto(p, "event")
  /\ UNCHANGED <<proposal, views, events>>

\* A refused operation raises, and its caller with it.
Refused(p) ==
  /\ \E c \in call[p].change :
       \/ call[p].at = "stage" /\ Contended(p)
       \/ call[p].at = "verify" /\ ~ PreconditionsHold(p, c)
       \/ call[p].at = "apply" /\ (Contended(p) \/ ~ PreconditionsHold(p, c))
       \/ call[p].at = "undo" /\ (Contended(p) \/ ~ MayUndo(c))
  /\ Returns(p)
  /\ UNCHANGED <<file, proposal, views, resolution, manifest, events>>

(***************************************************************************)
(* The project ledger                                                      *)
(***************************************************************************)

IsApplied(c) == {n \in DOMAIN events : events[n].of = c /\ events[n].status = "applied"}

\* Mutant: the event is appended whether it is there or not.
AppliedEventAgain(c) == <<[of |-> c, status |-> "applied", shows |-> c]>>

\* The event of a proposal has its identifier since the proposal was made, and is
\* not appended twice.
AppliedEvent(c) ==
  IF IsApplied(c) = {} THEN <<[of |-> c, status |-> "applied", shows |-> c]>> ELSE <<>>

\* A compensating event shows what the event before the compensated one shows.
Compensating(c) ==
  {[of |-> c, status |-> "rollback", shows |-> events[n - 1].shows] : n \in IsApplied(c) \ {1}}

AfterEvent(kind) ==
  CASE kind = "approve" -> "list"
    [] kind = "rollback" -> "resolution"
    [] kind = "update" -> "idle"

AppendEvent(p, c) ==
  /\ Does(p, "event", c)
  /\ \/ c \notin Project /\ UNCHANGED events
     \/ /\ c \in Project /\ call[p].kind # "rollback"
        /\ events' = events \o AppliedEvent(c)
     \/ /\ c \in Project /\ call[p].kind = "rollback"
        /\ IF Compensating(c) = {}
             THEN UNCHANGED events
             ELSE \E e \in Compensating(c) : events' = Append(events, e)
  /\ IF AfterEvent(call[p].kind) = "idle" THEN Returns(p)
                                         ELSE Goto(p, AfterEvent(call[p].kind))
  /\ UNCHANGED <<file, proposal, views, resolution, manifest>>

(***************************************************************************)
(* refresh_dashboard and _persist_item_and_views: the rows are listed, the *)
(* files are hashed, and an operation writes what was made of them.        *)
(***************************************************************************)

\* The pending rows; a call other than stage replaces its own by the new item.
Listed(i, kind) ==
  {j \in Items : item[j] = "pending"} \ (IF kind = "stage" THEN {} ELSE {i})

List(p, i) ==
  /\ Does(p, "list", i)
  /\ call' = [call EXCEPT ![p] = [@ EXCEPT !.at = "hash",
                                            !.listed = Listed(i, call[p].kind)]]
  /\ UNCHANGED <<file, proposal, views, resolution, manifest, events>>

Hash(p, i) ==
  /\ Does(p, "hash", i)
  /\ call' = [call EXCEPT ![p] = [@ EXCEPT !.note_seen = note[i], !.dashboard_seen = dashboard,
                  !.at = IF call[p].kind = "stage" THEN "refresh" ELSE "persist"]]
  /\ UNCHANGED <<file, proposal, views, resolution, manifest, events>>

Refresh(p) ==
  /\ call[p].at = "refresh"
  /\ dashboard = call[p].dashboard_seen
  /\ dashboard' = call[p].listed
  /\ Returns(p)
  /\ UNCHANGED <<file, proposal, item, note, resolution, manifest, events>>

\* An approval has written the resolution ledger with its change already.
PersistsResolution(p, i) == i \in Compiled /\ call[p].kind # "approve"

ViewsUnchanged(p, i) ==
  /\ note[i] = call[p].note_seen
  /\ dashboard = call[p].dashboard_seen
  /\ PersistsResolution(p, i) => ResolutionUnchanged(p, i)

\* Mutant: a decision persists the views only.
ViewsOnly(p, i) == resolution

\* The new content of the resolution ledger that a decision writes with the views.
Resolved(p, i) ==
  IF PersistsResolution(p, i) THEN call[p].resolved ELSE resolution

PersistedRow(p, i) == [item EXCEPT ![i] = NewStatus(call[p].kind)]

Persist(p, i) ==
  /\ Does(p, "persist", i)
  /\ ViewsUnchanged(p, i)
  /\ item' = PersistedRow(p, i)
  /\ note' = [note EXCEPT ![i] = NewStatus(call[p].kind)]
  /\ dashboard' = call[p].listed
  /\ resolution' = Resolved(p, i)
  /\ Returns(p)
  /\ UNCHANGED <<file, proposal, manifest, events>>

ViewsRefused(p) ==
  /\ \/ call[p].at = "refresh" /\ dashboard # call[p].dashboard_seen
     \/ call[p].at = "persist" /\ \E i \in call[p].change : ~ ViewsUnchanged(p, i)
     \/ call[p].at \in {"refresh", "persist"} /\ Contended(p)
  /\ Returns(p)
  /\ UNCHANGED <<file, proposal, views, resolution, manifest, events>>

\* A process dies between two operations; another takes its place.
Crash(p) ==
  /\ Crashes
  /\ call[p].at # "idle"
  /\ Returns(p)
  /\ UNCHANGED <<file, proposal, views, resolution, manifest, events>>

Call(p) ==
  \/ \E i \in Items :
       Propose(p, i) \/ BeginApprove(p, i) \/ BeginReject(p, i) \/ BeginRollback(p, i)
  \/ \E u \in Updates : BeginUpdate(p, u)

Step(p) ==
  \/ \E i \in call[p].change :
       \/ Stage(p, i) \/ ReadResolution(p, i) \/ Verify(p, i) \/ PlanManifest(p, i)
       \/ Apply(p, i) \/ Undo(p, i) \/ AppendEvent(p, i)
       \/ List(p, i) \/ Hash(p, i) \/ Persist(p, i)
  \/ HashResolution(p) \/ Refused(p) \/ Refresh(p) \/ ViewsRefused(p)

Next == \E p \in Procs : Call(p) \/ Step(p) \/ Crash(p)

Spec == Init /\ [][Next]_vars

-----------------------------------------------------------------------------
Statuses == {"absent", "pending", "applied", "rejected", "rolled_back"}

Labels ==
  {"idle", "stage", "resolution", "hash_resolution", "verify", "plan", "apply", "undo",
   "event", "list", "hash", "refresh", "persist"}

ProjectEvent ==
  [of: Changes \cup {"created"}, status: {"created", "applied", "rollback"}, shows: Content]

\* The values every variable takes.
TypeOK ==
  /\ file \in [Files -> Content]
  /\ proposal \in [Changes -> Content \cup {"none"}]
  /\ item \in [Items -> Statuses]
  /\ note \in [Items -> Statuses]
  /\ dashboard \subseteq Items
  /\ resolution \in Resolution
  /\ manifest \in [Changes -> Manifest]
  /\ events \in Seq(ProjectEvent)
  /\ call \in [Procs ->
       [at: Labels, kind: {"none", "stage", "approve", "reject", "rollback", "update"},
        change: SUBSET Changes, resolved: Resolution, resolution_seen: Resolution,
        listed: SUBSET Items, note_seen: Statuses, dashboard_seen: SUBSET Items]]

Quiet == \A p \in Procs : call[p].at = "idle"

InPlace(c) == manifest[c].state = "applied" /\ ~ manifest[c].undone

\* The staged note of an item says what its row says, whatever races and dies: both
\* are written by one operation.
NoteShowsRow == note = item

\* approve, reject and rollback: while no call is under way, the decision on an
\* item, its operation and its entry in the resolution ledger say the same, and
\* Needs Review lists the pending items and no other.
DecisionsAgree ==
  /\ dashboard = {i \in Items : item[i] = "pending"}
  /\ \A i \in Items :
       /\ item[i] = "applied" <=> InPlace(i)
       /\ i \in Compiled =>
            resolution[i] = CASE item[i] = "applied" -> "updated"
                              [] item[i] \in {"rejected", "rolled_back"} -> item[i]
                              [] OTHER -> "review_pending"

\* append_jsonl_event: however often an approval is tried, its event is recorded
\* once.
AppliedEventOnce == \A c, d \in Changes : \A m \in IsApplied(c), n \in IsApplied(d) :
  c = d => m = n

\* transactions.rollback of an approved item: its file is again what the proposal
\* was made against.
RollbackRestores ==
  [][\A p \in Procs, i \in Items : Undo(p, i) => file'[Target[i]] = proposal[i]]_vars
=============================================================================
