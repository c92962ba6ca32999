------------------------------- MODULE Projects -------------------------------
(***************************************************************************)
(* The state of one project: knowledge/projects.py, the project part of    *)
(* review/service.py and of rebuild.py, and the refresh of handoffs that   *)
(* the daemon makes every night.                                           *)
(*                                                                         *)
(* The state lives in five places: the rows of project_states, the search  *)
(* index, STATE.md, HANDOFF.md and the project's event ledger.  The first  *)
(* four are written by operations of the transaction manager, which are    *)
(* one step each here (Transactions has their steps), under the writer     *)
(* lock; the ledger is appended to afterwards, without it.                 *)
(* One command at a time runs beside the daemon.                           *)
(*                                                                         *)
(* A state is named by the change that brings it.  A handoff is rendered   *)
(* with the time, so that each rendering is a file of its own: what        *)
(* refreshes make is told apart by a stamp.                                *)
(***************************************************************************)
EXTENDS Naturals, Sequences, FiniteSets

CONSTANTS Items,     \* ambiguous changes of state: they are staged for a review
          Updates,   \* the others
          Stamps,    \* the times at which handoffs are refreshed
          Refreshers, \* who of Callers calls create_handoff
          MaxPlans,  \* bound: changes planned in a behaviour
          MaxDeaths  \* bound: deaths in a behaviour

Changes == Items \cup Updates \cup {"created"}
State == Changes \cup {"missing"}
Callers == {"command", "daemon"}

ASSUME ChangeAssumption ==
  /\ Items \cap Updates = {}
  /\ (Items \cup Updates) \cap {"created", "missing", "refresh"} = {}
ASSUME StampAssumption == Stamps \subseteq Nat \ {0}
ASSUME RefresherAssumption == Refreshers \subseteq Callers
ASSUME BoundAssumption == MaxPlans \in Nat /\ MaxDeaths \in Nat

VARIABLES
  rows,      \* project_states, in the order of their ids
  index,     \* the state that the search index finds
  state_md,  \* the state in STATE.md
  handoff,   \* HANDOFF.md: the state it tells of, what wrote it, and when
  ledger,    \* ledgers/projects/<id>.jsonl
  item,      \* review_items.status, "absent" for no row
  proposal,  \* the files that each change was planned against
  before,    \* what the snapshot and copies of an applied operation hold
  applied,   \* the operations that are applied and not rolled back
  call,      \* what each caller is doing
  cut,       \* whether a death has kept an event from the ledger
  deaths     \* bound

state == <<rows, index, state_md, handoff>>
operations == <<proposal, before, applied>>
vars == <<state, ledger, item, operations, call, cut, deaths>>

-----------------------------------------------------------------------------
NoHandoff == [of |-> "missing", by |-> "missing", at |-> 0]
Handoff(c) == [of |-> c, by |-> c, at |-> 0]

NoFiles == [state |-> "missing", handoff |-> NoHandoff]
NoSnapshot == [rows |-> <<>>, index |-> "missing", files |-> NoFiles]
Files == [state |-> state_md, handoff |-> handoff]

Idle == [at |-> "idle", kind |-> "none", change |-> "created", state |-> "missing",
         handoff |-> NoHandoff]

Init ==
  /\ rows = <<>> /\ index = "missing" /\ state_md = "missing" /\ handoff = NoHandoff
  /\ ledger = <<>>
  /\ item = [i \in Items |-> "absent"]
  /\ proposal = [c \in Changes |-> NoFiles]
  /\ before = [c \in Changes |-> NoSnapshot]
  /\ applied = {}
  /\ call = [p \in Callers |-> Idle]
  /\ cut = FALSE /\ deaths = 0

Goto(p, label) == call' = [call EXCEPT ![p].at = label]

Returns(p) == call' = [call EXCEPT ![p] = Idle]

Does(at, c) == call["command"].at = at /\ call["command"].change = c

\* The project has PROJECT.md and its rows.
Exists == state_md # "missing"

\* A command starts to work on change c.
Begins(kind, c, label) ==
  /\ call["command"].at = "idle"
  /\ call' = [call EXCEPT !["command"] =
                [Idle EXCEPT !.at = label, !.kind = kind, !.change = c]]

(***************************************************************************)
(* The calls: create, update_state, approve, reject and rollback           *)
(***************************************************************************)

BeginCreate ==
  /\ ~ Exists
  /\ Begins("create", "created", "apply")
  /\ UNCHANGED <<state, ledger, item, operations, cut, deaths>>

\* update_state: STATE.md and HANDOFF.md are hashed, and the new ones rendered.
BeginUpdate(c) ==
  /\ Exists /\ c # "created" /\ proposal[c] = NoFiles
  /\ Cardinality({d \in Changes : proposal[d] # NoFiles}) < MaxPlans
  /\ Begins("update", c, IF c \in Items THEN "stage" ELSE "apply")
  /\ proposal' = [proposal EXCEPT ![c] = Files]
  /\ UNCHANGED <<state, ledger, item, before, applied, cut, deaths>>

BeginApprove(i) ==
  /\ item[i] = "pending"
  /\ Begins("approve", i, "apply")
  /\ UNCHANGED <<state, ledger, item, operations, cut, deaths>>

BeginReject(i) ==
  /\ item[i] = "pending"
  /\ Begins("reject", i, "persist")
  /\ UNCHANGED <<state, ledger, item, operations, cut, deaths>>

BeginRollback(i) ==
  /\ item[i] = "applied"
  /\ Begins("rollback", i, "undo")
  /\ UNCHANGED <<state, ledger, item, operations, cut, deaths>>

(***************************************************************************)
(* Operations.  Of two that overlap, the one that finds the writer lock    *)
(* held raises at once, and its caller with it; so does a precondition     *)
(* that does not hold.                                                     *)
(***************************************************************************)

Operating == {"stage", "apply", "undo", "persist", "refresh"}

Contended(p) ==
  /\ \A q \in Callers : call[q].at \in Operating
  /\ Returns(p)
  /\ UNCHANGED <<state, ledger, item, operations, cut, deaths>>

\* _write_state_db, and the same two statements in approve.
Written(c) ==
  Append([n \in DOMAIN rows |-> [rows[n] EXCEPT !.status = "past"]],
         [of |-> c, status |-> "active"])

\* The hashes that the plan expects; rollback expects what the operation left.
PreconditionsHold(c) ==
  IF call["command"].at = "apply" THEN Files = proposal[c]
  ELSE c \in applied /\ state_md = c /\ handoff = Handoff(c)

\* The one entry of the project's state is replaced: by _refresh_indexes_db in approve,
\* and by _index_project_db otherwise.
Indexed(c) == c

\* The rows and entries that _proposal_db_plan declares, and the copies of the files.
Snapshot == [rows |-> rows, index |-> index, files |-> Files]

\* One operation writes rows, index, STATE.md and HANDOFF.md.
Apply(c) ==
  /\ Does("apply", c)
  /\ PreconditionsHold(c)
  /\ rows' = Written(c)
  /\ index' = Indexed(c) /\ state_md' = c /\ handoff' = Handoff(c)
  /\ before' = [before EXCEPT ![c] = Snapshot]
  /\ applied' = applied \cup {c}
  /\ Goto("command", "event")
  /\ UNCHANGED <<ledger, item, proposal, cut, deaths>>

Undo(c) ==
  /\ Does("undo", c)
  /\ PreconditionsHold(c)
  /\ rows' = before[c].rows
  /\ index' = before[c].index
  /\ state_md' = before[c].files.state /\ handoff' = before[c].files.handoff
  /\ before' = [before EXCEPT ![c] = NoSnapshot]
  /\ applied' = applied \ {c}
  /\ Goto("command", "event")
  /\ UNCHANGED <<ledger, item, proposal, cut, deaths>>

Refused ==
  /\ call["command"].at \in {"apply", "undo"}
  /\ ~ PreconditionsHold(call["command"].change)
  /\ Returns("command")
  /\ UNCHANGED <<state, ledger, item, operations, cut, deaths>>

Stage(i) ==
  /\ Does("stage", i)
  /\ item' = [item EXCEPT ![i] = "pending"]
  /\ Returns("command")
  /\ UNCHANGED <<state, ledger, operations, cut, deaths>>

\* Mutant: an approved item gets the name of the decision as its status.
DecisionAsStatus(kind) ==
  CASE kind = "approve" -> "approved"
    [] kind = "reject" -> "rejected"
    [] OTHER -> "rolled_back"

NewStatus(kind) ==
  CASE kind = "approve" -> "applied"
    [] kind = "reject" -> "rejected"
    [] OTHER -> "rolled_back"

\* _persist_item_and_views (ReviewFlow has the views).
Persist(i) ==
  /\ Does("persist", i)
  /\ item' = [item EXCEPT ![i] = NewStatus(call["command"].kind)]
  /\ Returns("command")
  /\ UNCHANGED <<state, ledger, operations, cut, deaths>>

(***************************************************************************)
(* The ledger                                                              *)
(***************************************************************************)

Recorded(c) == {n \in DOMAIN ledger : ledger[n].of = c /\ ledger[n].status = "applied"}

AppliedEvent(c) ==
  IF Recorded(c) = {} THEN <<[of |-> c, status |-> "applied", shows |-> c]>> ELSE <<>>

\* Mutant: the state before is the first that is recorded.
CompensatesToFirst(c) ==
  IF Recorded(c) \ {1} = {} THEN <<>>
  ELSE <<[of |-> c, status |-> "rollback", shows |-> ledger[1].shows]>>

\* _append_project_rollback_event: the state of the event before that of c, once more.
CompensatingEvent(c) ==
  IF Recorded(c) \ {1} = {} THEN <<>>
  ELSE LET n == CHOOSE n \in Recorded(c) \ {1} : TRUE IN
       <<[of |-> c, status |-> "rollback", shows |-> ledger[n - 1].shows]>>

AppendEvent(c) ==
  /\ Does("event", c)
  /\ ledger' = ledger \o (IF call["command"].kind = "rollback" THEN CompensatingEvent(c)
                                                               ELSE AppliedEvent(c))
  /\ IF call["command"].kind \in {"create", "update"} THEN Returns("command")
                                                      ELSE Goto("command", "persist")
  /\ UNCHANGED <<state, item, operations, cut, deaths>>

(***************************************************************************)
(* create_handoff, by a command and by the daemon's refresh_handoffs       *)
(***************************************************************************)

\* Mutant: the oldest row is taken for the current state.
OldestState == rows[1].of

\* current_state: the last of the active rows.
CurrentState ==
  rows[CHOOSE n \in DOMAIN rows : /\ rows[n].status = "active"
                                  /\ \A m \in n + 1 .. Len(rows) : rows[m].status # "active"].of

\* The row is read first ...
ReadState(p) ==
  /\ Exists /\ p \in Refreshers /\ call[p].at = "idle"
  /\ call' = [call EXCEPT ![p] = [Idle EXCEPT !.at = "hash", !.kind = "handoff",
                                              !.state = CurrentState]]
  /\ UNCHANGED <<state, ledger, item, operations, cut, deaths>>

\* ... and the file is hashed afterwards.
HashHandoff(p) ==
  /\ call[p].at = "hash"
  /\ call' = [call EXCEPT ![p] = [@ EXCEPT !.at = "refresh", !.handoff = handoff]]
  /\ UNCHANGED <<state, ledger, item, operations, cut, deaths>>

Remembered ==
  {handoff.at} \cup {proposal[c].handoff.at : c \in Changes}
               \cup {before[c].files.handoff.at : c \in Changes}
               \cup {call[p].handoff.at : p \in Callers}

\* The time is later than that of every other rendering.
Refresh(p) ==
  /\ call[p].at = "refresh"
  /\ handoff = call[p].handoff
  /\ \E s \in Stamps \ Remembered :
       /\ \A t \in Stamps \ Remembered : s <= t
       /\ handoff' = [of |-> call[p].state, by |-> "refresh", at |-> s]
  /\ Returns(p)
  /\ UNCHANGED <<rows, index, state_md, ledger, item, operations, cut, deaths>>

RefreshRefused(p) ==
  /\ call[p].at = "refresh"
  /\ handoff # call[p].handoff
  /\ Returns(p)
  /\ UNCHANGED <<state, ledger, item, operations, cut, deaths>>

(***************************************************************************)
(* Rebuild and death                                                       *)
(***************************************************************************)

\* _project_state_from_markdown: one event, made up from STATE.md.
FromMarkdown == <<state_md>>

\* The states that the ledger tells of, or else STATE.md.
Replayed ==
  IF ledger = <<>> THEN FromMarkdown ELSE [n \in DOMAIN ledger |-> ledger[n].shows]

\* _rebuild_projects into a fresh database, where review items do not come back.
Rebuild ==
  /\ Exists /\ call["command"].at = "idle"
  /\ rows' = [n \in DOMAIN Replayed |->
                [of |-> Replayed[n], status |-> IF n = Len(Replayed) THEN "active" ELSE "past"]]
  /\ index' = Replayed[Len(Replayed)]
  /\ item' = [i \in Items |-> "absent"]
  /\ UNCHANGED <<state_md, handoff, ledger, operations, call, cut, deaths>>

\* An operation cut short is undone by the next recovery.
Die(p) ==
  /\ deaths < MaxDeaths /\ call[p].at # "idle"
  /\ deaths' = deaths + 1
  /\ cut' = (cut \/ call[p].at = "event")
  /\ Returns(p)
  /\ UNCHANGED <<state, ledger, item, operations>>

Call ==
  \/ BeginCreate
  \/ \E c \in Changes : BeginUpdate(c)
  \/ \E i \in Items : BeginApprove(i) \/ BeginReject(i) \/ BeginRollback(i)

Step ==
  \/ \E c \in Changes : Apply(c) \/ Undo(c) \/ AppendEvent(c)
  \/ \E i \in Items : Stage(i) \/ Persist(i)
  \/ Refused

\* What both do, once they have begun.
Going(p) == Contended(p) \/ HashHandoff(p) \/ Refresh(p) \/ RefreshRefused(p)

Next ==
  \/ Call \/ Step \/ Rebuild
  \/ \E p \in Callers : ReadState(p) \/ Going(p) \/ Die(p)

Spec == Init /\ [][Next]_vars

\* The daemon's night comes round, and goes on.
FairSpec == Spec /\ WF_vars(ReadState("daemon")) /\ WF_vars(Going("daemon"))

-----------------------------------------------------------------------------
Places == {"idle", "stage", "apply", "undo", "event", "persist", "hash", "refresh"}
Kinds == {"none", "create", "update", "approve", "reject", "rollback", "handoff"}

Row == [of: State, status: {"active", "past"}]
HandoffFile == [of: State, by: State \cup {"refresh"}, at: Stamps \cup {0}]
FilePair == [state: State, handoff: HandoffFile]
Event == [of: Changes, status: {"applied", "rollback"}, shows: State]

\* The values every variable takes.
TypeOK ==
  /\ rows \in Seq(Row) /\ index \in State /\ state_md \in State
  /\ handoff \in HandoffFile
  /\ ledger \in Seq(Event)
  /\ item \in [Items -> {"absent", "pending", "applied", "rejected", "rolled_back"}]
  /\ proposal \in [Changes -> FilePair]
  /\ before \in [Changes -> [rows: Seq(Row), index: State, files: FilePair]]
  /\ applied \subseteq Changes
  /\ call \in [Callers -> [at: Places, kind: Kinds, change: Changes, state: State,
                           handoff: HandoffFile]]
  /\ cut \in BOOLEAN /\ deaths \in 0 .. MaxDeaths

\* _write_state_db, approve, rollback and _rebuild_projects: one row is active, the
\* last; index and STATE.md show its state; and but for the moment between an operation
\* and its event, so does the last event, from which a rebuild takes the state.  This
\* goes as long as no process dies in that moment.
StateAgrees ==
  Exists /\ ~ cut =>
    /\ {n \in DOMAIN rows : rows[n].status = "active"} = {Len(rows)}
    /\ rows[Len(rows)].of = state_md
    /\ index = state_md
    /\ call["command"].at # "event" => ledger[Len(ledger)].shows = state_md

\* refresh_handoffs: if commands stop, HANDOFF.md tells in the end of the state that
\* the rows hold, although a refresh may have written a state that it read before the
\* last change, or been refused.
HandoffCatchesUp ==
  <>[](call["command"].at = "idle") => <>[](Exists => handoff.of = rows[Len(rows)].of)
=============================================================================
