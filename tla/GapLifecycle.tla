---------------------------- MODULE GapLifecycle ----------------------------
(***************************************************************************)
(* Knowledge gaps: the questions table, the ledger knowledge-gaps.jsonl    *)
(* that a rebuild replays, and the dashboard of unanswered questions       *)
(* (knowledge/gaps.py, verification/service.py, storage/durable.py, and    *)
(* the parts of migration.py and rebuild.py about gaps).                   *)
(*                                                                         *)
(* A SQLite transaction is one step.  So is the refresh of the dashboard   *)
(* through the transaction manager, which Transactions shows to be atomic. *)
(* An append to the ledger is two: the file is read, then replaced.        *)
(* A call is made by a process that does nothing else until it returns.    *)
(***************************************************************************)
EXTENDS Naturals, Sequences, FiniteSets, Functions

CONSTANTS Procs,       \* processes: daemon, commands, MCP server
          Questions,
          InitialRows, \* the states a question may start in, "absent" for none
          Modes,       \* which kinds of behaviour there are, of AllModes
          MaxCalls     \* bound: MaxCalls[m] calls in a behaviour of kind m

\* "alone": one call after the other, and no process dies in one
\* "beside": calls overlap, and processes die anywhere
AllModes == {"alone", "beside"}

Status == {"open", "candidate_evidence", "resolved", "dismissed"}

ASSUME RowAssumption == InitialRows \subseteq Status \cup {"absent"}
ASSUME ModeAssumption == Modes \subseteq AllModes
ASSUME BoundAssumption == MaxCalls \in [Modes -> Nat]

VARIABLES
  status,    \* questions.status, "absent" for a question without a row
  ledger,    \* the events of knowledge-gaps.jsonl
  dashboard, \* the questions listed in Unanswered Questions.md
  archived,  \* the statuses in the database that rebuild moved to history/
  origin,    \* how a question came up, "none" if it has not: the extracted ones are
             \* in the resolution ledger of their source too
  call,      \* what each process is doing, and what it has read for it
  mode,      \* the kind of this behaviour
  calls      \* bound: calls made so far

vars == <<status, ledger, dashboard, archived, origin, call, mode, calls>>

Event ==
  [question: Questions,
   event: {"opened", "candidate_evidence_found", "resolved", "reopened", "dismissed"},
   id: {"uuid", "migrated"}]

\* A row as it was fetched: the question and its status at that time.
Row == [question: Questions, status: Status]

Rows == {r \in Row : status[r.question] = r.status}

Active(r) == r.status \in {"open", "candidate_evidence"}

Idle ==
  [at |-> "idle", row |-> {}, event |-> {}, then |-> "idle", text |-> <<>>,
   todo |-> {}, listed |-> {}, seen |-> {}, back |-> "idle"]

Returns(p) == call' = [call EXCEPT ![p] = Idle]

Goto(p, label) == call' = [call EXCEPT ![p].at = label]

Init ==
  /\ status \in [Questions -> InitialRows]
  /\ ledger = <<>>
  /\ dashboard = {r.question : r \in {s \in Rows : Active(s)}}
  /\ archived = status
  /\ origin \in [Questions -> {"none", "asked", "extracted"}]
  /\ \A q \in Questions : origin[q] = "none" <=> status[q] = "absent"
  /\ call = [p \in Procs |-> Idle]
  /\ mode \in Modes
  /\ calls = 0

Quiet == \A p \in Procs : call[p].at = "idle"

\* A process starts one of its calls.
Starts(p, state) ==
  /\ call[p].at = "idle"
  /\ mode = "alone" => Quiet
  /\ calls < MaxCalls[mode]
  /\ calls' = calls + 1
  /\ call' = [call EXCEPT ![p] = state]
  /\ UNCHANGED mode

(***************************************************************************)
(* append_jsonl_event                                                      *)
(***************************************************************************)

\* The file is read as a whole, ...
ReadLedger(p) ==
  /\ call[p].at = "append"
  /\ call' = [call EXCEPT ![p] = [call[p] EXCEPT !.text = ledger, !.at = "replace"]]
  /\ UNCHANGED <<status, ledger, dashboard, archived, origin, mode, calls>>

\* Mutant: the identifier is not looked for.
NeverAppended(text, event) == FALSE

\* An identifier that is in the file already is not appended again.  Only the
\* identifiers made by the migration can be met twice: the others are random.
AlreadyAppended(text, event) == event.id = "migrated" /\ event \in Range(text)

\* ... and replaced by what was read, followed by the new line.
Extended(text, event) ==
  IF AlreadyAppended(text, event) THEN ledger ELSE Append(text, event)

ReplaceLedger(p) ==
  /\ call[p].at = "replace"
  /\ \E e \in call[p].event : ledger' = Extended(call[p].text, e)
  /\ Goto(p, call[p].then)
  /\ UNCHANGED <<status, dashboard, archived, origin, mode, calls>>

(***************************************************************************)
(* Transitions                                                             *)
(***************************************************************************)

\* Where the caller of _transition goes on.
Caller(event) ==
  IF event = "candidate_evidence_found" THEN "verify"
  ELSE IF event = "resolved" THEN "recheck" ELSE "list"

\* _transition from a row fetched earlier, which is all that it compares.  The
\* UPDATE is by identifier: it matches no row while the database is rebuilt.
Transition(p, from, row, to, event) ==
  /\ call[p].at = from
  /\ row.status # to \/ event = "resolved"
  /\ status' = [status EXCEPT ![row.question] = IF @ = "absent" THEN @ ELSE to]
  /\ call' = [call EXCEPT ![p] = [call[p] EXCEPT !.at = "append", !.then = Caller(event),
        !.row = {row}, !.event = {[question |-> row.question, event |-> event, id |-> "uuid"]}]]
  /\ UNCHANGED <<ledger, dashboard, archived, origin, mode, calls>>

\* record_unanswered: an open question with a new identifier, and then its event.
Inserted(q) ==
  /\ origin[q] = "none"
  /\ status' = [status EXCEPT ![q] = "open"]
  /\ origin' = [origin EXCEPT ![q] = "asked"]
  /\ UNCHANGED <<ledger, dashboard, archived>>

Opened(q) == {[question |-> q, event |-> "opened", id |-> "uuid"]}

\* A question is asked, and no answer found.
Record(p, q) ==
  /\ Starts(p, [Idle EXCEPT !.at = "append", !.then = "list", !.event = Opened(q)])
  /\ Inserted(q)

\* compile_source inserts the questions it extracts, without an event, and then
\* calls recheck.
Extract(p, q) ==
  /\ origin[q] = "none"
  /\ Starts(p, [Idle EXCEPT !.at = "fetch"])
  /\ status' = [status EXCEPT ![q] = "open"]
  /\ origin' = [origin EXCEPT ![q] = "extracted"]
  /\ UNCHANGED <<ledger, dashboard, archived>>

\* reopen and dismiss begin with the row of the question.
BeginReopen(p, row) ==
  /\ Starts(p, [Idle EXCEPT !.at = "reopen", !.row = {row}])
  /\ UNCHANGED <<status, ledger, dashboard, archived, origin>>

BeginDismiss(p, row) ==
  /\ Starts(p, [Idle EXCEPT !.at = "dismiss", !.row = {row}])
  /\ UNCHANGED <<status, ledger, dashboard, archived, origin>>

Reopen(p) ==
  \E row \in call[p].row : Transition(p, "reopen", row, "open", "reopened")

Dismiss(p) ==
  \E row \in call[p].row : Transition(p, "dismiss", row, "dismissed", "dismissed")

\* The early return of _transition: the row said so already.
NoTransition(p) ==
  /\ \/ call[p].at = "reopen" /\ \E row \in call[p].row : row.status = "open"
     \/ call[p].at = "dismiss" /\ \E row \in call[p].row : row.status = "dismissed"
  /\ Goto(p, "list")
  /\ UNCHANGED <<status, ledger, dashboard, archived, origin, mode, calls>>

\* recheck: the active rows are fetched, and each is looked at in its turn.
Fetch(p) ==
  /\ call[p].at = "fetch"
  /\ call' = [call EXCEPT ![p] = [call[p] EXCEPT !.at = "recheck",
                                           !.todo = {r \in Rows : Active(r)}]]
  /\ UNCHANGED <<status, ledger, dashboard, archived, origin, mode, calls>>

BeginRecheck(p) ==
  /\ Starts(p, [Idle EXCEPT !.at = "fetch"])
  /\ UNCHANGED <<status, ledger, dashboard, archived, origin>>

\* Evidence is found, or not: what retrieval returns is left open.
Examine(p, row) ==
  /\ call[p].at = "recheck"
  /\ row \in call[p].todo
  /\ \E found \in BOOLEAN :
       call' = [call EXCEPT ![p] = [call[p] EXCEPT !.todo = @ \ {row}, !.row = {row},
          !.at = IF ~ found THEN "recheck"
                    ELSE IF row.status = "open" THEN "candidate" ELSE "verify"]]
  /\ UNCHANGED <<status, ledger, dashboard, archived, origin, mode, calls>>

Candidate(p) ==
  \E row \in call[p].row :
    Transition(p, "candidate", row, "candidate_evidence", "candidate_evidence_found")

Resolve(p) ==
  \E row \in call[p].row : Transition(p, "verify", row, "resolved", "resolved")

\* The evidence does not verify: answer_from_hits refuses, and what it refuses is put
\* on record as a question that has come up anew.  Its dashboard is refreshed before
\* recheck goes on.
Refuse(p, q) ==
  /\ call[p].at = "verify"
  /\ call' = [call EXCEPT ![p] = [call[p] EXCEPT !.at = "append", !.then = "list",
                                           !.event = Opened(q), !.back = "recheck"]]
  /\ Inserted(q)
  /\ UNCHANGED <<mode, calls>>

\* There is an answer, but it does not match the question well enough.
Unresolved(p) ==
  /\ call[p].at = "verify"
  /\ Goto(p, "recheck")
  /\ UNCHANGED <<status, ledger, dashboard, archived, origin, mode, calls>>

Rechecked(p) ==
  /\ call[p].at = "recheck"
  /\ call[p].todo = {}
  /\ Goto(p, "list")
  /\ UNCHANGED <<status, ledger, dashboard, archived, origin, mode, calls>>

(***************************************************************************)
(* refresh_dashboards: the rows are listed, the file is hashed, and both   *)
(* go into a transaction that verifies the hash.                           *)
(***************************************************************************)

List(p) ==
  /\ call[p].at = "list"
  /\ call' = [call EXCEPT ![p] = [call[p] EXCEPT !.at = "hash",
                          !.listed = {r.question : r \in {s \in Rows : Active(s)}}]]
  /\ UNCHANGED <<status, ledger, dashboard, archived, origin, mode, calls>>

Hash(p) ==
  /\ call[p].at = "hash"
  /\ call' = [call EXCEPT ![p] = [call[p] EXCEPT !.seen = dashboard, !.at = "refresh"]]
  /\ UNCHANGED <<status, ledger, dashboard, archived, origin, mode, calls>>

\* The call is over, or recheck goes on with the rows that it has not looked at.
Resumed(c) == [Idle EXCEPT !.at = c.back, !.todo = c.todo]

Refresh(p) ==
  /\ call[p].at = "refresh"
  /\ dashboard = call[p].seen
  /\ dashboard' = call[p].listed
  /\ call' = [call EXCEPT ![p] = Resumed(call[p])]
  /\ UNCHANGED <<status, ledger, archived, origin, mode, calls>>

\* TransactionError: the file has changed, or another process has the lock.  It ends
\* recheck too, whose later rows wait for its next call.
RefreshRefused(p) ==
  /\ call[p].at = "refresh"
  /\ dashboard # call[p].seen \/ \E q \in Procs \ {p} : call[q].at # "idle"
  /\ Returns(p)
  /\ UNCHANGED <<status, ledger, dashboard, archived, origin, mode, calls>>

(***************************************************************************)
(* rebuild: migrate_phase2_runtime copies the rows of questions without    *)
(* events into the ledger; the database is archived; the ledger replayed.  *)
(***************************************************************************)

BeginRebuild(p) ==
  /\ Starts(p, [Idle EXCEPT !.at = "migrate_rows", !.text = ledger])
  /\ UNCHANGED <<status, ledger, dashboard, archived, origin>>

InLedger(q, text) == \E i \in DOMAIN text : text[i].question = q

MigrateRows(p) ==
  /\ call[p].at = "migrate_rows"
  /\ call' = [call EXCEPT ![p] = [call[p] EXCEPT !.at = "migrate",
                          !.todo = {r \in Rows : ~ InLedger(r.question, call[p].text)}]]
  /\ UNCHANGED <<status, ledger, dashboard, archived, origin, mode, calls>>

Migrated(row, event) ==
  {[question |-> row.question, event |-> event, id |-> "migrated"]}

MigrateOpened(p, row) ==
  /\ call[p].at = "migrate"
  /\ row \in call[p].todo
  /\ call' = [call EXCEPT ![p] = [call[p] EXCEPT !.at = "append", !.then = "migrate_final",
        !.todo = @ \ {row}, !.row = {row}, !.event = Migrated(row, "opened")]]
  /\ UNCHANGED <<status, ledger, dashboard, archived, origin, mode, calls>>

\* Mutant: a gap with candidate evidence counts as an open one.
FinalEventOfClosed(s) ==
  CASE s = "resolved" -> {"resolved"}
    [] s = "dismissed" -> {"dismissed"}
    [] OTHER -> {}

\* The event that stands for a status other than "open".
FinalEvent(s) ==
  CASE s = "resolved" -> {"resolved"}
    [] s = "dismissed" -> {"dismissed"}
    [] s = "candidate_evidence" -> {"candidate_evidence_found"}
    [] OTHER -> {}

MigrateFinal(p) ==
  /\ call[p].at = "migrate_final"
  /\ \E row \in call[p].row :
       \/ /\ FinalEvent(row.status) = {}
          /\ Goto(p, "migrate")
       \/ \E e \in FinalEvent(row.status) :
            call' = [call EXCEPT ![p] = [call[p] EXCEPT !.at = "append", !.then = "migrate",
                                 !.event = Migrated(row, e)]]
  /\ UNCHANGED <<status, ledger, dashboard, archived, origin, mode, calls>>

Archive(p) ==
  /\ call[p].at = "migrate"
  /\ call[p].todo = {}
  /\ archived' = status
  /\ status' = [q \in Questions |-> "absent"]
  /\ Goto(p, "restore")
  /\ UNCHANGED <<ledger, dashboard, origin, mode, calls>>

\* Mutant: a reopened gap gets the state that is named like its event.
ReplayedByName(event) ==
  CASE event = "opened" -> "open"
    [] event = "candidate_evidence_found" -> "candidate_evidence"
    [] OTHER -> event

\* status_map.
Replayed(event) ==
  CASE event \in {"opened", "reopened"} -> "open"
    [] event = "candidate_evidence_found" -> "candidate_evidence"
    [] OTHER -> event

\* _rebuild_resolution_payloads: an extracted question is inserted as an open one.
RestoreExtracted(p) ==
  /\ call[p].at = "restore"
  /\ status' = [q \in Questions |->
       IF status[q] = "absent" /\ origin[q] = "extracted" THEN "open" ELSE status[q]]
  /\ Goto(p, "read_events")
  /\ UNCHANGED <<ledger, dashboard, archived, origin, mode, calls>>

ReadEvents(p) ==
  /\ call[p].at = "read_events"
  /\ call' = [call EXCEPT ![p] = [call[p] EXCEPT !.text = ledger, !.at = "replay"]]
  /\ UNCHANGED <<status, ledger, dashboard, archived, origin, mode, calls>>

\* A question with events is given the status of the last one.
RebuiltStatus(q, text) ==
  LET last == CHOOSE i \in DOMAIN text :
                /\ text[i].question = q
                /\ \A j \in DOMAIN text : text[j].question = q => j <= i
  IN Replayed(text[last].event)

Replay(p) ==
  /\ call[p].at = "replay"
  /\ status' = [q \in Questions |->
       IF InLedger(q, call[p].text) THEN RebuiltStatus(q, call[p].text) ELSE status[q]]
  /\ Returns(p)
  /\ UNCHANGED <<ledger, dashboard, archived, origin, mode, calls>>

-----------------------------------------------------------------------------
\* A process dies; another one takes its place.
Crash(p) ==
  /\ mode = "beside"
  /\ call[p].at # "idle"
  /\ Returns(p)
  /\ UNCHANGED <<status, ledger, dashboard, archived, origin, mode, calls>>

Call(p) ==
  \/ \E q \in Questions : Record(p, q) \/ Extract(p, q)
  \/ \E row \in Rows : BeginReopen(p, row) \/ BeginDismiss(p, row)
  \/ BeginRecheck(p) \/ BeginRebuild(p)

Step(p) ==
  \/ ReadLedger(p) \/ ReplaceLedger(p)
  \/ Reopen(p) \/ Dismiss(p) \/ NoTransition(p)
  \/ Fetch(p) \/ (\E row \in call[p].todo : Examine(p, row))
  \/ Candidate(p) \/ Resolve(p) \/ (\E q \in Questions : Refuse(p, q))
  \/ Unresolved(p) \/ Rechecked(p)
  \/ List(p) \/ Hash(p) \/ Refresh(p) \/ RefreshRefused(p)
  \/ MigrateRows(p) \/ (\E row \in call[p].todo : MigrateOpened(p, row))
  \/ MigrateFinal(p) \/ Archive(p) \/ RestoreExtracted(p) \/ ReadEvents(p) \/ Replay(p)

Next == \E p \in Procs : Call(p) \/ Step(p) \/ Crash(p)

Spec == Init /\ [][Next]_vars

-----------------------------------------------------------------------------
Labels ==
  {"idle", "append", "replace", "reopen", "dismiss", "fetch", "recheck", "candidate",
   "verify", "list", "hash", "refresh", "migrate_rows", "migrate", "migrate_final",
   "restore", "read_events", "replay"}

\* The values every variable takes.
TypeOK ==
  /\ status \in [Questions -> Status \cup {"absent"}]
  /\ ledger \in Seq(Event)
  /\ dashboard \subseteq Questions
  /\ archived \in [Questions -> Status \cup {"absent"}]
  /\ origin \in [Questions -> {"none", "asked", "extracted"}]
  /\ call \in [Procs -> [at: Labels, row: SUBSET Row, event: SUBSET Event, then: Labels,
                         text: Seq(Event), todo: SUBSET Row, listed: SUBSET Questions,
                         seen: SUBSET Questions, back: {"idle", "recheck"}]]
  /\ mode \in Modes
  /\ calls \in 0..MaxCalls[mode]

\* rebuild(): every question that the discarded database had is there again, with
\* the state it had, if no other call and no death came between a row and its event.
RebuildPreserves ==
  [][\A p \in Procs, q \in Questions :
       mode = "alone" /\ Replay(p) /\ archived[q] # "absent"
         => status'[q] = archived[q]]_vars

\* The fixed identifiers of migrated events: however many processes rebuild at a
\* time, and wherever they die, no such event is in the ledger twice.
MigratedOnce ==
  \A i, j \in DOMAIN ledger :
    ledger[i] = ledger[j] /\ ledger[i].id = "migrated" => i = j

Appended == \E rest \in {SubSeq(ledger', Len(ledger) + 1, Len(ledger'))} :
              ledger' = ledger \o rest

\* The ledger is append-only: no event in it is ever lost or changed.
AppendOnly == [][Appended]_vars
=============================================================================
