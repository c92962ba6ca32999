------------------------------ MODULE Compiler ------------------------------
(***************************************************************************)
(* The knowledge compiler and the rebuild of what it has compiled          *)
(* (knowledge/compiler.py, extractor.py, matcher.py, the inserts of        *)
(* storage/repository.py, the retry of nightly.py, the calls of cli.py and *)
(* mcp/tools_write.py, and the part of rebuild.py about knowledge).        *)
(*                                                                         *)
(* A provider finds one concept, one decision and one question in the text *)
(* of a source.  A decision stands for entities and claims too, a question *)
(* for everything that gets a new identifier each time: conflicts,         *)
(* relationships, open loops, project candidates.  An operation of the     *)
(* transaction manager is one step, which Transactions justifies.          *)
(***************************************************************************)
EXTENDS Naturals, FiniteSets

CONSTANTS
  Daemon,   \* the process that runs the nightly routine
  Commands, \* processes that ingest files: command line, MCP server
  Sources,
  Queued,   \* the sources ingested while no provider was configured
  Providers, \* what may be configured: a provider and its model
  Permits,  \* Permits[s] are the providers that the text of s may be sent to
  Topic,    \* Topic[i] is the normalized title of the concept that answer i finds
  Meaning,  \* Meaning[i] is what its summary says
  Names,    \* Names[s] are the sources whose decision the text of s replaces
  Modes,    \* which kinds of behaviour there are, of AllModes
  MaxFaults, MaxRebuilds, MaxChanges \* bounds

\* "alone": one call after the other, rebuilds among them
\* "beside": compilations overlap, and there is no rebuild
AllModes == {"alone", "beside"}

Procs == {Daemon} \cup Commands

ASSUME ProcAssumption == Daemon \notin Commands
ASSUME SourceAssumption == Queued \subseteq Sources
ASSUME TextAssumption ==
  /\ \A i \in Sources \X Providers : Meaning[i] # "absent"
  /\ Names \in [Sources -> SUBSET Sources]
  /\ Permits \in [Sources -> SUBSET Providers]
ASSUME ModeAssumption == Modes \subseteq AllModes
ASSUME BoundAssumption == MaxFaults \in Nat /\ MaxRebuilds \in Nat /\ MaxChanges \in Nat

\* Identifiers are random: those of the concept and the decision of a source are
\* made when a provider answers, so they differ from one answer to the next.
Id == Sources \X Providers

\* An extraction: its identifiers, and the decisions that it supersedes.
Extraction == [id: Id, supersedes: SUBSET Id]

Meanings == {Meaning[i] : i \in Id}

Proposal == [from: Id, target: Id, seen: Meanings]

VARIABLES
  status,    \* sources.status
  record,    \* the status in the source record
  job,       \* the sources with a job in state NEEDS_AI
  cache,     \* ai_cache: the extractions of a source
  answers,   \* the providers that have been asked about a source
  ledger,    \* the resolution ledger of a source, at most one extraction
  decision,  \* decisions.status by identifier, "absent" for no row
  note,      \* the status in the note of the decision
  concept,   \* the meaning in a concept's note and row, "absent" for none
  asked,     \* the question rows of each source: none, one, or 2 for more
  proposals, \* pending review items
  archived,  \* decisions.status in the database that rebuild moved to history/
  begun,     \* the sources that a command has begun to compile
  again,     \* the sources of which one answer was compiled more than once
  call,      \* what each process is doing, and what it has read for it
  configured, \* the provider that the last call has read in the configuration
  mode,      \* the kind of this behaviour
  faults, rebuilds, changes \* bounds: so far

knowledge == <<ledger, decision, note, concept, asked, again>>
others == <<archived, begun, mode, rebuilds, configured, changes>>
vars == <<status, record, job, cache, answers, proposals, call, faults, knowledge, others>>

Idle ==
  [at |-> "idle", by |-> {}, todo |-> {}, on |-> {}, text |-> {}, same |-> {},
   proposal |-> {}, ledger |-> {}, record |-> {}, read |-> {}]

\* How ingestion leaves a source, in the row, the manifest and the record.
Ingested(s) == IF s \in Queued THEN "NEEDS_AI" ELSE "CLASSIFIED"

Init ==
  /\ status = [s \in Sources |-> Ingested(s)]
  /\ record = status
  /\ job = Queued
  /\ cache = [s \in Sources |-> {}]
  /\ answers = [s \in Sources |-> {}]
  /\ ledger = [s \in Sources |-> {}]
  /\ decision = [i \in Id |-> "absent"]
  /\ note = decision
  /\ concept = [i \in Id |-> "absent"]
  /\ asked = [s \in Sources |-> 0]
  /\ proposals = {}
  /\ archived = decision
  /\ begun = {}
  /\ again = {}
  /\ call = [p \in Procs |-> Idle]
  /\ configured \in Providers
  /\ mode \in Modes
  /\ faults = 0
  /\ rebuilds = 0
  /\ changes = 0

Quiet == \A p \in Procs : call[p].at = "idle"

Free(p) == call[p].at = "idle" /\ (mode = "alone" => Quiet)

Goto(p, label) == call' = [call EXCEPT ![p].at = label]

Returns(p) == call' = [call EXCEPT ![p] = Idle]

(***************************************************************************)
(* Who compiles                                                            *)
(***************************************************************************)

\* retry_ai_work: the jobs in state NEEDS_AI.  The compiler never changes a job.
JobsToRetry == job

\* The provider in the configuration when the process starts, which the user may have
\* changed since the last one started.
Reads(k) ==
  /\ k = configured \/ changes < MaxChanges
  /\ configured' = k
  /\ changes' = IF k = configured THEN changes ELSE changes + 1

BeginNight ==
  /\ Free(Daemon)
  /\ JobsToRetry # {}
  /\ \E k \in Providers :
       /\ Reads(k)
       /\ call' = [call EXCEPT ![Daemon] = [Idle EXCEPT !.at = "next", !.by = {k},
                                                        !.todo = JobsToRetry]]
  /\ UNCHANGED <<status, record, job, cache, answers, proposals, faults, knowledge,
                 archived, begun, mode, rebuilds>>

\* A command compiles the file it has ingested, if that was classified.
BeginCommand(p, s) ==
  /\ p \in Commands
  /\ Free(p)
  /\ s \notin Queued \cup begun
  /\ begun' = begun \cup {s}
  /\ \E k \in Providers :
       /\ Reads(k)
       /\ call' = [call EXCEPT ![p] = [Idle EXCEPT !.at = "next", !.by = {k}, !.todo = {s}]]
  /\ UNCHANGED <<status, record, job, cache, answers, proposals, faults, knowledge,
                 archived, mode, rebuilds>>

NextSource(p) ==
  /\ call[p].at = "next"
  /\ \E s \in call[p].todo :
       call' = [call EXCEPT ![p] = [Idle EXCEPT !.at = "compile", !.by = call[p].by,
                                                !.on = {s}, !.todo = call[p].todo \ {s}]]
  /\ UNCHANGED <<status, record, job, cache, answers, proposals, faults, knowledge, others>>

Finished(p) ==
  /\ call[p].at = "next"
  /\ call[p].todo = {}
  /\ Returns(p)
  /\ UNCHANGED <<status, record, job, cache, answers, proposals, faults, knowledge, others>>

(***************************************************************************)
(* compile_source                                                          *)
(***************************************************************************)

\* A source that is sensitive is not sent to a provider in the cloud.
Blocked(p, s) == ~ call[p].by \subseteq Permits[s]

EgressBlocked(p) ==
  /\ call[p].at = "compile"
  /\ \E s \in call[p].on :
       /\ Blocked(p, s)
       /\ status' = [status EXCEPT ![s] = "NEEDS_AI"]
  /\ Goto(p, "next")
  /\ UNCHANGED <<record, job, cache, answers, proposals, faults, knowledge, others>>

\* No provider is configured or available.
NeedsAi(p) ==
  /\ call[p].at = "compile"
  /\ faults < MaxFaults
  /\ faults' = faults + 1
  /\ \E s \in call[p].on : status' = [status EXCEPT ![s] = "NEEDS_AI"]
  /\ Goto(p, "next")
  /\ UNCHANGED <<record, job, cache, answers, proposals, knowledge, others>>

\* The key of the cache holds the hash of the source, and the provider and its model.
Cached(p, s) == {e \in cache[s] : e.id[2] \in call[p].by}

LookUp(p) ==
  /\ call[p].at = "compile"
  /\ \E s \in call[p].on :
       /\ ~ Blocked(p, s)
       /\ call' = [call EXCEPT ![p] = [@ EXCEPT !.text = Cached(p, s),
                                       !.at = IF Cached(p, s) = {} THEN "ask" ELSE "match"]]
  /\ UNCHANGED <<status, record, job, cache, answers, proposals, faults, knowledge, others>>

\* The decision that the text of s replaces, if the brain knows it and the provider
\* recognizes it.
Known(s) == {{}} \cup {{i} : i \in {j \in Id : j[1] \in Names[s] /\ decision[j] # "absent"}}

\* The provider answers, and its validated answer is cached.
Ask(p) ==
  /\ call[p].at = "ask"
  /\ \E s \in call[p].on, k \in call[p].by :
       /\ answers' = [answers EXCEPT ![s] = @ \cup {k}]
       /\ \E e \in {[id |-> <<s, k>>, supersedes |-> old] : old \in Known(s)} :
            /\ cache' = [cache EXCEPT ![s] = @ \cup {e}]
            /\ call' = [call EXCEPT ![p] = [@ EXCEPT !.at = "match", !.text = {e}]]
  /\ UNCHANGED <<status, record, job, proposals, faults, knowledge, others>>

\* Mutant: a concept with another meaning is another concept.
SameMeaning(e) ==
  {i \in Id : /\ concept[i] = Meaning[e.id]
              /\ Topic[i] = Topic[e.id]}

\* ConceptMatcher: the concepts with the same title.
Same(e) == {i \in Id : concept[i] # "absent" /\ Topic[i] = Topic[e.id]}

\* The concept is new, or known and said in the same way, or there is an update.
Match(p) ==
  /\ call[p].at = "match"
  /\ \E e \in call[p].text :
       \/ /\ Same(e) = {}
          /\ Goto(p, "plan")
       \/ \E i \in Same(e) :
            call' = [call EXCEPT ![p] = [@ EXCEPT !.same = {i},
                       !.at = IF concept[i] = Meaning[e.id] THEN "plan" ELSE "hash"]]
  /\ UNCHANGED <<status, record, job, cache, answers, proposals, faults, knowledge, others>>

\* The update is planned against the note as it is now.
HashNote(p) ==
  /\ call[p].at = "hash"
  /\ \E e \in call[p].text, i \in call[p].same :
       call' = [call EXCEPT ![p] = [@ EXCEPT !.at = "plan",
                  !.proposal = {[from |-> e.id, target |-> i, seen |-> concept[i]]}]]
  /\ UNCHANGED <<status, record, job, cache, answers, proposals, faults, knowledge, others>>

\* What the plan rests on: the notes of predecessors, whether there are ledgers, and
\* the source record.
Plan(p) ==
  /\ call[p].at = "plan"
  /\ \E s \in call[p].on, e \in call[p].text :
       call' = [call EXCEPT ![p] = [@ EXCEPT !.at = "apply",
          !.ledger = ledger[s], !.record = {record[s]},
          !.read = {<<i, note[i]>> : i \in {j \in e.supersedes : decision[j] # "absent"}}]]
  /\ UNCHANGED <<status, record, job, cache, answers, proposals, faults, knowledge, others>>

\* The expected hashes of the plan.  Only the record and the predecessors have one.
Verified(p, s) ==
  /\ record[s] \in call[p].record
  /\ \A r \in call[p].read : note[r[1]] = r[2]

\* Mutant: the predecessors' notes stay as they are.
OwnNoteOnly(p, e) == [note EXCEPT ![e.id] = "active"]

\* The notes after the operation: those of predecessors that were read, and its own.
Noted(p, e) ==
  [i \in Id |-> IF i = e.id THEN "active"
                ELSE IF \E r \in call[p].read : r[1] = i THEN "superseded" ELSE note[i]]

\* The resolution ledger is written if there was none.
Ledger(p, s, e) == IF call[p].ledger = {} THEN {e} ELSE ledger[s]

\* Mutant: the concept matched is overwritten.
ConceptsOverwritten(p, e) ==
  [i \in Id |-> IF \/ call[p].same = {} /\ i = e.id
                   \/ \E r \in call[p].proposal : r.target = i
                THEN Meaning[e.id] ELSE concept[i]]

Concepts(p, e) ==
  IF call[p].same = {} THEN [concept EXCEPT ![e.id] = Meaning[e.id]] ELSE concept

\* insert_decision_db: the row is replaced, the one that it supersedes is updated.
Inserted(e) ==
  [i \in Id |-> IF i \in e.supersedes THEN "superseded"
                ELSE IF i = e.id THEN "active" ELSE decision[i]]

\* Mutant: the state that the call returns.
ReturnedState(p) == IF call[p].proposal = {} THEN "COMPLETE" ELSE "NEEDS_REVIEW"

\* The state that the source gets, in the row and in the record.
Compiled(p) == "COMPLETE"

\* Questions, and what they stand for, get new rows each time: as many as twice is told.
Asked(s) == [asked EXCEPT ![s] = IF @ < 2 THEN @ + 1 ELSE @]

\* The main operation.  Its rows replace what they find.  The foreign key of a
\* decision is not modelled: the provider names decisions that are there.
Apply(p) ==
  /\ call[p].at = "apply"
  /\ \E s \in call[p].on, e \in call[p].text :
       /\ Verified(p, s)
       /\ decision' = Inserted(e)
       /\ note' = Noted(p, e)
       /\ concept' = Concepts(p, e)
       /\ ledger' = [ledger EXCEPT ![s] = Ledger(p, s, e)]
       /\ asked' = Asked(s)
       /\ again' = IF decision[e.id] = "absent" THEN again ELSE again \cup {s}
       /\ status' = [status EXCEPT ![s] = Compiled(p)]
       /\ record' = [record EXCEPT ![s] = Compiled(p)]
  /\ Goto(p, "stage")
  /\ UNCHANGED <<job, cache, answers, proposals, faults, others>>

\* A hash differs, or another process has the writer lock.
ApplyRefused(p) ==
  /\ call[p].at = "apply"
  /\ \/ \E s \in call[p].on : ~ Verified(p, s)
     \/ \E q \in Procs \ {p} : call[q].at # "idle"
  /\ Returns(p)
  /\ UNCHANGED <<status, record, job, cache, answers, proposals, faults, knowledge, others>>

\* Mutant: the update is proposed by the first compilation only.
StagedFirst(p) == IF call[p].ledger = {} THEN call[p].proposal ELSE {}

Staged(p) == call[p].proposal

\* After the operation the update is staged for review.
Stage(p) ==
  /\ call[p].at = "stage"
  /\ proposals' = proposals \cup Staged(p)
  /\ Goto(p, "next")
  /\ UNCHANGED <<status, record, job, cache, answers, faults, knowledge, others>>

\* An exception anywhere, or a death: a call that ends takes the night with it.
Raise(p) ==
  /\ call[p].at \in {"compile", "ask", "match", "hash", "plan", "apply", "stage"}
  /\ faults < MaxFaults
  /\ faults' = faults + 1
  /\ Returns(p)
  /\ UNCHANGED <<status, record, job, cache, answers, proposals, knowledge, others>>

(***************************************************************************)
(* Review of proposed updates: see ReviewFlow.                             *)
(***************************************************************************)

Approve(r) ==
  /\ mode = "alone" => Quiet
  /\ r \in proposals
  /\ concept[r.target] = r.seen
  /\ concept' = [concept EXCEPT ![r.target] = Meaning[r.from]]
  /\ proposals' = proposals \ {r}
  /\ UNCHANGED <<status, record, job, cache, answers, faults, call, ledger, decision, note,
                 asked, again, others>>

Reject(r) ==
  /\ mode = "alone" => Quiet
  /\ r \in proposals
  /\ proposals' = proposals \ {r}
  /\ UNCHANGED <<status, record, job, cache, answers, faults, call, knowledge, others>>

(***************************************************************************)
(* rebuild                                                                 *)
(***************************************************************************)

\* The database is archived.  Concepts come back from their notes, which stay; jobs
\* and cached answers do not come back; questions and statuses come from ledgers and
\* manifests, in which a source is as its ingestion left it.
BeginRebuild(p) ==
  /\ p \in Commands
  /\ mode = "alone"
  /\ Free(p)
  /\ rebuilds < MaxRebuilds
  /\ rebuilds' = rebuilds + 1
  /\ archived' = decision
  /\ decision' = [i \in Id |-> "absent"]
  /\ job' = {}
  /\ cache' = [s \in Sources |-> {}]
  /\ asked' = [s \in Sources |-> IF ledger[s] = {} THEN 0 ELSE 1]
  /\ status' = [s \in Sources |-> Ingested(s)]
  /\ call' = [call EXCEPT ![p] = [Idle EXCEPT !.at = "replay",
                                              !.text = UNION {ledger[s] : s \in Sources}]]
  /\ UNCHANGED <<record, answers, ledger, note, concept, proposals, begun, again, mode, faults,
                 configured, changes>>

\* Mutant: the replay follows the order of the ledgers.
AnyOrder(e) == TRUE

\* The loop takes a decision when the ones that it supersedes are there.
Ready(e) == \A i \in e.supersedes : decision[i] # "absent"

ReplayDecision(p) ==
  /\ call[p].at = "replay"
  /\ \E e \in call[p].text :
       /\ Ready(e)
       /\ decision' = Inserted(e)
       /\ call' = [call EXCEPT ![p].text = @ \ {e}]
  /\ UNCHANGED <<status, record, job, cache, answers, proposals, faults, ledger, note,
                 concept, asked, again, others>>

\* "missing predecessors": what was inserted stays, and the archive in history/.
RebuildFails(p) ==
  /\ call[p].at = "replay"
  /\ call[p].text # {}
  /\ \A e \in call[p].text : ~ Ready(e)
  /\ Returns(p)
  /\ UNCHANGED <<status, record, job, cache, answers, proposals, faults, knowledge, others>>

Rebuilt(p) ==
  /\ call[p].at = "replay"
  /\ call[p].text = {}
  /\ Returns(p)
  /\ UNCHANGED <<status, record, job, cache, answers, proposals, faults, knowledge, others>>

-----------------------------------------------------------------------------
Compile(p) ==
  \/ NextSource(p) \/ Finished(p) \/ EgressBlocked(p) \/ LookUp(p) \/ Ask(p) \/ Match(p)
  \/ HashNote(p) \/ Plan(p) \/ Apply(p) \/ ApplyRefused(p) \/ Stage(p)

Replay(p) == ReplayDecision(p) \/ RebuildFails(p) \/ Rebuilt(p)

Next ==
  \/ BeginNight
  \/ \E p \in Procs :
       \/ \E s \in Sources : BeginCommand(p, s)
       \/ BeginRebuild(p)
       \/ Compile(p) \/ NeedsAi(p) \/ Raise(p) \/ Replay(p)
  \/ \E r \in proposals : Approve(r) \/ Reject(r)

Spec == Init /\ [][Next]_vars

\* A call goes on, and the daemon's night comes round.
FairSpec ==
  /\ Spec
  /\ WF_vars(BeginNight)
  /\ \A p \in Procs : WF_vars(Compile(p) \/ Replay(p))

-----------------------------------------------------------------------------
Labels ==
  {"idle", "next", "compile", "ask", "match", "hash", "plan", "apply", "stage", "replay"}

Status == {"absent", "active", "superseded"}

CallRecord ==
  [at: Labels, by: SUBSET Providers, todo: SUBSET Sources, on: SUBSET Sources,
   text: SUBSET Extraction, same: SUBSET Id, proposal: SUBSET Proposal,
   ledger: SUBSET Extraction,
   read: SUBSET (Id \X Status),
   record: SUBSET {"NEEDS_AI", "CLASSIFIED", "COMPLETE"}]

\* The values every variable takes.
TypeOK ==
  /\ status \in [Sources -> {"NEEDS_AI", "CLASSIFIED", "COMPLETE"}]
  /\ record \in [Sources -> {"NEEDS_AI", "CLASSIFIED", "COMPLETE"}]
  /\ job \subseteq Queued
  /\ cache \in [Sources -> SUBSET Extraction]
  /\ answers \in [Sources -> SUBSET Providers]
  /\ ledger \in [Sources -> SUBSET Extraction]
  /\ decision \in [Id -> Status]
  /\ note \in [Id -> Status]
  /\ concept \in [Id -> Meanings \cup {"absent"}]
  /\ asked \in [Sources -> 0..2]
  /\ proposals \subseteq Proposal
  /\ archived \in [Id -> Status]
  /\ begun \subseteq Sources
  /\ again \subseteq Sources
  /\ call \in [Procs -> CallRecord]
  /\ mode \in Modes
  /\ configured \in Providers
  /\ faults \in 0..MaxFaults
  /\ rebuilds \in 0..MaxRebuilds
  /\ changes \in 0..MaxChanges

\* One title, one concept: if compilations do not overlap, the matcher finds the
\* concept that another source has made.
OneConcept ==
  mode = "alone" =>
    \A i, j \in Id : concept[i] # "absent" /\ concept[j] # "absent"
                      /\ Topic[i] = Topic[j] => i = j

\* One provider has answered about a source.
Single(s) == \A k, l \in answers[s] : k = l

OneAnswer == \A s \in Sources : Single(s)

\* What the compiler knows is what the files say: a decision in the database is, under
\* its identifier, in the resolution ledger of its source, from which a rebuild restores
\* it, although a source is compiled every night and its ledger written once: as long as
\* no second provider is asked about the source, whose decision has another identifier.
Restorable ==
  \A s \in Sources : Single(s) =>
    \A i \in Id : i[1] = s /\ decision[i] # "absent" => \E e \in ledger[s] : e.id = i

\* Markdown and rows of decisions move together, the predecessor's too, whatever
\* compilations overlap and wherever they end.
NoteShowsRow == mode = "beside" => note = decision

\* A concept's meaning changes only when a proposal that was made against that very
\* meaning is approved.
MeaningReviewed ==
  [][\A i \in Id : concept[i] # "absent" /\ concept'[i] # concept[i] =>
       \E r \in proposals : r.target = i /\ r.seen = concept[i] /\ Approve(r)]_vars

\* While decisions are left, one can be inserted after those that it supersedes.
NoneMissing ==
  OneAnswer =>
    \A p \in Procs :
      call[p].at = "replay" /\ call[p].text # {} => \E e \in call[p].text : Ready(e)

\* Of answers of one provider for each source, rebuild() never ends in "missing
\* predecessors", and the supersession graph comes back as it was, no decision left
\* behind, if none was compiled twice.
RebuildPreserves ==
  /\ []NoneMissing
  /\ [][\A p \in Procs :
          Rebuilt(p) /\ OneAnswer /\ again = {} => decision' = archived]_vars

\* What a queued source says of a concept becomes its meaning or is proposed, even if
\* a compilation ended between its operation and its proposal, if it may be sent to
\* whatever provider is configured.
EventuallyProposed ==
  \A s \in {t \in Sources : Permits[t] = Providers} :
    s \in job ~>
      \/ s \notin job
      \/ \E a \in {s} \X Providers :
           \/ \E i \in Id : Topic[i] = Topic[a] /\ concept[i] = Meaning[a]
           \/ \E r \in proposals : r.from = a

\* docs/DATA_MODEL.md: decisions are not silently overwritten; a superseded one stays
\* superseded.
SupersededStays ==
  [][\A i \in Id : decision[i] = "superseded" => decision'[i] # "active"]_vars
=============================================================================
