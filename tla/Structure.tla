------------------------------ MODULE Structure ------------------------------
(***************************************************************************)
(* The structure of the knowledge, and what maintenance makes of it:       *)
(* knowledge/restructuring.py, graph_materializer.py and maps.py, and the  *)
(* body of NightlyMaintenance.run, WeeklyMaintenance.run and               *)
(* MonthlyMaintenance.run.  Maintenance says when these run.               *)
(*                                                                         *)
(* Notes link to each other in a generated block, which every nightly run  *)
(* renders from the rows.  It reads a note, then hashes it, then writes    *)
(* all notes in one operation, and users edit notes at any time.  A weekly *)
(* run looks for structural findings and stages an advisory review item    *)
(* for some of those that have none pending.                               *)
(*                                                                         *)
(* An operation of the transaction manager is one step (Transactions has   *)
(* its steps).  A pass that raises an exception goes to "failed".          *)
(***************************************************************************)
EXTENDS Components, Naturals, FiniteSets, Sequences, SequencesExt

CONSTANTS Concepts,    \* what approved knowledge brings, with a note each
          Sources,     \* records, which are there from the start
          Relations,   \* rows that come with the concept that they start from
          From, To,    \* their ends
          Title,       \* the normalized title of a concept
          Retrieved,   \* concepts that are retrieved often
          Related,     \* concepts that a keyword or a retrieval relates to the map
          Rank,        \* their order: by score, then by title
          Unsourced,   \* concepts without provenance
          Standing,    \* findings in rows that stay as they are: a type, and its object
          FanOut, ClusterSize, Limit, \* 15, 25 and 5 in the code
          MapSize, Fallback, BriefSize, \* 12, 6 and 10 in the code
          Callers,     \* the daemon, and the maintain commands
          MaxChanges, MaxText, MaxRejections, MaxFailures \* bounds

Objects == Concepts \cup Sources

ASSUME RelationAssumption ==
  From \in [Relations -> Concepts] /\ To \in [Relations -> Objects]
ASSUME RankAssumption ==
  /\ Retrieved \subseteq Related
  /\ Rank \in [Concepts -> Nat] /\ \A c, d \in Concepts : Rank[c] = Rank[d] => c = d
ASSUME ObjectAssumption == Concepts \cap Sources = {}
ASSUME TextAssumption == MaxText \in Nat \ {0}
ASSUME ThresholdAssumption == FanOut \in Nat /\ ClusterSize \in Nat /\ Limit \in Nat \ {0}

VARIABLES
  known,    \* the concepts that have rows
  rels,     \* the rows of relationships
  note,     \* the notes of objects: the user's text, and the generated block
  home,     \* the concepts that the brief of the last night lists
  map,      \* the concepts that the maps list
  pending,  \* pending restructuring items: their finding, and who staged them
  pass,     \* what each caller is doing
  raced,    \* history: the notes saved while a pass had read and not hashed them
  bounds    \* counters of what is bounded

knowledge == <<known, rels>>
shown == <<home, map>>
graphVars == <<knowledge, note, shown, pending, pass, raced, bounds>>

-----------------------------------------------------------------------------
Absent == [text |-> 0, block |-> {}]
New == [text |-> 1, block |-> {}]
NoLinks == [o \in Objects |-> {}]
NoNotes == [o \in Objects |-> Absent]

Idle == [at |-> "idle", job |-> "none", links |-> NoLinks, texts |-> NoNotes,
         hashes |-> NoNotes, shows |-> {}, over |-> {}, found |-> {}, staged |-> 0,
         dated |-> FALSE]

GraphInit ==
  /\ known = {} /\ rels = {}
  /\ note = [o \in Objects |-> IF o \in Sources THEN New ELSE Absent]
  /\ home = {} /\ map = {} /\ pending = {} /\ raced = {}
  /\ pass = [p \in Callers |-> Idle]
  /\ bounds = [changes |-> 0, rejections |-> 0, failures |-> 0]

Counts(what, max) ==
  bounds[what] < max /\ bounds' = [bounds EXCEPT ![what] = @ + 1]

\* A pass goes on, with no more use for what it had read.
Goto(p, label) == pass' = [pass EXCEPT ![p] = [Idle EXCEPT !.at = label, !.job = pass[p].job]]

(***************************************************************************)
(* What others do: approvals, rollbacks, rejections and edits              *)
(***************************************************************************)

\* A compiled concept is approved: its note and its rows are written, with relations to
\* what there is.
AddConcept(c) ==
  /\ c \notin known /\ Counts("changes", MaxChanges)
  /\ \A r \in Relations : From[r] = c => To[r] \in known \cup Sources
  /\ known' = known \cup {c}
  /\ rels' = rels \cup {r \in Relations : From[r] = c}
  /\ note' = [note EXCEPT ![c] = New]
  /\ UNCHANGED <<shown, pending, pass, raced>>

\* It is rolled back, which its note must be as the operation left it for.
RemoveConcept(c) ==
  /\ c \in known /\ note[c] = New
  /\ known' = known \ {c}
  /\ rels' = {r \in rels : From[r] # c}
  /\ note' = [note EXCEPT ![c] = Absent]
  /\ UNCHANGED <<shown, pending, pass, raced, bounds>>

Reject(i) ==
  /\ i \in pending /\ Counts("rejections", MaxRejections)
  /\ pending' = pending \ {i}
  /\ UNCHANGED <<knowledge, note, shown, pass, raced>>

\* A user saves a note.
Save(o) ==
  /\ note[o] # Absent /\ note[o].text < MaxText
  /\ note' = [note EXCEPT ![o].text = @ + 1]
  /\ raced' = IF \E p \in Callers : pass[p].at = "hashes" THEN raced \cup {o} ELSE raced
  /\ UNCHANGED <<knowledge, shown, pending, pass, bounds>>

(***************************************************************************)
(* A pass raises an exception: another operation holds the writer lock, or *)
(* anything else goes wrong                                                *)
(***************************************************************************)

\* The operations of a night before the pages are those of other modules: "read".
Operating == {"read", "pages", "overtaken", "link", "draw", "stage", "audit", "brief"}

Contended(p) ==
  /\ pass[p].at \in Operating
  /\ \E q \in Callers \ {p} : pass[q].at \in Operating
  /\ Goto(p, "failed")
  /\ UNCHANGED <<knowledge, note, shown, pending, raced, bounds>>

Fails(p) ==
  /\ pass[p].at \in Operating /\ Counts("failures", MaxFailures)
  /\ Goto(p, "failed")
  /\ UNCHANGED <<knowledge, note, shown, pending, raced>>

(***************************************************************************)
(* The nightly run: the pages, materialize, and generate                   *)
(***************************************************************************)

\* What a brief may list: as many of the concepts as it has room for, the ones that were
\* updated last.  When a concept is updated is left out.
Briefs ==
  LET size == IF Cardinality(known) < BriefSize THEN Cardinality(known) ELSE BriefSize
  IN  {S \in SUBSET known : Cardinality(S) = size}

\* _dashboard_writes and _daily_brief_write: the rows are read, the pages hashed, and
\* the brief gets its date.
ReadPages(p) ==
  /\ pass[p].at = "read"
  /\ \E S \in Briefs :
       pass' = [pass EXCEPT ![p].at = "pages", ![p].shows = S, ![p].dated = TRUE]
  /\ UNCHANGED <<knowledge, note, shown, pending, raced, bounds>>

\* All pages in one operation.  They bear the time, so that no other pass that has hashed
\* them meets what it expects.
WritePages(p) ==
  /\ pass[p].at = "pages"
  /\ home' = pass[p].shows
  /\ pass' = [q \in Callers |->
       IF q = p THEN [Idle EXCEPT !.at = "graph", !.job = pass[p].job]
       ELSE IF pass[q].at = "pages" THEN [pass[q] EXCEPT !.at = "overtaken"]
       ELSE pass[q]]
  /\ UNCHANGED <<knowledge, note, map, pending, raced, bounds>>

PagesConflict(p) ==
  /\ pass[p].at = "overtaken"
  /\ Goto(p, "failed")
  /\ UNCHANGED <<knowledge, note, shown, pending, raced, bounds>>

\* Mutant: a link is rendered in the note that it starts from only.
LinksFrom(o) ==
  {To[r] : r \in {s \in rels : From[s] = o /\ To[s] \in known \cup Sources}}

\* _refs, _edges and the adjacency: an edge counts if both its ends exist, and for both.
LinksOf(o) ==
  LET edges == {r \in rels : {From[r], To[r]} \subseteq known \cup Sources} IN
  {To[r] : r \in {s \in edges : From[s] = o}} \cup {From[r] : r \in {s \in edges : To[s] = o}}

\* The rows are read first ...
ReadGraph(p) ==
  /\ pass[p].at = "graph"
  /\ pass' = [pass EXCEPT ![p].at = "texts", ![p].links = [o \in Objects |-> LinksOf(o)]]
  /\ UNCHANGED <<knowledge, note, shown, pending, raced, bounds>>

\* ... then the texts of the notes ...
ReadNotes(p) ==
  /\ pass[p].at = "texts"
  /\ pass' = [pass EXCEPT ![p].at = "hashes", ![p].texts = note]
  /\ UNCHANGED <<knowledge, note, shown, pending, raced, bounds>>

\* The notes that get another block: only those with a link.
Writes(p) ==
  {o \in Objects : /\ pass[p].links[o] # {} /\ pass[p].texts[o] # Absent
                   /\ pass[p].texts[o].block # pass[p].links[o]}

\* ... and then their hashes, from the files once more.
HashNotes(p) ==
  /\ pass[p].at = "hashes"
  /\ IF Writes(p) = {} THEN Goto(p, "maps")
     ELSE IF \E o \in Writes(p) : note[o] = Absent THEN Goto(p, "failed")
     ELSE pass' = [pass EXCEPT ![p].at = "link", ![p].hashes = note]
  /\ UNCHANGED <<knowledge, note, shown, pending, raced, bounds>>

\* Mutant: the operation does not look at the hashes.
Unhashed(p) == TRUE

HashesHold(p) == \A o \in Writes(p) : note[o] = pass[p].hashes[o]

\* replace_generated_block: the text that was read, around the new block.
Link(p) ==
  /\ pass[p].at = "link" /\ HashesHold(p)
  /\ note' = [o \in Objects |-> IF o \in Writes(p)
                                THEN [text |-> pass[p].texts[o].text,
                                      block |-> pass[p].links[o]]
                                ELSE note[o]]
  /\ Goto(p, "maps")
  /\ UNCHANGED <<knowledge, shown, pending, raced, bounds>>

LinkConflicts(p) ==
  /\ pass[p].at = "link" /\ ~ HashesHold(p)
  /\ Goto(p, "failed")
  /\ UNCHANGED <<knowledge, note, shown, pending, raced, bounds>>

\* The first n of S by rank.
Top(n, S) == {c \in S : Cardinality({d \in S : Rank[d] < Rank[c]}) < n}

\* What a map lists: the best of the concepts that are related to it, or some of them all
\* if none is.  Decisions, gaps and projects are chosen in the same way.
Mapped == IF known \cap Related # {} THEN Top(MapSize, known \cap Related) ELSE Top(Fallback, known)

\* The maps are compared with what they should show, and left alone if they show it.
PlanMaps(p) ==
  /\ pass[p].at = "maps"
  /\ IF map = Mapped THEN Goto(p, "done")
     ELSE pass' = [pass EXCEPT ![p].at = "draw", ![p].shows = Mapped, ![p].over = map]
  /\ UNCHANGED <<knowledge, note, shown, pending, raced, bounds>>

Draw(p) ==
  /\ pass[p].at = "draw" /\ map = pass[p].over
  /\ map' = pass[p].shows
  /\ Goto(p, "done")
  /\ UNCHANGED <<knowledge, note, home, pending, raced, bounds>>

DrawConflicts(p) ==
  /\ pass[p].at = "draw" /\ map # pass[p].over
  /\ Goto(p, "failed")
  /\ UNCHANGED <<knowledge, note, shown, pending, raced, bounds>>

(***************************************************************************)
(* The weekly run: analyze, generate_proposals, write_audit and the brief  *)
(***************************************************************************)

Ends(c) == {<<r, "from">> : r \in {s \in rels : From[s] = c}}
             \cup {<<r, "to">> : r \in {s \in rels : To[s] = c}}

Degree(c) == Cardinality(Ends(c))

\* The connected components, which the search of the module Clusters finds.
ConceptClusters == ComponentsOf(known, {<<From[r], To[r]>> : r \in rels})

\* The types of findings of high or medium severity, in the order in which they are
\* proposed.
Types == <<"broken-relationship", "concept-without-provenance", "duplicate-title",
           "frequent-unanswered-topic", "high-fanout-concept", "orphan-concept",
           "oversized-concept-cluster", "project-without-next-action",
           "repeated-retrieval-failure", "semantic-duplicate-candidate",
           "stale-active-project", "stale-current-state-evidence",
           "weakly-connected-frequent-concept">>

ASSUME StandingAssumption == \A f \in Standing : f[1] \in Range(Types)

\* The signature of a finding: its type, its objects, and the number in its summary.
Finding(type, objects, number) == [type |-> type, of |-> objects, number |-> number]

DuplicateTitles ==
  {Finding("duplicate-title", {d \in known : Title[d] = Title[c]}, 0) :
     c \in {d \in known : \E e \in known \ {d} : Title[e] = Title[d]}}

BrokenRelationships ==
  {Finding("broken-relationship", {r}, 0) :
     r \in {s \in rels : ~ {From[s], To[s]} \subseteq known \cup Sources}}

OversizedClusters ==
  {Finding("oversized-concept-cluster", k, Cardinality(k)) :
     k \in {l \in ConceptClusters : Cardinality(l) >= ClusterSize}}

\* What the loop over the concepts finds of each.
ConceptFindings ==
  {Finding("orphan-concept", {c}, 0) : c \in {d \in known : Degree(d) = 0}}
  \cup {Finding("weakly-connected-frequent-concept", {c}, 0) :
          c \in {d \in known \cap Retrieved : Degree(d) <= 1}}
  \cup {Finding("high-fanout-concept", {c}, Degree(c)) :
          c \in {d \in known : Degree(d) >= FanOut}}
  \cup {Finding("concept-without-provenance", {c}, 0) : c \in known \cap Unsourced}

\* What is found in the rows of projects, their states, queries and questions.
StandingFindings == {Finding(f[1], {f[2]}, 0) : f \in Standing}

Findings ==
  DuplicateTitles \cup BrokenRelationships \cup OversizedClusters \cup ConceptFindings
    \cup StandingFindings

Analyze(p) ==
  /\ pass[p].at = "findings"
  /\ pass' = [pass EXCEPT ![p].at = "choose", ![p].found = Findings]
  /\ UNCHANGED <<knowledge, note, shown, pending, raced, bounds>>

\* By type; within a type by a hash of the signature, so in any order.
First(found) ==
  LET rank(f) == CHOOSE n \in DOMAIN Types : Types[n] = f.type
  IN  {f \in found : \A g \in found : rank(f) <= rank(g)}

\* Mutant: the items that are pending are not looked at.
NeverPending(f) == FALSE

\* _already_pending
AlreadyPending(f) == \E i \in pending : i.of = f

Skip(p) ==
  /\ pass[p].at = "choose" /\ pass[p].staged < Limit
  /\ \E f \in First(pass[p].found) :
       /\ AlreadyPending(f)
       /\ pass' = [pass EXCEPT ![p].found = @ \ {f}]
  /\ UNCHANGED <<knowledge, note, shown, pending, raced, bounds>>

\* The item is looked for first, and staged in an operation of its own.
Choose(p) ==
  /\ pass[p].at = "choose" /\ pass[p].staged < Limit
  /\ \E f \in First(pass[p].found) :
       /\ ~ AlreadyPending(f)
       /\ pass' = [pass EXCEPT ![p].at = "stage", ![p].shows = {f},
                               ![p].found = @ \ {f}]
  /\ UNCHANGED <<knowledge, note, shown, pending, raced, bounds>>

Stage(p) ==
  /\ pass[p].at = "stage"
  /\ pending' = pending \cup {[of |-> f, by |-> p] : f \in pass[p].shows}
  /\ pass' = [pass EXCEPT ![p].at = "choose", ![p].shows = {}, ![p].staged = @ + 1]
  /\ UNCHANGED <<knowledge, note, shown, raced, bounds>>

StageNoMore(p) ==
  /\ pass[p].at = "choose"
  /\ pass[p].found = {} \/ pass[p].staged = Limit
  /\ Goto(p, "audit")
  /\ UNCHANGED <<knowledge, note, shown, pending, raced, bounds>>

\* write_audit
WriteAudit(p) ==
  /\ pass[p].at = "audit"
  /\ Goto(p, "brief")
  /\ UNCHANGED <<knowledge, note, shown, pending, raced, bounds>>

\* The brief of the week; and that of the month, which is all of a monthly run.
WriteBrief(p) ==
  /\ pass[p].at = "brief"
  /\ Goto(p, "done")
  /\ UNCHANGED <<knowledge, note, shown, pending, raced, bounds>>

Others ==
  \/ \E c \in Concepts : AddConcept(c) \/ RemoveConcept(c)
  \/ \E i \in pending : Reject(i)
  \/ \E o \in Objects : Save(o)

\* The steps of a pass that are not a brief's, which Maintenance watches.
Works(p) ==
  \/ ReadPages(p) \/ PagesConflict(p)
  \/ ReadGraph(p) \/ ReadNotes(p) \/ HashNotes(p) \/ Link(p) \/ LinkConflicts(p)
  \/ PlanMaps(p) \/ Draw(p) \/ DrawConflicts(p)
  \/ Analyze(p) \/ Skip(p) \/ Choose(p) \/ Stage(p) \/ StageNoMore(p) \/ WriteAudit(p)
  \/ Contended(p)

-----------------------------------------------------------------------------
\* graph_materializer.py: what a user saved is in the note for good, but for a save in
\* the moment between the reading of a note and its hashing.
UserTextKept ==
  [][\A o \in Objects : note'[o].text < note[o].text => o \in raced \/ o \notin known' \cup Sources
    ]_graphVars
=============================================================================
