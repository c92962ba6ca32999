--------------------------- MODULE CompilerProofs ---------------------------
(***************************************************************************)
(* Proofs about Compiler, for any number of commands and sources, and any  *)
(* texts: a title may be shared, and a decision replaced, by any others.   *)
(***************************************************************************)
EXTENDS Compiler, TLAPS

\* The label of a call is all that Goto changes.
LEMMA GotoType ==
  ASSUME call \in [Procs -> CallRecord], NEW p \in Procs, NEW l \in Labels, Goto(p, l)
  PROVE  call' \in [Procs -> CallRecord]
<1> DEFINE c == call[p]
<1>1. c \in CallRecord
  OBVIOUS
<1>2. [c EXCEPT !.at = l] \in CallRecord
  BY <1>1 DEF CallRecord
<1>3. call' = [call EXCEPT ![p] = [c EXCEPT !.at = l]]
  BY DEF Goto
<1>. QED BY <1>2, <1>3

LEMMA IdleType == Idle \in CallRecord
BY DEF Idle, CallRecord, Labels

LEMMA ReturnsType ==
  ASSUME call \in [Procs -> CallRecord], NEW p \in Procs, Returns(p)
  PROVE  call' \in [Procs -> CallRecord]
BY IdleType DEF Returns

\* The second half of TypeOK: what a step that only reads leaves alone.
Stored == <<status, record, job, cache, answers, proposals, knowledge, archived, begun, mode>>

LEMMA ReadingTypes ==
  ASSUME TypeOK, UNCHANGED <<Stored, rebuilds>>, faults' \in 0..MaxFaults,
         configured' \in Providers, changes' \in 0..MaxChanges,
         call' \in [Procs -> CallRecord]
  PROVE  TypeOK'
BY DEF TypeOK, Stored, knowledge, Extraction, Proposal, Id, Meanings

\* The concept that a call has matched is there: none is ever removed.
Present == \A p \in Procs : \A i \in call[p].same : concept[i] # "absent"

\* The steps of a compilation that read keep the types.
LEMMA ReadingStepTypes ==
  ASSUME TypeOK, Present, NEW p \in Procs,
         \/ NextSource(p) \/ Finished(p) \/ LookUp(p) \/ Match(p) \/ HashNote(p) \/ Plan(p)
         \/ ApplyRefused(p)
  PROVE  TypeOK'
<1> DEFINE c == call[p]
<1> USE DEF others
<1>0. c \in CallRecord /\ call \in [Procs -> CallRecord]
  BY DEF TypeOK
<1>1. CASE NextSource(p)
  <2>1. PICK s \in c.todo :
          call' = [call EXCEPT ![p] = [Idle EXCEPT !.at = "compile", !.by = c.by, !.on = {s},
                                                   !.todo = c.todo \ {s}]]
    BY <1>1 DEF NextSource
  <2>2. s \in Sources /\ c.todo \subseteq Sources /\ c.by \subseteq Providers
    BY <1>0, <2>1 DEF CallRecord
  <2>3. [Idle EXCEPT !.at = "compile", !.by = c.by, !.on = {s}, !.todo = c.todo \ {s}]
          \in CallRecord
    BY <2>2, IdleType DEF CallRecord, Labels
  <2>4. call' \in [Procs -> CallRecord]
    BY <1>0, <2>1, <2>3
  <2>. QED BY <1>1, <2>4, ReadingTypes DEF NextSource, Stored, TypeOK
<1>2. CASE Finished(p)
  BY <1>0, <1>2, ReturnsType, ReadingTypes DEF Finished, Stored, TypeOK
<1>3. CASE LookUp(p)
  <2>1. PICK s \in c.on :
          call' = [call EXCEPT ![p] = [@ EXCEPT !.text = Cached(p, s),
                                       !.at = IF Cached(p, s) = {} THEN "ask" ELSE "match"]]
    BY <1>3 DEF LookUp
  <2>2. Cached(p, s) \subseteq Extraction
    BY <1>0, <2>1 DEF TypeOK, Cached, CallRecord
  <2>3. (IF Cached(p, s) = {} THEN "ask" ELSE "match") \in Labels
    BY DEF Labels
  <2>4. PICK m : m = Cached(p, s)
    OBVIOUS
  <2>5. [c EXCEPT !.text = m, !.at = IF m = {} THEN "ask" ELSE "match"] \in CallRecord
    BY <1>0, <2>2, <2>3, <2>4 DEF CallRecord
  <2>6. call' \in [Procs -> CallRecord]
    BY <1>0, <2>1, <2>4, <2>5
  <2>. QED BY <1>3, <2>6, ReadingTypes DEF LookUp, Stored, TypeOK
<1>4. CASE Match(p)
  <2>1. PICK e \in c.text :
          \/ Goto(p, "plan")
          \/ \E i \in Same(e) : call' = [call EXCEPT ![p] = [c EXCEPT !.same = {i},
               !.at = IF concept[i] = Meaning[e.id] THEN "plan" ELSE "hash"]]
    BY <1>4 DEF Match
  <2>2. CASE Goto(p, "plan")
    BY <1>0, <1>4, <2>2, GotoType, ReadingTypes DEF Match, Stored, TypeOK, Labels
  <2>3. ASSUME NEW i \in Same(e), NEW l \in {"plan", "hash"},
               call' = [call EXCEPT ![p] = [c EXCEPT !.same = {i}, !.at = l]]
        PROVE  call' \in [Procs -> CallRecord]
    <3>1. [c EXCEPT !.same = {i}, !.at = l] \in CallRecord
      BY <1>0, <2>3 DEF Same, CallRecord, Labels
    <3>. QED BY <1>0, <2>3, <3>1
  <2>. QED BY <1>4, <2>1, <2>2, <2>3, ReadingTypes DEF Match, Stored, TypeOK
<1>4a. CASE HashNote(p)
  <2>1. PICK e \in c.text, i \in c.same :
          call' = [call EXCEPT ![p] = [c EXCEPT !.at = "plan",
                     !.proposal = {[from |-> e.id, target |-> i, seen |-> concept[i]]}]]
    BY <1>4a DEF HashNote
  <2>2. e.id \in Id /\ i \in Id /\ concept[i] \in Meanings
    BY <1>0, <2>1 DEF CallRecord, Extraction, Present, TypeOK
  <2>3. PICK r : r = [from |-> e.id, target |-> i, seen |-> concept[i]]
    OBVIOUS
  <2>4. r \in Proposal
    BY <2>2, <2>3 DEF Proposal
  <2>5. [c EXCEPT !.at = "plan", !.proposal = {r}] \in CallRecord
    BY <1>0, <2>4 DEF CallRecord, Labels
  <2>6. call' \in [Procs -> CallRecord]
    BY <1>0, <2>1, <2>3, <2>5
  <2>. QED BY <1>4a, <2>6, ReadingTypes DEF HashNote, Stored, TypeOK
<1>5. CASE Plan(p)
  <2>1. PICK s \in c.on, e \in c.text :
          call' = [call EXCEPT ![p] = [c EXCEPT !.at = "apply",
            !.ledger = ledger[s], !.record = {record[s]},
            !.read = {<<i, note[i]>> : i \in {j \in e.supersedes : decision[j] # "absent"}}]]
    BY <1>5 DEF Plan
  <2>2. s \in Sources /\ e \in Extraction
    BY <1>0, <2>1 DEF CallRecord
  <2>3. /\ ledger[s] \in SUBSET Extraction
        /\ record[s] \in {"NEEDS_AI", "CLASSIFIED", "COMPLETE"}
    BY <2>2 DEF TypeOK
  <2>4. {<<i, note[i]>> : i \in {j \in e.supersedes : decision[j] # "absent"}}
          \in SUBSET (Id \X Status)
    BY <2>2 DEF TypeOK, Extraction
  <2>5. [c EXCEPT !.at = "apply", !.ledger = ledger[s], !.record = {record[s]},
           !.read = {<<i, note[i]>> : i \in {j \in e.supersedes : decision[j] # "absent"}}]
          \in CallRecord
    BY <1>0, <2>3, <2>4 DEF CallRecord, Labels
  <2>6. call' \in [Procs -> CallRecord]
    BY <1>0, <2>1, <2>5
  <2>. QED BY <1>5, <2>6, ReadingTypes DEF Plan, Stored, TypeOK
<1>6. CASE ApplyRefused(p)
  BY <1>0, <1>6, ReturnsType, ReadingTypes DEF ApplyRefused, Stored, TypeOK
<1>. QED BY <1>1, <1>2, <1>3, <1>4, <1>4a, <1>5, <1>6

\* Beginnings and ends of calls keep the types.
LEMMA OuterTypes ==
  ASSUME TypeOK, NEW p \in Procs,
         \/ BeginNight \/ \E s \in Sources : BeginCommand(p, s)
         \/ EgressBlocked(p) \/ NeedsAi(p) \/ Raise(p) \/ RebuildFails(p) \/ Rebuilt(p)
  PROVE  TypeOK'
<1> USE DEF others
<1>0. call \in [Procs -> CallRecord] /\ job \subseteq Queued /\ faults \in 0..MaxFaults
  BY DEF TypeOK
<1>a. ASSUME NEW k \in Providers, Reads(k)
      PROVE  configured' \in Providers /\ changes' \in 0..MaxChanges
  BY <1>a, BoundAssumption DEF Reads, TypeOK
<1>1. CASE BeginNight
  <2>1. Daemon \in Procs /\ JobsToRetry \subseteq Sources
    BY <1>0, SourceAssumption DEF Procs, JobsToRetry
  <2>2. PICK k \in Providers :
          /\ Reads(k)
          /\ call' = [call EXCEPT ![Daemon] = [Idle EXCEPT !.at = "next", !.by = {k},
                                                           !.todo = JobsToRetry]]
    BY <1>1 DEF BeginNight
  <2>3. [Idle EXCEPT !.at = "next", !.by = {k}, !.todo = JobsToRetry] \in CallRecord
    BY <2>1, IdleType DEF CallRecord, Labels
  <2>4. call' \in [Procs -> CallRecord]
    BY <1>0, <2>1, <2>2, <2>3
  <2>5. configured' \in Providers /\ changes' \in 0..MaxChanges
    BY <1>a, <2>2
  <2>. QED BY <1>1, <2>4, <2>5, ReadingTypes DEF BeginNight, Stored, TypeOK
<1>2. ASSUME NEW s \in Sources, BeginCommand(p, s)
      PROVE  TypeOK'
  <2>1. PICK k \in Providers :
          /\ Reads(k)
          /\ call' = [call EXCEPT ![p] = [Idle EXCEPT !.at = "next", !.by = {k}, !.todo = {s}]]
    BY <1>2 DEF BeginCommand
  <2>2. [Idle EXCEPT !.at = "next", !.by = {k}, !.todo = {s}] \in CallRecord
    BY IdleType DEF CallRecord, Labels
  <2>3. call' \in [Procs -> CallRecord]
    BY <1>0, <2>1, <2>2
  <2>4. begun' \subseteq Sources
    BY <1>2 DEF BeginCommand, TypeOK
  <2>5. configured' \in Providers /\ changes' \in 0..MaxChanges
    BY <1>a, <2>1
  <2>. QED BY <1>2, <2>3, <2>4, <2>5
           DEF BeginCommand, TypeOK, knowledge, Extraction, Proposal, Id, Meanings
<1>3. CASE NeedsAi(p)
  <2>1. call' \in [Procs -> CallRecord]
    BY <1>0, <1>3, GotoType DEF NeedsAi, Labels
  <2>2. faults' \in 0..MaxFaults
    BY <1>0, <1>3, BoundAssumption DEF NeedsAi
  <2>3. status' \in [Sources -> {"NEEDS_AI", "CLASSIFIED", "COMPLETE"}]
    BY <1>3 DEF NeedsAi, TypeOK
  <2>. QED BY <1>3, <2>1, <2>2, <2>3
           DEF NeedsAi, TypeOK, knowledge, Extraction, Proposal, Id, Meanings
<1>4. CASE Raise(p)
  <2>1. faults' \in 0..MaxFaults
    BY <1>0, <1>4, BoundAssumption DEF Raise
  <2>. QED BY <1>0, <1>4, <2>1, ReturnsType, ReadingTypes DEF Raise, Stored, TypeOK
<1>5. CASE Rebuilt(p) \/ RebuildFails(p)
  BY <1>0, <1>5, ReturnsType, ReadingTypes DEF Rebuilt, RebuildFails, Stored, TypeOK
<1>6. CASE EgressBlocked(p)
  <2>1. call' \in [Procs -> CallRecord]
    BY <1>0, <1>6, GotoType DEF EgressBlocked, Labels
  <2>2. status' \in [Sources -> {"NEEDS_AI", "CLASSIFIED", "COMPLETE"}]
    BY <1>6 DEF EgressBlocked, TypeOK
  <2>. QED BY <1>6, <2>1, <2>2
           DEF EgressBlocked, TypeOK, knowledge, Extraction, Proposal, Id, Meanings
<1>. QED BY <1>1, <1>2, <1>3, <1>4, <1>5, <1>6

\* A provider's answer keeps the types.
LEMMA AskTypes ==
  ASSUME TypeOK, NEW p \in Procs, Ask(p)
  PROVE  TypeOK'
<1> DEFINE c == call[p]
<1>0. c \in CallRecord /\ call \in [Procs -> CallRecord]
  BY DEF TypeOK
<1>1. PICK s \in c.on, k \in c.by :
        /\ answers' = [answers EXCEPT ![s] = @ \cup {k}]
        /\ \E e \in {[id |-> <<s, k>>, supersedes |-> old] : old \in Known(s)} :
             /\ cache' = [cache EXCEPT ![s] = @ \cup {e}]
             /\ call' = [call EXCEPT ![p] = [c EXCEPT !.at = "match", !.text = {e}]]
  BY DEF Ask
<1>2. PICK e \in {[id |-> <<s, k>>, supersedes |-> old] : old \in Known(s)} :
        /\ cache' = [cache EXCEPT ![s] = @ \cup {e}]
        /\ call' = [call EXCEPT ![p] = [c EXCEPT !.at = "match", !.text = {e}]]
  BY <1>1
<1>3. s \in Sources /\ k \in Providers
  BY <1>0, <1>1 DEF CallRecord
<1>4. e \in Extraction
  <2>1. Known(s) \subseteq SUBSET Id
    BY DEF Known
  <2>2. <<s, k>> \in Id
    BY <1>3 DEF Id
  <2>. QED BY <1>2, <2>1, <2>2 DEF Extraction
<1>5. answers' \in [Sources -> SUBSET Providers] /\ cache' \in [Sources -> SUBSET Extraction]
  BY <1>1, <1>2, <1>3, <1>4 DEF TypeOK
<1>6. [c EXCEPT !.at = "match", !.text = {e}] \in CallRecord
  BY <1>0, <1>4 DEF CallRecord, Labels
<1>7. call' \in [Procs -> CallRecord]
  BY <1>0, <1>2, <1>6
<1>. QED BY <1>5, <1>7
         DEF Ask, TypeOK, knowledge, others, Extraction, Proposal, Id, Meanings

\* The main operation and the proposal after it keep the types.
LEMMA ApplyTypes ==
  ASSUME TypeOK, NEW p \in Procs, Apply(p) \/ Stage(p)
  PROVE  TypeOK'
<1> DEFINE c == call[p]
<1>0. c \in CallRecord /\ call \in [Procs -> CallRecord]
  BY DEF TypeOK
<1>1. CASE Apply(p)
  <2>1. PICK s \in c.on, e \in c.text :
          /\ decision' = Inserted(e)
          /\ note' = Noted(p, e)
          /\ concept' = Concepts(p, e)
          /\ ledger' = [ledger EXCEPT ![s] = Ledger(p, s, e)]
          /\ asked' = [asked EXCEPT ![s] = IF @ < 2 THEN @ + 1 ELSE @]
          /\ again' = IF decision[e.id] = "absent" THEN again ELSE again \cup {s}
          /\ status' = [status EXCEPT ![s] = Compiled(p)]
          /\ record' = [record EXCEPT ![s] = Compiled(p)]
    BY <1>1 DEF Apply, Asked
  <2>2. s \in Sources /\ e \in Extraction
    BY <1>0, <2>1 DEF CallRecord
  <2>3. decision' \in [Id -> Status] /\ note' \in [Id -> Status]
    BY <2>1 DEF Inserted, Noted, Status, TypeOK
  <2>4. concept' \in [Id -> Meanings \cup {"absent"}]
    <3>1. Meaning[e.id] \in Meanings
      BY <2>2 DEF Meanings, Extraction
    <3>. QED BY <2>1, <3>1 DEF Concepts, TypeOK
  <2>5. ledger' \in [Sources -> SUBSET Extraction]
    <3>1. Ledger(p, s, e) \in SUBSET Extraction
      BY <2>2 DEF Ledger, TypeOK
    <3>. QED BY <2>1, <3>1 DEF TypeOK
  <2>6. asked' \in [Sources -> 0..2]
    BY <2>1, <2>2 DEF TypeOK
  <2>7. again' \subseteq Sources
    BY <2>1, <2>2 DEF TypeOK
  <2>8. /\ status' \in [Sources -> {"NEEDS_AI", "CLASSIFIED", "COMPLETE"}]
        /\ record' \in [Sources -> {"NEEDS_AI", "CLASSIFIED", "COMPLETE"}]
    BY <2>1 DEF Compiled, TypeOK
  <2>9. call' \in [Procs -> CallRecord]
    BY <1>0, <1>1, GotoType DEF Apply, Labels
  <2>. QED BY <1>1, <2>3, <2>4, <2>5, <2>6, <2>7, <2>8, <2>9
           DEF Apply, TypeOK, others, Extraction, Proposal, Id, Meanings
<1>2. CASE Stage(p)
  <2>1. proposals' \subseteq Proposal
    BY <1>0, <1>2 DEF Stage, Staged, TypeOK, CallRecord
  <2>2. call' \in [Procs -> CallRecord]
    BY <1>0, <1>2, GotoType DEF Stage, Labels
  <2>. QED BY <1>2, <2>1, <2>2
           DEF Stage, TypeOK, knowledge, others, Extraction, Proposal, Id, Meanings
<1>. QED BY <1>1, <1>2

\* Reviews keep the types.
LEMMA ReviewTypes ==
  ASSUME TypeOK, NEW r \in proposals, Approve(r) \/ Reject(r)
  PROVE  TypeOK'
<1>1. r.from \in Id /\ proposals' \subseteq Proposal
  BY DEF TypeOK, Proposal, Approve, Reject
<1>2. CASE Approve(r)
  <2>1. Meaning[r.from] \in Meanings
    BY <1>1 DEF Meanings
  <2>2. concept' \in [Id -> Meanings \cup {"absent"}]
    BY <1>2, <2>1 DEF Approve, TypeOK
  <2>. QED BY <1>1, <1>2, <2>2
           DEF Approve, TypeOK, others, Extraction, Proposal, Id, Meanings
<1>3. CASE Reject(r)
  BY <1>1, <1>3 DEF Reject, TypeOK, knowledge, others, Extraction, Proposal, Id, Meanings
<1>. QED BY <1>2, <1>3

\* A rebuild keeps the types.
LEMMA RebuildTypes ==
  ASSUME TypeOK, NEW p \in Procs, BeginRebuild(p) \/ ReplayDecision(p)
  PROVE  TypeOK'
<1> DEFINE c == call[p]
<1>0. c \in CallRecord /\ call \in [Procs -> CallRecord]
  BY DEF TypeOK
<1>1. CASE BeginRebuild(p)
  <2>1. UNION {ledger[s] : s \in Sources} \subseteq Extraction
    BY DEF TypeOK
  <2>2. [Idle EXCEPT !.at = "replay", !.text = UNION {ledger[s] : s \in Sources}]
          \in CallRecord
    BY <2>1, IdleType DEF CallRecord, Labels
  <2>3. call' \in [Procs -> CallRecord]
    BY <1>0, <1>1, <2>2 DEF BeginRebuild
  <2>4. /\ decision' \in [Id -> Status] /\ archived' \in [Id -> Status]
        /\ cache' \in [Sources -> SUBSET Extraction] /\ job' \subseteq Queued
    BY <1>1 DEF BeginRebuild, TypeOK, Status
  <2>5. /\ asked' \in [Sources -> 0..2]
        /\ status' \in [Sources -> {"NEEDS_AI", "CLASSIFIED", "COMPLETE"}]
    BY <1>1 DEF BeginRebuild, TypeOK, Ingested
  <2>6. rebuilds' \in 0..MaxRebuilds
    BY <1>1, BoundAssumption DEF BeginRebuild, TypeOK
  <2>. QED BY <1>1, <2>3, <2>4, <2>5, <2>6
           DEF BeginRebuild, TypeOK, Extraction, Proposal, Id, Meanings
<1>2. CASE ReplayDecision(p)
  <2>1. PICK e \in c.text : /\ decision' = Inserted(e)
                            /\ call' = [call EXCEPT ![p].text = @ \ {e}]
    BY <1>2 DEF ReplayDecision
  <2>2. decision' \in [Id -> Status]
    BY <2>1 DEF Inserted, Status, TypeOK
  <2>3. [c EXCEPT !.text = c.text \ {e}] \in CallRecord
    BY <1>0 DEF CallRecord
  <2>4. call' = [call EXCEPT ![p] = [c EXCEPT !.text = c.text \ {e}]]
    BY <2>1
  <2>5. call' \in [Procs -> CallRecord]
    BY <1>0, <2>3, <2>4
  <2>. QED BY <1>2, <2>2, <2>5
           DEF ReplayDecision, TypeOK, others, Extraction, Proposal, Id, Meanings
<1>. QED BY <1>1, <1>2

\* A concept that is there stays.
LEMMA ConceptsStay ==
  ASSUME TypeOK, [Next]_vars, NEW i \in Id, concept[i] # "absent"
  PROVE  concept'[i] # "absent"
<1> USE DEF knowledge, others
<1>1. ASSUME NEW p \in Procs, Apply(p)
      PROVE  concept'[i] # "absent"
  <2>1. PICK e \in call[p].text : concept' = Concepts(p, e)
    BY <1>1 DEF Apply
  <2>2. e.id \in Id
    BY <2>1 DEF TypeOK, CallRecord, Extraction
  <2>3. Meaning[e.id] # "absent"
    BY <2>2, TextAssumption DEF Id
  <2>. QED BY <2>1, <2>2, <2>3 DEF Concepts, TypeOK
<1>2. ASSUME NEW r \in proposals, Approve(r)
      PROVE  concept'[i] # "absent"
  <2>1. r.from \in Id
    BY DEF TypeOK, Proposal
  <2>2. Meaning[r.from] # "absent"
    BY <2>1, TextAssumption DEF Id
  <2>. QED BY <1>2, <2>2 DEF Approve, TypeOK
<1>3. ASSUME NEW r \in proposals, Reject(r)
      PROVE  concept' = concept
  BY <1>3 DEF Reject
<1>4. ASSUME NEW p \in Procs,
             \/ \E s \in Sources : BeginCommand(p, s)
             \/ BeginRebuild(p) \/ NeedsAi(p) \/ Raise(p) \/ Replay(p)
             \/ (Compile(p) /\ ~ Apply(p))
      PROVE  concept' = concept
  BY <1>4 DEF BeginCommand, BeginRebuild, NeedsAi, Raise, Replay, ReplayDecision, RebuildFails,
     Rebuilt, Compile, NextSource, Finished, EgressBlocked, LookUp, Ask, Match, HashNote, Plan,
     ApplyRefused, Stage
<1>5. CASE BeginNight \/ UNCHANGED vars
  BY <1>5 DEF BeginNight, vars
<1>. QED BY <1>1, <1>2, <1>3, <1>4, <1>5 DEF Next

\* A call that does not match anew keeps what it has matched, or begins again.
LEMMA PresentStep == TypeOK /\ Present /\ [Next]_vars => Present'
<1> SUFFICES ASSUME TypeOK, Present, [Next]_vars PROVE Present'
  OBVIOUS
<1> USE DEF knowledge, others
<1>0. /\ call \in [Procs -> CallRecord]
      /\ \A q \in Procs : call[q].same \subseteq Id
      /\ Idle.same = {}
  BY DEF TypeOK, CallRecord, Idle
<1>1. ASSUME NEW p \in Procs, NEW x, call' = [call EXCEPT ![p] = x],
             \A i \in x.same : i \in Id /\ concept[i] # "absent"
      PROVE  Present'
  <2>1. call'[p] = x /\ \A q \in Procs : q # p => call'[q] = call[q]
    BY <1>0, <1>1
  <2>2. \A q \in Procs : \A i \in call'[q].same : i \in Id /\ concept[i] # "absent"
    BY <1>0, <1>1, <2>1 DEF Present
  <2>. QED BY <2>2, ConceptsStay DEF Present
<1>2. ASSUME NEW p \in Procs, NEW x, call' = [call EXCEPT ![p] = x], x.same \subseteq call[p].same
      PROVE  Present'
  <2>1. \A i \in x.same : i \in Id /\ concept[i] # "absent"
    BY <1>0, <1>2 DEF Present
  <2>. QED BY <1>1, <1>2, <2>1
<1>3. ASSUME NEW p \in Procs, NEW l, Goto(p, l)
      PROVE  Present'
  <2> DEFINE x == [call[p] EXCEPT !.at = l]
  <2>1. x.same = call[p].same
    BY <1>0 DEF CallRecord
  <2>2. call' = [call EXCEPT ![p] = x]
    BY <1>3 DEF Goto
  <2> HIDE DEF x
  <2>. QED BY <1>2, <2>1, <2>2
<1>4. ASSUME NEW p \in Procs, Returns(p)
      PROVE  Present'
  BY <1>0, <1>2, <1>4 DEF Returns
<1>6. CASE BeginNight
  <2>1. Daemon \in Procs
    BY DEF Procs
  <2>2. PICK k : call' = [call EXCEPT ![Daemon] = [Idle EXCEPT !.at = "next", !.by = {k},
                                                               !.todo = JobsToRetry]]
    BY <1>6 DEF BeginNight
  <2> DEFINE x == [Idle EXCEPT !.at = "next", !.by = {k}, !.todo = JobsToRetry]
  <2>3. x.same = {} /\ call' = [call EXCEPT ![Daemon] = x]
    BY <2>2 DEF Idle
  <2> HIDE DEF x
  <2>. QED BY <1>2, <2>1, <2>3
<1>7. ASSUME NEW p \in Procs, NEW s \in Sources, BeginCommand(p, s)
      PROVE  Present'
  <2>1. PICK k : call' = [call EXCEPT ![p] = [Idle EXCEPT !.at = "next", !.by = {k},
                                                          !.todo = {s}]]
    BY <1>7 DEF BeginCommand
  <2> DEFINE x == [Idle EXCEPT !.at = "next", !.by = {k}, !.todo = {s}]
  <2>2. x.same = {} /\ call' = [call EXCEPT ![p] = x]
    BY <2>1 DEF Idle
  <2> HIDE DEF x
  <2>. QED BY <1>2, <2>2
<1>8. ASSUME NEW p \in Procs, BeginRebuild(p)
      PROVE  Present'
  <2> DEFINE x == [Idle EXCEPT !.at = "replay", !.text = UNION {ledger[s] : s \in Sources}]
  <2>1. x.same = {} /\ call' = [call EXCEPT ![p] = x]
    BY <1>8 DEF BeginRebuild, Idle
  <2> HIDE DEF x
  <2>. QED BY <1>2, <2>1
<1>9. ASSUME NEW p \in Procs, NextSource(p)
      PROVE  Present'
  <2>1. PICK s : call' = [call EXCEPT ![p] = [Idle EXCEPT !.at = "compile", !.by = call[p].by,
                                                !.on = {s}, !.todo = call[p].todo \ {s}]]
    BY <1>9 DEF NextSource
  <2> DEFINE x == [Idle EXCEPT !.at = "compile", !.by = call[p].by,
                               !.on = {s}, !.todo = call[p].todo \ {s}]
  <2>2. x.same = {} /\ call' = [call EXCEPT ![p] = x]
    BY <2>1 DEF Idle
  <2> HIDE DEF x
  <2>. QED BY <1>2, <2>2
<1>10. ASSUME NEW p \in Procs, NEW l, NEW m,
              call' = [call EXCEPT ![p] = [call[p] EXCEPT !.text = m, !.at = l]]
       PROVE  Present'
  <2> DEFINE x == [call[p] EXCEPT !.text = m, !.at = l]
  <2>1. x.same = call[p].same /\ call' = [call EXCEPT ![p] = x]
    BY <1>0, <1>10 DEF CallRecord
  <2> HIDE DEF x
  <2>. QED BY <1>2, <2>1
<1>11. ASSUME NEW p \in Procs, LookUp(p) \/ Ask(p) \/ ReplayDecision(p)
       PROVE  Present'
  <2>1. CASE LookUp(p)
    <3>1. PICK s \in call[p].on :
            call' = [call EXCEPT ![p] = [@ EXCEPT !.text = Cached(p, s),
                                         !.at = IF Cached(p, s) = {} THEN "ask" ELSE "match"]]
      BY <2>1 DEF LookUp
    <3>. QED BY <1>10, <3>1
  <2>2. CASE Ask(p)
    <3>1. PICK e : call' = [call EXCEPT ![p] = [@ EXCEPT !.at = "match", !.text = {e}]]
      BY <2>2 DEF Ask
    <3> DEFINE x == [call[p] EXCEPT !.at = "match", !.text = {e}]
    <3>2. x.same = call[p].same /\ call' = [call EXCEPT ![p] = x]
      BY <1>0, <3>1 DEF CallRecord
    <3> HIDE DEF x
    <3>. QED BY <1>2, <3>2
  <2>3. CASE ReplayDecision(p)
    <3>1. PICK e : call' = [call EXCEPT ![p] = [@ EXCEPT !.text = call[p].text \ {e}]]
      BY <2>3 DEF ReplayDecision
    <3> DEFINE x == [call[p] EXCEPT !.text = call[p].text \ {e}]
    <3>2. x.same = call[p].same /\ call' = [call EXCEPT ![p] = x]
      BY <1>0, <3>1 DEF CallRecord
    <3> HIDE DEF x
    <3>. QED BY <1>2, <3>2
  <2>. QED BY <1>11, <2>1, <2>2, <2>3
<1>12. ASSUME NEW p \in Procs, Match(p)
       PROVE  Present'
  <2>1. PICK e : \/ Goto(p, "plan")
                 \/ \E i \in Same(e) : call' = [call EXCEPT ![p] = [call[p] EXCEPT !.same = {i},
                      !.at = IF concept[i] = Meaning[e.id] THEN "plan" ELSE "hash"]]
    BY <1>12 DEF Match
  <2>2. ASSUME NEW i \in Same(e), NEW l,
               call' = [call EXCEPT ![p] = [call[p] EXCEPT !.same = {i}, !.at = l]]
        PROVE  Present'
    <3> DEFINE x == [call[p] EXCEPT !.same = {i}, !.at = l]
    <3>1. x.same = {i} /\ call' = [call EXCEPT ![p] = x]
      BY <1>0, <2>2 DEF CallRecord
    <3>2. i \in Id /\ concept[i] # "absent"
      BY DEF Same
    <3> HIDE DEF x
    <3>. QED BY <1>1, <3>1, <3>2
  <2>. QED BY <1>3, <2>1, <2>2
<1>13. ASSUME NEW p \in Procs, HashNote(p) \/ Plan(p)
       PROVE  Present'
  <2>1. ASSUME NEW x, call' = [call EXCEPT ![p] = x], x.same = call[p].same
        PROVE  Present'
    BY <1>2, <2>1
  <2>2. CASE HashNote(p)
    <3>1. PICK m : call' = [call EXCEPT ![p] = [call[p] EXCEPT !.at = "plan", !.proposal = m]]
      BY <2>2 DEF HashNote
    <3>2. [call[p] EXCEPT !.at = "plan", !.proposal = m].same = call[p].same
      BY <1>0 DEF CallRecord
    <3>. QED BY <2>1, <3>1, <3>2
  <2>3. CASE Plan(p)
    <3>1. PICK u, v, w : call' = [call EXCEPT ![p] = [call[p] EXCEPT !.at = "apply",
                                    !.ledger = u, !.record = v, !.read = w]]
      BY <2>3 DEF Plan
    <3>2. [call[p] EXCEPT !.at = "apply", !.ledger = u, !.record = v, !.read = w].same
            = call[p].same
      BY <1>0 DEF CallRecord
    <3>. QED BY <2>1, <3>1, <3>2
  <2>. QED BY <1>13, <2>2, <2>3
<1>14. ASSUME NEW p \in Procs,
              \/ Finished(p) \/ EgressBlocked(p) \/ Apply(p) \/ ApplyRefused(p) \/ Stage(p)
              \/ NeedsAi(p) \/ Raise(p) \/ RebuildFails(p) \/ Rebuilt(p)
       PROVE  Present'
  BY <1>3, <1>4, <1>14 DEF Finished, EgressBlocked, Apply, ApplyRefused, Stage, NeedsAi, Raise,
     RebuildFails, Rebuilt
<1>15. ASSUME call' = call
       PROVE  Present'
  BY <1>0, <1>15, ConceptsStay DEF Present
<1>16. CASE (\E r \in proposals : Approve(r) \/ Reject(r)) \/ UNCHANGED vars
  BY <1>15, <1>16 DEF Approve, Reject, vars
<1>. QED BY <1>6, <1>7, <1>8, <1>9, <1>11, <1>12, <1>13, <1>14, <1>16 DEF Next, Compile, Replay

\* Every variable keeps its type, whatever is compiled, reviewed and rebuilt.
THEOREM Types == Spec => []TypeOK
<1>1. Init => TypeOK /\ Present
  <2> SUFFICES ASSUME Init PROVE TypeOK /\ Present
    OBVIOUS
  <2>1. call \in [Procs -> CallRecord]
    BY IdleType DEF Init
  <2>2. decision \in [Id -> Status]
    BY DEF Init, Status
  <2>3. Present
    BY DEF Init, Present, Idle
  <2>. QED BY <2>1, <2>2, <2>3, BoundAssumption DEF Init, TypeOK, Ingested
<1>2. TypeOK /\ Present /\ [Next]_vars => TypeOK' /\ Present'
  <2> SUFFICES ASSUME TypeOK, Present, [Next]_vars PROVE TypeOK' /\ Present'
    OBVIOUS
  <2>1. Daemon \in Procs
    BY DEF Procs
  <2>2. ASSUME UNCHANGED vars PROVE TypeOK'
    BY <2>2 DEF vars, knowledge, others, TypeOK, Extraction, Proposal, Id, Meanings
  <2>3. ASSUME BeginNight PROVE TypeOK'
    BY <2>1, <2>3, OuterTypes
  <2>4. ASSUME NEW p \in Procs, (\E s \in Sources : BeginCommand(p, s)) \/ BeginRebuild(p)
        PROVE  TypeOK'
    BY <2>4, OuterTypes, RebuildTypes
  <2>5. ASSUME NEW p \in Procs, Compile(p)
        PROVE  TypeOK'
    BY <2>5, ReadingStepTypes, OuterTypes, AskTypes, ApplyTypes DEF Compile
  <2>6. ASSUME NEW p \in Procs, NeedsAi(p) \/ Raise(p) \/ Replay(p)
        PROVE  TypeOK'
    BY <2>6, OuterTypes, RebuildTypes DEF Replay
  <2>7. ASSUME NEW r \in proposals, Approve(r) \/ Reject(r)
        PROVE  TypeOK'
    BY <2>7, ReviewTypes
  <2>8. TypeOK'
    BY <2>2, <2>3, <2>4, <2>5, <2>6, <2>7 DEF Next
  <2>. QED BY <2>8, PresentStep
<1>. QED BY <1>1, <1>2, PTL DEF Spec

-----------------------------------------------------------------------------
(***************************************************************************)
(* Restorable and NoteShowsRow.  No provider is asked about a source       *)
(* twice: a call works on sources that no other call works on, and it      *)
(* looks into the cache first, which is lost only together with the jobs.  *)
(* The ledger of a source holds one of the answers about it, under the     *)
(* identifier of that answer; if there is one answer, it holds all that is *)
(* in the database.                                                        *)
(***************************************************************************)

\* The sources that a call works on, or will.
Held(p) == call[p].todo \cup call[p].on

\* The daemon works on the queued sources, a command on the one that it ingested, and
\* in mode "alone" at most one of them works.
Turns ==
  /\ Held(Daemon) \subseteq Queued
  /\ \A p \in Commands : Held(p) \subseteq begun \ Queued
  /\ \A p, q \in Commands : p # q => Held(p) \cap Held(q) = {}
  /\ \A p \in Procs : /\ call[p].at = "idle" => Held(p) = {}
                      /\ \A s, t \in call[p].on : s = t
                      /\ \A k, l \in call[p].by : k = l
  /\ mode = "alone" =>
       \A p, q \in Procs : call[p].at # "idle" /\ call[q].at # "idle" => p = q

\* Everything is stored under the identifiers of answers, of which there is one for each
\* provider asked.
Answered(s) ==
  /\ \A e \in cache[s] \cup ledger[s] : e.id \in {s} \X answers[s]
  /\ \A e, f \in cache[s] : e.id = f.id => e = f
  /\ \A e, f \in ledger[s] : e = f
  /\ \A e \in cache[s] : \A i \in e.supersedes : i # e.id /\ decision[i] # "absent"
  /\ \A i \in {s} \X Providers :
       decision[i] # "absent" => i[2] \in answers[s] /\ ledger[s] # {}
  /\ s \notin Queued \cup begun => answers[s] = {}
  /\ \A k \in answers[s] :
       \/ \E e \in cache[s] : e.id = <<s, k>>
       \/ s \notin job /\ \A p \in Procs : s \notin Held(p)

\* What a call knows at the place where it is.
Place(p) ==
  /\ call[p].at = "ask" => \A s \in call[p].on : \A k \in call[p].by : k \notin answers[s]
  /\ call[p].at \in {"match", "hash", "plan", "apply"} =>
       /\ call[p].on # {} /\ \A s \in call[p].on : call[p].text \subseteq cache[s]
       /\ \A e, f \in call[p].text : e = f
  /\ call[p].at = "apply" =>
       /\ call[p].ledger # {} => \A s \in call[p].on : ledger[s] # {}
       /\ \A e \in call[p].text : {r[1] : r \in call[p].read} = e.supersedes
  /\ call[p].at = "replay" =>
       mode = "alone" /\ \A e \in call[p].text : \E s \in Sources : e \in ledger[s]

KeepInv ==
  /\ Turns
  /\ \A s \in Sources : Answered(s)
  /\ \A p \in Procs : Place(p)
  /\ NoteShowsRow

\* No two calls work on one source.
LEMMA Apart ==
  ASSUME Turns, NEW p \in Procs, NEW q \in Procs, p # q
  PROVE  Held(p) \cap Held(q) = {}
BY ProcAssumption DEF Turns, Procs

\* A call works on sources.
LEMMA HeldSources ==
  ASSUME TypeOK, NEW p \in Procs
  PROVE  Held(p) \subseteq Sources
BY DEF TypeOK, CallRecord, Held

\* A step of a call that stores nothing the invariant speaks of, and goes on with no
\* other source, has only its own place to keep.
LEMMA OwnStep ==
  ASSUME TypeOK, KeepInv, NEW p \in Procs, NEW x,
         call[p].at # "idle",
         call' = [call EXCEPT ![p] = x],
         UNCHANGED <<job, begun, cache, answers, ledger, decision, note, mode>>,
         x.todo \cup x.on \subseteq Held(p),
         x.at = "idle" => x.todo = {} /\ x.on = {},
         \A s, t \in x.on : s = t, \A k, l \in x.by : k = l,
         Place(p)'
  PROVE  KeepInv'
<1>0. call'[p] = x /\ \A q \in Procs : q # p => call'[q] = call[q]
  BY DEF TypeOK
<1>1. Held(p)' \subseteq Held(p) /\ \A q \in Procs : q # p => Held(q)' = Held(q)
  BY <1>0 DEF Held
<1>2. Turns'
  <2>1. /\ Held(Daemon)' \subseteq Queued
        /\ \A q \in Commands : Held(q)' \subseteq begun' \ Queued
        /\ \A q, r \in Commands : q # r => Held(q)' \cap Held(r)' = {}
    BY <1>1 DEF KeepInv, Turns, Procs
  <2>2. ASSUME NEW q \in Procs
        PROVE  /\ call'[q].at = "idle" => Held(q)' = {}
               /\ \A s, t \in call'[q].on : s = t
               /\ \A k, l \in call'[q].by : k = l
    <3>1. CASE q = p
      BY <1>0, <3>1 DEF Held
    <3>2. CASE q # p
      BY <1>0, <1>1, <3>2 DEF KeepInv, Turns
    <3>. QED BY <3>1, <3>2
  <2>3. mode' = "alone" =>
          \A q, r \in Procs : call'[q].at # "idle" /\ call'[r].at # "idle" => q = r
    BY <1>0 DEF KeepInv, Turns
  <2>. QED BY <2>1, <2>2, <2>3 DEF Turns
<1>3. \A s \in Sources : Answered(s)'
  BY <1>1 DEF KeepInv, Answered
<1>4. \A q \in Procs : Place(q)'
  <2> SUFFICES ASSUME NEW q \in Procs, q # p PROVE Place(q)'
    OBVIOUS
  <2>. QED BY <1>0 DEF KeepInv, Place
<1>5. NoteShowsRow'
  BY DEF KeepInv, NoteShowsRow
<1>. QED BY <1>2, <1>3, <1>4, <1>5 DEF KeepInv

\* The steps of a call that store nothing the invariant speaks of.
LEMMA ReadingKeeps ==
  ASSUME TypeOK, KeepInv, NEW p \in Procs,
         \/ NextSource(p) \/ Finished(p) \/ LookUp(p) \/ Match(p) \/ HashNote(p) \/ Plan(p)
         \/ ApplyRefused(p) \/ EgressBlocked(p) \/ NeedsAi(p) \/ Stage(p) \/ Raise(p)
         \/ RebuildFails(p) \/ Rebuilt(p)
  PROVE  KeepInv'
<1> DEFINE c == call[p]
<1> USE DEF others, knowledge
<1>0. /\ c \in CallRecord /\ call \in [Procs -> CallRecord]
      /\ \A s, t \in c.on : s = t
      /\ \A k, l \in c.by : k = l
      /\ c.on \subseteq Held(p) /\ c.todo \subseteq Held(p)
      /\ Held(p) \subseteq Sources
  BY HeldSources DEF TypeOK, KeepInv, Turns, Held
<1>1. ASSUME NextSource(p) PROVE KeepInv'
  <2>1. PICK s \in c.todo :
          call' = [call EXCEPT ![p] = [Idle EXCEPT !.at = "compile", !.by = c.by, !.on = {s},
                                                   !.todo = c.todo \ {s}]]
    BY <1>1 DEF NextSource
  <2> DEFINE x == [Idle EXCEPT !.at = "compile", !.by = c.by, !.on = {s}, !.todo = c.todo \ {s}]
  <2>2. x.at = "compile" /\ x.by = c.by /\ x.on = {s} /\ x.todo = c.todo \ {s}
    BY DEF Idle
  <2>3. Place(p)'
    BY <1>0, <2>1, <2>2 DEF Place
  <2>4. call' = [call EXCEPT ![p] = x]
    BY <2>1
  <2>5. x.todo \cup x.on \subseteq Held(p)
    BY <1>0, <2>1, <2>2
  <2>6. /\ (\A u, v \in x.on : u = v) /\ (\A j, k \in x.by : j = k)
        /\ c.at # "idle" /\ x.at # "idle"
    BY <1>0, <1>1, <2>2 DEF NextSource
  <2> HIDE DEF x
  <2>. QED BY <1>1, <2>3, <2>4, <2>5, <2>6, OwnStep DEF NextSource
<1>2. ASSUME Returns(p), c.at # "idle",
             UNCHANGED <<job, begun, cache, answers, ledger, decision, note, mode>>
      PROVE  KeepInv'
  <2>1. Idle.at = "idle" /\ Idle.by = {} /\ Idle.todo = {} /\ Idle.on = {}
    BY DEF Idle
  <2>2. Place(p)'
    BY <1>0, <1>2, <2>1 DEF Place, Returns
  <2>. QED BY <1>2, <2>1, <2>2, OwnStep DEF Returns
<1>3. ASSUME NEW l \in {"next", "plan"}, Goto(p, l), c.at # "idle",
             l = "plan" => c.at = "match",
             UNCHANGED <<job, begun, cache, answers, ledger, decision, note, mode>>
      PROVE  KeepInv'
  <2> DEFINE x == [c EXCEPT !.at = l]
  <2>1. x.at = l /\ x.by = c.by /\ x.todo = c.todo /\ x.on = c.on /\ x.text = c.text
    BY <1>0 DEF CallRecord
  <2>2. call' = [call EXCEPT ![p] = x]
    BY <1>3 DEF Goto
  <2>3. Place(p)'
    BY <1>0, <1>3, <2>1, <2>2 DEF Place, KeepInv
  <2>4. /\ x.at # "idle" /\ x.todo \cup x.on \subseteq Held(p)
        /\ (\A s, t \in x.on : s = t) /\ \A j, k \in x.by : j = k
    BY <1>0, <1>3, <2>1
  <2> HIDE DEF x
  <2>. QED BY <1>3, <2>2, <2>3, <2>4, OwnStep
<1>4. ASSUME LookUp(p) PROVE KeepInv'
  <2>1. PICK s \in c.on :
          call' = [call EXCEPT ![p] = [@ EXCEPT !.text = Cached(p, s),
                                       !.at = IF Cached(p, s) = {} THEN "ask" ELSE "match"]]
    BY <1>4 DEF LookUp
  <2>2. PICK m : m = Cached(p, s)
    OBVIOUS
  <2> DEFINE x == [c EXCEPT !.text = m, !.at = IF m = {} THEN "ask" ELSE "match"]
  <2>3. /\ x.at = IF m = {} THEN "ask" ELSE "match"
        /\ x.by = c.by /\ x.todo = c.todo /\ x.on = c.on /\ x.text = m
    BY <1>0 DEF CallRecord
  <2>4. call' = [call EXCEPT ![p] = x]
    BY <2>1, <2>2
  <2>5. Answered(s) /\ s \in Held(p) /\ s \in Sources
    BY <1>0, <2>1 DEF KeepInv
  <2>6. m = {} => \A k \in c.by : k \notin answers[s]
    BY <2>2, <2>5 DEF Answered, Cached
  <2>7. m \subseteq cache[s] /\ \A e, f \in m : e = f
    <3>1. m \subseteq cache[s]
      BY <2>2 DEF Cached
    <3>2. ASSUME NEW e \in m PROVE e.id[1] = s /\ e.id[2] \in c.by /\ e.id = <<e.id[1], e.id[2]>>
      BY <2>2, <2>5 DEF Answered, Cached
    <3>3. ASSUME NEW e \in m, NEW f \in m PROVE e = f
      <4>1. e.id[2] = f.id[2]
        BY <1>0, <3>2
      <4>2. e.id = f.id
        BY <3>2, <4>1
      <4>. QED BY <2>5, <3>1, <4>2 DEF Answered
    <3>. QED BY <3>1, <3>3
  <2>8. \A t \in x.on : t = s
    BY <1>0, <2>1, <2>3
  <2>9. call'[p] = x
    BY <1>0, <2>4
  <2> HIDE DEF x
  <2>10. Place(p)'
    BY <1>4, <2>3, <2>6, <2>7, <2>8, <2>9 DEF Place, LookUp
  <2>11. /\ (\A u, v \in x.on : u = v) /\ (\A j, k \in x.by : j = k)
         /\ c.at # "idle" /\ x.at # "idle" /\ x.todo \cup x.on \subseteq Held(p)
    BY <1>0, <1>4, <2>3 DEF LookUp
  <2>. QED BY <1>4, <2>4, <2>10, <2>11, OwnStep DEF LookUp
<1>5. ASSUME NEW x, call' = [call EXCEPT ![p] = x], c.at \in {"match", "hash"},
             x.at \in {"hash", "plan"}, x.by = c.by, x.todo = c.todo, x.on = c.on,
             x.text = c.text,
             UNCHANGED <<job, begun, cache, answers, ledger, decision, note, mode>>
      PROVE  KeepInv'
  <2>1. Place(p)'
    BY <1>0, <1>5 DEF Place, KeepInv
  <2>2. /\ (\A u, v \in x.on : u = v) /\ (\A j, k \in x.by : j = k)
        /\ c.at # "idle" /\ x.at # "idle" /\ x.todo \cup x.on \subseteq Held(p)
    BY <1>0, <1>5
  <2>. QED BY <1>5, <2>1, <2>2, OwnStep
<1>5a. ASSUME Match(p) PROVE KeepInv'
  <2>1. PICK e \in c.text :
          \/ Goto(p, "plan")
          \/ \E i \in Same(e) : call' = [call EXCEPT ![p] = [c EXCEPT !.same = {i},
               !.at = IF concept[i] = Meaning[e.id] THEN "plan" ELSE "hash"]]
    BY <1>5a DEF Match
  <2>2. CASE Goto(p, "plan")
    BY <1>3, <1>5a, <2>2 DEF Match
  <2>3. ASSUME NEW i, NEW l \in {"plan", "hash"},
               call' = [call EXCEPT ![p] = [c EXCEPT !.same = {i}, !.at = l]]
        PROVE  KeepInv'
    <3>1. PICK x : x = [c EXCEPT !.same = {i}, !.at = l]
      OBVIOUS
    <3>2. x.at = l /\ x.by = c.by /\ x.todo = c.todo /\ x.on = c.on /\ x.text = c.text
      BY <1>0, <3>1 DEF CallRecord
    <3>. QED BY <1>5, <1>5a, <2>3, <3>1, <3>2 DEF Match
  <2>. QED BY <2>1, <2>2, <2>3
<1>5b. ASSUME HashNote(p) PROVE KeepInv'
  <2>1. PICK m : call' = [call EXCEPT ![p] = [c EXCEPT !.at = "plan", !.proposal = m]]
    BY <1>5b DEF HashNote
  <2>2. PICK x : x = [c EXCEPT !.at = "plan", !.proposal = m]
    OBVIOUS
  <2>3. x.at = "plan" /\ x.by = c.by /\ x.todo = c.todo /\ x.on = c.on /\ x.text = c.text
    BY <1>0, <2>2 DEF CallRecord
  <2>. QED BY <1>5, <1>5b, <2>1, <2>2, <2>3 DEF HashNote
<1>6. ASSUME Plan(p) PROVE KeepInv'
  <2>1. PICK s \in c.on, e \in c.text :
          call' = [call EXCEPT ![p] = [c EXCEPT !.at = "apply",
            !.ledger = ledger[s], !.record = {record[s]},
            !.read = {<<i, note[i]>> : i \in {j \in e.supersedes : decision[j] # "absent"}}]]
    BY <1>6 DEF Plan
  <2> DEFINE x == [c EXCEPT !.at = "apply", !.ledger = ledger[s], !.record = {record[s]},
            !.read = {<<i, note[i]>> : i \in {j \in e.supersedes : decision[j] # "absent"}}]
  <2>2. /\ x.at = "apply" /\ x.by = c.by /\ x.todo = c.todo /\ x.on = c.on /\ x.text = c.text
        /\ x.ledger = ledger[s]
        /\ x.read = {<<i, note[i]>> : i \in {j \in e.supersedes : decision[j] # "absent"}}
    BY <1>0 DEF CallRecord
  <2>3. call' = [call EXCEPT ![p] = x]
    BY <2>1
  <2>4. call'[p] = x
    BY <1>0, <2>3
  <2>5. c.text \subseteq cache[s] /\ \A f, g \in c.text : f = g
    BY <1>6, <2>1 DEF KeepInv, Place, Plan
  <2>6. s \in Sources
    BY <1>0, <2>1
  <2>7. \A f \in c.text : f = e /\ \A i \in f.supersedes : decision[i] # "absent"
    BY <2>1, <2>5, <2>6 DEF KeepInv, Answered
  <2> HIDE DEF x
  <2>8. {r[1] : r \in x.read} = e.supersedes
    <3>1. x.read = {<<i, note[i]>> : i \in e.supersedes}
      BY <2>1, <2>2, <2>7
    <3>2. ASSUME NEW i \in e.supersedes PROVE i \in {r[1] : r \in x.read}
      <4>1. <<i, note[i]>> \in x.read /\ <<i, note[i]>>[1] = i
        BY <3>1
      <4>. QED BY <4>1
    <3>3. ASSUME NEW r \in x.read PROVE r[1] \in e.supersedes
      BY <3>1
    <3>. QED BY <3>2, <3>3
  <2>9. Place(p)'
    <3>1. \A t \in x.on : t = s
      BY <1>0, <2>1, <2>2
    <3>2. x.ledger # {} => \A t \in x.on : ledger'[t] # {}
      BY <1>6, <2>2, <3>1 DEF Plan
    <3>3. \A t \in x.on : x.text \subseteq cache'[t]
      BY <1>6, <2>2, <2>5, <3>1 DEF Plan
    <3>4. \A f \in x.text : {r[1] : r \in x.read} = f.supersedes
      BY <2>2, <2>7, <2>8
    <3>5. \A f, g \in x.text : f = g
      BY <2>2, <2>5
    <3>. QED BY <2>2, <2>4, <3>2, <3>3, <3>4, <3>5 DEF Place
  <2>10. /\ x.at # "idle" /\ x.todo \cup x.on \subseteq Held(p)
         /\ (\A t, u \in x.on : t = u) /\ \A k, l \in x.by : k = l
    BY <1>0, <2>2
  <2>. QED BY <1>6, <2>3, <2>9, <2>10, OwnStep DEF Plan
<1>7. CASE EgressBlocked(p) \/ NeedsAi(p) \/ Stage(p)
  BY <1>3, <1>7 DEF EgressBlocked, NeedsAi, Stage
<1>8. CASE Finished(p) \/ ApplyRefused(p) \/ Raise(p) \/ RebuildFails(p) \/ Rebuilt(p)
  BY <1>2, <1>8 DEF Finished, ApplyRefused, Raise, RebuildFails, Rebuilt
<1>. QED BY <1>1, <1>4, <1>5a, <1>5b, <1>6, <1>7, <1>8

\* A compilation begins with sources that no other works on.
LEMMA BeginKeeps ==
  ASSUME TypeOK, KeepInv, NEW p \in Procs, NEW todo, NEW k, Free(p),
         call' = [call EXCEPT ![p] = [Idle EXCEPT !.at = "next", !.by = {k}, !.todo = todo]],
         \/ /\ p = Daemon /\ todo = job /\ begun' = begun
         \/ /\ p \in Commands /\ begun' = begun \cup todo
            /\ \E s \in Sources : todo = {s} /\ s \notin Queued \cup begun,
         UNCHANGED <<job, cache, answers, ledger, decision, note, mode>>
  PROVE  KeepInv'
<1> DEFINE x == [Idle EXCEPT !.at = "next", !.by = {k}, !.todo = todo]
<1>1. x.at = "next" /\ x.by = {k} /\ x.todo = todo /\ x.on = {}
  BY DEF Idle
<1>2. call' = [call EXCEPT ![p] = x]
  OBVIOUS
<1> HIDE DEF x
<1>3. call'[p] = x /\ \A q \in Procs : q # p => call'[q] = call[q]
  BY <1>2 DEF TypeOK
<1>4. Held(p)' = todo /\ \A q \in Procs : q # p => Held(q)' = Held(q)
  BY <1>1, <1>3 DEF Held
<1>5. Turns'
  <2>1. Held(Daemon)' \subseteq Queued
    <3>1. job \subseteq Queued /\ Held(Daemon) \subseteq Queued /\ Daemon \in Procs
      BY DEF TypeOK, KeepInv, Turns, Procs
    <3>. QED BY <1>4, <3>1, ProcAssumption
  <2>2. \A q \in Commands : Held(q)' \subseteq begun' \ Queued
    BY <1>4, ProcAssumption DEF KeepInv, Turns, Procs
  <2>3. ASSUME NEW q \in Commands, NEW r \in Commands, q # r
        PROVE  Held(q)' \cap Held(r)' = {}
    BY <1>4, <2>3, ProcAssumption DEF KeepInv, Turns, Procs
  <2>4. ASSUME NEW q \in Procs
        PROVE  /\ call'[q].at = "idle" => Held(q)' = {}
               /\ \A s, u \in call'[q].on : s = u
               /\ \A l, m \in call'[q].by : l = m
    <3>1. CASE q = p
      <4>1. call'[q] = x
        BY <1>3, <3>1
      <4>2. call'[q].at = "next" /\ call'[q].on = {} /\ call'[q].by = {k}
        BY <1>1, <4>1
      <4>. QED BY <4>2
    <3>2. CASE q # p
      BY <1>3, <1>4, <3>2 DEF KeepInv, Turns
    <3>. QED BY <3>1, <3>2
  <2>5. mode' = "alone" =>
          \A q, r \in Procs : call'[q].at # "idle" /\ call'[r].at # "idle" => q = r
    BY <1>3 DEF Free, Quiet
  <2>. QED BY <2>1, <2>2, <2>3, <2>4, <2>5 DEF Turns
<1>6. ASSUME NEW s \in Sources PROVE Answered(s)'
  <2>1. Answered(s)
    BY DEF KeepInv
  <2>2. begun \subseteq begun'
    OBVIOUS
  <2>3. ASSUME s \notin job, \A q \in Procs : s \notin Held(q), s \in Held(p)'
        PROVE  answers[s] = {}
    BY <1>4, <2>1, <2>3 DEF Answered
  <2>4. ASSUME NEW l \in answers[s], ~ \E e \in cache[s] : e.id = <<s, l>>
        PROVE  s \notin job /\ \A q \in Procs : s \notin Held(q)'
    <3>1. s \notin job /\ \A q \in Procs : s \notin Held(q)
      BY <2>1, <2>4 DEF Answered
    <3>2. s \notin Held(p)'
      BY <2>3, <2>4, <3>1
    <3>. QED BY <1>4, <3>1, <3>2
  <2>. QED BY <2>1, <2>2, <2>4 DEF Answered
<1>7. ASSUME NEW q \in Procs PROVE Place(q)'
  <2>1. CASE q = p
    BY <1>1, <1>3, <2>1 DEF Place
  <2>2. CASE q # p
    BY <1>3, <2>2 DEF KeepInv, Place
  <2>. QED BY <2>1, <2>2
<1>8. NoteShowsRow'
  BY DEF KeepInv, NoteShowsRow
<1>. QED BY <1>5, <1>6, <1>7, <1>8 DEF KeepInv

\* An answer is the first of its provider about its source.
LEMMA AskKeeps ==
  ASSUME TypeOK, KeepInv, NEW p \in Procs, Ask(p)
  PROVE  KeepInv'
<1> DEFINE c == call[p]
<1>0. /\ c \in CallRecord /\ call \in [Procs -> CallRecord]
      /\ \A s, t \in c.on : s = t
      /\ c.on \subseteq Held(p) /\ Held(p) \subseteq Sources
  BY HeldSources DEF TypeOK, KeepInv, Turns, Held
<1>1. PICK s \in c.on, k \in c.by :
        /\ answers' = [answers EXCEPT ![s] = @ \cup {k}]
        /\ \E e \in {[id |-> <<s, k>>, supersedes |-> old] : old \in Known(s)} :
             /\ cache' = [cache EXCEPT ![s] = @ \cup {e}]
             /\ call' = [call EXCEPT ![p] = [c EXCEPT !.at = "match", !.text = {e}]]
  BY DEF Ask
<1>2. PICK e \in {[id |-> <<s, k>>, supersedes |-> old] : old \in Known(s)} :
        /\ cache' = [cache EXCEPT ![s] = @ \cup {e}]
        /\ call' = [call EXCEPT ![p] = [c EXCEPT !.at = "match", !.text = {e}]]
  BY <1>1
<1> DEFINE x == [c EXCEPT !.at = "match", !.text = {e}]
<1>3. /\ s \in Sources /\ s \in Held(p) /\ Answered(s) /\ k \notin answers[s]
      /\ k \in Providers /\ <<s, k>> \in Id /\ <<s, k>> \in {s} \X Providers
  BY <1>0, <1>1 DEF KeepInv, Place, Ask, CallRecord, Id
<1>4. e.id = <<s, k>> /\ e.supersedes \in Known(s)
  BY <1>2
<1>5. \A i \in e.supersedes : i # <<s, k>> /\ decision[i] # "absent"
  <2>1. \A i \in e.supersedes : i \in Id /\ decision[i] # "absent"
    BY <1>4 DEF Known
  <2>2. decision[<<s, k>>] = "absent"
    BY <1>3 DEF Answered
  <2>. QED BY <2>1, <2>2
<1>6. x.at = "match" /\ x.by = c.by /\ x.todo = c.todo /\ x.on = c.on /\ x.text = {e}
  BY <1>0 DEF CallRecord
<1>7. call' = [call EXCEPT ![p] = x]
  BY <1>2
<1> HIDE DEF x
<1>8. /\ cache'[s] = cache[s] \cup {e} /\ answers'[s] = answers[s] \cup {k}
      /\ \A t \in Sources : t # s => cache'[t] = cache[t] /\ answers'[t] = answers[t]
  BY <1>1, <1>2, <1>3 DEF TypeOK
<1>9. call'[p] = x /\ \A q \in Procs : q # p => call'[q] = call[q]
  BY <1>0, <1>7
<1>10. /\ UNCHANGED <<job, begun, ledger, decision, note, mode>>
       /\ \A q \in Procs : Held(q)' = Held(q)
  BY <1>6, <1>9 DEF Ask, knowledge, others, Held
<1>11. Turns'
  <2>1. /\ Held(Daemon)' \subseteq Queued
        /\ \A q \in Commands : Held(q)' \subseteq begun' \ Queued
        /\ \A q, r \in Commands : q # r => Held(q)' \cap Held(r)' = {}
    BY <1>10 DEF KeepInv, Turns, Procs
  <2>2. \A q \in Procs : /\ call'[q].at = "idle" => Held(q)' = {}
                         /\ call'[q].on = call[q].on /\ call'[q].by = call[q].by
    BY <1>0, <1>6, <1>9, <1>10 DEF KeepInv, Turns
  <2>3. mode' = "alone" =>
          \A q, r \in Procs : call'[q].at # "idle" /\ call'[r].at # "idle" => q = r
    BY <1>9, <1>10 DEF KeepInv, Turns, Ask
  <2>. QED BY <2>1, <2>2, <2>3 DEF KeepInv, Turns
<1>12. ASSUME NEW t \in Sources PROVE Answered(t)'
  <2>1. CASE t = s
    <3>1. s \in Queued \cup begun
      BY <1>3 DEF KeepInv, Turns, Procs
    <3>2. \A f \in cache[s] \cup ledger[s] : f.id \in {s} \X answers[s]
      BY <1>3 DEF Answered
    <3>3. \A f \in cache'[s] \cup ledger'[s] : f.id \in {s} \X answers'[s]
      BY <1>4, <1>8, <1>10, <3>2
    <3>4. \A f \in cache[s] : f.id # e.id
      BY <1>3, <1>4, <3>2
    <3>5. \A f, g \in cache'[s] : f.id = g.id => f = g
      BY <1>3, <1>8, <3>4 DEF Answered
    <3>6. \A f \in cache'[s] : \A i \in f.supersedes : i # f.id /\ decision'[i] # "absent"
      BY <1>3, <1>4, <1>5, <1>8, <1>10 DEF Answered
    <3>7. \A i \in {s} \X Providers :
            decision'[i] # "absent" => i[2] \in answers'[s] /\ ledger'[s] # {}
      BY <1>3, <1>8, <1>10 DEF Answered
    <3>8. \A l \in answers'[s] :
            \/ \E f \in cache'[s] : f.id = <<s, l>>
            \/ s \notin job' /\ \A q \in Procs : s \notin Held(q)'
      BY <1>3, <1>4, <1>8, <1>10 DEF Answered
    <3>9. \A f, g \in ledger'[s] : f = g
      BY <1>3, <1>10 DEF Answered
    <3>. QED BY <1>10, <2>1, <3>1, <3>3, <3>5, <3>6, <3>7, <3>8, <3>9 DEF Answered
  <2>2. CASE t # s
    BY <1>8, <1>10, <2>2 DEF KeepInv, Answered
  <2>. QED BY <2>1, <2>2
<1>13. ASSUME NEW q \in Procs PROVE Place(q)'
  <2>1. CASE q = p
    <3>1. \A t \in x.on : x.text \subseteq cache'[t]
      BY <1>0, <1>1, <1>6, <1>8
    <3>2. \A f, g \in x.text : f = g
      BY <1>6
    <3>. QED BY <1>6, <1>9, <2>1, <3>1, <3>2 DEF Place
  <2>2. CASE q # p
    <3>1. Held(q) \cap Held(p) = {} /\ call[q].on \subseteq Held(q) /\ Held(q) \subseteq Sources
      BY <2>2, Apart, HeldSources DEF KeepInv, Held
    <3>2. \A t \in call[q].on : t \in Sources /\ t # s
      BY <1>0, <1>1, <3>1
    <3>3. \A t \in call[q].on : cache'[t] = cache[t] /\ answers'[t] = answers[t]
      BY <1>8, <3>2
    <3>4. Place(q) /\ call'[q] = call[q]
      BY <1>9, <2>2 DEF KeepInv
    <3>. QED BY <1>10, <3>3, <3>4 DEF Place
  <2>. QED BY <2>1, <2>2
<1>14. NoteShowsRow'
  BY <1>10 DEF KeepInv, NoteShowsRow
<1>. QED BY <1>11, <1>12, <1>13, <1>14 DEF KeepInv

\* The main operation: there is a ledger of its source then; the notes of the predecessors
\* that it read are those whose rows it updates.
LEMMA ApplyKeeps ==
  ASSUME TypeOK, KeepInv, NEW p \in Procs, Apply(p)
  PROVE  KeepInv'
<1> DEFINE c == call[p]
           x == [c EXCEPT !.at = "stage"]
<1>0. /\ c \in CallRecord /\ call \in [Procs -> CallRecord]
      /\ \A s, t \in c.on : s = t
      /\ c.on \subseteq Held(p) /\ Held(p) \subseteq Sources
      /\ c.at = "apply"
  BY HeldSources DEF TypeOK, KeepInv, Turns, Held, Apply
<1>1. PICK s \in c.on, e \in c.text :
        /\ decision' = Inserted(e)
        /\ note' = Noted(p, e)
        /\ ledger' = [ledger EXCEPT ![s] = Ledger(p, s, e)]
  BY DEF Apply
<1>2. /\ call' = [call EXCEPT ![p] = x]
      /\ UNCHANGED <<job, begun, cache, answers, mode>>
  BY DEF Apply, Goto, others
<1>3. x.at = "stage" /\ x.by = c.by /\ x.todo = c.todo /\ x.on = c.on
  BY <1>0 DEF CallRecord
<1> HIDE DEF x
<1>4. /\ call'[p] = x /\ \A q \in Procs : q # p => call'[q] = call[q]
      /\ \A q \in Procs : Held(q)' = Held(q)
  BY <1>0, <1>2, <1>3 DEF Held
<1>5. s \in Sources /\ Answered(s) /\ e \in cache[s] /\ e.id \in {s} \X answers[s] /\ e.id \in Id
  BY <1>0, <1>1 DEF KeepInv, Place, Answered, CallRecord, Extraction
<1>6. /\ {r[1] : r \in c.read} = e.supersedes
      /\ c.ledger # {} => ledger[s] # {}
      /\ \A i \in e.supersedes : i # e.id /\ decision[i] # "absent"
  BY <1>0, <1>1, <1>5 DEF KeepInv, Place, Answered
<1>7. /\ ledger'[s] # {} /\ \A f \in ledger'[s] : f.id \in {s} \X answers[s]
      /\ \A f, g \in ledger'[s] : f = g
      /\ \A t \in Sources : t # s => ledger'[t] = ledger[t]
  <2>1. PICK l : l = Ledger(p, s, e)
    OBVIOUS
  <2>2. l = {e} \/ (l = ledger[s] /\ ledger[s] # {})
    BY <1>6, <2>1 DEF Ledger
  <2>3. l # {} /\ (\A f \in l : f.id \in {s} \X answers[s]) /\ \A f, g \in l : f = g
    BY <1>5, <2>2 DEF Answered
  <2>4. ledger'[s] = l /\ \A t \in Sources : t # s => ledger'[t] = ledger[t]
    BY <1>1, <1>5, <2>1 DEF TypeOK
  <2>. QED BY <2>3, <2>4
<1>8. \A i \in Id : decision'[i] # "absent" <=> decision[i] # "absent" \/ i = e.id
  BY <1>1, <1>5, <1>6 DEF Inserted
<1>9. Turns'
  <2>1. /\ Held(Daemon)' \subseteq Queued
        /\ \A q \in Commands : Held(q)' \subseteq begun' \ Queued
        /\ \A q, r \in Commands : q # r => Held(q)' \cap Held(r)' = {}
    BY <1>2, <1>4 DEF KeepInv, Turns, Procs
  <2>2. \A q \in Procs : /\ call'[q].at = "idle" => Held(q)' = {}
                         /\ call'[q].on = call[q].on /\ call'[q].by = call[q].by
    BY <1>0, <1>3, <1>4 DEF KeepInv, Turns
  <2>3. mode' = "alone" =>
          \A q, r \in Procs : call'[q].at # "idle" /\ call'[r].at # "idle" => q = r
    BY <1>0, <1>2, <1>4 DEF KeepInv, Turns
  <2>. QED BY <2>1, <2>2, <2>3 DEF KeepInv, Turns
<1>10. ASSUME NEW t \in Sources PROVE Answered(t)'
  <2>1. Answered(t) /\ \A f \in cache[t] : f.supersedes \subseteq Id
    BY DEF KeepInv, TypeOK, Extraction
  <2>2. \A f \in cache[t] : \A i \in f.supersedes : i # f.id /\ decision'[i] # "absent"
    BY <1>8, <2>1 DEF Answered
  <2>3. \A f \in cache[t] \cup ledger'[t] : f.id \in {t} \X answers[t]
    BY <1>7, <2>1 DEF Answered
  <2>4. \A f, g \in ledger'[t] : f = g
    BY <1>7, <2>1 DEF Answered
  <2>5. ASSUME NEW i \in {t} \X Providers, decision'[i] # "absent"
        PROVE  i[2] \in answers[t] /\ ledger'[t] # {}
    <3>1. i \in Id /\ i[1] = t
      BY DEF Id
    <3>2. CASE i = e.id
      <4>1. t = s
        BY <1>5, <3>1, <3>2
      <4>. QED BY <1>5, <1>7, <3>2, <4>1
    <3>3. CASE i # e.id
      BY <1>7, <1>8, <2>1, <2>5, <3>1, <3>3 DEF Answered
    <3>. QED BY <3>2, <3>3
  <2>. QED BY <1>2, <1>4, <2>1, <2>2, <2>3, <2>4, <2>5 DEF Answered
<1>11. ASSUME NEW q \in Procs PROVE Place(q)'
  <2>1. CASE q = p
    BY <1>3, <1>4, <2>1 DEF Place
  <2>2. CASE q # p
    <3>1. Place(q) /\ call'[q] = call[q] /\ call[q].on \subseteq Sources
      BY <1>4, <2>2 DEF KeepInv, TypeOK, CallRecord
    <3>2. call[q].at = "replay" => mode # "alone"
      BY <1>0, <2>2 DEF KeepInv, Turns
    <3>3. \A t \in Sources : ledger[t] # {} => ledger'[t] # {}
      BY <1>7
    <3>. QED BY <1>2, <3>1, <3>2, <3>3 DEF Place
  <2>. QED BY <2>1, <2>2
<1>12. NoteShowsRow'
  <2> SUFFICES ASSUME mode = "beside" PROVE note' = decision'
    BY <1>2 DEF NoteShowsRow
  <2>1. \A i \in Id : (\E r \in c.read : r[1] = i) <=> i \in e.supersedes
    BY <1>6
  <2>2. note = decision
    BY DEF KeepInv, NoteShowsRow
  <2>3. \A i \in Id : Noted(p, e)[i] = Inserted(e)[i]
    BY <1>6, <2>1, <2>2 DEF Noted, Inserted
  <2>. QED BY <1>1, <2>3 DEF Noted, Inserted
<1>. QED BY <1>9, <1>10, <1>11, <1>12 DEF KeepInv

\* A rebuild forgets the answers and the jobs together, and brings back what ledgers
\* hold.
LEMMA RebuildKeeps ==
  ASSUME TypeOK, KeepInv, NEW p \in Procs, BeginRebuild(p) \/ ReplayDecision(p)
  PROVE  KeepInv'
<1> DEFINE c == call[p]
<1>0. c \in CallRecord /\ call \in [Procs -> CallRecord]
  BY DEF TypeOK
<1>1. CASE BeginRebuild(p)
  <2> DEFINE x == [Idle EXCEPT !.at = "replay", !.text = UNION {ledger[s] : s \in Sources}]
  <2>1. /\ x.at = "replay" /\ x.by = {} /\ x.todo = {} /\ x.on = {}
        /\ x.text = UNION {ledger[s] : s \in Sources}
    BY DEF Idle
  <2>2. /\ call' = [call EXCEPT ![p] = x] /\ mode = "alone" /\ Quiet
        /\ UNCHANGED <<begun, answers, ledger, note, mode>>
        /\ job' = {} /\ cache' = [s \in Sources |-> {}]
        /\ decision' = [i \in Id |-> "absent"]
    BY <1>1 DEF BeginRebuild, Free
  <2> HIDE DEF x
  <2>3. call'[p] = x /\ \A q \in Procs : q # p => call'[q] = call[q]
    BY <1>0, <2>2
  <2>4. \A q \in Procs : Held(q)' = {} /\ Held(q) = {}
    BY <2>1, <2>2, <2>3 DEF Quiet, KeepInv, Turns, Held
  <2>5. Turns'
    <3>1. ASSUME NEW q \in Procs
          PROVE  (\A s, t \in call'[q].on : s = t) /\ \A k, l \in call'[q].by : k = l
      <4>1. call'[q].on = {} /\ (q # p => call'[q].by = call[q].by)
        BY <2>3, <2>4 DEF Held
      <4>2. q = p => call'[q].by = {}
        BY <2>1, <2>3
      <4>. QED BY <4>1, <4>2 DEF KeepInv, Turns
    <3>2. \A q, r \in Procs : call'[q].at # "idle" /\ call'[r].at # "idle" => q = r
      BY <2>2, <2>3 DEF Quiet
    <3>. QED BY <2>4, <3>1, <3>2 DEF Turns, Procs
  <2>6. ASSUME NEW s \in Sources PROVE Answered(s)'
    <3>1. Answered(s) /\ cache'[s] = {} /\ \A i \in {s} \X Providers : i \in Id
      BY <2>2 DEF KeepInv, Id
    <3>. QED BY <2>2, <2>4, <3>1 DEF Answered
  <2>7. ASSUME NEW q \in Procs PROVE Place(q)'
    <3>1. CASE q = p
      BY <2>1, <2>2, <2>3, <3>1 DEF Place
    <3>2. CASE q # p
      BY <2>2, <2>3, <3>2 DEF Place, Quiet
    <3>. QED BY <3>1, <3>2
  <2>8. NoteShowsRow'
    BY <2>2 DEF NoteShowsRow
  <2>. QED BY <2>5, <2>6, <2>7, <2>8 DEF KeepInv
<1>2. CASE ReplayDecision(p)
  <2>1. PICK e \in c.text : /\ Ready(e) /\ decision' = Inserted(e)
                            /\ call' = [call EXCEPT ![p].text = @ \ {e}]
    BY <1>2 DEF ReplayDecision
  <2> DEFINE x == [c EXCEPT !.text = c.text \ {e}]
  <2>2. /\ x.at = "replay" /\ x.by = c.by /\ x.todo = c.todo /\ x.on = c.on
        /\ x.text = c.text \ {e}
        /\ c.at = "replay"
    BY <1>0, <1>2 DEF CallRecord, ReplayDecision
  <2>3. /\ call' = [call EXCEPT ![p] = x]
        /\ UNCHANGED <<job, begun, cache, answers, ledger, note, mode>>
    BY <1>2, <2>1 DEF ReplayDecision, others
  <2> HIDE DEF x
  <2>4. /\ call'[p] = x /\ \A q \in Procs : q # p => call'[q] = call[q]
        /\ \A q \in Procs : Held(q)' = Held(q)
    BY <1>0, <2>2, <2>3 DEF Held
  <2>5. /\ mode = "alone" /\ e \in Extraction
        /\ \E s \in Sources : e \in ledger[s]
    BY <1>0, <2>1, <2>2 DEF KeepInv, Place, CallRecord
  <2>6. \A i \in Id : decision'[i] # "absent" <=> decision[i] # "absent" \/ i = e.id
    BY <2>1 DEF Inserted, Ready
  <2>7. Turns'
    <3>1. /\ Held(Daemon)' \subseteq Queued
          /\ \A q \in Commands : Held(q)' \subseteq begun' \ Queued
          /\ \A q, r \in Commands : q # r => Held(q)' \cap Held(r)' = {}
      BY <2>3, <2>4 DEF KeepInv, Turns, Procs
    <3>2. \A q \in Procs : /\ call'[q].at = "idle" => Held(q)' = {}
                           /\ call'[q].on = call[q].on /\ call'[q].by = call[q].by
      BY <2>2, <2>4 DEF KeepInv, Turns
    <3>3. \A q, r \in Procs : call'[q].at # "idle" /\ call'[r].at # "idle" => q = r
      BY <2>2, <2>4, <2>5 DEF KeepInv, Turns
    <3>. QED BY <3>1, <3>2, <3>3 DEF KeepInv, Turns
  <2>8. ASSUME NEW s \in Sources PROVE Answered(s)'
    <3>1. Answered(s) /\ \A f \in cache[s] : f.supersedes \subseteq Id
      BY DEF KeepInv, TypeOK, Extraction
    <3>2. \A f \in cache[s] : \A i \in f.supersedes : i # f.id /\ decision'[i] # "absent"
      BY <2>6, <3>1 DEF Answered
    <3>3. ASSUME NEW i \in {s} \X Providers, decision'[i] # "absent"
          PROVE  i[2] \in answers[s] /\ ledger[s] # {}
      <4>1. i \in Id /\ i[1] = s
        BY DEF Id
      <4>2. CASE i = e.id
        <5>1. PICK t \in Sources : e \in ledger[t]
          BY <2>5
        <5>2. e.id \in {t} \X answers[t]
          BY <5>1 DEF KeepInv, Answered
        <5>. QED BY <4>1, <4>2, <5>1, <5>2
      <4>3. CASE i # e.id
        BY <2>6, <3>1, <3>3, <4>1, <4>3 DEF Answered
      <4>. QED BY <4>2, <4>3
    <3>. QED BY <2>3, <2>4, <3>1, <3>2, <3>3 DEF Answered
  <2>9. ASSUME NEW q \in Procs PROVE Place(q)'
    <3>1. Place(q)
      BY DEF KeepInv
    <3>2. CASE q = p
      BY <2>2, <2>3, <2>4, <3>1, <3>2 DEF Place
    <3>3. CASE q # p
      BY <2>3, <2>4, <3>1, <3>3 DEF Place
    <3>. QED BY <3>2, <3>3
  <2>10. NoteShowsRow'
    BY <2>3, <2>5 DEF NoteShowsRow
  <2>. QED BY <2>7, <2>8, <2>9, <2>10 DEF KeepInv
<1>. QED BY <1>1, <1>2

LEMMA Keep == Spec => []KeepInv
<1>1. Init => KeepInv
  <2> SUFFICES ASSUME Init PROVE KeepInv
    OBVIOUS
  <2>1. \A p \in Procs : /\ call[p].at = "idle" /\ call[p].todo = {} /\ call[p].on = {}
                         /\ call[p].by = {} /\ Held(p) = {}
    BY DEF Init, Idle, Held
  <2>2. Turns
    BY <2>1 DEF Turns, Procs
  <2>3. \A s \in Sources : Answered(s)
    BY <2>1 DEF Init, Answered, Id
  <2>4. \A p \in Procs : Place(p)
    BY <2>1 DEF Place
  <2>. QED BY <2>2, <2>3, <2>4 DEF Init, KeepInv, NoteShowsRow
<1>2. TypeOK /\ KeepInv /\ [Next]_vars => KeepInv'
  <2> SUFFICES ASSUME TypeOK, KeepInv, [Next]_vars PROVE KeepInv'
    OBVIOUS
  <2>1. Daemon \in Procs
    BY DEF Procs
  <2>2. ASSUME UNCHANGED <<job, begun, cache, answers, ledger, decision, note, mode, call>>
        PROVE  KeepInv'
    <3>1. Turns' /\ NoteShowsRow'
      BY <2>2 DEF KeepInv, Turns, Held, NoteShowsRow
    <3>2. \A s \in Sources : Answered(s)'
      BY <2>2 DEF KeepInv, Answered, Held
    <3>3. \A p \in Procs : Place(p)'
      BY <2>2 DEF KeepInv, Place
    <3>. QED BY <3>1, <3>2, <3>3 DEF KeepInv
  <2>3. CASE BeginNight
    BY <2>1, <2>3, BeginKeeps DEF BeginNight, JobsToRetry, knowledge, others
  <2>4. ASSUME NEW p \in Procs, NEW s \in Sources, BeginCommand(p, s)
        PROVE  KeepInv'
    BY <2>4, BeginKeeps DEF BeginCommand, knowledge
  <2>5. ASSUME NEW p \in Procs, BeginRebuild(p) \/ Replay(p)
        PROVE  KeepInv'
    BY <2>5, RebuildKeeps, ReadingKeeps DEF Replay
  <2>6. ASSUME NEW p \in Procs, Compile(p) \/ NeedsAi(p) \/ Raise(p)
        PROVE  KeepInv'
    BY <2>6, ReadingKeeps, AskKeeps, ApplyKeeps DEF Compile
  <2>7. ASSUME NEW r \in proposals, Approve(r) \/ Reject(r)
        PROVE  KeepInv'
    BY <2>2, <2>7 DEF Approve, Reject, knowledge, others
  <2>8. CASE UNCHANGED vars
    BY <2>2, <2>8 DEF vars, knowledge, others
  <2>. QED BY <2>3, <2>4, <2>5, <2>6, <2>7, <2>8 DEF Next
<1>. QED BY <1>1, <1>2, Types, PTL DEF Spec

\* A decision in the database is in the resolution ledger of its source, if one provider
\* has been asked about that source, whatever others have said of other sources.
THEOREM CompiledIsRestorable == Spec => []Restorable
<1>1. KeepInv => Restorable
  <2> SUFFICES ASSUME KeepInv, NEW s \in Sources, Single(s),
                      NEW i \in Id, i[1] = s, decision[i] # "absent"
               PROVE  \E e \in ledger[s] : e.id = i
    BY DEF Restorable
  <2>1. i \in {s} \X Providers
    BY DEF Id
  <2>2. i[2] \in answers[s] /\ ledger[s] # {}
    BY <2>1 DEF KeepInv, Answered
  <2>3. PICK e \in ledger[s] : e.id \in {s} \X answers[s]
    BY <2>2 DEF KeepInv, Answered
  <2>4. e.id = i
    BY <2>1, <2>2, <2>3 DEF Single
  <2>. QED BY <2>4
<1>. QED BY <1>1, Keep, PTL

\* While there is no rebuild, the notes of decisions show their rows.
THEOREM NotesShowRows == Spec => []NoteShowsRow
<1>1. KeepInv => NoteShowsRow
  BY DEF KeepInv
<1>. QED BY <1>1, Keep, PTL

-----------------------------------------------------------------------------
(***************************************************************************)
(* OneConcept and MeaningReviewed: what a call found when it matched still *)
(* holds when it stores its concept.                                       *)
(***************************************************************************)

\* A call that found no concept: its answer has made none, and in mode "alone" its title
\* has none.
Unmatched(p) ==
  call[p].at \in {"plan", "apply"} /\ call[p].same = {} =>
    \A e \in call[p].text : /\ concept[e.id] = "absent"
                            /\ mode = "alone" => Same(e) = {}

MatchInv == OneConcept /\ \A p \in Procs : Unmatched(p)

\* What a call works on is what a provider has answered about its source.
LEMMA Texts ==
  ASSUME TypeOK, KeepInv, NEW p \in Procs, call[p].at \in {"match", "hash", "plan", "apply"},
         NEW s \in call[p].on, NEW e \in call[p].text
  PROVE  s \in Sources /\ e.id \in Id /\ e.id[1] = s
<1>1. s \in Sources /\ e \in cache[s] /\ e.id \in Id
  BY DEF TypeOK, CallRecord, Extraction, KeepInv, Place
<1>. QED BY <1>1 DEF KeepInv, Answered

\* A step that adds no concept, and after which p is not about to store one.
LEMMA NoConcept ==
  ASSUME TypeOK, MatchInv, NEW p \in Procs, mode' = mode,
         \A q \in Procs : q # p => call'[q] = call[q],
         \A i \in Id : concept'[i] # "absent" => concept[i] # "absent",
         Unmatched(p)'
  PROVE  MatchInv'
<1>2. OneConcept'
  BY DEF MatchInv, OneConcept
<1>3. ASSUME NEW q \in Procs, q # p PROVE Unmatched(q)'
  <2>1. \A e \in call[q].text : e.id \in Id
    BY DEF TypeOK, CallRecord, Extraction
  <2>2. \A e : Same(e) = {} => Same(e)' = {}
    BY DEF Same
  <2>. QED BY <1>3, <2>1, <2>2 DEF MatchInv, Unmatched
<1>. QED BY <1>2, <1>3 DEF MatchInv

\* The main operation adds a concept only if its title has none.
LEMMA ApplyMatched ==
  ASSUME TypeOK, KeepInv, MatchInv, NEW p \in Procs, Apply(p)
  PROVE  /\ MatchInv'
         /\ \A i \in Id : concept[i] # "absent" => concept'[i] = concept[i]
<1> DEFINE c == call[p]
           x == [c EXCEPT !.at = "stage"]
<1>0. /\ c \in CallRecord /\ call \in [Procs -> CallRecord]
      /\ \A s, t \in c.on : s = t
      /\ c.on \subseteq Held(p) /\ Held(p) \subseteq Sources
      /\ c.at = "apply"
  BY HeldSources DEF TypeOK, KeepInv, Turns, Held, Apply
<1>1. PICK s \in c.on, e \in c.text : concept' = Concepts(p, e)
  BY DEF Apply
<1>2. call' = [call EXCEPT ![p] = x] /\ mode' = mode
  BY DEF Apply, Goto, others
<1>3. x.at = "stage"
  BY <1>0 DEF CallRecord
<1> HIDE DEF x
<1>4. call'[p] = x /\ \A q \in Procs : q # p => call'[q] = call[q]
  BY <1>0, <1>2
<1>5. s \in Sources /\ e.id \in Id /\ e.id[1] = s
  BY <1>0, <1>1, Texts
<1>6. Unmatched(p)'
  BY <1>3, <1>4 DEF Unmatched
<1>7. CASE c.same # {}
  <2>1. concept' = concept
    BY <1>1, <1>7 DEF Concepts
  <2>. QED BY <1>2, <1>4, <1>6, <2>1, NoConcept
<1>8. CASE c.same = {}
  <2>1. /\ concept[e.id] = "absent"
        /\ mode = "alone" => Same(e) = {}
        /\ concept' = [concept EXCEPT ![e.id] = Meaning[e.id]]
    BY <1>0, <1>1, <1>5, <1>8 DEF MatchInv, Unmatched, Concepts
  <2>2. \A i \in Id : i # e.id => concept'[i] = concept[i]
    BY <2>1 DEF TypeOK
  <2>3. OneConcept'
    <3> SUFFICES ASSUME mode = "alone", NEW i \in Id, NEW j \in Id,
                        concept'[i] # "absent", concept'[j] # "absent", Topic[i] = Topic[j]
                 PROVE  i = j
      BY <1>2 DEF OneConcept
    <3>1. ASSUME NEW k \in Id, k # e.id, concept'[k] # "absent" PROVE Topic[k] # Topic[e.id]
      BY <2>1, <2>2, <3>1 DEF Same
    <3>2. i # e.id /\ j # e.id => i = j
      BY <2>2 DEF MatchInv, OneConcept
    <3>. QED BY <1>5, <3>1, <3>2
  <2>4. ASSUME NEW q \in Procs, q # p PROVE Unmatched(q)'
    <3>1. Unmatched(q) /\ call'[q] = call[q]
      BY <1>4, <2>4 DEF MatchInv
    <3>2. call[q].at \in {"plan", "apply"} => mode # "alone"
      BY <1>0, <2>4 DEF KeepInv, Turns
    <3>3. ASSUME call[q].at \in {"plan", "apply"}, NEW f \in call[q].text, call[q].on # {}
          PROVE  concept'[f.id] = concept[f.id]
      <4>1. PICK t \in call[q].on : TRUE
        BY <3>3
      <4>2. f.id \in Id /\ f.id[1] = t
        BY <3>3, <4>1, Texts
      <4>3. t # s
        BY <1>0, <1>1, <2>4, Apart DEF KeepInv, Held
      <4>. QED BY <1>5, <2>2, <4>2, <4>3
    <3>4. call[q].at \in {"plan", "apply"} => call[q].on # {}
      BY DEF KeepInv, Place
    <3>. QED BY <1>2, <3>1, <3>2, <3>3, <3>4 DEF Unmatched
  <2>. QED BY <1>6, <2>1, <2>2, <2>3, <2>4 DEF MatchInv
<1>. QED BY <1>7, <1>8

\* The other steps of a call add no concept.
LEMMA CallMatched ==
  ASSUME TypeOK, KeepInv, MatchInv, NEW p \in Procs,
         \/ NextSource(p) \/ Finished(p) \/ LookUp(p) \/ Ask(p) \/ Match(p) \/ HashNote(p)
         \/ Plan(p) \/ ApplyRefused(p) \/ EgressBlocked(p) \/ NeedsAi(p) \/ Stage(p) \/ Raise(p)
         \/ Replay(p)
         \/ (BeginNight /\ p = Daemon) \/ (\E s \in Sources : BeginCommand(p, s)) \/ BeginRebuild(p)
  PROVE  MatchInv' /\ concept' = concept
<1> DEFINE c == call[p]
<1> USE DEF others, knowledge
<1>0. c \in CallRecord /\ call \in [Procs -> CallRecord]
  BY DEF TypeOK
<1>1. concept' = concept /\ mode' = mode
  BY DEF NextSource, Finished, LookUp, Ask, Match, HashNote, Plan, ApplyRefused, EgressBlocked,
         NeedsAi, Stage, Raise, Replay, ReplayDecision, RebuildFails, Rebuilt, BeginNight,
         BeginCommand, BeginRebuild
<1>2. ASSUME \A q \in Procs : q # p => call'[q] = call[q], call'[p].at \notin {"plan", "apply"}
      PROVE  MatchInv'
  <2>1. Unmatched(p)'
    BY <1>2 DEF Unmatched
  <2>. QED BY <1>1, <1>2, <2>1, NoConcept
<1>3. CASE Finished(p) \/ ApplyRefused(p) \/ Raise(p) \/ RebuildFails(p) \/ Rebuilt(p)
  <2>1. call'[p].at = "idle" /\ \A q \in Procs : q # p => call'[q] = call[q]
    BY <1>0, <1>3 DEF Finished, ApplyRefused, Raise, RebuildFails, Rebuilt, Returns, Idle
  <2>. QED BY <1>1, <1>2, <2>1
<1>4. CASE EgressBlocked(p) \/ NeedsAi(p) \/ Stage(p)
  <2>1. call'[p].at = "next" /\ \A q \in Procs : q # p => call'[q] = call[q]
    BY <1>0, <1>4 DEF EgressBlocked, NeedsAi, Stage, Goto, CallRecord
  <2>. QED BY <1>1, <1>2, <2>1
<1>5. CASE NextSource(p)
  <2>1. call'[p].at = "compile" /\ \A q \in Procs : q # p => call'[q] = call[q]
    BY <1>0, <1>5 DEF NextSource, Idle
  <2>. QED BY <1>1, <1>2, <2>1
<1>6. CASE LookUp(p)
  <2>1. PICK m : call' = [call EXCEPT ![p] = [c EXCEPT !.text = m,
                            !.at = IF m = {} THEN "ask" ELSE "match"]]
    BY <1>6 DEF LookUp
  <2>2. call'[p].at \in {"ask", "match"} /\ \A q \in Procs : q # p => call'[q] = call[q]
    BY <1>0, <2>1 DEF CallRecord
  <2>. QED BY <1>1, <1>2, <2>2
<1>7. CASE Ask(p)
  <2>1. PICK e : call' = [call EXCEPT ![p] = [c EXCEPT !.at = "match", !.text = {e}]]
    BY <1>7 DEF Ask
  <2>2. call'[p].at = "match" /\ \A q \in Procs : q # p => call'[q] = call[q]
    BY <1>0, <2>1 DEF CallRecord
  <2>. QED BY <1>1, <1>2, <2>2
<1>8. CASE (BeginNight /\ p = Daemon) \/ \E s \in Sources : BeginCommand(p, s)
  <2>1. PICK k, m : call' = [call EXCEPT ![p] = [Idle EXCEPT !.at = "next", !.by = k, !.todo = m]]
    BY <1>8 DEF BeginNight, BeginCommand
  <2>2. [Idle EXCEPT !.at = "next", !.by = k, !.todo = m].at = "next"
    BY DEF Idle
  <2>3. call'[p].at = "next" /\ \A q \in Procs : q # p => call'[q] = call[q]
    BY <1>0, <2>1, <2>2
  <2>. QED BY <1>1, <1>2, <2>3
<1>9. CASE BeginRebuild(p) \/ ReplayDecision(p)
  <2>1. call'[p].at = "replay" /\ \A q \in Procs : q # p => call'[q] = call[q]
    <3>1. CASE BeginRebuild(p)
      BY <1>0, <3>1 DEF BeginRebuild, Idle
    <3>2. CASE ReplayDecision(p)
      <4>1. PICK e : call' = [call EXCEPT ![p] = [c EXCEPT !.text = c.text \ {e}]]
        BY <3>2 DEF ReplayDecision
      <4>. QED BY <1>0, <3>2, <4>1 DEF CallRecord, ReplayDecision
    <3>. QED BY <1>9, <3>1, <3>2
  <2>. QED BY <1>1, <1>2, <2>1
<1>10. CASE Match(p)
  <2>1. PICK e \in c.text :
          \/ Same(e) = {} /\ Goto(p, "plan")
          \/ \E i \in Same(e) : call' = [call EXCEPT ![p] = [c EXCEPT !.same = {i},
               !.at = IF concept[i] = Meaning[e.id] THEN "plan" ELSE "hash"]]
    BY <1>10 DEF Match
  <2>2. CASE Same(e) = {} /\ Goto(p, "plan")
    <3> DEFINE x == [c EXCEPT !.at = "plan"]
    <3>1. x.text = c.text
      BY <1>0 DEF CallRecord
    <3>2. call' = [call EXCEPT ![p] = x]
      BY <2>2 DEF Goto
    <3> HIDE DEF x
    <3>3. \A f \in x.text : f = e
      BY <1>10, <2>1, <3>1 DEF KeepInv, Place, Match
    <3>4. concept[e.id] = "absent"
      <4>1. e.id \in Id
        BY <1>0, <2>1 DEF CallRecord, Extraction
      <4>. QED BY <2>2, <4>1 DEF Same
    <3>5. Same(e)' = {}
      BY <1>1, <2>2 DEF Same
    <3>6. Unmatched(p)'
      BY <1>0, <1>1, <3>2, <3>3, <3>4, <3>5 DEF Unmatched
    <3>. QED BY <1>0, <1>1, <3>2, <3>6, NoConcept
  <2>3. ASSUME NEW i \in Same(e), NEW l,
               call' = [call EXCEPT ![p] = [c EXCEPT !.same = {i}, !.at = l]]
        PROVE  MatchInv'
    <3> DEFINE x == [c EXCEPT !.same = {i}, !.at = l]
    <3>1. x.same = {i}
      BY <1>0 DEF CallRecord
    <3>2. call' = [call EXCEPT ![p] = x]
      BY <2>3
    <3> HIDE DEF x
    <3>3. Unmatched(p)'
      BY <1>0, <3>1, <3>2 DEF Unmatched
    <3>. QED BY <1>0, <1>1, <3>2, <3>3, NoConcept
  <2>. QED BY <1>1, <2>1, <2>2, <2>3
<1>11. CASE HashNote(p)
  <2>1. PICK m : call' = [call EXCEPT ![p] = [c EXCEPT !.at = "plan", !.proposal = m]]
    BY <1>11 DEF HashNote
  <2> DEFINE x == [c EXCEPT !.at = "plan", !.proposal = m]
  <2>2. x.same = c.same /\ c.same # {}
    BY <1>0, <1>11 DEF CallRecord, HashNote
  <2>3. call' = [call EXCEPT ![p] = x]
    BY <2>1
  <2> HIDE DEF x
  <2>4. Unmatched(p)'
    BY <1>0, <2>2, <2>3 DEF Unmatched
  <2>. QED BY <1>0, <1>1, <2>3, <2>4, NoConcept
<1>12. CASE Plan(p)
  <2>1. PICK u, v, w : call' = [call EXCEPT ![p] = [c EXCEPT !.at = "apply",
                                  !.ledger = u, !.record = v, !.read = w]]
    BY <1>12 DEF Plan
  <2> DEFINE x == [c EXCEPT !.at = "apply", !.ledger = u, !.record = v, !.read = w]
  <2>2. x.same = c.same /\ x.text = c.text /\ c.at = "plan"
    BY <1>0, <1>12 DEF CallRecord, Plan
  <2>3. call' = [call EXCEPT ![p] = x]
    BY <2>1
  <2> HIDE DEF x
  <2>4. \A e : Same(e)' = Same(e)
    BY <1>1 DEF Same
  <2>5. Unmatched(p)'
    BY <1>0, <1>1, <2>2, <2>3, <2>4 DEF Unmatched, MatchInv
  <2>. QED BY <1>0, <1>1, <2>3, <2>5, NoConcept
<1>. QED BY <1>1, <1>3, <1>4, <1>5, <1>6, <1>7, <1>8, <1>9, <1>10, <1>11, <1>12 DEF Replay

\* An approved proposal gives its target the meaning of its source.
LEMMA ReviewMatched ==
  ASSUME TypeOK, MatchInv, NEW r \in proposals, Approve(r) \/ Reject(r)
  PROVE  /\ MatchInv'
         /\ \A i \in Id : concept'[i] # concept[i] =>
              r.target = i /\ r.seen = concept[i] /\ Approve(r)
<1>1. r.from \in Id /\ r.target \in Id /\ r.seen \in Meanings
  BY DEF TypeOK, Proposal
<1>2. concept[r.target] # "absent" \/ concept' = concept
  BY <1>1, TextAssumption DEF Approve, Reject, knowledge, Meanings, Id
<1>3. \A i \in Id : /\ concept'[i] # "absent" => concept[i] # "absent"
                    /\ concept'[i] # concept[i] =>
                         r.target = i /\ r.seen = concept[i] /\ Approve(r)
  <2>1. CASE Approve(r)
    BY <1>1, <1>2, <2>1 DEF Approve, TypeOK
  <2>2. CASE Reject(r)
    BY <2>2 DEF Reject, knowledge
  <2>. QED BY <2>1, <2>2
<1>4. call' = call /\ mode' = mode
  BY DEF Approve, Reject, others
<1>5. OneConcept'
  BY <1>3, <1>4 DEF MatchInv, OneConcept
<1>6. ASSUME NEW q \in Procs PROVE Unmatched(q)'
  <2>1. \A e \in call[q].text : e.id \in Id
    BY DEF TypeOK, CallRecord, Extraction
  <2>2. \A e : Same(e) = {} => Same(e)' = {}
    BY <1>3 DEF Same
  <2>. QED BY <1>3, <1>4, <2>1, <2>2 DEF MatchInv, Unmatched
<1>. QED BY <1>3, <1>5, <1>6 DEF MatchInv

\* A step keeps MatchInv, and changes a meaning only by an approval.
LEMMA MatchStep ==
  ASSUME TypeOK, KeepInv, MatchInv, [Next]_vars
  PROVE  /\ MatchInv'
         /\ \A i \in Id : concept[i] # "absent" /\ concept'[i] # concept[i] =>
              \E r \in proposals : r.target = i /\ r.seen = concept[i] /\ Approve(r)
<1>1. Daemon \in Procs
  BY DEF Procs
<1>2. CASE BeginNight
  BY <1>1, <1>2, CallMatched
<1>3. ASSUME NEW p \in Procs,
             \/ (\E s \in Sources : BeginCommand(p, s)) \/ BeginRebuild(p)
             \/ NeedsAi(p) \/ Raise(p) \/ Replay(p)
      PROVE  MatchInv' /\ concept' = concept
  BY <1>3, CallMatched
<1>4. ASSUME NEW p \in Procs, Compile(p)
      PROVE  MatchInv' /\ \A i \in Id : concept[i] # "absent" => concept'[i] = concept[i]
  BY <1>4, CallMatched, ApplyMatched DEF Compile
<1>5. ASSUME NEW r \in proposals, Approve(r) \/ Reject(r)
      PROVE  /\ MatchInv'
             /\ \A i \in Id : concept'[i] # concept[i] =>
                  r.target = i /\ r.seen = concept[i] /\ Approve(r)
  BY <1>5, ReviewMatched
<1>6. CASE UNCHANGED vars
  <2>1. call' = call /\ mode' = mode /\ concept' = concept
    BY <1>6 DEF vars, knowledge, others
  <2>2. \A e : Same(e)' = Same(e)
    BY <2>1 DEF Same
  <2>3. ASSUME NEW q \in Procs PROVE Unmatched(q)'
    BY <2>1, <2>2 DEF MatchInv, Unmatched
  <2>. QED BY <2>1, <2>3 DEF MatchInv, OneConcept
<1>. QED BY <1>2, <1>3, <1>4, <1>5, <1>6 DEF Next

LEMMA Matched == Spec => []MatchInv
<1>1. Init => MatchInv
  <2> SUFFICES ASSUME Init PROVE MatchInv
    OBVIOUS
  <2>1. \A p \in Procs : call[p].at = "idle"
    BY DEF Init, Idle
  <2>. QED BY <2>1 DEF Init, MatchInv, OneConcept, Unmatched
<1>2. TypeOK /\ KeepInv /\ MatchInv /\ [Next]_vars => MatchInv'
  BY MatchStep
<1>. QED BY <1>1, <1>2, Types, Keep, PTL DEF Spec

\* Compilations that do not overlap make no second concept of one title.
THEOREM OneTitleOneConcept == Spec => []OneConcept
<1>1. MatchInv => OneConcept
  BY DEF MatchInv
<1>. QED BY <1>1, Matched, PTL

\* No compilation changes what a concept means: an approved proposal does, that was
\* made against the meaning it replaces, whatever overlaps.
THEOREM MeaningsAreReviewed == Spec => MeaningReviewed
<1>1. TypeOK /\ KeepInv /\ MatchInv /\ [Next]_vars =>
        [\A i \in Id : concept[i] # "absent" /\ concept'[i] # concept[i] =>
          \E r \in proposals : r.target = i /\ r.seen = concept[i] /\ Approve(r)]_vars
  BY MatchStep
<1>. QED BY <1>1, Types, Keep, Matched, PTL DEF Spec, MeaningReviewed

-----------------------------------------------------------------------------
(***************************************************************************)
(* RebuildPreserves.  The supersession graph in the ledgers has no cycle,  *)
(* which is stated of its subsets, so that no induction along its chains   *)
(* is needed: what is left to replay has a decision that replaces none of  *)
(* what is left.                                                           *)
(***************************************************************************)

\* What the resolution ledgers hold.
Entries == UNION {ledger[s] : s \in Sources}

\* What the rows have of it: all, or what a replay under way has inserted.
Back == {e \in Entries : \A p \in Procs : call[p].at = "replay" => e \notin call[p].text}

Replaying == \E p \in Procs : call[p].at = "replay"

Acyclic(E) ==
  \A left \in SUBSET E :
    left # {} => \E e \in left : \A f \in left : f.id \notin e.supersedes

\* The decisions that are replaced are there.
Closed(E) == \A e \in E : \A i \in e.supersedes : \E f \in E : f.id = i

\* The status that the graph gives to a decision.
RowOf(i, E) ==
  IF \E e \in E : i \in e.supersedes THEN "superseded"
  ELSE IF \E e \in E : e.id = i THEN "active" ELSE "absent"

\* A source has one extraction, in cache and ledger.
OneText == \A s \in Sources : \A e, f \in cache[s] \cup ledger[s] : e = f

Graphed ==
  /\ OneText
  /\ Acyclic(Entries) /\ Closed(Entries) /\ Closed(Back)
  /\ \A e \in Back : decision[e.id] # "absent"
  /\ again = {} \/ Replaying => \A i \in Id : decision[i] = RowOf(i, Back)
  /\ again = {} /\ Replaying => \A i \in Id : archived[i] = RowOf(i, Entries)

\* The graph is that of the rows as long as no second provider has answered.
GraphInv == OneAnswer => Graphed

\* What cache and ledgers hold has an identifier of its source.
LEMMA EntryIds ==
  ASSUME TypeOK, KeepInv
  PROVE  /\ Entries \subseteq Extraction
         /\ \A s \in Sources : \A e \in cache[s] \cup ledger[s] :
              e \in Extraction /\ e.id \in Id /\ e.id[1] = s
         /\ \A e \in Entries : e.id[1] \in Sources /\ e \in ledger[e.id[1]]
<1>1. ASSUME NEW s \in Sources, NEW e \in cache[s] \cup ledger[s]
      PROVE  e \in Extraction /\ e.id \in Id /\ e.id[1] = s
  <2>1. e \in Extraction /\ e.id \in {s} \X answers[s]
    BY DEF TypeOK, KeepInv, Answered
  <2>. QED BY <2>1 DEF Extraction
<1>. QED BY <1>1 DEF Entries

\* A decision in the database is that of an entry.
LEMMA PresentEntry ==
  ASSUME TypeOK, KeepInv, OneAnswer, NEW i \in Id, decision[i] # "absent"
  PROVE  \E f \in Entries : f.id = i
<1>1. PICK s \in Sources, k \in Providers : i = <<s, k>>
  BY DEF Id
<1>2. k \in answers[s] /\ ledger[s] # {}
  BY <1>1 DEF KeepInv, Answered
<1>3. PICK f \in ledger[s] : f.id \in {s} \X answers[s]
  BY <1>2 DEF KeepInv, Answered
<1>4. f.id = i
  BY <1>1, <1>2, <1>3 DEF OneAnswer, Single
<1>. QED BY <1>3, <1>4 DEF Entries

\* A provider that has answered stays one.
LEMMA AnswersGrow == TypeOK /\ [Next]_vars => (OneAnswer' => OneAnswer)
<1> SUFFICES ASSUME TypeOK, [Next]_vars
             PROVE  \A s \in Sources : answers[s] \subseteq answers'[s]
  BY DEF OneAnswer, Single
<1> USE DEF others, knowledge
<1>1. CASE \E p \in Procs : Ask(p)
  <2>1. PICK p \in Procs : Ask(p)
    BY <1>1
  <2>2. PICK s \in call[p].on, k \in call[p].by :
          answers' = [answers EXCEPT ![s] = @ \cup {k}]
    BY <2>1 DEF Ask
  <2>. QED BY <2>2 DEF TypeOK
<1>2. CASE ~ \E p \in Procs : Ask(p)
  <2>1. CASE BeginNight
    BY <2>1 DEF BeginNight
  <2>2. ASSUME NEW p \in Procs,
               \/ \E s \in Sources : BeginCommand(p, s)
               \/ BeginRebuild(p) \/ Compile(p) \/ NeedsAi(p) \/ Raise(p) \/ Replay(p)
        PROVE  answers' = answers
    BY <1>2, <2>2 DEF BeginCommand, BeginRebuild, Compile, NextSource, Finished, EgressBlocked,
       LookUp, Match, HashNote, Plan, Apply, ApplyRefused, Stage, NeedsAi, Raise, Replay,
       ReplayDecision, RebuildFails, Rebuilt
  <2>3. ASSUME NEW r \in proposals, Approve(r) \/ Reject(r) PROVE answers' = answers
    BY <2>3 DEF Approve, Reject
  <2>4. CASE UNCHANGED vars
    BY <2>4 DEF vars
  <2>. QED BY <2>1, <2>2, <2>3, <2>4 DEF Next
<1>. QED BY <1>1, <1>2

\* A replay always finds a decision whose predecessors are there.
LEMMA SomeReady ==
  ASSUME TypeOK, KeepInv, Graphed, NEW p \in Procs, call[p].at = "replay", call[p].text # {}
  PROVE  \E e \in call[p].text : Ready(e)
<1>1. call[p].text \subseteq Entries /\ Entries \subseteq Extraction
  BY EntryIds DEF KeepInv, Place, Entries
<1>2. PICK e \in call[p].text : \A f \in call[p].text : f.id \notin e.supersedes
  BY <1>1 DEF Graphed, Acyclic
<1>3. ASSUME NEW i \in e.supersedes PROVE decision[i] # "absent"
  <2>1. PICK f \in Entries : f.id = i
    BY <1>1, <1>3 DEF Graphed, Closed
  <2>2. \A q \in Procs : call[q].at = "replay" => q = p
    BY DEF KeepInv, Place, Turns
  <2>3. f \in Back
    BY <1>2, <1>3, <2>1, <2>2 DEF Back
  <2>. QED BY <2>1, <2>3 DEF Graphed
<1>. QED BY <1>3 DEF Ready

\* The last entry replaces others, and none replaces it.
LEMMA LastEntry ==
  ASSUME NEW E, NEW e, Acyclic(E), e.id \notin e.supersedes, \A f \in E : e.id \notin f.supersedes
  PROVE  Acyclic(E \cup {e})
<1> SUFFICES ASSUME NEW left \in SUBSET (E \cup {e}), left # {}
    PROVE  \E g \in left : \A f \in left : f.id \notin g.supersedes
  BY DEF Acyclic
<1>1. CASE left \subseteq {e}
  BY <1>1
<1>2. CASE left \ {e} # {}
  <2>1. PICK g \in left \ {e} : \A f \in left \ {e} : f.id \notin g.supersedes
    BY <1>2 DEF Acyclic
  <2>. QED BY <2>1
<1>. QED BY <1>1, <1>2

\* Its row, and those of what it replaces, come to be as the graph says.
LEMMA LastRow ==
  ASSUME NEW E, NEW e, e.id \notin e.supersedes, \A f \in E : e.id \notin f.supersedes,
         \A i \in Id : decision[i] = RowOf(i, E)
  PROVE  \A i \in Id : Inserted(e)[i] = RowOf(i, E \cup {e})
BY DEF RowOf, Inserted

\* A step that stores nothing of it, and neither begins, goes on with, nor ends a replay.
LEMMA GraphFrame ==
  ASSUME TypeOK, Graphed, UNCHANGED <<ledger, decision, archived, again>>, OneText',
         \A q \in Procs : /\ call'[q].at = "replay" <=> call[q].at = "replay"
                          /\ call[q].at = "replay" => call'[q].text = call[q].text
  PROVE  Graphed'
<1>1. Entries' = Entries
  BY DEF Entries
<1>2. Back' = Back /\ (Replaying' <=> Replaying)
  BY <1>1 DEF Back, Replaying
<1>. QED BY <1>1, <1>2 DEF Graphed

\* The steps of a compilation but for the operation, and the beginnings of one.
LEMMA CallGraph ==
  ASSUME TypeOK, KeepInv, Graphed, NEW p \in Procs,
         \/ (BeginNight /\ p = Daemon) \/ \E s \in Sources : BeginCommand(p, s)
         \/ NextSource(p) \/ Finished(p) \/ LookUp(p) \/ Ask(p) \/ Match(p) \/ HashNote(p)
         \/ Plan(p) \/ ApplyRefused(p) \/ EgressBlocked(p) \/ Stage(p) \/ NeedsAi(p) \/ Raise(p),
         OneAnswer'
  PROVE  Graphed'
<1> DEFINE c == call[p]
           Calls(x) == call' = [call EXCEPT ![p] = x]
           Elsewhere == call'[p].at # "replay" /\ \A q \in Procs : q # p => call'[q] = call[q]
<1> USE DEF others, knowledge
<1>0. c \in CallRecord /\ call \in [Procs -> CallRecord]
  BY DEF TypeOK
<1>1. ASSUME NEW x, Calls(x), x.at # "replay" PROVE Elsewhere
  BY <1>0, <1>1
<1>2. c.at # "replay"
  BY DEF Idle, Free, BeginNight, BeginCommand, NextSource, Finished, LookUp, Ask, Match,
         HashNote, Plan, EgressBlocked, ApplyRefused, Stage, NeedsAi, Raise
<1>3. Elsewhere
  <2>1. ASSUME NEW todo, NEW on, NEW by,
               Calls([Idle EXCEPT !.at = "compile", !.by = by, !.on = on, !.todo = todo])
        PROVE  Elsewhere
    <3>1. [Idle EXCEPT !.at = "compile", !.by = by, !.on = on, !.todo = todo].at # "replay"
      BY DEF Idle
    <3>. QED BY <1>1, <2>1, <3>1
  <2>2. ASSUME NEW todo, NEW by, Calls([Idle EXCEPT !.at = "next", !.by = by, !.todo = todo])
        PROVE  Elsewhere
    <3>1. [Idle EXCEPT !.at = "next", !.by = by, !.todo = todo].at # "replay"
      BY DEF Idle
    <3>. QED BY <1>1, <2>2, <3>1
  <2>3. ASSUME NEW l \in Labels \ {"replay"}, Goto(p, l)
        PROVE  Elsewhere
    <3>1. call'[p] = [c EXCEPT !.at = l] /\ \A q \in Procs : q # p => call'[q] = call[q]
      BY <1>0, <2>3 DEF Goto
    <3>. QED BY <1>0, <2>3, <3>1 DEF CallRecord
  <2>4. ASSUME Returns(p) PROVE Elsewhere
    BY <1>0, <2>4 DEF Returns, Idle
  <2>5. ASSUME NEW text, NEW l \in {"ask", "match"}, Calls([c EXCEPT !.text = text, !.at = l])
        PROVE  Elsewhere
    <3>1. [c EXCEPT !.text = text, !.at = l].at # "replay"
      BY <1>0 DEF CallRecord
    <3>. QED BY <1>1, <2>5, <3>1
  <2>6. ASSUME NEW text, Calls([c EXCEPT !.at = "match", !.text = text]) PROVE Elsewhere
    <3>1. [c EXCEPT !.at = "match", !.text = text].at # "replay"
      BY <1>0 DEF CallRecord
    <3>. QED BY <1>1, <2>6, <3>1
  <2>7. ASSUME NEW same, NEW l \in {"plan", "hash"}, Calls([c EXCEPT !.same = same, !.at = l])
        PROVE  Elsewhere
    <3>1. [c EXCEPT !.same = same, !.at = l].at # "replay"
      BY <1>0 DEF CallRecord
    <3>. QED BY <1>1, <2>7, <3>1
  <2>16. ASSUME NEW u, Calls([c EXCEPT !.at = "plan", !.proposal = u]) PROVE Elsewhere
    <3>1. [c EXCEPT !.at = "plan", !.proposal = u].at # "replay"
      BY <1>0 DEF CallRecord
    <3>. QED BY <1>1, <2>16, <3>1
  <2>8. ASSUME NEW u, NEW v, NEW w,
               Calls([c EXCEPT !.at = "apply", !.ledger = u, !.record = v, !.read = w])
        PROVE  Elsewhere
    <3>1. [c EXCEPT !.at = "apply", !.ledger = u, !.record = v, !.read = w].at # "replay"
      BY <1>0 DEF CallRecord
    <3>. QED BY <1>1, <2>8, <3>1
  <2>9. CASE (BeginNight /\ p = Daemon) \/ \E s \in Sources : BeginCommand(p, s)
    BY <2>2, <2>9 DEF BeginNight, BeginCommand
  <2>10. CASE NextSource(p)
    BY <2>1, <2>10 DEF NextSource
  <2>11. CASE LookUp(p)
    BY <2>5, <2>11 DEF LookUp
  <2>12. CASE Ask(p)
    BY <2>6, <2>12 DEF Ask
  <2>13. CASE Match(p)
    BY <2>3, <2>7, <2>13 DEF Match, Labels
  <2>14. CASE Plan(p)
    BY <2>8, <2>14 DEF Plan
  <2>15. CASE Finished(p) \/ ApplyRefused(p) \/ EgressBlocked(p) \/ Raise(p) \/ Stage(p)
              \/ NeedsAi(p)
    BY <2>3, <2>4, <2>15 DEF Finished, ApplyRefused, EgressBlocked, Raise, Stage, NeedsAi, Labels
  <2>17. CASE HashNote(p)
    BY <2>16, <2>17 DEF HashNote
  <2>. QED BY <2>9, <2>10, <2>11, <2>12, <2>13, <2>14, <2>15, <2>17
<1>4. OneText'
  <2>1. CASE cache' = cache /\ ledger' = ledger
    BY <2>1 DEF Graphed, OneText
  <2>2. CASE Ask(p)
    <3>1. PICK s \in c.on, k \in c.by :
            /\ answers' = [answers EXCEPT ![s] = @ \cup {k}]
            /\ \E e : cache' = [cache EXCEPT ![s] = @ \cup {e}]
      BY <2>2 DEF Ask
    <3>2. PICK e : cache' = [cache EXCEPT ![s] = @ \cup {e}]
      BY <3>1
    <3>3. s \in Sources /\ k \notin answers[s]
      BY <1>0, <2>2 DEF Ask, KeepInv, Place, CallRecord
    <3>4. answers[s] = {}
      <4>1. answers'[s] = answers[s] \cup {k}
        BY <3>1, <3>3 DEF TypeOK
      <4>. QED BY <3>3, <4>1 DEF OneAnswer, Single
    <3>5. cache[s] = {} /\ ledger[s] = {} /\ ledger' = ledger
      BY <2>2, <3>3, <3>4 DEF KeepInv, Answered, Ask
    <3>6. cache'[s] = {e} /\ \A t \in Sources : t # s => cache'[t] = cache[t]
      BY <3>2, <3>3, <3>5 DEF TypeOK
    <3>. QED BY <3>3, <3>5, <3>6 DEF Graphed, OneText
  <2>. QED BY <2>1, <2>2 DEF BeginNight, BeginCommand, NextSource, Finished, LookUp, Match,
              HashNote, Plan, EgressBlocked, ApplyRefused, Stage, NeedsAi, Raise
<1>5. UNCHANGED <<ledger, decision, archived, again>>
  BY DEF BeginNight, BeginCommand, NextSource, Finished, LookUp, Ask, Match,
         HashNote, Plan, EgressBlocked, ApplyRefused, Stage, NeedsAi, Raise
<1>. QED BY <1>2, <1>3, <1>4, <1>5, GraphFrame

\* The operation of a compilation: the first one adds an entry that none replaces yet,
\* later ones none.
LEMMA ApplyGraph ==
  ASSUME TypeOK, KeepInv, OneAnswer, Graphed, NEW p \in Procs, Apply(p)
  PROVE  Graphed'
<1> DEFINE c == call[p]
<1>0. /\ c \in CallRecord /\ call \in [Procs -> CallRecord]
      /\ c.at = "apply" /\ [c EXCEPT !.at = "stage"].at = "stage"
  BY DEF TypeOK, CallRecord, Apply
<1>1. PICK s \in c.on, e \in c.text :
        /\ decision' = Inserted(e)
        /\ ledger' = [ledger EXCEPT ![s] = Ledger(p, s, e)]
        /\ again' = IF decision[e.id] = "absent" THEN again ELSE again \cup {s}
  BY DEF Apply
<1>2. cache' = cache /\ call' = [call EXCEPT ![p] = [c EXCEPT !.at = "stage"]]
  BY DEF Apply, Goto
<1>3. /\ s \in Sources /\ e \in cache[s] /\ e \in Extraction /\ e.id[1] = s /\ e.id \in Id
      /\ c.ledger # {} => ledger[s] # {}
      /\ \A i \in e.supersedes : i # e.id /\ i \in Id /\ decision[i] # "absent"
  BY <1>0, <1>1, EntryIds DEF KeepInv, Place, Answered, CallRecord, Extraction
<1>4. ~ Replaying /\ ~ Replaying' /\ Back = Entries /\ Back' = Entries'
  <2>1. \A q \in Procs : call[q].at # "replay"
    BY <1>0 DEF KeepInv, Place, Turns
  <2>2. \A q \in Procs : call'[q].at # "replay"
    BY <1>0, <1>2, <2>1
  <2>. QED BY <2>1, <2>2 DEF Replaying, Back
<1>5. PICK E : E = Entries
  OBVIOUS
<1>6. /\ Acyclic(E) /\ Closed(E) /\ \A f \in E : decision[f.id] # "absent"
      /\ again = {} => \A i \in Id : decision[i] = RowOf(i, E)
  BY <1>4, <1>5 DEF Graphed
<1>7. \A i \in Id : decision'[i] # "absent" <=> decision[i] # "absent" \/ i = e.id
  BY <1>1, <1>3 DEF Inserted
<1>8. CASE ledger[s] # {}
  <2>1. ledger[s] = {e}
    BY <1>3, <1>8 DEF Graphed, OneText
  <2>2. Ledger(p, s, e) = ledger[s]
    BY <2>1 DEF Ledger
  <2>3. ledger' = ledger
    BY <1>1, <2>2 DEF TypeOK
  <2>4. Entries' = E
    BY <1>5, <2>3 DEF Entries
  <2>5. e \in E
    BY <1>3, <1>5, <2>1 DEF Entries
  <2>6. again' # {}
    BY <1>1, <1>6, <2>5
  <2>7. \A f \in E : decision'[f.id] # "absent"
    BY <1>5, <1>6, <1>7, EntryIds DEF Extraction
  <2>8. OneText'
    BY <1>2, <2>3 DEF Graphed, OneText
  <2>. QED BY <1>4, <1>6, <2>4, <2>6, <2>7, <2>8 DEF Graphed
<1>9. CASE ledger[s] = {}
  <2>1. Ledger(p, s, e) = {e}
    BY <1>3, <1>9 DEF Ledger
  <2>2. ledger'[s] = {e} /\ \A t \in Sources : t # s => ledger'[t] = ledger[t]
    BY <1>1, <1>3, <2>1 DEF TypeOK
  <2>3. Entries' = E \cup {e}
    BY <1>3, <1>5, <1>9, <2>2 DEF Entries
  <2>4. \A f \in E : f.id # e.id
    BY <1>3, <1>5, <1>9, EntryIds
  <2>5. e.id \notin e.supersedes /\ \A f \in E : e.id \notin f.supersedes
    BY <1>3, <1>6, <2>4 DEF Closed
  <2>6. Acyclic(E \cup {e})
    BY <1>6, <2>5, LastEntry
  <2>7. Closed(E \cup {e})
    <3>1. \A i \in e.supersedes : \E f \in E : f.id = i
      BY <1>3, <1>5, PresentEntry
    <3>. QED BY <1>6, <3>1 DEF Closed
  <2>8. \A f \in E \cup {e} : decision'[f.id] # "absent"
    BY <1>3, <1>5, <1>6, <1>7, EntryIds DEF Extraction
  <2>9. again' = {} => \A i \in Id : decision'[i] = RowOf(i, E \cup {e})
    <3>1. again' = {} => again = {}
      BY <1>1
    <3>. QED BY <1>1, <1>6, <2>5, <3>1, LastRow
  <2>10. OneText'
    BY <1>2, <1>3, <1>9, <2>2 DEF Graphed, OneText
  <2>. QED BY <1>4, <2>3, <2>6, <2>7, <2>8, <2>9, <2>10 DEF Graphed
<1>. QED BY <1>8, <1>9

\* A rebuild begins with no row and inserts an entry after those that it replaces.
LEMMA ReplayGraph ==
  ASSUME TypeOK, KeepInv, Graphed, NEW p \in Procs,
         BeginRebuild(p) \/ Replay(p)
  PROVE  Graphed'
<1> DEFINE c == call[p]
<1> USE DEF others, knowledge
<1>0. c \in CallRecord /\ call \in [Procs -> CallRecord]
  BY DEF TypeOK
<1>1. PICK E : E = Entries
  OBVIOUS
<1>2. Entries' = E
  BY <1>1 DEF Entries, BeginRebuild, Replay, ReplayDecision, RebuildFails, Rebuilt
<1>3. Acyclic(E) /\ Closed(E)
  BY <1>1 DEF Graphed
<1>4. CASE BeginRebuild(p)
  <2> DEFINE x == [Idle EXCEPT !.at = "replay", !.text = UNION {ledger[s] : s \in Sources}]
  <2>1. x.at = "replay" /\ x.text = E
    BY <1>1 DEF Idle, Entries
  <2>2. /\ call' = [call EXCEPT ![p] = x] /\ Quiet
        /\ UNCHANGED <<ledger, again>>
        /\ cache' = [s \in Sources |-> {}]
        /\ decision' = [i \in Id |-> "absent"] /\ archived' = decision
    BY <1>4 DEF BeginRebuild, Free
  <2> HIDE DEF x
  <2>3. Back' = {}
    BY <1>0, <1>2, <2>1, <2>2 DEF Back
  <2>4. Back = E
    BY <1>1, <2>2 DEF Back, Quiet
  <2>5. \A i \in Id : decision'[i] = RowOf(i, {})
    BY <2>2 DEF RowOf
  <2>6. again' = {} => \A i \in Id : archived'[i] = RowOf(i, E)
    BY <2>2, <2>4 DEF Graphed
  <2>7. OneText' /\ Closed({})
    BY <2>2 DEF Graphed, OneText, Closed
  <2>. QED BY <1>2, <1>3, <2>3, <2>5, <2>6, <2>7 DEF Graphed
<1>5. ASSUME c.at = "replay"
      PROVE  /\ \A q \in Procs : q # p => call[q].at # "replay"
             /\ c.text \subseteq E /\ Back = E \ c.text /\ Replaying
             /\ \A i \in Id : decision[i] = RowOf(i, Back)
  <2>1. \A q \in Procs : q # p => call[q].at = "idle"
    BY <1>5 DEF KeepInv, Turns, Place
  <2>2. c.text \subseteq E
    BY <1>1, <1>5 DEF KeepInv, Place, Entries
  <2>. QED BY <1>1, <1>5, <2>1, <2>2 DEF Back, Replaying, Graphed
<1>6. CASE ReplayDecision(p)
  <2>1. PICK e \in c.text : /\ Ready(e) /\ decision' = Inserted(e)
                            /\ call' = [call EXCEPT ![p].text = @ \ {e}]
    BY <1>6 DEF ReplayDecision
  <2> DEFINE x == [c EXCEPT !.text = c.text \ {e}]
  <2>2. x.at = "replay" /\ x.text = c.text \ {e} /\ c.at = "replay"
    BY <1>0, <1>6 DEF CallRecord, ReplayDecision
  <2>3. /\ call' = [call EXCEPT ![p] = x]
        /\ UNCHANGED <<cache, ledger, archived, again>>
    BY <1>6, <2>1 DEF ReplayDecision
  <2> HIDE DEF x
  <2>4. PICK D : D = Back
    OBVIOUS
  <2>5. Back' = D \cup {e} /\ Replaying' /\ Replaying
    <3>1. call'[p] = x /\ \A q \in Procs : q # p => call'[q].at # "replay"
      BY <1>0, <1>5, <2>2, <2>3
    <3>2. Back' = E \ x.text
      BY <1>2, <2>2, <3>1 DEF Back
    <3>. QED BY <1>5, <2>1, <2>2, <2>4, <3>1, <3>2 DEF Replaying
  <2>6. /\ e \in E /\ e \notin D /\ e \in Extraction
        /\ D \subseteq E /\ Closed(D) /\ \A i \in Id : decision[i] = RowOf(i, D)
        /\ \A f \in D : decision[f.id] # "absent"
    BY <1>1, <1>5, <2>1, <2>2, <2>4, EntryIds DEF Graphed
  <2>7. \A f \in D : f.id # e.id
    BY <1>1, <2>6, EntryIds DEF Graphed, OneText
  <2>8. e.id \notin e.supersedes /\ \A f \in D : e.id \notin f.supersedes
    <3>1. e.id \notin e.supersedes
      <4>1. {e} \in SUBSET E /\ {e} # {}
        BY <2>6
      <4>. QED BY <1>3, <4>1 DEF Acyclic
    <3>. QED BY <2>6, <2>7, <3>1 DEF Closed
  <2>9. Closed(D \cup {e})
    <3>1. ASSUME NEW i \in e.supersedes PROVE \E f \in D : f.id = i
      <4>1. i \in Id /\ RowOf(i, D) # "absent"
        BY <2>1, <2>6 DEF Ready, Extraction
      <4>. QED BY <2>6, <4>1 DEF RowOf, Closed
    <3>. QED BY <2>6, <3>1 DEF Closed
  <2>10. \A i \in Id : decision'[i] = RowOf(i, D \cup {e})
    BY <2>1, <2>6, <2>8, LastRow
  <2>11. \A f \in D \cup {e} : decision'[f.id] # "absent"
    <3>1. \A f \in D \cup {e} : f.id \in Id
      BY <1>1, <2>6, EntryIds DEF Extraction
    <3>. QED BY <2>10, <3>1 DEF RowOf
  <2>12. again' = {} => \A i \in Id : archived'[i] = RowOf(i, E)
    BY <1>1, <2>3, <2>5 DEF Graphed
  <2>13. OneText'
    BY <2>3 DEF Graphed, OneText
  <2>. QED BY <1>2, <1>3, <2>5, <2>9, <2>10, <2>11, <2>12, <2>13 DEF Graphed
<1>7. CASE Rebuilt(p)
  <2>1. /\ c.at = "replay" /\ c.text = {} /\ call' = [call EXCEPT ![p] = Idle]
        /\ UNCHANGED <<cache, ledger, archived, again, decision>>
    BY <1>7 DEF Rebuilt, Returns
  <2>2. call'[p] = Idle /\ Idle.at = "idle" /\ \A q \in Procs : q # p => call'[q] = call[q]
    BY <1>0, <2>1 DEF Idle
  <2>3. Back = E /\ Back' = E /\ ~ Replaying'
    BY <1>2, <1>5, <2>1, <2>2 DEF Back, Replaying
  <2>4. (\A i \in Id : decision'[i] = RowOf(i, E)) /\ \A f \in E : decision'[f.id] # "absent"
    BY <1>5, <2>1, <2>3 DEF Graphed
  <2>5. OneText'
    BY <2>1 DEF Graphed, OneText
  <2>. QED BY <1>2, <1>3, <2>3, <2>4, <2>5 DEF Graphed
<1>8. ~ RebuildFails(p)
  BY SomeReady DEF RebuildFails
<1>. QED BY <1>4, <1>6, <1>7, <1>8 DEF Replay

LEMMA GraphStep == TypeOK /\ KeepInv /\ GraphInv /\ [Next]_vars => GraphInv'
<1> SUFFICES ASSUME TypeOK, KeepInv, GraphInv, [Next]_vars, OneAnswer' PROVE Graphed'
  BY DEF GraphInv
<1>0. OneAnswer /\ Graphed
  BY AnswersGrow DEF GraphInv
<1>1. Daemon \in Procs
  BY DEF Procs
<1>2. ASSUME UNCHANGED <<cache, ledger, decision, archived, again, call>> PROVE Graphed'
  <2>1. OneText'
    BY <1>0, <1>2 DEF Graphed, OneText
  <2>. QED BY <1>0, <1>2, <2>1, GraphFrame
<1>3. CASE BeginNight
  BY <1>0, <1>1, <1>3, CallGraph
<1>4. ASSUME NEW p \in Procs,
             \/ \E s \in Sources : BeginCommand(p, s)
             \/ BeginRebuild(p) \/ Compile(p) \/ NeedsAi(p) \/ Raise(p) \/ Replay(p)
      PROVE  Graphed'
  BY <1>0, <1>4, CallGraph, ApplyGraph, ReplayGraph DEF Compile
<1>5. ASSUME NEW r \in proposals, Approve(r) \/ Reject(r)
      PROVE  Graphed'
  BY <1>2, <1>5 DEF Approve, Reject, knowledge, others
<1>6. CASE UNCHANGED vars
  BY <1>2, <1>6 DEF vars, knowledge, others
<1>. QED BY <1>3, <1>4, <1>5, <1>6 DEF Next

LEMMA Graph == Spec => []GraphInv
<1>1. Init => GraphInv
  <2> SUFFICES ASSUME Init PROVE GraphInv
    OBVIOUS
  <2>1. Entries = {} /\ Back = {}
    BY DEF Init, Entries, Back
  <2>2. ~ Replaying
    BY DEF Init, Replaying, Idle
  <2>3. OneText /\ Acyclic({}) /\ Closed({}) /\ \A i \in Id : decision[i] = RowOf(i, {})
    BY DEF Init, OneText, Acyclic, Closed, RowOf
  <2>. QED BY <2>1, <2>2, <2>3 DEF GraphInv, Graphed
<1>. QED BY <1>1, GraphStep, Types, Keep, PTL DEF Spec

\* As long as one provider has answered about each source, a rebuild always finds a
\* decision whose predecessors are there, however long the chains of supersession are, and
\* when it ends, every decision has the status that it had, if none was compiled twice.
THEOREM RebuildRestores == Spec => RebuildPreserves
<1>1. TypeOK /\ KeepInv /\ GraphInv => NoneMissing
  BY SomeReady DEF GraphInv, NoneMissing
<1>2. TypeOK /\ KeepInv /\ GraphInv /\ [Next]_vars =>
        [\A p \in Procs : Rebuilt(p) /\ OneAnswer /\ again = {} => decision' = archived]_vars
  <2> SUFFICES ASSUME TypeOK, KeepInv, Graphed, NEW p \in Procs, Rebuilt(p), again = {}
      PROVE  decision' = archived
    BY DEF GraphInv
  <2>1. call[p].at = "replay" /\ call[p].text = {} /\ decision' = decision
    BY DEF Rebuilt, knowledge
  <2>2. \A q \in Procs : call[q].at = "replay" => q = p
    BY <2>1 DEF KeepInv, Place, Turns
  <2>3. Back = Entries /\ Replaying
    BY <2>1, <2>2 DEF Back, Replaying
  <2>4. \A i \in Id : decision[i] = archived[i]
    BY <2>3 DEF Graphed
  <2>. QED BY <2>1, <2>4 DEF TypeOK
<1>. QED BY <1>1, <1>2, Types, Keep, Graph, PTL DEF Spec, RebuildPreserves
=============================================================================
