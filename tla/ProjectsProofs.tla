---------------------------- MODULE ProjectsProofs ----------------------------
(***************************************************************************)
(* Theorems about Projects, for every set of changes, any interleaving of  *)
(* commands with the daemon, and any number of refusals and deaths.        *)
(***************************************************************************)
EXTENDS Projects, TLAPS, SequenceTheorems

-----------------------------------------------------------------------------
(* Types.  current_state has a value because one row is always active.     *)

CallRecord == [at: Places, kind: Kinds, change: Changes, state: State, handoff: HandoffFile]

\* Where each kind of call goes.
Fits(r) ==
  /\ r.at = "stage" => r.kind = "update" /\ r.change \in Items
  /\ r.at = "apply" => r.kind \in {"create", "update", "approve"}
  /\ r.at = "undo" => r.kind = "rollback" /\ r.change \in Items
  /\ r.at = "event" => /\ r.kind \in {"create", "update", "approve", "rollback"}
                       /\ r.kind = "rollback" => r.change \in Items
  /\ r.at = "persist" => /\ r.kind \in {"approve", "reject", "rollback"}
                         /\ r.change \in Items
  /\ r.at \in {"apply", "event"} => (r.kind = "create" <=> r.change = "created")
  /\ r.kind = "approve" => r.change \in Items

\* The daemon refreshes handoffs only.
DaemonFits == call["daemon"].at \in {"idle", "hash", "refresh"}

\* One row is active, the last.
LastActive(r) ==
  /\ r # <<>>
  /\ {n \in DOMAIN r : r[n].status = "active"} = {Len(r)}

TypeInv ==
  /\ TypeOK
  /\ Fits(call["command"]) /\ DaemonFits
  /\ Exists => LastActive(rows)
  /\ \A c \in applied : before[c].files.state # "missing" => LastActive(before[c].rows)

SnapshotType == [rows: Seq(Row), index: State, files: FilePair]

LEMMA ConstantTypes ==
  /\ NoHandoff \in HandoffFile /\ NoFiles \in FilePair /\ NoSnapshot \in SnapshotType
  /\ Idle \in CallRecord /\ Fits(Idle)
  /\ \A c \in Changes : Handoff(c) \in HandoffFile
<1>1. NoHandoff \in HandoffFile /\ \A c \in Changes : Handoff(c) \in HandoffFile
  BY DEF NoHandoff, HandoffFile, Handoff, State
<1>2. NoFiles \in FilePair
  BY <1>1 DEF NoFiles, FilePair, State
<1>3. NoSnapshot \in SnapshotType
  BY <1>2 DEF NoSnapshot, SnapshotType, State
<1>4. Idle \in CallRecord /\ Fits(Idle)
  BY <1>1 DEF Idle, CallRecord, Places, Kinds, State, Changes, Fits
<1> QED
  BY <1>1, <1>2, <1>3, <1>4

\* A step that gives one caller a new record leaves the other's.
LEMMA CallStep ==
  ASSUME TypeInv, NEW p \in Callers, NEW r \in CallRecord,
         p = "command" => Fits(r), p = "daemon" => r.at \in {"idle", "hash", "refresh"},
         call' = [call EXCEPT ![p] = r]
  PROVE  /\ call' \in [Callers -> CallRecord]
         /\ Fits(call["command"])' /\ DaemonFits'
         /\ call'[p] = r /\ \A q \in Callers \ {p} : call'[q] = call[q]
<1>1. call \in [Callers -> CallRecord] /\ "command" \in Callers /\ "daemon" \in Callers
  BY DEF TypeInv, TypeOK, CallRecord, Callers
<1>2. /\ call' \in [Callers -> CallRecord]
      /\ call'[p] = r /\ \A q \in Callers \ {p} : call'[q] = call[q]
  BY <1>1
<1>3. Fits(call'["command"])
  <2>1. CASE p = "command"
    BY <2>1, <1>2
  <2>2. CASE p # "command"
    BY <2>2, <1>1, <1>2 DEF TypeInv
  <2> QED BY <2>1, <2>2
<1>4. DaemonFits'
  BY <1>1, <1>2 DEF DaemonFits, TypeInv
<1> QED BY <1>2, <1>3, <1>4 DEF Fits

LEMMA ReturnsStep ==
  ASSUME TypeInv, NEW p \in Callers, Returns(p)
  PROVE  /\ call' \in [Callers -> CallRecord]
         /\ Fits(call["command"])' /\ DaemonFits'
         /\ call'[p] = Idle /\ \A q \in Callers \ {p} : call'[q] = call[q]
<1>1. Idle.at = "idle"
  BY DEF Idle
<1> QED
  BY <1>1, ConstantTypes, CallStep DEF Returns

\* A call that moves on.
LEMMA GotoStep ==
  ASSUME TypeInv, NEW label \in Places, Goto("command", label),
         Fits([at |-> label, kind |-> call["command"].kind,
               change |-> call["command"].change])
  PROVE  /\ call' \in [Callers -> CallRecord]
         /\ Fits(call["command"])' /\ DaemonFits'
         /\ call'["command"].at = label
         /\ call'["command"].kind = call["command"].kind
         /\ call'["command"].change = call["command"].change
         /\ call'["daemon"] = call["daemon"]
<1> DEFINE r == [call["command"] EXCEPT !.at = label]
<1>1. /\ r \in CallRecord /\ r.at = label /\ r.kind = call["command"].kind
      /\ r.change = call["command"].change
  BY DEF TypeInv, TypeOK, CallRecord, Callers
<1>2. call' = [call EXCEPT !["command"] = r]
  BY DEF Goto
<1> HIDE DEF r
<1>3. Fits(r)
  BY <1>1 DEF Fits
<1>4. "command" \in Callers /\ "daemon" \in Callers \ {"command"}
  BY DEF Callers
<1> QED
  BY <1>1, <1>2, <1>3, <1>4, CallStep

\* A command that begins.
LEMMA BeginsStep ==
  ASSUME TypeInv, NEW kind \in Kinds, NEW c \in Changes, NEW label \in Places,
         Begins(kind, c, label), Fits([at |-> label, kind |-> kind, change |-> c])
  PROVE  /\ call' \in [Callers -> CallRecord]
         /\ Fits(call["command"])' /\ DaemonFits'
         /\ call["command"].at = "idle"
         /\ call'["command"].at = label /\ call'["command"].kind = kind
         /\ call'["command"].change = c
         /\ call'["daemon"] = call["daemon"]
<1> DEFINE r == [Idle EXCEPT !.at = label, !.kind = kind, !.change = c]
<1>1. r \in CallRecord /\ r.at = label /\ r.kind = kind /\ r.change = c
  BY ConstantTypes DEF CallRecord, Idle
<1>2. call' = [call EXCEPT !["command"] = r] /\ call["command"].at = "idle"
  BY DEF Begins
<1> HIDE DEF r
<1>3. Fits(r)
  BY <1>1 DEF Fits
<1>4. "command" \in Callers /\ "daemon" \in Callers \ {"command"}
  BY DEF Callers
<1> QED
  BY <1>1, <1>2, <1>3, <1>4, CallStep

\* The rows that a change writes.
LEMMA WrittenRows ==
  ASSUME rows \in Seq(Row), NEW c \in Changes
  PROVE  /\ Written(c) \in Seq(Row) /\ LastActive(Written(c))
         /\ Written(c)[Len(Written(c))].of = c
<1> DEFINE past == [n \in DOMAIN rows |-> [rows[n] EXCEPT !.status = "past"]]
           last == [of |-> c, status |-> "active"]
<1>1. \A n \in DOMAIN rows : [rows[n] EXCEPT !.status = "past"] \in Row
                             /\ [rows[n] EXCEPT !.status = "past"].status = "past"
  <2> SUFFICES ASSUME NEW n \in DOMAIN rows
               PROVE  /\ [rows[n] EXCEPT !.status = "past"] \in Row
                      /\ [rows[n] EXCEPT !.status = "past"].status = "past"
    OBVIOUS
  <2>1. rows[n] \in Row
    BY ElementOfSeq
  <2> QED
    BY <2>1 DEF Row
<1>2. DOMAIN rows = 1 .. Len(rows) /\ Len(rows) \in Nat
  BY LenProperties
<1>3. past \in [1 .. Len(rows) -> Row] /\ \A n \in 1 .. Len(rows) : past[n].status = "past"
  BY <1>1, <1>2
<1>4. past \in Seq(Row) /\ Len(past) = Len(rows)
  BY <1>2, <1>3, IsASeq, LenProperties
<1>5. last \in Row /\ last.status = "active" /\ last.of = c
  BY DEF Row, State
<1> HIDE DEF past, last
<1>6. /\ Append(past, last) \in Seq(Row)
      /\ Len(Append(past, last)) = Len(rows) + 1
      /\ Append(past, last)[Len(rows) + 1] = last
      /\ \A n \in 1 .. Len(rows) : Append(past, last)[n] = past[n]
      /\ DOMAIN Append(past, last) = 1 .. Len(rows) + 1
  BY <1>2, <1>4, <1>5, AppendProperties, LenProperties
<1>7. LastActive(Append(past, last))
  BY <1>2, <1>3, <1>5, <1>6 DEF LastActive
<1>8. Written(c) = Append(past, last)
  BY DEF Written, past, last
<1> QED
  BY <1>5, <1>6, <1>7, <1>8

\* The row that current_state finds.
LEMMA CurrentRow ==
  ASSUME rows \in Seq(Row), LastActive(rows)
  PROVE  CurrentState = rows[Len(rows)].of /\ CurrentState \in State
<1>1. DOMAIN rows = 1 .. Len(rows) /\ Len(rows) \in Nat
  BY LenProperties
<1>2. Len(rows) \in DOMAIN rows /\ rows[Len(rows)].status = "active"
  BY DEF LastActive
<1>3. \A m \in Len(rows) + 1 .. Len(rows) : rows[m].status # "active"
  BY <1>1
<1>4. \A n \in DOMAIN rows : rows[n].status = "active" => n = Len(rows)
  BY DEF LastActive
<1>5. (CHOOSE n \in DOMAIN rows : /\ rows[n].status = "active"
                                  /\ \A m \in n + 1 .. Len(rows) : rows[m].status # "active")
      = Len(rows)
  BY <1>2, <1>3, <1>4
<1>6. CurrentState = rows[Len(rows)].of
  BY <1>5 DEF CurrentState
<1>7. rows[Len(rows)] \in Row
  BY <1>2, ElementOfSeq
<1> QED
  BY <1>6, <1>7 DEF Row

\* The states that a rebuild takes from the ledger.
LEMMA ReplayedStates ==
  ASSUME ledger \in Seq(Event), state_md \in State
  PROVE  /\ Replayed \in Seq(State) /\ Replayed # <<>>
         /\ ledger # <<>> => Replayed[Len(Replayed)] = ledger[Len(ledger)].shows
<1>1. CASE ledger = <<>>
  <2>1. Replayed = <<state_md>>
    BY <1>1 DEF Replayed, FromMarkdown
  <2> QED
    BY <1>1, <2>1
<1>2. CASE ledger # <<>>
  <2>1. DOMAIN ledger = 1 .. Len(ledger) /\ Len(ledger) \in Nat \ {0}
    BY <1>2, LenProperties, EmptySeq
  <2>2. \A n \in 1 .. Len(ledger) : ledger[n].shows \in State
    <3>1. \A n \in 1 .. Len(ledger) : ledger[n] \in Event
      BY <2>1, ElementOfSeq
    <3> QED BY <3>1 DEF Event
  <2>3. Replayed = [n \in 1 .. Len(ledger) |-> ledger[n].shows]
    BY <1>2, <2>1 DEF Replayed
  <2>4. Replayed \in Seq(State) /\ DOMAIN Replayed = 1 .. Len(ledger)
    BY <2>1, <2>2, <2>3, IsASeq
  <2>5. Len(Replayed) = Len(ledger)
    BY <2>1, <2>4, LenProperties
  <2> QED
    BY <2>1, <2>3, <2>4, <2>5
<1> QED
  BY <1>1, <1>2

\* The rows that it makes of them.
RebuiltRows ==
  [n \in DOMAIN Replayed |->
     [of |-> Replayed[n], status |-> IF n = Len(Replayed) THEN "active" ELSE "past"]]

LEMMA RebuiltRowsActive ==
  ASSUME ledger \in Seq(Event), state_md \in State
  PROVE  /\ RebuiltRows \in Seq(Row) /\ LastActive(RebuiltRows)
         /\ RebuiltRows[Len(RebuiltRows)].of = Replayed[Len(Replayed)]
         /\ Replayed[Len(Replayed)] \in State
<1>1. Replayed \in Seq(State) /\ Replayed # <<>>
  BY ReplayedStates
<1> HIDE DEF Replayed
<1>2. DOMAIN Replayed = 1 .. Len(Replayed) /\ Len(Replayed) \in Nat \ {0}
  BY <1>1, LenProperties, EmptySeq
<1>3. \A n \in 1 .. Len(Replayed) : Replayed[n] \in State
  BY <1>1, <1>2, ElementOfSeq
<1>4. RebuiltRows \in Seq(Row) /\ DOMAIN RebuiltRows = 1 .. Len(Replayed)
  BY <1>2, <1>3, IsASeq DEF RebuiltRows, Row
<1>5. Len(RebuiltRows) = Len(Replayed) /\ RebuiltRows # <<>>
  BY <1>2, <1>4, LenProperties
<1>6. \A n \in 1 .. Len(Replayed) : /\ RebuiltRows[n].of = Replayed[n]
                                    /\ RebuiltRows[n].status = "active" <=> n = Len(Replayed)
  BY <1>2 DEF RebuiltRows
<1> HIDE DEF RebuiltRows
<1>7. {n \in DOMAIN RebuiltRows : RebuiltRows[n].status = "active"} = {Len(RebuiltRows)}
  <2>1. \A n \in DOMAIN RebuiltRows :
          RebuiltRows[n].status = "active" <=> n = Len(RebuiltRows)
    BY <1>4, <1>5, <1>6
  <2>2. Len(RebuiltRows) \in DOMAIN RebuiltRows
    BY <1>2, <1>4, <1>5
  <2> QED
    BY <2>1, <2>2
<1> QED
  BY <1>2, <1>3, <1>4, <1>5, <1>6, <1>7 DEF LastActive

\* What a new event shows.
NewEvents ==
  IF call["command"].kind = "rollback" THEN CompensatingEvent(call["command"].change)
                                       ELSE AppliedEvent(call["command"].change)

LEMMA NewEventsType ==
  ASSUME ledger \in Seq(Event), call["command"].change \in Changes
  PROVE  NewEvents \in Seq(Event)
<1> DEFINE c == call["command"].change
<1>1. AppliedEvent(c) \in Seq(Event)
  <2>1. [of |-> c, status |-> "applied", shows |-> c] \in Event
    BY DEF Event, State
  <2> QED
    BY <2>1 DEF AppliedEvent
<1>2. CompensatingEvent(c) \in Seq(Event)
  <2>1. CASE Recorded(c) \ {1} = {}
    BY <2>1 DEF CompensatingEvent
  <2>2. CASE Recorded(c) \ {1} # {}
    <3> DEFINE n == CHOOSE n \in Recorded(c) \ {1} : TRUE
    <3>1. n \in Recorded(c) \ {1}
      BY <2>2
    <3>2. DOMAIN ledger = 1 .. Len(ledger) /\ Len(ledger) \in Nat
      BY LenProperties
    <3>3. n - 1 \in DOMAIN ledger
      BY <3>1, <3>2 DEF Recorded
    <3>4. ledger[n - 1] \in Event
      BY <3>3, ElementOfSeq
    <3>5. [of |-> c, status |-> "rollback", shows |-> ledger[n - 1].shows] \in Event
      BY <3>4 DEF Event
    <3>6. CompensatingEvent(c) = <<[of |-> c, status |-> "rollback",
                                    shows |-> ledger[n - 1].shows]>>
      BY <2>2 DEF CompensatingEvent
    <3> QED
      BY <3>5, <3>6
  <2> QED
    BY <2>1, <2>2
<1> QED
  BY <1>1, <1>2 DEF NewEvents

LEMMA NewStatusType ==
  \A kind \in Kinds : NewStatus(kind) \in {"applied", "rejected", "rolled_back"}
BY DEF NewStatus, Kinds

\* The variables that most steps leave alone.
Unread == <<state, ledger, item, operations, cut, deaths>>

LEMMA CallOnly ==
  ASSUME TypeInv, call' \in [Callers -> CallRecord],
         Fits(call["command"])', DaemonFits', UNCHANGED Unread
  PROVE  TypeInv'
BY DEF TypeInv, TypeOK, Unread, state, operations, CallRecord, Exists, LastActive

LEMMA TypeInit == Init => TypeInv
<1> SUFFICES ASSUME Init PROVE TypeInv
  OBVIOUS
<1>1. call \in [Callers -> CallRecord] /\ Fits(call["command"]) /\ DaemonFits
  BY ConstantTypes DEF Init, Callers, DaemonFits, Idle
<1>2. rows \in Seq(Row) /\ ledger \in Seq(Event)
  BY DEF Init
<1>3. TypeOK
  <2>1. index \in State /\ state_md \in State /\ handoff \in HandoffFile
    BY ConstantTypes DEF Init, State
  <2>2. /\ item \in [Items -> {"absent", "pending", "applied", "rejected", "rolled_back"}]
        /\ applied \subseteq Changes /\ deaths \in 0 .. MaxDeaths
    BY BoundAssumption DEF Init
  <2>4. cut \in BOOLEAN
    BY DEF Init
  <2>3. /\ proposal \in [Changes -> FilePair]
        /\ before \in [Changes -> SnapshotType]
    BY ConstantTypes DEF Init
  <2> QED
    BY <1>1, <1>2, <2>1, <2>2, <2>3, <2>4 DEF TypeOK, CallRecord, SnapshotType
<1> QED
  BY <1>1, <1>3 DEF TypeInv, Init, Exists

LEMMA BeginCreateType == TypeInv /\ BeginCreate => TypeInv'
<1> SUFFICES ASSUME TypeInv, BeginCreate PROVE TypeInv'
  OBVIOUS
<1>1. /\ call' \in [Callers -> CallRecord] /\ Fits(call["command"])' /\ DaemonFits'
  BY BeginsStep DEF BeginCreate, Kinds, Places, Changes, Fits
<1> QED
  BY <1>1, CallOnly DEF BeginCreate, Unread

LEMMA BeginUpdateType == \A c \in Changes : TypeInv /\ BeginUpdate(c) => TypeInv'
<1> SUFFICES ASSUME TypeInv, NEW c \in Changes, BeginUpdate(c) PROVE TypeInv'
  OBVIOUS
<1> DEFINE label == IF c \in Items THEN "stage" ELSE "apply"
<1>1. label \in Places /\ Fits([at |-> label, kind |-> "update", change |-> c])
  BY DEF Fits, Places, BeginUpdate
<1>2. /\ call' \in [Callers -> CallRecord] /\ Fits(call["command"])' /\ DaemonFits'
  BY <1>1, BeginsStep DEF BeginUpdate, Kinds
<1>3. Files \in FilePair
  BY DEF Files, FilePair, TypeInv, TypeOK
<1>4. proposal' \in [Changes -> FilePair]
  BY <1>3 DEF BeginUpdate, TypeInv, TypeOK
<1> QED
  BY <1>2, <1>4 DEF BeginUpdate, TypeInv, TypeOK, state, CallRecord, Exists, LastActive

LEMMA DecisionType ==
  \A i \in Items :
    TypeInv /\ (BeginApprove(i) \/ BeginReject(i) \/ BeginRollback(i)) => TypeInv'
<1> SUFFICES ASSUME TypeInv, NEW i \in Items,
                    BeginApprove(i) \/ BeginReject(i) \/ BeginRollback(i)
             PROVE  TypeInv'
  OBVIOUS
<1>1. i \in Changes /\ i # "created"
  BY ChangeAssumption DEF Changes
<1>2. /\ call' \in [Callers -> CallRecord] /\ Fits(call["command"])' /\ DaemonFits'
  <2>1. CASE BeginApprove(i)
    BY <1>1, <2>1, BeginsStep DEF BeginApprove, Kinds, Places, Fits
  <2>2. CASE BeginReject(i)
    BY <1>1, <2>2, BeginsStep DEF BeginReject, Kinds, Places, Fits
  <2>3. CASE BeginRollback(i)
    BY <1>1, <2>3, BeginsStep DEF BeginRollback, Kinds, Places, Fits
  <2> QED
    BY <2>1, <2>2, <2>3
<1> QED
  BY <1>2, CallOnly DEF BeginApprove, BeginReject, BeginRollback, Unread

LEMMA ApplyType == \A c \in Changes : TypeInv /\ Apply(c) => TypeInv'
<1> SUFFICES ASSUME TypeInv, NEW c \in Changes, Apply(c) PROVE TypeInv'
  OBVIOUS
<1>1. /\ call' \in [Callers -> CallRecord] /\ Fits(call["command"])' /\ DaemonFits'
  BY GotoStep DEF Apply, Indexed, Snapshot, Does, Places, Fits, TypeInv
<1>2. rows' \in Seq(Row) /\ LastActive(rows')
  BY WrittenRows DEF Apply, Indexed, Snapshot, TypeInv, TypeOK
<1>3. index' \in State /\ state_md' \in State /\ handoff' \in HandoffFile
  BY ConstantTypes DEF Apply, Indexed, Snapshot, State
<1> DEFINE snapshot == [rows |-> rows, index |-> index, files |-> Files]
<1>4. /\ snapshot \in SnapshotType /\ snapshot.rows = rows
      /\ snapshot.files.state = state_md
  BY DEF Files, FilePair, SnapshotType, TypeInv, TypeOK
<1>5. before' = [before EXCEPT ![c] = snapshot] /\ before \in [Changes -> SnapshotType]
  BY DEF Apply, Indexed, Snapshot, TypeInv, TypeOK, SnapshotType
<1> HIDE DEF snapshot
<1>6. /\ before' \in [Changes -> SnapshotType] /\ before'[c] = snapshot
      /\ \A d \in Changes \ {c} : before'[d] = before[d]
  BY <1>4, <1>5
<1>7. applied' = applied \cup {c} /\ applied \subseteq Changes
  BY DEF Apply, Indexed, Snapshot, TypeInv, TypeOK
<1>8. \A d \in applied' : before'[d].files.state # "missing" => LastActive(before'[d].rows)
  <2> SUFFICES ASSUME NEW d \in applied', before'[d].files.state # "missing"
               PROVE  LastActive(before'[d].rows)
    OBVIOUS
  <2>1. CASE d = c
    BY <2>1, <1>4, <1>6 DEF TypeInv, Exists
  <2>2. CASE d # c
    BY <2>2, <1>6, <1>7 DEF TypeInv
  <2> QED
    BY <2>1, <2>2
<1>9. TypeOK'
  BY <1>1, <1>2, <1>3, <1>6, <1>7 DEF Apply, Indexed, Snapshot, TypeInv, TypeOK, CallRecord, SnapshotType
<1> QED
  BY <1>1, <1>2, <1>8, <1>9 DEF TypeInv, LastActive

LEMMA UndoType == \A c \in Changes : TypeInv /\ Undo(c) => TypeInv'
<1> SUFFICES ASSUME TypeInv, NEW c \in Changes, Undo(c) PROVE TypeInv'
  OBVIOUS
<1>1. /\ call' \in [Callers -> CallRecord] /\ Fits(call["command"])' /\ DaemonFits'
  <2>1. call["command"].kind = "rollback" /\ call["command"].change \in Items
    BY DEF Undo, Does, Fits, TypeInv
  <2>2. call["command"].change # "created"
    BY <2>1, ChangeAssumption
  <2> QED
    BY <2>1, <2>2, GotoStep DEF Undo, Places, Fits
<1>2. c \in applied
  BY DEF Undo, PreconditionsHold, Does
<1>3. before[c] \in SnapshotType
  BY DEF TypeInv, TypeOK, SnapshotType
<1>4. rows' \in Seq(Row) /\ index' \in State /\ state_md' \in State /\ handoff' \in HandoffFile
  BY <1>3 DEF Undo, SnapshotType, FilePair
<1>5. Exists' => LastActive(rows')
  BY <1>2 DEF Undo, Exists, TypeInv
<1>6. /\ before' \in [Changes -> SnapshotType]
      /\ \A d \in Changes \ {c} : before'[d] = before[d]
  BY ConstantTypes DEF Undo, TypeInv, TypeOK, SnapshotType
<1>7. \A d \in applied' : before'[d].files.state # "missing" => LastActive(before'[d].rows)
  BY <1>6 DEF Undo, TypeInv, TypeOK
<1>8. TypeOK'
  BY <1>1, <1>4, <1>6 DEF Undo, TypeInv, TypeOK, CallRecord, SnapshotType
<1> QED
  BY <1>1, <1>5, <1>7, <1>8 DEF TypeInv, LastActive

LEMMA AppendType == \A c \in Changes : TypeInv /\ AppendEvent(c) => TypeInv'
<1> SUFFICES ASSUME TypeInv, NEW c \in Changes, AppendEvent(c) PROVE TypeInv'
  OBVIOUS
<1>1. /\ call' \in [Callers -> CallRecord] /\ Fits(call["command"])' /\ DaemonFits'
  <2>1. CASE call["command"].kind \in {"create", "update"}
    BY <2>1, ReturnsStep DEF AppendEvent, Callers
  <2>2. CASE call["command"].kind \notin {"create", "update"}
    <3>1. /\ call["command"].kind \in {"approve", "rollback"}
          /\ call["command"].change \in Items
      BY <2>2 DEF AppendEvent, Does, Fits, TypeInv
    <3> QED
      BY <2>2, <3>1, GotoStep DEF AppendEvent, Places, Fits
  <2> QED
    BY <2>1, <2>2
<1>2. ledger' = ledger \o NewEvents
  BY DEF AppendEvent, NewEvents, Does
<1>3. ledger' \in Seq(Event)
  <2>1. ledger \in Seq(Event) /\ call["command"].change \in Changes
    BY DEF TypeInv, TypeOK, AppendEvent, Does
  <2>2. NewEvents \in Seq(Event)
    BY <2>1, NewEventsType
  <2> QED
    BY <1>2, <2>1, <2>2, ConcatProperties
<1> QED
  BY <1>1, <1>3 DEF AppendEvent, TypeInv, TypeOK, state, operations, CallRecord, Exists,
                    LastActive

LEMMA ItemType ==
  \A i \in Items : TypeInv /\ (Stage(i) \/ Persist(i)) => TypeInv'
<1> SUFFICES ASSUME TypeInv, NEW i \in Items, Stage(i) \/ Persist(i) PROVE TypeInv'
  OBVIOUS
<1>1. /\ call' \in [Callers -> CallRecord] /\ Fits(call["command"])' /\ DaemonFits'
  BY ReturnsStep DEF Stage, Persist, Callers
<1>2. NewStatus(call["command"].kind) \in {"applied", "rejected", "rolled_back"}
  BY NewStatusType DEF TypeInv, TypeOK, Callers
<1>3. item' \in [Items -> {"absent", "pending", "applied", "rejected", "rolled_back"}]
  BY <1>2 DEF Stage, Persist, TypeInv, TypeOK
<1> QED
  BY <1>1, <1>3 DEF Stage, Persist, TypeInv, TypeOK, state, operations, CallRecord, Exists,
                    LastActive

LEMMA RefusedType ==
  \A p \in Callers :
    TypeInv /\ (Refused \/ Contended(p) \/ RefreshRefused(p)) => TypeInv'
<1> SUFFICES ASSUME TypeInv, NEW p \in Callers, Refused \/ Contended(p) \/ RefreshRefused(p)
             PROVE  TypeInv'
  OBVIOUS
<1>1. /\ call' \in [Callers -> CallRecord] /\ Fits(call["command"])' /\ DaemonFits'
  BY ReturnsStep DEF Refused, Contended, RefreshRefused, Callers
<1> QED
  BY <1>1, CallOnly DEF Refused, Contended, RefreshRefused, Unread

LEMMA ReadStateType == \A p \in Callers : TypeInv /\ ReadState(p) => TypeInv'
<1> SUFFICES ASSUME TypeInv, NEW p \in Callers, ReadState(p) PROVE TypeInv'
  OBVIOUS
<1> DEFINE r == [Idle EXCEPT !.at = "hash", !.kind = "handoff", !.state = CurrentState]
<1>1. CurrentState \in State
  BY CurrentRow DEF ReadState, TypeInv, TypeOK
<1> HIDE DEF CurrentState
<1>2. r \in CallRecord /\ r.at = "hash" /\ r.kind = "handoff"
  BY <1>1, ConstantTypes DEF CallRecord, Idle, Places, Kinds
<1>3. call' = [call EXCEPT ![p] = r]
  BY DEF ReadState
<1> HIDE DEF r
<1>4. Fits(r)
  BY <1>2 DEF Fits
<1>5. /\ call' \in [Callers -> CallRecord] /\ Fits(call["command"])' /\ DaemonFits'
  BY <1>2, <1>3, <1>4, CallStep
<1> QED
  BY <1>5, CallOnly DEF ReadState, Unread

LEMMA HashHandoffType == \A p \in Callers : TypeInv /\ HashHandoff(p) => TypeInv'
<1> SUFFICES ASSUME TypeInv, NEW p \in Callers, HashHandoff(p) PROVE TypeInv'
  OBVIOUS
<1> DEFINE r == [call[p] EXCEPT !.at = "refresh", !.handoff = handoff]
<1>1. /\ r \in CallRecord /\ r.at = "refresh" /\ r.kind = call[p].kind
      /\ r.change = call[p].change
  BY DEF TypeInv, TypeOK, CallRecord, Places
<1>2. call' = [call EXCEPT ![p] = r]
  BY DEF HashHandoff
<1> HIDE DEF r
<1>3. p = "command" => Fits(r)
  BY <1>1 DEF Fits, TypeInv
<1>4. /\ call' \in [Callers -> CallRecord] /\ Fits(call["command"])' /\ DaemonFits'
  BY <1>1, <1>2, <1>3, CallStep
<1> QED
  BY <1>4, CallOnly DEF HashHandoff, Unread

LEMMA RefreshType == \A p \in Callers : TypeInv /\ Refresh(p) => TypeInv'
<1> SUFFICES ASSUME TypeInv, NEW p \in Callers, Refresh(p) PROVE TypeInv'
  OBVIOUS
<1>1. /\ call' \in [Callers -> CallRecord] /\ Fits(call["command"])' /\ DaemonFits'
  BY ReturnsStep DEF Refresh
<1>2. call[p].state \in State
  BY DEF TypeInv, TypeOK
<1>3. handoff' \in HandoffFile
  BY <1>2 DEF Refresh, HandoffFile
<1> QED
  BY <1>1, <1>3 DEF Refresh, TypeInv, TypeOK, operations, CallRecord, Exists, LastActive

LEMMA RebuildType == TypeInv /\ Rebuild => TypeInv'
<1> SUFFICES ASSUME TypeInv, Rebuild PROVE TypeInv'
  OBVIOUS
<1>1. /\ rows' = RebuiltRows /\ rows' \in Seq(Row) /\ LastActive(rows') /\ index' \in State
  BY RebuiltRowsActive DEF Rebuild, RebuiltRows, TypeInv, TypeOK
<1>2. item' \in [Items -> {"absent", "pending", "applied", "rejected", "rolled_back"}]
  BY DEF Rebuild
<1> QED
  BY <1>1, <1>2 DEF Rebuild, TypeInv, TypeOK, operations, CallRecord, Exists, LastActive,
                    DaemonFits, Fits

LEMMA DieType == \A p \in Callers : TypeInv /\ Die(p) => TypeInv'
<1> SUFFICES ASSUME TypeInv, NEW p \in Callers, Die(p) PROVE TypeInv'
  OBVIOUS
<1>1. /\ call' \in [Callers -> CallRecord] /\ Fits(call["command"])' /\ DaemonFits'
  BY ReturnsStep DEF Die
<1>2. deaths' \in 0 .. MaxDeaths
  BY BoundAssumption DEF Die, TypeInv, TypeOK
<1>3. cut' \in BOOLEAN
  BY DEF Die
<1> QED
  BY <1>1, <1>2, <1>3 DEF Die, TypeInv, TypeOK, state, operations, CallRecord, Exists,
                          LastActive

LEMMA TypeStep == TypeInv /\ [Next]_vars => TypeInv'
<1> SUFFICES ASSUME TypeInv, [Next]_vars PROVE TypeInv'
  OBVIOUS
<1>1. CASE UNCHANGED vars
  BY <1>1 DEF vars, state, operations, TypeInv, TypeOK, Exists, LastActive, DaemonFits, Fits
<1>2. CASE Call
  BY <1>2, BeginCreateType, BeginUpdateType, DecisionType DEF Call
<1>3. CASE Step
  BY <1>3, ApplyType, UndoType, AppendType, ItemType, RefusedType DEF Step, Callers
<1>4. CASE Rebuild
  BY <1>4, RebuildType
<1>5. ASSUME NEW p \in Callers, ReadState(p) \/ Going(p) \/ Die(p) PROVE TypeInv'
  BY <1>5, ReadStateType, HashHandoffType, RefusedType, RefreshType, DieType DEF Going
<1> QED
  BY <1>1, <1>2, <1>3, <1>4, <1>5 DEF Next

\* Every variable keeps its type; in particular create_handoff always finds an active row.
THEOREM Types == Spec => []TypeOK
<1>1. TypeInv => TypeOK
  BY DEF TypeInv
<1> QED
  BY <1>1, TypeInit, TypeStep, PTL DEF Spec

-----------------------------------------------------------------------------
(* The handoff.  Each rendering is a file of its own: what a proposal was  *)
(* made against does not come back once its operation is applied, until    *)
(* that operation is rolled back.  So no change is applied twice.          *)

\* A handoff that came with a change is that of the change.
FromChange(h) == h.by \in Changes => h = Handoff(h.by)

Chain ==
  /\ FromChange(handoff)
  /\ handoff.by \in Changes => handoff.by \in applied
  /\ \A c \in Changes : FromChange(proposal[c].handoff)
  /\ \A c \in applied :
       /\ handoff # proposal[c].handoff
       /\ proposal[c].handoff.by \in Changes => proposal[c].handoff.by \in applied
       /\ before[c].files = proposal[c]
  /\ \A c, d \in applied : c # d => proposal[c].handoff # proposal[d].handoff

\* What has not been planned has not left anything anywhere.
Unplanned ==
  /\ proposal["created"] = NoFiles
  /\ \A c \in Changes \ {"created"} :
       proposal[c].state = "missing" =>
         c \notin applied /\ Recorded(c) = {} /\ (c \in Items => item[c] = "absent")
  /\ ~ Exists => ledger = <<>>

\* A command works on what has been planned.
Planned ==
  /\ /\ call["command"].at \in {"stage", "apply", "undo", "event", "persist"}
     /\ call["command"].kind # "create"
     => proposal[call["command"].change].state # "missing"
  /\ call["command"].at = "event" => Exists

HandoffInv == Chain /\ Unplanned /\ Planned

LEMMA MissingIsNoChange == "missing" \notin Changes /\ "refresh" \notin Changes
BY ChangeAssumption DEF Changes

LEMMA HandoffInit == Init => HandoffInv
<1> SUFFICES ASSUME Init PROVE HandoffInv
  OBVIOUS
<1>1. FromChange(NoHandoff) /\ NoHandoff.by \notin Changes
  BY MissingIsNoChange DEF FromChange, NoHandoff
<1>2. \A c \in Changes : proposal[c] = NoFiles
  BY DEF Init
<1>3. \A c \in Changes : proposal[c].handoff = NoHandoff
  BY <1>2 DEF NoFiles
<1>4. Chain
  BY <1>1, <1>3 DEF Chain, Init
<1>5. Unplanned
  BY <1>2 DEF Unplanned, Init, Recorded, Exists, Changes
<1>6. Planned
  BY DEF Planned, Init, Idle, Callers
<1> QED
  BY <1>4, <1>5, <1>6 DEF HandoffInv

\* Chain and Unplanned do not look at the calls.
LEMMA ChainFrame ==
  ASSUME Chain, UNCHANGED <<handoff, operations>> PROVE Chain'
BY DEF Chain, FromChange, operations

LEMMA UnplannedFrame ==
  ASSUME Unplanned, UNCHANGED <<state, ledger, item, operations>> PROVE Unplanned'
BY DEF Unplanned, operations, state, Recorded, Exists

LEMMA ApplyChain == \A c \in Changes : TypeInv /\ HandoffInv /\ Apply(c) => Chain'
<1> SUFFICES ASSUME TypeInv, HandoffInv, NEW c \in Changes, Apply(c) PROVE Chain'
  OBVIOUS
<1>1. proposal[c] = Files /\ handoff = proposal[c].handoff
  BY DEF Apply, Indexed, Snapshot, PreconditionsHold, Does, Files
<1>2. c \notin applied
  BY <1>1 DEF HandoffInv, Chain
<1>3. /\ handoff' = Handoff(c) /\ Handoff(c).by = c /\ applied' = applied \cup {c}
      /\ proposal' = proposal
  BY DEF Apply, Indexed, Snapshot, Handoff
<1>4. before'[c].files = proposal[c] /\ \A d \in Changes \ {c} : before'[d] = before[d]
  BY <1>1 DEF Apply, Indexed, Snapshot, TypeInv, TypeOK
<1>5. \A d \in applied' : Handoff(c) # proposal[d].handoff
  BY <1>1, <1>2, <1>3 DEF HandoffInv, Chain
<1>6. \A d \in applied' :
        proposal[d].handoff.by \in Changes => proposal[d].handoff.by \in applied'
  BY <1>1, <1>3 DEF HandoffInv, Chain
<1>7. \A d, e \in applied' : d # e => proposal[d].handoff # proposal[e].handoff
  BY <1>1, <1>3 DEF HandoffInv, Chain
<1>8. \A d \in applied' : before'[d].files = proposal[d]
  BY <1>3, <1>4 DEF HandoffInv, Chain, TypeInv, TypeOK
<1>9. FromChange(Handoff(c))
  BY <1>3 DEF FromChange
<1> QED
  BY <1>3, <1>5, <1>6, <1>7, <1>8, <1>9 DEF HandoffInv, Chain, FromChange

LEMMA UndoChain == \A c \in Changes : TypeInv /\ HandoffInv /\ Undo(c) => Chain'
<1> SUFFICES ASSUME TypeInv, HandoffInv, NEW c \in Changes, Undo(c) PROVE Chain'
  OBVIOUS
<1>1. c \in applied /\ handoff = Handoff(c)
  BY DEF Undo, PreconditionsHold, Does
<1>2. /\ handoff' = proposal[c].handoff /\ applied' = applied \ {c}
      /\ proposal' = proposal
  BY <1>1 DEF Undo, HandoffInv, Chain
<1>3. \A d \in Changes \ {c} : before'[d] = before[d]
  BY DEF Undo, TypeInv, TypeOK
<1>4. \A d \in applied : proposal[d].handoff.by # c
  <2> SUFFICES ASSUME NEW d \in applied, proposal[d].handoff.by = c PROVE FALSE
    OBVIOUS
  <2>1. d \in Changes
    BY DEF TypeInv, TypeOK
  <2>2. proposal[d].handoff = Handoff(c)
    BY <2>1 DEF HandoffInv, Chain, FromChange
  <2> QED
    BY <1>1, <2>2 DEF HandoffInv, Chain
<1>5. \A d \in applied' :
        proposal[d].handoff.by \in Changes => proposal[d].handoff.by \in applied'
  BY <1>2, <1>4 DEF HandoffInv, Chain
<1>6. handoff'.by \in Changes => handoff'.by \in applied'
  BY <1>1, <1>2, <1>4 DEF HandoffInv, Chain
<1>7. \A d \in applied' : handoff' # proposal[d].handoff /\ before'[d].files = proposal[d]
  BY <1>1, <1>2, <1>3 DEF HandoffInv, Chain, TypeInv, TypeOK
<1>8. \A d, e \in applied' : d # e => proposal[d].handoff # proposal[e].handoff
  BY <1>2 DEF HandoffInv, Chain
<1> QED
  BY <1>2, <1>5, <1>6, <1>7, <1>8 DEF HandoffInv, Chain, FromChange

LEMMA RefreshChain == \A p \in Callers : TypeInv /\ HandoffInv /\ Refresh(p) => Chain'
<1> SUFFICES ASSUME TypeInv, HandoffInv, NEW p \in Callers, Refresh(p) PROVE Chain'
  OBVIOUS
<1>1. PICK s \in Stamps \ Remembered : handoff' = [of |-> call[p].state, by |-> "refresh", at |-> s]
  BY DEF Refresh
<1>2. handoff'.by = "refresh" /\ handoff'.at \notin Remembered
  BY <1>1
<1>3. handoff'.by \notin Changes
  BY <1>2, MissingIsNoChange
<1>4. \A c \in Changes : proposal[c].handoff.at \in Remembered
  BY DEF Remembered
<1>5. \A c \in applied : handoff' # proposal[c].handoff
  BY <1>2, <1>4 DEF TypeInv, TypeOK
<1>6. UNCHANGED operations
  BY DEF Refresh
<1> QED
  BY <1>3, <1>5, <1>6 DEF HandoffInv, Chain, FromChange, operations

LEMMA BeginUpdateChain == \A c \in Changes : TypeInv /\ HandoffInv /\ BeginUpdate(c) => Chain'
<1> SUFFICES ASSUME TypeInv, HandoffInv, NEW c \in Changes, BeginUpdate(c) PROVE Chain'
  OBVIOUS
<1>1. c # "created" /\ proposal[c] = NoFiles
  BY DEF BeginUpdate
<1>2. c \notin applied
  BY <1>1 DEF HandoffInv, Unplanned, NoFiles
<1>3. /\ proposal'[c].handoff = handoff
      /\ \A d \in Changes \ {c} : proposal'[d] = proposal[d]
  BY DEF BeginUpdate, Files, TypeInv, TypeOK
<1>4. UNCHANGED <<handoff, before, applied>>
  BY DEF BeginUpdate, state
<1>5. \A d \in applied : d \in Changes /\ d # c
  BY <1>2 DEF TypeInv, TypeOK
<1>6. \A d \in applied : proposal'[d] = proposal[d]
  BY <1>3, <1>5
<1>7. \A d \in Changes : FromChange(proposal'[d].handoff)
  BY <1>3 DEF HandoffInv, Chain
<1>8. \A d \in applied : /\ handoff # proposal'[d].handoff
                         /\ proposal'[d].handoff.by \in Changes => proposal'[d].handoff.by \in applied
                         /\ before[d].files = proposal'[d]
  BY <1>6 DEF HandoffInv, Chain
<1>9. \A d, e \in applied : d # e => proposal'[d].handoff # proposal'[e].handoff
  BY <1>6 DEF HandoffInv, Chain
<1> QED
  BY <1>4, <1>7, <1>8, <1>9 DEF HandoffInv, Chain, FromChange

LEMMA ChainStep == TypeInv /\ HandoffInv /\ [Next]_vars => Chain'
<1> SUFFICES ASSUME TypeInv, HandoffInv, [Next]_vars PROVE Chain'
  OBVIOUS
<1> USE DEF HandoffInv
<1>1. CASE UNCHANGED vars
  BY <1>1, ChainFrame DEF vars, state
<1>2. CASE Call
  <2>1. CASE BeginCreate
    BY <2>1, ChainFrame DEF BeginCreate, state
  <2>2. ASSUME NEW c \in Changes, BeginUpdate(c) PROVE Chain'
    BY <2>2, BeginUpdateChain
  <2>3. ASSUME NEW i \in Items, BeginApprove(i) \/ BeginReject(i) \/ BeginRollback(i)
        PROVE  Chain'
    BY <2>3, ChainFrame DEF BeginApprove, BeginReject, BeginRollback, state
  <2> QED
    BY <1>2, <2>1, <2>2, <2>3 DEF Call
<1>3. CASE Step
  <2>1. ASSUME NEW c \in Changes, AppendEvent(c) PROVE Chain'
    BY <2>1, ChainFrame DEF AppendEvent, state
  <2>2. ASSUME NEW i \in Items, Stage(i) \/ Persist(i) PROVE Chain'
    BY <2>2, ChainFrame DEF Stage, Persist, state
  <2>3. CASE Refused
    BY <2>3, ChainFrame DEF Refused, state
  <2> QED
    BY <1>3, <2>1, <2>2, <2>3, ApplyChain, UndoChain DEF Step
<1>4. CASE Rebuild
  BY <1>4, ChainFrame DEF Rebuild
<1>5. ASSUME NEW p \in Callers, ReadState(p) \/ Going(p) \/ Die(p) PROVE Chain'
  <2>1. CASE ReadState(p) \/ Contended(p) \/ HashHandoff(p) \/ RefreshRefused(p) \/ Die(p)
    BY <2>1, ChainFrame DEF ReadState, Contended, HashHandoff, RefreshRefused, Die, state
  <2> QED
    BY <1>5, <2>1, RefreshChain DEF Going
<1> QED
  BY <1>1, <1>2, <1>3, <1>4, <1>5 DEF Next

LEMMA RecordedAfter ==
  ASSUME ledger \in Seq(Event), NEW e \in Event, ledger' = Append(ledger, e)
  PROVE  /\ \A n \in DOMAIN ledger : ledger'[n] = ledger[n]
         /\ ledger'[Len(ledger')] = e /\ Len(ledger') = Len(ledger) + 1
         /\ DOMAIN ledger' = 1 .. Len(ledger) + 1
         /\ ledger' # <<>> /\ Len(ledger) \in Nat /\ DOMAIN ledger = 1 .. Len(ledger)
         /\ \A c : e.of # c \/ e.status # "applied" => Recorded(c)' = Recorded(c)
         /\ \A c : e.of = c /\ e.status = "applied" =>
                     Recorded(c)' = Recorded(c) \cup {Len(ledger) + 1}
<1>1. /\ DOMAIN ledger = 1 .. Len(ledger) /\ Len(ledger) \in Nat
      /\ DOMAIN ledger' = 1 .. Len(ledger) + 1 /\ Len(ledger') = Len(ledger) + 1
      /\ \A n \in DOMAIN ledger : ledger'[n] = ledger[n]
      /\ ledger'[Len(ledger) + 1] = e
  BY AppendProperties, LenProperties
<1>2. DOMAIN ledger' = DOMAIN ledger \cup {Len(ledger) + 1}
  BY <1>1
<1>3. \A c : Recorded(c)' = {n \in DOMAIN ledger' : ledger'[n].of = c
                                                   /\ ledger'[n].status = "applied"}
  BY DEF Recorded
<1>4. \A c : e.of # c \/ e.status # "applied" => Recorded(c)' = Recorded(c)
  BY <1>1, <1>2, <1>3 DEF Recorded
<1>5. \A c : e.of = c /\ e.status = "applied" =>
               Recorded(c)' = Recorded(c) \cup {Len(ledger) + 1}
  BY <1>1, <1>2, <1>3 DEF Recorded
<1>6. ledger' # <<>>
  BY <1>1
<1> QED
  BY <1>1, <1>4, <1>5, <1>6

\* An append leaves the ledger as it is or adds one event about the change in hand.
LEMMA AppendCases ==
  ASSUME TypeInv, NEW c \in Changes, AppendEvent(c)
  PROVE  \/ ledger' = ledger /\ (call["command"].kind # "rollback" => Recorded(c) # {})
                             /\ (call["command"].kind = "rollback" => Recorded(c) \ {1} = {})
         \/ /\ call["command"].kind # "rollback" /\ Recorded(c) = {}
            /\ [of |-> c, status |-> "applied", shows |-> c] \in Event
            /\ ledger' = Append(ledger, [of |-> c, status |-> "applied", shows |-> c])
         \/ /\ call["command"].kind = "rollback"
            /\ \E n \in Recorded(c) \ {1} :
                 /\ n - 1 \in DOMAIN ledger
                 /\ [of |-> c, status |-> "rollback", shows |-> ledger[n - 1].shows] \in Event
                 /\ ledger' = Append(ledger, [of |-> c, status |-> "rollback",
                                              shows |-> ledger[n - 1].shows])
<1>1. ledger \in Seq(Event) /\ call["command"].change = c
  BY DEF TypeInv, TypeOK, AppendEvent, Does
<1>2. CASE call["command"].kind # "rollback"
  <2>1. ledger' = ledger \o AppliedEvent(c)
    BY <1>2 DEF AppendEvent
  <2>2. [of |-> c, status |-> "applied", shows |-> c] \in Event
    BY DEF Event, State
  <2>3. CASE Recorded(c) = {}
    <3>1. ledger' = ledger \o <<[of |-> c, status |-> "applied", shows |-> c]>>
      BY <2>1, <2>3 DEF AppliedEvent
    <3>2. ledger' = Append(ledger, [of |-> c, status |-> "applied", shows |-> c])
      BY <1>1, <2>2, <3>1, AppendIsConcat
    <3> QED
      BY <1>2, <2>2, <2>3, <3>2
  <2>4. CASE Recorded(c) # {}
    <3>1. ledger' = ledger \o <<>>
      BY <2>1, <2>4 DEF AppliedEvent
    <3>2. ledger' = ledger
      BY <1>1, <3>1, ConcatEmptySeq
    <3> QED
      BY <1>2, <2>4, <3>2
  <2> QED
    BY <2>3, <2>4
<1>3. CASE call["command"].kind = "rollback"
  <2>1. ledger' = ledger \o CompensatingEvent(c)
    BY <1>3 DEF AppendEvent
  <2>2. CASE Recorded(c) \ {1} = {}
    <3>1. ledger' = ledger \o <<>>
      BY <2>1, <2>2 DEF CompensatingEvent
    <3>2. ledger' = ledger
      BY <1>1, <3>1, ConcatEmptySeq
    <3> QED
      BY <1>3, <2>2, <3>2
  <2>3. CASE Recorded(c) \ {1} # {}
    <3> DEFINE n == CHOOSE n \in Recorded(c) \ {1} : TRUE
               e == [of |-> c, status |-> "rollback", shows |-> ledger[n - 1].shows]
    <3>1. n \in Recorded(c) \ {1}
      BY <2>3
    <3>2. DOMAIN ledger = 1 .. Len(ledger) /\ Len(ledger) \in Nat
      BY <1>1, LenProperties
    <3>3. n - 1 \in DOMAIN ledger
      BY <3>1, <3>2 DEF Recorded
    <3>4. ledger[n - 1] \in Event
      BY <1>1, <3>3, ElementOfSeq
    <3>5. e \in Event
      BY <3>4 DEF Event
    <3>6. CompensatingEvent(c) = <<e>>
      BY <2>3 DEF CompensatingEvent
    <3>7. ledger' = Append(ledger, e)
      BY <1>1, <2>1, <3>5, <3>6, AppendIsConcat
    <3> QED
      BY <1>3, <3>1, <3>3, <3>5, <3>7
  <2> QED
    BY <2>2, <2>3
<1> QED
  BY <1>2, <1>3

\* An append records nothing about another change.
LEMMA AppendOthers ==
  ASSUME TypeInv, NEW c \in Changes, AppendEvent(c)
  PROVE  \A d \in Changes \ {c} : Recorded(d)' = Recorded(d)
<1>1. ledger \in Seq(Event)
  BY DEF TypeInv, TypeOK
<1>2. CASE ledger' = ledger
  BY <1>2 DEF Recorded
<1>3. ASSUME NEW e \in Event, e.of = c, ledger' = Append(ledger, e)
      PROVE  \A d \in Changes \ {c} : Recorded(d)' = Recorded(d)
  BY <1>1, <1>3, RecordedAfter
<1> QED
  BY <1>2, <1>3, AppendCases

LEMMA BusyNotMissing ==
  ASSUME TypeInv, HandoffInv, NEW i \in Items, item[i] # "absent"
  PROVE  proposal[i].state # "missing"
<1>1. i \in Changes \ {"created"}
  BY ChangeAssumption DEF Changes
<1> QED
  BY <1>1 DEF HandoffInv, Unplanned

LEMMA UnplannedStep == TypeInv /\ HandoffInv /\ [Next]_vars => Unplanned'
<1> SUFFICES ASSUME TypeInv, HandoffInv, [Next]_vars PROVE Unplanned'
  OBVIOUS
<1>0. Unplanned
  BY DEF HandoffInv
<1>1. CASE UNCHANGED vars
  BY <1>0, <1>1, UnplannedFrame DEF vars
<1>2. CASE Call
  <2>1. CASE BeginCreate
    BY <1>0, <2>1, UnplannedFrame DEF BeginCreate
  <2>2. ASSUME NEW c \in Changes, BeginUpdate(c) PROVE Unplanned'
    <3>1. /\ proposal'[c].state = state_md /\ c # "created" /\ Exists
          /\ \A d \in Changes \ {c} : proposal'[d] = proposal[d]
          /\ UNCHANGED <<state, ledger, item, applied>>
      BY <2>2 DEF BeginUpdate, Files, TypeInv, TypeOK
    <3>2. "created" \in Changes
      BY DEF Changes
    <3> QED
      BY <1>0, <3>1, <3>2 DEF Unplanned, Exists, Recorded, state
  <2>3. ASSUME NEW i \in Items, BeginApprove(i) \/ BeginReject(i) \/ BeginRollback(i)
        PROVE  Unplanned'
    BY <1>0, <2>3, UnplannedFrame DEF BeginApprove, BeginReject, BeginRollback
  <2> QED
    BY <1>2, <2>1, <2>2, <2>3 DEF Call
<1>3. CASE Step
  <2>1. ASSUME NEW c \in Changes, Apply(c) PROVE Unplanned'
    <3>1. /\ call["command"].at = "apply" /\ call["command"].change = c
          /\ applied' = applied \cup {c} /\ state_md' = c
          /\ UNCHANGED <<ledger, item, proposal>>
      BY <2>1 DEF Apply, Indexed, Snapshot, Does
    <3>2. c # "created" => proposal[c].state # "missing"
      BY <3>1 DEF HandoffInv, Planned, TypeInv, Fits
    <3>3. Exists'
      BY <3>1, MissingIsNoChange DEF Exists
    <3> QED
      BY <1>0, <3>1, <3>2, <3>3 DEF Unplanned, Recorded
  <2>2. ASSUME NEW c \in Changes, Undo(c) PROVE Unplanned'
    <3>1. /\ call["command"].at = "undo" /\ call["command"].change = c /\ c \in applied
          /\ applied' = applied \ {c} /\ state_md' = before[c].files.state
          /\ UNCHANGED <<ledger, item, proposal>>
      BY <2>2 DEF Undo, Does, PreconditionsHold
    <3>2. proposal[c].state # "missing"
      BY <3>1 DEF HandoffInv, Planned, TypeInv, Fits
    <3>3. Exists'
      BY <3>1, <3>2 DEF Exists, HandoffInv, Chain
    <3> QED
      BY <1>0, <3>1, <3>3 DEF Unplanned, Recorded
  <2>3. ASSUME NEW c \in Changes, AppendEvent(c) PROVE Unplanned'
    <3>1. /\ call["command"].at = "event" /\ call["command"].change = c
          /\ UNCHANGED <<state, item, operations>>
      BY <2>3 DEF AppendEvent, Does
    <3>2. c # "created" => proposal[c].state # "missing"
      BY <3>1 DEF HandoffInv, Planned, TypeInv, Fits
    <3>3. Exists
      BY <3>1 DEF HandoffInv, Planned
    <3>4. \A d \in Changes \ {c} : Recorded(d)' = Recorded(d)
      BY <2>3, AppendOthers
    <3> QED
      BY <1>0, <3>1, <3>2, <3>3, <3>4 DEF Unplanned, Exists, operations, state
  <2>4. ASSUME NEW i \in Items, Stage(i) \/ Persist(i) PROVE Unplanned'
    <3>1. /\ call["command"].at \in {"stage", "persist"} /\ call["command"].change = i
          /\ call["command"].kind # "create"
          /\ UNCHANGED <<state, ledger, operations>>
          /\ \A j \in Items \ {i} : item'[j] = item[j]
      BY <2>4 DEF Stage, Persist, Does, TypeInv, TypeOK, Fits
    <3>2. proposal[i].state # "missing"
      BY <3>1 DEF HandoffInv, Planned
    <3> QED
      BY <1>0, <3>1, <3>2 DEF Unplanned, Exists, Recorded, operations, state
  <2>5. CASE Refused
    BY <1>0, <2>5, UnplannedFrame DEF Refused
  <2> QED
    BY <1>3, <2>1, <2>2, <2>3, <2>4, <2>5 DEF Step
<1>4. CASE Rebuild
  <2>1. /\ Exists /\ item' = [i \in Items |-> "absent"]
        /\ UNCHANGED <<state_md, ledger, operations>>
    BY <1>4 DEF Rebuild
  <2> QED
    BY <1>0, <2>1 DEF Unplanned, Exists, Recorded, operations
<1>5. ASSUME NEW p \in Callers, ReadState(p) \/ Going(p) \/ Die(p) PROVE Unplanned'
  <2>1. CASE ReadState(p) \/ Contended(p) \/ HashHandoff(p) \/ RefreshRefused(p) \/ Die(p)
    BY <1>0, <2>1, UnplannedFrame
       DEF ReadState, Contended, HashHandoff, RefreshRefused, Die
  <2>2. CASE Refresh(p)
    <3>1. UNCHANGED <<rows, index, state_md, ledger, item, operations>>
      BY <2>2 DEF Refresh
    <3> QED
      BY <1>0, <3>1 DEF Unplanned, Exists, Recorded, operations
  <2> QED
    BY <1>5, <2>1, <2>2 DEF Going
<1> QED
  BY <1>1, <1>2, <1>3, <1>4, <1>5 DEF Next

LEMMA ExistsStep == TypeInv /\ HandoffInv /\ [Next]_vars /\ Exists => Exists'
<1> SUFFICES ASSUME TypeInv, HandoffInv, [Next]_vars, Exists PROVE Exists'
  OBVIOUS
<1>1. ASSUME NEW c \in Changes, Apply(c) PROVE Exists'
  BY <1>1, MissingIsNoChange DEF Apply, Indexed, Snapshot, Exists
<1>2. ASSUME NEW c \in Changes, Undo(c) PROVE Exists'
  <2>1. call["command"].kind = "rollback" /\ call["command"].change = c
        /\ call["command"].at = "undo" /\ c \in applied
    BY <1>2 DEF Undo, Does, PreconditionsHold, TypeInv, Fits
  <2>2. before[c].files.state # "missing"
    BY <2>1 DEF HandoffInv, Planned, Chain
  <2> QED
    BY <1>2, <2>2 DEF Undo, Exists
<1>3. CASE UNCHANGED state_md
  BY <1>3 DEF Exists
<1> QED
  BY <1>1, <1>2, <1>3 DEF Next, Call, Step, Going, BeginCreate, BeginUpdate, BeginApprove,
     BeginReject, BeginRollback, AppendEvent, Stage, Persist, Refused, Rebuild, ReadState,
     Contended, HashHandoff, Refresh, RefreshRefused, Die, vars, state

LEMMA PlannedStep == TypeInv /\ HandoffInv /\ [Next]_vars => Planned'
<1> SUFFICES ASSUME TypeInv, HandoffInv, [Next]_vars PROVE Planned'
  OBVIOUS
<1>0. Planned /\ "command" \in Callers
  BY DEF HandoffInv, Callers
<1>1. ASSUME UNCHANGED <<call, proposal>> PROVE Planned'
  BY <1>0, <1>1, ExistsStep DEF Planned
<1>2. ASSUME call'["command"] = call["command"], UNCHANGED proposal PROVE Planned'
  BY <1>0, <1>2, ExistsStep DEF Planned
<1>3. ASSUME call'["command"].at = "idle" PROVE Planned'
  BY <1>3 DEF Planned
<1>4. ASSUME NEW p \in Callers, Returns(p), UNCHANGED proposal PROVE Planned'
  <2>1. CASE p = "command"
    BY <1>3, <1>4, <2>1, ReturnsStep DEF Idle
  <2>2. CASE p # "command"
    BY <1>0, <1>2, <1>4, <2>2, ReturnsStep
  <2> QED
    BY <2>1, <2>2
<1>5. CASE Call
  <2>1. CASE BeginCreate
    <3>1. call'["command"].at = "apply" /\ call'["command"].kind = "create"
      BY <2>1, BeginsStep DEF BeginCreate, Kinds, Places, Changes, Fits
    <3> QED
      BY <3>1 DEF Planned
  <2>2. ASSUME NEW c \in Changes, BeginUpdate(c) PROVE Planned'
    <3>1. call'["command"].at \in {"stage", "apply"} /\ call'["command"].change = c
      BY <2>2 DEF BeginUpdate, Begins, Idle, TypeInv, TypeOK, Callers
    <3>2. proposal'[c].state = state_md /\ Exists
      BY <2>2 DEF BeginUpdate, Files, TypeInv, TypeOK
    <3> QED
      BY <3>1, <3>2 DEF Planned, Exists
  <2>3. ASSUME NEW i \in Items, BeginApprove(i) \/ BeginReject(i) \/ BeginRollback(i)
        PROVE  Planned'
    <3>1. call'["command"].at # "event" /\ call'["command"].change = i
      BY <2>3 DEF BeginApprove, BeginReject, BeginRollback, Begins, Idle, TypeInv, TypeOK,
                  Callers
    <3>2. item[i] # "absent" /\ UNCHANGED proposal
      BY <2>3 DEF BeginApprove, BeginReject, BeginRollback, operations
    <3>3. proposal[i].state # "missing"
      BY <3>2, BusyNotMissing
    <3> QED
      BY <3>1, <3>2, <3>3 DEF Planned
  <2> QED
    BY <1>5, <2>1, <2>2, <2>3 DEF Call
<1>6. CASE Step
  <2>1. ASSUME NEW c \in Changes, Apply(c) \/ Undo(c) PROVE Planned'
    <3>1. /\ call'["command"].at = "event" /\ call'["command"].change = c
          /\ call'["command"].kind = call["command"].kind
          /\ call["command"].change = c /\ call["command"].at \in {"apply", "undo"}
          /\ UNCHANGED proposal
      BY <2>1 DEF Apply, Indexed, Snapshot, Undo, Goto, Does, TypeInv, TypeOK, Callers
    <3>2. Exists'
      <4>1. CASE Apply(c)
        BY <4>1, MissingIsNoChange DEF Apply, Indexed, Snapshot, Exists
      <4>2. CASE Undo(c)
        <5>1. c \in applied /\ call["command"].kind = "rollback"
          BY <3>1, <4>2 DEF Undo, Does, PreconditionsHold, TypeInv, Fits
        <5>2. before[c].files.state # "missing"
          BY <3>1, <5>1 DEF HandoffInv, Planned, Chain
        <5> QED
          BY <4>2, <5>2 DEF Undo, Exists
      <4> QED
        BY <2>1, <4>1, <4>2
    <3> QED
      BY <1>0, <3>1, <3>2 DEF Planned
  <2>2. ASSUME NEW c \in Changes, AppendEvent(c) PROVE Planned'
    <3>1. UNCHANGED proposal /\ call["command"].at = "event"
      BY <2>2 DEF AppendEvent, operations, Does
    <3>2. CASE Returns("command")
      BY <1>0, <1>4, <3>1, <3>2
    <3>3. CASE Goto("command", "persist")
      <4>1. /\ call'["command"].at = "persist"
            /\ call'["command"].kind = call["command"].kind
            /\ call'["command"].change = call["command"].change
        BY <3>3 DEF Goto, TypeInv, TypeOK, Callers
      <4> QED
        BY <1>0, <3>1, <4>1 DEF Planned
    <3> QED
      BY <2>2, <3>2, <3>3 DEF AppendEvent
  <2>3. CASE Refused \/ \E i \in Items : Stage(i) \/ Persist(i)
    BY <1>0, <1>4, <2>3 DEF Refused, Stage, Persist, operations
  <2> QED
    BY <1>6, <2>1, <2>2, <2>3 DEF Step
<1>7. CASE Rebuild
  BY <1>1, <1>7 DEF Rebuild, operations
<1>8. ASSUME NEW p \in Callers, ReadState(p) \/ Going(p) \/ Die(p) PROVE Planned'
  <2>1. CASE Contended(p) \/ Refresh(p) \/ RefreshRefused(p) \/ Die(p)
    BY <1>4, <2>1 DEF Contended, Refresh, RefreshRefused, Die, operations
  <2>2. CASE ReadState(p) \/ HashHandoff(p)
    <3>1. UNCHANGED proposal
      BY <2>2 DEF ReadState, HashHandoff, operations
    <3>2. CASE p = "command"
      <4>1. call'["command"].at \in {"hash", "refresh"}
        BY <2>2, <3>2 DEF ReadState, HashHandoff, Idle, TypeInv, TypeOK, Callers
      <4> QED
        BY <4>1 DEF Planned
    <3>3. CASE p # "command"
      <4>1. call'["command"] = call["command"]
        BY <2>2, <3>3 DEF ReadState, HashHandoff, TypeInv, TypeOK, Callers
      <4> QED
        BY <1>2, <3>1, <4>1
    <3> QED
      BY <3>2, <3>3
  <2> QED
    BY <1>8, <2>1, <2>2 DEF Going
<1>9. CASE UNCHANGED vars
  BY <1>1, <1>9 DEF vars, operations
<1> QED
  BY <1>5, <1>6, <1>7, <1>8, <1>9 DEF Next

LEMMA HandoffStep == TypeInv /\ HandoffInv /\ [Next]_vars => HandoffInv'
BY ChainStep, UnplannedStep, PlannedStep DEF HandoffInv

-----------------------------------------------------------------------------
(* Events.  That of a change is recorded once, when it is first applied.   *)

OnceInv ==
  LET c == call["command"].change IN
  /\ \A d \in Changes : Recorded(d) # {} =>
       d \in applied \/ (d \in Items /\ item[d] \in {"absent", "applied", "rolled_back"})
  /\ call["command"].at = "stage" => Recorded(c) = {}
  /\ call["command"].at = "apply" /\ Recorded(c) # {} => c \in applied
  /\ call["command"].at = "undo" => item[c] = "applied"
  /\ call["command"].at = "persist" /\ call["command"].kind = "reject" => item[c] = "pending"
  /\ call["command"].at = "event" /\ call["command"].kind # "rollback"
       => c \in applied /\ state_md = c /\ Recorded(c) = {}

LEMMA OnceInit == Init => OnceInv
BY DEF Init, OnceInv, Recorded, Idle, Callers

LEMMA OnceFrame ==
  ASSUME OnceInv, UNCHANGED <<state_md, ledger, item, applied>>,
         \/ call'["command"] = call["command"]
         \/ call'["command"].at \in {"idle", "hash", "refresh"}
  PROVE  OnceInv'
BY DEF OnceInv, Recorded

LEMMA OnceCall == TypeInv /\ HandoffInv /\ OnceInv /\ Call => OnceInv'
<1> SUFFICES ASSUME TypeInv, HandoffInv, OnceInv, Call PROVE OnceInv'
  OBVIOUS
<1>1. CASE BeginCreate
  <2>1. ~ Exists /\ UNCHANGED <<state_md, ledger, item, applied>>
    BY <1>1 DEF BeginCreate, state, operations
  <2>2. call'["command"].at = "apply"
    BY <1>1, BeginsStep DEF BeginCreate, Kinds, Places, Changes, Fits
  <2>3. \A d \in Changes : Recorded(d)' = {}
    BY <2>1 DEF HandoffInv, Unplanned, Recorded
  <2>4. call'["command"].change = "created" /\ "created" \in Changes
    BY <1>1, BeginsStep DEF BeginCreate, Kinds, Places, Changes, Fits
  <2> QED
    BY <2>2, <2>3, <2>4 DEF OnceInv
<1>2. ASSUME NEW c \in Changes, BeginUpdate(c) PROVE OnceInv'
  <2>1. /\ c # "created" /\ proposal[c].state = "missing"
        /\ UNCHANGED <<state_md, ledger, item, applied>>
    BY <1>2 DEF BeginUpdate, NoFiles, state
  <2>2. Recorded(c) = {}
    BY <2>1 DEF HandoffInv, Unplanned
  <2>3. call'["command"].at \in {"stage", "apply"} /\ call'["command"].change = c
    BY <1>2 DEF BeginUpdate, Begins, Idle, TypeInv, TypeOK, Callers
  <2> QED
    BY <2>1, <2>2, <2>3 DEF OnceInv, Recorded
<1>3. ASSUME NEW i \in Items, BeginApprove(i) \/ BeginReject(i) \/ BeginRollback(i)
      PROVE  OnceInv'
  <2>1. UNCHANGED <<state_md, ledger, item, applied>> /\ i \in Changes
    BY <1>3 DEF BeginApprove, BeginReject, BeginRollback, state, operations, Changes
  <2>2. call'["command"].change = i
    BY <1>3 DEF BeginApprove, BeginReject, BeginRollback, Begins, Idle, TypeInv, TypeOK,
                Callers
  <2>3. \/ item[i] = "pending" /\ call'["command"].at = "apply"
        \/ item[i] = "pending" /\ call'["command"].at = "persist"
        \/ item[i] = "applied" /\ call'["command"].at = "undo"
    BY <1>3 DEF BeginApprove, BeginReject, BeginRollback, Begins, Idle, TypeInv, TypeOK,
                Callers
  <2> QED
    BY <2>1, <2>2, <2>3 DEF OnceInv, Recorded
<1> QED
  BY <1>1, <1>2, <1>3 DEF Call

\* A change that can be applied has not been before, or has been rolled back.
LEMMA NotAppliedTwice ==
  ASSUME HandoffInv, NEW c, Apply(c)
  PROVE  c \notin applied /\ state_md = proposal[c].state
BY DEF HandoffInv, Chain, Apply, Indexed, Snapshot, PreconditionsHold, Does, Files

LEMMA OnceOperations == TypeInv /\ HandoffInv /\ OnceInv /\ Step => OnceInv'
<1> SUFFICES ASSUME TypeInv, HandoffInv, OnceInv, Step PROVE OnceInv'
  OBVIOUS
<1>1. ASSUME NEW c \in Changes, Apply(c) PROVE OnceInv'
  <2>1. /\ call["command"].at = "apply" /\ call["command"].change = c
        /\ call'["command"].at = "event" /\ call'["command"].change = c
        /\ applied' = applied \cup {c} /\ state_md' = c
        /\ UNCHANGED <<ledger, item>>
    BY <1>1 DEF Apply, Indexed, Snapshot, Does, Goto, TypeInv, TypeOK, Callers
  <2>2. Recorded(c) = {}
    BY <1>1, <2>1, NotAppliedTwice DEF OnceInv
  <2> QED
    BY <2>1, <2>2 DEF OnceInv, Recorded
<1>2. ASSUME NEW c \in Changes, Undo(c) PROVE OnceInv'
  <2>1. /\ call["command"].at = "undo" /\ call["command"].change = c
        /\ call["command"].kind = "rollback" /\ c \in Items
        /\ call'["command"].at = "event" /\ call'["command"].kind = "rollback"
        /\ applied' = applied \ {c}
        /\ UNCHANGED <<ledger, item>>
    BY <1>2 DEF Undo, Does, Goto, TypeInv, TypeOK, Callers, Fits
  <2>2. item[c] = "applied"
    BY <2>1 DEF OnceInv
  <2> QED
    BY <2>1, <2>2 DEF OnceInv, Recorded
<1>3. ASSUME NEW c \in Changes, AppendEvent(c) PROVE OnceInv'
  <2>1. /\ call["command"].at = "event" /\ call["command"].change = c
        /\ UNCHANGED <<state_md, item, applied>>
    BY <1>3 DEF AppendEvent, Does, state, operations
  <2>2. \A d \in Changes \ {c} : Recorded(d)' = Recorded(d)
    BY <1>3, AppendOthers
  <2>3. Recorded(c)' = Recorded(c) \/ c \in applied
    <3>1. CASE call["command"].kind # "rollback"
      BY <2>1, <3>1 DEF OnceInv
    <3>2. CASE call["command"].kind = "rollback"
      <4>1. CASE ledger' = ledger
        BY <4>1 DEF Recorded
      <4>2. ASSUME NEW e \in Event, e.status = "rollback", ledger' = Append(ledger, e)
            PROVE  Recorded(c)' = Recorded(c)
        <5>1. ledger \in Seq(Event) /\ e.status # "applied"
          BY <4>2 DEF TypeInv, TypeOK
        <5> QED
          BY <4>2, <5>1, RecordedAfter
      <4> QED
        BY <1>3, <3>2, <4>1, <4>2, AppendCases
    <3> QED
      BY <3>1, <3>2
  <2>4. \/ call'["command"].at = "idle"
        \/ call'["command"].at = "persist" /\ call'["command"].kind # "reject"
    <3>1. CASE Returns("command")
      BY <3>1 DEF Returns, Idle, TypeInv, TypeOK, Callers
    <3>2. CASE Goto("command", "persist")
      BY <2>1, <3>2 DEF Goto, TypeInv, TypeOK, Callers, Fits
    <3> QED
      BY <1>3, <3>1, <3>2 DEF AppendEvent
  <2> QED
    BY <2>1, <2>2, <2>3, <2>4 DEF OnceInv
<1>4. ASSUME NEW i \in Items, Stage(i) PROVE OnceInv'
  <2>1. /\ call["command"].at = "stage" /\ call["command"].change = i
        /\ item'[i] = "pending" /\ \A j \in Items \ {i} : item'[j] = item[j]
        /\ UNCHANGED <<state_md, ledger, applied>>
        /\ call'["command"].at = "idle"
    BY <1>4 DEF Stage, Does, Returns, Idle, state, operations, TypeInv, TypeOK, Callers
  <2>2. Recorded(i) = {}
    BY <2>1 DEF OnceInv
  <2> QED
    BY <2>1, <2>2 DEF OnceInv, Recorded
<1>5. ASSUME NEW i \in Items, Persist(i) PROVE OnceInv'
  <2>1. /\ call["command"].at = "persist" /\ call["command"].change = i
        /\ item'[i] = NewStatus(call["command"].kind)
        /\ \A j \in Items \ {i} : item'[j] = item[j]
        /\ UNCHANGED <<state_md, ledger, applied>>
        /\ call'["command"].at = "idle"
    BY <1>5 DEF Persist, Does, Returns, Idle, state, operations, TypeInv, TypeOK, Callers
  <2>2. call["command"].kind \in {"approve", "reject", "rollback"} /\ i \in Changes
    BY <2>1 DEF TypeInv, Fits, Changes
  <2>3. Recorded(i) # {} => i \in applied \/ item'[i] \in {"applied", "rolled_back"}
    BY <2>1, <2>2 DEF OnceInv, NewStatus
  <2> QED
    BY <2>1, <2>3 DEF OnceInv, Recorded
<1>6. CASE Refused
  <2>1. call'["command"].at = "idle"
    BY <1>6 DEF Refused, Returns, Idle, TypeInv, TypeOK, Callers
  <2> QED
    BY <1>6, <2>1, OnceFrame DEF Refused, state, operations
<1> QED
  BY <1>1, <1>2, <1>3, <1>4, <1>5, <1>6 DEF Step

\* What the daemon does, and the handoffs of a command, and death: an event that is due
\* stays due, or is lost.
LEMMA OtherCalls ==
  ASSUME TypeInv, NEW p \in Callers, ReadState(p) \/ Going(p) \/ Die(p)
  PROVE  \/ call'["command"] = call["command"]
         \/ /\ call'["command"].at \in {"idle", "hash", "refresh"}
            /\ call["command"].at = "event" => cut'
<1>1. ASSUME Returns(p), p = "command" /\ call[p].at = "event" => cut'
      PROVE  \/ call'["command"] = call["command"]
             \/ /\ call'["command"].at \in {"idle", "hash", "refresh"}
                /\ call["command"].at = "event" => cut'
  <2>1. "command" \in Callers /\ Idle.at = "idle"
    BY DEF Callers, Idle
  <2> QED
    BY <1>1, <2>1, ReturnsStep
<1>2. CASE ReadState(p)
  BY <1>2 DEF ReadState, Idle, TypeInv, TypeOK, Callers
<1>3. CASE Contended(p)
  BY <1>1, <1>3 DEF Contended, Operating
<1>4. CASE HashHandoff(p)
  BY <1>4 DEF HashHandoff, TypeInv, TypeOK, Callers
<1>5. CASE Refresh(p) \/ RefreshRefused(p)
  BY <1>1, <1>5 DEF Refresh, RefreshRefused
<1>6. CASE Die(p)
  BY <1>1, <1>6 DEF Die
<1> QED
  BY <1>2, <1>3, <1>4, <1>5, <1>6 DEF Going

LEMMA OnceStep == TypeInv /\ HandoffInv /\ OnceInv /\ [Next]_vars => OnceInv'
<1> SUFFICES ASSUME TypeInv, HandoffInv, OnceInv, [Next]_vars PROVE OnceInv'
  OBVIOUS
<1>1. CASE UNCHANGED vars
  BY <1>1, OnceFrame DEF vars, state, operations
<1>2. CASE Call
  BY <1>2, OnceCall
<1>3. CASE Step
  BY <1>3, OnceOperations
<1>4. CASE Rebuild
  <2>1. /\ item' = [i \in Items |-> "absent"] /\ call["command"].at = "idle"
        /\ UNCHANGED <<state_md, ledger, applied, call>>
    BY <1>4 DEF Rebuild, operations
  <2> QED
    BY <2>1 DEF OnceInv, Recorded
<1>5. ASSUME NEW p \in Callers, ReadState(p) \/ Going(p) \/ Die(p) PROVE OnceInv'
  <2>1. UNCHANGED <<state_md, ledger, item, applied>>
    BY <1>5 DEF ReadState, Going, Die, Contended, HashHandoff, Refresh, RefreshRefused,
                state, operations
  <2> QED
    BY <1>5, <2>1, OtherCalls, OnceFrame
<1> QED
  BY <1>1, <1>2, <1>3, <1>4, <1>5 DEF Next

-----------------------------------------------------------------------------
(* Agreement.  What an operation undoes had agreed when it was applied, and *)
(* the event before that of a change tells of the state before the change.  *)

Agreed(r, x, s) == LastActive(r) /\ r[Len(r)].of = s /\ x = s

Shown(s) == ledger # <<>> /\ ledger[Len(ledger)].shows = s

Traced(c, s) ==
  Recorded(c) # {} /\ \A n \in Recorded(c) : n > 1 /\ ledger[n - 1].shows = s

\* The event of change c is still to be appended.
EventDue(c) ==
  /\ call["command"].at = "event" /\ call["command"].kind # "rollback"
  /\ call["command"].change = c

AgreeInv ==
  ~ cut =>
    /\ Exists => Agreed(rows, index, state_md)
    /\ \A c \in applied :
         proposal[c].state # "missing" =>
           Agreed(before[c].rows, before[c].index, proposal[c].state)
    /\ Exists /\ call["command"].at # "event" => Shown(state_md)
    /\ \A c \in Changes \ {"created"} : EventDue(c) => Shown(proposal[c].state)
    /\ call["command"].at = "event" /\ call["command"].kind = "rollback"
         => Traced(call["command"].change, state_md)
    /\ \A c \in applied \ {"created"} : EventDue(c) \/ Traced(c, proposal[c].state)

LEMMA AgreeInit == Init => AgreeInv
BY DEF Init, AgreeInv, Exists, EventDue, Idle, Callers

LEMMA AgreeFrame ==
  ASSUME AgreeInv, UNCHANGED <<rows, index, state_md, ledger, proposal, before, applied>>,
         cut => cut',
         \/ call'["command"] = call["command"]
         \/ cut'
         \/ call["command"].at # "event" /\ call'["command"].at # "event"
  PROVE  AgreeInv'
<1>1. Exists' = Exists /\ (\A s : Shown(s)' = Shown(s))
      /\ (\A c, s : Traced(c, s)' = Traced(c, s))
  BY DEF Exists, Shown, Traced, Recorded
<1>2. \A r, x, s : Agreed(r, x, s)' = Agreed(r, x, s)
  BY DEF Agreed, LastActive
<1>3. CASE call'["command"] = call["command"]
  BY <1>1, <1>2, <1>3 DEF AgreeInv, EventDue
<1>4. CASE call["command"].at # "event" /\ call'["command"].at # "event"
  BY <1>1, <1>2, <1>4 DEF AgreeInv, EventDue
<1>5. CASE cut'
  BY <1>5 DEF AgreeInv
<1> QED
  BY <1>3, <1>4, <1>5

LEMMA BeginUpdateAgree ==
  ASSUME TypeInv, HandoffInv, AgreeInv, NEW c \in Changes, BeginUpdate(c)
  PROVE  AgreeInv'
<1>1. /\ c # "created" /\ proposal[c].state = "missing"
      /\ UNCHANGED <<rows, index, state_md, ledger, before, applied, cut>>
      /\ \A d \in Changes \ {c} : proposal'[d] = proposal[d]
  BY DEF BeginUpdate, NoFiles, state, TypeInv, TypeOK
<1>2. c \notin applied
  BY <1>1 DEF HandoffInv, Unplanned
<1>3. call["command"].at = "idle" /\ call'["command"].at \in {"stage", "apply"}
  BY DEF BeginUpdate, Begins, Idle, TypeInv, TypeOK, Callers
<1>4. applied \subseteq Changes
  BY DEF TypeInv, TypeOK
<1>5. Exists' = Exists /\ (\A s : Shown(s)' = Shown(s))
      /\ (\A d, s : Traced(d, s)' = Traced(d, s))
      /\ (\A r, x, s : Agreed(r, x, s)' = Agreed(r, x, s))
  BY <1>1 DEF Exists, Shown, Traced, Recorded, Agreed, LastActive
<1> QED
  BY <1>1, <1>2, <1>3, <1>4, <1>5 DEF AgreeInv, EventDue

LEMMA ApplyAgree ==
  ASSUME TypeInv, HandoffInv, AgreeInv, NEW c \in Changes, Apply(c)
  PROVE  AgreeInv'
<1> SUFFICES ASSUME ~ cut PROVE AgreeInv'
  BY DEF Apply, Indexed, Snapshot, AgreeInv
<1>1. /\ call["command"].at = "apply" /\ call["command"].change = c
      /\ call["command"].kind # "rollback"
      /\ call["command"].kind = "create" <=> c = "created"
  BY DEF Apply, Indexed, Snapshot, Does, TypeInv, Fits
<1>2. /\ call'["command"].at = "event" /\ call'["command"].change = c
      /\ call'["command"].kind # "rollback"
  BY <1>1 DEF Apply, Indexed, Snapshot, Goto, TypeInv, TypeOK, Callers
<1>3. /\ rows' = Written(c) /\ index' = c /\ state_md' = c
      /\ applied' = applied \cup {c} /\ UNCHANGED <<ledger, proposal, cut>>
      /\ before'[c].rows = rows /\ before'[c].index = index
      /\ \A d \in Changes \ {c} : before'[d] = before[d]
  BY DEF Apply, Indexed, Snapshot, TypeInv, TypeOK
<1>4. c \notin applied /\ state_md = proposal[c].state /\ applied \subseteq Changes
  BY NotAppliedTwice DEF TypeInv, TypeOK
<1>5. c # "created" => proposal[c].state # "missing"
  BY <1>1 DEF HandoffInv, Planned
<1>6. (\A s : Shown(s)' = Shown(s)) /\ (\A d, s : Traced(d, s)' = Traced(d, s))
      /\ (\A r, x, s : Agreed(r, x, s)' = Agreed(r, x, s))
  BY <1>3 DEF Shown, Traced, Recorded, Agreed, LastActive
<1>7. Agreed(rows', index', state_md')
  BY <1>3, WrittenRows DEF Agreed, TypeInv, TypeOK
<1>8. \A d \in applied' :
        proposal[d].state # "missing" =>
          Agreed(before'[d].rows, before'[d].index, proposal[d].state)
  BY <1>3, <1>4 DEF AgreeInv, Exists
<1>9. \A d \in Changes \ {"created"} : EventDue(d)' => Shown(proposal[d].state)
  BY <1>1, <1>2, <1>4, <1>5 DEF AgreeInv, Exists, EventDue
<1>10. \A d \in applied' \ {"created"} : EventDue(d)' \/ Traced(d, proposal[d].state)
  BY <1>1, <1>2, <1>3 DEF AgreeInv, EventDue
<1> QED
  BY <1>2, <1>3, <1>6, <1>7, <1>8, <1>9, <1>10 DEF AgreeInv

LEMMA UndoAgree ==
  ASSUME TypeInv, HandoffInv, AgreeInv, NEW c \in Changes, Undo(c)
  PROVE  AgreeInv'
<1> SUFFICES ASSUME ~ cut PROVE AgreeInv'
  BY DEF Undo, AgreeInv
<1>1. /\ call["command"].at = "undo" /\ call["command"].change = c
      /\ call["command"].kind = "rollback" /\ c \in Items /\ c # "created"
  BY ChangeAssumption DEF Undo, Does, TypeInv, Fits
<1>2. /\ call'["command"].at = "event" /\ call'["command"].change = c
      /\ call'["command"].kind = "rollback"
  BY <1>1 DEF Undo, Goto, TypeInv, TypeOK, Callers
<1>3. /\ rows' = before[c].rows /\ index' = before[c].index
      /\ state_md' = before[c].files.state
      /\ applied' = applied \ {c} /\ UNCHANGED <<ledger, proposal, cut>>
      /\ \A d \in Changes \ {c} : before'[d] = before[d]
  BY DEF Undo, TypeInv, TypeOK
<1>4. c \in applied /\ applied \subseteq Changes
  BY <1>1 DEF Undo, PreconditionsHold, TypeInv, TypeOK
<1>5. state_md' = proposal[c].state /\ proposal[c].state # "missing"
  BY <1>1, <1>3, <1>4 DEF HandoffInv, Chain, Planned
<1>6. (\A s : Shown(s)' = Shown(s)) /\ (\A d, s : Traced(d, s)' = Traced(d, s))
      /\ (\A r, x, s : Agreed(r, x, s)' = Agreed(r, x, s))
  BY <1>3 DEF Shown, Traced, Recorded, Agreed, LastActive
<1>7. Agreed(rows', index', state_md')
  BY <1>3, <1>4, <1>5 DEF AgreeInv
<1>8. \A d \in applied' :
        proposal[d].state # "missing" =>
          Agreed(before'[d].rows, before'[d].index, proposal[d].state)
  BY <1>3, <1>4 DEF AgreeInv
<1>9. \A d \in applied \ {"created"} : Traced(d, proposal[d].state)
  BY <1>1 DEF AgreeInv, EventDue
<1> QED
  BY <1>1, <1>2, <1>3, <1>4, <1>5, <1>6, <1>7, <1>8, <1>9 DEF AgreeInv, EventDue

\* What is traced stays so when the ledger grows.
LEMMA TracedGrows ==
  ASSUME ledger \in Seq(Event), NEW e \in Event, ledger' = Append(ledger, e),
         NEW d, NEW s, Recorded(d)' = Recorded(d), Traced(d, s)
  PROVE  Traced(d, s)'
<1>1. Len(ledger) \in Nat /\ DOMAIN ledger = 1 .. Len(ledger)
      /\ \A n \in DOMAIN ledger : ledger'[n] = ledger[n]
  BY RecordedAfter
<1>2. \A n \in Recorded(d) : n > 1 /\ n - 1 \in DOMAIN ledger
  BY <1>1 DEF Traced, Recorded
<1>3. \A n \in Recorded(d) : ledger'[n - 1].shows = s
  BY <1>1, <1>2 DEF Traced
<1>4. Recorded(d)' # {} /\ \A n \in Recorded(d)' : n > 1 /\ ledger'[n - 1].shows = s
  BY <1>2, <1>3 DEF Traced
<1> HIDE DEF Recorded
<1> QED
  BY <1>4 DEF Traced

\* The event that was due: that of the change, or the one that compensates it.
LEMMA AppendAgree ==
  ASSUME TypeInv, HandoffInv, OnceInv, AgreeInv, NEW c \in Changes, AppendEvent(c)
  PROVE  AgreeInv'
<1> SUFFICES ASSUME ~ cut PROVE AgreeInv'
  BY DEF AppendEvent, AgreeInv
<1>1. /\ call["command"].at = "event" /\ call["command"].change = c
      /\ UNCHANGED <<rows, index, state_md, proposal, before, applied, cut>>
      /\ ledger \in Seq(Event) /\ applied \subseteq Changes
  BY DEF AppendEvent, Does, state, operations, TypeInv, TypeOK
<1>2. call'["command"].at \in {"idle", "persist"}
  <2>1. CASE Returns("command")
    BY <2>1 DEF Returns, Idle, TypeInv, TypeOK, Callers
  <2>2. CASE Goto("command", "persist")
    BY <2>2 DEF Goto, TypeInv, TypeOK, Callers
  <2> QED
    BY <2>1, <2>2 DEF AppendEvent
<1>3. Exists' = Exists /\ (\A r, x, s : Agreed(r, x, s)' = Agreed(r, x, s))
  BY <1>1 DEF Exists, Agreed, LastActive
<1>4. \A d \in Changes \ {c} : Recorded(d)' = Recorded(d)
  BY AppendOthers
<1>5. \A d \in applied \ {c, "created"} : Traced(d, proposal[d].state)
  BY <1>1 DEF AgreeInv, EventDue
<1>6. ASSUME Shown(state_md)', \A d \in applied \ {"created"} : Traced(d, proposal[d].state)'
      PROVE  AgreeInv'
  BY <1>1, <1>2, <1>3, <1>6 DEF AgreeInv, EventDue
<1>7. CASE call["command"].kind # "rollback"
  <2> DEFINE e == [of |-> c, status |-> "applied", shows |-> c]
  <2>1. state_md = c /\ Recorded(c) = {}
    BY <1>1, <1>7 DEF OnceInv
  <2>2. e \in Event /\ ledger' = Append(ledger, e)
    BY <1>7, <2>1, AppendCases
  <2>3. e.of = c /\ e.status = "applied" /\ e.shows = c
    OBVIOUS
  <2> HIDE DEF e
  <2>4. /\ ledger'[Len(ledger')] = e /\ ledger' # <<>> /\ Len(ledger) \in Nat
        /\ DOMAIN ledger = 1 .. Len(ledger)
        /\ \A n \in DOMAIN ledger : ledger'[n] = ledger[n]
        /\ Recorded(c)' = {Len(ledger) + 1}
    BY <1>1, <2>1, <2>2, <2>3, RecordedAfter
  <2>5. Shown(state_md)'
    BY <1>1, <2>1, <2>3, <2>4 DEF Shown
  <2>6. c # "created" => Traced(c, proposal[c].state)'
    <3> SUFFICES ASSUME c # "created" PROVE Traced(c, proposal[c].state)'
      OBVIOUS
    <3>1. ledger # <<>> /\ ledger[Len(ledger)].shows = proposal[c].state
      BY <1>1, <1>7 DEF AgreeInv, EventDue, Shown
    <3>2. Len(ledger) \in DOMAIN ledger /\ Len(ledger) + 1 > 1
      BY <1>1, <2>4, <3>1, EmptySeq
    <3>3. ledger'[Len(ledger) + 1 - 1].shows = proposal[c].state
      BY <2>4, <3>1, <3>2
    <3> QED
      BY <1>1, <2>4, <3>2, <3>3 DEF Traced
  <2>7. \A d \in applied \ {c, "created"} : Traced(d, proposal[d].state)'
    <3> SUFFICES ASSUME NEW d \in applied \ {c, "created"}
                 PROVE  Traced(d, proposal[d].state)'
      OBVIOUS
    <3>1. Recorded(d)' = Recorded(d) /\ Traced(d, proposal[d].state)
      BY <1>1, <1>4, <1>5
    <3> QED
      BY <1>1, <2>2, <3>1, TracedGrows DEF Traced
  <2> QED
    BY <1>6, <2>5, <2>6, <2>7
<1>8. CASE call["command"].kind = "rollback"
  <2>1. Recorded(c) # {} /\ \A n \in Recorded(c) : n > 1 /\ ledger[n - 1].shows = state_md
    BY <1>1, <1>8 DEF AgreeInv, Traced
  <2>2. Recorded(c) \ {1} # {}
    BY <2>1
  <2>3. PICK e \in Event : /\ e.of = c /\ e.status = "rollback" /\ e.shows = state_md
                           /\ ledger' = Append(ledger, e)
    BY <1>8, <2>1, <2>2, AppendCases
  <2>4. /\ ledger'[Len(ledger')] = e /\ ledger' # <<>>
        /\ Recorded(c)' = Recorded(c)
    BY <1>1, <2>3, RecordedAfter
  <2>5. Shown(state_md)'
    BY <1>1, <2>3, <2>4 DEF Shown
  <2>6. \A d \in applied \ {"created"} : Traced(d, proposal[d].state)'
    <3> SUFFICES ASSUME NEW d \in applied \ {"created"} PROVE Traced(d, proposal[d].state)'
      OBVIOUS
    <3>1. Recorded(d)' = Recorded(d) /\ Traced(d, proposal[d].state)
      BY <1>1, <1>4, <1>8, <2>4 DEF AgreeInv, EventDue
    <3> QED
      BY <1>1, <2>3, <3>1, TracedGrows DEF Traced
  <2> QED
    BY <1>6, <2>5, <2>6
<1> QED
  BY <1>7, <1>8

LEMMA RebuildAgree ==
  ASSUME TypeInv, AgreeInv, Rebuild
  PROVE  AgreeInv'
<1> SUFFICES ASSUME ~ cut PROVE AgreeInv'
  BY DEF Rebuild, AgreeInv
<1>1. /\ Exists /\ call["command"].at = "idle"
      /\ rows' = RebuiltRows /\ index' = Replayed[Len(Replayed)]
      /\ UNCHANGED <<state_md, ledger, proposal, before, applied, call, cut>>
      /\ ledger \in Seq(Event) /\ state_md \in State
  BY DEF Rebuild, RebuiltRows, operations, TypeInv, TypeOK
<1>2. ledger # <<>> /\ ledger[Len(ledger)].shows = state_md
  BY <1>1 DEF AgreeInv, Shown
<1>3. Agreed(rows', index', state_md')
  BY <1>1, <1>2, ReplayedStates, RebuiltRowsActive DEF Agreed
<1>4. Exists' = Exists /\ (\A s : Shown(s)' = Shown(s))
      /\ (\A d, s : Traced(d, s)' = Traced(d, s))
      /\ (\A r, x, s : Agreed(r, x, s)' = Agreed(r, x, s))
  BY <1>1 DEF Exists, Shown, Traced, Recorded, Agreed, LastActive
<1> QED
  BY <1>1, <1>3, <1>4 DEF AgreeInv, EventDue

LEMMA AgreeStep == TypeInv /\ HandoffInv /\ OnceInv /\ AgreeInv /\ [Next]_vars => AgreeInv'
<1> SUFFICES ASSUME TypeInv, HandoffInv, OnceInv, AgreeInv, [Next]_vars PROVE AgreeInv'
  OBVIOUS
<1> DEFINE Framed == UNCHANGED <<rows, index, state_md, ledger, proposal, before, applied>>
<1>1. CASE UNCHANGED vars
  BY <1>1, AgreeFrame DEF vars, state, operations
<1>2. ASSUME NEW i \in Items, BeginApprove(i) \/ BeginReject(i) \/ BeginRollback(i)
      PROVE  AgreeInv'
  <2>1. Framed /\ UNCHANGED cut
    BY <1>2 DEF BeginApprove, BeginReject, BeginRollback, state, operations
  <2>2. call["command"].at # "event" /\ call'["command"].at # "event"
    BY <1>2 DEF BeginApprove, BeginReject, BeginRollback, Begins, Idle, TypeInv, TypeOK,
                Callers
  <2> QED
    BY <2>1, <2>2, AgreeFrame
<1>3. CASE BeginCreate
  <2>1. Framed /\ UNCHANGED cut
    BY <1>3 DEF BeginCreate, state, operations
  <2>2. call["command"].at # "event" /\ call'["command"].at # "event"
    BY <1>3 DEF BeginCreate, Begins, Idle, TypeInv, TypeOK, Callers
  <2> QED
    BY <2>1, <2>2, AgreeFrame
<1>4. ASSUME NEW i \in Items, Stage(i) \/ Persist(i) PROVE AgreeInv'
  <2>1. Framed /\ UNCHANGED cut
    BY <1>4 DEF Stage, Persist, state, operations
  <2>2. call["command"].at # "event" /\ call'["command"].at # "event"
    BY <1>4 DEF Stage, Persist, Does, Returns, Idle, TypeInv, TypeOK, Callers
  <2> QED
    BY <2>1, <2>2, AgreeFrame
<1>5. CASE Refused
  <2>1. Framed /\ UNCHANGED cut
    BY <1>5 DEF Refused, state, operations
  <2>2. call["command"].at # "event" /\ call'["command"].at # "event"
    BY <1>5 DEF Refused, Returns, Idle, TypeInv, TypeOK, Callers
  <2> QED
    BY <2>1, <2>2, AgreeFrame
<1>6. ASSUME NEW p \in Callers, ReadState(p) \/ Going(p) \/ Die(p) PROVE AgreeInv'
  <2>1. Framed /\ (UNCHANGED cut \/ Die(p))
    BY <1>6 DEF ReadState, Going, Die, Contended, HashHandoff, Refresh, RefreshRefused,
                state, operations
  <2>2. cut => cut'
    <3>1. CASE UNCHANGED cut
      BY <3>1
    <3>2. CASE Die(p)
      <4>1. cut' = (cut \/ call[p].at = "event")
        BY <3>2 DEF Die
      <4> QED
        BY <4>1
    <3> QED
      BY <2>1, <3>1, <3>2
  <2>3. \/ call'["command"] = call["command"]
        \/ cut'
        \/ call["command"].at # "event" /\ call'["command"].at # "event"
    BY <1>6, OtherCalls
  <2> QED
    BY <2>1, <2>2, <2>3, AgreeFrame
<1>7. CASE Call
  BY <1>2, <1>3, <1>7, BeginUpdateAgree DEF Call
<1>8. CASE Step
  BY <1>4, <1>5, <1>8, ApplyAgree, UndoAgree, AppendAgree DEF Step
<1> QED
  BY <1>1, <1>6, <1>7, <1>8, RebuildAgree DEF Next

\* _write_state_db, approve, rollback, _append_project_rollback_event and _rebuild_projects:
\* however commands and the daemon's refreshes interleave, rows, index and STATE.md show
\* one state, and the last event too, unless a process dies before it appends its event.
THEOREM StateAgreement == Spec => []StateAgrees
<1>1. TypeInv /\ AgreeInv => StateAgrees
  <2> SUFFICES ASSUME AgreeInv, Exists, ~ cut
               PROVE  /\ {n \in DOMAIN rows : rows[n].status = "active"} = {Len(rows)}
                      /\ rows[Len(rows)].of = state_md
                      /\ index = state_md
                      /\ call["command"].at # "event" =>
                           ledger[Len(ledger)].shows = state_md
    BY DEF StateAgrees
  <2> QED
    BY DEF AgreeInv, Agreed, LastActive, Shown
<1> DEFINE Inv == TypeInv /\ HandoffInv /\ OnceInv /\ AgreeInv
<1>2. Init => Inv
  BY TypeInit, HandoffInit, OnceInit, AgreeInit
<1>3. Inv /\ [Next]_vars => Inv'
  BY TypeStep, HandoffStep, OnceStep, AgreeStep
<1> QED
  BY <1>1, <1>2, <1>3, PTL DEF Spec
=============================================================================
