-------------------------- MODULE GapLifecycleProofs --------------------------
(***************************************************************************)
(* Theorems about GapLifecycle, for every set of processes and questions,  *)
(* any number of calls, and deaths anywhere in behaviours of kind          *)
(* "beside".                                                               *)
(*                                                                         *)
(* Inv adds three parts to the types.  Nothing is known of a question that *)
(* has not come up.  A process that is about to replace the ledger has     *)
(* read a text in which no migrated event is twice.  And if calls come     *)
(* alone, what is in the ledger and in the database agree, but for the     *)
(* question whose event is on its way: Phase says so for each place of     *)
(* the call.                                                               *)
(***************************************************************************)
EXTENDS GapLifecycle, TLAPS, SequenceTheorems, WellFoundedInduction

-----------------------------------------------------------------------------
(* The invariant                                                           *)

CallRecord ==
  [at: Labels, row: SUBSET Row, event: SUBSET Event, then: Labels, text: Seq(Event),
   todo: SUBSET Row, listed: SUBSET Questions, seen: SUBSET Questions,
   back: {"idle", "recheck"}]

\* A question that has not come up has no row, and no event.
CameUp(q) == origin[q] # "none"

KnowsOf(c) ==
  /\ \A r \in c.row \cup c.todo : CameUp(r.question)
  /\ \A e \in c.event : CameUp(e.question)
  /\ \A q \in Questions : InLedger(q, c.text) => CameUp(q)

UpInv ==
  /\ \A q \in Questions : status[q] # "absent" \/ InLedger(q, ledger) => CameUp(q)
  /\ \A p \in Procs : KnowsOf(call[p])

\* No migrated event is in a text twice.
OnceIn(text) ==
  \A i, j \in DOMAIN text : text[i] = text[j] /\ text[i].id = "migrated" => i = j

ReadOnce(c) == c.at = "replace" => OnceIn(c.text)

OnceInv == OnceIn(ledger) /\ \A p \in Procs : ReadOnce(call[p])

\* A row says what the ledger says.
Agree(q) ==
  status[q] # "absent" /\ InLedger(q, ledger) => status[q] = RebuiltStatus(q, ledger)

AgreeBut(qs) == \A q \in Questions \ qs : Agree(q)

\* The event of a transition that is on its way.
Reporting(c) ==
  \E e \in Event :
    /\ c.event = {e} /\ e.id = "uuid" /\ c.then \in {"verify", "recheck", "list"}
    /\ status[e.question] \in {"absent", Replayed(e.event)}
    /\ AgreeBut({e.question})

\* What the migration has to do: the rows without an event, but for those of qs.
ToMigrate(todo, qs) ==
  /\ \A r \in todo : /\ status[r.question] = r.status /\ r.question \notin qs
                     /\ ~ InLedger(r.question, ledger)
  /\ \A q \in Questions \ qs :
       status[q] # "absent" /\ ~ InLedger(q, ledger) => \E r \in todo : r.question = q

OnlyOpened(q) ==
  /\ InLedger(q, ledger)
  /\ \A i \in DOMAIN ledger : ledger[i].question = q => ledger[i].event = "opened"

Migrates(c, row) ==
  /\ c.row = {row} /\ status[row.question] = row.status
  /\ AgreeBut({row.question}) /\ ToMigrate(c.todo, {row.question})

Migrating(c) ==
  \E row \in Row :
    /\ Migrates(c, row)
    /\ \/ /\ c.then = "migrate_final" /\ c.event = Migrated(row, "opened")
          /\ ~ InLedger(row.question, ledger)
       \/ /\ c.then = "migrate" /\ OnlyOpened(row.question)
          /\ \E e \in FinalEvent(row.status) : c.event = Migrated(row, e)

\* What was in the discarded database is in the ledger.
Kept ==
  \A q \in Questions :
    archived[q] # "absent" =>
      InLedger(q, ledger) /\ RebuiltStatus(q, ledger) = archived[q]

Settled == Labels \ {"append", "replace", "migrate_final", "restore", "read_events", "replay"}

Phase(c) ==
  /\ c.at \in Settled => AgreeBut({})
  /\ c.at \in {"append", "replace"} => Reporting(c) \/ Migrating(c)
  /\ c.at \in {"replace", "migrate_rows", "replay"} => c.text = ledger
  /\ c.at = "migrate" => ToMigrate(c.todo, {})
  /\ c.at = "migrate_final" =>
       \E row \in Row : Migrates(c, row) /\ OnlyOpened(row.question)
  /\ c.at \in {"restore", "read_events", "replay"} => Kept

OthersIdle(p) == \A o \in Procs \ {p} : call[o].at = "idle"

AloneInv ==
  mode = "alone" =>
    \A p \in Procs : /\ call[p].at # "idle" => OthersIdle(p)
                     /\ OthersIdle(p) => Phase(call[p])

Inv == TypeOK /\ UpInv /\ OnceInv /\ AloneInv

-----------------------------------------------------------------------------
(* The ledger as a text                                                    *)

IsLast(i, q, text) ==
  /\ i \in DOMAIN text /\ text[i].question = q
  /\ \A j \in DOMAIN text : text[j].question = q => j <= i

LEMMA Greatest ==
  ASSUME NEW n \in Nat, NEW S \in SUBSET (1 .. n), S # {}
  PROVE  \E i \in S : \A j \in S : j <= i
<1> DEFINE T == {n - i : i \in S}
           R == OpToRel(<, Nat)
<1>1. T \subseteq Nat /\ T # {}
  <2>1. \A i \in S : n - i \in Nat
    OBVIOUS
  <2> QED
    BY <2>1
<1>2. PICK x \in T : \A y \in T : <<y, x>> \notin R
  BY <1>1, NatLessThanWellFounded, WFMin
<1>3. \A y \in T : ~ y < x
  BY <1>1, <1>2 DEF OpToRel
<1>4. PICK i \in S : x = n - i
  OBVIOUS
<1>5. \A j \in S : j <= i
  BY <1>3, <1>4
<1> QED
  BY <1>5

LEMMA LastExists ==
  ASSUME NEW text \in Seq(Event), NEW q, InLedger(q, text)
  PROVE  \E i \in DOMAIN text : IsLast(i, q, text)
<1> DEFINE S == {i \in DOMAIN text : text[i].question = q}
<1>1. Len(text) \in Nat /\ DOMAIN text = 1 .. Len(text)
  BY LenProperties
<1>2. S \in SUBSET (1 .. Len(text)) /\ S # {}
  BY <1>1 DEF InLedger
<1>3. PICK i \in S : \A j \in S : j <= i
  BY <1>1, <1>2, Greatest
<1> QED
  BY <1>3 DEF IsLast

\* The status of a question is that of its last event.
LEMMA LastCounts ==
  ASSUME NEW text \in Seq(Event), NEW q, NEW i, IsLast(i, q, text)
  PROVE  RebuiltStatus(q, text) = Replayed(text[i].event)
<1>1. DOMAIN text \subseteq Nat
  BY LenProperties
<1>2. \A j : IsLast(j, q, text) => j = i
  BY <1>1 DEF IsLast
<1>3. (CHOOSE j \in DOMAIN text :
         /\ text[j].question = q
         /\ \A k \in DOMAIN text : text[k].question = q => k <= j) = i
  BY <1>2 DEF IsLast
<1> QED
  BY <1>3 DEF RebuiltStatus

LEMMA ReplayedType == \A e \in Event : Replayed(e.event) \in Status
BY DEF Event, Replayed, Status

LEMMA RebuiltType ==
  ASSUME NEW text \in Seq(Event), NEW q, InLedger(q, text)
  PROVE  RebuiltStatus(q, text) \in Status
<1>1. PICK i \in DOMAIN text : IsLast(i, q, text)
  BY LastExists
<1>2. text[i] \in Event
  BY <1>1, LenProperties, ElementOfSeq
<1> QED
  BY <1>1, <1>2, LastCounts, ReplayedType

LEMMA Appending ==
  ASSUME NEW text \in Seq(Event), NEW e \in Event
  PROVE  /\ Append(text, e) \in Seq(Event)
         /\ Len(text) \in Nat /\ DOMAIN text = 1 .. Len(text)
         /\ DOMAIN Append(text, e) = 1 .. Len(text) + 1
         /\ Append(text, e)[Len(text) + 1] = e
         /\ \A i \in 1 .. Len(text) : Append(text, e)[i] = text[i]
BY AppendProperties, LenProperties

\* What is appended is the last event of its question, and no other's.
LEMMA AppendedCounts ==
  ASSUME NEW text \in Seq(Event), NEW e \in Event
  PROVE  /\ InLedger(e.question, Append(text, e))
         /\ RebuiltStatus(e.question, Append(text, e)) = Replayed(e.event)
         /\ \A q \in Questions \ {e.question} :
              /\ InLedger(q, Append(text, e)) <=> InLedger(q, text)
              /\ InLedger(q, text) =>
                   RebuiltStatus(q, Append(text, e)) = RebuiltStatus(q, text)
<1> DEFINE long == Append(text, e)
           n == Len(text)
<1>1. /\ long \in Seq(Event) /\ n \in Nat /\ DOMAIN text = 1 .. n
      /\ DOMAIN long = 1 .. n + 1 /\ long[n + 1] = e /\ \A i \in 1 .. n : long[i] = text[i]
  BY Appending
<1> HIDE DEF long, n
<1>2. n + 1 \in DOMAIN long /\ IsLast(n + 1, e.question, long)
  BY <1>1 DEF IsLast
<1>3. /\ InLedger(e.question, long)
      /\ RebuiltStatus(e.question, long) = Replayed(e.event)
  BY <1>1, <1>2, LastCounts DEF InLedger
<1>4. ASSUME NEW q \in Questions \ {e.question}
      PROVE  /\ InLedger(q, long) <=> InLedger(q, text)
             /\ InLedger(q, text) => RebuiltStatus(q, long) = RebuiltStatus(q, text)
  <2>1. \A i \in DOMAIN long : long[i].question = q =>
          i \in DOMAIN text /\ text[i].question = q
    BY <1>1
  <2>2. \A i \in DOMAIN text : i \in DOMAIN long /\ long[i] = text[i]
    BY <1>1
  <2>3. InLedger(q, long) <=> InLedger(q, text)
    BY <2>1, <2>2 DEF InLedger
  <2>4. ASSUME InLedger(q, text)
        PROVE  RebuiltStatus(q, long) = RebuiltStatus(q, text)
    <3>1. PICK i \in DOMAIN text : IsLast(i, q, text)
      BY <2>4, LastExists
    <3>2. IsLast(i, q, long)
      BY <2>1, <2>2, <3>1 DEF IsLast
    <3>3. RebuiltStatus(q, text) = Replayed(text[i].event)
      BY <3>1, LastCounts
    <3>4. RebuiltStatus(q, long) = Replayed(long[i].event)
      BY <1>1, <3>2, LastCounts
    <3> QED
      BY <2>2, <3>3, <3>4
  <2> QED
    BY <2>3, <2>4
<1> QED
  BY <1>3, <1>4 DEF long

LEMMA AppendedOnce ==
  ASSUME NEW text \in Seq(Event), NEW e \in Event, OnceIn(text), ~ AlreadyAppended(text, e)
  PROVE  OnceIn(Append(text, e))
<1> DEFINE long == Append(text, e)
           n == Len(text)
<1>1. /\ n \in Nat /\ DOMAIN text = 1 .. n
      /\ DOMAIN long = 1 .. n + 1 /\ long[n + 1] = e /\ \A i \in 1 .. n : long[i] = text[i]
  BY Appending
<1> HIDE DEF long, n
<1>2. e.id = "migrated" => \A i \in 1 .. n : text[i] # e
  BY <1>1 DEF AlreadyAppended, Range
<1>3. SUFFICES ASSUME NEW i \in 1 .. n + 1, NEW j \in 1 .. n + 1,
                      long[i] = long[j], long[i].id = "migrated"
               PROVE  i = j
  BY <1>1 DEF OnceIn, long
<1>4. CASE i \in 1 .. n /\ j \in 1 .. n
  BY <1>1, <1>3, <1>4 DEF OnceIn
<1>5. CASE i = n + 1 /\ j \in 1 .. n
  BY <1>1, <1>2, <1>3, <1>5
<1>6. CASE i \in 1 .. n /\ j = n + 1
  BY <1>1, <1>2, <1>3, <1>6
<1>7. CASE i = n + 1 /\ j = n + 1
  BY <1>7
<1> QED
  BY <1>1, <1>4, <1>5, <1>6, <1>7

-----------------------------------------------------------------------------
(* The records of calls                                                    *)

LEMMA CallType ==
  ASSUME TypeOK, NEW p \in Procs
  PROVE  /\ call \in [Procs -> CallRecord] /\ call[p] \in CallRecord
         /\ Idle \in CallRecord
         /\ Idle.at = "idle" /\ Idle.row = {} /\ Idle.event = {} /\ Idle.todo = {}
         /\ Idle.text = <<>>
<1>1. call \in [Procs -> CallRecord]
  BY DEF TypeOK, CallRecord
<1>2. /\ "idle" \in Labels /\ <<>> \in Seq(Event)
  BY EmptySeq DEF Labels
<1> QED
  BY <1>1, <1>2 DEF Idle, CallRecord

\* What a call has read, and what it is to append.
Same(r, c) ==
  r.row = c.row /\ r.event = c.event /\ r.text = c.text /\ r.todo = c.todo

\* In a behaviour of kind "alone" no call but p's is under way.
MayMove(p) == mode = "alone" => OthersIdle(p)

LEMMA Moving ==
  ASSUME Inv, NEW p \in Procs, call[p].at # "idle"
  PROVE  MayMove(p) /\ (mode = "alone" => Phase(call[p]))
BY DEF Inv, AloneInv, MayMove

LEMMA CallStep ==
  ASSUME TypeOK, NEW p \in Procs, NEW r \in CallRecord, call' = [call EXCEPT ![p] = r]
  PROVE  /\ call' \in [Procs -> CallRecord] /\ call'[p] = r
         /\ \A o \in Procs \ {p} : call'[o] = call[o]
BY CallType

\* What a step has to establish of the call that makes it.
LEMMA StepKeeps ==
  ASSUME Inv, NEW p \in Procs, NEW r \in CallRecord, call' = [call EXCEPT ![p] = r],
         MayMove(p), mode' = mode, calls' \in 0 .. MaxCalls[mode],
         dashboard' \subseteq Questions,
         status' \in [Questions -> Status \cup {"absent"}], ledger' \in Seq(Event),
         archived' \in [Questions -> Status \cup {"absent"}],
         origin' \in [Questions -> {"none", "asked", "extracted"}],
         \A q \in Questions : CameUp(q) => CameUp(q)',
         \A q \in Questions : status'[q] # "absent" \/ InLedger(q, ledger') => CameUp(q)',
         KnowsOf(r)', OnceIn(ledger'), ReadOnce(r),
         mode = "alone" => Phase(r)'
  PROVE  Inv'
<1>1. /\ call' \in [Procs -> CallRecord] /\ call'[p] = r
      /\ \A o \in Procs \ {p} : call'[o] = call[o]
  BY CallStep DEF Inv
<1>2. TypeOK'
  BY <1>1 DEF Inv, TypeOK, CallRecord
<1>3. UpInv'
  <2>1. ASSUME NEW o \in Procs \ {p} PROVE KnowsOf(call[o])'
    <3>1. PICK c : c = call[o]
      OBVIOUS
    <3>2. KnowsOf(c) /\ c \in CallRecord /\ c = call'[o]
      BY <1>1, <3>1, CallType DEF Inv, UpInv
    <3>3. /\ \A x \in c.row \cup c.todo : x.question \in Questions
          /\ \A e \in c.event : e.question \in Questions
      BY <3>2 DEF CallRecord, Row, Event
    <3>4. KnowsOf(c)'
      BY <3>2, <3>3 DEF KnowsOf, InLedger
    <3> QED
      BY <3>2, <3>4 DEF KnowsOf, InLedger
  <2>2. \A q \in Questions : status'[q] # "absent" \/ InLedger(q, ledger') => CameUp(q)'
    OBVIOUS
  <2>3. KnowsOf(call[p])'
    BY <1>1 DEF KnowsOf, InLedger
  <2> QED
    BY <2>1, <2>2, <2>3 DEF UpInv
<1>4. OnceInv'
  BY <1>1 DEF OnceInv, Inv, ReadOnce, OnceIn
<1>5. AloneInv'
  <2> SUFFICES ASSUME mode = "alone", NEW o \in Procs
               PROVE  /\ call'[o].at # "idle" => OthersIdle(o)'
                      /\ OthersIdle(o)' => Phase(call[o])'
    BY DEF AloneInv
  <2>1. OthersIdle(p)' /\ Phase(r)'
    BY <1>1 DEF MayMove, OthersIdle
  <2>2. CASE o = p
    BY <1>1, <2>1, <2>2 DEF Phase
  <2>3. CASE o # p
    <3>1. call'[o].at = "idle"
      BY <2>1, <2>3 DEF OthersIdle
    <3>2. ASSUME OthersIdle(o)' PROVE Phase(call[o])'
      <4>1. r.at = "idle"
        BY <1>1, <2>3, <3>2 DEF OthersIdle
      <4>2. AgreeBut({})'
        BY <2>1, <4>1 DEF Phase, Settled, Labels
      <4> QED
        BY <3>1, <4>2 DEF Phase
    <3> QED
      BY <3>1, <3>2
  <2> QED
    BY <2>2, <2>3
<1> QED
  BY <1>2, <1>3, <1>4, <1>5 DEF Inv

\* A step that only reads.
LEMMA ReadsOnly ==
  ASSUME Inv, NEW p \in Procs, NEW r \in CallRecord, call' = [call EXCEPT ![p] = r],
         MayMove(p), UNCHANGED <<status, ledger, archived, origin, mode>>,
         calls' \in 0 .. MaxCalls[mode], dashboard' \subseteq Questions,
         KnowsOf(r), ReadOnce(r), mode = "alone" => Phase(r)
  PROVE  Inv'
<1>1. KnowsOf(r)'
  BY DEF KnowsOf, CameUp
<1>2. mode = "alone" => Phase(r)'
  BY DEF Phase, AgreeBut, Agree, Reporting, Migrating, Migrates, ToMigrate, OnlyOpened, Kept
<1>3. /\ \A q \in Questions : CameUp(q) => CameUp(q)'
      /\ \A q \in Questions : status'[q] # "absent" \/ InLedger(q, ledger') => CameUp(q)'
  BY DEF Inv, UpInv, CameUp
<1>4. TypeOK /\ OnceIn(ledger')
  BY DEF Inv, OnceInv, OnceIn
<1> QED
  BY <1>1, <1>2, <1>3, <1>4, StepKeeps DEF TypeOK

\* A call goes on at another label.
LEMMA Going ==
  ASSUME TypeOK, NEW p \in Procs, NEW label \in Labels, Goto(p, label)
  PROVE  \E r \in CallRecord : /\ call' = [call EXCEPT ![p] = r]
                               /\ r.at = label /\ r.then = call[p].then /\ Same(r, call[p])
<1> DEFINE m == [call[p] EXCEPT !.at = label]
<1>1. /\ m \in CallRecord /\ m.at = label /\ m.then = call[p].then /\ Same(m, call[p])
  BY CallType DEF CallRecord, Same
<1>2. call' = [call EXCEPT ![p] = m]
  BY DEF Goto
<1> QED
  BY <1>1, <1>2

LEMMA Returning ==
  ASSUME TypeOK, NEW p \in Procs, Returns(p)
  PROVE  \E r \in CallRecord : call' = [call EXCEPT ![p] = r] /\ r = Idle
BY CallType DEF Returns

LEMMA Begun ==
  ASSUME Inv, NEW p \in Procs, NEW state \in CallRecord, Starts(p, state)
  PROVE  /\ MayMove(p) /\ mode' = mode /\ calls' \in 0 .. MaxCalls[mode]
         /\ call' = [call EXCEPT ![p] = state]
         /\ mode = "alone" => AgreeBut({})
<1>1. calls \in 0 .. MaxCalls[mode] /\ mode \in Modes /\ MaxCalls[mode] \in Nat
  BY BoundAssumption DEF Inv, TypeOK
<1>2. calls' \in 0 .. MaxCalls[mode]
  BY <1>1 DEF Starts
<1>3. MayMove(p)
  BY DEF Starts, MayMove, OthersIdle, Quiet
<1>4. mode = "alone" => AgreeBut({})
  <2>1. mode = "alone" => Phase(call[p]) /\ call[p].at = "idle"
    BY <1>3 DEF Inv, AloneInv, MayMove, Starts
  <2> QED
    BY <2>1 DEF Phase, Settled, Labels
<1> QED
  BY <1>2, <1>3, <1>4 DEF Starts

\* Steps at places where nothing is on its way, to such places.
LEMMA StaysSettled ==
  ASSUME AgreeBut({}), NEW r \in CallRecord,
         r.at \in Settled \ {"migrate_rows", "migrate"}
  PROVE  Phase(r)
BY DEF Phase, Settled, Labels

LEMMA SettledNow ==
  ASSUME Inv, NEW p \in Procs, call[p].at \in Settled \ {"idle"}, mode = "alone"
  PROVE  AgreeBut({})
BY Moving DEF Phase, Settled, Labels

LEMMA TypeKeeps ==
  ASSUME Inv
  PROVE  /\ TypeOK /\ dashboard \subseteq Questions
         /\ calls \in 0 .. MaxCalls[mode]
         /\ \A r \in Rows : /\ r \in Row /\ CameUp(r.question)
                            /\ status[r.question] = r.status /\ r.status # "absent"
BY DEF Inv, TypeOK, UpInv, Rows, Row, Status

LEMMA ReadLedgerKeeps ==
  ASSUME Inv, NEW p \in Procs, ReadLedger(p) PROVE Inv'
<1> DEFINE m == [call[p] EXCEPT !.text = ledger, !.at = "replace"]
<1>1. PICK r \in CallRecord :
        /\ call' = [call EXCEPT ![p] = r]
        /\ r.at = "replace" /\ r.text = ledger /\ r.then = call[p].then
        /\ r.row = call[p].row /\ r.event = call[p].event /\ r.todo = call[p].todo
  <2>1. /\ m \in CallRecord
        /\ m.at = "replace" /\ m.text = ledger /\ m.then = call[p].then
        /\ m.row = call[p].row /\ m.event = call[p].event /\ m.todo = call[p].todo
    BY CallType DEF Inv, TypeOK, CallRecord, Labels
  <2>2. call' = [call EXCEPT ![p] = m]
    BY DEF ReadLedger
  <2> QED
    BY <2>1, <2>2
<1>2. KnowsOf(r) /\ ReadOnce(r)
  BY <1>1 DEF KnowsOf, ReadOnce, Inv, UpInv, OnceInv
<1>3. MayMove(p) /\ (mode = "alone" => Phase(call[p])) /\ call[p].at = "append"
  BY Moving DEF ReadLedger
<1>4. mode = "alone" => Reporting(r) \/ Migrating(r)
  BY <1>1, <1>3 DEF Phase, Reporting, Migrating, Migrates
<1>5. mode = "alone" => Phase(r)
  BY <1>1, <1>4 DEF Phase, Settled
<1> QED
  BY <1>1, <1>2, <1>3, <1>5, ReadsOnly, TypeKeeps DEF ReadLedger

LEMMA NoTransitionKeeps ==
  ASSUME Inv, NEW p \in Procs, NoTransition(p) PROVE Inv'
<1>1. PICK r \in CallRecord : /\ call' = [call EXCEPT ![p] = r]
                              /\ r.at = "list" /\ Same(r, call[p])
  BY Going DEF NoTransition, Inv, Labels
<1>2. KnowsOf(r) /\ ReadOnce(r)
  BY <1>1 DEF KnowsOf, ReadOnce, Inv, UpInv, Same
<1>3. call[p].at \in Settled \ {"idle"}
  BY DEF NoTransition, Settled, Labels
<1>4. mode = "alone" => Phase(r)
  BY <1>1, <1>3, SettledNow, StaysSettled DEF Settled, Labels
<1>5. MayMove(p)
  BY <1>3, Moving
<1> QED
  BY <1>1, <1>2, <1>4, <1>5, ReadsOnly, TypeKeeps DEF NoTransition

LEMMA GoesBackKeeps ==
  ASSUME Inv, NEW p \in Procs, Unresolved(p) \/ Rechecked(p) PROVE Inv'
<1>1. PICK r \in CallRecord : /\ call' = [call EXCEPT ![p] = r]
                              /\ r.at \in {"recheck", "list"} /\ Same(r, call[p])
  BY Going DEF Unresolved, Rechecked, Inv, Labels
<1>2. KnowsOf(r) /\ ReadOnce(r)
  BY <1>1 DEF KnowsOf, ReadOnce, Inv, UpInv, Same
<1>3. call[p].at \in Settled \ {"idle"}
  BY DEF Unresolved, Rechecked, Settled, Labels
<1>4. mode = "alone" => Phase(r)
  BY <1>1, <1>3, SettledNow, StaysSettled DEF Settled, Labels
<1>5. MayMove(p)
  BY <1>3, Moving
<1> QED
  BY <1>1, <1>2, <1>4, <1>5, ReadsOnly, TypeKeeps DEF Unresolved, Rechecked

\* The other reads of a call: of rows, of the dashboard, and of one row after the other.
LEMMA LooksKeeps ==
  ASSUME Inv, NEW p \in Procs,
         \/ Fetch(p) \/ List(p) \/ Hash(p) \/ \E row \in call[p].todo : Examine(p, row)
  PROVE  Inv'
<1>1. /\ \A s \in SUBSET Rows : s \in SUBSET Row /\ \A x \in s : CameUp(x.question)
      /\ {r.question : r \in {s \in Rows : Active(s)}} \in SUBSET Questions
  BY TypeKeeps DEF Rows, Row
<1>2. /\ call[p] \in CallRecord /\ KnowsOf(call[p]) /\ dashboard \in SUBSET Questions
  BY CallType DEF Inv, UpInv, TypeOK
<1>3. PICK r \in CallRecord :
        /\ call' = [call EXCEPT ![p] = r]
        /\ r.at \in {"recheck", "hash", "refresh", "candidate", "verify"} /\ KnowsOf(r)
  <2>1. CASE Fetch(p)
    <3> DEFINE m == [call[p] EXCEPT !.at = "recheck", !.todo = {r \in Rows : Active(r)}]
    <3>1. /\ m \in CallRecord /\ m.at = "recheck" /\ KnowsOf(m)
      BY <1>1, <1>2 DEF CallRecord, Labels, KnowsOf
    <3>2. call' = [call EXCEPT ![p] = m]
      BY <2>1 DEF Fetch
    <3> QED
      BY <3>1, <3>2
  <2>2. CASE List(p)
    <3> DEFINE m == [call[p] EXCEPT !.at = "hash",
                       !.listed = {r.question : r \in {s \in Rows : Active(s)}}]
    <3>1. /\ m \in CallRecord /\ m.at = "hash" /\ KnowsOf(m)
      BY <1>1, <1>2 DEF CallRecord, Labels, KnowsOf
    <3>2. call' = [call EXCEPT ![p] = m]
      BY <2>2 DEF List
    <3> QED
      BY <3>1, <3>2
  <2>3. CASE Hash(p)
    <3> DEFINE m == [call[p] EXCEPT !.seen = dashboard, !.at = "refresh"]
    <3>1. /\ m \in CallRecord /\ m.at = "refresh" /\ KnowsOf(m)
      BY <1>2 DEF CallRecord, Labels, KnowsOf
    <3>2. call' = [call EXCEPT ![p] = m]
      BY <2>3 DEF Hash
    <3> QED
      BY <3>1, <3>2
  <2>4. ASSUME NEW row \in call[p].todo, Examine(p, row)
        PROVE  \E r \in CallRecord :
                 /\ call' = [call EXCEPT ![p] = r]
                 /\ r.at \in {"recheck", "hash", "refresh", "candidate", "verify"}
                 /\ KnowsOf(r)
    <3>1. PICK label \in {"recheck", "candidate", "verify"} :
            call' = [call EXCEPT ![p] =
                       [call[p] EXCEPT !.todo = @ \ {row}, !.row = {row}, !.at = label]]
      BY <2>4 DEF Examine
    <3> DEFINE m == [call[p] EXCEPT !.todo = @ \ {row}, !.row = {row}, !.at = label]
    <3>2. row \in Row /\ CameUp(row.question)
      BY <1>2, <2>4 DEF CallRecord, KnowsOf
    <3>3. m \in CallRecord /\ m.at = label /\ KnowsOf(m)
      BY <1>2, <3>2 DEF CallRecord, Labels, KnowsOf
    <3> QED
      BY <3>1, <3>3
  <2> QED
    BY <2>1, <2>2, <2>3, <2>4
<1>4. call[p].at \in Settled \ {"idle"}
  BY DEF Fetch, List, Hash, Examine, Settled, Labels
<1>5. mode = "alone" => Phase(r)
  BY <1>3, <1>4, SettledNow, StaysSettled DEF Settled, Labels
<1>6. MayMove(p) /\ ReadOnce(r)
  BY <1>3, <1>4, Moving DEF ReadOnce
<1> QED
  BY <1>3, <1>5, <1>6, ReadsOnly, TypeKeeps DEF Fetch, List, Hash, Examine

-----------------------------------------------------------------------------
(* The beginnings and the ends of calls                                    *)

\* A state that a call begins with, when it has read no more than a row.
LEMMA Beginnings ==
  /\ \A r \in Row, label \in {"reopen", "dismiss"} :
       LET state == [Idle EXCEPT !.at = label, !.row = {r}] IN
       /\ state \in CallRecord /\ state.at = label
       /\ state.row = {r} /\ state.event = {} /\ state.todo = {} /\ state.text = <<>>
  /\ LET state == [Idle EXCEPT !.at = "fetch"] IN
       /\ state \in CallRecord /\ state.at = "fetch"
       /\ state.row = {} /\ state.event = {} /\ state.todo = {} /\ state.text = <<>>
<1>1. "idle" \in Labels /\ "fetch" \in Labels /\ "reopen" \in Labels /\ "dismiss" \in Labels
  BY DEF Labels
<1>2. <<>> \in Seq(Event)
  BY EmptySeq
<1> QED
  BY <1>1, <1>2 DEF Idle, CallRecord

LEMMA NothingInEmpty == \A q \in Questions : ~ InLedger(q, <<>>)
BY DEF InLedger

LEMMA BeginsWithRowKeeps ==
  ASSUME Inv, NEW p \in Procs, NEW row \in Rows, BeginReopen(p, row) \/ BeginDismiss(p, row)
  PROVE  Inv'
<1>1. PICK r \in CallRecord :
        /\ Starts(p, r) /\ r.at \in {"reopen", "dismiss"}
        /\ r.row = {row} /\ r.event = {} /\ r.todo = {} /\ r.text = <<>>
  <2>1. row \in Row
    BY TypeKeeps
  <2>2. CASE BeginReopen(p, row)
    BY <2>1, <2>2, Beginnings DEF BeginReopen
  <2>3. CASE BeginDismiss(p, row)
    BY <2>1, <2>3, Beginnings DEF BeginDismiss
  <2> QED
    BY <2>2, <2>3
<1>2. KnowsOf(r) /\ ReadOnce(r)
  BY <1>1, TypeKeeps, NothingInEmpty DEF KnowsOf, ReadOnce
<1>3. mode = "alone" => Phase(r)
  BY <1>1, Begun, StaysSettled DEF Settled, Labels
<1> QED
  BY <1>1, <1>2, <1>3, Begun, ReadsOnly, TypeKeeps DEF BeginReopen, BeginDismiss

LEMMA BeginRecheckKeeps ==
  ASSUME Inv, NEW p \in Procs, BeginRecheck(p) PROVE Inv'
<1>1. PICK r \in CallRecord :
        /\ Starts(p, r) /\ r.at = "fetch"
        /\ r.row = {} /\ r.event = {} /\ r.todo = {} /\ r.text = <<>>
  BY Beginnings DEF BeginRecheck
<1>2. KnowsOf(r) /\ ReadOnce(r)
  BY <1>1, NothingInEmpty DEF KnowsOf, ReadOnce
<1>3. mode = "alone" => Phase(r)
  BY <1>1, Begun, StaysSettled DEF Settled, Labels
<1> QED
  BY <1>1, <1>2, <1>3, Begun, ReadsOnly, TypeKeeps DEF BeginRecheck

LEMMA BeginRebuildKeeps ==
  ASSUME Inv, NEW p \in Procs, BeginRebuild(p) PROVE Inv'
<1> DEFINE m == [Idle EXCEPT !.at = "migrate_rows", !.text = ledger]
<1>1. PICK r \in CallRecord :
        /\ Starts(p, r) /\ r.at = "migrate_rows"
        /\ r.row = {} /\ r.event = {} /\ r.todo = {} /\ r.text = ledger
  <2>1. /\ m \in CallRecord /\ m.at = "migrate_rows"
        /\ m.row = {} /\ m.event = {} /\ m.todo = {} /\ m.text = ledger
    BY EmptySeq DEF Idle, CallRecord, Labels, Inv, TypeOK
  <2>2. Starts(p, m)
    BY DEF BeginRebuild
  <2> HIDE DEF m
  <2> QED
    BY <2>1, <2>2
<1>2. KnowsOf(r) /\ ReadOnce(r)
  BY <1>1 DEF KnowsOf, ReadOnce, Inv, UpInv
<1>3. mode = "alone" => Phase(r)
  BY <1>1, Begun DEF Phase, Settled, Labels
<1> QED
  BY <1>1, <1>2, <1>3, Begun, ReadsOnly, TypeKeeps DEF BeginRebuild

LEMMA IdleKnows == KnowsOf(Idle) /\ ReadOnce(Idle)
BY NothingInEmpty DEF KnowsOf, ReadOnce, Idle

\* The dashboard is written, and the call is over or goes on; or it is refused.
LEMMA RefreshKeeps ==
  ASSUME Inv, NEW p \in Procs, Refresh(p) \/ RefreshRefused(p) PROVE Inv'
<1>1. PICK r \in CallRecord :
        /\ call' = [call EXCEPT ![p] = r]
        /\ r.at \in {"idle", "recheck"} /\ KnowsOf(r) /\ ReadOnce(r)
  <2>1. CASE RefreshRefused(p)
    <3>1. PICK r \in CallRecord : call' = [call EXCEPT ![p] = r] /\ r = Idle
      BY <2>1, Returning DEF RefreshRefused, Inv
    <3> QED
      BY <3>1, IdleKnows DEF Idle
  <2>2. CASE Refresh(p)
    <3> DEFINE m == Resumed(call[p])
    <3>1. call[p] \in CallRecord /\ KnowsOf(call[p])
      BY CallType DEF Inv, UpInv
    <3>2. /\ m \in CallRecord /\ m.at \in {"idle", "recheck"}
          /\ m.row = {} /\ m.event = {} /\ m.text = <<>> /\ m.todo = call[p].todo
      BY <3>1, EmptySeq DEF Resumed, Idle, CallRecord, Labels
    <3>3. call' = [call EXCEPT ![p] = m]
      BY <2>2 DEF Refresh
    <3> HIDE DEF m
    <3>4. KnowsOf(m) /\ ReadOnce(m)
      BY <3>1, <3>2, NothingInEmpty DEF KnowsOf, ReadOnce
    <3> QED
      BY <3>2, <3>3, <3>4
  <2> QED
    BY <2>1, <2>2
<1>2. call[p].at = "refresh" /\ call[p].at \in Settled \ {"idle"}
  BY DEF Refresh, RefreshRefused, Settled, Labels
<1>3. KnowsOf(r) /\ ReadOnce(r) /\ r.at \in {"idle", "recheck"}
  BY <1>1
<1>4. mode = "alone" => Phase(r)
  BY <1>2, <1>3, SettledNow, StaysSettled DEF Settled, Labels
<1>5. dashboard' \subseteq Questions
  BY CallType DEF Refresh, RefreshRefused, Inv, TypeOK, CallRecord
<1> QED
  BY <1>1, <1>2, <1>3, <1>4, <1>5, Moving, ReadsOnly, TypeKeeps DEF Refresh, RefreshRefused

LEMMA CrashKeeps ==
  ASSUME Inv, NEW p \in Procs, Crash(p) PROVE Inv'
<1>1. PICK r \in CallRecord : call' = [call EXCEPT ![p] = r] /\ r = Idle
  BY Returning DEF Crash, Inv
<1>2. KnowsOf(r) /\ ReadOnce(r)
  BY <1>1, IdleKnows
<1>3. mode # "alone"
  BY DEF Crash
<1>4. MayMove(p)
  BY <1>3 DEF MayMove
<1> QED
  BY <1>1, <1>2, <1>3, <1>4, ReadsOnly, TypeKeeps DEF Crash

-----------------------------------------------------------------------------
(* Steps that change a row                                                 *)

\* A question is inserted, and the call goes on to append its event.
LEMMA InsertedKeeps ==
  ASSUME Inv, NEW p \in Procs, NEW q \in Questions, Inserted(q),
         NEW r \in CallRecord, call' = [call EXCEPT ![p] = r],
         MayMove(p), mode' = mode, calls' \in 0 .. MaxCalls[mode],
         r.at = "append", r.then = "list", r.event = Opened(q),
         \A x \in r.row \cup r.todo : CameUp(x.question),
         \A o \in Questions : InLedger(o, r.text) => CameUp(o),
         mode = "alone" => AgreeBut({})
  PROVE  Inv'
<1>1. PICK e \in Event : /\ r.event = {e} /\ e.question = q /\ e.id = "uuid"
                         /\ Replayed(e.event) = "open"
  <2> DEFINE e == [question |-> q, event |-> "opened", id |-> "uuid"]
  <2>1. e \in Event /\ e.question = q /\ e.id = "uuid" /\ Replayed(e.event) = "open"
    BY DEF Event, Replayed
  <2>2. r.event = {e}
    BY DEF Opened
  <2> HIDE DEF e
  <2> QED
    BY <2>1, <2>2
<1>2. /\ status' \in [Questions -> Status \cup {"absent"}]
      /\ status'[q] = "open" /\ \A o \in Questions \ {q} : status'[o] = status[o]
      /\ origin' \in [Questions -> {"none", "asked", "extracted"}]
      /\ origin'[q] = "asked" /\ \A o \in Questions \ {q} : origin'[o] = origin[o]
      /\ ledger' = ledger /\ dashboard' = dashboard /\ archived' = archived
  BY DEF Inserted, Inv, TypeOK, Status
<1>3. /\ \A o \in Questions : CameUp(o) => CameUp(o)'
      /\ CameUp(q)'
  BY <1>2 DEF CameUp
<1>4. \A o \in Questions : status'[o] # "absent" \/ InLedger(o, ledger') => CameUp(o)'
  BY <1>2, <1>3 DEF Inv, UpInv
<1>5. KnowsOf(r)'
  <2>1. \A x \in r.row \cup r.todo : x.question \in Questions
    BY DEF CallRecord, Row
  <2> QED
    BY <1>1, <1>3, <2>1 DEF KnowsOf
<1>6. mode = "alone" => Phase(r)'
  <2> SUFFICES ASSUME mode = "alone" PROVE Phase(r)'
    OBVIOUS
  <2>1. AgreeBut({q})'
    BY <1>2 DEF AgreeBut, Agree
  <2>2. Reporting(r)'
    BY <1>1, <1>2, <2>1 DEF Reporting
  <2> QED
    BY <2>2 DEF Phase, Settled
<1> QED
  BY <1>2, <1>3, <1>4, <1>5, <1>6, StepKeeps, TypeKeeps DEF ReadOnce, Inv, OnceInv, TypeOK

LEMMA RecordKeeps ==
  ASSUME Inv, NEW p \in Procs, NEW q \in Questions, Record(p, q) PROVE Inv'
<1> DEFINE m == [Idle EXCEPT !.at = "append", !.then = "list", !.event = Opened(q)]
<1>1. Opened(q) \in SUBSET Event
  BY DEF Opened, Event
<1>2. PICK r \in CallRecord :
        /\ Starts(p, r) /\ r.at = "append" /\ r.then = "list"
        /\ r.row = {} /\ r.event = Opened(q) /\ r.todo = {} /\ r.text = <<>>
  <2>1. /\ m \in CallRecord /\ m.at = "append" /\ m.then = "list"
        /\ m.row = {} /\ m.event = Opened(q) /\ m.todo = {} /\ m.text = <<>>
    BY <1>1, EmptySeq DEF Idle, CallRecord, Labels
  <2>2. Starts(p, m)
    BY DEF Record
  <2> HIDE DEF m
  <2> QED
    BY <2>1, <2>2
<1>3. Inserted(q)
  BY DEF Record
<1> QED
  BY <1>2, <1>3, Begun, InsertedKeeps, NothingInEmpty

LEMMA RefuseKeeps ==
  ASSUME Inv, NEW p \in Procs, NEW q \in Questions, Refuse(p, q) PROVE Inv'
<1> DEFINE m == [call[p] EXCEPT !.at = "append", !.then = "list", !.event = Opened(q),
                                !.back = "recheck"]
<1>1. Opened(q) \in SUBSET Event /\ call[p] \in CallRecord /\ KnowsOf(call[p])
  BY CallType DEF Opened, Event, Inv, UpInv
<1>2. PICK r \in CallRecord :
        /\ call' = [call EXCEPT ![p] = r] /\ r.at = "append" /\ r.then = "list"
        /\ r.event = Opened(q)
        /\ r.row = call[p].row /\ r.todo = call[p].todo /\ r.text = call[p].text
  <2>1. /\ m \in CallRecord /\ m.at = "append" /\ m.then = "list"
        /\ m.event = Opened(q)
        /\ m.row = call[p].row /\ m.todo = call[p].todo /\ m.text = call[p].text
    BY <1>1 DEF CallRecord, Labels
  <2>2. call' = [call EXCEPT ![p] = m]
    BY DEF Refuse
  <2> HIDE DEF m
  <2> QED
    BY <2>1, <2>2
<1>3. Inserted(q) /\ mode' = mode /\ calls' = calls
  BY DEF Refuse
<1>4. call[p].at \in Settled \ {"idle"}
  BY DEF Refuse, Settled, Labels
<1>5. mode = "alone" => AgreeBut({})
  BY <1>4, SettledNow
<1> QED
  BY <1>1, <1>2, <1>3, <1>4, <1>5, Moving, InsertedKeeps, TypeKeeps DEF KnowsOf

LEMMA ExtractKeeps ==
  ASSUME Inv, NEW p \in Procs, NEW q \in Questions, Extract(p, q) PROVE Inv'
<1>1. PICK r \in CallRecord :
        /\ Starts(p, r) /\ r.at = "fetch"
        /\ r.row = {} /\ r.event = {} /\ r.todo = {} /\ r.text = <<>>
  BY Beginnings DEF Extract
<1>2. /\ status' \in [Questions -> Status \cup {"absent"}]
      /\ \A o \in Questions \ {q} : status'[o] = status[o]
      /\ origin' \in [Questions -> {"none", "asked", "extracted"}]
      /\ origin'[q] = "extracted" /\ \A o \in Questions \ {q} : origin'[o] = origin[o]
      /\ ledger' = ledger /\ dashboard' = dashboard /\ archived' = archived
  BY DEF Extract, Inv, TypeOK, Status
<1>3. /\ \A o \in Questions : CameUp(o) => CameUp(o)'
      /\ CameUp(q)'
  BY <1>2 DEF CameUp
<1>4. \A o \in Questions : status'[o] # "absent" \/ InLedger(o, ledger') => CameUp(o)'
  BY <1>2, <1>3 DEF Inv, UpInv
<1>5. KnowsOf(r)'
  BY <1>1, NothingInEmpty DEF KnowsOf
<1>6. mode = "alone" => Phase(r)'
  <2> SUFFICES ASSUME mode = "alone" PROVE Phase(r)'
    OBVIOUS
  <2>1. AgreeBut({})
    BY <1>1, Begun
  <2>2. ~ InLedger(q, ledger)
    BY DEF Extract, Inv, UpInv, CameUp
  <2>3. AgreeBut({})'
    BY <1>2, <2>1, <2>2 DEF AgreeBut, Agree
  <2> QED
    BY <1>1, <2>3 DEF Phase, Settled
<1> QED
  BY <1>1, <1>2, <1>3, <1>4, <1>5, <1>6, Begun, StepKeeps, TypeKeeps
     DEF ReadOnce, Inv, OnceInv, TypeOK

LEMMA TransitionKeeps ==
  ASSUME Inv, NEW p \in Procs, NEW row \in call[p].row,
         NEW from \in {"reopen", "dismiss", "candidate", "verify"},
         NEW to \in Status,
         NEW event \in {"candidate_evidence_found", "resolved", "reopened", "dismissed"},
         Replayed(event) = to, Transition(p, from, row, to, event)
  PROVE  Inv'
<1> DEFINE e == [question |-> row.question, event |-> event, id |-> "uuid"]
           m == [call[p] EXCEPT !.at = "append", !.then = Caller(event), !.row = {row},
                                !.event = {e}]
<1>1. /\ call[p] \in CallRecord /\ KnowsOf(call[p])
      /\ row \in Row /\ row.question \in Questions /\ CameUp(row.question)
  BY CallType DEF Inv, UpInv, KnowsOf, CallRecord, Row
<1>2. e \in Event /\ e.question = row.question /\ e.id = "uuid" /\ e.event = event
  BY <1>1 DEF Event
<1> HIDE DEF e
<1>3. Caller(event) \in {"verify", "recheck", "list"} /\ Caller(event) \in Labels
  BY DEF Caller, Labels
<1>4. PICK r \in CallRecord :
        /\ call' = [call EXCEPT ![p] = r]
        /\ r.at = "append" /\ r.then = Caller(event) /\ r.row = {row} /\ r.event = {e}
        /\ r.text = call[p].text /\ r.todo = call[p].todo
  <2>1. /\ m \in CallRecord
        /\ m.at = "append" /\ m.then = Caller(event) /\ m.row = {row} /\ m.event = {e}
        /\ m.text = call[p].text /\ m.todo = call[p].todo
    BY <1>1, <1>2, <1>3 DEF CallRecord, Labels
  <2>2. call' = [call EXCEPT ![p] = m]
    BY DEF Transition, e
  <2> HIDE DEF m
  <2> QED
    BY <2>1, <2>2
<1>5. /\ status' \in [Questions -> Status \cup {"absent"}]
      /\ status'[row.question] \in {"absent", to}
      /\ status[row.question] = "absent" => status'[row.question] = "absent"
      /\ \A q \in Questions \ {row.question} : status'[q] = status[q]
      /\ ledger' = ledger /\ origin' = origin /\ archived' = archived
      /\ dashboard' = dashboard /\ mode' = mode /\ calls' = calls
  BY <1>1 DEF Transition, Inv, TypeOK
<1>6. \A q \in Questions : status'[q] # "absent" \/ InLedger(q, ledger') => CameUp(q)'
  BY <1>5 DEF Inv, UpInv, CameUp
<1>7. KnowsOf(r)'
  BY <1>1, <1>2, <1>4, <1>5 DEF KnowsOf, CameUp
<1>8. call[p].at \in Settled \ {"idle"}
  BY DEF Transition, Settled, Labels
<1>9. mode = "alone" => Phase(r)'
  <2> SUFFICES ASSUME mode = "alone" PROVE Phase(r)'
    OBVIOUS
  <2>1. AgreeBut({})
    BY <1>8, SettledNow
  <2>2. AgreeBut({row.question})'
    BY <1>5, <2>1 DEF AgreeBut, Agree
  <2>3. Reporting(r)'
    BY <1>2, <1>3, <1>4, <1>5, <2>2 DEF Reporting
  <2> QED
    BY <1>4, <2>3 DEF Phase, Settled
<1> QED
  BY <1>4, <1>5, <1>6, <1>7, <1>8, <1>9, Moving, StepKeeps, TypeKeeps
     DEF ReadOnce, Inv, OnceInv, TypeOK, CameUp

LEMMA TransitionsKeep ==
  ASSUME Inv, NEW p \in Procs, Reopen(p) \/ Dismiss(p) \/ Candidate(p) \/ Resolve(p)
  PROVE  Inv'
<1>1. /\ {"open", "dismissed", "candidate_evidence", "resolved"} \subseteq Status
      /\ Replayed("reopened") = "open" /\ Replayed("dismissed") = "dismissed"
      /\ Replayed("candidate_evidence_found") = "candidate_evidence"
      /\ Replayed("resolved") = "resolved"
  BY DEF Status, Replayed
<1>2. CASE Reopen(p)
  BY <1>1, <1>2, TransitionKeeps DEF Reopen
<1>3. CASE Dismiss(p)
  BY <1>1, <1>3, TransitionKeeps DEF Dismiss
<1>4. CASE Candidate(p)
  BY <1>1, <1>4, TransitionKeeps DEF Candidate
<1>5. CASE Resolve(p)
  BY <1>1, <1>5, TransitionKeeps DEF Resolve
<1> QED
  BY <1>2, <1>3, <1>4, <1>5

-----------------------------------------------------------------------------
(* The ledger is replaced                                                  *)

\* The event of a transition settles what its question's row says.
LEMMA AppendAgrees ==
  ASSUME ledger \in Seq(Event), NEW e \in Event, ledger' = Append(ledger, e),
         status' = status, AgreeBut({e.question}),
         status[e.question] \in {"absent", Replayed(e.event)}
  PROVE  AgreeBut({})'
<1> SUFFICES ASSUME NEW q \in Questions PROVE Agree(q)'
  BY DEF AgreeBut
<1>1. CASE q = e.question
  BY <1>1, AppendedCounts DEF Agree
<1>2. CASE q # e.question
  BY <1>2, AppendedCounts DEF Agree, AgreeBut
<1> QED
  BY <1>1, <1>2

\* An event that is not the row's last word leaves the other questions alone.
LEMMA AppendAgreesBut ==
  ASSUME ledger \in Seq(Event), NEW e \in Event, ledger' = Append(ledger, e),
         status' = status, AgreeBut({e.question})
  PROVE  AgreeBut({e.question})'
BY AppendedCounts DEF AgreeBut, Agree

LEMMA AppendedOpened ==
  ASSUME ledger \in Seq(Event), NEW e \in Event, ledger' = Append(ledger, e),
         e.event = "opened", ~ InLedger(e.question, ledger)
  PROVE  OnlyOpened(e.question)'
<1>1. InLedger(e.question, ledger')
  BY AppendedCounts
<1>2. \A i \in DOMAIN ledger' :
        ledger'[i].question = e.question => ledger'[i].event = "opened"
  BY Appending DEF InLedger
<1> QED
  BY <1>1, <1>2 DEF OnlyOpened

\* The event that a row is migrated with is not there before.
LEMMA MigratesOnce ==
  ASSUME ledger \in Seq(Event), NEW row \in Row, NEW e \in Event, e.question = row.question,
         \/ ~ InLedger(row.question, ledger)
         \/ OnlyOpened(row.question) /\ e.event \in FinalEvent(row.status)
  PROVE  ~ AlreadyAppended(ledger, e)
BY DEF AlreadyAppended, Range, InLedger, OnlyOpened, FinalEvent

LEMMA FinalEventSays ==
  \A s \in Status : /\ FinalEvent(s) = {} => s = "open"
                    /\ \A e \in FinalEvent(s) : Replayed(e) = s
BY DEF Status, FinalEvent, Replayed

\* What replacing the ledger does, when no other call is under way.
LEMMA ReplacedAlone ==
  ASSUME Inv, NEW p \in Procs, ReplaceLedger(p), mode = "alone",
         NEW r \in CallRecord, r.at = call[p].then, Same(r, call[p])
  PROVE  Phase(r)' /\ \E e \in Event : call[p].event = {e} /\ ledger' = Append(ledger, e)
<1>1. Phase(call[p]) /\ call[p].at = "replace" /\ call[p].text = ledger
  BY Moving DEF ReplaceLedger, Phase
<1>2. /\ ledger \in Seq(Event) /\ status' = status
      /\ call[p].event \in SUBSET Event /\ call[p].todo \in SUBSET Row
  BY CallType DEF Inv, TypeOK, ReplaceLedger, CallRecord
<1>3. PICK e \in call[p].event : ledger' = Extended(ledger, e)
  BY <1>1 DEF ReplaceLedger
<1>4. CASE Reporting(call[p])
  <2>1. /\ e \in Event /\ call[p].event = {e} /\ e.id = "uuid"
        /\ r.at \in {"verify", "recheck", "list"}
        /\ status[e.question] \in {"absent", Replayed(e.event)}
        /\ AgreeBut({e.question})
    BY <1>3, <1>4 DEF Reporting
  <2>2. ledger' = Append(ledger, e)
    BY <1>3, <2>1 DEF Extended, AlreadyAppended
  <2>3. AgreeBut({})'
    BY <1>2, <2>1, <2>2, AppendAgrees
  <2> QED
    BY <2>1, <2>2, <2>3 DEF Phase, Settled
<1>5. CASE Migrating(call[p])
  <2>1. PICK row \in Row :
          /\ Migrates(call[p], row)
          /\ \/ /\ r.at = "migrate_final" /\ call[p].event = Migrated(row, "opened")
                /\ ~ InLedger(row.question, ledger)
             \/ /\ r.at = "migrate" /\ OnlyOpened(row.question)
                /\ \E x \in FinalEvent(row.status) : call[p].event = Migrated(row, x)
    BY <1>5 DEF Migrating
  <2>2. /\ e \in Event /\ call[p].event = {e} /\ e.question = row.question
        /\ \/ e.event = "opened" /\ ~ InLedger(row.question, ledger)
           \/ OnlyOpened(row.question) /\ e.event \in FinalEvent(row.status)
    BY <1>2, <1>3, <2>1 DEF Migrated
  <2>3. ledger' = Append(ledger, e)
    BY <1>2, <1>3, <2>2, MigratesOnce DEF Extended
  <2>4. /\ r.row = {row} /\ status[row.question] = row.status /\ row.question \in Questions
        /\ row.status \in Status
        /\ AgreeBut({row.question}) /\ ToMigrate(r.todo, {row.question})
        /\ r.todo \in SUBSET Row
    BY <1>2, <2>1 DEF Migrates, Same, Row
  <2>5. ToMigrate(r.todo, {row.question})'
    <3>1. \A q \in Questions \ {row.question} : InLedger(q, ledger') <=> InLedger(q, ledger)
      BY <1>2, <2>2, <2>3, AppendedCounts
    <3>2. \A x \in r.todo : x.question \in Questions
      BY <2>4 DEF Row
    <3> QED
      BY <1>2, <2>4, <3>1, <3>2 DEF ToMigrate
  <2>6. CASE r.at = "migrate_final"
    <3>1. OnlyOpened(row.question)'
      BY <1>2, <2>1, <2>2, <2>3, <2>6, AppendedOpened DEF Migrated
    <3>2. AgreeBut({row.question})'
      BY <1>2, <2>2, <2>3, <2>4, AppendAgreesBut
    <3>3. Migrates(r, row)'
      BY <1>2, <2>4, <2>5, <3>2 DEF Migrates
    <3> QED
      BY <2>2, <2>3, <2>6, <3>1, <3>3 DEF Phase, Settled
  <2>7. CASE r.at = "migrate"
    <3>1. e.event \in FinalEvent(row.status)
      BY <2>1, <2>2, <2>7 DEF Migrated
    <3>2. status[e.question] = Replayed(e.event)
      BY <2>2, <2>4, <3>1, FinalEventSays
    <3>3. AgreeBut({})'
      BY <1>2, <2>2, <2>3, <2>4, <3>2, AppendAgrees
    <3>4. InLedger(row.question, ledger')
      BY <1>2, <2>2, <2>3, AppendedCounts
    <3>5. ToMigrate(r.todo, {})'
      BY <2>5, <3>4 DEF ToMigrate
    <3> QED
      BY <2>2, <2>3, <2>7, <3>3, <3>5 DEF Phase, Settled
  <2> QED
    BY <2>1, <2>6, <2>7
<1> QED
  BY <1>1, <1>4, <1>5 DEF Phase

LEMMA ReplaceLedgerKeeps ==
  ASSUME Inv, NEW p \in Procs, ReplaceLedger(p) PROVE Inv'
<1>1. /\ call[p] \in CallRecord /\ KnowsOf(call[p]) /\ OnceIn(call[p].text)
      /\ OnceIn(ledger) /\ ledger \in Seq(Event)
  BY CallType DEF Inv, UpInv, OnceInv, ReadOnce, ReplaceLedger, TypeOK
<1>2. PICK r \in CallRecord : /\ call' = [call EXCEPT ![p] = r]
                              /\ r.at = call[p].then /\ Same(r, call[p])
  <2>1. call[p].then \in Labels /\ Goto(p, call[p].then)
    BY <1>1 DEF CallRecord, ReplaceLedger
  <2> QED
    BY <2>1, Going DEF Inv
<1>3. PICK e \in call[p].event : ledger' = Extended(call[p].text, e)
  BY DEF ReplaceLedger
<1>4. e \in Event /\ call[p].text \in Seq(Event) /\ CameUp(e.question)
  BY <1>1, <1>3 DEF CallRecord, KnowsOf
<1>5. /\ ledger' \in Seq(Event) /\ OnceIn(ledger')
      /\ \A q \in Questions : InLedger(q, ledger') => CameUp(q)
  <2>1. CASE ledger' = ledger
    BY <1>1, <2>1 DEF Inv, UpInv
  <2>2. CASE ledger' # ledger
    <3>1. ledger' = Append(call[p].text, e) /\ ~ AlreadyAppended(call[p].text, e)
      BY <1>3, <2>2 DEF Extended
    <3>2. ledger' \in Seq(Event) /\ OnceIn(ledger')
      BY <1>1, <1>4, <3>1, Appending, AppendedOnce
    <3>3. \A q \in Questions : InLedger(q, ledger') => CameUp(q)
      BY <1>1, <1>4, <3>1, AppendedCounts DEF KnowsOf
    <3> QED
      BY <3>2, <3>3
  <2> QED
    BY <2>1, <2>2
<1>6. \A q \in Questions : status'[q] # "absent" \/ InLedger(q, ledger') => CameUp(q)'
  BY <1>5 DEF ReplaceLedger, CameUp, Inv, UpInv
<1>7. KnowsOf(r)' /\ ReadOnce(r)
  BY <1>1, <1>2 DEF KnowsOf, ReadOnce, Same, CameUp, ReplaceLedger
<1>8. mode = "alone" => Phase(r)'
  BY <1>2, ReplacedAlone
<1> QED
  BY <1>2, <1>5, <1>6, <1>7, <1>8, Moving, StepKeeps, TypeKeeps
     DEF ReplaceLedger, Inv, TypeOK, CameUp

-----------------------------------------------------------------------------
(* The migration of rows                                                   *)

LEMMA MigrateRowsKeeps ==
  ASSUME Inv, NEW p \in Procs, MigrateRows(p) PROVE Inv'
<1> DEFINE rows == {r \in Rows : ~ InLedger(r.question, call[p].text)}
           m == [call[p] EXCEPT !.at = "migrate", !.todo = rows]
<1>1. /\ rows \in SUBSET Row
      /\ \A x \in rows : CameUp(x.question) /\ status[x.question] = x.status
      /\ \A x \in rows : ~ InLedger(x.question, call[p].text)
      /\ \A q \in Questions : status[q] # "absent" /\ ~ InLedger(q, call[p].text) =>
                               \E x \in rows : x.question = q
  <2>1. \A q \in Questions : status[q] # "absent" =>
          [question |-> q, status |-> status[q]] \in Rows
    BY DEF Rows, Row, Inv, TypeOK
  <2>2. \A q \in Questions : status[q] # "absent" /\ ~ InLedger(q, call[p].text) =>
          \E x \in rows : x.question = q
    <3> SUFFICES ASSUME NEW q \in Questions, status[q] # "absent",
                        ~ InLedger(q, call[p].text)
                 PROVE  \E x \in rows : x.question = q
      OBVIOUS
    <3>1. PICK x : x = [question |-> q, status |-> status[q]]
      OBVIOUS
    <3>2. x \in Rows /\ x.question = q
      BY <2>1, <3>1
    <3> QED
      BY <3>2
  <2>3. \A x \in rows : x \in Row /\ CameUp(x.question) /\ status[x.question] = x.status
    BY TypeKeeps
  <2> QED
    BY <2>2, <2>3
<1> HIDE DEF rows
<1>2. call[p] \in CallRecord /\ KnowsOf(call[p])
  BY CallType DEF Inv, UpInv
<1>3. PICK r \in CallRecord :
        /\ call' = [call EXCEPT ![p] = r]
        /\ r.at = "migrate" /\ r.todo = rows /\ r.row = call[p].row
        /\ r.event = call[p].event /\ r.text = call[p].text
  <2>1. /\ m \in CallRecord
        /\ m.at = "migrate" /\ m.todo = rows /\ m.row = call[p].row
        /\ m.event = call[p].event /\ m.text = call[p].text
    BY <1>1, <1>2 DEF CallRecord, Labels
  <2>2. call' = [call EXCEPT ![p] = m]
    BY DEF MigrateRows, rows
  <2> HIDE DEF m
  <2> QED
    BY <2>1, <2>2
<1>4. KnowsOf(r) /\ ReadOnce(r)
  BY <1>1, <1>2, <1>3 DEF KnowsOf, ReadOnce
<1>5. mode = "alone" => Phase(r)
  <2> SUFFICES ASSUME mode = "alone" PROVE Phase(r)
    OBVIOUS
  <2>1. AgreeBut({}) /\ call[p].text = ledger
    BY Moving DEF MigrateRows, Phase, Settled, Labels
  <2>2. ToMigrate(r.todo, {})
    BY <1>1, <1>3, <2>1 DEF ToMigrate
  <2> QED
    BY <1>3, <2>1, <2>2 DEF Phase, Settled
<1> QED
  BY <1>3, <1>4, <1>5, Moving, ReadsOnly, TypeKeeps DEF MigrateRows

LEMMA MigrateOpenedKeeps ==
  ASSUME Inv, NEW p \in Procs, NEW row \in call[p].todo, MigrateOpened(p, row) PROVE Inv'
<1> DEFINE es == Migrated(row, "opened")
           m == [call[p] EXCEPT !.at = "append", !.then = "migrate_final",
                   !.todo = @ \ {row}, !.row = {row}, !.event = es]
<1>1. call[p] \in CallRecord /\ KnowsOf(call[p]) /\ row \in Row /\ CameUp(row.question)
  BY CallType DEF Inv, UpInv, CallRecord, KnowsOf
<1>2. es \in SUBSET Event /\ \A e \in es : e.question = row.question
  BY <1>1 DEF Migrated, Event, Row
<1> HIDE DEF es
<1>3. PICK r \in CallRecord :
        /\ call' = [call EXCEPT ![p] = r]
        /\ r.at = "append" /\ r.then = "migrate_final" /\ r.todo = call[p].todo \ {row}
        /\ r.row = {row} /\ r.event = es /\ r.text = call[p].text
  <2>1. /\ m \in CallRecord
        /\ m.at = "append" /\ m.then = "migrate_final" /\ m.todo = call[p].todo \ {row}
        /\ m.row = {row} /\ m.event = es /\ m.text = call[p].text
    BY <1>1, <1>2 DEF CallRecord, Labels
  <2>2. call' = [call EXCEPT ![p] = m]
    BY DEF MigrateOpened, es
  <2> HIDE DEF m
  <2> QED
    BY <2>1, <2>2
<1>4. KnowsOf(r) /\ ReadOnce(r)
  BY <1>1, <1>2, <1>3 DEF KnowsOf, ReadOnce
<1>5. mode = "alone" => Phase(r)
  <2> SUFFICES ASSUME mode = "alone" PROVE Phase(r)
    OBVIOUS
  <2>1. AgreeBut({}) /\ ToMigrate(call[p].todo, {})
    BY Moving DEF MigrateOpened, Phase, Settled, Labels
  <2>2. \A x \in call[p].todo \ {row} : x.question # row.question
    <3>1. \A x \in call[p].todo : x \in Row /\ x.status = status[x.question]
      BY <1>1, <2>1 DEF ToMigrate, CallRecord
    <3> QED
      BY <1>1, <3>1 DEF Row
  <2>3. ToMigrate(r.todo, {row.question})
    BY <1>3, <2>1, <2>2 DEF ToMigrate
  <2>4. Migrates(r, row)
    BY <1>3, <2>1, <2>3 DEF Migrates, ToMigrate, AgreeBut
  <2>5. ~ InLedger(row.question, ledger)
    BY <2>1 DEF ToMigrate
  <2>6. Migrating(r)
    BY <1>1, <1>3, <2>4, <2>5 DEF Migrating, es
  <2> QED
    BY <1>3, <2>6 DEF Phase, Settled
<1> QED
  BY <1>3, <1>4, <1>5, Moving, ReadsOnly, TypeKeeps DEF MigrateOpened

LEMMA MigrateFinalKeeps ==
  ASSUME Inv, NEW p \in Procs, MigrateFinal(p) PROVE Inv'
<1>1. PICK row \in call[p].row :
        \/ FinalEvent(row.status) = {} /\ Goto(p, "migrate")
        \/ \E x \in FinalEvent(row.status) :
             call' = [call EXCEPT ![p] = [call[p] EXCEPT !.at = "append", !.then = "migrate",
                                            !.event = Migrated(row, x)]]
  BY DEF MigrateFinal
<1>2. /\ call[p] \in CallRecord /\ KnowsOf(call[p])
      /\ row \in Row /\ CameUp(row.question) /\ row.question \in Questions
      /\ row.status \in Status
  BY CallType DEF Inv, UpInv, CallRecord, KnowsOf, Row
<1>3. mode = "alone" => Migrates(call[p], row) /\ OnlyOpened(row.question)
  <2> SUFFICES ASSUME mode = "alone"
               PROVE  Migrates(call[p], row) /\ OnlyOpened(row.question)
    OBVIOUS
  <2>1. call[p].at = "migrate_final" /\ Phase(call[p])
    BY Moving DEF MigrateFinal
  <2>2. PICK x \in Row : Migrates(call[p], x) /\ OnlyOpened(x.question)
    BY <2>1 DEF Phase
  <2>3. x = row
    BY <2>2 DEF Migrates
  <2> QED
    BY <2>2, <2>3
<1>4. CASE FinalEvent(row.status) = {} /\ Goto(p, "migrate")
  <2>1. PICK r \in CallRecord : /\ call' = [call EXCEPT ![p] = r]
                                /\ r.at = "migrate" /\ Same(r, call[p])
    BY <1>4, Going DEF Labels, Inv
  <2>2. KnowsOf(r) /\ ReadOnce(r)
    BY <1>2, <2>1 DEF KnowsOf, ReadOnce, Same
  <2>3. mode = "alone" => Phase(r)
    <3> SUFFICES ASSUME mode = "alone" PROVE Phase(r)
      OBVIOUS
    <3>1. /\ AgreeBut({row.question}) /\ ToMigrate(call[p].todo, {row.question})
          /\ status[row.question] = "open" /\ OnlyOpened(row.question)
      BY <1>2, <1>3, <1>4, FinalEventSays DEF Migrates
    <3>2. PICK i \in DOMAIN ledger : IsLast(i, row.question, ledger)
      BY <3>1, LastExists DEF OnlyOpened, Inv, TypeOK
    <3>3. RebuiltStatus(row.question, ledger) = Replayed(ledger[i].event)
      BY <3>2, LastCounts DEF Inv, TypeOK
    <3>4. ledger[i].event = "opened" /\ Replayed("opened") = "open"
      BY <3>1, <3>2 DEF OnlyOpened, IsLast, Replayed
    <3>5. AgreeBut({})
      BY <3>1, <3>3, <3>4 DEF AgreeBut, Agree
    <3>6. ToMigrate(r.todo, {})
      BY <2>1, <3>1 DEF ToMigrate, OnlyOpened, Same
    <3> QED
      BY <2>1, <3>5, <3>6 DEF Phase, Settled
  <2> QED
    BY <2>1, <2>2, <2>3, Moving, ReadsOnly, TypeKeeps DEF MigrateFinal
<1>5. ASSUME NEW x \in FinalEvent(row.status),
             call' = [call EXCEPT ![p] = [call[p] EXCEPT !.at = "append", !.then = "migrate",
                                            !.event = Migrated(row, x)]]
      PROVE  Inv'
  <2> DEFINE es == Migrated(row, x)
             m == [call[p] EXCEPT !.at = "append", !.then = "migrate", !.event = es]
  <2>1. es \in SUBSET Event /\ \A e \in es : e.question = row.question
    BY <1>2 DEF Migrated, Event, FinalEvent
  <2> HIDE DEF es
  <2>2. PICK r \in CallRecord :
          /\ call' = [call EXCEPT ![p] = r]
          /\ r.at = "append" /\ r.then = "migrate" /\ r.todo = call[p].todo
          /\ r.row = call[p].row /\ r.event = es /\ r.text = call[p].text
    <3>1. /\ m \in CallRecord
          /\ m.at = "append" /\ m.then = "migrate" /\ m.todo = call[p].todo
          /\ m.row = call[p].row /\ m.event = es /\ m.text = call[p].text
      BY <1>2, <2>1 DEF CallRecord, Labels
    <3>2. call' = [call EXCEPT ![p] = m]
      BY <1>5 DEF es
    <3> HIDE DEF m
    <3> QED
      BY <3>1, <3>2
  <2>3. KnowsOf(r) /\ ReadOnce(r)
    BY <1>2, <2>1, <2>2 DEF KnowsOf, ReadOnce
  <2>4. mode = "alone" => Migrating(r)
    BY <1>2, <1>3, <2>2 DEF Migrating, Migrates, es
  <2>5. mode = "alone" => Phase(r)
    BY <2>2, <2>4 DEF Phase, Settled
  <2> QED
    BY <2>2, <2>3, <2>5, Moving, ReadsOnly, TypeKeeps DEF MigrateFinal
<1> QED
  BY <1>1, <1>4, <1>5

-----------------------------------------------------------------------------
(* The database is discarded and rebuilt                                   *)

LEMMA ArchiveKeeps ==
  ASSUME Inv, NEW p \in Procs, Archive(p) PROVE Inv'
<1>1. PICK r \in CallRecord : /\ call' = [call EXCEPT ![p] = r]
                              /\ r.at = "restore" /\ Same(r, call[p])
  BY Going DEF Archive, Inv, Labels
<1>2. /\ status' \in [Questions -> Status \cup {"absent"}]
      /\ \A q \in Questions : status'[q] = "absent"
      /\ archived' \in [Questions -> Status \cup {"absent"}] /\ archived' = status
      /\ ledger' = ledger /\ origin' = origin
  BY DEF Archive, Inv, TypeOK
<1>3. \A q \in Questions : status'[q] # "absent" \/ InLedger(q, ledger') => CameUp(q)'
  BY <1>2 DEF Inv, UpInv, CameUp
<1>4. KnowsOf(r)' /\ ReadOnce(r)
  BY <1>1, <1>2 DEF KnowsOf, ReadOnce, Same, CameUp, Inv, UpInv
<1>5. mode = "alone" => Phase(r)'
  <2> SUFFICES ASSUME mode = "alone" PROVE Phase(r)'
    OBVIOUS
  <2>1. AgreeBut({}) /\ ToMigrate({}, {})
    BY Moving DEF Archive, Phase, Settled, Labels
  <2>2. \A q \in Questions : status[q] # "absent" =>
          InLedger(q, ledger) /\ RebuiltStatus(q, ledger) = status[q]
    BY <2>1 DEF ToMigrate, AgreeBut, Agree
  <2>3. Kept'
    BY <1>2, <2>2 DEF Kept
  <2> QED
    BY <1>1, <2>3 DEF Phase, Settled
<1>6. call[p].at # "idle"
  BY DEF Archive
<1> QED
  BY <1>1, <1>2, <1>3, <1>4, <1>5, <1>6, Moving, StepKeeps, TypeKeeps
     DEF Archive, Inv, OnceInv, TypeOK, CameUp

LEMMA RestoreExtractedKeeps ==
  ASSUME Inv, NEW p \in Procs, RestoreExtracted(p) PROVE Inv'
<1>1. PICK r \in CallRecord : /\ call' = [call EXCEPT ![p] = r]
                              /\ r.at = "read_events" /\ Same(r, call[p])
  BY Going DEF RestoreExtracted, Inv, Labels
<1>2. /\ status' \in [Questions -> Status \cup {"absent"}]
      /\ \A q \in Questions : status'[q] # "absent" =>
                               status[q] # "absent" \/ origin[q] = "extracted"
      /\ archived' = archived /\ ledger' = ledger /\ origin' = origin
  BY DEF RestoreExtracted, Inv, TypeOK, Status
<1>3. \A q \in Questions : status'[q] # "absent" \/ InLedger(q, ledger') => CameUp(q)'
  BY <1>2 DEF Inv, UpInv, CameUp
<1>4. KnowsOf(r)' /\ ReadOnce(r)
  BY <1>1, <1>2 DEF KnowsOf, ReadOnce, Same, CameUp, Inv, UpInv
<1>5. mode = "alone" => Phase(r)'
  <2> SUFFICES ASSUME mode = "alone" PROVE Phase(r)'
    OBVIOUS
  <2>1. Kept
    BY Moving DEF RestoreExtracted, Phase
  <2>2. Kept'
    BY <1>2, <2>1 DEF Kept
  <2> QED
    BY <1>1, <2>2 DEF Phase, Settled
<1>6. call[p].at # "idle"
  BY DEF RestoreExtracted
<1> QED
  BY <1>1, <1>2, <1>3, <1>4, <1>5, <1>6, Moving, StepKeeps, TypeKeeps
     DEF RestoreExtracted, Inv, OnceInv, TypeOK, CameUp

LEMMA ReadEventsKeeps ==
  ASSUME Inv, NEW p \in Procs, ReadEvents(p) PROVE Inv'
<1> DEFINE m == [call[p] EXCEPT !.text = ledger, !.at = "replay"]
<1>1. call[p] \in CallRecord /\ KnowsOf(call[p]) /\ ledger \in Seq(Event)
  BY CallType DEF Inv, UpInv, TypeOK
<1>2. PICK r \in CallRecord :
        /\ call' = [call EXCEPT ![p] = r] /\ r.at = "replay" /\ r.text = ledger
        /\ r.row = call[p].row /\ r.event = call[p].event /\ r.todo = call[p].todo
  <2>1. /\ m \in CallRecord /\ m.at = "replay" /\ m.text = ledger
        /\ m.row = call[p].row /\ m.event = call[p].event /\ m.todo = call[p].todo
    BY <1>1 DEF CallRecord, Labels
  <2>2. call' = [call EXCEPT ![p] = m]
    BY DEF ReadEvents
  <2> HIDE DEF m
  <2> QED
    BY <2>1, <2>2
<1>3. KnowsOf(r) /\ ReadOnce(r)
  BY <1>1, <1>2 DEF KnowsOf, ReadOnce, Inv, UpInv
<1>4. mode = "alone" => Phase(r)
  BY <1>2, Moving DEF ReadEvents, Phase, Settled
<1> QED
  BY <1>2, <1>3, <1>4, Moving, ReadsOnly, TypeKeeps DEF ReadEvents

LEMMA ReplayKeeps ==
  ASSUME Inv, NEW p \in Procs, Replay(p) PROVE Inv'
<1>1. PICK r \in CallRecord : call' = [call EXCEPT ![p] = r] /\ r = Idle
  BY Returning DEF Replay, Inv
<1>2. call[p] \in CallRecord /\ KnowsOf(call[p]) /\ call[p].text \in Seq(Event)
  BY CallType DEF Inv, UpInv, CallRecord
<1>3. /\ \A q \in Questions :
           /\ InLedger(q, call[p].text) => status'[q] = RebuiltStatus(q, call[p].text)
           /\ ~ InLedger(q, call[p].text) => status'[q] = status[q]
      /\ archived' = archived /\ ledger' = ledger /\ origin' = origin
  BY DEF Replay
<1>4. status' \in [Questions -> Status \cup {"absent"}]
  <2>1. \A q \in Questions : InLedger(q, call[p].text) =>
          RebuiltStatus(q, call[p].text) \in Status
    BY <1>2, RebuiltType
  <2>2. \A q \in Questions : status[q] \in Status \cup {"absent"}
    BY DEF Inv, TypeOK
  <2> QED
    BY <2>1, <2>2 DEF Replay
<1>5. \A q \in Questions : status'[q] # "absent" \/ InLedger(q, ledger') => CameUp(q)'
  BY <1>2, <1>3 DEF Inv, UpInv, KnowsOf, CameUp
<1>6. KnowsOf(r)' /\ ReadOnce(r) /\ r.at = "idle"
  <2>1. r.row = {} /\ r.event = {} /\ r.todo = {} /\ r.text = <<>> /\ r.at = "idle"
    BY <1>1 DEF Idle
  <2> QED
    BY <2>1, NothingInEmpty DEF KnowsOf, ReadOnce
<1>7. mode = "alone" => Phase(r)'
  <2> SUFFICES ASSUME mode = "alone" PROVE Phase(r)'
    OBVIOUS
  <2>1. call[p].text = ledger
    BY Moving DEF Replay, Phase
  <2>2. AgreeBut({})'
    BY <1>3, <2>1 DEF AgreeBut, Agree
  <2> QED
    BY <1>6, <2>2 DEF Phase, Settled
<1>8. call[p].at # "idle"
  BY DEF Replay
<1> QED
  BY <1>1, <1>3, <1>4, <1>5, <1>6, <1>7, <1>8, Moving, StepKeeps, TypeKeeps
     DEF Replay, Inv, OnceInv, TypeOK, CameUp

-----------------------------------------------------------------------------
(* The theorems                                                            *)

LEMMA InvInit == Init => Inv
<1> SUFFICES ASSUME Init PROVE Inv
  OBVIOUS
<1>1. /\ ledger = <<>> /\ ledger \in Seq(Event) /\ DOMAIN ledger = {}
  BY EmptySeq DEF Init
<1>2. TypeOK
  <2>1. /\ status \in [Questions -> Status \cup {"absent"}]
        /\ archived \in [Questions -> Status \cup {"absent"}]
        /\ origin \in [Questions -> {"none", "asked", "extracted"}]
    BY RowAssumption DEF Init
  <2>2. dashboard \subseteq Questions
    BY DEF Init, Rows, Row
  <2>3. Idle \in CallRecord
    BY EmptySeq DEF Idle, CallRecord, Labels
  <2>4. call \in [Procs -> CallRecord]
    BY <2>3 DEF Init
  <2>5. mode \in Modes /\ calls \in 0 .. MaxCalls[mode]
    BY BoundAssumption DEF Init
  <2> QED
    BY <1>1, <2>1, <2>2, <2>4, <2>5 DEF TypeOK, CallRecord
<1>3. \A p \in Procs : call[p] = Idle
  BY DEF Init
<1>4. UpInv
  BY <1>1, <1>3, IdleKnows DEF UpInv, Init, InLedger, CameUp
<1>5. OnceInv
  BY <1>1, <1>3, IdleKnows DEF OnceInv, OnceIn
<1>6. AloneInv
  <2>1. AgreeBut({})
    BY <1>1 DEF AgreeBut, Agree, InLedger
  <2>2. \A p \in Procs : call[p].at = "idle"
    BY <1>3 DEF Idle
  <2> QED
    BY <2>1, <2>2 DEF AloneInv, Phase, Settled
<1> QED
  BY <1>2, <1>4, <1>5, <1>6 DEF Inv

LEMMA InvStep == Inv /\ [Next]_vars => Inv'
<1> SUFFICES ASSUME Inv, [Next]_vars PROVE Inv'
  OBVIOUS
<1>1. CASE UNCHANGED vars
  <2> USE <1>1 DEF vars
  <2>1. TypeOK'
    BY DEF Inv, TypeOK
  <2>2. UpInv' /\ OnceInv'
    BY DEF Inv, UpInv, KnowsOf, CameUp, OnceInv, OnceIn, ReadOnce
  <2>3. /\ \A qs : AgreeBut(qs)' <=> AgreeBut(qs)
        /\ \A todo, qs : ToMigrate(todo, qs)' <=> ToMigrate(todo, qs)
        /\ \A q : OnlyOpened(q)' <=> OnlyOpened(q)
    BY DEF AgreeBut, Agree, ToMigrate, OnlyOpened
  <2>4. ASSUME NEW p \in Procs, Phase(call[p]) PROVE Phase(call[p])'
    BY <2>3, <2>4 DEF Phase, Reporting, Migrating, Migrates, Kept
  <2>5. AloneInv'
    BY <2>4 DEF Inv, AloneInv, OthersIdle
  <2> QED
    BY <2>1, <2>2, <2>5 DEF Inv
<1>2. ASSUME NEW p \in Procs, Call(p) PROVE Inv'
  BY <1>2, RecordKeeps, ExtractKeeps, BeginsWithRowKeeps, BeginRecheckKeeps,
     BeginRebuildKeeps DEF Call
<1>3. ASSUME NEW p \in Procs, Step(p) PROVE Inv'
  <2>1. CASE ReadLedger(p) \/ ReplaceLedger(p)
    BY <2>1, ReadLedgerKeeps, ReplaceLedgerKeeps
  <2>2. CASE Reopen(p) \/ Dismiss(p) \/ NoTransition(p)
    BY <2>2, TransitionsKeep, NoTransitionKeeps
  <2>3. CASE Fetch(p) \/ (\E row \in call[p].todo : Examine(p, row))
    BY <2>3, LooksKeeps
  <2>4. CASE \/ Candidate(p) \/ Resolve(p) \/ (\E q \in Questions : Refuse(p, q))
             \/ Unresolved(p) \/ Rechecked(p)
    BY <2>4, TransitionsKeep, RefuseKeeps, GoesBackKeeps
  <2>5. CASE List(p) \/ Hash(p) \/ Refresh(p) \/ RefreshRefused(p)
    BY <2>5, LooksKeeps, RefreshKeeps
  <2>6. CASE \/ MigrateRows(p) \/ (\E row \in call[p].todo : MigrateOpened(p, row))
             \/ MigrateFinal(p)
    BY <2>6, MigrateRowsKeeps, MigrateOpenedKeeps, MigrateFinalKeeps
  <2>7. CASE Archive(p) \/ RestoreExtracted(p) \/ ReadEvents(p) \/ Replay(p)
    BY <2>7, ArchiveKeeps, RestoreExtractedKeeps, ReadEventsKeeps, ReplayKeeps
  <2> QED
    BY <1>3, <2>1, <2>2, <2>3, <2>4, <2>5, <2>6, <2>7 DEF Step
<1>4. ASSUME NEW p \in Procs, Crash(p) PROVE Inv'
  BY <1>4, CrashKeeps
<1> QED
  BY <1>1, <1>2, <1>3, <1>4 DEF Next

LEMMA Invariant == Spec => []Inv
BY InvInit, InvStep, PTL DEF Spec

\* Every variable keeps its type: a rebuild finds a state for each question that it
\* finds events of.
THEOREM TypeCorrect == Spec => []TypeOK
<1>1. Inv => TypeOK
  BY DEF Inv
<1> QED
  BY <1>1, Invariant, PTL

\* migrate_phase2_runtime: however many processes rebuild at a time, and wherever they
\* die, no migrated event is in the ledger twice.
THEOREM MigratedAtMostOnce == Spec => []MigratedOnce
<1>1. Inv => MigratedOnce
  BY DEF Inv, OnceInv, OnceIn, MigratedOnce
<1> QED
  BY <1>1, Invariant, PTL

\* rebuild(): with calls one after the other, a rebuild gives every question of the
\* discarded database the state that it had.
THEOREM RebuildKeepsGaps == Spec => RebuildPreserves
<1>1. ASSUME Inv, NEW p \in Procs, NEW q \in Questions,
             mode = "alone", Replay(p), archived[q] # "absent"
      PROVE  status'[q] = archived[q]
  <2>1. call[p].text = ledger /\ Kept
    BY <1>1, Moving DEF Replay, Phase
  <2>2. InLedger(q, call[p].text) /\ RebuiltStatus(q, call[p].text) = archived[q]
    BY <1>1, <2>1 DEF Kept
  <2> QED
    BY <1>1, <2>2 DEF Replay
<1>2. Inv /\ [Next]_vars =>
        [\A p \in Procs, q \in Questions :
           mode = "alone" /\ Replay(p) /\ archived[q] # "absent"
             => status'[q] = archived[q]]_vars
  BY <1>1
<1> QED
  BY <1>2, Invariant, PTL DEF Spec, RebuildPreserves

LEMMA OnlyReplaceWrites ==
  ASSUME [Next]_vars, ledger' # ledger
  PROVE  \E p \in Procs : ReplaceLedger(p)
<1>1. ~ UNCHANGED vars
  BY DEF vars
<1>2. PICK p \in Procs : Call(p) \/ Step(p) \/ Crash(p)
  BY <1>1 DEF Next
<1>3. ~ Call(p)
  BY DEF Call, Record, Inserted, Extract, BeginReopen, BeginDismiss, BeginRecheck, BeginRebuild
<1>4. ~ Crash(p)
  BY DEF Crash
<1>5. /\ ~ (Reopen(p) \/ Dismiss(p) \/ Candidate(p) \/ Resolve(p))
      /\ ~ (ReadLedger(p) \/ NoTransition(p) \/ Fetch(p) \/ Unresolved(p) \/ Rechecked(p))
      /\ ~ \E q \in Questions : Refuse(p, q)
  BY DEF Reopen, Dismiss, Candidate, Resolve, Transition, ReadLedger, NoTransition, Fetch,
         Unresolved, Rechecked, Refuse, Inserted
<1>6. /\ ~ \E row \in call[p].todo : Examine(p, row) \/ MigrateOpened(p, row)
      /\ ~ (List(p) \/ Hash(p) \/ Refresh(p) \/ RefreshRefused(p))
  BY DEF Examine, MigrateOpened, List, Hash, Refresh, RefreshRefused
<1>7. ~ (\/ MigrateRows(p) \/ MigrateFinal(p) \/ Archive(p)
         \/ RestoreExtracted(p) \/ ReadEvents(p) \/ Replay(p))
  BY DEF MigrateRows, MigrateFinal, Archive, RestoreExtracted, ReadEvents, Replay
<1> QED
  BY <1>2, <1>3, <1>4, <1>5, <1>6, <1>7 DEF Step

LEMMA AppendingAppends ==
  ASSUME ledger \in Seq(Event), NEW e \in Event, ledger' = Append(ledger, e)
  PROVE  Appended
<1> DEFINE n == Len(ledger)
           rest == SubSeq(ledger', n + 1, n + 1)
<1>1. /\ ledger' \in Seq(Event) /\ n \in Nat /\ Len(ledger') = n + 1
      /\ ledger'[n + 1] = e /\ \A i \in 1 .. n : ledger'[i] = ledger[i]
  BY AppendProperties, LenProperties
<1>2. rest \in Seq(Event) /\ Len(rest) = 1 /\ rest[1] = e
  BY <1>1, SubSeqProperties
<1>3. /\ ledger \o rest \in Seq(Event) /\ Len(ledger \o rest) = n + 1
      /\ \A i \in 1 .. n + 1 : (ledger \o rest)[i] = IF i <= n THEN ledger[i] ELSE rest[i - n]
  BY <1>1, <1>2, ConcatProperties
<1> HIDE DEF n, rest
<1>4. ASSUME NEW i \in 1 .. n + 1 PROVE (ledger \o rest)[i] = ledger'[i]
  <2>1. CASE i <= n
    <3>1. i \in 1 .. n
      BY <1>1, <2>1
    <3> QED
      BY <1>1, <1>3, <2>1, <3>1
  <2>2. CASE i = n + 1
    <3>1. i \in 1 .. n + 1 /\ ~ i <= n /\ i - n = 1
      BY <1>1, <2>2
    <3>2. (ledger \o rest)[i] = rest[i - n]
      BY <1>3, <3>1
    <3> QED
      BY <1>1, <1>2, <2>2, <3>1, <3>2
  <2>3. n \in Nat
    BY <1>1
  <2>4. i <= n \/ i = n + 1
    BY <2>3
  <2> QED
    BY <2>1, <2>2, <2>4
<1>5. ledger' = ledger \o rest
  BY <1>1, <1>3, <1>4, SeqEqual
<1>6. rest = SubSeq(ledger', Len(ledger) + 1, Len(ledger'))
  BY <1>1 DEF n, rest
<1> QED
  BY <1>5, <1>6 DEF Appended

\* append_jsonl_event: with calls one after the other, no event is ever lost from the
\* ledger, or changed (beside each other, calls lose events: a run shows it).
THEOREM NothingLostAlone == Spec => [][mode = "alone" => Appended]_vars
<1>1. ASSUME Inv, [Next]_vars, mode = "alone" PROVE Appended
  <2>1. ledger \in Seq(Event)
    BY <1>1 DEF Inv, TypeOK
  <2>2. CASE ledger' = ledger
    <3>1. SubSeq(ledger', Len(ledger) + 1, Len(ledger')) = <<>>
      BY <2>1, <2>2, LenProperties, SubSeqEmpty
    <3>2. ledger' = ledger \o <<>>
      BY <2>1, <2>2, ConcatEmptySeq
    <3> QED
      BY <3>1, <3>2 DEF Appended
  <2>3. CASE ledger' # ledger
    <3>1. PICK p \in Procs : ReplaceLedger(p)
      BY <1>1, <2>3, OnlyReplaceWrites
    <3>2. PICK r \in CallRecord : r.at = call[p].then /\ Same(r, call[p])
      <4>1. call[p] \in CallRecord
        BY <1>1, CallType DEF Inv
      <4>2. call[p].then \in Labels /\ Goto(p, call[p].then)
        BY <3>1, <4>1 DEF ReplaceLedger, CallRecord
      <4> QED
        BY <1>1, <4>2, Going DEF Inv
    <3>3. \E e \in Event : ledger' = Append(ledger, e)
      BY <1>1, <3>1, <3>2, ReplacedAlone
    <3> QED
      BY <2>1, <3>3, AppendingAppends
  <2> QED
    BY <2>2, <2>3
<1>2. Inv /\ [Next]_vars => [mode = "alone" => Appended]_vars
  BY <1>1
<1> QED
  BY <1>2, Invariant, PTL DEF Spec
=============================================================================
