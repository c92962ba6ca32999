-------------------------- MODULE MaintenanceProofs --------------------------
(***************************************************************************)
(* Theorems about Maintenance and Structure, for every set of concepts,    *)
(* sources and relations, any number of callers and of failures, and days  *)
(* that end at any moment.                                                 *)
(*                                                                         *)
(* Three things make the invariant inductive.  A pass that has read and    *)
(* not yet written the notes holds texts that are as recent as the notes,  *)
(* but for those that were raced (ReadOK).  A routine that is past its     *)
(* brief has left it, if its period goes on (BriefOK).  And the daemon's   *)
(* pass is at work just when its loop waits for it (DaemonOK).             *)
(*                                                                         *)
(* The search of the module Clusters, which is a specification of its own, *)
(* has a theorem here too: what it has visited is the components that it   *)
(* has listed and the part of another one around its start.                *)
(***************************************************************************)
EXTENDS Maintenance, Clusters, TLAPS, SequenceTheorems, FiniteSetTheorems

-----------------------------------------------------------------------------
(* The invariant                                                           *)

KnownOK == known \subseteq Concepts /\ rels \subseteq Relations

ShownOK == home \cup map \subseteq Concepts

\* A note has a text, or it is absent.
NoteType == {n \in [text: 0 .. MaxText, block: SUBSET Objects] : n # Absent => n.text # 0}

NotesOK ==
  /\ note \in [Objects -> NoteType]
  /\ \A o \in Objects : note[o] = Absent <=> o \notin known \cup Sources

PendingOK == \A i \in pending : i.by \in Callers

\* What a pass shows, replaces or finds comes from some set.
PassRecord(U) ==
  [at: Places, job: Routines \cup {"none"}, links: [Objects -> SUBSET Objects],
   texts: [Objects -> NoteType], hashes: [Objects -> NoteType],
   shows: SUBSET U, over: SUBSET U, found: SUBSET U, staged: 0 .. Limit, dated: BOOLEAN]

PassesTyped == \E U : pass \in [Callers -> PassRecord(U)]

NightPlaces == {"read", "pages", "overtaken", "graph", "texts", "hashes", "link", "maps", "draw"}

PlaceOK(c) ==
  /\ c.at # "idle" => c.job \in Routines
  /\ c.at \in NightPlaces => c.job = "nightly"
  /\ c.at = "stage" => c.staged < Limit
  /\ c.at \in {"pages", "draw"} => c.shows \subseteq Concepts

PlacesOK == \A p \in Callers : PlaceOK(pass[p])

\* The notes that a pass with record c writes.
WritesOf(c) ==
  {o \in Objects : /\ c.links[o] # {} /\ c.texts[o] # Absent
                   /\ c.texts[o].block # c.links[o]}

\* What a pass has read of a note is neither newer nor older than the note.
ReadOK(c) ==
  /\ c.at \in {"hashes", "link"} =>
       \A o \in Objects : c.texts[o].text <= note[o].text \/ c.texts[o].text <= 1 \/ o \in raced
  /\ c.at = "hashes" =>
       \A o \in Objects :
         note[o].text <= c.texts[o].text \/ c.texts[o] = Absent \/ o \in raced
  /\ c.at = "link" =>
       \A o \in WritesOf(c) : /\ c.hashes[o] # Absent
                              /\ c.hashes[o].text <= c.texts[o].text \/ o \in raced

ReadsOK == \A p \in Callers : ReadOK(pass[p])

\* A pass that is past its brief has left it, unless the period has ended since it began.
BriefOK(p, c) ==
  p \notin late =>
    /\ c.at = "pages" => c.dated
    /\ c.at \in {"graph", "texts", "hashes", "link", "maps", "draw", "done"} => c.job \in brief

BriefsOK == \A p \in Callers : BriefOK(p, pass[p])

DaemonOK ==
  /\ daemon \in {"off", "inbox", "due", "next", "busy"}
  /\ due \in Seq(Routines)
  /\ pass["daemon"].at # "idle" <=> daemon = "busy"
  /\ daemon \in {"next", "busy"} <=> due # <<>>
  /\ daemon = "busy" => pass["daemon"].job = Head(due)

ClockOK ==
  /\ mark \in [Routines -> {"never", "past", "current"}]
  /\ late \subseteq Callers /\ brief \cup overrun \subseteq Routines
  /\ SkippedOnlyByOverrun

GraphInv == KnownOK /\ ShownOK /\ NotesOK /\ PendingOK /\ ReadsOK

PassInv == PassesTyped /\ PlacesOK /\ BriefsOK /\ DaemonOK /\ ClockOK

Inv == GraphInv /\ PassInv

-----------------------------------------------------------------------------
(* Records of passes                                                       *)

LEMMA NoteFacts ==
  /\ Absent \in NoteType /\ New \in NoteType /\ New # Absent
  /\ Absent.text = 0 /\ New.text = 1
  /\ \A n \in NoteType : /\ n.text \in 0 .. MaxText /\ n.text \in Nat
                         /\ n.block \subseteq Objects
                         /\ n = Absent <=> n.text = 0
BY TextAssumption DEF NoteType, Absent, New

LEMMA IdleType ==
  ASSUME NEW U
  PROVE  /\ Idle \in PassRecord(U)
         /\ Idle.at = "idle" /\ Idle.job = "none" /\ Idle.staged = 0
<1>1. NoLinks \in [Objects -> SUBSET Objects] /\ NoNotes \in [Objects -> NoteType]
  BY NoteFacts DEF NoLinks, NoNotes
<1>2. 0 \in 0 .. Limit /\ "idle" \in Places
  BY ThresholdAssumption DEF Places
<1> HIDE DEF NoLinks, NoNotes, NoteType
<1> QED
  BY <1>1, <1>2 DEF Idle, PassRecord

LEMMA PassGrows ==
  ASSUME NEW U, NEW V, U \subseteq V
  PROVE  PassRecord(U) \subseteq PassRecord(V)
BY DEF PassRecord

LEMMA PassType ==
  ASSUME PassesTyped, NEW p \in Callers, NEW W
  PROVE  \E V : /\ W \subseteq V
                /\ pass \in [Callers -> PassRecord(V)] /\ pass[p] \in PassRecord(V)
<1>1. PICK U : pass \in [Callers -> PassRecord(U)]
  BY DEF PassesTyped
<1>2. PassRecord(U) \subseteq PassRecord(U \cup W)
  BY PassGrows
<1> QED
  BY <1>1, <1>2

\* One caller's pass gets another record.
LEMMA PassStep ==
  ASSUME NEW V, pass \in [Callers -> PassRecord(V)], NEW p \in Callers,
         NEW r \in PassRecord(V), pass' = [pass EXCEPT ![p] = r]
  PROVE  /\ PassesTyped' /\ pass'[p] = r
         /\ \A q \in Callers \ {p} : pass'[q] = pass[q]
BY DEF PassesTyped

\* A pass goes on: what it does has an effect on nothing but itself here.
LEMMA GoesOn ==
  ASSUME PassInv, NEW V, pass \in [Callers -> PassRecord(V)], NEW p \in Callers,
         NEW r \in PassRecord(V), pass' = [pass EXCEPT ![p] = r],
         UNCHANGED <<clock, process>>,
         pass[p].at # "idle", r.at # "idle", r.job = pass[p].job, PlaceOK(r), BriefOK(p, r)
  PROVE  PassInv'
<1>1. /\ PassesTyped' /\ pass'[p] = r
      /\ \A q \in Callers \ {p} : pass'[q] = pass[q]
  BY PassStep
<1>2. PlacesOK'
  BY <1>1 DEF PlacesOK, PlaceOK, PassInv
<1>3. BriefsOK'
  BY <1>1 DEF BriefsOK, BriefOK, PassInv, clock
<1>4. DaemonOK'
  BY <1>1, CallerAssumption DEF DaemonOK, PassInv, process
<1>5. ClockOK'
  BY DEF ClockOK, SkippedOnlyByOverrun, PassInv, clock
<1> QED
  BY <1>1, <1>2, <1>3, <1>4, <1>5 DEF PassInv

\* Goto: a pass goes on with nothing that it had read.
LEMMA GotoRecord ==
  ASSUME PassesTyped, NEW p \in Callers, NEW label \in Places, Goto(p, label)
  PROVE  \E V, r : /\ pass \in [Callers -> PassRecord(V)] /\ r \in PassRecord(V)
                   /\ pass' = [pass EXCEPT ![p] = r]
                   /\ r.at = label /\ r.job = pass[p].job
<1>1. PICK V : pass \in [Callers -> PassRecord(V)] /\ pass[p] \in PassRecord(V)
  BY PassType
<1> DEFINE m == [Idle EXCEPT !.at = label, !.job = pass[p].job]
<1>2. Idle \in PassRecord(V) /\ pass[p].job \in Routines \cup {"none"}
  BY <1>1, IdleType DEF PassRecord
<1>3. m \in PassRecord(V) /\ m.at = label /\ m.job = pass[p].job
  BY <1>2 DEF PassRecord
<1>4. pass' = [pass EXCEPT ![p] = m]
  BY DEF Goto
<1> QED
  BY <1>1, <1>3, <1>4

\* The places where a pass needs nothing of what it had read.
LEMMA GotoKeeps ==
  ASSUME Inv, NEW p \in Callers, NEW label \in {"failed", "maps", "done", "audit", "brief"},
         Goto(p, label), pass[p].at # "idle",
         label = "maps" => pass[p].at \in {"hashes", "link"},
         label = "done" => \/ pass[p].at \in {"maps", "draw"}
                           \/ p \notin late => pass[p].job \in brief,
         UNCHANGED <<clock, process>>
  PROVE  /\ PassInv'
         /\ UNCHANGED <<note, raced>> => ReadsOK'
         /\ pass'[p].at = label /\ \A q \in Callers \ {p} : pass'[q] = pass[q]
<1>1. PICK V, r : /\ pass \in [Callers -> PassRecord(V)] /\ r \in PassRecord(V)
                  /\ pass' = [pass EXCEPT ![p] = r]
                  /\ r.at = label /\ r.job = pass[p].job
  BY GotoRecord DEF Places, Inv, PassInv
<1>2. PlaceOK(pass[p]) /\ BriefOK(p, pass[p])
  BY DEF Inv, PassInv, PlacesOK, BriefsOK
<1>3. PlaceOK(r)
  BY <1>1, <1>2 DEF PlaceOK, NightPlaces
<1>4. BriefOK(p, r)
  BY <1>1, <1>2 DEF BriefOK, PlaceOK, NightPlaces
<1>5. PassInv'
  BY <1>1, <1>3, <1>4, GoesOn DEF Inv
<1>6. pass'[p] = r /\ \A q \in Callers \ {p} : pass'[q] = pass[q]
  BY <1>1, PassStep
<1>7. UNCHANGED <<note, raced>> => ReadsOK'
  BY <1>1, <1>6 DEF ReadsOK, ReadOK, WritesOf, Inv, GraphInv
<1> QED
  BY <1>1, <1>5, <1>6, <1>7

\* The state of the knowledge, its notes and what is shown stays.
LEMMA GraphStays ==
  ASSUME GraphInv, UNCHANGED <<knowledge, note, shown, pending, raced>>, ReadsOK'
  PROVE  GraphInv'
BY DEF GraphInv, KnownOK, ShownOK, NotesOK, PendingOK, knowledge, shown

\* A pass that has read nothing of the notes, or has just the same in hand.
LEMMA ReadsStay ==
  ASSUME ReadsOK, UNCHANGED <<note, raced>>, NEW p \in Callers,
         \A q \in Callers \ {p} : pass'[q] = pass[q],
         pass'[p].at \notin {"hashes", "link"}
  PROVE  ReadsOK'
BY DEF ReadsOK, ReadOK, WritesOf

LEMMA FailsKeeps ==
  ASSUME Inv, NEW p \in Callers,
         \/ Contended(p) \/ Fails(p) \/ PagesConflict(p) \/ LinkConflicts(p)
         \/ DrawConflicts(p),
         UNCHANGED <<clock, process>>
  PROVE  Inv'
<1>1. /\ Goto(p, "failed") /\ pass[p].at # "idle"
      /\ UNCHANGED <<knowledge, note, shown, pending, raced>>
  BY DEF Contended, Fails, PagesConflict, LinkConflicts, DrawConflicts, Operating
<1>2. PassInv' /\ ReadsOK'
  BY <1>1, GotoKeeps
<1> QED
  BY <1>1, <1>2, GraphStays DEF Inv

LEMMA StageNoMoreKeeps ==
  ASSUME Inv, NEW p \in Callers, StageNoMore(p) \/ WriteAudit(p), UNCHANGED <<clock, process>>
  PROVE  Inv'
<1>1. /\ Goto(p, "audit") \/ Goto(p, "brief")
      /\ pass[p].at # "idle" /\ UNCHANGED <<knowledge, note, shown, pending, raced>>
  BY DEF StageNoMore, WriteAudit
<1>2. PassInv' /\ ReadsOK'
  BY <1>1, GotoKeeps
<1> QED
  BY <1>1, <1>2, GraphStays DEF Inv

LEMMA DrawKeeps ==
  ASSUME Inv, NEW p \in Callers, Draw(p), UNCHANGED <<clock, process>> PROVE Inv'
<1>1. /\ Goto(p, "done") /\ pass[p].at = "draw" /\ map' = pass[p].shows
      /\ UNCHANGED <<knowledge, note, home, pending, raced>>
  BY DEF Draw
<1>2. PassInv' /\ ReadsOK'
  BY <1>1, GotoKeeps
<1>3. map' \subseteq Concepts
  BY <1>1 DEF Inv, PassInv, PlacesOK, PlaceOK
<1> QED
  BY <1>1, <1>2, <1>3
     DEF Inv, GraphInv, KnownOK, ShownOK, NotesOK, PendingOK, knowledge

-----------------------------------------------------------------------------
(* The steps of a nightly run                                              *)

LEMMA ReadPagesKeeps ==
  ASSUME Inv, NEW p \in Callers, ReadPages(p), UNCHANGED <<clock, process>> PROVE Inv'
<1>1. PICK V : /\ Concepts \subseteq V /\ pass \in [Callers -> PassRecord(V)]
               /\ pass[p] \in PassRecord(V)
  BY PassType DEF Inv, PassInv
<1>6. PICK S \in Briefs :
        pass' = [pass EXCEPT ![p].at = "pages", ![p].shows = S, ![p].dated = TRUE]
  BY DEF ReadPages
<1>7. S \subseteq known
  BY DEF Briefs
<1> DEFINE m == [pass[p] EXCEPT !.at = "pages", !.shows = S, !.dated = TRUE]
<1>2. PICK r \in PassRecord(V) :
        /\ pass' = [pass EXCEPT ![p] = r]
        /\ r.at = "pages" /\ r.job = pass[p].job /\ r.shows = S /\ r.dated
  <2>1. S \subseteq V /\ "pages" \in Places
    BY <1>1, <1>7 DEF Inv, GraphInv, KnownOK, Places
  <2>2. /\ m \in PassRecord(V) /\ m.at = "pages" /\ m.job = pass[p].job
        /\ m.shows = S /\ m.dated
    BY <1>1, <2>1 DEF PassRecord
  <2>3. pass' = [pass EXCEPT ![p] = m]
    BY <1>1, <1>6 DEF PassRecord
  <2> HIDE DEF m
  <2> QED
    BY <2>2, <2>3
<1>3. PlaceOK(r) /\ BriefOK(p, r)
  BY <1>2, <1>7
     DEF PlaceOK, NightPlaces, BriefOK, Inv, PassInv, PlacesOK, GraphInv, KnownOK, ReadPages
<1>4. PassInv'
  BY <1>1, <1>2, <1>3, GoesOn DEF ReadPages, Inv
<1>5. ReadsOK'
  BY <1>1, <1>2, PassStep, ReadsStay DEF ReadPages, Inv, GraphInv
<1> QED
  BY <1>4, <1>5, GraphStays DEF Inv, ReadPages

\* The brief is written with the pages, and other passes are overtaken.
LEMMA DailyBriefKeeps ==
  ASSUME Inv, NEW p \in Callers, DailyBrief(p) PROVE Inv'
<1>1. PICK V : pass \in [Callers -> PassRecord(V)] /\ pass[p] \in PassRecord(V)
  BY PassType DEF Inv, PassInv
<1> DEFINE m == [Idle EXCEPT !.at = "graph", !.job = pass[p].job]
<1>2. PICK r \in PassRecord(V) : r = m /\ r.at = "graph" /\ r.job = pass[p].job
  <2>1. Idle \in PassRecord(V) /\ "graph" \in Places
    BY IdleType DEF Places
  <2>2. m \in PassRecord(V) /\ m.at = "graph" /\ m.job = pass[p].job
    BY <1>1, <2>1 DEF PassRecord
  <2> QED
    BY <2>2
<1>3. /\ pass' \in [Callers -> PassRecord(V)] /\ pass'[p] = r
      /\ \A q \in Callers \ {p} :
           \/ pass'[q] = pass[q]
           \/ pass[q].at = "pages" /\ pass'[q].at = "overtaken" /\ pass'[q].job = pass[q].job
  <2>1. \A c \in PassRecord(V) : /\ [c EXCEPT !.at = "overtaken"] \in PassRecord(V)
                                 /\ [c EXCEPT !.at = "overtaken"].at = "overtaken"
                                 /\ [c EXCEPT !.at = "overtaken"].job = c.job
    BY DEF PassRecord, Places
  <2>2. pass' = [q \in Callers |->
                   IF q = p THEN r
                   ELSE IF pass[q].at = "pages" THEN [pass[q] EXCEPT !.at = "overtaken"]
                   ELSE pass[q]]
    BY <1>2 DEF DailyBrief, WritePages
  <2>3. \A q \in Callers : pass[q] \in PassRecord(V)
    BY <1>1
  <2> QED
    BY <2>1, <2>2, <2>3
<1>4. /\ pass[p].at = "pages" /\ pass[p].job = "nightly" /\ PlaceOK(pass[p])
      /\ home' = pass[p].shows /\ home' \subseteq Concepts
      /\ UNCHANGED <<knowledge, note, map, pending, raced>>
  BY DEF DailyBrief, WritePages, Inv, PassInv, PlacesOK, PlaceOK, NightPlaces
<1>5. UNCHANGED <<mark, late, overrun, daemon, due>>
  BY DEF DailyBrief, process
<1>6. /\ brief \subseteq brief' /\ brief' \subseteq Routines
      /\ p \notin late => "nightly" \in brief'
  <2>1. p \notin late => pass[p].dated
    BY <1>4 DEF Inv, PassInv, BriefsOK, BriefOK
  <2>2. brief \subseteq Routines
    BY DEF Inv, PassInv, ClockOK
  <2> QED
    BY <2>1, <2>2 DEF DailyBrief, Routines
<1>7. PassesTyped'
  BY <1>3 DEF PassesTyped
<1>8. PlacesOK'
  <2> SUFFICES ASSUME NEW q \in Callers PROVE PlaceOK(pass[q])'
    BY DEF PlacesOK
  <2>1. CASE q = p
    BY <1>2, <1>3, <1>4, <2>1 DEF PlaceOK, Routines
  <2>2. CASE q # p /\ pass'[q] = pass[q]
    BY <2>2 DEF PlacesOK, PlaceOK, Inv, PassInv
  <2>3. CASE q # p /\ pass[q].at = "pages" /\ pass'[q].at = "overtaken"
                   /\ pass'[q].job = pass[q].job
    <3>1. pass[q].job = "nightly"
      BY <2>3 DEF PlacesOK, PlaceOK, NightPlaces, Inv, PassInv
    <3> QED
      BY <2>3, <3>1 DEF PlaceOK, Routines
  <2> QED
    BY <1>3, <2>1, <2>2, <2>3
<1>9. BriefsOK'
  BY <1>2, <1>3, <1>4, <1>5, <1>6 DEF BriefsOK, BriefOK, Inv, PassInv
<1>10. DaemonOK'
  BY <1>2, <1>3, <1>4, <1>5, CallerAssumption DEF DaemonOK, Inv, PassInv
<1>11. ClockOK'
  BY <1>5, <1>6 DEF ClockOK, SkippedOnlyByOverrun, Inv, PassInv
<1>12. ReadsOK'
  <2> SUFFICES ASSUME NEW q \in Callers PROVE ReadOK(pass[q])'
    BY DEF ReadsOK
  <2>1. CASE pass'[q].at \notin {"hashes", "link"}
    BY <2>1 DEF ReadOK
  <2>2. CASE pass'[q] = pass[q]
    BY <1>4, <2>2 DEF ReadsOK, ReadOK, WritesOf, Inv, GraphInv
  <2> QED
    BY <1>2, <1>3, <2>1, <2>2
<1>13. GraphInv'
  BY <1>4, <1>12 DEF Inv, GraphInv, KnownOK, ShownOK, NotesOK, PendingOK, knowledge
<1> QED
  BY <1>7, <1>8, <1>9, <1>10, <1>11, <1>13 DEF Inv, PassInv

\* The sets that the notes are in.
LEMMA KnownObjects == ASSUME GraphInv PROVE known \cup Sources \subseteq Objects
BY DEF GraphInv, KnownOK, Objects

LEMMA ReadGraphKeeps ==
  ASSUME Inv, NEW p \in Callers, ReadGraph(p), UNCHANGED <<clock, process>> PROVE Inv'
<1>1. PICK V : pass \in [Callers -> PassRecord(V)] /\ pass[p] \in PassRecord(V)
  BY PassType DEF Inv, PassInv
<1> DEFINE links == [o \in Objects |-> LinksOf(o)]
           m == [pass[p] EXCEPT !.at = "texts", !.links = links]
<1>2. links \in [Objects -> SUBSET Objects]
  <2>1. \A o \in Objects : LinksOf(o) \subseteq known \cup Sources
    BY DEF LinksOf
  <2> QED
    BY <2>1, KnownObjects DEF Inv
<1> HIDE DEF links
<1>3. PICK r \in PassRecord(V) :
        /\ pass' = [pass EXCEPT ![p] = r] /\ r.at = "texts" /\ r.job = pass[p].job
  <2>1. m \in PassRecord(V) /\ m.at = "texts" /\ m.job = pass[p].job
    BY <1>1, <1>2 DEF PassRecord, Places
  <2>2. pass' = [pass EXCEPT ![p] = m]
    BY <1>1 DEF ReadGraph, PassRecord, links
  <2> HIDE DEF m
  <2> QED
    BY <2>1, <2>2
<1>4. PlaceOK(r) /\ BriefOK(p, r)
  BY <1>3 DEF PlaceOK, NightPlaces, BriefOK, Inv, PassInv, PlacesOK, BriefsOK, ReadGraph
<1>5. PassInv'
  BY <1>1, <1>3, <1>4, GoesOn DEF ReadGraph, Inv
<1>6. ReadsOK'
  BY <1>1, <1>3, PassStep, ReadsStay DEF ReadGraph, Inv, GraphInv
<1> QED
  BY <1>5, <1>6, GraphStays DEF Inv, ReadGraph

LEMMA ReadNotesKeeps ==
  ASSUME Inv, NEW p \in Callers, ReadNotes(p), UNCHANGED <<clock, process>> PROVE Inv'
<1>1. PICK V : pass \in [Callers -> PassRecord(V)] /\ pass[p] \in PassRecord(V)
  BY PassType DEF Inv, PassInv
<1> DEFINE m == [pass[p] EXCEPT !.at = "hashes", !.texts = note]
<1>2. note \in [Objects -> NoteType]
  BY DEF Inv, GraphInv, NotesOK
<1>3. PICK r \in PassRecord(V) :
        /\ pass' = [pass EXCEPT ![p] = r] /\ r.at = "hashes" /\ r.job = pass[p].job
        /\ r.texts = note
  <2>1. m \in PassRecord(V) /\ m.at = "hashes" /\ m.job = pass[p].job /\ m.texts = note
    BY <1>1, <1>2 DEF PassRecord, Places
  <2>2. pass' = [pass EXCEPT ![p] = m]
    BY <1>1 DEF ReadNotes, PassRecord
  <2> HIDE DEF m
  <2> QED
    BY <2>1, <2>2
<1>4. PlaceOK(r) /\ BriefOK(p, r)
  BY <1>3 DEF PlaceOK, NightPlaces, BriefOK, Inv, PassInv, PlacesOK, BriefsOK, ReadNotes
<1>5. PassInv'
  BY <1>1, <1>3, <1>4, GoesOn DEF ReadNotes, Inv
<1>6. \A o \in Objects : note[o].text \in Nat
  BY <1>2, NoteFacts
<1>7. pass'[p] = r /\ \A q \in Callers \ {p} : pass'[q] = pass[q]
  BY <1>1, <1>3, PassStep
<1>8. ReadsOK'
  <2>1. UNCHANGED <<note, raced>>
    BY DEF ReadNotes
  <2>2. ReadOK(r)'
    BY <1>3, <1>6, <2>1 DEF ReadOK
  <2> QED
    BY <1>7, <2>1, <2>2 DEF ReadsOK, ReadOK, WritesOf, Inv, GraphInv
<1> QED
  BY <1>5, <1>8, GraphStays DEF Inv, ReadNotes

LEMMA HashNotesKeeps ==
  ASSUME Inv, NEW p \in Callers, HashNotes(p), UNCHANGED <<clock, process>> PROVE Inv'
<1>1. PICK V : pass \in [Callers -> PassRecord(V)] /\ pass[p] \in PassRecord(V)
  BY PassType DEF Inv, PassInv
<1>2. UNCHANGED <<knowledge, note, shown, pending, raced>> /\ pass[p].at = "hashes"
  BY DEF HashNotes
<1>3. CASE Goto(p, "maps") \/ Goto(p, "failed")
  BY <1>2, <1>3, GotoKeeps, GraphStays DEF Inv
<1>4. CASE /\ \A o \in Writes(p) : note[o] # Absent
           /\ pass' = [pass EXCEPT ![p].at = "link", ![p].hashes = note]
  <2> DEFINE m == [pass[p] EXCEPT !.at = "link", !.hashes = note]
  <2>1. note \in [Objects -> NoteType]
    BY DEF Inv, GraphInv, NotesOK
  <2>2. PICK r \in PassRecord(V) :
          /\ pass' = [pass EXCEPT ![p] = r] /\ r.at = "link" /\ r.job = pass[p].job
          /\ r.texts = pass[p].texts /\ r.links = pass[p].links /\ r.hashes = note
    <3>1. /\ m \in PassRecord(V) /\ m.at = "link" /\ m.job = pass[p].job
          /\ m.texts = pass[p].texts /\ m.links = pass[p].links /\ m.hashes = note
      BY <1>1, <2>1 DEF PassRecord, Places
    <3>2. pass' = [pass EXCEPT ![p] = m]
      BY <1>1, <1>4 DEF PassRecord
    <3> HIDE DEF m
    <3> QED
      BY <3>1, <3>2
  <2>3. PlaceOK(r) /\ BriefOK(p, r)
    BY <1>2, <2>2 DEF PlaceOK, NightPlaces, BriefOK, Inv, PassInv, PlacesOK, BriefsOK
  <2>4. PassInv'
    BY <1>1, <1>2, <2>2, <2>3, GoesOn DEF Inv
  <2>5. WritesOf(r) = Writes(p)
    BY <2>2 DEF WritesOf, Writes
  <2>6. ReadOK(pass[p])
    BY DEF Inv, GraphInv, ReadsOK
  <2>7. ReadOK(r)
    BY <1>2, <1>4, <2>2, <2>5, <2>6 DEF ReadOK, WritesOf
  <2>8. pass'[p] = r /\ \A q \in Callers \ {p} : pass'[q] = pass[q]
    BY <1>1, <2>2, PassStep
  <2>9. ReadsOK'
    BY <1>2, <2>7, <2>8 DEF ReadsOK, ReadOK, WritesOf, Inv, GraphInv
  <2> QED
    BY <1>2, <2>4, <2>9, GraphStays DEF Inv
<1> QED
  BY <1>3, <1>4 DEF HashNotes

\* What an operation that links the notes does to them: what was not raced keeps its text.
LEMMA LinkLeaves ==
  ASSUME Inv, NEW p \in Callers, Link(p)
  PROVE  /\ note' \in [Objects -> NoteType]
         /\ \A o \in Objects : /\ note'[o] = Absent <=> note[o] = Absent
                               /\ o \notin raced => note'[o].text = note[o].text
<1>1. PICK V : pass \in [Callers -> PassRecord(V)] /\ pass[p] \in PassRecord(V)
  BY PassType DEF Inv, PassInv
<1> DEFINE c == pass[p]
<1>2. /\ c.texts \in [Objects -> NoteType] /\ c.hashes \in [Objects -> NoteType]
      /\ c.links \in [Objects -> SUBSET Objects] /\ note \in [Objects -> NoteType]
  BY <1>1 DEF PassRecord, Inv, GraphInv, NotesOK
<1>3. /\ ReadOK(c) /\ c.at = "link" /\ WritesOf(c) = Writes(p)
      /\ \A o \in Writes(p) : note[o] = c.hashes[o]
      /\ note' = [o \in Objects |-> IF o \in Writes(p)
                                    THEN [text |-> c.texts[o].text, block |-> c.links[o]]
                                    ELSE note[o]]
  BY DEF Link, HashesHold, WritesOf, Writes, Inv, GraphInv, ReadsOK
<1> HIDE DEF c
<1>4. ASSUME NEW o \in Writes(p)
      PROVE  /\ o \in Objects /\ note'[o] \in NoteType
             /\ note'[o] # Absent /\ note[o] # Absent
             /\ o \notin raced => note'[o].text = note[o].text
  <2>1. /\ o \in Objects /\ c.texts[o] # Absent
        /\ note'[o] = [text |-> c.texts[o].text, block |-> c.links[o]]
    BY <1>3, <1>4 DEF WritesOf
  <2>2. c.texts[o] \in NoteType /\ note[o] \in NoteType /\ c.links[o] \subseteq Objects
    BY <1>2, <2>1
  <2>3. /\ c.texts[o].text \in 0 .. MaxText /\ c.texts[o].text # 0
        /\ note[o].text \in Nat
    BY <2>1, <2>2, NoteFacts
  <2>4. note'[o] \in NoteType /\ note'[o].text = c.texts[o].text
    BY <2>1, <2>2, <2>3 DEF NoteType
  <2>5. note'[o] # Absent
    BY <2>3, <2>4, NoteFacts
  <2>6. note[o] # Absent /\ (note[o].text <= c.texts[o].text \/ o \in raced)
    BY <1>3, <1>4 DEF ReadOK
  <2>7. note[o].text # 0
    BY <2>2, <2>6, NoteFacts
  <2>8. c.texts[o].text <= note[o].text \/ c.texts[o].text <= 1 \/ o \in raced
    BY <1>3, <2>1 DEF ReadOK
  <2>9. c.texts[o].text \in Nat
    BY <2>2, NoteFacts
  <2>10. o \notin raced => c.texts[o].text = note[o].text
    BY <2>3, <2>6, <2>7, <2>8, <2>9
  <2> QED
    BY <2>1, <2>4, <2>5, <2>6, <2>10
<1>5. \A o \in Objects \ Writes(p) : note'[o] = note[o]
  BY <1>3
<1>6. \A o \in Objects : note'[o] \in NoteType
  BY <1>2, <1>4, <1>5
<1>7. note' = [o \in Objects |-> note'[o]]
  BY <1>3
<1>8. note' \in [Objects -> NoteType]
  BY <1>6, <1>7
<1>9. ASSUME NEW o \in Objects
      PROVE  /\ note'[o] = Absent <=> note[o] = Absent
             /\ o \notin raced => note'[o].text = note[o].text
  <2>1. CASE o \in Writes(p)
    BY <1>4, <2>1
  <2>2. CASE o \notin Writes(p)
    BY <1>5, <2>2
  <2> QED
    BY <2>1, <2>2
<1> QED
  BY <1>8, <1>9

LEMMA LinkKeeps ==
  ASSUME Inv, NEW p \in Callers, Link(p), UNCHANGED <<clock, process>> PROVE Inv'
<1>1. /\ Goto(p, "maps") /\ pass[p].at = "link"
      /\ UNCHANGED <<knowledge, shown, pending, raced>>
  BY DEF Link
<1>2. /\ PassInv' /\ pass'[p].at = "maps"
      /\ \A q \in Callers \ {p} : pass'[q] = pass[q]
  BY <1>1, GotoKeeps
<1>0. /\ note' \in [Objects -> NoteType]
      /\ \A o \in Objects : /\ note'[o] = Absent <=> note[o] = Absent
                            /\ o \notin raced => note'[o].text = note[o].text
  BY LinkLeaves, Zenon
<1>3. NotesOK'
  <2>1. \A o \in Objects : note[o] = Absent <=> o \notin known \cup Sources
    BY DEF Inv, GraphInv, NotesOK
  <2>2. known' = known
    BY <1>1 DEF knowledge
  <2>3. ASSUME NEW o \in Objects PROVE note'[o] = Absent <=> o \notin known' \cup Sources
    <3>1. note'[o] = Absent <=> note[o] = Absent
      BY <1>0
    <3> QED
      BY <2>1, <2>2, <3>1
  <2> QED
    BY <1>0, <2>3 DEF NotesOK
<1>4. ReadsOK'
  <2> SUFFICES ASSUME NEW q \in Callers PROVE ReadOK(pass[q])'
    BY DEF ReadsOK
  <2>1. CASE q = p
    BY <1>2, <2>1 DEF ReadOK
  <2>2. CASE q # p
    <3>1. pass'[q] = pass[q] /\ ReadOK(pass[q]) /\ raced' = raced
      BY <1>1, <1>2, <2>2 DEF Inv, GraphInv, ReadsOK
    <3>2. \A o \in Objects \ raced : note'[o].text = note[o].text
      BY <1>0
    <3> QED
      BY <3>1, <3>2 DEF ReadOK, WritesOf
  <2> QED
    BY <2>1, <2>2
<1> QED
  BY <1>1, <1>2, <1>3, <1>4
     DEF Inv, GraphInv, KnownOK, ShownOK, PendingOK, knowledge, shown

LEMMA PlanMapsKeeps ==
  ASSUME Inv, NEW p \in Callers, PlanMaps(p), UNCHANGED <<clock, process>> PROVE Inv'
<1>1. UNCHANGED <<knowledge, note, shown, pending, raced>> /\ pass[p].at = "maps"
  BY DEF PlanMaps
<1>2. CASE Goto(p, "done")
  BY <1>1, <1>2, GotoKeeps, GraphStays DEF Inv
<1>3. CASE pass' = [pass EXCEPT ![p].at = "draw", ![p].shows = Mapped, ![p].over = map]
  <2>1. PICK V : /\ Concepts \subseteq V /\ pass \in [Callers -> PassRecord(V)]
                 /\ pass[p] \in PassRecord(V)
    BY PassType DEF Inv, PassInv
  <2>6. PICK S : S = Mapped /\ S \subseteq known
    BY DEF Mapped, Top
  <2> DEFINE m == [pass[p] EXCEPT !.at = "draw", !.shows = S, !.over = map]
  <2>2. PICK r \in PassRecord(V) :
          /\ pass' = [pass EXCEPT ![p] = r]
          /\ r.at = "draw" /\ r.job = pass[p].job /\ r.shows = S
    <3>1. S \subseteq V /\ map \subseteq V /\ "draw" \in Places
      BY <2>1, <2>6 DEF Inv, GraphInv, KnownOK, ShownOK, Places
    <3>2. m \in PassRecord(V) /\ m.at = "draw" /\ m.job = pass[p].job /\ m.shows = S
      BY <2>1, <3>1 DEF PassRecord
    <3>3. pass' = [pass EXCEPT ![p] = m]
      BY <1>3, <2>1, <2>6 DEF PassRecord
    <3> HIDE DEF m
    <3> QED
      BY <3>2, <3>3
  <2>3. PlaceOK(r) /\ BriefOK(p, r)
    BY <1>1, <2>2, <2>6 DEF PlaceOK, NightPlaces, BriefOK, Inv, PassInv, PlacesOK, BriefsOK,
                           GraphInv, KnownOK
  <2>4. PassInv'
    BY <1>1, <2>1, <2>2, <2>3, GoesOn DEF Inv
  <2>5. ReadsOK'
    BY <1>1, <2>1, <2>2, PassStep, ReadsStay DEF Inv, GraphInv
  <2> QED
    BY <1>1, <2>4, <2>5, GraphStays DEF Inv
<1> QED
  BY <1>2, <1>3 DEF PlanMaps

-----------------------------------------------------------------------------
(* The steps of a weekly and a monthly run                                 *)

LEMMA FindsKeeps ==
  ASSUME Inv, NEW p \in Callers, Analyze(p) \/ Skip(p) \/ Choose(p),
         UNCHANGED <<clock, process>>
  PROVE  Inv'
<1>1. UNCHANGED <<knowledge, note, shown, pending, raced>> /\ pass[p].at # "idle"
  BY DEF Analyze, Skip, Choose
<1>2. PICK V : /\ Findings \subseteq V /\ pass \in [Callers -> PassRecord(V)]
               /\ pass[p] \in PassRecord(V)
  BY PassType DEF Inv, PassInv
<1>3. PICK r \in PassRecord(V) :
        /\ pass' = [pass EXCEPT ![p] = r] /\ r.job = pass[p].job
        /\ r.at \in {"choose", "stage"} /\ (r.at = "stage" => r.staged < Limit)
  <2>1. CASE Analyze(p)
    <3> DEFINE m == [pass[p] EXCEPT !.at = "choose", !.found = Findings]
    <3>1. m \in PassRecord(V) /\ m.at = "choose" /\ m.job = pass[p].job
      BY <1>2 DEF PassRecord, Places
    <3>2. pass' = [pass EXCEPT ![p] = m]
      BY <1>2, <2>1 DEF PassRecord, Analyze
    <3> HIDE DEF m
    <3> QED
      BY <3>1, <3>2
  <2>2. CASE Skip(p)
    <3>1. PICK f : pass' = [pass EXCEPT ![p].found = @ \ {f}] /\ pass[p].at = "choose"
      BY <2>2 DEF Skip
    <3> DEFINE m == [pass[p] EXCEPT !.found = @ \ {f}]
    <3>2. m \in PassRecord(V) /\ m.at = "choose" /\ m.job = pass[p].job
      BY <1>2, <3>1 DEF PassRecord
    <3>3. pass' = [pass EXCEPT ![p] = m]
      BY <1>2, <3>1 DEF PassRecord
    <3> HIDE DEF m
    <3> QED
      BY <3>2, <3>3
  <2>3. CASE Choose(p)
    <3>1. PICK f \in pass[p].found :
            /\ pass' = [pass EXCEPT ![p].at = "stage", ![p].shows = {f}, ![p].found = @ \ {f}]
            /\ pass[p].staged < Limit
      BY <2>3 DEF Choose, First
    <3> DEFINE m == [pass[p] EXCEPT !.at = "stage", !.shows = {f}, !.found = @ \ {f}]
    <3>2. /\ m \in PassRecord(V) /\ m.at = "stage" /\ m.job = pass[p].job
          /\ m.staged = pass[p].staged
      BY <1>2, <3>1 DEF PassRecord, Places
    <3>3. pass' = [pass EXCEPT ![p] = m]
      BY <1>2, <3>1 DEF PassRecord
    <3> HIDE DEF m
    <3> QED
      BY <3>1, <3>2, <3>3
  <2> QED
    BY <2>1, <2>2, <2>3
<1>4. PlaceOK(r) /\ BriefOK(p, r)
  BY <1>1, <1>3 DEF PlaceOK, NightPlaces, BriefOK, Inv, PassInv, PlacesOK
<1>5. PassInv' /\ r.at # "idle"
  BY <1>1, <1>2, <1>3, <1>4, GoesOn DEF Inv
<1>6. ReadsOK'
  BY <1>1, <1>2, <1>3, PassStep, ReadsStay DEF Inv, GraphInv
<1> QED
  BY <1>1, <1>5, <1>6, GraphStays DEF Inv

LEMMA StageKeeps ==
  ASSUME Inv, NEW p \in Callers, Stage(p), UNCHANGED <<clock, process>> PROVE Inv'
<1>1. PICK V : pass \in [Callers -> PassRecord(V)] /\ pass[p] \in PassRecord(V)
  BY PassType DEF Inv, PassInv
<1> DEFINE m == [pass[p] EXCEPT !.at = "choose", !.shows = {}, !.staged = @ + 1]
<1>2. PICK r \in PassRecord(V) :
        /\ pass' = [pass EXCEPT ![p] = r] /\ r.at = "choose" /\ r.job = pass[p].job
  <2>1. pass[p].staged + 1 \in 0 .. Limit
    <3>1. pass[p].staged < Limit /\ pass[p].staged \in 0 .. Limit
      BY <1>1 DEF Stage, Inv, PassInv, PlacesOK, PlaceOK, PassRecord
    <3> QED
      BY <3>1, ThresholdAssumption
  <2>2. m \in PassRecord(V) /\ m.at = "choose" /\ m.job = pass[p].job
    BY <1>1, <2>1 DEF PassRecord, Places
  <2>3. pass' = [pass EXCEPT ![p] = m]
    BY <1>1 DEF PassRecord, Stage
  <2> HIDE DEF m
  <2> QED
    BY <2>2, <2>3
<1>3. PlaceOK(r) /\ BriefOK(p, r) /\ pass[p].at # "idle"
  BY <1>2 DEF PlaceOK, NightPlaces, BriefOK, Inv, PassInv, PlacesOK, Stage
<1>4. PassInv'
  BY <1>1, <1>2, <1>3, GoesOn DEF Inv
<1>5. UNCHANGED <<knowledge, note, shown, raced>>
  BY DEF Stage
<1>6. ReadsOK'
  BY <1>1, <1>2, <1>5, PassStep, ReadsStay DEF Inv, GraphInv
<1>7. PendingOK'
  BY DEF PendingOK, Stage, Inv, GraphInv
<1> QED
  BY <1>4, <1>5, <1>6, <1>7 DEF Inv, GraphInv, KnownOK, ShownOK, NotesOK, knowledge, shown

\* The brief of a week or a month, unless that has ended, is there when the pass is done.
LEMMA PeriodBriefKeeps ==
  ASSUME Inv, NEW p \in Callers, PeriodBrief(p) PROVE Inv'
<1>1. PICK V, r : /\ pass \in [Callers -> PassRecord(V)] /\ r \in PassRecord(V)
                  /\ pass' = [pass EXCEPT ![p] = r]
                  /\ r.at = "done" /\ r.job = pass[p].job
  BY GotoRecord DEF Places, Inv, PassInv, PeriodBrief, WriteBrief
<1>2. /\ PassesTyped' /\ pass'[p] = r
      /\ \A q \in Callers \ {p} : pass'[q] = pass[q]
  BY <1>1, PassStep
<1>3. /\ pass[p].at = "brief" /\ pass[p].job \in Routines
      /\ UNCHANGED <<knowledge, note, shown, pending, raced, mark, late, overrun, daemon, due>>
  BY DEF PeriodBrief, WriteBrief, process, Inv, PassInv, PlacesOK, PlaceOK
<1>4. /\ brief \subseteq brief' /\ brief' \subseteq Routines
      /\ p \notin late => r.job \in brief'
  BY <1>1, <1>3 DEF PeriodBrief, Inv, PassInv, ClockOK
<1>5. PlacesOK'
  BY <1>1, <1>2, <1>3 DEF PlacesOK, PlaceOK, NightPlaces, Inv, PassInv
<1>6. BriefsOK'
  BY <1>1, <1>2, <1>3, <1>4 DEF BriefsOK, BriefOK, Inv, PassInv
<1>7. DaemonOK'
  BY <1>1, <1>2, <1>3, CallerAssumption DEF DaemonOK, Inv, PassInv
<1>8. ClockOK'
  BY <1>3, <1>4 DEF ClockOK, SkippedOnlyByOverrun, Inv, PassInv
<1>9. ReadsOK'
  BY <1>1, <1>2, <1>3, ReadsStay DEF Inv, GraphInv
<1> QED
  BY <1>2, <1>3, <1>5, <1>6, <1>7, <1>8, <1>9, GraphStays DEF Inv, PassInv

-----------------------------------------------------------------------------
(* What others do                                                          *)

LEMMA PassStays ==
  ASSUME PassInv, UNCHANGED <<pass, clock, process>> PROVE PassInv'
<1>1. PassesTyped' /\ PlacesOK'
  BY DEF PassInv, PassesTyped, PlacesOK, PlaceOK
<1>2. BriefsOK'
  BY DEF PassInv, BriefsOK, BriefOK, clock
<1>3. DaemonOK'
  BY DEF PassInv, DaemonOK, process
<1>4. ClockOK'
  BY DEF PassInv, ClockOK, SkippedOnlyByOverrun, clock
<1> QED
  BY <1>1, <1>2, <1>3, <1>4 DEF PassInv

\* The notes change while passes hold what they have read of them.
LEMMA NotesChange ==
  ASSUME Inv, pass' = pass, raced \subseteq raced', note' \in [Objects -> NoteType],
         NEW o \in Objects, \A x \in Objects \ {o} : note'[x] = note[x],
         note[o].text <= note'[o].text \/ note[o].text <= 1,
         \/ note'[o].text <= 1 \/ o \in raced'
         \/ \A p \in Callers : pass[p].at # "hashes"
  PROVE  ReadsOK'
<1> SUFFICES ASSUME NEW p \in Callers PROVE ReadOK(pass[p])'
  BY DEF ReadsOK
<1>1. PICK c : c = pass[p]
  OBVIOUS
<1>2. ReadOK(c) /\ pass'[p] = c
  BY <1>1 DEF Inv, GraphInv, ReadsOK
<1>3. note \in [Objects -> NoteType] /\ c.texts \in [Objects -> NoteType]
  BY <1>1 DEF Inv, GraphInv, NotesOK, PassInv, PassesTyped, PassRecord
<1>4. /\ c.texts[o] \in NoteType /\ note[o] \in NoteType /\ note'[o] \in NoteType
      /\ c.texts[o].text \in Nat /\ note[o].text \in Nat /\ note'[o].text \in Nat
      /\ c.texts[o] = Absent <=> c.texts[o].text = 0
  <2>1. c.texts[o] \in NoteType /\ note[o] \in NoteType /\ note'[o] \in NoteType
    BY <1>3
  <2> QED
    BY <2>1, NoteFacts
<1>5. ASSUME c.at \in {"hashes", "link"}, NEW x \in Objects
      PROVE  c.texts[x].text <= note'[x].text \/ c.texts[x].text <= 1 \/ x \in raced'
  <2>1. c.texts[x].text <= note[x].text \/ c.texts[x].text <= 1 \/ x \in raced
    BY <1>2, <1>5 DEF ReadOK
  <2> QED
    BY <1>4, <2>1
<1>6. ASSUME c.at = "hashes", NEW x \in Objects
      PROVE  note'[x].text <= c.texts[x].text \/ c.texts[x] = Absent \/ x \in raced'
  <2>1. note[x].text <= c.texts[x].text \/ c.texts[x] = Absent \/ x \in raced
    BY <1>2, <1>6 DEF ReadOK
  <2>2. CASE x # o
    BY <2>1, <2>2
  <2>3. CASE x = o
    <3>1. note'[o].text <= 1 \/ o \in raced'
      BY <1>1, <1>6
    <3> QED
      BY <1>4, <2>3, <3>1
  <2> QED
    BY <2>2, <2>3
<1>7. c.at = "link" =>
        \A x \in WritesOf(c) : /\ c.hashes[x] # Absent
                               /\ c.hashes[x].text <= c.texts[x].text \/ x \in raced'
  BY <1>2 DEF ReadOK
<1> QED
  BY <1>2, <1>5, <1>6, <1>7 DEF ReadOK, WritesOf

LEMMA AddConceptKeeps ==
  ASSUME Inv, NEW c \in Concepts, AddConcept(c), UNCHANGED <<clock, process>> PROVE Inv'
<1>1. /\ c \notin known /\ known' = known \cup {c} /\ rels' \subseteq Relations
      /\ note' = [note EXCEPT ![c] = New] /\ UNCHANGED <<shown, pending, pass, raced>>
  BY DEF AddConcept, Inv, GraphInv, KnownOK
<1>2. /\ c \in Objects /\ c \notin Sources /\ note \in [Objects -> NoteType]
      /\ \A o \in Objects : note[o] = Absent <=> o \notin known \cup Sources
  BY ObjectAssumption DEF Objects, Inv, GraphInv, NotesOK
<1>3. note[c] = Absent /\ note'[c] = New /\ note' \in [Objects -> NoteType]
  BY <1>1, <1>2, NoteFacts
<1>4. NotesOK'
  BY <1>1, <1>2, <1>3, NoteFacts DEF NotesOK
<1>5. ReadsOK'
  <2>1. /\ note[c].text <= note'[c].text /\ note'[c].text <= 1
        /\ \A x \in Objects \ {c} : note'[x] = note[x]
    BY <1>1, <1>2, <1>3, NoteFacts
  <2> QED
    BY <1>1, <1>2, <1>3, <2>1, NotesChange
<1>6. PassInv'
  BY <1>1, PassStays DEF Inv
<1> QED
  BY <1>1, <1>4, <1>5, <1>6 DEF Inv, GraphInv, KnownOK, ShownOK, PendingOK, shown

LEMMA RemoveConceptKeeps ==
  ASSUME Inv, NEW c \in Concepts, RemoveConcept(c), UNCHANGED <<clock, process>> PROVE Inv'
<1>1. /\ c \in known /\ known' = known \ {c} /\ rels' \subseteq rels /\ note[c] = New
      /\ note' = [note EXCEPT ![c] = Absent] /\ UNCHANGED <<shown, pending, pass, raced>>
  BY DEF RemoveConcept
<1>2. /\ c \in Objects /\ c \notin Sources /\ note \in [Objects -> NoteType]
      /\ \A o \in Objects : note[o] = Absent <=> o \notin known \cup Sources
  BY ObjectAssumption DEF Objects, Inv, GraphInv, NotesOK
<1>3. note'[c] = Absent /\ note' \in [Objects -> NoteType]
  BY <1>1, <1>2, NoteFacts
<1>4. NotesOK'
  BY <1>1, <1>2, <1>3 DEF NotesOK
<1>5. ReadsOK'
  <2>1. /\ note[c].text <= 1 /\ note'[c].text <= 1
        /\ \A x \in Objects \ {c} : note'[x] = note[x]
    BY <1>1, <1>2, <1>3, NoteFacts
  <2> QED
    BY <1>1, <1>2, <1>3, <2>1, NotesChange
<1>6. PassInv'
  BY <1>1, PassStays DEF Inv
<1> QED
  BY <1>1, <1>4, <1>5, <1>6 DEF Inv, GraphInv, KnownOK, ShownOK, PendingOK, shown

LEMMA SaveKeeps ==
  ASSUME Inv, NEW o \in Objects, Save(o), UNCHANGED <<clock, process>> PROVE Inv'
<1>1. /\ note[o] # Absent /\ note[o].text < MaxText /\ note' = [note EXCEPT ![o].text = @ + 1]
      /\ raced \subseteq raced'
      /\ o \in raced' \/ \A p \in Callers : pass[p].at # "hashes"
      /\ UNCHANGED <<knowledge, shown, pending, pass>>
  BY DEF Save
<1>2. note \in [Objects -> NoteType] /\ note[o] \in NoteType
  BY DEF Inv, GraphInv, NotesOK
<1> DEFINE n == [note[o] EXCEPT !.text = @ + 1]
<1>3. note[o].text \in Nat
  BY <1>2, NoteFacts
<1>4. n \in NoteType /\ n.text = note[o].text + 1
  BY <1>1, <1>2, <1>3, TextAssumption DEF NoteType
<1>5. note' = [note EXCEPT ![o] = n]
  BY <1>1, <1>2
<1> HIDE DEF n
<1>6. n # Absent
  BY <1>3, <1>4, NoteFacts
<1>7. /\ note' \in [Objects -> NoteType] /\ note'[o] = n
      /\ \A x \in Objects \ {o} : note'[x] = note[x]
  BY <1>2, <1>4, <1>5
<1>8. NotesOK'
  BY <1>1, <1>6, <1>7 DEF NotesOK, Inv, GraphInv, knowledge
<1>9. note[o].text <= note'[o].text
  BY <1>3, <1>4, <1>7
<1>10. ReadsOK'
  BY <1>1, <1>7, <1>9, NotesChange
<1>11. PassInv'
  BY <1>1, PassStays DEF Inv
<1> QED
  BY <1>1, <1>8, <1>10, <1>11 DEF Inv, GraphInv, KnownOK, ShownOK, PendingOK, shown, knowledge

LEMMA OthersKeep ==
  ASSUME Inv, Others, UNCHANGED <<clock, process>> PROVE Inv'
<1>1. CASE \E i \in pending : Reject(i)
  <2>1. PICK i \in pending : Reject(i)
    BY <1>1
  <2>2. UNCHANGED <<knowledge, note, shown, pass, raced>> /\ pending' \subseteq pending
    BY <2>1 DEF Reject
  <2>3. GraphInv'
    BY <2>2 DEF Inv, GraphInv, KnownOK, ShownOK, NotesOK, PendingOK, ReadsOK, ReadOK,
                WritesOf, knowledge, shown
  <2> QED
    BY <2>2, <2>3, PassStays DEF Inv
<1> QED
  BY <1>1, AddConceptKeeps, RemoveConceptKeeps, SaveKeeps DEF Others

-----------------------------------------------------------------------------
(* Days that end, and the daemon's loop                                    *)

LEMMA NewDayKeeps ==
  ASSUME Inv, NEW ends \in SUBSET Routines, NewDay(ends) PROVE Inv'
<1>1. PICK V : pass \in [Callers -> PassRecord(V)]
  BY DEF Inv, PassInv, PassesTyped
<1>2. /\ pass' \in [Callers -> PassRecord(V)]
      /\ \A p \in Callers :
           /\ pass'[p].at = pass[p].at /\ pass'[p].job = pass[p].job
           /\ pass'[p].staged = pass[p].staged /\ pass'[p].shows = pass[p].shows
           /\ pass'[p].links = pass[p].links /\ pass'[p].texts = pass[p].texts
           /\ pass'[p].hashes = pass[p].hashes
  <2>1. \A c \in PassRecord(V) :
          LET d == [c EXCEPT !.dated = FALSE] IN
          /\ d \in PassRecord(V)
          /\ d.at = c.at /\ d.job = c.job /\ d.staged = c.staged /\ d.shows = c.shows
          /\ d.links = c.links /\ d.texts = c.texts /\ d.hashes = c.hashes
    BY DEF PassRecord
  <2>2. pass' = [p \in Callers |-> [pass[p] EXCEPT !.dated = FALSE]]
    BY DEF NewDay
  <2> QED
    BY <1>1, <2>1, <2>2
<1>3. /\ "nightly" \in ends /\ UNCHANGED <<knowledge, note, shown, pending, raced, daemon, due>>
      /\ mark' = [r \in Routines |->
                    IF r \in ends /\ mark[r] = "current" THEN "past" ELSE mark[r]]
      /\ brief' = brief \ ends /\ overrun' = overrun \ ends
      /\ late' = late \cup {p \in Callers : pass[p].job \in ends}
  BY DEF NewDay, process
<1>4. PassesTyped' /\ PlacesOK'
  BY <1>2 DEF PassesTyped, PlacesOK, PlaceOK, Inv, PassInv
<1>5. BriefsOK'
  <2> SUFFICES ASSUME NEW p \in Callers, p \notin late' PROVE BriefOK(p, pass[p])'
    BY DEF BriefsOK, BriefOK
  <2>1. p \notin late /\ pass[p].job \notin ends
    BY <1>3
  <2>2. BriefOK(p, pass[p]) /\ PlaceOK(pass[p])
    BY DEF Inv, PassInv, BriefsOK, PlacesOK
  <2>3. pass'[p].at # "pages"
    BY <1>2, <1>3, <2>1, <2>2 DEF PlaceOK, NightPlaces
  <2> QED
    BY <1>2, <1>3, <2>1, <2>2, <2>3 DEF BriefOK
<1>6. DaemonOK'
  BY <1>2, <1>3, CallerAssumption DEF DaemonOK, Inv, PassInv
<1>7. ClockOK'
  <2>1. /\ mark \in [Routines -> {"never", "past", "current"}] /\ late \subseteq Callers
        /\ brief \cup overrun \subseteq Routines
        /\ \A r \in Routines : mark[r] = "current" => r \in brief \cup overrun
    BY DEF Inv, PassInv, ClockOK, SkippedOnlyByOverrun
  <2>2. mark' \in [Routines -> {"never", "past", "current"}]
    BY <1>3, <2>1
  <2>3. \A r \in Routines : mark'[r] = "current" => r \notin ends /\ mark[r] = "current"
    BY <1>3
  <2> QED
    BY <1>3, <2>1, <2>2, <2>3 DEF ClockOK, SkippedOnlyByOverrun
<1>8. ReadsOK'
  BY <1>2, <1>3 DEF ReadsOK, ReadOK, WritesOf, Inv, GraphInv
<1> QED
  BY <1>3, <1>4, <1>5, <1>6, <1>7, <1>8, GraphStays DEF Inv, PassInv

\* The daemon's loop moves without its pass.
LEMMA LoopKeeps ==
  ASSUME Inv, UNCHANGED <<graphVars, clock>>, DaemonOK' PROVE Inv'
<1>1. UNCHANGED <<knowledge, note, shown, pending, pass, raced>>
  BY DEF graphVars
<1>2. PassesTyped' /\ PlacesOK'
  BY <1>1 DEF Inv, PassInv, PassesTyped, PlacesOK, PlaceOK
<1>3. BriefsOK'
  BY <1>1 DEF Inv, PassInv, BriefsOK, BriefOK, clock
<1>4. ClockOK'
  BY DEF Inv, PassInv, ClockOK, SkippedOnlyByOverrun, clock
<1>5. ReadsOK'
  BY <1>1 DEF ReadsOK, ReadOK, WritesOf, Inv, GraphInv
<1> QED
  BY <1>1, <1>2, <1>3, <1>4, <1>5, GraphStays DEF Inv, PassInv

LEMMA StartDaemonKeeps ==
  ASSUME Inv, StartDaemon \/ ProcessInbox PROVE Inv'
<1>1. UNCHANGED <<graphVars, clock, due>> /\ pass' = pass
  BY DEF StartDaemon, ProcessInbox, graphVars
<1>2. DaemonOK'
  BY <1>1 DEF StartDaemon, ProcessInbox, DaemonOK, Inv, PassInv
<1> QED
  BY <1>1, <1>2, LoopKeeps

LEMMA FindDueKeeps ==
  ASSUME Inv, FindDue PROVE Inv'
<1>1. UNCHANGED <<graphVars, clock>> /\ pass' = pass
  BY DEF FindDue, graphVars
<1>2. \A r \in Routines : IfDue(r) \in Seq(Routines)
  BY DEF IfDue
<1>3. due' \in Seq(Routines)
  <2>1. /\ IfDue("nightly") \in Seq(Routines) /\ IfDue("weekly") \in Seq(Routines)
        /\ IfDue("monthly") \in Seq(Routines)
    BY <1>2 DEF Routines
  <2>2. IfDue("nightly") \o IfDue("weekly") \in Seq(Routines)
    BY <2>1, ConcatProperties
  <2> QED
    BY <2>1, <2>2, ConcatProperties DEF FindDue
<1>4. /\ pass["daemon"].at = "idle" /\ daemon' = IF due' = <<>> THEN "inbox" ELSE "next"
  BY DEF FindDue, DaemonOK, Inv, PassInv
<1>5. DaemonOK'
  BY <1>1, <1>3, <1>4 DEF DaemonOK
<1> QED
  BY <1>1, <1>5, LoopKeeps

\* A caller gets another pass, or none: where it begins it has left nothing.
LEMMA PassReplaced ==
  ASSUME Inv, NEW p \in Callers, NEW V, pass \in [Callers -> PassRecord(V)],
         NEW r \in PassRecord(V), pass' = [pass EXCEPT ![p] = r],
         r.at # "idle" => r.at \in {"read", "findings", "brief"} /\ r.job \in Routines,
         r.at = "read" => r.job = "nightly",
         UNCHANGED <<knowledge, note, shown, pending, raced, brief>>, late' = late \ {p}
  PROVE  /\ GraphInv' /\ PassesTyped' /\ PlacesOK' /\ BriefsOK'
         /\ pass'[p] = r /\ \A q \in Callers \ {p} : pass'[q] = pass[q]
<1>1. /\ PassesTyped' /\ pass'[p] = r
      /\ \A q \in Callers \ {p} : pass'[q] = pass[q]
  BY PassStep
<1>2. PlaceOK(r) /\ r.at \notin {"hashes", "link"}
  BY DEF PlaceOK, NightPlaces
<1>3. PlacesOK'
  BY <1>1, <1>2 DEF PlacesOK, PlaceOK, Inv, PassInv
<1>4. BriefsOK'
  BY <1>1 DEF BriefsOK, BriefOK, Inv, PassInv
<1>5. ReadsOK'
  BY <1>1, <1>2, ReadsStay DEF Inv, GraphInv
<1>6. GraphInv'
  BY <1>5, GraphStays DEF Inv
<1> QED
  BY <1>1, <1>3, <1>4, <1>6

\* The clock's part when only who is late changes.
LEMMA ClockStays ==
  ASSUME ClockOK, NEW p \in Callers, late' = late \ {p}, UNCHANGED <<mark, brief, overrun>>
  PROVE  ClockOK'
BY DEF ClockOK, SkippedOnlyByOverrun

LEMMA DaemonEndsKeeps ==
  ASSUME Inv, DaemonEnds PROVE Inv'
<1>1. PICK V : pass \in [Callers -> PassRecord(V)]
  BY DEF Inv, PassInv, PassesTyped
<1>2. Idle \in PassRecord(V) /\ Idle.at = "idle"
  BY IdleType
<1>3. /\ pass' = [pass EXCEPT !["daemon"] = Idle] /\ late' = late \ {"daemon"}
      /\ UNCHANGED <<knowledge, note, shown, pending, raced, mark, brief, overrun>>
      /\ daemon' = "off" /\ due' = <<>>
  BY DEF DaemonEnds
<1>4. /\ GraphInv' /\ PassesTyped' /\ PlacesOK' /\ BriefsOK' /\ pass'["daemon"] = Idle
  BY <1>1, <1>2, <1>3, CallerAssumption, PassReplaced
<1>5. DaemonOK'
  BY <1>2, <1>3, <1>4 DEF DaemonOK
<1>6. ClockOK'
  BY <1>3, CallerAssumption, ClockStays DEF Inv, PassInv
<1> QED
  BY <1>4, <1>5, <1>6 DEF Inv, PassInv

\* A routine begins.
LEMMA BeginsRecord ==
  ASSUME Inv, NEW p \in Callers, NEW j \in Routines, Begins(p, j)
  PROVE  /\ GraphInv' /\ PassesTyped' /\ PlacesOK' /\ BriefsOK' /\ ClockOK'
         /\ pass'[p].at # "idle" /\ pass'[p].job = j
         /\ \A q \in Callers \ {p} : pass'[q] = pass[q]
<1>1. PICK V : pass \in [Callers -> PassRecord(V)]
  BY DEF Inv, PassInv, PassesTyped
<1> DEFINE m == [Idle EXCEPT !.at = FirstStep(j), !.job = j]
<1>2. /\ FirstStep(j) \in {"read", "findings", "brief"}
      /\ FirstStep(j) = "read" => j = "nightly"
  BY DEF Routines, FirstStep
<1>3. m \in PassRecord(V) /\ m.at = FirstStep(j) /\ m.job = j
  <2>1. Idle \in PassRecord(V) /\ FirstStep(j) \in Places
    BY <1>2, IdleType DEF Places
  <2> HIDE DEF FirstStep
  <2> QED
    BY <2>1 DEF PassRecord
<1>4. /\ pass' = [pass EXCEPT ![p] = m] /\ late' = late \ {p}
      /\ UNCHANGED <<knowledge, note, shown, pending, raced, mark, brief, overrun>>
  BY DEF Begins
<1> HIDE DEF m
<1>5. /\ GraphInv' /\ PassesTyped' /\ PlacesOK' /\ BriefsOK' /\ pass'[p] = m
      /\ \A q \in Callers \ {p} : pass'[q] = pass[q]
  BY <1>1, <1>2, <1>3, <1>4, PassReplaced
<1>6. ClockOK'
  BY <1>4, ClockStays DEF Inv, PassInv
<1> QED
  BY <1>2, <1>3, <1>5, <1>6

LEMMA BeginRoutineKeeps ==
  ASSUME Inv, BeginRoutine PROVE Inv'
<1>1. due # <<>> /\ due \in Seq(Routines) /\ due' = due /\ daemon' = "busy"
  BY DEF BeginRoutine, Inv, PassInv, DaemonOK
<1>2. Head(due) \in Routines /\ Begins("daemon", Head(due))
  BY <1>1 DEF BeginRoutine
<1>3. /\ GraphInv' /\ PassesTyped' /\ PlacesOK' /\ BriefsOK' /\ ClockOK'
      /\ pass'["daemon"].at # "idle" /\ pass'["daemon"].job = Head(due)
  BY <1>2, CallerAssumption, BeginsRecord
<1>4. DaemonOK'
  BY <1>1, <1>3 DEF DaemonOK
<1> QED
  BY <1>3, <1>4 DEF Inv, PassInv

LEMMA BeginCommandKeeps ==
  ASSUME Inv, NEW p \in Callers, NEW j \in Routines, BeginCommand(p, j) PROVE Inv'
<1>1. /\ p # "daemon" /\ Begins(p, j) /\ UNCHANGED <<daemon, due>>
  BY DEF BeginCommand
<1>2. /\ GraphInv' /\ PassesTyped' /\ PlacesOK' /\ BriefsOK' /\ ClockOK'
      /\ \A q \in Callers \ {p} : pass'[q] = pass[q]
  BY <1>1, BeginsRecord
<1>3. pass'["daemon"] = pass["daemon"]
  BY <1>1, <1>2, CallerAssumption
<1>4. DaemonOK'
  BY <1>1, <1>3 DEF DaemonOK, Inv, PassInv
<1> QED
  BY <1>2, <1>4 DEF Inv, PassInv

LEMMA EndCommandKeeps ==
  ASSUME Inv, NEW p \in Callers, EndCommand(p) PROVE Inv'
<1>1. PICK V : pass \in [Callers -> PassRecord(V)]
  BY DEF Inv, PassInv, PassesTyped
<1>2. Idle \in PassRecord(V) /\ Idle.at = "idle"
  BY IdleType
<1>3. /\ pass' = [pass EXCEPT ![p] = Idle] /\ late' = late \ {p} /\ p # "daemon"
      /\ UNCHANGED <<knowledge, note, shown, pending, raced, mark, brief, overrun, daemon, due>>
  BY DEF EndCommand, process
<1>4. /\ GraphInv' /\ PassesTyped' /\ PlacesOK' /\ BriefsOK'
      /\ \A q \in Callers \ {p} : pass'[q] = pass[q]
  BY <1>1, <1>2, <1>3, PassReplaced
<1>5. pass'["daemon"] = pass["daemon"]
  BY <1>3, <1>4, CallerAssumption
<1>6. DaemonOK'
  BY <1>3, <1>5 DEF DaemonOK, Inv, PassInv
<1>7. ClockOK'
  BY <1>3, ClockStays DEF Inv, PassInv
<1> QED
  BY <1>4, <1>6, <1>7 DEF Inv, PassInv

\* The mark of a routine that is done is of this period only if its brief is, or if it was
\* late.
LEMMA FinishRoutineKeeps ==
  ASSUME Inv, FinishRoutine PROVE Inv'
<1>1. PICK V : pass \in [Callers -> PassRecord(V)]
  BY DEF Inv, PassInv, PassesTyped
<1>2. Idle \in PassRecord(V) /\ Idle.at = "idle"
  BY IdleType
<1>3. /\ pass' = [pass EXCEPT !["daemon"] = Idle] /\ late' = late \ {"daemon"}
      /\ UNCHANGED <<knowledge, note, shown, pending, raced, brief>>
      /\ due' = Tail(due) /\ daemon' = IF due' = <<>> THEN "inbox" ELSE "next"
      /\ daemon = "busy"
  BY DEF FinishRoutine
<1>4. /\ GraphInv' /\ PassesTyped' /\ PlacesOK' /\ BriefsOK' /\ pass'["daemon"] = Idle
  BY <1>1, <1>2, <1>3, CallerAssumption, PassReplaced
<1>5. PICK r : r = Head(due)
  OBVIOUS
<1>6. due # <<>> /\ due \in Seq(Routines) /\ pass["daemon"].job = r
  BY <1>3, <1>5 DEF Inv, PassInv, DaemonOK
<1>7. r \in Routines /\ due' \in Seq(Routines)
  BY <1>3, <1>5, <1>6
<1>8. DaemonOK'
  BY <1>2, <1>3, <1>4, <1>7 DEF DaemonOK
<1>9. ClockOK'
  <2>1. ClockOK /\ "daemon" \in Callers
    BY CallerAssumption DEF Inv, PassInv
  <2>2. CASE Marked(pass["daemon"].at)
    <3>1. /\ mark' = [mark EXCEPT ![r] = "current"]
          /\ overrun' = IF "daemon" \in late THEN overrun \cup {r} ELSE overrun
      BY <1>5, <2>2 DEF FinishRoutine
    <3>2. "daemon" \notin late => r \in brief
      BY <1>6, <2>1, <2>2 DEF Marked, Inv, PassInv, BriefsOK, BriefOK
    <3> QED
      BY <1>3, <1>7, <2>1, <3>1, <3>2 DEF ClockOK, SkippedOnlyByOverrun
  <2>3. CASE ~ Marked(pass["daemon"].at)
    <3>1. UNCHANGED <<mark, overrun>>
      BY <2>3 DEF FinishRoutine
    <3> QED
      BY <1>3, <2>1, <3>1, ClockStays
  <2> QED
    BY <2>2, <2>3
<1> QED
  BY <1>4, <1>8, <1>9 DEF Inv, PassInv

-----------------------------------------------------------------------------
(* The invariant holds                                                     *)

LEMMA WorksKeeps ==
  ASSUME Inv, NEW p \in Callers, Works(p), UNCHANGED <<clock, process>> PROVE Inv'
BY ReadPagesKeeps, FailsKeeps, ReadGraphKeeps, ReadNotesKeeps, HashNotesKeeps, LinkKeeps,
   PlanMapsKeeps, DrawKeeps, FindsKeeps, StageKeeps, StageNoMoreKeeps
   DEF Works

LEMMA AdvancesKeeps == ASSUME Inv, NEW p \in Callers, Advances(p) PROVE Inv'
BY DailyBriefKeeps, PeriodBriefKeeps, WorksKeeps DEF Advances, Proceeds

LEMMA InvInit == Init => Inv
<1> SUFFICES ASSUME Init PROVE Inv
  OBVIOUS
<1>1. /\ known = {} /\ rels = {} /\ home = {} /\ map = {} /\ pending = {} /\ raced = {}
      /\ note = [o \in Objects |-> IF o \in Sources THEN New ELSE Absent]
      /\ pass = [p \in Callers |-> Idle]
      /\ mark = [r \in Routines |-> "never"] /\ daemon = "off" /\ due = <<>>
      /\ late = {} /\ brief = {} /\ overrun = {}
  BY DEF Init, GraphInit
<1>2. Idle \in PassRecord({}) /\ Idle.at = "idle"
  BY IdleType
<1>3. NotesOK
  BY <1>1, NoteFacts DEF NotesOK
<1>4. GraphInv
  BY <1>1, <1>2, <1>3 DEF GraphInv, KnownOK, ShownOK, PendingOK, ReadsOK, ReadOK
<1>5. PassesTyped
  BY <1>1, <1>2 DEF PassesTyped
<1>6. PlacesOK /\ BriefsOK
  BY <1>1, <1>2 DEF PlacesOK, PlaceOK, NightPlaces, BriefsOK, BriefOK
<1>7. DaemonOK
  BY <1>1, <1>2, CallerAssumption DEF DaemonOK
<1>8. ClockOK
  BY <1>1 DEF ClockOK, SkippedOnlyByOverrun
<1> QED
  BY <1>4, <1>5, <1>6, <1>7, <1>8 DEF Inv, PassInv

LEMMA InvStutter == ASSUME Inv, UNCHANGED vars PROVE Inv'
<1>1. UNCHANGED <<knowledge, note, shown, pending, pass, raced, clock, process>>
  BY DEF vars, graphVars
<1>2. ReadsOK'
  BY <1>1 DEF ReadsOK, ReadOK, WritesOf, Inv, GraphInv
<1> QED
  BY <1>1, <1>2, GraphStays, PassStays DEF Inv

LEMMA InvNext == ASSUME Inv, Next PROVE Inv'
<1>1. CASE \E ends \in SUBSET Routines : NewDay(ends)
  BY <1>1, NewDayKeeps
<1>2. CASE StartDaemon \/ DaemonEnds
  BY <1>2, StartDaemonKeeps, DaemonEndsKeeps
<1>3. CASE DaemonLoop
  BY <1>3, StartDaemonKeeps, FindDueKeeps, BeginRoutineKeeps, FinishRoutineKeeps,
     AdvancesKeeps, CallerAssumption
     DEF DaemonLoop
<1>4. CASE \E p \in Callers, r \in Routines : BeginCommand(p, r)
  BY <1>4, BeginCommandKeeps
<1>5. CASE CommandGoesOn
  BY <1>5, EndCommandKeeps, AdvancesKeeps DEF CommandGoesOn
<1>6. CASE \E p \in Callers : Fails(p) /\ UNCHANGED <<clock, process>>
  BY <1>6, FailsKeeps
<1>7. CASE Others /\ UNCHANGED <<clock, process>>
  BY <1>7, OthersKeep
<1> QED
  BY <1>1, <1>2, <1>3, <1>4, <1>5, <1>6, <1>7 DEF Next

LEMMA Invariance == Spec => []Inv
<1>1. Inv /\ [Next]_vars => Inv'
  BY InvNext, InvStutter
<1> QED
  BY <1>1, InvInit, PTL DEF Spec

-----------------------------------------------------------------------------
(* The theorems                                                            *)

\* Every variable keeps its type, a note is there just for what is known, and the daemon's
\* pass is at work just while its loop waits for it (MaintenanceDaemon.run_once).
THEOREM TypeCorrect == Spec => []TypeOK
<1>1. ASSUME Inv PROVE TypeOK
  <2>1. \A o \in Objects : /\ note[o].text \in 0 .. MaxText /\ note[o].block \subseteq Objects
                           /\ note[o] = Absent <=> o \notin known \cup Sources
    <3>1. /\ note \in [Objects -> NoteType]
          /\ \A o \in Objects : note[o] = Absent <=> o \notin known \cup Sources
      BY <1>1 DEF Inv, GraphInv, NotesOK
    <3> QED
      BY <3>1, NoteFacts
  <2>2. \A p \in Callers : /\ pass[p].at \in Places /\ pass[p].job \in Routines \cup {"none"}
                           /\ pass[p].staged \in 0 .. Limit
    BY <1>1 DEF Inv, PassInv, PassesTyped, PassRecord
  <2> QED
    BY <1>1, <2>1, <2>2
       DEF TypeOK, Inv, GraphInv, PassInv, KnownOK, ShownOK, PendingOK, DaemonOK, ClockOK
<1> QED
  BY <1>1, Invariance, PTL

\* mark_success marks a routine in this period only if its brief of this period is there, or
\* its run began in the period before: whatever fails, conflicts, ends or is late.
THEOREM BriefNotSkipped == Spec => []SkippedOnlyByOverrun
<1>1. Inv => SkippedOnlyByOverrun
  BY DEF Inv, PassInv, ClockOK
<1> QED
  BY <1>1, Invariance, PTL

\* What the notes lose in a step: only what an operation rolls back or what was raced.
LEMMA TextStep ==
  ASSUME Inv, Next, NEW o \in Objects, note'[o].text < note[o].text
  PROVE  o \in raced \/ o \notin known' \cup Sources
<1>1. note \in [Objects -> NoteType] /\ note[o].text \in Nat
  <2>1. note \in [Objects -> NoteType] /\ note[o] \in NoteType
    BY DEF Inv, GraphInv, NotesOK
  <2> QED
    BY <2>1, NoteFacts
<1>2. note' # note
  BY <1>1
<1>3. \/ \E p \in Callers : Link(p)
      \/ \E c \in Concepts : AddConcept(c) \/ RemoveConcept(c)
      \/ \E x \in Objects : Save(x)
  <2>1. CASE \E ends \in SUBSET Routines : NewDay(ends)
    BY <1>2, <2>1 DEF NewDay
  <2>2. CASE StartDaemon \/ DaemonEnds
    BY <1>2, <2>2 DEF StartDaemon, DaemonEnds, graphVars
  <2>3. ASSUME NEW p \in Callers, Advances(p) PROVE Link(p)
    BY <1>2, <2>3
       DEF Advances, DailyBrief, PeriodBrief, Proceeds, Works, WritePages, WriteBrief,
           ReadPages, PagesConflict, ReadGraph, ReadNotes, HashNotes, LinkConflicts, PlanMaps,
           Draw, DrawConflicts, Analyze, Skip, Choose, Stage, StageNoMore, WriteAudit, Contended
  <2>4. CASE DaemonLoop
    BY <1>2, <2>3, <2>4, CallerAssumption
       DEF DaemonLoop, ProcessInbox, FindDue, BeginRoutine, Begins, FinishRoutine, graphVars
  <2>5. CASE \E p \in Callers, r \in Routines : BeginCommand(p, r)
    BY <1>2, <2>5 DEF BeginCommand, Begins
  <2>6. CASE CommandGoesOn
    BY <1>2, <2>3, <2>6 DEF CommandGoesOn, EndCommand
  <2>7. CASE \E p \in Callers : Fails(p) /\ UNCHANGED <<clock, process>>
    BY <1>2, <2>7 DEF Fails
  <2>8. CASE Others
    BY <1>2, <2>8 DEF Others, Reject
  <2> QED
    BY <2>1, <2>2, <2>4, <2>5, <2>6, <2>7, <2>8 DEF Next
<1>4. CASE \E p \in Callers : Link(p)
  BY <1>1, <1>4, LinkLeaves
<1>5. ASSUME NEW c \in Concepts, AddConcept(c) PROVE FALSE
  <2>1. c \in Objects /\ c \notin known \cup Sources
    BY <1>5, ObjectAssumption DEF Objects, AddConcept
  <2>2. note[c] = Absent
    BY <2>1 DEF Inv, GraphInv, NotesOK
  <2>3. note' = [note EXCEPT ![c] = New]
    BY <1>5 DEF AddConcept
  <2> QED
    BY <1>1, <2>1, <2>2, <2>3, NoteFacts
<1>6. ASSUME NEW c \in Concepts, RemoveConcept(c) PROVE o \notin known' \cup Sources
  <2>1. note' = [note EXCEPT ![c] = Absent] /\ known' = known \ {c}
    BY <1>6 DEF RemoveConcept
  <2>2. o = c
    BY <1>1, <2>1
  <2> QED
    BY <2>1, <2>2, ObjectAssumption
<1>7. ASSUME NEW x \in Objects, Save(x) PROVE FALSE
  <2>1. note' = [note EXCEPT ![x].text = @ + 1]
    BY <1>7 DEF Save
  <2>2. o = x
    BY <1>1, <2>1
  <2>3. note[o] \in [text: 0 .. MaxText, block: SUBSET Objects]
    BY <1>1 DEF NoteType
  <2>4. note'[o].text = note[o].text + 1
    BY <1>1, <2>1, <2>2, <2>3
  <2> QED
    BY <1>1, <2>4
<1> QED
  BY <1>3, <1>4, <1>5, <1>6, <1>7

\* GraphMaterializer: however many passes link the notes, and whatever users save, is
\* approved, is rolled back or fails, the text of a note that stays is never replaced by an
\* older one, but if it was saved while a pass had read the note and not hashed it.
THEOREM SavedTextStays == Spec => UserTextKept
<1>1. Inv /\ [Next]_vars
        => [\A o \in Objects : note'[o].text < note[o].text
                => o \in raced \/ o \notin known' \cup Sources]_graphVars
  <2>1. ASSUME Inv, Next
        PROVE  \A o \in Objects : note'[o].text < note[o].text
                 => o \in raced \/ o \notin known' \cup Sources
    BY <2>1, TextStep
  <2>2. UNCHANGED vars => UNCHANGED graphVars
    BY DEF vars
  <2> QED
    BY <2>1, <2>2
<1> QED
  BY <1>1, Invariance, PTL DEF Spec, UserTextKept

-----------------------------------------------------------------------------
(* The search for clusters                                                 *)

Neighbours(c) == Adjacent(c, ConceptIds, rows)

Part(c) == Component(c, ConceptIds, rows)

Apart(S) == Closed(S, ConceptIds, rows)

\* Adjacency is symmetric, so what a closed set leaves is closed.
LEMMA RestClosed ==
  ASSUME NEW S \in SUBSET ConceptIds, Apart(S)
  PROVE  Apart(ConceptIds \ S)
BY DEF Apart, Closed, Adjacent

\* A component is closed, and inside every closed set that holds the concept.
LEMMA PartClosed ==
  ASSUME NEW c \in ConceptIds
  PROVE  /\ c \in Part(c) /\ Part(c) \subseteq ConceptIds /\ Apart(Part(c))
         /\ \A S \in SUBSET ConceptIds : c \in S /\ Apart(S) => Part(c) \subseteq S
BY DEF Part, Component, Apart, Closed, Adjacent

\* The concepts of a component have that component.
LEMMA PartOfMember ==
  ASSUME NEW c \in ConceptIds, NEW d \in Part(c)
  PROVE  Part(d) = Part(c)
<1>1. d \in ConceptIds /\ Part(d) \subseteq Part(c)
  BY PartClosed
<1>2. c \in Part(d)
  <2> SUFFICES ASSUME c \notin Part(d) PROVE FALSE
    OBVIOUS
  <2>1. Apart(ConceptIds \ Part(d)) /\ d \in Part(d)
    BY <1>1, PartClosed, RestClosed
  <2>2. Part(c) \subseteq ConceptIds \ Part(d)
    BY <2>1, PartClosed
  <2>. QED BY <2>1, <2>2
<1>3. Part(c) \subseteq Part(d)
  BY <1>1, <1>2, PartClosed
<1>. QED BY <1>1, <1>3

\* A list of concepts, none of which is in it twice.
Listed(k) ==
  /\ k \in Seq(ConceptIds)
  /\ \A i, j \in DOMAIN k : k[i] = k[j] => i = j

\* What the search has listed in this round.
Round == IF searching THEN ToSet(component) ELSE {}

\* The components listed, and the round: around a concept that no cluster has, all that
\* is listed or in the frontier is connected to it, and what is adjacent to what is
\* listed has been visited or is in the frontier.
SearchInv ==
  /\ frontier \in Seq(ConceptIds) /\ Listed(component)
  /\ searching \in BOOLEAN /\ todo \subseteq ConceptIds
  /\ \A k \in clusters : Listed(k) /\ \E c \in ConceptIds : ToSet(k) = Part(c)
  /\ \A k, l \in clusters : ToSet(k) \cap ToSet(l) # {} => k = l
  /\ visited = Round \cup UNION {ToSet(k) : k \in clusters}
  /\ \A c \in ConceptIds : c \in todo \/ c \in visited \/ c \in ToSet(frontier)
  /\ ~ searching => frontier = <<>>
  /\ searching =>
       \E c \in ToSet(component) \cup ToSet(frontier) :
         /\ ToSet(component) \cup ToSet(frontier) \subseteq Part(c)
         /\ \A k \in clusters : ToSet(k) \cap Part(c) = {}
         /\ \A d \in ToSet(component) : Neighbours(d) \subseteq visited \cup ToSet(frontier)

\* The elements of a list, and of what is below its top.
LEMMA Lists ==
  ASSUME NEW S, NEW s \in Seq(S)
  PROVE  /\ ToSet(s) \subseteq S
         /\ s # <<>> => /\ Last(s) \in S /\ Front(s) \in Seq(S)
                        /\ ToSet(s) = ToSet(Front(s)) \cup {Last(s)}
<1>1. ToSet(s) \subseteq S
  BY DEF ToSet
<1>2. ASSUME s # <<>>
      PROVE  /\ Last(s) \in S /\ Front(s) \in Seq(S)
             /\ ToSet(s) = ToSet(Front(s)) \cup {Last(s)}
  <2>1. Len(s) \in Nat \ {0} /\ DOMAIN s = 1 .. Len(s)
    BY <1>2
  <2>2. /\ Front(s) \in Seq(S) /\ DOMAIN Front(s) = 1 .. (Len(s) - 1)
        /\ \A i \in 1 .. (Len(s) - 1) : Front(s)[i] = s[i]
    BY <2>1 DEF Front
  <2>3. Last(s) = s[Len(s)] /\ Last(s) \in S
    BY <2>1 DEF Last
  <2>4. \A i \in DOMAIN s : i = Len(s) \/ i \in 1 .. (Len(s) - 1)
    BY <2>1
  <2>5. 1 .. (Len(s) - 1) \subseteq DOMAIN s /\ Len(s) \in DOMAIN s
    BY <2>1
  <2>. QED BY <2>2, <2>3, <2>4, <2>5 DEF ToSet
<1>. QED BY <1>1, <1>2

\* The elements of a list that is extended.
LEMMA Extended ==
  ASSUME NEW S, NEW s \in Seq(S), NEW c \in S
  PROVE  Append(s, c) \in Seq(S) /\ ToSet(Append(s, c)) = ToSet(s) \cup {c}
<1>1. /\ Append(s, c) \in Seq(S) /\ DOMAIN Append(s, c) = 1 .. (Len(s) + 1)
      /\ \A i \in 1 .. Len(s) : Append(s, c)[i] = s[i]
      /\ Append(s, c)[Len(s) + 1] = c
      /\ DOMAIN s = 1 .. Len(s) /\ Len(s) \in Nat
  OBVIOUS
<1>2. \A i \in 1 .. (Len(s) + 1) : i = Len(s) + 1 \/ i \in 1 .. Len(s)
  BY <1>1
<1>3. 1 .. Len(s) \subseteq 1 .. (Len(s) + 1) /\ Len(s) + 1 \in 1 .. (Len(s) + 1)
  BY <1>1
<1>. QED BY <1>1, <1>2, <1>3 DEF ToSet

\* The elements of two lists, one after the other.
LEMMA Joined ==
  ASSUME NEW S, NEW s \in Seq(S), NEW t \in Seq(S)
  PROVE  s \o t \in Seq(S) /\ ToSet(s \o t) = ToSet(s) \cup ToSet(t)
<1>1. /\ s \o t \in Seq(S) /\ DOMAIN (s \o t) = 1 .. (Len(s) + Len(t))
      /\ \A i \in 1 .. Len(s) : (s \o t)[i] = s[i]
      /\ \A i \in 1 .. Len(t) : (s \o t)[Len(s) + i] = t[i]
      /\ DOMAIN s = 1 .. Len(s) /\ DOMAIN t = 1 .. Len(t)
      /\ Len(s) \in Nat /\ Len(t) \in Nat
  OBVIOUS
<1>2. \A i \in 1 .. (Len(s) + Len(t)) :
        i \in 1 .. Len(s) \/ \E j \in 1 .. Len(t) : i = Len(s) + j
  <2> SUFFICES ASSUME NEW i \in 1 .. (Len(s) + Len(t)), i \notin 1 .. Len(s)
               PROVE  i - Len(s) \in 1 .. Len(t) /\ i = Len(s) + (i - Len(s))
    OBVIOUS
  <2>. QED BY <1>1
<1>3. /\ \A i \in 1 .. Len(s) : i \in 1 .. (Len(s) + Len(t))
      /\ \A i \in 1 .. Len(t) : Len(s) + i \in 1 .. (Len(s) + Len(t))
  BY <1>1
<1>4. ToSet(s \o t) \subseteq ToSet(s) \cup ToSet(t)
  BY <1>1, <1>2 DEF ToSet
<1>5. ToSet(s) \subseteq ToSet(s \o t) /\ ToSet(t) \subseteq ToSet(s \o t)
  BY <1>1, <1>3 DEF ToSet
<1>. QED BY <1>1, <1>4, <1>5

\* A concept that was not in a list can be added to it.
LEMMA ListedAppend ==
  ASSUME NEW k, Listed(k), NEW c \in ConceptIds, c \notin ToSet(k)
  PROVE  Listed(Append(k, c))
<1>1. /\ k \in Seq(ConceptIds) /\ DOMAIN k = 1 .. Len(k) /\ Len(k) \in Nat
      /\ DOMAIN Append(k, c) = 1 .. (Len(k) + 1)
      /\ \A i \in 1 .. Len(k) : Append(k, c)[i] = k[i] /\ k[i] # c
      /\ Append(k, c)[Len(k) + 1] = c /\ Append(k, c) \in Seq(ConceptIds)
  BY DEF Listed, ToSet
<1>2. \A i \in 1 .. (Len(k) + 1) : i = Len(k) + 1 \/ i \in 1 .. Len(k)
  BY <1>1
<1>3. \A i, j \in 1 .. Len(k) : k[i] = k[j] => i = j
  BY <1>1 DEF Listed
<1>. QED BY <1>1, <1>2, <1>3 DEF Listed

\* What is pushed is a list of those concepts.
LEMMA Pushed ==
  ASSUME NEW S \in SUBSET ConceptIds, NEW more \in Orders(S)
  PROVE  more \in Seq(ConceptIds) /\ ToSet(more) = S
<1>1. PICK n : n = Cardinality(S) /\ more \in [1 .. n -> S]
  BY DEF Orders
<1>2. \A c \in S : \E i \in DOMAIN more : more[i] = c
  BY DEF Orders
<1>3. ToSet(more) = S
  BY <1>1, <1>2 DEF ToSet
<1>4. n \in Nat
  BY <1>1, ConceptAssumption, FS_Subset, FS_CardinalityType
<1>. QED BY <1>1, <1>3, <1>4

LEMMA StartFinds ==
  ASSUME SearchInv, SkipConcept \/ StartSearch
  PROVE  SearchInv'
<1>1. CASE SkipConcept
  BY <1>1 DEF SkipConcept, SearchInv, Round, Neighbours, Part, Apart, ToSet
<1>2. CASE StartSearch
  <2>1. PICK c \in todo : c \notin visited /\ todo' = todo \ {c} /\ frontier' = <<c>>
    BY <1>2 DEF StartSearch
  <2>2. /\ c \in ConceptIds /\ component' = <<>> /\ searching' /\ ~ searching
        /\ UNCHANGED <<rows, visited, clusters>> /\ searching' \in BOOLEAN
    BY <1>2, <2>1 DEF StartSearch, SearchInv
  <2>3. /\ frontier' \in Seq(ConceptIds) /\ ToSet(frontier') = {c}
        /\ Listed(component') /\ ToSet(component') = {}
    BY <2>1, <2>2 DEF ToSet, Listed
  <2>4. Part(c)' = Part(c) /\ c \in Part(c)
    BY <2>2, PartClosed DEF Part
  <2>5. ASSUME NEW k \in clusters PROVE ToSet(k) \cap Part(c) = {}
    <3>1. PICK d \in ConceptIds : ToSet(k) = Part(d)
      BY <2>5 DEF SearchInv
    <3>2. c \notin Part(d)
      BY <2>1, <2>5, <3>1 DEF SearchInv
    <3>3. Part(c) \subseteq ConceptIds \ Part(d)
      BY <2>2, <3>2, PartClosed, RestClosed
    <3>. QED BY <3>1, <3>3
  <2>6. visited' = Round' \cup UNION {ToSet(k) : k \in clusters'}
    BY <2>2, <2>3 DEF SearchInv, Round
  <2>7. \A d \in ConceptIds : d \in todo' \/ d \in visited' \/ d \in ToSet(frontier')
    BY <2>1, <2>2, <2>3 DEF SearchInv, ToSet
  <2>8. \A k \in clusters' : Listed(k) /\ \E d \in ConceptIds : ToSet(k) = Part(d)'
    BY <2>2 DEF SearchInv, Part
  <2>. QED BY <2>1, <2>2, <2>3, <2>4, <2>5, <2>6, <2>7, <2>8 DEF SearchInv
<1>. QED BY <1>1, <1>2

\* The top of the frontier goes: it has been visited, or is visited now.
LEMMA PopFinds ==
  ASSUME SearchInv, PopVisited \/ Visit
  PROVE  SearchInv'
<1> DEFINE top == Last(frontier)
<1>1. /\ searching /\ searching' /\ searching' \in BOOLEAN /\ todo' = todo
      /\ UNCHANGED <<rows, clusters>>
      /\ frontier # <<>> /\ frontier \in Seq(ConceptIds)
  BY DEF PopVisited, Visit, SearchInv
<1>2. /\ top \in ConceptIds /\ Front(frontier) \in Seq(ConceptIds)
      /\ ToSet(frontier) = ToSet(Front(frontier)) \cup {top}
  BY <1>1, Lists
<1>3. PICK c \in ToSet(component) \cup ToSet(frontier) :
        /\ ToSet(component) \cup ToSet(frontier) \subseteq Part(c)
        /\ \A k \in clusters : ToSet(k) \cap Part(c) = {}
        /\ \A d \in ToSet(component) : Neighbours(d) \subseteq visited \cup ToSet(frontier)
  BY <1>1 DEF SearchInv
<1>4. /\ Part(c)' = Part(c) /\ \A d : Neighbours(d)' = Neighbours(d)
      /\ \A k \in clusters' : Listed(k) /\ \E d \in ConceptIds : ToSet(k) = Part(d)'
  BY <1>1 DEF SearchInv, Part, Neighbours
<1>5. visited = ToSet(component) \cup UNION {ToSet(k) : k \in clusters}
  BY <1>1 DEF SearchInv, Round
<1>6. c \in ConceptIds /\ ToSet(component) \subseteq ConceptIds
  BY <1>1, <1>3, Lists DEF SearchInv, Listed
<1>7. CASE PopVisited
  <2>1. top \in visited /\ frontier' = Front(frontier) /\ UNCHANGED <<visited, component>>
    BY <1>7 DEF PopVisited, Fresh
  <2>2. top \in ToSet(component)
    BY <1>2, <1>3, <1>5, <2>1
  <2>3. /\ ToSet(component') \cup ToSet(frontier') = ToSet(component) \cup ToSet(frontier)
        /\ visited' \cup ToSet(frontier') = visited \cup ToSet(frontier)
    BY <1>2, <2>1, <2>2 DEF ToSet
  <2>4. visited' = Round' \cup UNION {ToSet(k) : k \in clusters'}
    BY <1>1, <1>5, <2>1 DEF Round
  <2>5. \A d \in ConceptIds : d \in todo' \/ d \in visited' \/ d \in ToSet(frontier')
    BY <1>1, <2>3 DEF SearchInv
  <2>6. \A d \in ToSet(component') : Neighbours(d)' \subseteq visited' \cup ToSet(frontier')
    BY <1>3, <1>4, <2>1, <2>3
  <2>7. frontier' \in Seq(ConceptIds) /\ Listed(component')
    BY <1>2, <2>1 DEF SearchInv
  <2>8. /\ c \in ToSet(component') \cup ToSet(frontier')
        /\ ToSet(component') \cup ToSet(frontier') \subseteq Part(c)'
        /\ \A k \in clusters' : ToSet(k) \cap Part(c)' = {}
    BY <1>1, <1>3, <1>4, <2>3
  <2>. QED BY <1>1, <1>4, <2>4, <2>5, <2>6, <2>7, <2>8 DEF SearchInv
<1>8. CASE Visit
  <2>1. PICK more \in Orders(Adjacent(top, ConceptIds, rows) \ visited') :
          frontier' = Front(frontier) \o more
    BY <1>8 DEF Visit
  <2>2. /\ top \notin visited /\ visited' = visited \cup {top}
        /\ component' = Append(component, top)
    BY <1>8 DEF Visit, Fresh
  <2>3. PICK N : N = Neighbours(top) \ visited' /\ N \in SUBSET ConceptIds
    BY DEF Neighbours, Adjacent
  <2>4. more \in Seq(ConceptIds) /\ ToSet(more) = N
    BY <2>1, <2>3, Pushed DEF Neighbours
  <2>5. /\ frontier' \in Seq(ConceptIds)
        /\ ToSet(frontier') = ToSet(Front(frontier)) \cup N
    <3>1. PICK s : s = Front(frontier) /\ s \in Seq(ConceptIds)
      BY <1>2
    <3>2. s \o more \in Seq(ConceptIds) /\ ToSet(s \o more) = ToSet(s) \cup ToSet(more)
      BY <2>4, <3>1, Joined
    <3>. QED BY <2>1, <2>4, <3>1, <3>2
  <2>6. ToSet(component') = ToSet(component) \cup {top}
    <3>1. component \in Seq(ConceptIds)
      BY DEF SearchInv, Listed
    <3>2. PICK e \in ConceptIds : e = top
      BY <1>2
    <3>3. ToSet(Append(component, e)) = ToSet(component) \cup {e}
      BY <3>1, Extended
    <3>. QED BY <2>2, <3>2, <3>3
  <2>7. Listed(component')
    BY <1>2, <1>5, <2>2, ListedAppend DEF SearchInv
  <2>8. Neighbours(top) \subseteq Part(c)
    BY <1>2, <1>3, <1>6, PartClosed DEF Apart, Closed, Neighbours
  <2>9. visited' = Round' \cup UNION {ToSet(k) : k \in clusters'}
    BY <1>1, <1>5, <2>2, <2>6 DEF Round
  <2>10. visited \cup ToSet(frontier) \subseteq visited' \cup ToSet(frontier')
    BY <1>2, <2>2, <2>5
  <2>11. \A d \in ConceptIds : d \in todo' \/ d \in visited' \/ d \in ToSet(frontier')
    BY <1>1, <2>10 DEF SearchInv
  <2>12. \A d \in ToSet(component') : Neighbours(d)' \subseteq visited' \cup ToSet(frontier')
    <3>1. Neighbours(top) \subseteq visited' \cup ToSet(frontier')
      BY <2>3, <2>5
    <3>. QED BY <1>3, <1>4, <2>6, <2>10, <3>1
  <2>13. /\ c \in ToSet(component') \cup ToSet(frontier')
         /\ ToSet(component') \cup ToSet(frontier') \subseteq Part(c)'
         /\ \A k \in clusters' : ToSet(k) \cap Part(c)' = {}
    BY <1>1, <1>2, <1>3, <1>4, <2>3, <2>5, <2>6, <2>8
  <2>. QED BY <1>1, <1>4, <2>5, <2>7, <2>9, <2>11, <2>12, <2>13 DEF SearchInv
<1>. QED BY <1>7, <1>8

\* With nothing left in the frontier, what has been listed is closed: the whole component.
LEMMA EndFinds ==
  ASSUME SearchInv, EndSearch
  PROVE  SearchInv'
<1>1. /\ searching /\ frontier = <<>> /\ clusters' = clusters \cup {component}
      /\ ~ searching' /\ searching' \in BOOLEAN
      /\ UNCHANGED <<rows, todo, visited, frontier, component>>
  BY DEF EndSearch
<1>2. ToSet(frontier) = {}
  BY <1>1 DEF ToSet
<1>3. PICK c \in ToSet(component) :
        /\ ToSet(component) \subseteq Part(c)
        /\ \A k \in clusters : ToSet(k) \cap Part(c) = {}
        /\ \A d \in ToSet(component) : Neighbours(d) \subseteq visited
  BY <1>1, <1>2 DEF SearchInv
<1>4. visited = ToSet(component) \cup UNION {ToSet(k) : k \in clusters}
  BY <1>1 DEF SearchInv, Round
<1>5. c \in ConceptIds /\ ToSet(component) \subseteq ConceptIds
  BY <1>3, Lists DEF SearchInv, Listed
<1>6. Apart(ToSet(component))
  <2> SUFFICES ASSUME NEW d \in ToSet(component), NEW e \in Neighbours(d)
               PROVE  e \in ToSet(component)
    BY DEF Apart, Closed, Neighbours
  <2>1. e \in Part(c)
    BY <1>3, <1>5, PartClosed DEF Apart, Closed, Neighbours
  <2>. QED BY <1>3, <1>4, <2>1
<1>7. ToSet(component) = Part(c)
  BY <1>3, <1>5, <1>6, PartClosed
<1>8. \A k \in clusters' : Listed(k) /\ \E d \in ConceptIds : ToSet(k) = Part(d)'
  BY <1>1, <1>5, <1>7 DEF SearchInv, Part
<1>9. \A k, l \in clusters' : ToSet(k) \cap ToSet(l) # {} => k = l
  BY <1>1, <1>3, <1>7 DEF SearchInv
<1>10. visited' = Round' \cup UNION {ToSet(k) : k \in clusters'}
  BY <1>1, <1>4 DEF Round
<1>11. \A d \in ConceptIds : d \in todo' \/ d \in visited' \/ d \in ToSet(frontier')
  BY <1>1 DEF SearchInv, ToSet
<1>12. Listed(component')
  BY <1>1 DEF SearchInv
<1>. QED BY <1>1, <1>8, <1>9, <1>10, <1>11, <1>12 DEF SearchInv

LEMMA SearchInvariant == SearchSpec => []SearchInv
<1>1. SearchInit => SearchInv
  <2> SUFFICES ASSUME SearchInit PROVE SearchInv
    OBVIOUS
  <2>1. /\ clusters = {} /\ visited = {} /\ todo = ConceptIds /\ searching = FALSE
        /\ frontier = <<>> /\ component = <<>>
    BY DEF SearchInit
  <2>2. Listed(component) /\ Round = {} /\ frontier \in Seq(ConceptIds)
    BY <2>1 DEF Listed, Round
  <2>. QED BY <2>1, <2>2 DEF SearchInv
<1>2. SearchInv /\ [SearchNext]_searchVars => SearchInv'
  <2>1. SearchInv /\ UNCHANGED searchVars => SearchInv'
    <3> SUFFICES ASSUME SearchInv, UNCHANGED searchVars PROVE SearchInv'
      OBVIOUS
    <3>1. UNCHANGED <<rows, todo, visited, frontier, component, clusters, searching>>
      BY DEF searchVars
    <3>2. /\ \A c : Neighbours(c)' = Neighbours(c) /\ Part(c)' = Part(c)
          /\ Round' = Round /\ (Listed(component)' <=> Listed(component))
      BY <3>1 DEF Neighbours, Part, Round, Listed
    <3>. QED BY <3>1, <3>2 DEF SearchInv
  <2>. QED BY <2>1, StartFinds, PopFinds, EndFinds DEF SearchNext
<1>. QED BY <1>1, <1>2, PTL DEF SearchSpec

\* StructuralAnalyzer.analyze: whatever the graph of concepts and the order of the loop and
\* of what is pushed, each search lists the whole component of its start, each concept of
\* it once, no component is listed twice, and the loop leaves none out.
THEOREM SearchFindsComponents == SearchSpec => []ClustersAreComponents
<1>1. SearchInv => ClustersAreComponents
  <2> SUFFICES ASSUME SearchInv PROVE ClustersAreComponents
    OBVIOUS
  <2>1. ComponentsOf(ConceptIds, rows) = {Part(c) : c \in ConceptIds}
    BY DEF ComponentsOf, Part
  <2>2. \A k \in clusters : /\ ToSet(k) \in ComponentsOf(ConceptIds, rows)
                            /\ \A i, j \in DOMAIN k : k[i] = k[j] => i = j
    BY <2>1 DEF SearchInv, Listed
  <2>3. ASSUME todo = {}, ~ searching, NEW c \in ConceptIds
        PROVE  \E k \in clusters : ToSet(k) = Part(c)
    <3>1. c \in visited /\ visited = UNION {ToSet(k) : k \in clusters}
      BY <2>3 DEF SearchInv, Round, ToSet
    <3>2. PICK k \in clusters : c \in ToSet(k)
      BY <3>1
    <3>3. PICK d \in ConceptIds : ToSet(k) = Part(d)
      BY <3>2 DEF SearchInv
    <3>. QED BY <3>2, <3>3, PartOfMember
  <2>4. \A k, l \in clusters : ToSet(k) \cap ToSet(l) # {} => k = l
    BY DEF SearchInv
  <2>. QED BY <2>1, <2>2, <2>3, <2>4 DEF ClustersAreComponents
<1>. QED BY <1>1, SearchInvariant, PTL
=============================================================================
