---------------------------- MODULE MCReviewFlow ----------------------------
(***************************************************************************)
(* Small instances of ReviewFlow.  Calls alone, one after the other, about *)
(* an item with a note, an item about a project's state and an update of   *)
(* it; or two processes that may die anywhere, about two items of one      *)
(* source with two notes, one of which carries an event.                   *)
(***************************************************************************)
EXTENDS ReviewFlow, TLC

CONSTANTS p1, p2, i1, i2, i3, u, concept, topic, state

VARIABLE alone

MCTargets == i1 :> concept @@ i2 :> state @@ i3 :> topic @@ u :> state
MCSymmetry == Permutations(Procs)
MCOriginal == [f \in Files |-> "original"]

Subjects == IF alone THEN {i1, i2, u} ELSE {i1, i3}

MCInit == Init /\ alone \in BOOLEAN

MCNext ==
  /\ \E p \in Procs :
       \/ (alone => Quiet) /\ Call(p)
       \/ Step(p)
       \/ ~ alone /\ Crash(p)
  /\ \A p \in Procs : call'[p].change \subseteq Subjects
  /\ UNCHANGED alone

MCSpec == MCInit /\ [][MCNext]_<<vars, alone>>

-----------------------------------------------------------------------------
\* approve, reject and rollback, one after the other: while no call is under way,
\* the decision on an item, its operation, its entry in the resolution ledger and
\* the dashboard agree.
DecisionIsTruth == alone /\ Quiet => DecisionsAgree
=============================================================================
