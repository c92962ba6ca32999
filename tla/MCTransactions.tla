--------------------------- MODULE MCTransactions ---------------------------
(***************************************************************************)
(* Small instances of Transactions.  In each behaviour one team is at work *)
(* from the start: the daemon, which recovers before it works; two         *)
(* commands, which do not recover; or a command for which everything may   *)
(* fail, the restoring too, and that may be told to recover.  Overlapping  *)
(* plans: o1 writes note and index and the concept row, o2 writes index    *)
(* and both rows, so that each can find the other's content.  Equal plans: *)
(* both write one note and one row, for the property Aligned.              *)
(***************************************************************************)
EXTENDS Transactions, TLC

CONSTANTS d, c1, c2, c3, o1, o2, u1, u2, note, index, concept, fts,
          Teams  \* sets of processes, of which one acts in a behaviour

VARIABLE team

Overlapping == o1 :> {note, index} @@ o2 :> {index}
OverlappingScopes == o1 :> {concept} @@ o2 :> {concept, fts}
Equal == o1 :> {note} @@ o2 :> {note}
EqualScopes == o1 :> {concept} @@ o2 :> {concept}

\* The daemon crashes outside rollback; a write of a command may fail.
TeamFaults ==
  d :> {"crash", "raise"} @@ c1 :> {"raise", "raise_late"} @@ c2 :> {"raise_unguarded"}
    @@ c3 :> {"raise", "raise_late", "raise_in_restore", "raise_unguarded"}
UndoCrash == [p \in Procs |-> {"crash_in_undo"}]

MCInit == Init /\ team \in Teams

\* The daemon rolls back once.  The command that may fail to restore has one operation,
\* which it may retry, and does not roll it back: retried over what it left written, an
\* operation takes its own content for the old one, so that to roll it back changes
\* nothing and can be done twice.
MCNext ==
  /\ \E p \in team : Call(p) \/ Step(p) \/ Fault(p) \/ Restart(p)
  /\ u2 \in Undos /\ d \in team => manifest'[u2] = manifest[u2]
  /\ c3 \in team => \A i \in Ids \ {o1} : manifest'[i] = manifest[i]
  /\ UNCHANGED team

MCSpec == MCInit /\ [][MCNext]_<<vars, team>>

MCFairSpec ==
  /\ MCSpec
  /\ \A p \in Daemons : WF_vars(p \in team /\ Step(p)) /\ WF_vars(p \in team /\ Restart(p))

-----------------------------------------------------------------------------
\* apply(), rollback(), recover_interrupted() of the daemon, with crashes between any
\* two writes, implement a store on which operations and rollbacks are atomic.
ImplementsAtomicStore ==
  /\ team = {d} => Atomic!Init
  /\ [][team = {d} => Atomic!Next]_(Atomic!vars)
=============================================================================
