----------------------------- MODULE WriterLock -----------------------------
(***************************************************************************)
(* What the callers of ProcessLockManager.acquire rely on: there is one    *)
(* user at most, and only that user is inside the with statement.  The     *)
(* lock passes on when its user gives it back, or leaves it behind by      *)
(* dying or failing; what is left behind may be cleared away.  A call may  *)
(* be refused at any time.                                                 *)
(***************************************************************************)
CONSTANT Users  \* threads or processes that use the lock

VARIABLES users,   \* those who have the lock
          inside,  \* those inside the with statement
          left     \* whether the lock was left behind

vars == <<users, inside, left>>

Init == users = {} /\ inside = {} /\ left = FALSE

\* The body may begin at once, or later.
Take(u) ==
  /\ users = {}
  /\ users' = {u} /\ inside' \in {{}, {u}} /\ left' = FALSE

Begin(u) == users = {u} /\ inside' = {u} /\ UNCHANGED <<users, left>>

End(u) == inside = {u} /\ inside' = {} /\ UNCHANGED <<users, left>>

GiveBack(u) == users = {u} /\ users' = {} /\ inside' = {} /\ left' = FALSE

LeaveBehind(u) == users = {u} /\ users' = {} /\ inside' = {} /\ left' = TRUE

Clear == users = {} /\ left /\ left' = FALSE /\ UNCHANGED <<users, inside>>

Next ==
  \/ \E u \in Users : Take(u) \/ Begin(u) \/ End(u) \/ GiveBack(u) \/ LeaveBehind(u)
  \/ Clear

Spec == Init /\ [][Next]_vars
=============================================================================
