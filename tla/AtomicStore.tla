---------------------------- MODULE AtomicStore ----------------------------
(***************************************************************************)
(* What the transaction manager promises its callers: canonical Markdown   *)
(* files and SQLite rows change only by whole operations, each of which    *)
(* happens at one moment or not at all, and a compensating rollback puts   *)
(* back, at one moment, exactly what the operation replaced, and only as   *)
(* long as nobody has changed it since.  No crash is visible here.         *)
(***************************************************************************)
CONSTANTS Files,     \* canonical Markdown files
          Rows,      \* logical SQLite, FTS and vector rows
          Ops,       \* operations
          WriteSet,  \* WriteSet[o]: the files operation o writes
          Scope,     \* Scope[o]: the rows operation o declares and mutates
          Original,  \* the content of every file and row at the start
          NoPrior    \* stands for "operation o has not been applied"

VARIABLES file,      \* the content of each file: the operation that wrote it
          row,       \* the content of each row, likewise
          status,    \* "open", "applied" or "undone"
          prior      \* what each applied operation replaced

vars == <<file, row, status, prior>>

Content == Ops \cup {Original}

Init ==
  /\ file = [f \in Files |-> Original]
  /\ row = [r \in Rows |-> Original]
  /\ status = [o \in Ops |-> "open"]
  /\ prior = [o \in Ops |-> NoPrior]

\* Every file and row still has the content that operation o gave it.
Untouched(o) ==
  /\ \A f \in WriteSet[o] : file[f] = o
  /\ \A r \in Scope[o] : row[r] = o

Commit(o) ==
  /\ status[o] = "open"
  /\ file' = [f \in Files |-> IF f \in WriteSet[o] THEN o ELSE file[f]]
  /\ row' = [r \in Rows |-> IF r \in Scope[o] THEN o ELSE row[r]]
  /\ status' = [status EXCEPT ![o] = "applied"]
  /\ prior' = [prior EXCEPT ![o] = [file |-> [f \in WriteSet[o] |-> file[f]],
                                    row  |-> [r \in Scope[o] |-> row[r]]]]

Undo(o) ==
  /\ status[o] = "applied"
  /\ Untouched(o)
  /\ file' = [f \in Files |-> IF f \in WriteSet[o] THEN prior[o].file[f] ELSE file[f]]
  /\ row' = [r \in Rows |-> IF r \in Scope[o] THEN prior[o].row[r] ELSE row[r]]
  /\ status' = [status EXCEPT ![o] = "undone"]
  /\ UNCHANGED prior

Next == \E o \in Ops : Commit(o) \/ Undo(o)

Spec == Init /\ [][Next]_vars
=============================================================================
