----------------------------- MODULE Components -----------------------------
(***************************************************************************)
(* The connected components of the concepts `ids` under the ends `rows` of *)
(* relationships: what the search of restructuring.py (module Clusters) is *)
(* to find, and what Structure takes its clusters to be.                   *)
(***************************************************************************)

\* adjacency: the concepts that a relationship joins, in either direction.
Adjacent(c, ids, rows) == {d \in ids : <<c, d>> \in rows \/ <<d, c>> \in rows}

\* No relationship of concepts leads out of S.
Closed(S, ids, rows) == \A c \in S : Adjacent(c, ids, rows) \subseteq S

\* What every closed set around c holds.
Component(c, ids, rows) ==
  {d \in ids : \A S \in SUBSET ids : c \in S /\ Closed(S, ids, rows) => d \in S}

ComponentsOf(ids, rows) == {Component(c, ids, rows) : c \in ids}
=============================================================================
