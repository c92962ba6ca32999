---------------------------- MODULE MCMaintenance ----------------------------
(***************************************************************************)
(* Small instances of Maintenance; and of the search for clusters, over    *)
(* graphs of four concepts and an object that is none: with cycles, forks, *)
(* a loop, a dangling end and two relationships between the same two.      *)
(***************************************************************************)
EXTENDS Maintenance, Clusters

\* The second concept comes with relations to the first, of the same title, and a source,
\* and the third with one to the second.
MCFrom == [r \in Relations |-> IF r = "r3" THEN "c3" ELSE "c2"]
MCTo == [r \in Relations |-> CASE r = "r1" -> "s" [] r = "r2" -> "c1" [] r = "r3" -> "c2"]
MCRank == [c \in Concepts |-> CASE c = "c1" -> 1 [] c = "c2" -> 2 [] c = "c3" -> 3]
MCTitle == [c \in Concepts |-> IF c = "c3" THEN "u" ELSE "t"]

MCStanding == {<<"project-without-next-action", "p">>}

\* Any two of the four are joined or not, in one direction or the other.
MCGraphs ==
  SUBSET {<<"a", "b">>, <<"b", "c">>, <<"c", "d">>, <<"d", "a">>, <<"c", "a">>, <<"b", "d">>,
          <<"b", "a">>, <<"c", "c">>, <<"other", "d">>}

MCConfigs == {{"nightly"}, {"weekly"}, Routines, {}}

\* Without a routine there is the search alone, of any of the graphs.
MCInit == Init /\ SearchInit /\ (enabled # {} => rows = {})

\* Each configuration is for a question of its own: the links and the maps, beside a
\* command and a user; the proposals; the schedule, while the knowledge stays as it is;
\* and the search.
MCNext ==
  \/ /\ enabled = {} /\ SearchNext
     /\ UNCHANGED vars
  \/ /\ enabled # {} /\ Next
     /\ enabled = {"nightly"} => UNCHANGED <<pending, late, stops, bounds["failures"]>>
     /\ enabled = {"nightly"} => "c3" \notin known' /\ bounds'["changes"] < 3
     /\ enabled = {"weekly"} => UNCHANGED <<shown, note["s"], raced, late, stops, calls>>
     /\ enabled = Routines =>
          UNCHANGED <<note, shown, raced, calls>> /\ pending \subseteq pending'
     /\ \A c \in Concepts : note'[c].text \in {0, 1}
     /\ \A p \in Callers : pass'[p].job \in enabled \cup {"none"}
     /\ UNCHANGED searchVars

MCFairSpec == MCInit /\ [][MCNext]_<<vars, searchVars>> /\ Fairness
=============================================================================
