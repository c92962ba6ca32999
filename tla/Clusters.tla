------------------------------ MODULE Clusters ------------------------------
(***************************************************************************)
(* StructuralAnalyzer.analyze, its search for clusters (restructuring.py): *)
(* a loop over the concepts, each of which starts a search unless an       *)
(* earlier one has visited it.  The search pops the last concept of its    *)
(* frontier and pushes what is adjacent and not visited, so that a concept *)
(* may be in the frontier more than once; `visited` is shared by all       *)
(* searches.                                                               *)
(***************************************************************************)
EXTENDS Components, Naturals, FiniteSets, Sequences, SequencesExt

CONSTANTS
  ConceptIds, \* the concepts that have rows
  Graphs      \* sets of relationships, each of which is a pair of its ends

ASSUME ConceptAssumption == IsFiniteSet(ConceptIds)

VARIABLES
  rows,        \* the relationships
  todo,        \* the concepts that the loop has not come to
  visited,
  frontier,    \* the stack of the search, its top at the end
  component,   \* the list of what the search has visited
  clusters,    \* the components of the searches that have ended
  searching    \* whether a search is under way

searchVars == <<rows, todo, visited, frontier, component, clusters, searching>>

SearchInit ==
  /\ rows \in Graphs
  /\ todo = ConceptIds
  /\ visited = {}
  /\ frontier = <<>>
  /\ component = <<>>
  /\ clusters = {}
  /\ searching = FALSE

\* Mutant: a concept is visited as often as it is popped.
AnyPopped(c) == TRUE

Fresh(c) == c \notin visited

\* Identifiers are random, and so is their order.
SkipConcept ==
  /\ ~ searching
  /\ \E c \in todo : c \in visited /\ todo' = todo \ {c}
  /\ UNCHANGED <<rows, visited, frontier, component, clusters, searching>>

StartSearch ==
  /\ ~ searching
  /\ \E c \in todo :
       /\ c \notin visited
       /\ todo' = todo \ {c}
       /\ frontier' = <<c>>
  /\ component' = <<>>
  /\ searching' = TRUE
  /\ UNCHANGED <<rows, visited, clusters>>

PopVisited ==
  /\ searching /\ frontier # <<>>
  /\ ~ Fresh(Last(frontier))
  /\ frontier' = Front(frontier)
  /\ UNCHANGED <<rows, todo, visited, component, clusters, searching>>

\* What is pushed, in some order.
Orders(S) == {s \in [1 .. Cardinality(S) -> S] : \A c \in S : \E i \in DOMAIN s : s[i] = c}

Visit ==
  /\ searching /\ frontier # <<>>
  /\ LET c == Last(frontier) IN
       /\ Fresh(c)
       /\ visited' = visited \cup {c}
       /\ component' = Append(component, c)
       /\ \E more \in Orders(Adjacent(c, ConceptIds, rows) \ visited') :
            frontier' = Front(frontier) \o more
  /\ UNCHANGED <<rows, todo, clusters, searching>>

EndSearch ==
  /\ searching /\ frontier = <<>>
  /\ clusters' = clusters \cup {component}
  /\ searching' = FALSE
  /\ UNCHANGED <<rows, todo, visited, frontier, component>>

SearchNext == SkipConcept \/ StartSearch \/ PopVisited \/ Visit \/ EndSearch

SearchSpec == SearchInit /\ [][SearchNext]_searchVars

-----------------------------------------------------------------------------
\* The search lists every connected component, and each concept of it once, on which the
\* size of a cluster rests, although its frontier may hold a concept twice and a later
\* search may come back to what an earlier one has visited.
ClustersAreComponents ==
  /\ \A k \in clusters : /\ ToSet(k) \in ComponentsOf(ConceptIds, rows)
                         /\ \A i, j \in DOMAIN k : k[i] = k[j] => i = j
  /\ \A k, l \in clusters : ToSet(k) \cap ToSet(l) # {} => k = l
  /\ todo = {} /\ ~ searching =>
       {ToSet(k) : k \in clusters} = ComponentsOf(ConceptIds, rows)
=============================================================================
