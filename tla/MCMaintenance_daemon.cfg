SPECIFICATION MCFairSpec
CONSTANTS
  ConceptIds = {"a", "b", "c", "d"}
  Graphs <- MCGraphs
  Concepts = {"c1", "c2", "c3"}
  Sources = {"s"}
  Relations = {"r1", "r2", "r3"}
  From <- MCFrom
  To <- MCTo
  Title <- MCTitle
  Retrieved = {"c1"}
  Related = {"c1"}
  Rank <- MCRank
  Unsourced = {}
  Standing <- MCStanding
  FanOut = 2
  ClusterSize = 3
  Limit = 1
  MapSize = 1
  Fallback = 1
  BriefSize = 1
  Callers = {"daemon", "command"}
  MaxChanges = 3
  MaxText = 2
  MaxRejections = 1
  MaxFailures = 1
  Configs <- MCConfigs
  MaxCommands = 1
  MaxStops = 1
INVARIANTS TypeOK SkippedOnlyByOverrun ClustersAreComponents
PROPERTIES UserTextKept GraphCatchesUp EveryFindingProposed RoutineMadeUp
CHECK_DEADLOCK FALSE
