SPECIFICATION FairSpec
CONSTANTS
  s1 = s1
  s2 = s2
  s3 = s3
  k1 = k1
  k2 = k2
  Daemon = daemon
  Commands = {command}
  Sources = {s1, s2, s3}
  Queued = {s1, s2}
  Providers = {k1, k2}
  Permits <- MCPermits
  Topic <- MCTopic
  Meaning <- MCMeaning
  Names <- MCNames
  Modes = {"alone", "beside"}
  MaxFaults = 1
  MaxRebuilds = 1
  MaxChanges = 1
INVARIANTS
  TypeOK
  OneConcept
  NoteShowsRow
PROPERTIES
  MeaningReviewed
  RebuildPreserves
  EventuallyProposed
CHECK_DEADLOCK FALSE
