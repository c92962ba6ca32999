SPECIFICATION Spec
CONSTANTS
  s1 = s1
  s2 = s2
  s3 = s3
  k1 = k1
  k2 = k2
  Daemon = daemon
  Commands = {command}
  Sources = {s1, s3}
  Queued = {s1}
  Providers = {k1}
  Permits <- MCPermits
  Topic <- MCTopic
  Meaning <- MCMeaning
  Names <- MCNames
  Modes = {"alone"}
  MaxFaults = 0
  MaxRebuilds = 0
  MaxChanges = 0
PROPERTIES
  SupersededStays
CHECK_DEADLOCK FALSE
