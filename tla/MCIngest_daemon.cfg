SPECIFICATION FairSpec
CONSTANTS
  note = note
  copy = copy
  blob = blob
  text = text
  bytes = bytes
  w = w
  d = d
  Paths = {note, copy, blob}
  Contents = {text, bytes}
  NameOf <- MCNames
  Lane <- MCLanes
  Supported = {note, copy}
  Scans = {}
  Files <- MCFiles
  Watchers = {w}
  Loop = d
  Commands = {}
  HasAI = FALSE
  Orderly = TRUE
  None = None
  MaxDrops = 2
  MaxFaults = 1
  MaxChanges = 1
INVARIANTS
  TypeOK
  SettledIsSearchable
  RebuildKeepsSource
PROPERTIES
  EvidenceKept
  EventuallyPreserved
