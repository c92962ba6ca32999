SPECIFICATION MCFairSpec
CONSTANTS
  d = d
  c1 = c1
  c2 = c2
  c3 = c3
  o1 = o1
  o2 = o2
  u1 = u1
  u2 = u2
  note = note
  index = index
  concept = concept
  fts = fts
  Procs = {d, c1, c2, c3}
  Teams = {{d}, {c1, c2}, {c3}}
  Daemons = {d}
  Recoverers = {d, c3}
  Ops = {o1, o2}
  Undos = {u1, u2}
  Files = {note, index}
  Rows = {concept, fts}
  WriteSet <- Overlapping
  Scope <- OverlappingScopes
  Guarded = {o2}
  Original = Original
  None = None
  Faults <- TeamFaults
  MaxCrashes = 2
INVARIANTS
  TypeOK
  NoLostUpdate
  UndoneOnce
PROPERTIES
  CommitIsWhole
  AbortIsWhole
  ImplementsAtomicStore
  InterruptedResolved
CHECK_DEADLOCK FALSE
