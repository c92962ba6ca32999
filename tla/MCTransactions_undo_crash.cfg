SPECIFICATION MCSpec
CONSTANTS
  d = d
  c1 = c1
  c2 = c2
  c3 = c3
  o1 = o1
  o2 = o2
  u1 = u1
  u2 = u2
  note = note
  index = index
  concept = concept
  fts = fts
  Procs = {d}
  Teams = {{d}}
  Daemons = {d}
  Recoverers = {}
  Ops = {o1, o2}
  Undos = {u1}
  Files = {note}
  Rows = {concept}
  WriteSet <- Equal
  Scope <- EqualScopes
  Guarded = {}
  Original = Original
  None = None
  Faults <- UndoCrash
  MaxCrashes = 1
INVARIANT
  Aligned
CHECK_DEADLOCK FALSE
