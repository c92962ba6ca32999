SPECIFICATION FairSpec
CONSTANTS
  i1 = i1
  i2 = i2
  u = u
  Items = {i1, i2}
  Updates = {u}
  Stamps = {1, 2, 3, 4, 5, 6}
  Refreshers = {"daemon"}
  MaxPlans = 2
  MaxDeaths = 1
INVARIANTS
  TypeOK
  StateAgrees
PROPERTIES
  HandoffCatchesUp
CHECK_DEADLOCK FALSE
