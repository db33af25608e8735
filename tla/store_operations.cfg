SPECIFICATION FairSpec
CONSTANTS
  c1 = c1
  c2 = c2
  k1 = k1
  k2 = k2
  Nobody = Nobody
  Callers = {c1, c2}
  Keys = {k1, k2}
  Guards <- ExclusiveGuards
  Updates = {"succeeded"}
  MaxKills = 1
INVARIANTS
  ReadIsCurrent
  ElectsOne
PROPERTIES
  ImplementsClaims
  Returns
