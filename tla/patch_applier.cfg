SPECIFICATION Spec
CONSTANTS
  a = a
  l = l
  s = s
  x = x
  y = y
  bin = bin
  id1 = id1
  id2 = id2
  Outside = Outside
  Absent = Absent
  Anything = Anything
  Files = {a, l, s}
  Permitted = {a, l}
  Resolutions <- Links
  Ids = {id1, id2}
  Texts = {x, y, bin}
  Binary = {bin}
  Trees <- Worktrees
  Proposals <- MCProposals
  MaxTexts = 2
  MaxCalls = 3
  MaxFaults = 2
CHECK_DEADLOCK FALSE
INVARIANTS
  AllOrNothing
  NothingInPart
  RollbackUndoes
PROPERTIES
  OnlyPermittedChange
