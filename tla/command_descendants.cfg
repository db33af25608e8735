CONSTANTS
  d = d
  p1 = p1
  p2 = p2
  Direct = d
  Procs = {d, p1, p2}
  Limit = 2
  Requests <- AllRequests
  MaxWritten = 3
SPECIFICATION Spec
INVARIANT
  TimeoutStopsDescendants
