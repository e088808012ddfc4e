SPECIFICATION Spec
CONSTANTS
  Ids = {id1}
  Pids = {h1, h2}
  Procs = {p1}
  NoPid = NoPid
  NoId = NoId
  id1 = id1
  h1 = h1
  h2 = h2
  p1 = p1
  Ops <- NoOps
  Faults <- NoFaults
  ParentTakesProcs = FALSE
  MaxPolls = 1
  MaxCrashes = 0
SYMMETRY Interchangeable
INVARIANT UserCodeIsCharged
