SPECIFICATION Spec
CONSTANTS
  Ids = {id1, id2}
  Pids = {h1, h2}
  Procs = {p1, p2}
  NoPid = NoPid
  NoId = NoId
  id1 = id1
  id2 = id2
  h1 = h1
  h2 = h2
  p1 = p1
  p2 = p2
  Ops = {"stop", "kill", "inspect"}
  Faults <- NoWriteFaults
  ParentTakesProcs = FALSE
  MaxPolls = 1
  MaxCrashes = 1
SYMMETRY Interchangeable
INVARIANT RunningIsCharged
INVARIANT SignalMissesOnlyTheDead
PROPERTY FollowsLifecycle
