SPECIFICATION FairSpec
CONSTANTS
  Ids = {id1}
  Pids = {h1}
  Procs = {p1, p2, p3}
  NoPid = NoPid
  NoId = NoId
  id1 = id1
  h1 = h1
  p1 = p1
  p2 = p2
  p3 = p3
  Ops = {"kill", "rm"}
  Faults <- NoFaults
  ParentTakesProcs = FALSE
  MaxPolls = 1
  MaxCrashes = 0
PROPERTY KillSettles
PROPERTY ExitIsRecorded
INVARIANT NoLateRunningWrite
INVARIANT OwnsItsChild
