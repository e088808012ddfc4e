SPECIFICATION NsSpec
CONSTANTS
  Ids = {id1}
  Pids = {h1, h2}
  Procs = {p1, p2}
  NoPid = NoPid
  NoId = NoId
  id1 = id1
  h1 = h1
  h2 = h2
  p1 = p1
  p2 = p2
  Execs = {e1}
  e1 = e1
  Ops = {"kill", "rm"}
  Faults <- NoFaults
  ParentTakesProcs = TRUE
  MaxPolls = 1
  MaxCrashes = 1
SYMMETRY Interchangeable
INVARIANT ExecTypeOK
INVARIANT ExecAimsAtInit
INVARIANT ExecMissesOnlyTheDead
INVARIANT ExecStaysTogether
