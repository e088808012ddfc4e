SPECIFICATION Spec
CONSTANTS
  Pids = {h1, h2, h3}
  h1 = h1
  h2 = h2
  h3 = h3
  Fails = {"cpu", "procs", "stat"}
  MaxFaults = 2
  MaxTicks = 2
  MaxSamples = 3
SYMMETRY Interchangeable
INVARIANT TypeOK
INVARIANT SampleHasTheLiving
INVARIANT RisesAreReal
INVARIANT CpuWithinCapacity
CHECK_DEADLOCK FALSE
