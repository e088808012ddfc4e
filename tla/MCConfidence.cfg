SPECIFICATION Spec
CONSTANTS
  Scale = 2
  Width = 65536
  Kilo = 4
  Long = 256
  Workloads <- Levelled
INVARIANT ConfidenceIsTheShare
