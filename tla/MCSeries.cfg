SPECIFICATION Spec
CONSTANTS
  Scale = 2
  Width = 65536
  Kilo = 4
  Long = 256
  Workloads <- AllWorkloads
INVARIANT TypeOK
INVARIANT CountedIsReal
INVARIANT FaultsAgree
INVARIANT ConfidentTogether
INVARIANT FingerprintAgrees
INVARIANT SpikesAreFew
INVARIANT LimitsAgree
INVARIANT SummaryDescribes
