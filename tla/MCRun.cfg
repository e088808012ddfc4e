SPECIFICATION FairSpec
CONSTANTS
  Chunks = {"text", "blank", "part"}
  MayTimeout = {"start", "profiler"}
  MayDie = {"cspip", "runtime"}
  MaxChunks = 4
  MaxSamples = 2
INVARIANT TypeOK
INVARIANT SendsNeverBlock
INVARIANT ForwardedInOrder
INVARIANT SavedSeriesIsFinal
PROPERTY FollowsRunRecord
PROPERTY RunReturns
PROPERTY AnnouncementArrives
CHECK_DEADLOCK FALSE
