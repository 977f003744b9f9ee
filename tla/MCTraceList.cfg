SPECIFICATION Spec
CONSTANTS
  Sids = {"a"}
  SampleTypes = {"i"}
  Records <- OneChannel
  TickRate = 12
  UserTimeTol <- NullTolerance
  UserRateTol = 0
  SplitVersion = 0
  SplitIsVersion = FALSE
  AutoHeal = TRUE
  KeepRecordPtrs = TRUE
  KeepUpdateTime = FALSE
  MaxAdds = 4
INVARIANTS
  SegmentsSorted
  SegmentsCounted
  ExtentExact
  SamplesConserved
  SeriesContinuous
  FullyHealed
CHECK_DEADLOCK FALSE
