SPECIFICATION Spec
CONSTANTS
  Sids = {"a", "b"}
  SampleTypes = {"i", "t"}
  Records <- Mixed
  TickRate = 12
  UserTimeTol <- NullTolerance
  UserRateTol = 0
  SplitVersion = 0
  SplitIsVersion = FALSE
  AutoHeal = FALSE
  KeepRecordPtrs = TRUE
  KeepUpdateTime = FALSE
  MaxAdds = 4
INVARIANTS
  PubVersionLargest
  RatesWithinTolerance
CHECK_DEADLOCK FALSE
