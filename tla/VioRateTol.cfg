SPECIFICATION Spec
CONSTANTS
  Sids = {"a"}
  SampleTypes = {"i"}
  Records <- NearRates
  TickRate = 12
  UserTimeTol <- NullTolerance
  UserRateTol = 1
  SplitVersion = 0
  SplitIsVersion = FALSE
  AutoHeal = FALSE
  KeepRecordPtrs = TRUE
  KeepUpdateTime = FALSE
  MaxAdds = 2
INVARIANTS
  RatesWithinTolerance
CHECK_DEADLOCK FALSE
