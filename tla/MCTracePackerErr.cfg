SPECIFICATION PackSpec
CONSTANTS
  Sids = {"a", "b"}
  SampleTypes = {"i"}
  Records <- Beside
  TickRate = 12
  UserTimeTol <- NullTolerance
  UserRateTol = 0
  SplitVersion = 0
  SplitIsVersion = FALSE
  AutoHeal = TRUE
  KeepRecordPtrs = TRUE
  KeepUpdateTime = TRUE
  MaxAdds = 3
  IdOrder <- Order
  MaxSamples = 3
  MinSamples = 2
  Unencodable = {8}
  PackerMaintain = {FALSE, TRUE}
  PackerFlush = {FALSE, TRUE}
  FlushIdle = 0
  UseGenerator = TRUE
  UseCallback = TRUE
  UseSegment = TRUE
  FreeEarly = TRUE
  MaxStream = 2
  MaxNow = 1
  AddUntil = 1
INVARIANTS
  NothingLost
  MaintainedPackedOnce
CHECK_DEADLOCK FALSE
