SPECIFICATION PackSpec
CONSTANTS
  Sids = {"a", "b"}
  SampleTypes = {"i"}
  Records <- Rolling
  TickRate = 12
  UserTimeTol <- NullTolerance
  UserRateTol = 0
  SplitVersion = 0
  SplitIsVersion = FALSE
  AutoHeal = TRUE
  KeepRecordPtrs = TRUE
  KeepUpdateTime = TRUE
  MaxAdds = 3
  IdOrder <- Order
  MaxSamples = 3
  MinSamples = 2
  Unencodable = {}
  PackerMaintain = {FALSE}
  PackerFlush = {FALSE, TRUE}
  FlushIdle = 0
  UseGenerator = TRUE
  UseCallback = TRUE
  UseSegment = TRUE
  FreeEarly = FALSE
  MaxStream = 2
  MaxNow = 1
  AddUntil = 1
INVARIANTS
  StreamFaithful
PROPERTIES
  FinishedMeansDrained
CHECK_DEADLOCK FALSE
