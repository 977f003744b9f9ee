SPECIFICATION FairPackSpec
CONSTANTS
  Sids = {"a"}
  SampleTypes = {"i"}
  Records <- Small
  TickRate = 12
  UserTimeTol <- NullTolerance
  UserRateTol = 0
  SplitVersion = 0
  SplitIsVersion = FALSE
  AutoHeal = TRUE
  KeepRecordPtrs = TRUE
  KeepUpdateTime = TRUE
  MaxAdds = 3
  IdOrder <- OneID
  MaxSamples = 3
  MinSamples = 2
  Unencodable = {}
  PackerMaintain = {FALSE}
  PackerFlush = {FALSE}
  FlushIdle = 1
  UseGenerator = TRUE
  UseCallback = TRUE
  UseSegment = FALSE
  FreeEarly = FALSE
  MaxStream = 8
  MaxNow = 5
  AddUntil = 3
PROPERTIES
  IdleFlushed
CHECK_DEADLOCK FALSE
