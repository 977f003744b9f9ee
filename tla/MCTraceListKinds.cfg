SPECIFICATION Spec
CONSTANTS
  Sids = {"a"}
  SampleTypes = {"i", "f", "none"}
  Records <- MixedKinds
  TickRate = 12
  UserTimeTol = 4
  UserRateTol = 0
  SplitVersion = 1
  SplitIsVersion = FALSE
  AutoHeal = TRUE
  KeepRecordPtrs = TRUE
  KeepUpdateTime = FALSE
  MaxAdds = 5
INVARIANTS
  TypeOK
  VersionsSeparate
  FirstNeverMerged
  StartsInOrder
  RecordListMatchesData
CHECK_DEADLOCK FALSE
