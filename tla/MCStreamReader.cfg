SPECIFICATION ListSpec
CONSTANTS
  Streams <- SomeStreams
  Options <- SomeOptions
  MinRecLen = 2
  MaxRecLen = 12
  FixedLen = 3
  BlktLen = 1
  ScanStep = 4
INVARIANTS
  ReaderTypeOK
  BufferAligned
  ListedOnce
  SameRecordsListed
PROPERTIES
  ReadsTheStream
  ListingEnds
CHECK_DEADLOCK FALSE
