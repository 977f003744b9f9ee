SPECIFICATION Spec
CONSTANTS
  HourPerDay = 2
  MinPerHour = 2
  SecPerMin = 2
  SubMicro = 2
  MicroPerSec = 2
  LastDay = 106751
  Times <- McTimes
  Dates <- McDates
  MonthDays <- McMonthDays
  Formats <- McFormats
  SubSeconds <- McSubSeconds
  MinSidLen = 16
  SidLens = {15, 16, 17, 18, 19, 20, 99}
  Codes <- McCodes
  CodeSizes <- McSizes
  Sids <- McSids
  Texts <- McTexts
  FieldSizes = {1, 2, 3, 4, 5}
  CharOrder <- McOrder
  GlobStrings <- McStrings
  GlobPatterns <- McPatterns
  FrameWords = 5
  IntMax = 1073741823
  Series <- McSeries
  PayloadSizes = {0, 4, 19, 20, 40}
  Words16 <- McWords16
  MaxFactor = 11
  RatePrecision = 1000
  Rates <- McRates
  MaxMessages = {0, 1, 2, 3}
  MaxLogged = 5
  Entries <- McEntries
  Components <- McComponents
  SelFiles <- McFiles
  Queries <- McQueries
  MaxAdded = 3
  Pointers <- McPointers
  Scalars <- McScalars
  Patches <- McPatches
  Structs <- McStructs
  Originals <- McOriginals
  MaxExtra = 3
  MaxEntries = 1
  BlockSizes = {0, 12}
  SegRecords <- McSegRecords
  FloatBits = 6
  FloatRange = 15
  MaxSegRecords = 3
  SkipSids = {1, 2}
  SkipVersions = {0, 1, 2}
  MaxHeight = 3
  MaxIds = 3
INVARIANTS
  CalendarExact
  TimeStringsReadBack
  IdentifiersKept
  GlobMatchesMeaning
  EncodingsExact
  MessagesKept
  SelectsAsAsked
  HeadersKept
  SegmentSamplesKept
  SkipListSound
PROPERTIES
  EmitReturns
