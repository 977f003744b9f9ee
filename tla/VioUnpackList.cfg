SPECIFICATION Spec
CONSTANTS
  NsPerUsec = 2
  UsecPerFsec = 4
  FsecPerSec = 3
  MaxFactor = 12
  RatePrecision = 1000
  FrameWords = 16
  IntMax = 1073741823
  Templates <- McTemplates
  Links <- McLinks
  LikelySeconds <- McSeconds
INVARIANT
  DecodedAlike
