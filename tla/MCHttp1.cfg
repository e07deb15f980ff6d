CONSTANTS
  MaxLine = 4
  MaxCount = 1
  Requests <- MCRequests
  MaxSent = 3
  MaxAhead = 3
  MaxRequests = 2
  MaxBody = 2
  DrainLimit = 1
  EOL = "LF"
  MaxTrailers = 5
  NoFile = NoFile
  MaxEntries = 10
  MaxTotal = 3
  MaxUpload = 2
  Ratio = 2
  SmallestCoded = 1
  LargestCoded = 2
  Buffered = 2
  HaveZstd = TRUE
  MaxLinks = 6
  MaxScanned = 4
  Detailed = 3
  MaxMeta = 2
  MaxFacets = 2
SPECIFICATION FairSpec
INVARIANTS InStep OneAnswerEach InputExact AnswersExact
PROPERTIES LastIsLast Ends
CHECK_DEADLOCK FALSE
