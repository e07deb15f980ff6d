CONSTANTS
  StaticTable <- MCStatic
  FieldSize <- MCFieldSize
  SizeLimit = 2
  MaxHeaderList = 4
  HuffmanCode <- MCHuffman
  EOS = 4
  MaxFrame = 8
  Streams = {1, 3}
  MaxStreams = 1
  InitialWindow = 1
  MaxWindow = 2
  FrameLimit = 1
  Sizes = {0, 2}
  MaxBlock = 1
  MaxContinuation = 1
  MaxControl = 1
  MaxRst = 1
  PathFields <- MCPaths
  OtherFields <- MCOthers
SPECIFICATION FairSpec
INVARIANTS SendsWhatIsGranted StreamsAccounted PromisesKept FieldsExact
PROPERTY DrainEnds
