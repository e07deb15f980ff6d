CONSTANTS
  p1 = p1
  p2 = p2
  p3 = p3
  p4 = p4
  p5 = p5
  Calls <- MCCalls
  Charge <- MCCharge
  QueueCapacity = 1
  ByteCapacity = 4
  BatchSize = 2
SPECIFICATION FairSpec
INVARIANTS RecordsAccounted
PROPERTIES LogSettles
