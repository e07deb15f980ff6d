CONSTANTS
  c1 = c1
  c2 = c2
  s1 = s1
  thread = thread
  Callers = {s1, thread}
  Keys = {"small", "large"}
  SizeOf <- MCSizeOf
  MaxSize = 2
  Conns = {c1, c2}
  Streams = {s1}
  ConnOf <- MCConnOf
  MaxConnections = 1
  MaxRequestBody = 1
  FileSize = 2
  QueueLimit = 1
SPECIFICATION Http3FairSpec
INVARIANTS RepliesWhole CacheExact
PROPERTIES Http3Settles
CHECK_DEADLOCK FALSE
