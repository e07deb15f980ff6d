CONSTANTS
  CR = 13
  LF = 10
  NUL = 0
  Requests = {t1, t2, put}
  Transfers = {t1, t2}
  Targets = {path}
  Path = path
  Absent = none
  MaxTransfers = 1
  Retries = 1
  Wrap = 2
  MinBlock = 1
  MaxBlock = 2
  DefaultBlock = 2
  Options = {0, 9}
  Size = 2
  WriteLimit = 2
SPECIFICATION TftpFairSpec
INVARIANTS TransfersSound NetasciiExact
PROPERTIES NeverReplaces TransfersEnd
CHECK_DEADLOCK FALSE
