CONSTANTS
  j1 = j1
  j2 = j2
  j3 = j3
  Jobs <- MCJobs
  AsyncJobs <- MCAsyncJobs
  Weight <- MCWeight
  Workers = 1
  QueueCapacity = 1
  ByteCapacity = 2
  ThreadStartMayFail = TRUE
SPECIFICATION FairSpec
INVARIANTS CallsOwned CountersExact
PROPERTIES PoolSettles ExactAdmission
