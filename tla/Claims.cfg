\* Two workers, one client posting single jobs and batches, one Redis error (pops and
\* the writes of "running" and "failed" may lose their reply), one crash and one
\* restart of the API.
CONSTANTS
  h1 = h1
  h2 = h2
  w1 = w1
  w2 = w2
  MaxJobs = 3
  MaxFaults = 1
  Lossy <- PopAndMark
  Handlers <- OneHandler
  Ops <- PostOnly
  MaxBatch = 2
  MaxApiRestarts = 1
  Workers <- TwoWorkers
  MaxCrashes = 1
SPECIFICATION Spec
INVARIANTS
  TypeOK
  StrandedBound
PROPERTIES
  ImplementsLifecycle
\* Once MaxJobs jobs exist and are done the system rests: workers block in BLMOVE.
CHECK_DEADLOCK FALSE
