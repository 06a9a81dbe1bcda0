\* Two concurrent requests of every kind against one worker, one Redis error.
CONSTANTS
  h1 = h1
  h2 = h2
  w1 = w1
  w2 = w2
  MaxJobs = 2
  MaxFaults = 1
  Lossy <- Nothing
  Handlers <- TwoHandlers
  Ops <- AllOps
  MaxBatch = 2
  MaxApiRestarts = 0
  Workers <- OneWorker
  MaxCrashes = 0
SPECIFICATION Spec
INVARIANTS
  ScanSeesPending
  ActiveIsFound
\* Once MaxJobs jobs exist and are done the system rests: workers block in BLMOVE.
CHECK_DEADLOCK FALSE
