\* One client posting single jobs, one worker, no failures.
CONSTANTS
  h1 = h1
  h2 = h2
  w1 = w1
  w2 = w2
  MaxJobs = 2
  MaxFaults = 0
  Lossy <- Nothing
  Handlers <- OneHandler
  Ops <- PostOnly
  MaxBatch = 1
  MaxApiRestarts = 0
  Workers <- OneWorker
  MaxCrashes = 0
SPECIFICATION Spec
PROPERTIES
  NoCreateBesideActive
\* Once MaxJobs jobs exist and are done the system rests: workers block in BLMOVE.
CHECK_DEADLOCK FALSE
