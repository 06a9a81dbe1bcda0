\* No failures: one batch of two, one worker.
CONSTANTS
  h1 = h1
  h2 = h2
  w1 = w1
  w2 = w2
  MaxJobs = 2
  MaxFaults = 0
  Lossy <- Nothing
  Handlers <- OneHandler
  Ops <- PostOnly
  MaxBatch = 2
  MaxApiRestarts = 0
  Workers <- OneWorker
  MaxCrashes = 0
SPECIFICATION Spec
PROPERTIES
  DrainsFifo
\* Once MaxJobs jobs exist and are done the system rests: workers block in BLMOVE.
CHECK_DEADLOCK FALSE
