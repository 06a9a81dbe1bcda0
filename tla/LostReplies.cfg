\* Every command may lose its reply: an EXEC sent twice queues a job twice, two
\* workers run it; two errors, a crash and a restart of the API, and fair
\* workers.
CONSTANTS
  h1 = h1
  h2 = h2
  w1 = w1
  w2 = w2
  MaxJobs = 2
  MaxFaults = 2
  Lossy <- Anything
  Handlers <- OneHandler
  Ops <- PostOnly
  MaxBatch = 2
  MaxApiRestarts = 1
  Workers <- TwoWorkers
  MaxCrashes = 1
SPECIFICATION FairSpec
INVARIANTS
  ExclusiveClaim
  Accounting
  SingleFailureSafe
PROPERTIES
  SettlesUnlessMoreCome
\* Once MaxJobs jobs exist and are done the system rests: workers block in BLMOVE.
CHECK_DEADLOCK FALSE
