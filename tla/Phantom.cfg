\* One worker, one failure.
CONSTANTS
  w1 = w1
  w2 = w2
  h1 = h1
  h2 = h2
  Workers <- OneWorker
  Homes <- OneHome
  HomeOf <- AllInOne
  NumLines = 6
  Unspeakable <- NoneMute
  MaxJobs = 2
  MaxDays = 1
  MaxFaults = 1
  MaxCrashes = 0
SPECIFICATION Spec
INVARIANTS
  CompleteHasVideo
CHECK_DEADLOCK FALSE
