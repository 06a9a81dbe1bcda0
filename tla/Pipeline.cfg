\* One worker, either pipeline after each start, a script of two pairs to speak,
\* one that comes up mute and half a pair, seven jobs on two days, three failures
\* and a crash.
CONSTANTS
  w1 = w1
  w2 = w2
  h1 = h1
  h2 = h2
  Workers <- OneWorker
  Homes <- OneHome
  HomeOf <- AllInOne
  NumLines = 7
  Unspeakable <- OneMute
  MaxJobs = 7
  MaxDays = 2
  MaxFaults = 3
  MaxCrashes = 1
SPECIFICATION Spec
INVARIANTS
  TypeOK
  IndexStaysInRange
  RoundRobin
  TakenBack
  OwnMaterial
  HistoryComplete
  StagedCompleteHasVideo
\* After MaxJobs jobs the worker waits for more.
CHECK_DEADLOCK FALSE
