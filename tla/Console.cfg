\* Clicks, the start-up detector, a submitter, two generations of pollers and one
\* failed request around one main thread, all threads fair.
CONSTANTS
  MaxJobs = 2
  MaxPollers = 2
  MaxSubmits = 1
  MaxBatch = 2
  MaxBacklog = 1
  MaxErrors = 1
SPECIFICATION FairSpec
INVARIANTS
  TypeOK
  OneLivePoller
  PollerFollowsJob
PROPERTIES
  DroppedWhenDone
  ButtonComesBack
  EndIsShown
\* A closed window, or one waiting for its own mutex, stops.
CHECK_DEADLOCK FALSE
