\* A click while a job is attached.
CONSTANTS
  MaxJobs = 1
  MaxPollers = 1
  MaxSubmits = 1
  MaxBatch = 1
  MaxBacklog = 1
  MaxErrors = 0
SPECIFICATION Spec
INVARIANTS
  MutexIsFree
\* A closed window, or one waiting for its own mutex, stops.
CHECK_DEADLOCK FALSE
