\* Either worker, any number of jobs, failures and restarts: nothing is bounded.
SPECIFICATION Spec
INVARIANTS
  TypeOK
  WhisperFreed
  FailureIsLocated
PROPERTIES
  ProgressNeverFalls
