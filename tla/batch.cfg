\* Two jobs of up to two items on two slots, a stop of the process.
CONSTANTS
  concurrency = 2
  maxJobs = 2
  maxRequests = 2
  JobBound = 2
  MaxStops = 1
SPECIFICATION FairSpec
INVARIANTS TypeOK BoundedConcurrency ExecutionAccounted SavedOrDirty
PROPERTIES ImplementsBoard JobsSettle
