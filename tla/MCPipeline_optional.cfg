SPECIFICATION FairSpec
CONSTANTS
  HasDownload = TRUE
  HasDiarize = FALSE
  HasLlm = TRUE
  ForkingWorker = FALSE
  PromptRetry = FALSE
  Reapers <- NoReaper
  Workers = 2
  MaxGeneration = 4
  MaxAttempts = 2
  MaxFailures = 1
  MaxCrashes = 0
  MaxEnqueueFaults = 0
  MaxStoreFaults = 0
INVARIANTS
  TypeOK
  HashMatchesRow
PROPERTIES
  EveryAttemptEnds
  OptionalStageNeverFailsJob
CHECK_DEADLOCK FALSE
