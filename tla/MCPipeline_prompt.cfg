SPECIFICATION Spec
CONSTANTS
  HasDownload = FALSE
  HasDiarize = FALSE
  HasLlm = FALSE
  ForkingWorker = FALSE
  PromptRetry = TRUE
  Reapers <- NoReaper
  Workers = 2
  MaxGeneration = 4
  MaxAttempts = 2
  MaxFailures = 1
  MaxCrashes = 0
  MaxEnqueueFaults = 0
  MaxStoreFaults = 1
INVARIANTS
  CompletedMeansSaved
CHECK_DEADLOCK FALSE
