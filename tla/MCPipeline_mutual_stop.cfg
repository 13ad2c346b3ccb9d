SPECIFICATION Spec
CONSTANTS
  HasDownload = FALSE
  HasDiarize = TRUE
  HasLlm = FALSE
  ForkingWorker = TRUE
  PromptRetry = FALSE
  Reapers <- NoReaper
  Workers = 2
  MaxGeneration = 3
  MaxAttempts = 1
  MaxFailures = 2
  MaxCrashes = 0
  MaxEnqueueFaults = 0
  MaxStoreFaults = 0
INVARIANTS
  FailureMarksParent
CHECK_DEADLOCK FALSE
