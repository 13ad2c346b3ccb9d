SPECIFICATION Spec
CONSTANTS
  HasDownload = FALSE
  HasDiarize = FALSE
  HasLlm = FALSE
  ForkingWorker = FALSE
  PromptRetry = FALSE
  Reapers <- NoReaper
  Workers = 2
  MaxGeneration = 2
  MaxAttempts = 1
  MaxFailures = 0
  MaxCrashes = 1
  MaxEnqueueFaults = 0
  MaxStoreFaults = 0
PROPERTIES
  CompletedIsFinal
CHECK_DEADLOCK FALSE
