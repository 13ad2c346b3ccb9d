SPECIFICATION Spec
CONSTANTS
  HasDownload = FALSE
  HasDiarize = TRUE
  HasLlm = FALSE
  ForkingWorker = FALSE
  PromptRetry = FALSE
  Reapers <- NoReaper
  Workers = 2
  MaxGeneration = 2
  MaxAttempts = 1
  MaxFailures = 1
  MaxCrashes = 0
  MaxEnqueueFaults = 0
  MaxStoreFaults = 0
PROPERTIES
  ZombieCannotRevive
CHECK_DEADLOCK FALSE
