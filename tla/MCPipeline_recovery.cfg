SPECIFICATION FairSpec
CONSTANTS
  HasDownload = FALSE
  HasDiarize = FALSE
  HasLlm = FALSE
  ForkingWorker = FALSE
  PromptRetry = FALSE
  Reapers <- OneReaper
  Workers = 2
  MaxGeneration = 4
  MaxAttempts = 1
  MaxFailures = 0
  MaxCrashes = 1
  MaxEnqueueFaults = 1
  MaxStoreFaults = 0
PROPERTIES
  NoJobIsStranded
  RecoverOnlyDead
CHECK_DEADLOCK FALSE
