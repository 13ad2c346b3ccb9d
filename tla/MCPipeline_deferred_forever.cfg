SPECIFICATION FairSpec
CONSTANTS
  HasDownload = FALSE
  HasDiarize = FALSE
  HasLlm = FALSE
  ForkingWorker = FALSE
  PromptRetry = FALSE
  Reapers <- OneReaper
  Workers = 2
  MaxGeneration = 3
  MaxAttempts = 1
  MaxFailures = 1
  MaxCrashes = 0
  MaxEnqueueFaults = 0
  MaxStoreFaults = 1
PROPERTIES
  NoJobIsStranded
CHECK_DEADLOCK FALSE
