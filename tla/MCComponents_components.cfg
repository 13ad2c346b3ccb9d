\* The components beside the pipeline, one at a time; each of them may stop.
SPECIFICATION ComponentsSpec
CONSTANTS
  Openers = {"frontend", "worker"}
  MaxOpenFaults = 1
  MaxSegments = 5
  ChunkSize = 2
  DownloadSources = {"gdrive", "twitter", "youtube"}
  MaxDownloads = 2
  MaxTries = 3
  VideoIds = {"a", "b"}
  Submissions <- SomeSubmissions
  MaxBatch = 3
  Shapes <- AllShapes
  Percentages = {0, 50, 99}
  MaxReportFaults = 1
  SettingsChoices <- SomeSettings
  MediaDurations = {1, 5}
  MaxStoreErrors = 1
  Stages = 3
  StageTimeout = 1
  StaleTimeout = 2
  StateTtl = 14
  MaxMissed = 1
INVARIANTS
  ComponentsTypeOK
  InitDbOutcome
  ChunksAreAllOrNothing
  StoredAsReported
  MediaIsOfThisRun
  ErrorsAreClassified
  RoutingAgrees
  OneJobPerVideo
  ToastAddsUp
  BandsPartition
  StageShowsItsEnd
  TimeoutsAreBounded
  GpuTimeoutFitsAudio
  LiveIsSpared
PROPERTIES
  BarNeverRewinds
  EndedTaskIsSilent
  WorkEnds
CHECK_DEADLOCK FALSE
