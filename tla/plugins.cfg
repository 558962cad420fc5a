SPECIFICATION FairPluginsSpec
CONSTANTS
  Enabled <- BothPlugins
  MaxErrors = 1
  MaxEvents = 4
  MaxWraps = 1
  MaxTurns = 2
INVARIANTS ErrorsHaveOneReporter RecordingIsWhole PerfLeavesWithTheFlush
PROPERTY SnapshotsAreTaken
CHECK_DEADLOCK FALSE
