SPECIFICATION FairConsoleSpec
CONSTANTS
  MaxFiles = 2
  MaxClicks = 2
  MaxInFlight = 3
  MaxFails = 1
  MaxChunks = 2
  MaxJobs = 1
  MaxPosts = 2
INVARIANTS OnePlayer FileIsWhole
PROPERTY ReplayIsShown
CHECK_DEADLOCK FALSE
