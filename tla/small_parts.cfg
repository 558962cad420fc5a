INIT Init
NEXT Next
CONSTANTS
  ShellSize = 1
  EventSize <- MCSizes
  PackedSize <- MCPacked
  MaxMessage = 4
  CompressRatio = 2
  MaxSplitDepth = 4
  Payloads <- MCPayloads
  MaxDeliveries = 3
  MaxUploads = 3
  Kinds <- MCKinds
  Queries <- MCQueries
  Size = 2
  MaxDocs = 5
  MaxPage = 3
  Xhr = {1}
  ResponseLimit = 2
  MaxFieldKb = 3
  Sizes = {1, 5}
  Phrase <- MCPhrases
  Reasons <- MCReasons
  Arguments <- MCArguments
  MaxCalls = 2
  FcpThreshold = 25000
  MaxPerfResources = 4
  MaxAnalysed = 2
  MaxListed = 2
  Loads <- MCLoads
  MaxFcpReports = 3
  Path = {"a", "b", "c"}
  BarPages = {"a", "b"}
  MaxEvents = 14
  MaxStack = 3
  MaxClock = 3
  Window = {1}
  App = {"a", "b"}
  Entries = {"DeviceDetail"}
  Slots = {60, 245}
  Drags = {66, 270}
  Tolerance = 5
  Width = 310
  MaxCaptchas = 2
  MaxDrags = 2
  Devices <- MCDevices
  Frames <- MCFrames
  Insets <- MCInsets
  Offsets <- MCOffsets
  HostSupport <- MCHostSupport
  MaxReports = 2
  Files <- MCFiles
  Wishes <- MCWishes
  Tab = {1, 2}
  FirstTab = 1
  MaxLoads = 3
  MaxRecords = 2
  MaxSessions = 1
  Plan = {1, 2}
  Words = {"w"}
  Prints = {"f"}
  Owners = {1, 2}
  Around = 0
  MaxStamp = 2
  MaxStories = 3
  MaxRequests = 1
  Visitors = {1, 2}
  Profiles <- MCProfiles
  Hours = {14, 17}
  FixedDay = {17}
  MaxOpens = 3
  Folder = {1, 2}
  Names = {"x", "y"}
  PageSize = 1
  MaxApps = 1
  MaxLists = 2
  MaxChanges = 4
  Urls <- MCUrls
  TopBars = 2
  MaxQueries = 4
INVARIANTS ReadersAreToldTheTruth RequestsAreReported DerivedDataIsRight ClientIsSetUp ConsoleIsSound
CHECK_DEADLOCK FALSE
