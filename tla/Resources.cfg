SPECIFICATION ResourceSpec
CONSTANTS
  Task = {1, 2}
  Sha = {1, 2, 3}
  Inode = {1, 2, 3, 4, 5}
  Wants <- WantsOf
  Extra <- NoExtra
  Plain = {2}
  Local = {3}
  Scratch <- ScratchOf
  Length = 2
  MaxTries = 3
  MaxAttempts = 2
  MaxTrouble = 2
  a1 = a1
  a2 = a2
  b1 = b1
  s1 = s1
  m = m
  n = n
  s = s
  Runtime = {a1, a2, b1}
  Session = {s1}
  SlotOf <- SlotsOf
  Port = {1, 2}
  HostPort = {3}
  NoInst = NoInst
  Shows = {{a1, a2}, {a1, b1}, {s1}}
  MaxAsks <- AsksOf
  MaxFaults = 1
  w1 = w1
  w2 = w2
  i1 = i1
  MissionTask = {w1, w2}
  Isolated = {i1}
  NoBranch = NoBranch
  ExplicitProject = TRUE
  MaxChanges = 2
  MaxAssigns = 4
  Dir = {"one", "two"}
  Mode = {"default", "accept-all"}
  MaxObjects = 2
  MaxCommands = 3
  File = {"web", "yml"}
  Compose = "yml"
  PartOf <- PartsOf
  Tier = {"source", "chunked", "image", "local", "session"}
  Hand = {1, 2}
  MaxEdits = 2
  MaxClicks = 2
  MaxFailures = 2
  MaxStackClicks = 4
  MaxStackTroubles = 3
  Page = {"index", "asset"}
  MaxProducts = 2
  MaxRevives = 1
  MaxBuildFaults = 1
  MaxReleases = 2
  MaxUpdateFaults = 2
  MaxUpdateRuns = 3
  MaxSettingEdits = 2
  MaxSettingFaults = 1
  Label = {"l"}
  Handshake = {1, 2}
  WebPort = {80, 443}
  AskDeadline = 1
  AskCacheTTL = 1
  MaxNodes = 2
  MaxNodeFaults = 2
INVARIANTS
  ResourceTypeOK
  
  CleanAttemptSucceeds
  
  
  WorkIsKept
  
  UploadsAreTrue
  SettledIsTrue
  ReviveCanServe
  BinaryRemains
  
  NodeIsVouchedFor
CHECK_DEADLOCK FALSE
