SPECIFICATION FrontSpec
CONSTANTS
  c1 = c1
  r1 = r1
  r2 = r2
  Conns = {c1}
  Requests = {r1, r2}
  Only = r1
  Hosts = {"h1", "h2", "lo"}
  Loopback = {"lo"}
  ConfigFiles <- MCConfigFiles
  WrittenFiles <- MCWrittenFiles
  Atoi <- MCAtoi
  ShortTexts <- MCShortTexts
  Overrides <- MCOverrides
  Sends <- MCSends
  Cost = 2
  IpRate = 1
  IpBurst = 3
  KeyRate = 2
  KeyBurst = 3
  MaxClients = 1
  IpPruneAge = 3
  KeyPruneAge = 2
  AuditMax = 1
  Horizon = 4
  MaxEntries = 3
  PanelTokens <- MCPanelTokens
  MaxTTL = 4
  Skew = 0
  Server = "srv"
  Warning = 1
  EndTime = 3
  Names = {"r", "..", "b", "o", "n"}
  Paths <- MCPaths
  Targets <- MCTargets
  Outside <- MCOutside
  Depth = 3
  Lookups = 12
INVARIANTS
  TypesOK
  AcceptedAsWritten
  Throttled
  KnownBuckets
  AuditComplete
  OneCloseFrame
  FlagMeansFrame
  CloseIsComplete
  DriveGranted
  ServedInside
PROPERTY
  ExpiredIsClosed
CHECK_DEADLOCK FALSE
