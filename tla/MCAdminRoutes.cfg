SPECIFICATION AccessSpec
CONSTANTS
  Requests = {"r1", "r2"}
  Hosts = {"lo"}
  Loopback = {"lo"}
  ConfigFiles <- MCConfigFiles
  Atoi <- MCAtoi
  ShortTexts = {}
  Overrides <- MCOverrides
  Sends <- MCSends
  Cost = 1
  IpRate = 1
  IpBurst = 1
  KeyRate = 1
  KeyBurst = 1
  MaxClients = 2
  IpPruneAge = 1
  KeyPruneAge = 1
  AuditMax = 2
  Horizon = 1
  MaxEntries = 2
INVARIANT
  WritesNeedAdmin
CHECK_DEADLOCK FALSE
