SPECIFICATION FairTempSpec
CONSTANTS
  s1 = s1
  s2 = s2
  q1 = q1
  c1 = c1
  Nobody = Nobody
  Sessions <- MCSessions
  Requests <- MCRequests
  Containers <- MCContainers
  Refs <- OneRef
  ContainerOf <- ToTheContainer
  Top = 3
  Overlay = 2
  Backups = {}
INVARIANTS
  TypeOK
  ServedFromMount
  RefsCountHolders
  TemporaryHasOwner
  NotLeftRunning
PROPERTIES
  ImplementsSharedMount
  WaitersProceed
