SPECIFICATION FairSpec
CONSTANTS
  g1 = g1
  Streams <- MCStreams
  MaxSessions = 2
INVARIANTS
  TypeOK
  LiveIsPublished
PROPERTIES
  ClosedIsCleanedUp
  EndReachesClient
CHECK_DEADLOCK FALSE
