SPECIFICATION FairSpec
CONSTANTS
  MaxTasks = 2
  MaxRestarts = 1
  MaxFailedSaves = 1
INVARIANTS
  TypeOK
  FinishedIsDurable
  CancelReachesJob
  AnnouncedAsListed
  RetryOverlapsOnlyCanceled
PROPERTY
  EveryTaskAnnounced
CHECK_DEADLOCK FALSE
