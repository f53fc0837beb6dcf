SPECIFICATION FairSpec
CONSTANTS
  j1 = j1
  j2 = j2
  b1 = b1
  q1 = q1
  q2 = q2
  None = None
  Own = Own
  Jobs <- MCJobs
  Uuids <- MCUuids
  Restores <- MCRestores
  MaxBlocks = 2
  MaxRestarts = 1
INVARIANTS
  TypeOK
  StoredIsWhole
  ReportIsTrue
  RestoreReadsOneArchive
PROPERTY
  JobsReport
CHECK_DEADLOCK FALSE
