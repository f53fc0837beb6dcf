SPECIFICATION Spec
CONSTANTS
  MaxTasks = 2
  MaxRestarts = 0
  MaxFailedSaves = 0
PROPERTY
  CanceledStays
CHECK_DEADLOCK FALSE
