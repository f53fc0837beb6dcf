SPECIFICATION Spec
CONSTANTS
  MaxTasks = 2
  MaxRestarts = 1
  MaxFailedSaves = 0
PROPERTY
  FinishedNotReplaced
CHECK_DEADLOCK FALSE
