SPECIFICATION Spec
CONSTANTS
  g1 = g1
  Streams <- MCStreams
  MaxSessions = 2
INVARIANT
  OpenedSessionLives
CHECK_DEADLOCK FALSE
