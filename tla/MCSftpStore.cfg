SPECIFICATION Spec
CONSTANTS
  h1 = h1
  h2 = h2
  u1 = u1
  u2 = u2
  c1 = c1
  c2 = c2
  None = None
  Torn = Torn
  Empty = Empty
  Handlers <- MCHandlers
  Usernames <- MCUsernames
  Containers <- MCContainers
  MaxRestarts = 1
SYMMETRY MCSymmetry
INVARIANTS
  TypeOK
  AnsweredIsSaved
