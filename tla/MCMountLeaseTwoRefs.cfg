SPECIFICATION Spec
CONSTANTS
  s1 = s1
  s2 = s2
  q1 = q1
  c1 = c1
  Nobody = Nobody
  Sessions <- MCSessions
  Requests <- MCRequests
  Containers <- MCContainers
  Refs <- TwoRefs
  ContainerOf <- ToTheContainer
  Top = 3
  Overlay = 2
INVARIANTS
  ServedFromMount
