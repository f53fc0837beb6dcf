SPECIFICATION FairSpec
CONSTANTS
  u1 = u1
  u2 = u2
  t1 = t1
  End = End
  Error = Error
  Subscribers <- MCSubscribers
  Typists <- MCTypists
  MaxPieces = 3
  RingCap = 2
  ChanCap = 2
  StdinCap = 1
INVARIANTS
  TypeOK
  RingInOrder
  ReplayJoinsLive
  ChannelsSafe
PROPERTY
  InputAnswered
