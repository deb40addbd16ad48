SPECIFICATION FairSpec
CONSTANTS
  p1 = p1
  p2 = p2
  k1 = k1
  v1 = v1
  v2 = v2
  Peers <- MCTwoPeers
  Descriptors <- MCTwoFds
  Handlers <- MCHandlersTwo
  Commands <- MCWholeCommands
  MaxSends = 2
  ClosedLoop = TRUE
  Leaving <- MCFinOrReset
  StaleMasks <- MCClearMasks
  ListenFd <- MCListenFd
  Keys <- MCKeys
  Values <- MCValues
  Missing = Missing
  Junk = Junk
  Nobody = Nobody
  NoEvent = NoEvent
  NoHandler = NoHandler
CHECK_DEADLOCK FALSE
INVARIANT
  StaysUp
PROPERTIES
  ImplementsTable
  SetAnswered
