SPECIFICATION Spec
CONSTANTS
  p1 = p1
  p2 = p2
  k1 = k1
  v1 = v1
  v2 = v2
  Peers <- MCTwoPeers
  Descriptors <- MCOneFd
  Handlers <- MCHandlersTwo
  Commands <- MCAllCommands
  MaxSends = 2
  ClosedLoop = FALSE
  Leaving <- MCFinOrReset
  StaleMasks <- MCClearMasks
  ListenFd <- MCListenFd
  Keys <- MCKeys
  Values <- MCValues
  Missing = Missing
  Junk = Junk
  Nobody = Nobody
  NoEvent = NoEvent
  NoHandler = NoHandler
CHECK_DEADLOCK FALSE
INVARIANTS
  RegistrationsAgree
  ReplyArmed
  NoExtraAnswer
  ClientsMatchSockets
  WriteHandlersAlive
  ReadHandlerReady
  NoBlockingCall
