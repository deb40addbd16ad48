SPECIFICATION FairLogSpec
CONSTANTS
  p1 = p1
  p2 = p2
  Worker = Worker
  Closer = Closer
  Producers <- MCProducers
  Consumers <- MCConsumers
  MaxMessageCount = 2
  Quota = 2
  NoThread = NoThread
  Empty = Empty
  Nul = Nul
  BufferSize = 3
  MaxObjects = 2
  TextLength <- MCTextLength
CHECK_DEADLOCK FALSE
INVARIANTS
  AllWrittenOnce
  FewTorn
  StopAgrees
PROPERTIES
  EntriesWritten
  SleeperReleased
