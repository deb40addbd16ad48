SPECIFICATION Spec
CONSTANTS
  p1 = p1
  p2 = p2
  c1 = c1
  c2 = c2
  Producers <- MCProducers
  Consumers <- MCConsumers
  MaxMessageCount = 2
  Quota = 3
  NoThread = NoThread
  Empty = Empty
SYMMETRY Symmetry
INVARIANTS
  ListsBounded
  NoLostPush
  NoLostRoom
PROPERTY
  ImplementsFifoQueue
