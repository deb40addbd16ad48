SPECIFICATION Spec
CONSTANTS
  p1 = p1
  p2 = p2
  c1 = c1
  c2 = c2
  Producers <- MCProducers
  Consumers <- MCConsumers
  MaxMessageCount = 1
  Quota = 2
  NoThread = NoThread
  Empty = Empty
SYMMETRY Symmetry
INVARIANT
  QueueBounded
