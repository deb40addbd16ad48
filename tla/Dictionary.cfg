SPECIFICATION Spec
CONSTANTS
  o1 = o1
  o2 = o2
  k1 = k1
  k2 = k2
  k3 = k3
  v1 = v1
  v2 = v2
  Objects <- MCObjects
  Keys <- MCKeys
  Values <- MCValues
  Hash <- MCHash
  Missing = Missing
  InitialSize = 2
  MaxSize = 4
  AlignedSize <- AlignExpandSize
INVARIANTS
  EntriesInBucket
  UsedCounts
PROPERTY
  ImplementsFiniteMap
