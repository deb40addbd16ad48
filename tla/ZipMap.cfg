SPECIFICATION Spec
CONSTANTS
  k1 = k1
  k2 = k2
  k3 = k3
  k4 = k4
  v1 = v1
  v2 = v2
  Keys <- MCKeys
  Values <- MCValues
  Hash <- MCHash
  SetHashes <- MCSetHashes
  Size <- MCSize
  Overhead = 3
  MaxIndex = 3
  IndexStep = 2
  MaxSets = 4
  Missing = Missing
  NoKey = NoKey
CHECK_DEADLOCK FALSE
INVARIANTS
  ZipFits
  SoundUntilHoled
PROPERTY
  ImplementsBindings
