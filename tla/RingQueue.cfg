SPECIFICATION Spec
CONSTANTS
  a = a
  b = b
  Elements <- MCElements
  NoElement = NoElement
  Capacity = 4
PROPERTY
  ImplementsBoundedFifo
