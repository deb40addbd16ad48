SPECIFICATION Spec
CONSTANTS
  s1 = s1
  s2 = s2
  a = a
  A = A
  nul = nul
  Strings <- MCStrings
  Bytes <- MCBytes
  Nul = nul
  Inputs <- MCInputs
  Rooms <- MCRooms
  CaseMaps <- MCCaseMaps
  Word = 100
  MaxLength = 3
SYMMETRY Symmetry
CHECK_DEADLOCK FALSE
INVARIANTS
  Terminated
  AstrayExplained
  CutsExact
PROPERTIES
  RoomPromised
  ImplementsTexts
