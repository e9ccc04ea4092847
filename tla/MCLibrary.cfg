SPECIFICATION Spec
CONSTANTS
  low = low
  node = node
  server = server
  x = x
  y = y
  Classes = {low, node, server}
  LevelOf <- MCLevelOf
  Singletons = {server}
  Connections = {x, y}
  MaxOpens = 2
INVARIANTS
  TypeOK
  LevelsInOrder
  RegisteredIsLoaded
  CleanUnload
SYMMETRY ConnectionSymmetry
CHECK_DEADLOCK FALSE
