SPECIFICATION FairSpec
CONSTANTS
  a = a
  b = b
  Objects = {a, b}
  Manuals = {{}, {b}}
  MaxFrames = 3
  MaxRefs = 1
  MaxInitGds = 2
INVARIANTS
  TypeOK
  CountMatchesRefs
  StrongRefsKeepAlive
  BoundIsSafe
PROPERTY
  Reclaimed
CHECK_DEADLOCK FALSE
