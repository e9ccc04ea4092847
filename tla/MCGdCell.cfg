CONSTANTS
  Guards = {g1, g2, g3, g4, g5, g6}
  Root = Root
  UsizeMax = 3
SYMMETRY GuardSymmetry
SPECIFICATION Spec
INVARIANTS TypeOK NoAliasing DerefNeverPanics UnboundIsUnreferenced DerivedFromCurrentPtr
PROPERTIES ImplementsReborrowStack PoisonIsFinal
CHECK_DEADLOCK FALSE
