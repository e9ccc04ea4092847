CONSTANTS
  Guards = {g1, g2, g3}
  Root = Root
  UsizeMax = 9
SPECIFICATION Spec
INVARIANT DropCausesNoUB
CHECK_DEADLOCK FALSE
