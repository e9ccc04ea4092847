CONSTANTS
  Threads = {t1, t2, t3}
  MaxPanics = 3
SPECIFICATION Spec
INVARIANTS GuardsAreSound InitializedOnce
