SPECIFICATION Spec
CONSTANT MaxDepth = 7
INVARIANTS
  TypeOK
  TlsMatchesStack
  SilencedErrorIsPending
