SPECIFICATION Spec
CONSTANT MaxDepth = 5
INVARIANT SourceIsOwn
