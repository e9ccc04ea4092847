CONSTANT UsizeMax = 8
SPECIFICATION CallsSpec
INVARIANTS CountersOK Exclusive NeverPoisonsItself
