CONSTANTS
  Threads = {t1, t2}
  MinKey = 1
  MaxKey = 2
  Calls <- MCCalls
  Leaves = {l1, l2}
  Internals = {i1, i2}
  Root = Root
  Low = Low
  High = High
  Null = Null
  Allocator <- AnyOne
SPECIFICATION FairSpec
INVARIANTS SearchTree NoDanglingPointer
PROPERTIES ErasedIsFrozen Linearizable CallsReturn
