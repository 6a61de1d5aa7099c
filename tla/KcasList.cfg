CONSTANTS
  Threads = {t1, t2}
  Keys = {1, 2}
  Nodes = {n1, n2}
  Head = Head
  Tail = Tail
  Null = Null
SPECIFICATION FairSpec
INVARIANTS WellLinked NoDanglingPointer
PROPERTIES ErasedIsFrozen Linearizable CallsReturn
