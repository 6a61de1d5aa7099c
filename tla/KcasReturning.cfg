CONSTANTS
  Threads = {t1, t2}
  Th1 = t1
  Th2 = t2
  Th3 = t3
  Addrs = {0, 1}
  Values = {0, 1}
  Plans <- ReturningPlans
  MaxDepth = 3
  SeqLimit = 16
SPECIFICATION Spec
CHECK_DEADLOCK FALSE
INVARIANTS QuietMemory
