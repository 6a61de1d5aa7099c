CONSTANTS
  Threads = {t1, t2, t3}
  Th1 = t1
  Th2 = t2
  Th3 = t3
  Addrs = {0, 1}
  Values = {0, 1, 2}
  Plans <- SettlingPlans
  MaxDepth = 3
  SeqLimit = 16
SPECIFICATION FairSpec
CHECK_DEADLOCK FALSE
INVARIANTS QuietMemory
PROPERTIES Linearizable SuccessHoldsAll CallsReturn
