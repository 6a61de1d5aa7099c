CONSTANTS
  Threads = {t1, t2}
  NoThread = NoThread
  MinKey = 1
  MaxKey = 5
  TableSizes = {2, 5}
  Hash <- MCHash
  Full = 2
  LongProbe = 1
  MAX_RETRIES = 2
  Addresses = {1, 2, 3, 4}
  Root = Root
  Low = Low
  High = High
  NULL = NULL
  Cells = {1, 2, 3, 4, 5, 6}
  Holder = Holder
  Programs = {"avl"}
  Plans <- DamagePlans
SPECIFICATION Spec
CHECK_DEADLOCK FALSE
INVARIANTS DamageIsRepaired
