CONSTANTS
  Threads = {t1}
  NoThread = NoThread
  MinKey = 1
  MaxKey = 2
  TableSizes = {2, 5}
  Hash <- MCHash
  Full = 2
  LongProbe = 1
  MAX_RETRIES = 2
  Addresses = {1, 2, 3, 4, 5, 6}
  Root = Root
  Low = Low
  High = High
  NULL = NULL
  Cells = {1, 2}
  Holder = Holder
  Programs = {"prealloc"}
  Plans <- MCPlans
SPECIFICATION Spec
CHECK_DEADLOCK FALSE
PROPERTIES InsertsOnce
