CONSTANTS
  NUM_PROCESSES = 2
  Records = {r1}
  MIN_OPS_BEFORE_READ = 1
  NUMBER_OF_EPOCH_BAGS = 9
  NUMBER_OF_ALWAYS_EMPTY_EPOCH_BAGS = 3
  Hands = 2
  MaxEpoch = 14
SPECIFICATION Spec
CHECK_DEADLOCK FALSE
INVARIANTS NoUseAfterFree EpochWaits RetiredOnce
PROPERTY KeepsPromise
