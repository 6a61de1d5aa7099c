SPECIFICATION FairSpec
CONSTANTS
    NUM_PROCESSES = 2
    Threads = {0, 1}
    Records = {r1, r2}
    BLOCK_SIZE = 2
    NUMBER_OF_EPOCH_BAGS = 3
    NUMBER_OF_ALWAYS_EMPTY_EPOCH_BAGS = 0
    MaxEpoch = 12
    Climbers = 3
    MaxClimbEpoch = 6
\* No operation starts at the last epoch.
CHECK_DEADLOCK FALSE
INVARIANTS NodesBehind
PROPERTIES KeepsPromise EventuallyFreed EpochAdvances
