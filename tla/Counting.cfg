SPECIFICATION Spec
CONSTANTS
    Increments = 3
    N = 2
    c = 1
    Junk = {0, 1, 7}
    MaxIncs = 3
\* The programs end.
CHECK_DEADLOCK FALSE
INVARIANTS BarrierHolds ReadsAreLinearizable FinalIsExact
PROPERTIES StarvationFree ImplementsSC Finishes
