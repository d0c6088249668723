SPECIFICATION RxFairSpec
CONSTANTS
    Size = 4
    Lo = 2
    Data = {b0, b1}
INVARIANTS
    TakesOnlyQueued
PROPERTIES
    RxFifoSpec
    EveryByteRead
