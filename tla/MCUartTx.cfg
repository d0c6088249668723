SPECIFICATION TxFairSpec
CONSTANTS
    Size = 4
    Lo = 2
    Data = {b0, b1}
INVARIANTS
    NoLostWakeup
PROPERTIES
    TxFifoSpec
    EveryByteSent
    PutCharReturns
