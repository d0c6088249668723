SPECIFICATION FairSpec
CONSTANTS
    MAX_TIME_NO_CONNECT = 6
    RoundsPerMinute = 4
    MaxFaults = 1
    MaxResets = 1
INVARIANTS
    OneReader
    NestingBounded
PROPERTIES
    NeverCutWhileServing
    ComesUp
