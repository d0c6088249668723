SPECIFICATION ClockFairSpec
CONSTANTS
    Last <- MCLast
    Times <- MCTimes
    BufferSize = 8
    Default <- MCDefault
    MaxFaults = 1
PROPERTIES
    TimeIsTrue
    SetsWhole
    Returns
