SPECIFICATION ResetFairSpec
CONSTANTS
    Hours = 6
    Minutes = 3
    Periods <- MCPeriods
    FirstWait = 2
    MaxStall = 4
    MaxFaults = 3
INVARIANTS
    SkipsBounded
PROPERTIES
    KeepsResetting
