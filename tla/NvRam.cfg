SPECIFICATION PinSpec
CONSTANTS
    W = 3
    ConfigSize = 2
    TimersSize = 3
    MaxData = 4
    Digits = {"0", "1"}
    PinLength = 2
INVARIANTS
    ConfigSound
    TimersSound
    PinKept
