SPECIFICATION Spec
CONSTANTS
    Day = 5
    NGroups = 2
    Timers <- MCTimers
    CouBroadcast = 2
    ConsoleLights = {20}
    ClientLights = {20}
INVARIANTS
    RelayFollowsTimers
    CurrentIsTold
PROPERTIES
    FollowsTimers
    SettlesOnTimer
