SPECIFICATION FairSpec
CONSTANTS
    DeviceVersion = 14
    AuthScheme = TRUE
    Diversity = TRUE
    MaxVersionRetries = 3
    MaxAddressRetries = 3
    CommsLimit = 5
    PingInterval = 2
    Prompt = TRUE
    MaxQueue = 3
    MaxEvents = 3
INVARIANTS
    RunningIsIdentified
    RunsConfigured
PROPERTIES
    DeadModuleNoticed
    ComesUp
