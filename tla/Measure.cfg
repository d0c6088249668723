SPECIFICATION FairSpec
CONSTANTS
    Pieces = 2
    RingPieces = 3
    BufferPieces = 4
    WaitSeconds = 2
    MaxEnergy = 3
    Split = 2
    SampleEvery = 2
    MinutesOfHour = 4
    PacketSamples = 1
    Ranges <- MCRanges
    MaxMinutes = 8
    FirstMinute = 5
    Earlier = {2, 4}
    MaxEvents = 2
INVARIANTS
    HistoryKeepsNewest
    DumpComplete
    StoredFresh
PROPERTIES
    Refreshed
