SPECIFICATION FairSpec
CONSTANTS
    a = a
    b = b
    c = c
    Lamps = {a, b, c}
    NoLamp = NoLamp
    RouteTableEntries = 2
    Lists <- MCLists
    PacketRows = 1
    Networks <- MCNetworks
    Batch = 1
    MaxReject = 2
    MinutesPerHour = 1
    BadTimeWork = 3
    ByteValues = 2
    MinuteValues = 16
    StartTime = 2
    ScanTime = 1
    MaxMinutes = 2
    MaxInFlight = 2
    MaxEvents = 3
INVARIANTS
    TableWhole
    HoursEarned
    RejectsListed
PROPERTIES
    ConnectedSettles
