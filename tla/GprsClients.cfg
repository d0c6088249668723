SPECIFICATION FairSpec
CONSTANTS
    Clients = {"0"}
    PCs = {a, b}
    none = none
    MaxOverlaps = 1
INVARIANTS
    TableIsTrue
    WholeToAsker
PROPERTIES
    ServerTold
