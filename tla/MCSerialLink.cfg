SPECIFICATION Spec
CONSTANTS
    W = 8
    Ctl = 4
    MaxLength = 2
    Messages <- MCMessages
    Noise <- MCNoise
    MaxErrors = 3
INVARIANTS
    StoresInBounds
    IntactFrameDelivered
