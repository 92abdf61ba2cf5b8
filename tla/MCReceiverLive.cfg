CONSTANTS
    Tracks <- Simple
    Media = "audio"
    Accelerated = FALSE
    CorruptFrames = {2}
    MaxOutputs = 4
    MaxSessionOutputs = 2
    MaxPackets = 2
    KeyPackets = {1}
SPECIFICATION FairSpec
INVARIANTS FlushIsComplete
PROPERTIES ImplementsKmp StreamEnds
CHECK_DEADLOCK FALSE
