CONSTANTS
    Tracks <- Ladder
    Media = "video"
    Accelerated = FALSE
    CorruptFrames = {2}
    MaxOutputs = 4
    MaxSessionOutputs = 4
    MaxPackets = 2
    KeyPackets = {1}
CONSTRAINT OneFails
SPECIFICATION Spec
INVARIANTS TypeOK NothingLost FlushIsComplete
CHECK_DEADLOCK FALSE
