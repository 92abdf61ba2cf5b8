CONSTANTS
    Tracks <- Ladder
    Media = "video"
    Accelerated = FALSE
    CorruptFrames = {1}
    MaxOutputs = 4
    MaxSessionOutputs = 4
    MaxPackets = 2
    KeyPackets = {1, 2}
CONSTRAINT NoneFails
SPECIFICATION Spec
INVARIANTS KeyAligned
CHECK_DEADLOCK FALSE
