CONSTANTS
    Tracks <- Mixed
    Media = "video"
    Accelerated = TRUE
    CorruptFrames = {2}
    MaxOutputs = 3
    MaxSessionOutputs = 3
    MaxPackets = 1
    KeyPackets = {1}
SPECIFICATION Spec
INVARIANTS SoftwareFramesInCpuMemory
CHECK_DEADLOCK FALSE
