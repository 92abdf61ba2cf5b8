\* One SIGINT at any moment; the file is begun three times, or until its duration is reached.
CONSTANTS
    Buffers = {b1, b2}
    NULL = NULL
    MaxInterrupts = 1
    File <- MCFile
    ActiveStream = 0
    Durations <- MCDurations
    MaxBase = 1
SPECIFICATION FairTranscoder
INVARIANTS TTypeOK CopiesLive Accounted StreamerAlive LogExclusive
PROPERTIES RequestAnswered  Ends
CHECK_DEADLOCK FALSE
