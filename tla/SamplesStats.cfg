\* Five samples in a ring of three; timestamps repeat, skip, jump back and wrap.
CONSTANTS
    HISTORY_SIZE = 3
    HISTORY_DURATION = 2
    Pts = {0, 1, 2, 3}
    Sizes = {1, 2}
    PtsModulus = 8
    MaxSamples = 5
SPECIFICATION Spec
INVARIANTS TypeOK WindowSum WindowExact RateCounted
