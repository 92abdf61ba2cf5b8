\* Liveness of starts and stops while leases are kept.
CONSTANTS
    None = None
    Variants = {"source"}
    Inputs = {"i1"}
    Profile <- SourceOnly
    Requests <- VideoAndAudio
    Setups = {s1}
    Loops = {l1, l2}
    MaxObjects = 2
    MaxCalls = 1
    MaxPolls = 2
    Reporting = FALSE
    BreakIns = FALSE
SPECIFICATION FairSpec
PROPERTIES StartEnds EmptiedIsRemoved
