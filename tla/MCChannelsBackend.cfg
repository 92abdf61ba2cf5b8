\* The calls to the backend: one video input, one polling loop, kept leases.
CONSTANTS
    None = None
    Variants = {"source"}
    Inputs = {"i1"}
    Profile <- SourceOnly
    Requests <- VideoRequest
    Setups = {s1}
    Loops = {l1}
    MaxObjects = 2
    MaxCalls = 1
    MaxPolls = 1
    Reporting = TRUE
    BreakIns = FALSE
SPECIFICATION Spec
INVARIANTS BackendAgrees
