\* Two inputs, their own flavors and a shared one.
CONSTANTS
    None = None
    Variants = {"v1", "v2", "low"}
    Inputs = {"i1", "i2"}
    Profile <- OwnAndShared
    Requests <- TwoInputs
    Setups = {s1}
    Loops = {l1}
    MaxObjects = 2
    MaxCalls = 1
    MaxPolls = 1
    Reporting = FALSE
    BreakIns = FALSE
SPECIFICATION Spec
INVARIANTS NoEmptyVariant
PROPERTIES TeardownIsComplete AudioKeepsVariants
