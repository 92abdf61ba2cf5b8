\* Two setups and a teardown: one inside, one that robs it or gives up polling,
\* one that passes through beside them.  The lease ends with the tick, and the
\* first poll that fails before it does is the last.  Two loops, for a start to be
\* begun again while the old one sleeps; two objects, for the grace timer to
\* remove one that is in use.  The calls to the backend are left out.
CONSTANTS
    NoEntry = NoEntry
    LockTimeout = 0
    LockInterval = 1
    MaxTries = 1
    None = None
    Variants = {"source"}
    Inputs = {"i1"}
    Profile <- SourceOnly
    Requests <- VideoRequest
    Setups = {s1, s2}
    Teardowns = {t1}
    Loops = {l1, l2}
    MaxObjects = 2
    MaxCalls = 1
    MaxPolls = 1
    Reporting = FALSE
SYMMETRY SlotSymmetry
SPECIFICATION Spec
INVARIANTS TypeOK StopSparesPlayable PendingIsPolled PendingHasOutputs PlayableIsCurrent EmptiedIsTimed
PROPERTIES ImplementsChannels
