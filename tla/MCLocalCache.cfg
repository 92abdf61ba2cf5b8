\* Three requests of one channel: one inside, one that steals, one that meets
\* the entry of the thief.  A lease between one sleep and two, and three tries, let
\* both a take-over and a last try happen; no symmetry, for the liveness checker.
CONSTANTS
    Callers = {c1, c2, c3}
    NoEntry = NoEntry
    LockTimeout = 3
    LockInterval = 2
    MaxTries = 3
SPECIFICATION FairSpec
INVARIANTS EntryOwned MutualExclusion
PROPERTIES LeaseHonoured LockReturns ImplementsLeaseLock
