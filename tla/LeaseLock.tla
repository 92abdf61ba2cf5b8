----------------------------- MODULE LeaseLock -----------------------------
(***************************************************************************)
(* What the controller's per-channel lock promises to its users, BusinessLogic *)
(* setup and teardown: it is a mutex, except for a busy period in which    *)
(* somebody broke in (stole an expired lease or gave up waiting), and the  *)
(* mutex is whole again as soon as nobody is inside.  LocalCache.tla is    *)
(* the detailed lock and implements this module; the channel life cycle is *)
(* built on this module alone.                                             *)
(***************************************************************************)

CONSTANT Callers           \* the requests that use the lock of one channel

VARIABLES owners,          \* callers between their lock() and unlock()
          broken           \* somebody broke in since owners was last empty

lockVars == <<owners, broken>>

LockInit == owners = {} /\ broken = FALSE

\* lock() returns to c in the ordinary way.
Acquire(c) ==
    /\ c \notin owners
    /\ owners = {} \/ broken
    /\ owners' = owners \cup {c}
    /\ UNCHANGED broken

\* lock() returns to c although somebody else is inside.
BreakIn(c) ==
    /\ c \notin owners
    /\ owners # {}
    /\ owners' = owners \cup {c}
    /\ broken' = TRUE

Release(c) ==
    /\ c \in owners
    /\ owners' = owners \ {c}
    /\ broken' = (broken /\ owners' # {})

\* lock() returns to c although somebody else is inside, and c unlocks at once.
\* With nobody inside such a caller changes nothing.
PassThrough(c) ==
    /\ c \notin owners
    /\ owners # {}
    /\ broken' = TRUE
    /\ UNCHANGED owners

LockNext ==
    \E c \in Callers : Acquire(c) \/ BreakIn(c) \/ Release(c) \/ PassThrough(c)

LockSpec == LockInit /\ [][LockNext]_lockVars

\* Two callers are inside together only in a busy period somebody broke into.
MutexUnlessBroken == ~broken => \A c, d \in owners : c = d
=============================================================================
