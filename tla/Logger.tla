------------------------------- MODULE Logger -------------------------------
(***************************************************************************)
(* The lock of the transcoder's logger (logger.c).  It is recursive, so    *)
(* that the SIGINT handler can log while the main thread it interrupted is *)
(* logging; log_init initialises it again, whoever holds or awaits it.     *)
(* The handler and the rest of the main thread are two callers of one      *)
(* thread.                                                                 *)
(***************************************************************************)
EXTENDS Naturals, FiniteSets

VARIABLES
    log,     \* where each caller is in logger2: "out", "waits" or "in"
    owner,   \* logger_locker: the thread that holds it, or "none"
    count,   \* how often it does
    lost,    \* who sleeps on a lock that was initialised meanwhile
    torn     \* history: log_init met somebody inside or waiting

logVars == <<log, owner, count, lost, torn>>

Callers == {"main", "handler", "http", "streamer"}
Thread(c) == IF c = "handler" THEN "main" ELSE c

LogInitially ==
    /\ log = [c \in Callers |-> "out"]
    /\ owner = "none" /\ count = 0
    /\ lost = {} /\ torn = FALSE

LogCalled(c) ==
    /\ log[c] = "out"
    /\ log' = [log EXCEPT ![c] = "waits"]
    /\ UNCHANGED <<owner, count, lost, torn>>

\* Mutant of MayLock: the mutex is not recursive.
MayLockOnce(c) == owner = "none"

MayLock(c) == owner \in {"none", Thread(c)}

\* One of lost may be woken on behalf of another waiter, but nothing says so.
LogEnters(c) ==
    /\ log[c] = "waits" /\ MayLock(c)
    /\ log' = [log EXCEPT ![c] = "in"]
    /\ owner' = Thread(c) /\ count' = count + 1
    /\ lost' = lost \ {c}
    /\ UNCHANGED torn

\* Mutant of LogLeaves: nobody asks whose lock it is.
LogLeavesAnyway(c) ==
    /\ log[c] = "in"
    /\ log' = [log EXCEPT ![c] = "out"]
    /\ owner' = "none" /\ count' = 0
    /\ UNCHANGED <<lost, torn>>

\* To unlock a recursive mutex one does not hold fails and wakes nobody.
LogLeaves(c) ==
    /\ log[c] = "in"
    /\ log' = [log EXCEPT ![c] = "out"]
    /\ IF owner = Thread(c)
       THEN count' = count - 1 /\ owner' = IF count = 1 THEN "none" ELSE owner
       ELSE UNCHANGED <<owner, count>>
    /\ UNCHANGED <<lost, torn>>

\* log_init: undefined for a mutex in use; with futexes the memory is cleared,
\* who is inside stays there and who sleeps on it is forgotten.
LogInit ==
    /\ owner' = "none" /\ count' = 0
    /\ lost' = lost \cup {c \in Callers : log[c] = "waits" /\ ~MayLock(c)}
    /\ torn' = (torn \/ \E c \in Callers : log[c] # "out")
    /\ UNCHANGED log

\* A signal ends the sleep of the main thread, which then looks at the lock again.
LogAwakes == lost' = lost \ {"main"} /\ UNCHANGED <<log, owner, count, torn>>

LogTypeOK ==
    /\ log \in [Callers -> {"out", "waits", "in"}]
    /\ owner \in {"none", "main", "http", "streamer"}
    /\ count \in 0 .. 2
    /\ lost \subseteq Callers /\ torn \in BOOLEAN

\* "lock the critical section": unless the lock was initialised under somebody,
\* one thread at a time writes a line, and the lock is free when none does.
LogExclusive ==
    LET inside == {c \in Callers : log[c] = "in"}
    IN ~torn => /\ {Thread(c) : c \in inside} \subseteq {owner}
                /\ count = Cardinality(inside)
                /\ owner = "none" <=> inside = {}
=============================================================================
