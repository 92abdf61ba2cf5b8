----------------------------- MODULE LocalCache -----------------------------
(***************************************************************************)
(* The lock of one channel in controller/src/LocalCache.ts: a Map entry    *)
(* holding the date of the last grant, polled by retry() of utils.ts.  The *)
(* entry names nobody: it expires LockTimeout after the grant, the poller  *)
(* that finds it expired takes it over, unlock() deletes whatever entry is *)
(* there, and a poller that has used up its tries is let in without one.   *)
(*                                                                         *)
(* Dates are ages: every comparison in the code is between now and a date, *)
(* so an age that stops growing one tick past LockTimeout loses nothing.   *)
(* Distinct lock names are distinct Map entries; one name is modelled.     *)
(***************************************************************************)
EXTENDS Integers

CONSTANTS Callers,       \* concurrent requests for the same channel
          NoEntry,       \* the Map has no entry for the name
          LockTimeout,   \* config cache.lockTimeout, in ticks
          LockInterval,  \* config cache.lockInterval, in ticks
          MaxTries       \* the literal 10000 lock() passes to retry()

ASSUME LocalCacheAssumption ==
    /\ LockTimeout \in Nat
    /\ LockInterval \in Nat
    /\ MaxTries \in Nat \ {0}
    /\ NoEntry \notin Nat
    /\ NoEntry \notin Callers

VARIABLES entry,    \* age of locker.get(name), or NoEntry
          pc,       \* "idle", "waiting" inside lock(), "holding" after it
          tries,    \* retry()'s loop counter i
          delay,    \* ticks left of retry()'s sleep(interval)
          setter,   \* history: the caller that wrote entry, or NoEntry
          held,     \* history: ticks since lock() returned to a caller inside
          broken    \* history: see LeaseLock

vars == <<entry, pc, tries, delay, setter, held, broken>>

Expired == LockTimeout + 1
Ages == 0 .. Expired
Older(age) == IF age < Expired THEN age + 1 ELSE age

Holders == {c \in Callers : pc[c] = "holding"}

Init ==
    /\ entry = NoEntry
    /\ pc = [c \in Callers |-> "idle"]
    /\ tries = [c \in Callers |-> 1]
    /\ delay = [c \in Callers |-> 0]
    /\ setter = NoEntry
    /\ held = [c \in Callers |-> 0]
    /\ broken = FALSE
-----------------------------------------------------------------------------
\* A request calls lock(): retry() starts its loop at once (wakeTime is 0).
Lock(c) ==
    /\ pc[c] = "idle"
    /\ pc' = [pc EXCEPT ![c] = "waiting"]
    /\ tries' = [tries EXCEPT ![c] = 1]
    /\ delay' = [delay EXCEPT ![c] = 0]
    /\ UNCHANGED <<entry, setter, held, broken>>

\* Mutant of MayTake: the lease ends one tick early (>= for >).
MayTakeEarly == entry # NoEntry => entry >= LockTimeout

\* The condition of the function lock() hands to retry().
MayTake == entry # NoEntry => entry > LockTimeout

Polls(c) == pc[c] = "waiting" /\ delay[c] = 0

\* lock() returns; the variables of retry() are gone.
Enter(c) ==
    /\ pc' = [pc EXCEPT ![c] = "holding"]
    /\ tries' = [tries EXCEPT ![c] = 1]
    /\ held' = [held EXCEPT ![c] = 0]
    /\ UNCHANGED delay

\* Mutant of Take: locker.set(name, now) is forgotten.
TakeWithoutEntry(c) ==
    /\ Polls(c)
    /\ MayTake
    /\ Enter(c)
    /\ broken' = (broken \/ entry # NoEntry)
    /\ UNCHANGED <<entry, setter>>

\* The poll succeeds: no entry, or one that has expired and is overwritten.
Take(c) ==
    /\ Polls(c)
    /\ MayTake
    /\ Enter(c)
    /\ entry' = 0
    /\ setter' = c
    /\ broken' = (broken \/ entry # NoEntry)

\* Mutant of Retry: i is not incremented.
RetryUncounted(c) ==
    /\ Polls(c)
    /\ ~MayTake
    /\ tries[c] # MaxTries
    /\ delay' = [delay EXCEPT ![c] = LockInterval]
    /\ UNCHANGED <<entry, pc, tries, setter, held, broken>>

\* The poll fails and retry() sleeps before the next one.
Retry(c) ==
    /\ Polls(c)
    /\ ~MayTake
    /\ tries[c] # MaxTries
    /\ tries' = [tries EXCEPT ![c] = @ + 1]
    /\ delay' = [delay EXCEPT ![c] = LockInterval]
    /\ UNCHANGED <<entry, pc, setter, held, broken>>

\* The last poll fails: retry() throws, lock() catches and returns true
\* without writing an entry.
Override(c) ==
    /\ Polls(c)
    /\ ~MayTake
    /\ tries[c] = MaxTries
    /\ Enter(c)
    /\ broken' = TRUE
    /\ UNCHANGED <<entry, setter>>

\* Mutant of Unlock: the entry is left behind.
UnlockLeaky(c) ==
    /\ pc[c] = "holding"
    /\ pc' = [pc EXCEPT ![c] = "idle"]
    /\ held' = [held EXCEPT ![c] = 0]
    /\ broken' = (broken /\ Holders # {c})
    /\ UNCHANGED <<entry, tries, delay, setter>>

\* unlock() deletes the entry, whoever wrote it.
Unlock(c) ==
    /\ pc[c] = "holding"
    /\ pc' = [pc EXCEPT ![c] = "idle"]
    /\ entry' = NoEntry
    /\ setter' = NoEntry
    /\ held' = [held EXCEPT ![c] = 0]
    /\ broken' = (broken /\ Holders # {c})
    /\ UNCHANGED <<tries, delay>>

\* The poll lets in a caller with no await between lock() and unlock(), which
\* teardown is: whether it writes the entry or not, there is none when it is out.
Pass(c) ==
    /\ Polls(c)
    /\ MayTake \/ tries[c] = MaxTries
    /\ pc' = [pc EXCEPT ![c] = "idle"]
    /\ entry' = NoEntry
    /\ setter' = NoEntry
    /\ tries' = [tries EXCEPT ![c] = 1]
    /\ broken' = ((broken \/ entry # NoEntry) /\ Holders # {})
    /\ UNCHANGED <<delay, held>>

\* Time passes; nothing in the code makes an overdue timer run on the tick.
Tick ==
    /\ entry' = IF entry = NoEntry THEN NoEntry ELSE Older(entry)
    /\ delay' = [c \in Callers |-> IF delay[c] = 0 THEN 0 ELSE delay[c] - 1]
    /\ held' = [c \in Callers |-> IF pc[c] = "holding" THEN Older(held[c]) ELSE 0]
    /\ UNCHANGED <<pc, tries, setter, broken>>

Poll(c) == Take(c) \/ Retry(c) \/ Override(c) \/ Pass(c)

Next == Tick \/ \E c \in Callers : Lock(c) \/ Poll(c) \/ Unlock(c)

Spec == Init /\ [][Next]_vars

\* Timers fire and the event loop runs what is due.  No fairness on Unlock:
\* the critical section of setup awaits HTTP calls that have no timeout.
Fairness == WF_vars(Tick) /\ \A c \in Callers : WF_vars(Poll(c))

FairSpec == Spec /\ Fairness
-----------------------------------------------------------------------------
\* The variables have their types.
TypeOK ==
    /\ entry \in Ages \cup {NoEntry}
    /\ pc \in [Callers -> {"idle", "waiting", "holding"}]
    /\ tries \in [Callers -> 1 .. MaxTries]
    /\ delay \in [Callers -> 0 .. LockInterval]
    /\ setter \in Callers \cup {NoEntry}
    /\ held \in [Callers -> Ages]
    /\ broken \in BOOLEAN

\* An entry never outlives the critical section of the caller that wrote it,
\* in spite of take-overs, of unlock() deleting another caller's entry and of
\* callers that hold the lock without an entry: the lock cannot be left locked
\* with nobody inside.
EntryOwned == entry # NoEntry => setter \in Holders

\* Two callers are inside together only if somebody took over an expired entry
\* or ran out of tries since the lock was last free; no chain of unlock() calls
\* that delete each other's entries lets them meet in any other way, and the
\* damage ends as soon as the lock is free.
MutualExclusion == ~broken => \A c, d \in Holders : c = d

\* While nobody has broken in, a caller that has held the lock for no longer
\* than its lease is joined, for a moment or for longer, only by a caller that
\* ran out of tries.
LeaseHonoured ==
    [][\A c, d \in Callers :
         /\ ~broken
         /\ pc[c] = "holding" /\ held[c] <= LockTimeout
         /\ pc[d] = "waiting" /\ pc'[d] # "waiting"
         => tries[d] = MaxTries]_vars

\* Every lock() returns, even when the holder never calls unlock() and however
\* often other callers get in first.
LockReturns == \A c \in Callers : pc[c] = "waiting" ~> pc[c] # "waiting"

\* The lock implements the abstract one the channel life cycle relies on.
Abstract == INSTANCE LeaseLock WITH owners <- Holders
ImplementsLeaseLock == Abstract!LockSpec
=============================================================================
