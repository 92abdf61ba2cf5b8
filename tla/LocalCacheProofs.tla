-------------------------- MODULE LocalCacheProofs --------------------------
(***************************************************************************)
(* The lock of LocalCache.tla for any number of callers and any timeouts.  *)
(* The safety properties follow from one inductive invariant, IInv: the    *)
(* entry belongs to a caller that is inside, and while nobody has broken   *)
(* in that caller is alone and the entry is as old as its stay.            *)
(***************************************************************************)
EXTENDS LocalCache, TLAPS

\* While nobody has broken in, a caller inside is the one that wrote the entry,
\* and the age of the entry is the time since it was let in.
SoleOwner ==
    ~broken => \A c \in Holders : setter = c /\ entry = held[c]

\* The damage ends when the lock is free.
IdleUnbroken == Holders = {} => ~broken

IInv == TypeOK /\ EntryOwned /\ SoleOwner /\ IdleUnbroken

USE LocalCacheAssumption DEF LocalCacheAssumption

LEMMA FirstAge == 0 \in Ages
  BY DEF Ages, Expired

\* An age is an age after a tick.
LEMMA OlderType == ASSUME NEW a \in Ages PROVE Older(a) \in Ages
  BY DEF Older, Ages, Expired

\* Every variable keeps its type: the retry counter stays below the number of
\* tries, the ages saturate.
THEOREM TypeCorrect == Spec => []TypeOK
<1>1. Init => TypeOK
  <2>1. 0 \in Ages /\ 1 \in 1 .. MaxTries /\ 0 \in 0 .. LockInterval
    BY DEF Ages, Expired
  <2> QED
    BY <2>1 DEF Init, TypeOK
<1>2. TypeOK /\ [Next]_vars => TypeOK'
  <2> SUFFICES ASSUME TypeOK, [Next]_vars PROVE TypeOK'
    OBVIOUS
  <2>1. CASE Tick
    <3>1. entry' \in Ages \cup {NoEntry}
      BY <2>1, OlderType DEF Tick, TypeOK
    <3>2. held' \in [Callers -> Ages]
      BY <2>1, OlderType, FirstAge DEF Tick, TypeOK
    <3>3. delay' \in [Callers -> 0 .. LockInterval]
      BY <2>1 DEF Tick, TypeOK
    <3> QED
      BY <2>1, <3>1, <3>2, <3>3 DEF Tick, TypeOK
  <2>2. ASSUME NEW c \in Callers, Lock(c) PROVE TypeOK'
    BY <2>2 DEF Lock, TypeOK
  <2>3. ASSUME NEW c \in Callers, Take(c) PROVE TypeOK'
    BY <2>3 DEF Take, Enter, TypeOK, Ages, Expired
  <2>4. ASSUME NEW c \in Callers, Retry(c) PROVE TypeOK'
    BY <2>4 DEF Retry, TypeOK
  <2>5. ASSUME NEW c \in Callers, Override(c) PROVE TypeOK'
    BY <2>5 DEF Override, Enter, TypeOK, Ages, Expired
  <2>6. ASSUME NEW c \in Callers, Unlock(c) PROVE TypeOK'
    BY <2>6, FirstAge DEF Unlock, TypeOK
  <2>7. ASSUME NEW c \in Callers, Pass(c) PROVE TypeOK'
    BY <2>7 DEF Pass, TypeOK
  <2>8. CASE UNCHANGED vars
    BY <2>8 DEF vars, TypeOK
  <2> QED
    BY <2>1, <2>2, <2>3, <2>4, <2>5, <2>6, <2>7, <2>8 DEF Next, Poll
<1> QED
  BY <1>1, <1>2, PTL DEF Spec

\* The inductive step of IInv, apart from its typing.
LEMMA OwnershipStep ==
  ASSUME IInv, TypeOK', [Next]_vars
  PROVE  (EntryOwned /\ SoleOwner)'
<1> USE DEF IInv, EntryOwned, SoleOwner, Holders
<1>1. CASE Tick
  <2>1. entry' = NoEntry <=> entry = NoEntry
    BY <1>1, OlderType DEF Tick, TypeOK, Ages
  <2>2. EntryOwned'
    BY <1>1, <2>1 DEF Tick
  <2>3. ASSUME ~broken', NEW c \in Holders' PROVE setter' = c /\ entry' = held'[c]
    <3>1. c \in Callers /\ setter = c /\ entry = held[c]
      BY <1>1, <2>3 DEF Tick
    <3>2. entry # NoEntry
      BY <3>1 DEF TypeOK, Ages
    <3> QED
      BY <1>1, <3>1, <3>2 DEF Tick
  <2> QED
    BY <2>2, <2>3
<1>2. ASSUME NEW c \in Callers, Lock(c) PROVE (EntryOwned /\ SoleOwner)'
  BY <1>2 DEF Lock, TypeOK
<1>3. ASSUME NEW c \in Callers, Take(c) PROVE (EntryOwned /\ SoleOwner)'
  <2>1. Holders' = Holders \cup {c} /\ pc'[c] = "holding" /\ held'[c] = 0
    BY <1>3 DEF Take, Enter, TypeOK
  <2>2. broken' \/ Holders = {}
    <3>1. CASE entry # NoEntry
      BY <1>3, <3>1 DEF Take
    <3>2. CASE entry = NoEntry
      BY <1>3, <3>2 DEF Take, TypeOK, Ages
    <3> QED
      BY <3>1, <3>2
  <2> QED
    BY <1>3, <2>1, <2>2 DEF Take
<1>4. ASSUME NEW c \in Callers, Retry(c) PROVE (EntryOwned /\ SoleOwner)'
  BY <1>4 DEF Retry, TypeOK
<1>5. ASSUME NEW c \in Callers, Override(c) PROVE (EntryOwned /\ SoleOwner)'
  BY <1>5 DEF Override, Enter, Polls, TypeOK
<1>6. ASSUME NEW c \in Callers, Unlock(c) PROVE (EntryOwned /\ SoleOwner)'
  BY <1>6 DEF Unlock, TypeOK
<1>7. ASSUME NEW c \in Callers, Pass(c) PROVE (EntryOwned /\ SoleOwner)'
  <2>1. Holders' = Holders /\ entry' = NoEntry
    BY <1>7 DEF Pass, Polls, TypeOK
  <2>2. CASE Holders = {}
    BY <2>1, <2>2
  <2>3. CASE Holders # {}
    <3>1. broken \/ entry # NoEntry
      BY <2>3 DEF TypeOK, Ages
    <3>2. broken'
      BY <1>7, <2>3, <3>1, Zenon DEF Pass
    <3> QED
      BY <2>1, <3>2
  <2> QED
    BY <2>2, <2>3
<1>8. CASE UNCHANGED vars
  BY <1>8 DEF vars
<1> QED
  BY <1>1, <1>2, <1>3, <1>4, <1>5, <1>6, <1>7, <1>8 DEF Next, Poll

\* The inductive step of IdleUnbroken.
LEMMA IdleStep ==
  ASSUME IInv, [Next]_vars
  PROVE  IdleUnbroken'
<1>1. CASE Tick \/ UNCHANGED vars
  BY <1>1 DEF Tick, vars, IInv, IdleUnbroken, Holders
<1>2. ASSUME NEW c \in Callers, Lock(c) \/ Retry(c) PROVE IdleUnbroken'
  BY <1>2 DEF Lock, Retry, Polls, IInv, IdleUnbroken, Holders, TypeOK
<1>3. ASSUME NEW c \in Callers, Take(c) \/ Override(c) PROVE IdleUnbroken'
  BY <1>3 DEF Take, Override, Enter, IInv, IdleUnbroken, Holders, TypeOK
<1>4. ASSUME NEW c \in Callers, Unlock(c) PROVE IdleUnbroken'
  <2>1. Holders' = Holders \ {c} /\ c \in Holders
    BY <1>4 DEF Unlock, IInv, Holders, TypeOK
  <2>2. ASSUME Holders' = {} PROVE Holders = {c}
    BY <2>1, <2>2
  <2> QED
    BY <1>4, <2>2, Zenon DEF Unlock, IdleUnbroken
<1>5. ASSUME NEW c \in Callers, Pass(c) PROVE IdleUnbroken'
  <2>1. Holders' = Holders
    BY <1>5 DEF Pass, Polls, IInv, Holders, TypeOK
  <2> QED
    BY <1>5, <2>1, Zenon DEF Pass, IdleUnbroken
<1> QED
  BY <1>1, <1>2, <1>3, <1>4, <1>5 DEF Next, Poll

\* The strengthened invariant of LocalCache.
THEOREM Invariant == Spec => []IInv
<1>1. Init => EntryOwned /\ SoleOwner /\ IdleUnbroken
  BY DEF Init, EntryOwned, SoleOwner, IdleUnbroken, Holders
<1>2. IInv /\ TypeOK' /\ [Next]_vars => IInv'
  BY OwnershipStep, IdleStep DEF IInv
<1>3. TypeOK /\ EntryOwned /\ SoleOwner /\ IdleUnbroken <=> IInv
  BY DEF IInv
<1> QED
  BY <1>1, <1>2, <1>3, TypeCorrect, PTL DEF Spec

\* A lock entry never outlives the critical section of its writer.
THEOREM NoLeakedLock == Spec => []EntryOwned
  BY Invariant, PTL DEF IInv

\* Callers meet inside only after somebody broke in.
THEOREM Exclusion == Spec => []MutualExclusion
<1>1. IInv => MutualExclusion
  BY DEF IInv, SoleOwner, MutualExclusion
<1> QED
  BY <1>1, Invariant, PTL

\* A caller within its lease is joined only by one that ran out of tries.
THEOREM Lease == Spec => LeaseHonoured
<1>1. IInv /\ [Next]_vars =>
        [\A c, d \in Callers :
           /\ ~broken
           /\ pc[c] = "holding" /\ held[c] <= LockTimeout
           /\ pc[d] = "waiting" /\ pc'[d] # "waiting"
           => tries[d] = MaxTries]_vars
  <2> SUFFICES ASSUME IInv, Next, NEW c \in Callers, NEW d \in Callers,
                      ~broken, pc[c] = "holding", held[c] <= LockTimeout,
                      pc[d] = "waiting", pc'[d] # "waiting"
               PROVE  tries[d] = MaxTries
    OBVIOUS
  <2>1. ~MayTake
    BY DEF IInv, SoleOwner, Holders, MayTake, TypeOK, Ages
  <2>2. Poll(d)
    BY DEF Next, Tick, Lock, Poll, Take, Retry, Override, Pass, Unlock, Enter,
           Polls, IInv, TypeOK
  <2> QED
    BY <2>1, <2>2 DEF Poll, Take, Retry, Override, Pass, IInv, TypeOK
<1> QED
  BY <1>1, Invariant, PTL DEF Spec, LeaseHonoured

\* The lock implements LeaseLock: taking a free entry, taking one over, running
\* out of tries, passing through and unlocking are steps of the abstract lock, the
\* rest stutters.
THEOREM Implementation == Spec => ImplementsLeaseLock
<1> USE DEF Abstract!lockVars
<1>1. Init => Abstract!LockInit
  BY DEF Init, Abstract!LockInit, Holders
<1>2. IInv /\ [Next]_vars => [Abstract!LockNext]_(Abstract!lockVars)
  <2> SUFFICES ASSUME IInv, [Next]_vars
               PROVE  [Abstract!LockNext]_(Abstract!lockVars)
    OBVIOUS
  <2> USE DEF IInv, Abstract!LockNext
  <2>1. CASE Tick \/ UNCHANGED vars
    BY <2>1 DEF Tick, vars, Holders
  <2>2. ASSUME NEW c \in Callers, Lock(c) \/ Retry(c)
        PROVE  UNCHANGED <<Holders, broken>>
    BY <2>2 DEF Lock, Retry, Polls, Holders, TypeOK
  <2>3. ASSUME NEW c \in Callers, Take(c) \/ Override(c)
        PROVE  c \notin Holders /\ Holders' = Holders \cup {c}
    BY <2>3 DEF Take, Override, Enter, Polls, Holders, TypeOK
  <2>4. ASSUME NEW c \in Callers, Take(c)
        PROVE  Abstract!Acquire(c) \/ Abstract!BreakIn(c)
    <3>1. CASE entry = NoEntry
      <4>1. Holders = {} \/ broken
        BY <3>1 DEF SoleOwner, Holders, TypeOK, Ages
      <4> QED
        BY <2>3, <2>4, <3>1, <4>1 DEF Take, Abstract!Acquire, TypeOK
    <3>2. CASE entry # NoEntry
      <4>1. Holders # {}
        BY <3>2 DEF EntryOwned
      <4> QED
        BY <2>3, <2>4, <3>2, <4>1 DEF Take, Abstract!BreakIn
    <3> QED
      BY <3>1, <3>2
  <2>5. ASSUME NEW c \in Callers, Override(c) PROVE Abstract!BreakIn(c)
    <3>1. Holders # {}
      BY <2>5 DEF Override, MayTake, EntryOwned
    <3> QED
      BY <2>3, <2>5, <3>1 DEF Override, Abstract!BreakIn
  <2>6. ASSUME NEW c \in Callers, Unlock(c) PROVE Abstract!Release(c)
    <3>1. c \in Holders /\ Holders' = Holders \ {c}
      BY <2>6 DEF Unlock, Holders, TypeOK
    <3> QED
      BY <2>6, <3>1 DEF Unlock, Abstract!Release
  <2>7. ASSUME NEW c \in Callers, Pass(c)
        PROVE  Abstract!PassThrough(c) \/ UNCHANGED <<Holders, broken>>
    <3>1. c \notin Holders /\ Holders' = Holders
      BY <2>7 DEF Pass, Polls, Holders, TypeOK
    <3>2. Holders = {} => ~broken /\ ~broken'
      BY <2>7 DEF Pass, IdleUnbroken
    <3>3. Holders # {} /\ ~broken => entry # NoEntry
      BY DEF SoleOwner, Holders, TypeOK, Ages
    <3> QED
      BY <2>7, <3>1, <3>2, <3>3 DEF Pass, Abstract!PassThrough, TypeOK
  <2> QED
    BY <2>1, <2>2, <2>4, <2>5, <2>6, <2>7 DEF Next, Poll
<1> QED
  BY <1>1, <1>2, Invariant, PTL DEF Spec, ImplementsLeaseLock, Abstract!LockSpec
=============================================================================
