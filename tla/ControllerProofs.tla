-------------------------- MODULE ControllerProofs --------------------------
(***************************************************************************)
(* The controller of Controller.tla implements Channels.tla for any lease, *)
(* tries and requests.  Its steps are steps of the lock, so the invariant  *)
(* of LocalCacheProofs holds in it; by that, a request enters only as the  *)
(* abstract lock lets it.  With the refinement, what ChannelsProofs proves *)
(* carries over.  Both are instantiated a second time, for their theorems. *)
(***************************************************************************)
EXTENDS Controller, TLAPS

lock == INSTANCE LocalCacheProofs WITH Callers <- Setups \cup Teardowns
chan == INSTANCE ChannelsProofs WITH owners <- cache!Holders, BreakIns <- TRUE
-----------------------------------------------------------------------------
(* The lock in the controller.                                              *)

LEMMA SameHelpers ==
  /\ lock!Holders = cache!Holders /\ lock!Holders' = cache!Holders'
  /\ lock!MayTake = cache!MayTake
  /\ \A age : lock!Older(age) = cache!Older(age)
  /\ \A c : lock!Polls(c) = cache!Polls(c) /\ lock!Enter(c) = cache!Enter(c)
  BY DEF lock!Holders, cache!Holders, lock!MayTake, cache!MayTake, lock!Older, cache!Older,
         lock!Expired, cache!Expired, lock!Polls, cache!Polls, lock!Enter, cache!Enter

\* The steps of the cache are those LocalCacheProofs speaks of.
LEMMA SameCache ==
  /\ cache!Tick => lock!Tick
  /\ \A c : /\ cache!Lock(c) => lock!Lock(c)
            /\ cache!Take(c) => lock!Take(c)
            /\ cache!Retry(c) => lock!Retry(c)
            /\ cache!Override(c) => lock!Override(c)
            /\ cache!Pass(c) => lock!Pass(c)
            /\ cache!Unlock(c) => lock!Unlock(c)
<1>1. cache!Tick => lock!Tick
  BY SameHelpers DEF cache!Tick, lock!Tick
<1> SUFFICES ASSUME NEW c
             PROVE  /\ cache!Lock(c) => lock!Lock(c)
                    /\ cache!Take(c) => lock!Take(c)
                    /\ cache!Retry(c) => lock!Retry(c)
                    /\ cache!Override(c) => lock!Override(c)
                    /\ cache!Pass(c) => lock!Pass(c)
                    /\ cache!Unlock(c) => lock!Unlock(c)
  BY <1>1
<1>2. cache!Lock(c) => lock!Lock(c)
  BY DEF cache!Lock, lock!Lock
<1>3. cache!Take(c) => lock!Take(c)
  BY SameHelpers DEF cache!Take, lock!Take
<1>4. cache!Retry(c) => lock!Retry(c)
  BY SameHelpers DEF cache!Retry, lock!Retry
<1>5. cache!Override(c) => lock!Override(c)
  BY SameHelpers DEF cache!Override, lock!Override
<1>6. cache!Pass(c) => lock!Pass(c)
  BY SameHelpers DEF cache!Pass, lock!Pass
<1>7. cache!Unlock(c) => lock!Unlock(c)
  BY SameHelpers DEF cache!Unlock, lock!Unlock
<1> QED
  BY <1>2, <1>3, <1>4, <1>5, <1>6, <1>7

\* Each step of the controller is one of the cache, or leaves it alone.
THEOREM UsesLock == Spec => lock!Spec
<1>1. Init => lock!Init
  BY DEF Init, cache!Init, lock!Init
<1>2. [Next]_vars => [lock!Next]_(lock!vars)
  <2> SUFFICES ASSUME [Next]_vars PROVE [lock!Next]_(lock!vars)
    OBVIOUS
  <2> USE DEF lock!Next, lock!Poll
  <2>1. CASE Waits
    BY <2>1, SameCache DEF Waits
  <2>2. CASE Proceeds \/ UNCHANGED vars
    BY <2>2 DEF Proceeds, vars, cacheVars, lock!vars
  <2>3. ASSUME NEW s \in Setups, NEW req \in Requests, SetupBegins(s, req)
        PROVE  lock!Next
    BY <2>3, SameCache DEF SetupBegins
  <2>4. ASSUME NEW s \in Setups, SetupEnds(s) PROVE lock!Next
    BY <2>4, SameCache DEF SetupEnds
  <2>5. ASSUME NEW t \in Teardowns, NEW req \in Requests, Teardown(t, req)
        PROVE  lock!Next
    BY <2>5, SameCache DEF Teardown
  <2> QED
    BY <2>1, <2>2, <2>3, <2>4, <2>5 DEF Next
<1> QED
  BY <1>1, <1>2, PTL DEF Spec, lock!Spec

THEOREM LockInvariant == Spec => []lock!IInv
<1>1. lock!LocalCacheAssumption
  BY ControllerAssumption
<1> QED
  BY <1>1, UsesLock, lock!Invariant, PTL

\* Who has broken in is remembered.
BreakInKnown == broken => "brokeIn" \in hazards

IInv == lock!IInv /\ BreakInKnown

\* What runs beside the lock takes nothing from the history.
LEMMA HazardsGrow ==
  ASSUME [Next]_vars
  PROVE  hazards \subseteq hazards'
<1>1. CASE Waits \/ UNCHANGED vars
  BY <1>1 DEF Waits, vars, channelVars
<1>2. CASE Proceeds
  BY <1>2 DEF Proceeds, life!Authenticate, life!MetadataArrives, life!Poll,
              life!LoopWakes, life!LoopCancelled, life!LoopServed, life!LoopUnserved,
              life!StopFires, life!BackendReplies
<1>3. ASSUME NEW s \in Setups, SetupEnds(s) PROVE hazards' = hazards
  BY <1>3 DEF SetupEnds, life!PackagerReady, life!SetupThrows
<1>4. CASE Remembered
  BY <1>4 DEF Remembered
<1> QED
  BY <1>1, <1>2, <1>3, <1>4 DEF Next, SetupBegins, Teardown

\* The inductive step of BreakInKnown.
LEMMA BreakInStep ==
  ASSUME IInv, [Next]_vars
  PROVE  BreakInKnown'
<1>1. ASSUME broken' => broken PROVE BreakInKnown'
  BY <1>1, HazardsGrow DEF IInv, BreakInKnown
<1>2. CASE Waits \/ Proceeds \/ UNCHANGED vars
  BY <1>1, <1>2 DEF Waits, Proceeds, vars, cacheVars, cache!Tick, cache!Lock, cache!Retry
<1>3. ASSUME NEW s \in Setups, SetupEnds(s) PROVE broken' => broken
  BY <1>3 DEF SetupEnds, cache!Unlock
<1>4. CASE Remembered /\ entry # NoEntry
  BY <1>4 DEF Remembered, BreakInKnown
<1>5. ASSUME entry = NoEntry,
             NEW s \in Setups, NEW req \in Requests, SetupBegins(s, req)
      PROVE  broken' => broken
  BY <1>5 DEF SetupBegins, cache!Take, cache!Override, cache!MayTake
<1>6. ASSUME entry = NoEntry,
             NEW t \in Teardowns, NEW req \in Requests, Teardown(t, req)
      PROVE  broken' => broken
  BY <1>6 DEF Teardown, cache!Pass
<1> QED
  BY <1>1, <1>2, <1>3, <1>4, <1>5, <1>6 DEF Next, SetupBegins, Teardown

THEOREM Invariant == Spec => []IInv
<1>1. Init => BreakInKnown
  BY DEF Init, cache!Init, BreakInKnown
<1>2. lock!IInv /\ BreakInKnown <=> IInv
  BY DEF IInv
<1> QED
  BY <1>1, <1>2, LockInvariant, BreakInStep, PTL DEF Spec

\* What the invariant says of the lock: an entry has a writer inside, and without
\* one nobody is inside, unless somebody broke in.
LEMMA EntryAndOwners ==
  ASSUME IInv
  PROVE  /\ entry # NoEntry => cache!Holders # {}
         /\ entry = NoEntry => cache!Holders = {} \/ broken
         /\ cache!Holders = {} => ~broken
         /\ pc \in [Setups \cup Teardowns -> {"idle", "waiting", "holding"}]
         /\ broken \in BOOLEAN
<1>1. lock!TypeOK /\ lock!EntryOwned /\ lock!SoleOwner /\ lock!IdleUnbroken
  BY DEF IInv, lock!IInv
<1>2. entry # NoEntry => cache!Holders # {}
  BY <1>1, SameHelpers DEF lock!EntryOwned
<1>3. ASSUME entry = NoEntry, ~broken, NEW c \in cache!Holders PROVE FALSE
  <2>1. c \in Setups \cup Teardowns /\ entry = held[c]
    BY <1>1, <1>3, SameHelpers DEF lock!SoleOwner, cache!Holders
  <2>2. held[c] \in Nat
    BY <1>1, <2>1, ControllerAssumption DEF lock!TypeOK, lock!Ages, lock!Expired
  <2> QED
    BY <1>3, <2>1, <2>2, ControllerAssumption
<1>4. cache!Holders = {} => ~broken
  BY <1>1, SameHelpers DEF lock!IdleUnbroken
<1> QED
  BY <1>1, <1>2, <1>3, <1>4 DEF lock!TypeOK

(* What runs beside the lock reports no break-in.                               *)
LEMMA BesideTheLock ==
  ASSUME Proceeds, "brokeIn" \in hazards'
  PROVE  "brokeIn" \in hazards
<1>1. CASE life!Authenticate
  BY <1>1 DEF life!Authenticate
<1>2. ASSUME NEW s \in Setups, life!MetadataArrives(s) PROVE hazards' = hazards
  BY <1>2 DEF life!MetadataArrives
<1>3. ASSUME NEW l \in Loops, life!Poll(l) PROVE "brokeIn" \in hazards
  BY <1>3 DEF life!Poll, life!LoopWakes, life!LoopCancelled, life!LoopServed,
     life!LoopUnserved
<1>4. CASE life!StopFires
  BY <1>4 DEF life!StopFires
<1>5. ASSUME NEW o \in life!Objects, NEW ok \in BOOLEAN, life!BackendReplies(o, ok)
      PROVE  hazards' = hazards
  BY <1>5 DEF life!BackendReplies
<1> QED
  BY <1>1, <1>2, <1>3, <1>4, <1>5 DEF Proceeds

(* The life cycle meets a break-in only when a setup has outstayed its lease or  *)
(* the caller that comes in has used up its tries.                              *)
THEOREM BreakInsHaveCause ==
  Spec => [][ "brokeIn" \in hazards' \ hazards =>
                \/ \E c \in cache!Holders : held[c] > LockTimeout
                \/ \E c \in Setups \cup Teardowns :
                     tries[c] = MaxTries /\ pc[c] = "waiting" /\ pc'[c] # "waiting"
            ]_vars
<1>1. ASSUME IInv, Next, "brokeIn" \in hazards', "brokeIn" \notin hazards
      PROVE  \/ \E c \in cache!Holders : held[c] > LockTimeout
             \/ \E c \in Setups \cup Teardowns :
                  tries[c] = MaxTries /\ pc[c] = "waiting" /\ pc'[c] # "waiting"
  <2>1. CASE Waits \/ \E s \in Setups : SetupEnds(s)
    BY <1>1, <2>1 DEF Waits, channelVars, SetupEnds, life!PackagerReady, life!SetupThrows
  <2>2. CASE Proceeds
    BY <1>1, <2>2, BesideTheLock
  <2>3. ASSUME NEW c \in Setups \cup Teardowns, Remembered,
               cache!Take(c) \/ cache!Override(c) \/ cache!Pass(c)
        PROVE  \/ \E d \in cache!Holders : held[d] > LockTimeout
               \/ \E d \in Setups \cup Teardowns :
                    tries[d] = MaxTries /\ pc[d] = "waiting" /\ pc'[d] # "waiting"
    <3>1. entry # NoEntry /\ ~broken
      BY <1>1, <2>3 DEF Remembered, IInv, BreakInKnown
    <3>2. PICK d \in cache!Holders : entry = held[d]
      BY <1>1, <3>1, SameHelpers DEF IInv, lock!IInv, lock!EntryOwned, lock!SoleOwner
    <3>3. CASE cache!MayTake
      BY <3>1, <3>2, <3>3 DEF cache!MayTake
    <3>4. CASE ~cache!MayTake
      <4>1. tries[c] = MaxTries /\ pc[c] = "waiting"
        BY <2>3, <3>4 DEF cache!Take, cache!Override, cache!Pass, cache!Polls
      <4>2. pc'[c] # "waiting"
        BY <1>1, <2>3, EntryAndOwners DEF cache!Take, cache!Override, cache!Pass, cache!Enter
      <4> QED
        BY <4>1, <4>2
    <3> QED
      BY <3>3, <3>4
  <2> QED
    BY <1>1, <2>1, <2>2, <2>3 DEF Next, SetupBegins, Teardown
<1>2. IInv /\ [Next]_vars =>
        [ "brokeIn" \in hazards' \ hazards =>
                \/ \E c \in cache!Holders : held[c] > LockTimeout
                \/ \E c \in Setups \cup Teardowns :
                     tries[c] = MaxTries /\ pc[c] = "waiting" /\ pc'[c] # "waiting"
        ]_vars
  BY <1>1
<1> QED
  BY <1>2, Invariant, PTL DEF Spec
-----------------------------------------------------------------------------
(* The refinement.                                                          *)

\* lock() returns to a setup as the abstract lock lets it.
LEMMA Entering ==
  ASSUME IInv, NEW s \in Setups, cache!Take(s) \/ cache!Override(s), Remembered
  PROVE  life!Locked(s)
<1>1. s \notin cache!Holders /\ cache!Holders' = cache!Holders \cup {s}
  BY EntryAndOwners DEF cache!Take, cache!Override, cache!Enter, cache!Polls, cache!Holders
<1>2. CASE entry = NoEntry
  <2>1. cache!Take(s) /\ hazards' = hazards
    BY <1>2 DEF cache!Override, cache!MayTake, Remembered
  <2>2. broken' = (broken \/ FALSE)
    BY <1>2, <2>1, Zenon DEF cache!Take
  <2>3. broken' = broken
    BY <2>2, EntryAndOwners
  <2> QED
    BY <1>1, <1>2, <2>1, <2>3, EntryAndOwners DEF life!Locked, life!lock!Acquire
<1>3. CASE entry # NoEntry
  <2>1. broken'
    BY <1>3 DEF cache!Take, cache!Override
  <2> QED
    BY <1>1, <1>3, <2>1, EntryAndOwners DEF life!Locked, life!lock!BreakIn, Remembered
<1> QED
  BY <1>2, <1>3

\* A teardown passes through it as the abstract lock lets it.
LEMMA Passing ==
  ASSUME IInv, NEW t \in Teardowns, cache!Pass(t), Remembered
  PROVE  life!LockedBriefly
<1>1. cache!Holders' = cache!Holders
  BY EntryAndOwners DEF cache!Pass, cache!Polls, cache!Holders
<1>2. CASE cache!Holders = {}
  <2>1. entry = NoEntry /\ broken = FALSE
    BY <1>2, EntryAndOwners
  <2>2. broken' = FALSE
    BY <1>2 DEF cache!Pass
  <2> QED
    BY <1>1, <1>2, <2>1, <2>2 DEF Remembered, life!LockedBriefly
<1>3. CASE cache!Holders # {}
  <2>1. broken \/ entry # NoEntry
    BY <1>3, EntryAndOwners
  <2>2. broken'
    BY <1>3, <2>1, Zenon DEF cache!Pass
  <2>3. hazards' = hazards \cup {"brokeIn"}
    BY <2>1 DEF Remembered, IInv, BreakInKnown
  <2> QED
    BY <1>1, <1>3, <2>2, <2>3 DEF life!LockedBriefly
<1> QED
  BY <1>2, <1>3

\* unlock() is its release.
LEMMA Leaving ==
  ASSUME IInv, NEW s \in Setups, cache!Unlock(s)
  PROVE  life!lock!Release(s)
<1>1. s \in cache!Holders /\ cache!Holders' = cache!Holders \ {s}
  BY EntryAndOwners DEF cache!Unlock, cache!Holders
<1>2. cache!Holders # {s} <=> cache!Holders' # {}
  BY <1>1
<1> QED
  BY <1>1, <1>2 DEF cache!Unlock, life!lock!Release

\* What leaves the cache alone leaves the abstract lock alone.
LEMMA LockUnused ==
  ASSUME UNCHANGED cacheVars
  PROVE  UNCHANGED <<cache!Holders, broken>>
  BY DEF cacheVars, cache!Holders

(* With its real lock the controller does what Channels says: entering by a     *)
(* free, a robbed or an ignored entry, passing through and unlocking are steps  *)
(* of the abstract lock with the same effect on the channel; waiting for the    *)
(* lock is a stutter.                                                           *)
THEOREM Implementation == Spec => ImplementsChannels
<1>1. Init => life!Init
  BY DEF Init, cache!Init, life!Init, life!lock!LockInit, cache!Holders
<1>2. IInv /\ [Next]_vars => [life!Next]_(life!vars)
  <2> SUFFICES ASSUME IInv, [Next]_vars PROVE [life!Next]_(life!vars)
    OBVIOUS
  <2>1. CASE Waits
    <3>1. UNCHANGED <<cache!Holders, broken>>
      BY <2>1, EntryAndOwners DEF Waits, cache!Tick, cache!Lock, cache!Retry, cache!Polls,
         cache!Holders
    <3> QED
      BY <2>1, <3>1 DEF Waits, channelVars, life!vars
  <2>2. CASE UNCHANGED vars
    BY <2>2, LockUnused DEF vars, channelVars, life!vars
  <2>3. CASE Proceeds
    BY <2>3 DEF Proceeds, life!Next
  <2>4. ASSUME NEW s \in Setups, NEW req \in Requests, SetupBegins(s, req)
        PROVE  life!SetupBegins(s, req)
    BY <2>4, Entering DEF SetupBegins, life!SetupBegins
  <2>5. ASSUME NEW s \in Setups, SetupEnds(s)
        PROVE  life!PackagerAssigned(s) \/ life!SetupFails(s)
    BY <2>5, Leaving DEF SetupEnds, life!PackagerAssigned, life!SetupFails
  <2>6. ASSUME NEW t \in Teardowns, NEW req \in Requests, Teardown(t, req)
        PROVE  life!Teardown(req.input, req.type)
    BY <2>6, Passing DEF Teardown, life!Teardown
  <2> QED
    BY <2>1, <2>2, <2>3, <2>4, <2>5, <2>6 DEF Next, life!Next
<1> QED
  BY <1>1, <1>2, Invariant, PTL DEF Spec, ImplementsChannels, life!Spec
-----------------------------------------------------------------------------
(* What ChannelsProofs proves of Channels holds of the controller.          *)

\* The operators of the instance proved about are those of the instance used.
LEMMA SameOutputs ==
  /\ life!NoOutput = chan!NoOutput
  /\ \A out : life!IsEmpty(out) = chan!IsEmpty(out)
  /\ \A req, list : life!Configured(req, list) = chan!Configured(req, list)
  /\ \A out, req : life!WhiteList(out, req) = chan!WhiteList(out, req)
  /\ \A out, new : life!Merge(out, new) = chan!Merge(out, new)
  /\ \A out, input, type :
        life!RemoveInputTracks(out, input, type) = chan!RemoveInputTracks(out, input, type)
  BY DEF life!NoOutput, chan!NoOutput, life!IsEmpty, chan!IsEmpty, life!Configured,
         chan!Configured, life!Participating, chan!Participating, life!TooPoor,
         chan!TooPoor, life!Less, chan!Less, life!WhiteList, chan!WhiteList,
         life!Merge, chan!Merge, life!RemoveInputTracks, chan!RemoveInputTracks,
         life!Stripped, chan!Stripped, life!HasTrack, chan!HasTrack, life!Types,
         chan!Types

LEMMA SameObjects ==
  /\ life!Objects = chan!Objects
  /\ life!NewChannel = chan!NewChannel
  /\ \A o : /\ life!Dropped(o) = chan!Dropped(o)
            /\ life!GetChannel(o) = chan!GetChannel(o)
            /\ life!Found(o) = chan!Found(o)
            /\ life!BackendFor(o) = chan!BackendFor(o)
  /\ \A ch, call : life!Queued(ch, call) = chan!Queued(ch, call)
  /\ \A ch : life!CanQueue(ch) = chan!CanQueue(ch)
  BY SameOutputs DEF life!Objects, chan!Objects, life!NewChannel, chan!NewChannel,
           life!Dropped, chan!Dropped, life!Garbage, chan!Garbage, life!GetChannel,
           chan!GetChannel, life!Found, chan!Found, life!BackendFor, chan!BackendFor,
           life!Queued, chan!Queued, life!CanQueue, chan!CanQueue, life!InProgress,
           chan!InProgress, life!Running, chan!Running

LEMMA SameMethods ==
  /\ \A ch, new : life!AddOutputs(ch, new) = chan!AddOutputs(ch, new)
  /\ \A ch, input, type : life!RemoveInput(ch, input, type) = chan!RemoveInput(ch, input, type)
  /\ \A ch : /\ life!MarkPlayable(ch) = chan!MarkPlayable(ch)
             /\ life!Stopped(ch) = chan!Stopped(ch)
  /\ \A ch, ok : life!Replied(ch, ok) = chan!Replied(ch, ok)
  /\ \A o : life!ArmStop(o) = chan!ArmStop(o)
  BY SameOutputs, SameObjects DEF life!AddOutputs, chan!AddOutputs,
         life!MarkBroadcasting, chan!MarkBroadcasting, life!RemoveInput,
         chan!RemoveInput, life!MarkPlayable, chan!MarkPlayable, life!Stopped,
         chan!Stopped, life!Replied, chan!Replied, life!ArmStop, chan!ArmStop

LEMMA SameRequests ==
  /\ life!Authenticate => chan!Authenticate
  /\ \A s, req : life!SetupBegins(s, req) => chan!SetupBegins(s, req)
  /\ \A s : /\ life!MetadataArrives(s) => chan!MetadataArrives(s)
            /\ life!PackagerAssigned(s) => chan!PackagerAssigned(s)
            /\ life!SetupFails(s) => chan!SetupFails(s)
  /\ \A input, type : life!Teardown(input, type) => chan!Teardown(input, type)
<1> USE SameOutputs, SameObjects, SameMethods
<1>1. life!Authenticate => chan!Authenticate
  BY DEF life!Authenticate, chan!Authenticate
<1>2. \A s, req : life!SetupBegins(s, req) => chan!SetupBegins(s, req)
  BY DEF life!SetupBegins, chan!SetupBegins, life!SetupOpens, chan!SetupOpens,
         life!Locked, chan!Locked, life!lock!Acquire, chan!lock!Acquire,
         life!lock!BreakIn, chan!lock!BreakIn
<1>3. ASSUME NEW s, life!MetadataArrives(s) PROVE chan!MetadataArrives(s)
  BY <1>3 DEF life!MetadataArrives, chan!MetadataArrives
<1>4. ASSUME NEW s, life!PackagerAssigned(s) PROVE chan!PackagerAssigned(s)
  BY <1>4 DEF life!PackagerAssigned, chan!PackagerAssigned, life!PackagerReady,
     chan!PackagerReady, life!StartLoop, chan!StartLoop, life!Running, chan!Running,
     life!NoLoop, chan!NoLoop, life!NoStop, chan!NoStop, life!SetupEnds,
     chan!SetupEnds, life!NoSetup, chan!NoSetup, life!lock!Release, chan!lock!Release
<1>5. ASSUME NEW s, life!SetupFails(s) PROVE chan!SetupFails(s)
  BY <1>5 DEF life!SetupFails, chan!SetupFails, life!SetupThrows, chan!SetupThrows,
     life!SetupEnds, chan!SetupEnds, life!NoSetup, chan!NoSetup, life!lock!Release,
     chan!lock!Release
<1>6. ASSUME NEW input, NEW type, life!Teardown(input, type)
      PROVE  chan!Teardown(input, type)
  BY <1>6 DEF life!Teardown, chan!Teardown, life!TracksRemoved, chan!TracksRemoved,
     life!LockedBriefly, chan!LockedBriefly
<1> QED
  BY <1>1, <1>2, <1>3, <1>4, <1>5, <1>6

LEMMA SameCallbacks ==
  /\ \A l : life!Poll(l) => chan!Poll(l)
  /\ life!StopFires => chan!StopFires
  /\ \A o, ok : life!BackendReplies(o, ok) => chan!BackendReplies(o, ok)
<1> USE SameObjects, SameMethods
<1>1. \A l : life!Poll(l) => chan!Poll(l)
  BY DEF life!Poll, chan!Poll, life!LoopWakes, chan!LoopWakes, life!LoopCancelled,
         chan!LoopCancelled, life!LoopServed, chan!LoopServed, life!LoopUnserved,
         chan!LoopUnserved, life!LoopEnds, chan!LoopEnds, life!NoLoop, chan!NoLoop
<1>2. life!StopFires => chan!StopFires
  BY DEF life!StopFires, chan!StopFires, life!InProgress, chan!InProgress,
         life!Asking, chan!Asking
<1>3. \A o, ok : life!BackendReplies(o, ok) => chan!BackendReplies(o, ok)
  BY DEF life!BackendReplies, chan!BackendReplies
<1> QED
  BY <1>1, <1>2, <1>3

LEMMA SameLife == life!Spec => chan!Spec
<1>1. life!Init => chan!Init
  BY SameObjects DEF life!Init, chan!Init, life!NoSetup, chan!NoSetup, life!NoLoop,
         chan!NoLoop, life!NoStop, chan!NoStop, life!lock!LockInit,
         chan!lock!LockInit
<1>2. [life!Next]_(life!vars) => [chan!Next]_(chan!vars)
  BY SameObjects, SameRequests, SameCallbacks
     DEF life!Next, chan!Next, life!vars, chan!vars
<1> QED
  BY <1>1, <1>2, PTL DEF life!Spec, chan!Spec

\* What ChannelsProofs asks of the constants.
LEMMA ChannelsAssumed == chan!ChannelsAssumption /\ chan!NoneAssumption
  BY ControllerAssumption DEF life!ProfileType, chan!ProfileType, life!RequestType,
     chan!RequestType, life!Number, chan!Number, life!Types, chan!Types

\* The grace timer spares what is playable or being started, under leases that run
\* out by the clock too.
THEOREM StopIsSafe == Spec => []StopSparesPlayable
<1>1. chan!StopSparesPlayable => StopSparesPlayable
  BY DEF chan!StopSparesPlayable, StopSparesPlayable, life!StopSparesPlayable
<1> QED
  BY <1>1, ChannelsAssumed, Implementation, SameLife, chan!StopIsSafe, PTL
     DEF ImplementsChannels

\* A pending start has a loop that polls for it, unless one gave up.
THEOREM StartIsPolled == Spec => []PendingIsPolled
<1>1. chan!PendingIsPolled => PendingIsPolled
  BY DEF chan!PendingIsPolled, PendingIsPolled, life!PendingIsPolled, chan!Running,
     life!Running
<1> QED
  BY <1>1, ChannelsAssumed, Implementation, SameLife, chan!StartIsPolled, PTL
     DEF ImplementsChannels

\* A pending start has something to play, unless a caller broke in or the timer
\* removed the channel in use.
THEOREM PendingPlays == Spec => []PendingHasOutputs
<1>1. chan!PendingHasOutputs => PendingHasOutputs
  BY SameOutputs DEF chan!PendingHasOutputs, PendingHasOutputs, life!PendingHasOutputs,
     chan!RequestsFeed, life!RequestsFeed, chan!Participating, life!Participating,
     chan!TooPoor, life!TooPoor, chan!Less, life!Less
<1> QED
  BY <1>1, ChannelsAssumed, Implementation, SameLife, chan!PendingPlays, PTL
     DEF ImplementsChannels

\* Only the object the id has is playable, unless the timer removed one in use.
THEOREM OnlyCurrentPlays == Spec => []PlayableIsCurrent
<1>1. chan!PlayableIsCurrent => PlayableIsCurrent
  BY SameObjects DEF chan!PlayableIsCurrent, PlayableIsCurrent, life!PlayableIsCurrent
<1> QED
  BY <1>1, ChannelsAssumed, Implementation, SameLife, chan!OnlyCurrentPlays, PTL
     DEF ImplementsChannels

\* An emptied channel waits out its grace period, unless a caller broke in.
THEOREM EmptiedWaits == Spec => []EmptiedIsTimed
<1>1. chan!EmptiedIsTimed => EmptiedIsTimed
  BY DEF chan!EmptiedIsTimed, EmptiedIsTimed, life!EmptiedIsTimed, chan!Emptied,
     life!Emptied
<1> QED
  BY <1>1, ChannelsAssumed, Implementation, SameLife, chan!EmptiedWaits, PTL
     DEF ImplementsChannels

(* The rest of what is proved of Channels: the backend has the status of the     *)
(* channel, no variant is empty, a teardown leaves nothing of its input behind,  *)
(* and audio joins the variants its input already feeds.                        *)
THEOREM LifeUnderLease ==
  Spec => /\ [](life!BackendAgrees /\ life!NoEmptyVariant)
          /\ life!TeardownIsComplete
          /\ life!AudioKeepsVariants
<1>1. chan!BackendAgrees => life!BackendAgrees
  BY DEF chan!BackendAgrees, life!BackendAgrees
<1>2. chan!NoEmptyVariant => life!NoEmptyVariant
  BY SameObjects DEF chan!NoEmptyVariant, life!NoEmptyVariant, chan!HasTrack,
     life!HasTrack, chan!Types, life!Types
<1>3. chan!TeardownIsComplete => life!TeardownIsComplete
  <2>1. [\A req \in Requests : chan!Teardown(req.input, req.type) =>
           LET out == channel'[current'].out IN
           \A v \in DOMAIN out : Profile[v].input # None =>
               out[v].tracks[req.type] # req.input]_(chan!vars)
        => [\A req \in Requests : life!Teardown(req.input, req.type) =>
              LET out == channel'[current'].out IN
              \A v \in DOMAIN out : Profile[v].input # None =>
                  out[v].tracks[req.type] # req.input]_(life!vars)
    BY SameRequests DEF chan!vars, life!vars
  <2> QED
    BY <2>1, PTL DEF chan!TeardownIsComplete, life!TeardownIsComplete
<1>4. chan!AudioKeepsVariants => life!AudioKeepsVariants
  <2>1. [\A s \in Setups :
           LET o == setups[s].object
               req == setups[s].request IN
           /\ chan!MetadataArrives(s)
           /\ req.type = "audio"
           /\ \E v \in DOMAIN channel[o].out : channel[o].out[v].inputId = req.input
           => DOMAIN channel'[o].out = DOMAIN channel[o].out]_(chan!vars)
        => [\A s \in Setups :
              LET o == setups[s].object
                  req == setups[s].request IN
              /\ life!MetadataArrives(s)
              /\ req.type = "audio"
              /\ \E v \in DOMAIN channel[o].out : channel[o].out[v].inputId = req.input
              => DOMAIN channel'[o].out = DOMAIN channel[o].out]_(life!vars)
    BY SameRequests DEF chan!vars, life!vars
  <2> QED
    BY <2>1, PTL DEF chan!AudioKeepsVariants, life!AudioKeepsVariants
<1> QED
  BY <1>1, <1>2, <1>3, <1>4, ChannelsAssumed, Implementation, SameLife,
     chan!BackendIsTold, chan!NoVariantEmpty, chan!TeardownCompletes,
     chan!AudioJoinsVariants, PTL DEF ImplementsChannels

(* Types: of the lock by its invariant, of the channel by the refinement.       *)
THEOREM TypeCorrect == Spec => []TypeOK
<1>1. lock!IInv => cache!TypeOK
  BY DEF lock!IInv, lock!TypeOK, cache!TypeOK, lock!Ages, cache!Ages, lock!Expired,
     cache!Expired
<1>2. chan!TypeOK => life!TypeOK
  BY SameObjects DEF chan!TypeOK, life!TypeOK, chan!NoSetup, life!NoSetup, chan!NoLoop,
     life!NoLoop, chan!ChannelType, life!ChannelType, chan!States, life!States,
     chan!Calls, life!Calls, chan!OutputType, life!OutputType, chan!VariantType,
     life!VariantType, chan!Types, life!Types
<1>3. cache!TypeOK /\ life!TypeOK <=> TypeOK
  BY DEF TypeOK
<1> QED
  BY <1>1, <1>2, <1>3, ChannelsAssumed, LockInvariant, Implementation, SameLife,
     chan!TypeCorrectness, PTL DEF ImplementsChannels
=============================================================================
