------------------------------ MODULE Channels ------------------------------
(***************************************************************************)
(* The life of one channel in the controller: the setup, teardown and      *)
(* authenticate requests of Logic/BusinessLogic.ts, the polling loops of   *)
(* Logic/channelStarter.ts, the grace timer of Logic/channelStopper.ts,    *)
(* the channel objects of Data/KalturaChannel.ts and Data/KalturaDAL.ts,   *)
(* and the status of the channel at the backend they report to.            *)
(*                                                                         *)
(* Node runs one callback at a time: an action is what runs between two    *)
(* awaits.  Distinct channel ids share no state but the packager.          *)
(***************************************************************************)
EXTENDS ChannelOutput, Sequences

CONSTANTS Setups,      \* setup requests that can be in progress together
          Requests,    \* the setup requests clients make, see RequestType
          Loops,       \* polling loops that can be alive together
          MaxObjects,  \* channel objects that can be alive together
          MaxCalls,    \* calls a channel object can have queued before
                       \* clients are held back
          Reporting,   \* are the calls to the backend modelled?  They decide
                       \* nothing in the controller
          MaxPolls,    \* polls of a start loop: retries passed to retry()
          BreakIns     \* can the lease of the channel's lock run out?

ASSUME ChannelsAssumption ==
    /\ Profile \in ProfileType
    /\ Requests \subseteq RequestType
    /\ MaxObjects \in Nat \ {0}
    /\ MaxCalls \in Nat \ {0}
    /\ MaxPolls \in Nat \ {0}
    /\ BreakIns \in BOOLEAN
    /\ Reporting \in BOOLEAN
    /\ None \notin 1 .. MaxObjects

VARIABLES
    owners, broken,  \* the lock of the channel, see LeaseLock
    setups,          \* the setup requests in progress
    current,         \* KalturaDAL.channels: the object of the id, or None
    channel,         \* the channel objects
    pending,         \* the id is in ChannelStarter.channelsPendingStart
    loops,           \* the retry() loops ChannelStarter.start left running
    stopper,         \* ChannelStopper.channelsPendingStop
    backend,         \* the status the backend has, and whose call set it
    hazards          \* history: what has happened that the code does not handle

vars == <<owners, broken, setups, current, channel, pending, loops, stopper,
          backend, hazards>>
lock == INSTANCE LeaseLock WITH Callers <- Setups

Objects == 1 .. MaxObjects
States == {"Stopped", "Authenticated", "Broadcasting", "Playable", "Suspended"}
Calls == {"authenticate", "Broadcasting", "Playable", "Stopped"}

ChannelType == [state : States, out : OutputType, calls : Seq(Calls),
                failed : BOOLEAN]

NewChannel == [state |-> "Stopped", out |-> NoOutput, calls |-> <<>>,
               failed |-> FALSE]
NoSetup == [pc |-> "idle", object |-> None, request |-> None]
NoLoop == [pc |-> "none", object |-> None, polls |-> 1]
NoStop == [pc |-> "none", object |-> None]

Init ==
    /\ lock!LockInit
    /\ setups = [s \in Setups |-> NoSetup]
    /\ current = None
    /\ channel = [o \in Objects |-> NewChannel]
    /\ pending = FALSE
    /\ loops = [l \in Loops |-> NoLoop]
    /\ stopper = NoStop
    /\ backend = [status |-> "Stopped", by |-> None]
    /\ hazards = {}
-----------------------------------------------------------------------------
(* Channel objects: KalturaChannel and KalturaDAL.                          *)

InProgress == {s \in Setups : setups[s].pc # "idle"}
Running == {l \in Loops : loops[l].pc # "none"}

\* Nothing refers to the object any more but its queued calls; without any its
\* number can be used again.
Dropped(o) ==
    /\ o # current
    /\ \A s \in InProgress : setups[s].object # o
    /\ \A l \in Running : loops[l].object # o

Garbage(o) == Dropped(o) /\ channel[o].calls = <<>>

\* getChannel finds the object of the id or creates one.
GetChannel(o) ==
    IF current # None
    THEN o = current
    ELSE Garbage(o) /\ \A p \in Objects : p < o => ~Garbage(p)

\* The object getChannel(o) returns, and the backend bookkeeping that forgets
\* an earlier object with the same number.
Found(o) == IF o = current THEN channel[o] ELSE NewChannel
BackendFor(o) ==
    IF o # current /\ backend.by = o THEN [backend EXCEPT !.by = None]
                                     ELSE backend

\* SynchronizedPromises.exec: the object's calls run one after the other.
Queued(ch, call) ==
    IF Reporting THEN [ch EXCEPT !.calls = Append(@, call)] ELSE ch

\* The bound on queued calls; it holds back clients, never the program.
CanQueue(ch) == Len(ch.calls) < MaxCalls

\* Mutant of MarkBroadcasting: the state is set, the backend is not told.
MarkBroadcastingSilently(ch) ==
    IF ch.state = "Playable" THEN ch ELSE [ch EXCEPT !.state = "Broadcasting"]

MarkBroadcasting(ch) ==
    IF ch.state = "Playable"
    THEN ch
    ELSE Queued([ch EXCEPT !.state = "Broadcasting"], "Broadcasting")

AddOutputs(ch, new) ==
    LET marked == IF IsEmpty(ch.out) THEN MarkBroadcasting(ch) ELSE ch
    IN  [marked EXCEPT !.out = Merge(@, new)]

RemoveInput(ch, input, type) ==
    LET out == RemoveInputTracks(ch.out, input, type)
    IN  [ch EXCEPT !.out = out,
                   !.state = IF IsEmpty(out) THEN "Suspended" ELSE @]

MarkPlayable(ch) == Queued([ch EXCEPT !.state = "Playable"], "Playable")

Stopped(ch) == Queued([ch EXCEPT !.state = "Stopped"], "Stopped")

\* The call at the head of the object's chain has settled.  failed is that the
\* last one that reports a status did not succeed.
Replied(ch, ok) ==
    [ch EXCEPT !.calls = Tail(@),
               !.failed = IF Head(ch.calls) = "authenticate" THEN @ ELSE ~ok]

\* That call settles.  A failure is logged and forgotten; a success sets the
\* status of the entry at the backend, and so may a failure: the answer was lost,
\* or it is a later request of the same multirequest that failed.
BackendReplies(o, ok) ==
    /\ channel[o].calls # <<>>
    /\ LET last == Dropped(o) /\ Tail(channel[o].calls) = <<>> IN
       channel' = [channel EXCEPT ![o] = IF last THEN NewChannel
                                                 ELSE Replied(@, ok)]
    /\ LET call == Head(channel[o].calls) IN
       \/ call # "authenticate" /\ backend' = [status |-> call, by |-> o]
       \/ (call = "authenticate" \/ ~ok) /\ UNCHANGED backend
    /\ UNCHANGED <<owners, broken, setups, current, pending, loops, stopper,
                   hazards>>
-----------------------------------------------------------------------------
(* ChannelStarter and ChannelStopper.                                       *)

\* start(): a no-op if the id is pending, else a new loop on this object.
StartLoop(o) ==
    IF pending
    THEN UNCHANGED <<pending, loops>>
    ELSE /\ pending' = TRUE
         /\ \E l \in Loops \ Running :
               loops' = [loops EXCEPT ![l] = [NoLoop EXCEPT !.pc = "sleeping",
                                                            !.object = o]]

LoopEnds(l) == loops' = [loops EXCEPT ![l] = NoLoop]

\* The sleep of a loop is over: it ends if the start was cancelled, else asks
\* the packager for the channel.
LoopWakes(l) ==
    /\ loops[l].pc = "sleeping"
    /\ IF pending THEN loops' = [loops EXCEPT ![l].pc = "asking"]
                  ELSE LoopEnds(l)
    /\ UNCHANGED <<owners, broken, setups, current, channel, pending, stopper,
                   backend, hazards>>

\* The answer comes when the start has been cancelled.
LoopCancelled(l) ==
    /\ loops[l].pc = "asking"
    /\ ~pending
    /\ LoopEnds(l)
    /\ UNCHANGED <<owners, broken, setups, current, channel, pending, stopper,
                   backend, hazards>>

\* Mutant of LoopServed: the id is not taken out of channelsPendingStart.
LoopServedStillPending(l) ==
    /\ loops[l].pc = "asking"
    /\ pending
    /\ channel' = [channel EXCEPT ![loops[l].object] = MarkPlayable(@)]
    /\ LoopEnds(l)
    /\ UNCHANGED <<owners, broken, setups, current, pending, stopper, backend,
                   hazards>>

\* The packager serves the channel: it is playable and no longer pending.
LoopServed(l) ==
    /\ loops[l].pc = "asking"
    /\ pending
    /\ channel' = [channel EXCEPT ![loops[l].object] = MarkPlayable(@)]
    /\ pending' = FALSE
    /\ LoopEnds(l)
    /\ UNCHANGED <<owners, broken, setups, current, stopper, backend, hazards>>

\* Mutants of LoopUnserved: it gives up one poll too late; it never does.
LoopUnservedOnceMore(l) ==
    /\ loops[l].pc = "asking"
    /\ pending
    /\ IF loops[l].polls > MaxPolls
       THEN LoopEnds(l) /\ hazards' = hazards \cup {"gaveUp"}
       ELSE /\ loops' = [loops EXCEPT ![l].pc = "sleeping", ![l].polls = @ + 1]
            /\ UNCHANGED hazards
    /\ UNCHANGED <<owners, broken, setups, current, channel, pending, stopper,
                   backend>>

LoopUnservedForever(l) ==
    /\ loops[l].pc = "asking"
    /\ pending
    /\ loops' = [loops EXCEPT ![l].pc = "sleeping"]
    /\ UNCHANGED <<owners, broken, setups, current, channel, pending, stopper,
                   backend, hazards>>

\* The packager does not serve it: sleep again, or, after the last poll, throw
\* a rejection nobody handles and leave the id pending without a loop.
LoopUnserved(l) ==
    /\ loops[l].pc = "asking"
    /\ pending
    /\ IF loops[l].polls = MaxPolls
       THEN LoopEnds(l) /\ hazards' = hazards \cup {"gaveUp"}
       ELSE /\ loops' = [loops EXCEPT ![l].pc = "sleeping", ![l].polls = @ + 1]
            /\ UNCHANGED hazards
    /\ UNCHANGED <<owners, broken, setups, current, channel, pending, stopper,
                   backend>>

\* Mutant of ArmStop: the test for an entry is inverted.
ArmStopInverted(o) == IF stopper.pc # "none" THEN [pc |-> "armed", object |-> o]
                                             ELSE stopper

\* stop(): a no-op if the id has an entry, even one whose timer has fired.
ArmStop(o) == IF stopper.pc = "none" THEN [pc |-> "armed", object |-> o]
                                     ELSE stopper

\* The loop is between its two looks at channelsPendingStart.
Asking(l) == loops[l].pc = "asking"

\* Mutant of StopFires: the grace period is shorter than the sleep of a loop.
StopFiresEarly ==
    /\ stopper.pc = "armed"
    /\ channel' = [channel EXCEPT ![stopper.object] = Stopped(@)]
    /\ current' = None
    /\ stopper' = [pc |-> "fired", object |-> None]
    /\ hazards' = IF InProgress # {} \/ \E l \in Loops : Asking(l)
                  THEN hazards \cup {"removedInUse"} ELSE hazards
    /\ UNCHANGED <<owners, broken, setups, pending, loops, backend>>

\* The grace timer fires: removeChannel stops the object and deletes the id's
\* entry; the entry of channelsPendingStop stays, and nobody takes the lock.
\* Every sleep of a loop alive then was set before this timer for no longer
\* (wakeTime and playableTestInterval against stopGracePeriod), so it is over.
StopFires ==
    /\ stopper.pc = "armed"
    /\ \A l \in Loops : loops[l].pc # "sleeping"
    /\ channel' = [channel EXCEPT ![stopper.object] = Stopped(@)]
    /\ current' = None
    /\ stopper' = [pc |-> "fired", object |-> None]
    /\ hazards' = IF InProgress # {} \/ \E l \in Loops : Asking(l)
                  THEN hazards \cup {"removedInUse"} ELSE hazards
    /\ UNCHANGED <<owners, broken, setups, pending, loops, backend>>
-----------------------------------------------------------------------------
(* The requests: BusinessLogic.                                             *)

\* A request without the lock creates the channel and queues the call.
Authenticate ==
    \E o \in Objects :
        /\ GetChannel(o)
        /\ CanQueue(Found(o))
        /\ current' = o
        /\ channel' = [channel EXCEPT ![o] =
              Queued([Found(o) EXCEPT !.state = IF @ = "Stopped"
                                                THEN "Authenticated" ELSE @],
                     "authenticate")]
        /\ backend' = BackendFor(o)
        /\ UNCHANGED <<owners, broken, setups, pending, loops, stopper, hazards>>

\* lock() returns to a setup: in turn, or by a break-in.
Locked(s) ==
    \/ lock!Acquire(s) /\ UNCHANGED hazards
    \/ BreakIns /\ lock!BreakIn(s) /\ hazards' = hazards \cup {"brokeIn"}

\* setup up to its first await in the lock: the object of the channel.
SetupOpens(s, req) ==
    /\ setups[s].pc = "idle"
    /\ \E o \in Objects :
         /\ GetChannel(o)
         /\ current' = o
         /\ channel' = [channel EXCEPT ![o] = Found(o)]
         /\ setups' = [setups EXCEPT ![s] = [pc |-> "metadata", object |-> o,
                                             request |-> req]]
         /\ backend' = BackendFor(o)
    /\ UNCHANGED <<pending, loops, stopper>>

SetupBegins(s, req) == Locked(s) /\ SetupOpens(s, req)

\* The profile has come: configure the input and add its outputs.
MetadataArrives(s) ==
    LET o == setups[s].object
        req == setups[s].request IN
    /\ setups[s].pc = "metadata"
    /\ CanQueue(channel[o])
    /\ channel' = [channel EXCEPT ![o] =
                     AddOutputs(@, Configured(req, WhiteList(@.out, req)))]
    /\ setups' = [setups EXCEPT ![s].pc = "assign"]
    /\ UNCHANGED <<owners, broken, current, pending, loops, stopper, backend,
                   hazards>>

SetupEnds(s) == setups' = [setups EXCEPT ![s] = NoSetup]

\* Mutant of PackagerReady: the stop request is not cancelled.
PackagerReadyOnly(s) ==
    /\ setups[s].pc = "assign"
    /\ StartLoop(setups[s].object)
    /\ SetupEnds(s)
    /\ UNCHANGED <<current, channel, stopper, backend, hazards>>

\* A packager is ready and has been told of the outputs: the start is polled
\* for, the stop request of the id is cancelled or its entry cleared.
PackagerReady(s) ==
    /\ setups[s].pc = "assign"
    /\ StartLoop(setups[s].object)
    /\ stopper' = NoStop
    /\ SetupEnds(s)
    /\ UNCHANGED <<current, channel, backend, hazards>>

\* The profile or every try for a packager fails.  The exception is caught,
\* what has been done stays done.
SetupThrows(s) ==
    /\ setups[s].pc # "idle"
    /\ SetupEnds(s)
    /\ UNCHANGED <<current, channel, pending, loops, stopper, backend, hazards>>

\* Either way setup ends with unlock().
PackagerAssigned(s) == PackagerReady(s) /\ lock!Release(s)
SetupFails(s) == SetupThrows(s) /\ lock!Release(s)

\* lock() returns to a teardown, which holds the lock only while it runs.
LockedBriefly ==
    \/ owners = {} /\ UNCHANGED <<owners, broken, hazards>>
    \/ /\ owners # {}
       /\ BreakIns
       /\ broken' = TRUE
       /\ hazards' = hazards \cup {"brokeIn"}
       /\ UNCHANGED owners

\* Mutant of TracksRemoved: a start in progress is not cancelled.
TracksRemovedOnly(input, type) ==
    /\ \E o \in Objects :
         /\ GetChannel(o)
         /\ current' = o
         /\ LET ch == RemoveInput(Found(o), input, type) IN
            /\ channel' = [channel EXCEPT ![o] = ch]
            /\ stopper' = IF IsEmpty(ch.out) THEN ArmStop(o) ELSE stopper
         /\ backend' = BackendFor(o)
    /\ UNCHANGED <<setups, pending, loops>>

\* The input's tracks go; a channel left without any is not started any more
\* and waits out its grace period.
TracksRemoved(input, type) ==
    /\ \E o \in Objects :
         /\ GetChannel(o)
         /\ current' = o
         /\ LET ch == RemoveInput(Found(o), input, type) IN
            /\ channel' = [channel EXCEPT ![o] = ch]
            /\ pending' = (pending /\ ~IsEmpty(ch.out))
            /\ stopper' = IF IsEmpty(ch.out) THEN ArmStop(o) ELSE stopper
         /\ backend' = BackendFor(o)
    /\ UNCHANGED <<setups, loops>>

\* teardown has no await between lock() and unlock().
Teardown(input, type) == LockedBriefly /\ TracksRemoved(input, type)

Poll(l) == LoopWakes(l) \/ LoopCancelled(l) \/ LoopServed(l) \/ LoopUnserved(l)

Next ==
    \/ Authenticate
    \/ \E s \in Setups : \/ \E req \in Requests : SetupBegins(s, req)
                         \/ MetadataArrives(s)
                         \/ PackagerAssigned(s)
                         \/ SetupFails(s)
    \/ \E req \in Requests : Teardown(req.input, req.type)
    \/ \E l \in Loops : Poll(l)
    \/ StopFires
    \/ \E o \in Objects, ok \in BOOLEAN : BackendReplies(o, ok)

Spec == Init /\ [][Next]_vars

\* Timers fire and HTTP calls settle.  Nobody promises that clients call again
\* or that a packager becomes ready, so requests are not fair.
Fairness ==
    /\ \A l \in Loops : WF_vars(Poll(l))
    /\ WF_vars(StopFires)
    /\ \A o \in Objects : WF_vars(\E ok \in BOOLEAN : BackendReplies(o, ok))

FairSpec == Spec /\ Fairness
-----------------------------------------------------------------------------
\* The variables have their types.
TypeOK ==
    /\ owners \subseteq Setups /\ broken \in BOOLEAN
    /\ setups \in [Setups ->
          {NoSetup} \cup [pc : {"metadata", "assign"}, object : Objects,
                         request : Requests]]
    /\ current \in Objects \cup {None}
    /\ channel \in [Objects -> ChannelType]
    /\ pending \in BOOLEAN
    /\ loops \in [Loops ->
          {NoLoop} \cup [pc : {"sleeping", "asking"}, object : Objects,
                        polls : 1 .. MaxPolls]]
    /\ stopper \in [pc : {"armed"}, object : Objects]
                  \cup [pc : {"none", "fired"}, object : {None}]
    /\ backend \in [status : Calls \ {"authenticate"},
                    by : Objects \cup {None}]
    /\ hazards \subseteq {"brokeIn", "removedInUse", "gaveUp"}

\* A channel waiting out its grace period is not also being started, is not
\* playable, and is the one the timer will remove from the map: whatever
\* setups, teardowns and answers of the packager come in between, the timer
\* never takes a playable channel off the air.
StopSparesPlayable ==
    stopper.pc = "armed" =>
        /\ ~pending
        /\ stopper.object = current
        /\ channel[current].state # "Playable"

\* A channel whose start is pending is polled for, until a loop has used up its
\* retries: cancelling and restarting never leaves the id in the set with no
\* loop to take it out.
PendingIsPolled == pending => Running # {} \/ "gaveUp" \in hazards

\* Every request has a flavor of the profile to feed.
RequestsFeed == \A req \in Requests : Participating(req, {}) # {}

\* A channel whose start is pending has something to play, unless a lease ran
\* out or the grace timer removed the channel while it was in use.  Setup starts
\* the channel whatever the request was found to feed, so this is so of profiles
\* that have a flavor for every request.
PendingHasOutputs ==
    RequestsFeed /\ pending /\ hazards \subseteq {"gaveUp"} =>
        current # None /\ ~IsEmpty(channel[current].out)

\* Only the object the controller knows the channel by is playable, unless the
\* grace timer removed a channel that a setup or a poll was using.
PlayableIsCurrent ==
    "removedInUse" \notin hazards =>
        \A o \in Objects : channel[o].state = "Playable" => o = current

\* When the calls of the channel's object have all landed, the last has succeeded,
\* whatever became of those before it, and none of an earlier object has landed
\* after them, the backend has the status the controller believes the channel to
\* have.
BackendAgrees ==
    \A o \in {current} \ {None} :
        /\ channel[o].calls = <<>>
        /\ ~channel[o].failed
        /\ backend.by = o
        /\ channel[o].state \in {"Broadcasting", "Playable"}
        => backend.status = channel[o].state

\* A channel left without inputs.
Emptied == current # None /\ channel[current].state = "Suspended"

\* Such a channel waits out its grace period, or its id has the entry of an earlier,
\* fired timer, unless a lease ran out: no setup that fails, and none that has
\* cancelled the stop, leaves it behind without a timer.
EmptiedIsTimed ==
    Emptied /\ "brokeIn" \notin hazards => stopper.pc # "none"

\* A variant of an output has a track: removing inputs leaves no empty variant
\* that would keep a channel without tracks from being suspended.
NoEmptyVariant ==
    \A o \in Objects : \A v \in DOMAIN channel[o].out :
        HasTrack(channel[o].out[v])

\* After a teardown no variant that belongs to an input by its stream suffix has
\* a track of that type from it, in whatever order audio and video came.
TeardownIsComplete ==
    [][\A req \in Requests : Teardown(req.input, req.type) =>
         LET out == channel'[current'].out IN
         \A v \in DOMAIN out : Profile[v].input # None =>
             out[v].tracks[req.type] # req.input]_vars

\* The audio of an input that already feeds variants joins those and brings no
\* other flavor into the channel.
AudioKeepsVariants ==
    [][\A s \in Setups :
         LET o == setups[s].object
             req == setups[s].request IN
         /\ MetadataArrives(s)
         /\ req.type = "audio"
         /\ \E v \in DOMAIN channel[o].out : channel[o].out[v].inputId = req.input
         => DOMAIN channel'[o].out = DOMAIN channel[o].out]_vars

\* A pending start ends: served, cancelled, or given up by its loop.
StartEnds == pending ~> (~pending \/ "gaveUp" \in hazards)

\* A channel left without inputs is removed or gets inputs again, unless the
\* id's entry of an earlier, fired timer made stop() a no-op or a lease ran out.
EmptiedIsRemoved ==
    Emptied ~> (~Emptied \/ stopper.pc = "fired" \/ "brokeIn" \in hazards)
=============================================================================
