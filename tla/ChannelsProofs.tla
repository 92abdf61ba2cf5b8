--------------------------- MODULE ChannelsProofs ---------------------------
(***************************************************************************)
(* The life cycle of Channels.tla for any profile, any requests and any    *)
(* number of setups, polling loops and channel objects.  Shape, which      *)
(* types the objects and what refers to them, is under everything: what    *)
(* waits out its grace period (StopSparesPlayable), what a setup or a loop *)
(* refers to (UseInv), what is started (StartInv), which input a variant   *)
(* belongs to (OwnedInv), what the backend has been told (ToldInv) and who *)
(* works on an emptied channel (TimedInv) are each inductive relative to   *)
(* it and the ones before.                                                 *)
(***************************************************************************)
EXTENDS Channels, TLAPS
-----------------------------------------------------------------------------
(* What configuring, merging and removing do to outputs, for any profile.   *)

\* An output without empty variants.
Full(out) == \A v \in DOMAIN out : HasTrack(out[v])

\* An output is a function from some of the variants to their tracks.
LEMMA OutputIsFunction ==
  ASSUME NEW out
  PROVE  out \in OutputType <=>
           /\ DOMAIN out \subseteq Variants
           /\ out = [v \in DOMAIN out |-> out[v]]
           /\ \A v \in DOMAIN out : out[v] \in VariantType
<1>1. ASSUME out \in OutputType
      PROVE  /\ DOMAIN out \subseteq Variants
             /\ out = [v \in DOMAIN out |-> out[v]]
             /\ \A v \in DOMAIN out : out[v] \in VariantType
  <2>1. PICK V \in SUBSET Variants : out \in [V -> VariantType]
    BY <1>1 DEF OutputType
  <2> QED
    BY <2>1
<1>2. ASSUME DOMAIN out \subseteq Variants,
             out = [v \in DOMAIN out |-> out[v]],
             \A v \in DOMAIN out : out[v] \in VariantType
      PROVE  out \in OutputType
  <2>1. out \in [DOMAIN out -> VariantType]
    BY <1>2
  <2> QED
    BY <1>2, <2>1 DEF OutputType
<1> QED
  BY <1>1, <1>2

\* The output of a track nobody plays.
LEMMA NoOutputType == NoOutput \in OutputType /\ Full(NoOutput) /\ IsEmpty(NoOutput)
  BY OutputIsFunction DEF NoOutput, Full, IsEmpty

\* A request configures an output in which every variant has one track, from
\* the request's input.
LEMMA ConfiguredType ==
  ASSUME NEW req \in RequestType, NEW W
  PROVE  /\ Configured(req, W) \in OutputType
         /\ Full(Configured(req, W))
         /\ DOMAIN Configured(req, W) = Participating(req, W)
         /\ \A v \in Participating(req, W) :
              Configured(req, W)[v].inputId = req.input
<1> DEFINE new == Configured(req, W)
<1>1. req.input \in Inputs /\ req.type \in Types /\ req.input # None
  BY NoneAssumption DEF RequestType
<1>2. Participating(req, W) \subseteq Variants
  BY DEF Participating
<1>3. DOMAIN new = Participating(req, W)
  BY DEF Configured
<1>4. ASSUME NEW v \in Participating(req, W)
      PROVE  new[v] \in VariantType /\ HasTrack(new[v]) /\ new[v].inputId = req.input
  BY <1>1, <1>4 DEF Configured, VariantType, HasTrack
<1>5. new = [v \in DOMAIN new |-> new[v]]
  BY DEF Configured
<1> HIDE DEF new
<1>6. new \in OutputType /\ Full(new)
  BY <1>2, <1>3, <1>4, <1>5, OutputIsFunction DEF Full
<1> QED
  BY <1>3, <1>4, <1>6 DEF new

\* Merging outputs gives an output; it keeps the known variants' inputs, adds
\* the new variants and leaves no variant empty.
LEMMA MergeType ==
  ASSUME NEW out \in OutputType, NEW new \in OutputType
  PROVE  /\ Merge(out, new) \in OutputType
         /\ DOMAIN Merge(out, new) = DOMAIN out \cup DOMAIN new
         /\ Full(out) /\ Full(new) => Full(Merge(out, new))
         /\ \A v \in DOMAIN out : Merge(out, new)[v].inputId = out[v].inputId
<1> DEFINE both == Merge(out, new)
<1>1. /\ DOMAIN out \subseteq Variants /\ DOMAIN new \subseteq Variants
      /\ \A v \in DOMAIN out : out[v] \in VariantType
      /\ \A v \in DOMAIN new : new[v] \in VariantType
  BY OutputIsFunction
<1>2. DOMAIN both = DOMAIN out \cup DOMAIN new
  BY DEF Merge
<1>3. ASSUME NEW v \in DOMAIN both
      PROVE  /\ both[v] \in VariantType
             /\ v \in DOMAIN out => both[v].inputId = out[v].inputId
             /\ Full(out) /\ Full(new) => HasTrack(both[v])
  <2>1. CASE v \notin DOMAIN out
    BY <1>1, <1>2, <1>3, <2>1 DEF Merge, Full
  <2>2. CASE v \notin DOMAIN new
    BY <1>1, <1>2, <1>3, <2>2 DEF Merge, Full
  <2>3. CASE v \in DOMAIN out /\ v \in DOMAIN new
    <3>1. both[v] = [out[v] EXCEPT !.tracks =
                       [t \in Types |-> IF new[v].tracks[t] # None
                                        THEN new[v].tracks[t]
                                        ELSE out[v].tracks[t]]]
      BY <1>2, <2>3 DEF Merge
    <3>2. out[v] \in VariantType /\ new[v] \in VariantType
      BY <1>1, <2>3
    <3>3. Full(out) => \E t \in Types : out[v].tracks[t] # None
      BY <2>3 DEF Full, HasTrack
    <3> QED
      BY <2>3, <3>1, <3>2, <3>3 DEF VariantType, HasTrack
  <2> QED
    BY <2>1, <2>2, <2>3
<1>4. both = [v \in DOMAIN both |-> both[v]]
  BY DEF Merge
<1> HIDE DEF both
<1>5. both \in OutputType
  BY <1>1, <1>2, <1>3, <1>4, OutputIsFunction
<1>6. Full(out) /\ Full(new) => Full(both)
  BY <1>3 DEF Full
<1> QED
  BY <1>2, <1>3, <1>5, <1>6 DEF both

\* Removing an input's tracks of one type gives an output without empty
\* variants, in which none of the input's variants has a track of that type.
LEMMA RemoveType ==
  ASSUME NEW out \in OutputType, NEW input \in Inputs, NEW type \in Types
  PROVE  LET rest == RemoveInputTracks(out, input, type) IN
         /\ rest \in OutputType
         /\ Full(rest)
         /\ DOMAIN rest \subseteq DOMAIN out
         /\ \A v \in DOMAIN rest : /\ rest[v].inputId = out[v].inputId
                                   /\ rest[v].inputId = input =>
                                        rest[v].tracks[type] = None
<1> DEFINE stripped == Stripped(out, input, type)
           rest == RemoveInputTracks(out, input, type)
<1>1. /\ DOMAIN out \subseteq Variants
      /\ \A v \in DOMAIN out : out[v] \in VariantType
  BY OutputIsFunction
<1>2. ASSUME NEW v \in DOMAIN out
      PROVE  /\ stripped[v] \in VariantType
             /\ stripped[v].inputId = out[v].inputId
             /\ stripped[v].inputId = input => stripped[v].tracks[type] = None
  <2>1. out[v] \in VariantType
    BY <1>1
  <2> QED
    BY <2>1 DEF Stripped, VariantType
<1>3. rest = [v \in {w \in DOMAIN out : HasTrack(stripped[w])} |-> stripped[v]]
  BY DEF RemoveInputTracks
<1> HIDE DEF stripped, rest
<1>4. /\ DOMAIN rest = {w \in DOMAIN out : HasTrack(stripped[w])}
      /\ \A v \in DOMAIN rest : rest[v] = stripped[v]
      /\ rest = [v \in DOMAIN rest |-> rest[v]]
  BY <1>3
<1>5. rest \in OutputType
  BY <1>1, <1>2, <1>4, OutputIsFunction
<1>6. Full(rest)
  BY <1>4 DEF Full
<1> QED
  BY <1>2, <1>4, <1>5, <1>6 DEF rest
-----------------------------------------------------------------------------
(* The life cycle.                                                          *)

USE ChannelsAssumption DEF ChannelsAssumption

\* What the operations on one channel object return.
LEMMA NewChannelType ==
  /\ NewChannel \in ChannelType
  /\ NewChannel.state = "Stopped"
  /\ Full(NewChannel.out)
  BY NoOutputType DEF NewChannel, ChannelType, States

\* Queueing a call to the backend changes the queue only.
LEMMA QueuedType ==
  ASSUME NEW ch \in ChannelType, NEW call \in Calls
  PROVE  /\ Queued(ch, call) \in ChannelType
         /\ Queued(ch, call).state = ch.state
         /\ Queued(ch, call).out = ch.out
<1>1. Append(ch.calls, call) \in Seq(Calls)
  BY DEF ChannelType
<1> QED
  BY <1>1 DEF Queued, ChannelType

\* Setting the state and queueing a call.
LEMMA StateQueued ==
  ASSUME NEW ch \in ChannelType, NEW state \in States, NEW call \in Calls
  PROVE  /\ Queued([ch EXCEPT !.state = state], call) \in ChannelType
         /\ Queued([ch EXCEPT !.state = state], call).state = state
         /\ Queued([ch EXCEPT !.state = state], call).out = ch.out
<1> DEFINE set == [ch EXCEPT !.state = state]
<1>1. set \in ChannelType /\ set.state = state /\ set.out = ch.out
  BY DEF ChannelType
<1> HIDE DEF set
<1>2. /\ Queued(set, call) \in ChannelType
      /\ Queued(set, call).state = set.state
      /\ Queued(set, call).out = set.out
  BY <1>1, QueuedType
<1> QED
  BY <1>1, <1>2 DEF set

\* Marking a channel as broadcasting never makes it playable.
LEMMA MarkBroadcastingType ==
  ASSUME NEW ch \in ChannelType
  PROVE  /\ MarkBroadcasting(ch) \in ChannelType
         /\ MarkBroadcasting(ch).out = ch.out
         /\ ch.state # "Playable" => MarkBroadcasting(ch).state # "Playable"
<1>1. "Broadcasting" \in States /\ "Broadcasting" \in Calls
  BY DEF States, Calls
<1>2. CASE ch.state = "Playable"
  BY <1>2 DEF MarkBroadcasting
<1>3. CASE ch.state # "Playable"
  <2>1. MarkBroadcasting(ch) = Queued([ch EXCEPT !.state = "Broadcasting"],
                                      "Broadcasting")
    BY <1>3 DEF MarkBroadcasting
  <2> QED
    BY <1>1, <2>1, StateQueued
<1> QED
  BY <1>2, <1>3

\* Marking a channel as playable leaves its output alone.
LEMMA MarkPlayableType ==
  ASSUME NEW ch \in ChannelType
  PROVE  MarkPlayable(ch) \in ChannelType /\ MarkPlayable(ch).out = ch.out
  BY StateQueued DEF MarkPlayable, States, Calls

\* Stopping a channel leaves its output alone.
LEMMA StoppedType ==
  ASSUME NEW ch \in ChannelType
  PROVE  Stopped(ch) \in ChannelType /\ Stopped(ch).out = ch.out
  BY StateQueued DEF Stopped, States, Calls

\* A reply takes the call it answers off the queue, no more.
LEMMA RepliedType ==
  ASSUME NEW ch \in ChannelType, NEW ok \in BOOLEAN, ch.calls # <<>>
  PROVE  /\ Replied(ch, ok) \in ChannelType
         /\ Replied(ch, ok).out = ch.out
         /\ Replied(ch, ok).state = ch.state
<1> DEFINE calls == Tail(ch.calls)
           failed == IF Head(ch.calls) = "authenticate" THEN ch.failed ELSE ~ok
<1>1. calls \in Seq(Calls)
  BY DEF ChannelType
<1>2. failed \in BOOLEAN
  BY DEF ChannelType
<1>3. Replied(ch, ok) = [ch EXCEPT !.calls = calls, !.failed = failed]
  BY DEF Replied
<1> HIDE DEF calls, failed
<1> QED
  BY <1>1, <1>2, <1>3 DEF ChannelType

\* An output added to a channel keeps every variant's tracks; the channel is not playable by it.
LEMMA AddOutputsType ==
  ASSUME NEW ch \in ChannelType, NEW new \in OutputType, Full(new)
  PROVE  /\ AddOutputs(ch, new) \in ChannelType
         /\ Full(ch.out) => Full(AddOutputs(ch, new).out)
         /\ ch.state # "Playable" => AddOutputs(ch, new).state # "Playable"
<1> DEFINE marked == IF IsEmpty(ch.out) THEN MarkBroadcasting(ch) ELSE ch
<1>1. /\ marked \in ChannelType
      /\ marked.out = ch.out
      /\ ch.state # "Playable" => marked.state # "Playable"
  BY MarkBroadcastingType
<1>2. AddOutputs(ch, new) = [marked EXCEPT !.out = Merge(marked.out, new)]
  BY DEF AddOutputs
<1> HIDE DEF marked
<1>3. ch.out \in OutputType
  BY DEF ChannelType
<1>4. /\ Merge(ch.out, new) \in OutputType
      /\ Full(ch.out) => Full(Merge(ch.out, new))
  BY <1>3, MergeType
<1> QED
  BY <1>1, <1>2, <1>4 DEF ChannelType

\* An input's removal leaves no empty variant, and suspends a channel without output.
LEMMA RemoveInputType ==
  ASSUME NEW ch \in ChannelType, NEW input \in Inputs, NEW type \in Types
  PROVE  LET left == RemoveInput(ch, input, type) IN
         /\ left \in ChannelType
         /\ Full(left.out)
         /\ left.state = IF IsEmpty(left.out) THEN "Suspended" ELSE ch.state
<1> DEFINE out == RemoveInputTracks(ch.out, input, type)
<1>1. ch.out \in OutputType
  BY DEF ChannelType
<1>2. out \in OutputType /\ Full(out)
  BY <1>1, RemoveType
<1>3. RemoveInput(ch, input, type) =
        [ch EXCEPT !.out = out,
                   !.state = IF IsEmpty(out) THEN "Suspended" ELSE ch.state]
  BY DEF RemoveInput
<1> HIDE DEF out
<1>4. "Suspended" \in States
  BY DEF States
<1> QED
  BY <1>2, <1>3, <1>4 DEF ChannelType

\* The channel objects have their type and no empty variants.
ChannelsOK ==
    /\ current \in Objects \cup {None}
    /\ channel \in [Objects -> ChannelType]
    /\ \A o \in Objects : Full(channel[o].out)

\* The requests in progress refer to objects and to requests.
SetupsOK ==
    setups \in [Setups -> {NoSetup} \cup [pc : {"metadata", "assign"},
                                         object : Objects, request : Requests]]

LoopsOK ==
    loops \in [Loops -> {NoLoop} \cup [pc : {"sleeping", "asking"},
                                      object : Objects, polls : 1 .. MaxPolls]]

StopperOK == stopper \in [pc : {"armed"}, object : Objects]
                         \cup [pc : {"none", "fired"}, object : {None}]

Shape == ChannelsOK /\ SetupsOK /\ LoopsOK /\ StopperOK

\* What the registry finds is the channel, or a new and stopped one.
LEMMA FoundType ==
  ASSUME ChannelsOK, NEW o \in Objects
  PROVE  /\ Found(o) \in ChannelType
         /\ Full(Found(o).out)
         /\ Found(o).state = IF o = current THEN channel[o].state ELSE "Stopped"
  BY NewChannelType DEF Found, ChannelsOK

\* The first channel is found stopped, and nothing runs.
LEMMA ShapeInit == Init => Shape
  BY NewChannelType DEF Init, Shape, ChannelsOK, SetupsOK, LoopsOK, StopperOK,
                        NoStop

\* A step of a polling loop.
LEMMA ShapePoll ==
  ASSUME Shape, NEW l \in Loops, Poll(l)
  PROVE  Shape'
<1> USE DEF Shape
<1>1. loops[l] # NoLoop /\ loops[l].object \in Objects
  BY DEF Poll, LoopWakes, LoopCancelled, LoopServed, LoopUnserved, LoopsOK, NoLoop
<1>2. CASE LoopWakes(l)
  BY <1>2 DEF LoopWakes, LoopEnds, ChannelsOK, SetupsOK, LoopsOK, StopperOK, NoLoop
<1>3. CASE LoopCancelled(l)
  BY <1>3 DEF LoopCancelled, LoopEnds, ChannelsOK, SetupsOK, LoopsOK, StopperOK
<1>4. CASE LoopServed(l)
  <2>1. channel[loops[l].object] \in ChannelType
    BY <1>1 DEF ChannelsOK
  <2>2. /\ MarkPlayable(channel[loops[l].object]) \in ChannelType
        /\ MarkPlayable(channel[loops[l].object]).out = channel[loops[l].object].out
    BY <2>1, MarkPlayableType
  <2>3. ChannelsOK'
    BY <1>1, <1>4, <2>2 DEF LoopServed, ChannelsOK
  <2> QED
    BY <1>4, <2>3 DEF LoopServed, LoopEnds, SetupsOK, LoopsOK, StopperOK
<1>5. CASE LoopUnserved(l)
  <2>1. LoopsOK'
    BY <1>5 DEF LoopUnserved, LoopEnds, LoopsOK, NoLoop
  <2> QED
    BY <1>5, <2>1 DEF LoopUnserved, ChannelsOK, SetupsOK, StopperOK
<1> QED
  BY <1>2, <1>3, <1>4, <1>5 DEF Poll

\* A step of a request.
LEMMA ShapeRequest ==
  ASSUME Shape,
         \/ Authenticate
         \/ \E s \in Setups : \/ \E req \in Requests : SetupBegins(s, req)
                              \/ MetadataArrives(s)
                              \/ PackagerAssigned(s)
                              \/ SetupFails(s)
         \/ \E req \in Requests : Teardown(req.input, req.type)
  PROVE  Shape'
<1> USE DEF Shape
<1>1. CASE Authenticate
  <2>1. PICK o \in Objects :
          /\ current' = o
          /\ channel' = [channel EXCEPT ![o] =
                Queued([Found(o) EXCEPT !.state = IF Found(o).state = "Stopped"
                                                  THEN "Authenticated"
                                                  ELSE Found(o).state],
                       "authenticate")]
    BY <1>1 DEF Authenticate
  <2> DEFINE state == IF Found(o).state = "Stopped" THEN "Authenticated"
                                                    ELSE Found(o).state
  <2>2. Found(o) \in ChannelType /\ Full(Found(o).out)
    BY FoundType
  <2>3. state \in States /\ "authenticate" \in Calls
    BY <2>2 DEF ChannelType, States, Calls
  <2> HIDE DEF state
  <2>4. /\ Queued([Found(o) EXCEPT !.state = state], "authenticate") \in ChannelType
        /\ Queued([Found(o) EXCEPT !.state = state], "authenticate").out
             = Found(o).out
    BY <2>2, <2>3, StateQueued
  <2>5. ChannelsOK'
    BY <2>1, <2>2, <2>4 DEF ChannelsOK, state
  <2> QED
    BY <1>1, <2>5 DEF Authenticate, SetupsOK, LoopsOK, StopperOK
<1>2. ASSUME NEW s \in Setups, NEW req \in Requests, SetupBegins(s, req)
      PROVE  Shape'
  <2>1. PICK o \in Objects :
          /\ current' = o
          /\ channel' = [channel EXCEPT ![o] = Found(o)]
          /\ setups' = [setups EXCEPT ![s] = [pc |-> "metadata", object |-> o,
                                              request |-> req]]
    BY <1>2 DEF SetupBegins, SetupOpens
  <2>2. ChannelsOK'
    BY <2>1, FoundType DEF ChannelsOK
  <2>3. SetupsOK'
    BY <2>1 DEF SetupsOK
  <2> QED
    BY <1>2, <2>2, <2>3 DEF SetupBegins, SetupOpens, LoopsOK, StopperOK
<1>3. ASSUME NEW s \in Setups, MetadataArrives(s) PROVE Shape'
  <2> DEFINE o == setups[s].object
             req == setups[s].request
             new == Configured(req, WhiteList(channel[o].out, req))
  <2>1. setups[s].pc = "metadata" /\ o \in Objects /\ req \in Requests
    BY <1>3 DEF MetadataArrives, SetupsOK, NoSetup
  <2>2. req \in RequestType
    BY <2>1
  <2>3. channel[o] \in ChannelType /\ Full(channel[o].out)
    BY <2>1 DEF ChannelsOK
  <2>4. new \in OutputType /\ Full(new)
    BY <2>2, ConfiguredType
  <2>5. /\ channel' = [channel EXCEPT ![o] = AddOutputs(channel[o], new)]
        /\ setups' = [setups EXCEPT ![s].pc = "assign"]
    BY <1>3 DEF MetadataArrives
  <2> HIDE DEF new
  <2>6. AddOutputs(channel[o], new) \in ChannelType
        /\ Full(AddOutputs(channel[o], new).out)
    BY <2>3, <2>4, AddOutputsType
  <2>7. ChannelsOK'
    BY <1>3, <2>1, <2>5, <2>6 DEF ChannelsOK, MetadataArrives
  <2>8. SetupsOK'
    BY <2>1, <2>5 DEF SetupsOK, NoSetup
  <2> QED
    BY <1>3, <2>7, <2>8 DEF MetadataArrives, LoopsOK, StopperOK
<1>4. ASSUME NEW s \in Setups, PackagerAssigned(s) PROVE Shape'
  <2>1. SetupsOK'
    BY <1>4 DEF PackagerAssigned, PackagerReady, SetupEnds, SetupsOK
  <2>2. setups[s].object \in Objects
    BY <1>4 DEF PackagerAssigned, PackagerReady, SetupsOK, NoSetup
  <2>3. LoopsOK'
    <3>1. CASE pending
      BY <1>4, <3>1 DEF PackagerAssigned, PackagerReady, StartLoop, LoopsOK
    <3>2. CASE ~pending
      <4>1. PICK l \in Loops :
              loops' = [loops EXCEPT ![l] = [NoLoop EXCEPT !.pc = "sleeping",
                                              !.object = setups[s].object]]
        BY <1>4, <3>2 DEF PackagerAssigned, PackagerReady, StartLoop
      <4>2. 1 \in 1 .. MaxPolls
        OBVIOUS
      <4>3. [NoLoop EXCEPT !.pc = "sleeping", !.object = setups[s].object]
              \in [pc : {"sleeping", "asking"}, object : Objects,
                   polls : 1 .. MaxPolls]
        BY <2>2, <4>2 DEF NoLoop
      <4> QED
        BY <4>1, <4>3 DEF LoopsOK
    <3> QED
      BY <3>1, <3>2
  <2>4. StopperOK'
    BY <1>4 DEF PackagerAssigned, PackagerReady, StopperOK, NoStop
  <2> QED
    BY <1>4, <2>1, <2>3, <2>4 DEF PackagerAssigned, PackagerReady, ChannelsOK
<1>5. ASSUME NEW s \in Setups, SetupFails(s) PROVE Shape'
  BY <1>5 DEF SetupFails, SetupThrows, SetupEnds, SetupsOK, ChannelsOK, LoopsOK,
              StopperOK
<1>6. ASSUME NEW req \in Requests, Teardown(req.input, req.type) PROVE Shape'
  <2>1. req.input \in Inputs /\ req.type \in Types
    BY DEF RequestType
  <2>2. PICK o \in Objects :
          LET ch == RemoveInput(Found(o), req.input, req.type) IN
          /\ current' = o
          /\ channel' = [channel EXCEPT ![o] = ch]
          /\ stopper' = IF IsEmpty(ch.out) THEN ArmStop(o) ELSE stopper
    BY <1>6 DEF Teardown, TracksRemoved
  <2>3. /\ RemoveInput(Found(o), req.input, req.type) \in ChannelType
        /\ Full(RemoveInput(Found(o), req.input, req.type).out)
    BY <2>1, FoundType, RemoveInputType
  <2>4. ChannelsOK'
    BY <2>2, <2>3 DEF ChannelsOK
  <2>5. StopperOK'
    BY <2>2 DEF StopperOK, ArmStop
  <2> QED
    BY <1>6, <2>4, <2>5 DEF Teardown, TracksRemoved, SetupsOK, LoopsOK
<1> QED
  BY <1>1, <1>2, <1>3, <1>4, <1>5, <1>6

\* A step of the grace timer or of the backend.
LEMMA ShapeRest ==
  ASSUME Shape,
         StopFires \/ \E o \in Objects, ok \in BOOLEAN : BackendReplies(o, ok)
  PROVE  Shape'
<1> USE DEF Shape
<1>1. CASE StopFires
  <2>1. stopper.object \in Objects
    BY <1>1 DEF StopFires, StopperOK
  <2>2. Stopped(channel[stopper.object]) \in ChannelType
        /\ Full(Stopped(channel[stopper.object]).out)
    BY <2>1, StoppedType DEF ChannelsOK
  <2>3. ChannelsOK'
    BY <1>1, <2>1, <2>2 DEF StopFires, ChannelsOK
  <2> QED
    BY <1>1, <2>3 DEF StopFires, SetupsOK, LoopsOK, StopperOK
<1>2. ASSUME NEW o \in Objects, NEW ok \in BOOLEAN, BackendReplies(o, ok)
      PROVE  Shape'
  <2>1. channel[o] \in ChannelType /\ channel[o].calls # <<>>
    BY <1>2 DEF BackendReplies, ChannelsOK
  <2>2. Replied(channel[o], ok) \in ChannelType
        /\ Replied(channel[o], ok).out = channel[o].out
    BY <2>1, RepliedType
  <2>3. channel' = [channel EXCEPT ![o] = NewChannel]
        \/ channel' = [channel EXCEPT ![o] = Replied(channel[o], ok)]
    BY <1>2 DEF BackendReplies
  <2>4. ChannelsOK'
    BY <1>2, <2>2, <2>3, NewChannelType DEF BackendReplies, ChannelsOK
  <2> QED
    BY <1>2, <2>4 DEF BackendReplies, SetupsOK, LoopsOK, StopperOK
<1> QED
  BY <1>1, <1>2

\* Poll, the request handlers and the timers keep the shape.
LEMMA ShapeStep == Shape /\ [Next]_vars => Shape'
<1> SUFFICES ASSUME Shape, [Next]_vars PROVE Shape'
  OBVIOUS
<1>1. CASE UNCHANGED vars
  BY <1>1 DEF vars, Shape, ChannelsOK, SetupsOK, LoopsOK, StopperOK
<1>2. CASE Next
  BY <1>2, ShapePoll, ShapeRequest, ShapeRest DEF Next
<1> QED
  BY <1>1, <1>2

\* Every channel, set-up, loop and timer keeps its shape, from which TypeOK follows.
THEOREM ShapeInvariant == Spec => []Shape
  BY ShapeInit, ShapeStep, PTL DEF Spec

\* No output of any channel object has a variant without tracks.
THEOREM NoVariantEmpty == Spec => []NoEmptyVariant
<1>1. Shape => NoEmptyVariant
  BY DEF Shape, ChannelsOK, NoEmptyVariant, Full
<1> QED
  BY <1>1, ShapeInvariant, PTL

\* The object the channel's id has stays the same unless there was none.
LEMMA SameObject ==
  ASSUME ChannelsOK, NEW o \in Objects, GetChannel(o), current # None
  PROVE  o = current
  BY DEF GetChannel

\* What waits out its grace period is not pending and not playable, and no step
\* makes it so.
LEMMA SparedStep ==
  ASSUME Shape, StopSparesPlayable, [Next]_vars
  PROVE  StopSparesPlayable'
<1> USE DEF Shape
<1> None \notin Objects
  BY DEF Objects
<1>1. CASE UNCHANGED vars
  BY <1>1 DEF vars, StopSparesPlayable
<1>2. CASE Authenticate
  <2>1. PICK o \in Objects :
          /\ GetChannel(o)
          /\ current' = o
          /\ channel' = [channel EXCEPT ![o] =
                Queued([Found(o) EXCEPT !.state = IF Found(o).state = "Stopped"
                                                  THEN "Authenticated"
                                                  ELSE Found(o).state],
                       "authenticate")]
    BY <1>2 DEF Authenticate
  <2> DEFINE state == IF Found(o).state = "Stopped" THEN "Authenticated"
                                                    ELSE Found(o).state
  <2>2. Found(o) \in ChannelType
    BY FoundType
  <2>3. state \in States /\ "authenticate" \in Calls
    BY <2>2 DEF ChannelType, States, Calls
  <2>4. ASSUME stopper.pc = "armed"
        PROVE  o = current /\ state # "Playable"
    BY <2>1, <2>4, FoundType, SameObject DEF StopSparesPlayable, StopperOK
  <2> HIDE DEF state
  <2>5. Queued([Found(o) EXCEPT !.state = state], "authenticate").state = state
    BY <2>2, <2>3, StateQueued
  <2>6. stopper.pc = "armed" => channel'[o].state # "Playable"
    BY <2>1, <2>4, <2>5 DEF ChannelsOK, state
  <2> QED
    BY <1>2, <2>1, <2>4, <2>6 DEF Authenticate, StopSparesPlayable
<1>3. ASSUME NEW s \in Setups, NEW req \in Requests, SetupBegins(s, req)
      PROVE  StopSparesPlayable'
  <2>1. PICK o \in Objects :
          /\ GetChannel(o)
          /\ current' = o
          /\ channel' = [channel EXCEPT ![o] = Found(o)]
    BY <1>3 DEF SetupBegins, SetupOpens
  <2>2. stopper.pc = "armed" => o = current /\ Found(o) = channel[current]
    BY <2>1, SameObject DEF StopSparesPlayable, StopperOK, Found
  <2> QED
    BY <1>3, <2>1, <2>2 DEF SetupBegins, SetupOpens, StopSparesPlayable, ChannelsOK
<1>4. ASSUME NEW s \in Setups, MetadataArrives(s) PROVE StopSparesPlayable'
  <2> DEFINE o == setups[s].object
             req == setups[s].request
             new == Configured(req, WhiteList(channel[o].out, req))
  <2>1. o \in Objects /\ req \in RequestType
    BY <1>4 DEF MetadataArrives, SetupsOK, NoSetup
  <2>2. channel' = [channel EXCEPT ![o] = AddOutputs(channel[o], new)]
    BY <1>4 DEF MetadataArrives
  <2>3. new \in OutputType /\ Full(new) /\ channel[o] \in ChannelType
    BY <2>1, ConfiguredType DEF ChannelsOK
  <2> HIDE DEF new
  <2>4. channel[o].state # "Playable"
          => AddOutputs(channel[o], new).state # "Playable"
    BY <2>3, AddOutputsType
  <2> QED
    BY <1>4, <2>1, <2>2, <2>4 DEF MetadataArrives, StopSparesPlayable, ChannelsOK
<1>5. ASSUME NEW s \in Setups, PackagerAssigned(s) PROVE StopSparesPlayable'
  BY <1>5 DEF PackagerAssigned, PackagerReady, NoStop, StopSparesPlayable
<1>6. ASSUME NEW s \in Setups, SetupFails(s) PROVE StopSparesPlayable'
  BY <1>6 DEF SetupFails, SetupThrows, StopSparesPlayable
<1>7. ASSUME NEW req \in Requests, Teardown(req.input, req.type)
      PROVE  StopSparesPlayable'
  <2>1. req.input \in Inputs /\ req.type \in Types
    BY DEF RequestType
  <2>2. PICK o \in Objects :
          LET ch == RemoveInput(Found(o), req.input, req.type) IN
          /\ GetChannel(o)
          /\ current' = o
          /\ channel' = [channel EXCEPT ![o] = ch]
          /\ pending' = (pending /\ ~IsEmpty(ch.out))
          /\ stopper' = IF IsEmpty(ch.out) THEN ArmStop(o) ELSE stopper
    BY <1>7 DEF Teardown, TracksRemoved
  <2> DEFINE ch == RemoveInput(Found(o), req.input, req.type)
  <2>3. ch.state = IF IsEmpty(ch.out) THEN "Suspended" ELSE Found(o).state
    BY <2>1, FoundType, RemoveInputType
  <2>4. ASSUME stopper.pc = "armed"
        PROVE  o = current /\ ~pending /\ Found(o).state # "Playable"
    BY <2>2, <2>4, FoundType, SameObject DEF StopSparesPlayable, StopperOK
  <2> HIDE DEF ch
  <2>5. channel'[o] = ch
    BY <2>2 DEF ch, ChannelsOK
  <2>6. CASE IsEmpty(ch.out)
    <3>1. ~pending' /\ stopper' = ArmStop(o) /\ current' = o
      BY <2>2, <2>6 DEF ch
    <3>2. channel'[current'].state = "Suspended"
      BY <2>3, <2>5, <2>6, <3>1
    <3>3. stopper'.pc = "armed" => stopper'.object = o
      BY <2>4, <3>1 DEF ArmStop, StopSparesPlayable
    <3> QED
      BY <3>1, <3>2, <3>3 DEF StopSparesPlayable
  <2>7. CASE ~IsEmpty(ch.out)
    <3>1. (pending' => pending) /\ stopper' = stopper /\ current' = o
      BY <2>2, <2>7 DEF ch
    <3>2. channel'[current'].state = Found(o).state
      BY <2>3, <2>5, <2>7, <3>1
    <3> QED
      BY <2>4, <3>1, <3>2 DEF StopSparesPlayable
  <2> QED
    BY <2>6, <2>7
<1>8. ASSUME NEW l \in Loops, Poll(l) PROVE StopSparesPlayable'
  BY <1>8 DEF Poll, LoopWakes, LoopCancelled, LoopServed, LoopUnserved,
              StopSparesPlayable
<1>9. CASE StopFires
  BY <1>9 DEF StopFires, StopSparesPlayable
<1>10. ASSUME NEW o \in Objects, NEW ok \in BOOLEAN, BackendReplies(o, ok)
       PROVE  StopSparesPlayable'
  <2>1. channel[o] \in ChannelType /\ channel[o].calls # <<>>
    BY <1>10 DEF BackendReplies, ChannelsOK
  <2>2. channel[o].state # "Playable" => channel'[o].state # "Playable"
    BY <1>10, <2>1, NewChannelType, RepliedType DEF BackendReplies, ChannelsOK
  <2> QED
    BY <1>10, <2>2 DEF BackendReplies, StopSparesPlayable, ChannelsOK
<1> QED
  BY <1>1, <1>2, <1>3, <1>4, <1>5, <1>6, <1>7, <1>8, <1>9, <1>10 DEF Next

\* The grace timer never takes a playable channel off the air.
THEOREM StopIsSafe == Spec => []StopSparesPlayable
<1>1. Init => StopSparesPlayable
  BY DEF Init, NoStop, StopSparesPlayable
<1>2. Shape /\ StopSparesPlayable /\ [Next]_vars => StopSparesPlayable'
  BY SparedStep
<1> QED
  BY <1>1, <1>2, ShapeInvariant, PTL DEF Spec

\* A pending start has a loop until one has used up its retries.
THEOREM StartIsPolled == Spec => []PendingIsPolled
<1>1. Init => PendingIsPolled
  BY DEF Init, PendingIsPolled
<1>2. ASSUME Shape, PendingIsPolled, [Next]_vars
      PROVE  PendingIsPolled'
  <2> USE DEF Shape
  <2>1. ASSUME NEW l \in Loops, Poll(l) PROVE PendingIsPolled'
    <3>1. loops[l].pc # "none" /\ loops[l].polls \in 1 .. MaxPolls
      BY <1>2, <2>1 DEF Poll, LoopWakes, LoopCancelled, LoopServed, LoopUnserved,
                  LoopsOK, NoLoop
    <3>2. CASE ~pending'
      BY <3>2 DEF PendingIsPolled
    <3>3. ASSUME pending'
          PROVE  loops'[l].pc # "none" \/ "gaveUp" \in hazards'
      <4>1. CASE LoopWakes(l)
        BY <1>2, <3>3, <4>1 DEF LoopWakes, LoopsOK, NoLoop
      <4>2. CASE LoopUnserved(l)
        BY <1>2, <4>2 DEF LoopUnserved, LoopsOK, NoLoop
      <4>3. ~LoopCancelled(l) /\ ~LoopServed(l)
        BY <3>3 DEF LoopCancelled, LoopServed
      <4> QED
        BY <2>1, <4>1, <4>2, <4>3 DEF Poll
    <3>4. loops'[l].pc # "none" \/ "gaveUp" \in hazards' => PendingIsPolled'
      BY DEF PendingIsPolled, Running
    <3> QED
      BY <3>2, <3>3, <3>4
  <2>2. ASSUME NEW s \in Setups, PackagerAssigned(s) PROVE PendingIsPolled'
    <3>1. CASE pending
      BY <1>2, <2>2, <3>1 DEF PackagerAssigned, PackagerReady, StartLoop,
                              PendingIsPolled, Running
    <3>2. CASE ~pending
      <4>1. PICK l \in Loops :
              loops' = [loops EXCEPT ![l] = [NoLoop EXCEPT !.pc = "sleeping",
                                              !.object = setups[s].object]]
        BY <2>2, <3>2 DEF PackagerAssigned, PackagerReady, StartLoop
      <4>2. loops'[l].pc = "sleeping"
        BY <1>2, <4>1 DEF LoopsOK, NoLoop
      <4> QED
        BY <4>2 DEF PendingIsPolled, Running
    <3> QED
      BY <3>1, <3>2
  <2>3. ASSUME loops' = loops, pending' => pending, hazards \subseteq hazards'
        PROVE  PendingIsPolled'
    BY <1>2, <2>3 DEF PendingIsPolled, Running
  <2>4. CASE UNCHANGED vars
    BY <2>3, <2>4 DEF vars
  <2>5. CASE Authenticate
    BY <2>3, <2>5 DEF Authenticate
  <2>6. ASSUME NEW s \in Setups, NEW req \in Requests, SetupBegins(s, req)
        PROVE  PendingIsPolled'
    BY <2>3, <2>6 DEF SetupBegins, SetupOpens, Locked
  <2>7. ASSUME NEW s \in Setups, MetadataArrives(s) \/ SetupFails(s)
        PROVE  PendingIsPolled'
    BY <2>3, <2>7 DEF MetadataArrives, SetupFails, SetupThrows
  <2>8. ASSUME NEW req \in Requests, Teardown(req.input, req.type)
        PROVE  PendingIsPolled'
    BY <2>3, <2>8 DEF Teardown, TracksRemoved, LockedBriefly
  <2>9. CASE StopFires
    BY <2>3, <2>9 DEF StopFires
  <2>10. ASSUME NEW o \in Objects, NEW ok \in BOOLEAN, BackendReplies(o, ok)
         PROVE  PendingIsPolled'
    BY <2>3, <2>10 DEF BackendReplies
  <2> QED
    BY <1>2, <2>1, <2>2, <2>4, <2>5, <2>6, <2>7, <2>8, <2>9, <2>10 DEF Next
<1> QED
  BY <1>1, <1>2, ShapeInvariant, PTL DEF Spec

\* The variables Shape says nothing of.
OwnersOK == owners \subseteq Setups /\ broken \in BOOLEAN

BackendOK == backend \in [status : Calls \ {"authenticate"},
                          by : Objects \cup {None}]

HistoryOK == /\ pending \in BOOLEAN
             /\ hazards \subseteq {"brokeIn", "removedInUse", "gaveUp"}

\* What a reply leaves at the backend names the channel that asked for it.
LEMMA BackendForType ==
  ASSUME BackendOK, NEW o \in Objects
  PROVE  BackendFor(o) \in [status : Calls \ {"authenticate"},
                            by : Objects \cup {None}]
  BY DEF BackendOK, BackendFor

\* The lock's owner and holders keep their type.
LEMMA OwnersStep ==
  ASSUME OwnersOK, [Next]_vars
  PROVE  OwnersOK'
  BY DEF OwnersOK, Next, vars, Authenticate, SetupBegins, SetupOpens, Locked,
         lock!Acquire,
         lock!BreakIn, lock!Release, MetadataArrives, PackagerAssigned, PackagerReady,
         SetupFails, SetupThrows, SetupEnds, Teardown, TracksRemoved, LockedBriefly,
         Poll, LoopWakes,
         LoopCancelled, LoopServed, LoopUnserved, StopFires, BackendReplies

\* The backend changes by a reply to the call it was sent.
LEMMA BackendStep ==
  ASSUME Shape, BackendOK, [Next]_vars
  PROVE  BackendOK'
<1>1. ASSUME NEW o \in Objects, backend' = BackendFor(o)
      PROVE  BackendOK'
  BY <1>1, BackendForType DEF BackendOK
<1>2. ASSUME UNCHANGED backend
      PROVE  BackendOK'
  BY <1>2 DEF BackendOK
<1>3. ASSUME NEW o \in Objects, NEW ok \in BOOLEAN, BackendReplies(o, ok)
      PROVE  BackendOK'
  <2>1. channel[o].calls \in Seq(Calls) /\ channel[o].calls # <<>>
    BY <1>3 DEF BackendReplies, Shape, ChannelsOK, ChannelType
  <2>2. Head(channel[o].calls) \in Calls
    BY <2>1
  <2> QED
    BY <1>3, <2>2 DEF BackendReplies, BackendOK
<1>4. CASE Authenticate
  BY <1>1, <1>4 DEF Authenticate
<1>5. ASSUME NEW s \in Setups, NEW req \in Requests, SetupBegins(s, req)
      PROVE  BackendOK'
  BY <1>1, <1>5 DEF SetupBegins, SetupOpens
<1>6. ASSUME NEW s \in Setups,
             MetadataArrives(s) \/ PackagerAssigned(s) \/ SetupFails(s)
      PROVE  BackendOK'
  BY <1>2, <1>6 DEF MetadataArrives, PackagerAssigned, PackagerReady, SetupFails,
                    SetupThrows
<1>7. ASSUME NEW req \in Requests, Teardown(req.input, req.type)
      PROVE  BackendOK'
  BY <1>1, <1>7 DEF Teardown, TracksRemoved
<1>8. ASSUME NEW l \in Loops, Poll(l) PROVE BackendOK'
  BY <1>2, <1>8 DEF Poll, LoopWakes, LoopCancelled, LoopServed, LoopUnserved
<1>9. CASE StopFires \/ UNCHANGED vars
  BY <1>2, <1>9 DEF StopFires, vars
<1> QED
  BY <1>3, <1>4, <1>5, <1>6, <1>7, <1>8, <1>9 DEF Next

\* The history variables keep their type.
LEMMA HistoryStep ==
  ASSUME HistoryOK, [Next]_vars
  PROVE  HistoryOK'
<1>1. hazards' \subseteq {"brokeIn", "removedInUse", "gaveUp"}
  BY DEF HistoryOK, Next, vars, Authenticate, SetupBegins, SetupOpens, Locked,
         MetadataArrives, PackagerAssigned, PackagerReady, SetupFails, SetupThrows,
         Teardown, TracksRemoved,
         LockedBriefly, Poll, LoopWakes, LoopCancelled, LoopServed,
         LoopUnserved, StopFires, BackendReplies
<1>2. pending' \in BOOLEAN
  <2>1. ASSUME NEW req \in Requests, Teardown(req.input, req.type)
        PROVE  pending' \in BOOLEAN
    BY <2>1 DEF Teardown, TracksRemoved
  <2>2. ASSUME NEW s \in Setups, PackagerAssigned(s)
        PROVE  pending' \in BOOLEAN
    BY <2>2 DEF PackagerAssigned, PackagerReady, StartLoop, HistoryOK
  <2>3. ASSUME NEW l \in Loops, Poll(l)
        PROVE  pending' \in BOOLEAN
    BY <2>3 DEF Poll, LoopWakes, LoopCancelled, LoopServed, LoopUnserved,
                HistoryOK
  <2>4. ASSUME pending' = pending
        PROVE  pending' \in BOOLEAN
    BY <2>4 DEF HistoryOK
  <2>5. CASE UNCHANGED vars
    BY <2>4, <2>5 DEF vars
  <2>6. CASE Authenticate \/ StopFires
    BY <2>4, <2>6 DEF Authenticate, StopFires
  <2>7. ASSUME NEW s \in Setups,
               \/ \E req \in Requests : SetupBegins(s, req)
               \/ MetadataArrives(s)
               \/ SetupFails(s)
        PROVE  pending' \in BOOLEAN
    BY <2>4, <2>7 DEF SetupBegins, SetupOpens, MetadataArrives, SetupFails, SetupThrows
  <2>8. ASSUME NEW o \in Objects, NEW ok \in BOOLEAN, BackendReplies(o, ok)
        PROVE  pending' \in BOOLEAN
    BY <2>4, <2>8 DEF BackendReplies
  <2> QED
    BY <2>1, <2>2, <2>3, <2>5, <2>6, <2>7, <2>8 DEF Next
<1> QED
  BY <1>1, <1>2 DEF HistoryOK

\* Every variable keeps its type.
THEOREM TypeCorrectness == Spec => []TypeOK
<1> DEFINE Rest == OwnersOK /\ BackendOK /\ HistoryOK
<1>1. ASSUME Init PROVE Rest
  <2>1. OwnersOK
    BY <1>1 DEF Init, lock!LockInit, OwnersOK
  <2>2. BackendOK
    BY <1>1 DEF Init, BackendOK, Calls
  <2>3. HistoryOK
    BY <1>1 DEF Init, HistoryOK
  <2> QED
    BY <2>1, <2>2, <2>3
<1>2. Shape /\ Rest /\ [Next]_vars => Rest'
  BY OwnersStep, BackendStep, HistoryStep
<1>3. Shape /\ Rest => TypeOK
  BY DEF Shape, ChannelsOK, SetupsOK, LoopsOK, StopperOK, OwnersOK, BackendOK,
         HistoryOK, TypeOK
<1> QED
  BY <1>1, <1>2, <1>3, ShapeInvariant, PTL DEF Spec
-----------------------------------------------------------------------------
\* What setups and polling loops refer to is the channel the id has now, and no
\* other is playable.
InUse ==
    /\ \A s \in InProgress : setups[s].object = current
    /\ \A l \in Running : loops[l].object = current

UseInv == "removedInUse" \notin hazards => InUse /\ PlayableIsCurrent

\* A channel is set up by one request at a time, and has an output when it is
\* given to a packager and while its start is polled for.
Exclusive ==
    /\ ~broken
    /\ \A s, t \in owners : s = t

HasOutputs ==
    /\ \A s \in InProgress :
          setups[s].pc = "assign" => ~IsEmpty(channel[setups[s].object].out)
    /\ pending => current # None /\ ~IsEmpty(channel[current].out)

StartInv ==
    /\ owners = InProgress
    /\ hazards \subseteq {"gaveUp"} => Exclusive /\ HasOutputs

\* The last call of a queue that reports a status reports this one.
LastIs(calls, state) ==
    \A i \in DOMAIN calls : calls[i] # "authenticate" =>
        \/ calls[i] = state
        \/ \E j \in DOMAIN calls : j > i /\ calls[j] # "authenticate"

Silent(calls) == \A i \in DOMAIN calls : calls[i] = "authenticate"

OnAir == {"Broadcasting", "Playable"}

\* The last status an object on the air has reported, or is about to, is its own.
\* Without the calls there is nothing to tell.
Told(o, ch, b) ==
    /\ ~Reporting => ch.calls = <<>> /\ b.by = None
    /\ ch.state \in OnAir =>
          /\ LastIs(ch.calls, ch.state)
          /\ Silent(ch.calls) /\ ~ch.failed /\ b.by = o => b.status = ch.state

ToldInv == \A o \in Objects : Told(o, channel[o], backend)

\* A variant made for one input belongs to it and is fed by no other.
Owned(out) ==
    \A v \in DOMAIN out : Profile[v].input # None =>
        /\ out[v].inputId = Profile[v].input
        /\ \A t \in Types : out[v].tracks[t] \in {None, Profile[v].input}

OwnedInv == \A o \in Objects : Owned(channel[o].out)

\* What has happened is not forgotten.
LEMMA HazardsGrow == [Next]_vars => hazards \subseteq hazards'
  BY DEF Next, vars, Authenticate, SetupBegins, SetupOpens, Locked, MetadataArrives,
         PackagerAssigned, PackagerReady, SetupFails, SetupThrows, Teardown,
         TracksRemoved, LockedBriefly, Poll, LoopWakes,
         LoopCancelled, LoopServed, LoopUnserved, StopFires, BackendReplies

\* A step that names the channel's object and may change that one.
LEMMA NamesObject ==
  ASSUME Shape, InUse, \A p \in Objects : channel[p].state = "Playable" => p = current,
         NEW o \in Objects, GetChannel(o), current' = o,
         \A p \in Objects : p # o => channel'[p] = channel[p],
         \A s \in InProgress' : \/ setups'[s].object = o
                                \/ s \in InProgress /\ setups'[s] = setups[s],
         loops' = loops
  PROVE  InUse' /\ \A p \in Objects : channel'[p].state = "Playable" => p = current'
<1>1. None \notin Objects
  BY DEF Objects
<1>2. CASE current # None
  BY <1>2 DEF GetChannel, InUse, Running
<1>3. CASE current = None
  <2>1. InProgress = {} /\ Running = {}
    <3>1. \A s \in InProgress : setups[s].object \in Objects
      BY DEF InProgress, Shape, SetupsOK, NoSetup
    <3>2. \A l \in Running : loops[l].object \in Objects
      BY DEF Running, Shape, LoopsOK, NoLoop
    <3> QED
      BY <1>1, <1>3, <3>1, <3>2 DEF InUse
  <2>2. \A p \in Objects : channel[p].state # "Playable"
    BY <1>1, <1>3
  <2> QED
    BY <2>1, <2>2 DEF InUse, Running
<1> QED
  BY <1>2, <1>3

\* No step makes an object playable, or has one used, that the id does not have.
LEMMA UseStep ==
  ASSUME Shape, StopSparesPlayable, UseInv, [Next]_vars
  PROVE  UseInv'
<1> SUFFICES ASSUME "removedInUse" \notin hazards'
             PROVE  InUse' /\ PlayableIsCurrent'
  BY DEF UseInv
<1> DEFINE Named == \A p \in Objects : channel[p].state = "Playable" => p = current
<1>0. InUse /\ Named
  BY HazardsGrow DEF UseInv, PlayableIsCurrent
<1> SUFFICES InUse' /\ Named'
  BY DEF PlayableIsCurrent
<1>1. ASSUME current' = current,
             \A s \in InProgress' : setups'[s].object = current,
             \A l \in Running' : loops'[l].object = current,
             \A p \in Objects : channel'[p].state = "Playable" =>
                                    channel[p].state = "Playable" \/ p = current
      PROVE  InUse' /\ Named'
  BY <1>0, <1>1 DEF InUse
<1>2. setups' = setups => \A s \in InProgress' : setups'[s].object = current
  BY <1>0 DEF InUse, InProgress
<1>3. loops' = loops => \A l \in Running' : loops'[l].object = current
  BY <1>0 DEF InUse, Running
<1>4. CASE UNCHANGED vars
  BY <1>1, <1>2, <1>3, <1>4 DEF vars
<1>5. CASE Authenticate
  <2>1. PICK o \in Objects :
          /\ GetChannel(o)
          /\ current' = o
          /\ \A p \in Objects : p # o => channel'[p] = channel[p]
    BY <1>5 DEF Authenticate, Shape, ChannelsOK
  <2>2. UNCHANGED <<setups, loops>>
    BY <1>5 DEF Authenticate
  <2> QED
    BY <1>0, <2>1, <2>2, NamesObject DEF InProgress
<1>6. ASSUME NEW s \in Setups, NEW req \in Requests, SetupBegins(s, req)
      PROVE  InUse' /\ Named'
  <2>1. PICK o \in Objects :
          /\ GetChannel(o)
          /\ current' = o
          /\ \A p \in Objects : p # o => channel'[p] = channel[p]
          /\ setups' = [setups EXCEPT ![s] = [pc |-> "metadata", object |-> o,
                                              request |-> req]]
          /\ loops' = loops
    BY <1>6 DEF SetupBegins, SetupOpens, Shape, ChannelsOK
  <2>2. \A t \in InProgress' : \/ setups'[t].object = o
                               \/ t \in InProgress /\ setups'[t] = setups[t]
    BY <2>1 DEF InProgress, Shape, SetupsOK
  <2> QED
    BY <1>0, <2>1, <2>2, NamesObject
<1>7. ASSUME NEW s \in Setups, MetadataArrives(s) PROVE InUse' /\ Named'
  <2>1. /\ setups[s].pc = "metadata" /\ setups' = [setups EXCEPT ![s].pc = "assign"]
        /\ \A p \in Objects : p # setups[s].object => channel'[p] = channel[p]
        /\ current' = current /\ loops' = loops
    BY <1>7 DEF MetadataArrives, Shape, ChannelsOK
  <2>2. s \in InProgress
    BY <2>1 DEF InProgress
  <2>3. \A t \in InProgress' : t \in InProgress /\ setups'[t].object = setups[t].object
    BY <2>1, <2>2 DEF InProgress, Shape, SetupsOK, NoSetup
  <2> QED
    BY <1>0, <1>1, <1>3, <2>1, <2>2, <2>3 DEF InUse
<1>8. ASSUME NEW s \in Setups, PackagerAssigned(s) \/ SetupFails(s)
      PROVE  InUse' /\ Named'
  <2>1. /\ setups[s].pc # "idle" /\ setups' = [setups EXCEPT ![s] = NoSetup]
        /\ current' = current /\ channel' = channel
    BY <1>8 DEF PackagerAssigned, PackagerReady, SetupFails, SetupThrows, SetupEnds
  <2>2. \A t \in InProgress' : setups'[t].object = current
    BY <1>0, <2>1 DEF InUse, InProgress, NoSetup, Shape, SetupsOK
  <2>3. \A l \in Running' : loops'[l].object = current
    <3>1. CASE loops' = loops
      BY <1>3, <3>1
    <3>2. CASE loops' # loops
      <4>1. PICK l \in Loops :
              loops' = [loops EXCEPT ![l] = [NoLoop EXCEPT !.pc = "sleeping",
                                              !.object = setups[s].object]]
        BY <1>8, <3>2 DEF PackagerAssigned, PackagerReady, SetupFails, SetupThrows,
                          StartLoop
      <4>2. setups[s].object = current
        BY <1>0, <2>1 DEF InUse, InProgress
      <4> QED
        BY <1>0, <4>1, <4>2 DEF InUse, Running, NoLoop, Shape, LoopsOK
    <3> QED
      BY <3>1, <3>2
  <2> QED
    BY <1>1, <2>1, <2>2, <2>3
<1>9. ASSUME NEW req \in Requests, Teardown(req.input, req.type)
      PROVE  InUse' /\ Named'
  <2>1. PICK o \in Objects :
          /\ GetChannel(o)
          /\ current' = o
          /\ \A p \in Objects : p # o => channel'[p] = channel[p]
    BY <1>9 DEF Teardown, TracksRemoved, Shape, ChannelsOK
  <2>2. UNCHANGED <<setups, loops>>
    BY <1>9 DEF Teardown, TracksRemoved
  <2> QED
    BY <1>0, <2>1, <2>2, NamesObject DEF InProgress
<1>10. ASSUME NEW l \in Loops, Poll(l) PROVE InUse' /\ Named'
  <2>1. /\ loops[l].pc # "none"
        /\ current' = current /\ setups' = setups
        /\ \A p \in Objects : p # loops[l].object => channel'[p] = channel[p]
    BY <1>10 DEF Poll, LoopWakes, LoopCancelled, LoopServed, LoopUnserved, Shape,
                 ChannelsOK
  <2>2. \A m \in Running' : m \in Running /\ loops'[m].object = loops[m].object
    BY <1>10, <2>1 DEF Poll, LoopWakes, LoopCancelled, LoopServed, LoopUnserved,
                       LoopEnds, Running, NoLoop, Shape, LoopsOK
  <2>3. loops[l].object = current
    BY <1>0, <2>1 DEF InUse, Running
  <2> QED
    BY <1>0, <1>1, <1>2, <2>1, <2>2, <2>3 DEF InUse
<1>11. CASE StopFires
  <2>1. /\ stopper.pc = "armed" /\ stopper.object = current
        /\ UNCHANGED <<setups, loops>>
        /\ \A p \in Objects : p # current => channel'[p] = channel[p]
        /\ channel' = [channel EXCEPT ![current] = Stopped(channel[current])]
    BY <1>11 DEF StopFires, StopSparesPlayable, Shape, ChannelsOK
  <2>2. InProgress = {} /\ \A l \in Loops : ~Asking(l)
    BY <1>11 DEF StopFires
  <2>3. Running = {}
    <3>1. \A l \in Loops : loops[l].pc \in {"none", "sleeping", "asking"}
      BY DEF Shape, LoopsOK, NoLoop
    <3> QED
      BY <1>11, <2>2, <3>1 DEF StopFires, Asking, Running
  <2>4. \A p \in Objects : channel'[p].state # "Playable"
    <3>1. current \in Objects
      BY <2>1 DEF Shape, StopperOK
    <3>2. channel[current] \in ChannelType
      BY <3>1 DEF Shape, ChannelsOK
    <3>3. Stopped(channel[current]).state = "Stopped"
      BY <3>2, StateQueued DEF Stopped, States, Calls
    <3>4. channel'[current].state = "Stopped"
      BY <2>1, <3>1, <3>3 DEF Shape, ChannelsOK
    <3> QED
      BY <1>0, <2>1, <3>4
  <2> QED
    BY <2>1, <2>2, <2>3, <2>4 DEF InUse, InProgress, Running
<1>12. ASSUME NEW o \in Objects, NEW ok \in BOOLEAN, BackendReplies(o, ok)
       PROVE  InUse' /\ Named'
  <2>1. channel[o] \in ChannelType /\ channel[o].calls # <<>>
    BY <1>12 DEF BackendReplies, Shape, ChannelsOK
  <2>2. \A p \in Objects : channel'[p].state = "Playable" => channel[p].state = "Playable"
    BY <1>12, <2>1, NewChannelType, RepliedType DEF BackendReplies, Shape, ChannelsOK
  <2> QED
    BY <1>1, <1>2, <1>3, <1>12, <2>2 DEF BackendReplies
<1> QED
  BY <1>4, <1>5, <1>6, <1>7, <1>8, <1>9, <1>10, <1>11, <1>12 DEF Next

\* What setups and loops refer to is the channel, until it is removed in use.
THEOREM UseInvariant == Spec => []UseInv
<1>1. Init => UseInv
  BY DEF Init, UseInv, InUse, InProgress, Running, NoSetup, NoLoop,
         PlayableIsCurrent, NewChannel
<1>2. Shape /\ StopSparesPlayable /\ UseInv /\ [Next]_vars => UseInv'
  BY UseStep
<1> QED
  BY <1>1, <1>2, ShapeInvariant, StopIsSafe, PTL DEF Spec

(* Only the object the controller knows the channel by is playable, unless    *)
(* the grace timer removed a channel that a setup or a poll was using         *)
(* (KalturaDAL.removeChannel takes no lock).                                  *)
THEOREM OnlyCurrentPlays == Spec => []PlayableIsCurrent
<1>1. UseInv => PlayableIsCurrent
  BY DEF UseInv, PlayableIsCurrent
<1> QED
  BY <1>1, UseInvariant, PTL
-----------------------------------------------------------------------------
\* Adding an output merges it into the channel's.
LEMMA AddOutputsOut ==
  ASSUME NEW ch \in ChannelType, NEW new \in OutputType
  PROVE  AddOutputs(ch, new).out = Merge(ch.out, new)
<1> DEFINE marked == IF IsEmpty(ch.out) THEN MarkBroadcasting(ch) ELSE ch
<1>1. marked \in ChannelType /\ marked.out = ch.out
  BY MarkBroadcastingType
<1>2. AddOutputs(ch, new) = [marked EXCEPT !.out = Merge(marked.out, new)]
  BY DEF AddOutputs
<1> HIDE DEF marked
<1> QED
  BY <1>1, <1>2 DEF ChannelType

\* The requests between lock() and unlock() are the owners of the lock.
LEMMA OwnersAreInside ==
  ASSUME Shape, owners = InProgress, [Next]_vars
  PROVE  owners' = InProgress'
<1>1. ASSUME UNCHANGED <<owners, setups>> PROVE owners' = InProgress'
  BY <1>1 DEF InProgress
<1>2. ASSUME NEW s \in Setups, NEW req \in Requests, SetupBegins(s, req)
      PROVE  owners' = InProgress'
  <2>1. owners' = owners \cup {s}
    BY <1>2 DEF SetupBegins, SetupOpens, Locked, lock!Acquire, lock!BreakIn
  <2>2. PICK o \in Objects :
          setups' = [setups EXCEPT ![s] = [pc |-> "metadata", object |-> o,
                                           request |-> req]]
    BY <1>2 DEF SetupBegins, SetupOpens
  <2> QED
    BY <2>1, <2>2 DEF InProgress, Shape, SetupsOK
<1>3. ASSUME NEW s \in Setups, MetadataArrives(s) PROVE owners' = InProgress'
  BY <1>3 DEF MetadataArrives, InProgress, Shape, SetupsOK, NoSetup
<1>4. ASSUME NEW s \in Setups, PackagerAssigned(s) \/ SetupFails(s)
      PROVE  owners' = InProgress'
  BY <1>4 DEF PackagerAssigned, PackagerReady, SetupFails, SetupThrows, SetupEnds,
              lock!Release, InProgress, Shape,
              SetupsOK, NoSetup
<1>5. ASSUME NEW req \in Requests, Teardown(req.input, req.type)
      PROVE  owners' = InProgress'
  <2>1. owners' = owners /\ setups' = setups
    BY <1>5 DEF Teardown, TracksRemoved, LockedBriefly
  <2> QED
    BY <1>1, <2>1
<1>6. CASE UNCHANGED vars \/ Authenticate \/ StopFires
  BY <1>1, <1>6 DEF vars, Authenticate, StopFires
<1>7. ASSUME NEW l \in Loops, Poll(l) PROVE owners' = InProgress'
  BY <1>1, <1>7 DEF Poll, LoopWakes, LoopCancelled, LoopServed, LoopUnserved
<1>8. ASSUME NEW o \in Objects, NEW ok \in BOOLEAN, BackendReplies(o, ok)
      PROVE  owners' = InProgress'
  BY <1>1, <1>8 DEF BackendReplies
<1> QED
  BY <1>2, <1>3, <1>4, <1>5, <1>6, <1>7, <1>8 DEF Next

\* While no lease has run out the lock is a mutex.
LEMMA ExclusiveStep ==
  ASSUME Exclusive, "brokeIn" \notin hazards', [Next]_vars
  PROVE  Exclusive'
<1>1. ASSUME UNCHANGED <<owners, broken>> PROVE Exclusive'
  BY <1>1 DEF Exclusive
<1>2. ASSUME NEW s \in Setups, NEW req \in Requests, SetupBegins(s, req)
      PROVE  Exclusive'
  BY <1>2 DEF SetupBegins, SetupOpens, Locked, lock!Acquire, Exclusive
<1>3. ASSUME NEW s \in Setups, PackagerAssigned(s) \/ SetupFails(s) PROVE Exclusive'
  BY <1>3 DEF PackagerAssigned, PackagerReady, SetupFails, SetupThrows, SetupEnds,
              lock!Release, Exclusive
<1>4. ASSUME NEW req \in Requests, Teardown(req.input, req.type) PROVE Exclusive'
  BY <1>1, <1>4 DEF Teardown, TracksRemoved, LockedBriefly
<1>5. CASE UNCHANGED vars \/ Authenticate \/ StopFires
  BY <1>1, <1>5 DEF vars, Authenticate, StopFires
<1>6. ASSUME NEW l \in Loops, Poll(l) PROVE Exclusive'
  BY <1>1, <1>6 DEF Poll, LoopWakes, LoopCancelled, LoopServed, LoopUnserved
<1>7. ASSUME NEW o \in Objects, NEW ok \in BOOLEAN, BackendReplies(o, ok)
      PROVE  Exclusive'
  BY <1>1, <1>7 DEF BackendReplies
<1>8. ASSUME NEW s \in Setups, MetadataArrives(s) PROVE Exclusive'
  BY <1>1, <1>8 DEF MetadataArrives
<1> QED
  BY <1>2, <1>3, <1>4, <1>5, <1>6, <1>7, <1>8 DEF Next

\* A step after which the channel's object still has an output if it had one.
LEMMA OutputsStay ==
  ASSUME Shape, InUse, HasOutputs, pending' => pending,
         current # None => current' = current,
         \A s \in InProgress' : setups'[s].pc = "assign" =>
             s \in InProgress /\ setups'[s] = setups[s],
         \A p \in Objects : p = current /\ ~IsEmpty(channel[p].out) =>
             ~IsEmpty(channel'[p].out)
  PROVE  HasOutputs'
<1>1. \A s \in InProgress : setups[s].object = current /\ current # None
  <2>1. \A s \in InProgress : setups[s].object \in Objects
    BY DEF InProgress, Shape, SetupsOK, NoSetup
  <2> QED
    BY <2>1 DEF InUse, Objects
<1>2. ASSUME NEW s \in InProgress', setups'[s].pc = "assign"
      PROVE  ~IsEmpty(channel'[setups'[s].object].out)
  <2>1. /\ setups'[s] = setups[s] /\ setups[s].object = current
        /\ ~IsEmpty(channel[current].out) /\ current \in Objects
    BY <1>1, <1>2 DEF HasOutputs, Shape, ChannelsOK
  <2> QED
    BY <2>1
<1>3. pending' => current' # None /\ ~IsEmpty(channel'[current'].out)
  <2>1. pending => current # None /\ current \in Objects /\ ~IsEmpty(channel[current].out)
    BY DEF HasOutputs, Shape, ChannelsOK
  <2> QED
    BY <2>1
<1> QED
  BY <1>2, <1>3 DEF HasOutputs

\* A channel that is given to a packager, or polled for, has an output.
LEMMA StartStep ==
  ASSUME RequestsFeed, Shape, StopSparesPlayable, UseInv, StartInv, [Next]_vars
  PROVE  StartInv'
<1>1. owners' = InProgress'
  BY OwnersAreInside DEF StartInv
<1> SUFFICES ASSUME hazards' \subseteq {"gaveUp"} PROVE Exclusive' /\ HasOutputs'
  BY <1>1 DEF StartInv
<1>2. Exclusive /\ HasOutputs /\ InUse /\ owners = InProgress
  BY HazardsGrow DEF StartInv, UseInv
<1>3. Exclusive'
  BY <1>2, ExclusiveStep
<1> SUFFICES HasOutputs'
  BY <1>3
<1>4. setups' = setups =>
        \A s \in InProgress' : setups'[s].pc = "assign" =>
            s \in InProgress /\ setups'[s] = setups[s]
  BY DEF InProgress
<1>5. \A o \in Objects : GetChannel(o) /\ current # None => o = current
  BY DEF GetChannel
<1>6. CASE UNCHANGED vars
  BY <1>2, <1>6 DEF vars, HasOutputs, InProgress
<1>7. CASE Authenticate
  <2>1. PICK o \in Objects :
          /\ GetChannel(o)
          /\ current' = o
          /\ channel' = [channel EXCEPT ![o] =
                Queued([Found(o) EXCEPT !.state = IF Found(o).state = "Stopped"
                                                  THEN "Authenticated"
                                                  ELSE Found(o).state],
                       "authenticate")]
    BY <1>7 DEF Authenticate
  <2> DEFINE state == IF Found(o).state = "Stopped" THEN "Authenticated"
                                                    ELSE Found(o).state
  <2>2. Found(o) \in ChannelType
    BY FoundType DEF Shape
  <2>3. state \in States /\ "authenticate" \in Calls
    BY <2>2 DEF ChannelType, States, Calls
  <2> HIDE DEF state
  <2>4. Queued([Found(o) EXCEPT !.state = state], "authenticate").out = Found(o).out
    BY <2>2, <2>3, StateQueued
  <2>5. o = current => channel'[o].out = channel[o].out
    BY <2>1, <2>4 DEF Found, Shape, ChannelsOK, state
  <2>6. pending' = pending /\ setups' = setups
    BY <1>7 DEF Authenticate
  <2>7. \A p \in Objects : p = current /\ ~IsEmpty(channel[p].out) =>
            ~IsEmpty(channel'[p].out)
    BY <1>5, <2>1, <2>5 DEF Objects
  <2> QED
    BY <1>2, <1>3, <1>4, <1>5, <2>1, <2>6, <2>7, OutputsStay
<1>8. ASSUME NEW s \in Setups, NEW req \in Requests, SetupBegins(s, req)
      PROVE  HasOutputs'
  <2>1. PICK o \in Objects :
          /\ GetChannel(o)
          /\ current' = o
          /\ channel' = [channel EXCEPT ![o] = Found(o)]
          /\ setups' = [setups EXCEPT ![s] = [pc |-> "metadata", object |-> o,
                                              request |-> req]]
    BY <1>8 DEF SetupBegins, SetupOpens
  <2>2. \A p \in Objects : p = current => channel'[p].out = channel[p].out
    BY <2>1 DEF Found, Shape, ChannelsOK
  <2>3. \A t \in InProgress' : setups'[t].pc = "assign" =>
            t \in InProgress /\ setups'[t] = setups[t]
    BY <2>1 DEF InProgress, Shape, SetupsOK
  <2>4. pending' = pending
    BY <1>8 DEF SetupBegins, SetupOpens
  <2> QED
    BY <1>2, <1>5, <2>1, <2>2, <2>3, <2>4, OutputsStay
<1>9. ASSUME NEW s \in Setups, MetadataArrives(s) PROVE HasOutputs'
  <2> DEFINE o == setups[s].object
             req == setups[s].request
             W == WhiteList(channel[o].out, req)
             new == Configured(req, W)
  <2>1. setups[s].pc = "metadata" /\ o \in Objects /\ req \in Requests /\ s \in InProgress
    BY <1>9 DEF MetadataArrives, Shape, SetupsOK, NoSetup, InProgress
  <2>2. channel[o] \in ChannelType /\ req \in RequestType
    BY <2>1 DEF Shape, ChannelsOK
  <2>3. new \in OutputType /\ DOMAIN new = Participating(req, W)
    BY <2>2, ConfiguredType
  <2>4. channel' = [channel EXCEPT ![o] = AddOutputs(channel[o], new)]
    BY <1>9 DEF MetadataArrives
  <2>5. W # {} => DOMAIN channel[o].out # {}
    BY DEF WhiteList
  <2>6. W = {} => Participating(req, W) # {}
    BY <2>1 DEF RequestsFeed
  <2> HIDE DEF new, W, req
  <2>7. channel'[o].out = Merge(channel[o].out, new)
    BY <2>1, <2>2, <2>3, <2>4, AddOutputsOut DEF Shape, ChannelsOK
  <2>8. DOMAIN Merge(channel[o].out, new) = DOMAIN channel[o].out \cup DOMAIN new
    BY DEF Merge
  <2>9. ~IsEmpty(channel'[o].out)
    BY <2>3, <2>5, <2>6, <2>7, <2>8 DEF IsEmpty
  <2>10. o = current /\ current' = current /\ pending' = pending
    BY <1>2, <1>9, <2>1 DEF InUse, MetadataArrives
  <2>11. setups' = [setups EXCEPT ![s].pc = "assign"]
    BY <1>9 DEF MetadataArrives
  <2>12. \A t \in InProgress' : t \in InProgress /\ setups'[t].object = current
    BY <1>2, <2>1, <2>11 DEF InUse, InProgress, Shape, SetupsOK, NoSetup
  <2> QED
    BY <1>2, <2>9, <2>10, <2>12 DEF HasOutputs
<1>10. ASSUME NEW s \in Setups, PackagerAssigned(s) PROVE HasOutputs'
  <2>1. /\ setups[s].pc = "assign" /\ setups' = [setups EXCEPT ![s] = NoSetup]
        /\ current' = current /\ channel' = channel
    BY <1>10 DEF PackagerAssigned, PackagerReady, SetupEnds
  <2>2. s \in InProgress
    BY <2>1 DEF InProgress
  <2>3. setups[s].object = current /\ ~IsEmpty(channel[current].out) /\ current # None
    <3>1. setups[s].object \in Objects
      BY <2>1 DEF Shape, SetupsOK, NoSetup
    <3> QED
      BY <1>2, <2>1, <2>2, <3>1 DEF InUse, HasOutputs, Objects
  <2>4. \A t \in InProgress' : t \in InProgress /\ setups'[t] = setups[t]
    BY <2>1 DEF InProgress, NoSetup, Shape, SetupsOK
  <2> QED
    BY <1>2, <2>1, <2>3, <2>4 DEF HasOutputs
<1>11. ASSUME NEW s \in Setups, SetupFails(s) PROVE HasOutputs'
  <2>1. /\ setups' = [setups EXCEPT ![s] = NoSetup]
        /\ UNCHANGED <<current, channel, pending>>
    BY <1>11 DEF SetupFails, SetupThrows, SetupEnds
  <2>2. \A t \in InProgress' : t \in InProgress /\ setups'[t] = setups[t]
    BY <2>1 DEF InProgress, NoSetup, Shape, SetupsOK
  <2> QED
    BY <1>2, <2>1, <2>2, OutputsStay
<1>12. ASSUME NEW req \in Requests, Teardown(req.input, req.type) PROVE HasOutputs'
  <2>1. owners = {} /\ setups' = setups
    BY <1>12 DEF Teardown, TracksRemoved, LockedBriefly
  <2>2. InProgress' = {}
    BY <1>2, <2>1 DEF InProgress
  <2>3. PICK o \in Objects :
          LET ch == RemoveInput(Found(o), req.input, req.type) IN
          /\ current' = o
          /\ channel' = [channel EXCEPT ![o] = ch]
          /\ pending' = (pending /\ ~IsEmpty(ch.out))
    BY <1>12 DEF Teardown, TracksRemoved
  <2>4. pending' => current' # None /\ ~IsEmpty(channel'[current'].out)
    BY <2>3 DEF Shape, ChannelsOK, Objects
  <2> QED
    BY <2>2, <2>4 DEF HasOutputs
<1>13. ASSUME NEW l \in Loops, Poll(l) PROVE HasOutputs'
  <2>1. UNCHANGED <<current, setups>> /\ (pending' => pending)
    BY <1>13 DEF Poll, LoopWakes, LoopCancelled, LoopServed, LoopUnserved
  <2>2. \A p \in Objects : channel'[p].out = channel[p].out
    <3>1. CASE channel' = channel
      BY <3>1
    <3>2. CASE LoopServed(l)
      <4>1. loops[l].object \in Objects
        BY <3>2 DEF LoopServed, Shape, LoopsOK, NoLoop
      <4>2. channel[loops[l].object] \in ChannelType
        BY <4>1 DEF Shape, ChannelsOK
      <4>3. MarkPlayable(channel[loops[l].object]).out = channel[loops[l].object].out
        BY <4>2, MarkPlayableType
      <4> QED
        BY <3>2, <4>1, <4>3 DEF LoopServed, Shape, ChannelsOK
    <3> QED
      BY <1>13, <3>1, <3>2 DEF Poll, LoopWakes, LoopCancelled, LoopUnserved
  <2> QED
    BY <1>2, <1>4, <2>1, <2>2, OutputsStay
<1>14. CASE StopFires
  <2>1. InProgress = {} /\ ~pending /\ setups' = setups /\ pending' = pending
    BY <1>14 DEF StopFires, StopSparesPlayable
  <2> QED
    BY <2>1 DEF HasOutputs, InProgress
<1>15. ASSUME NEW o \in Objects, NEW ok \in BOOLEAN, BackendReplies(o, ok)
       PROVE  HasOutputs'
  <2>1. channel[o] \in ChannelType /\ channel[o].calls # <<>>
    BY <1>15 DEF BackendReplies, Shape, ChannelsOK
  <2>2. \A p \in Objects : p = current => channel'[p].out = channel[p].out
    BY <1>15, <2>1, RepliedType DEF BackendReplies, Dropped, Shape, ChannelsOK
  <2>3. UNCHANGED <<current, setups, pending>>
    BY <1>15 DEF BackendReplies
  <2> QED
    BY <1>2, <1>4, <2>2, <2>3, OutputsStay
<1> QED
  BY <1>6, <1>7, <1>8, <1>9, <1>10, <1>11, <1>12, <1>13, <1>14, <1>15 DEF Next

(* A channel whose start is pending has something to play, unless a lease ran *)
(* out or the grace timer removed the channel while it was in use, in a        *)
(* profile with a flavor for every request: while the lock is a mutex, nobody  *)
(* takes away what a setup has merged in before it has begun the start.        *)
THEOREM PendingPlays == Spec => []PendingHasOutputs
<1>1. CASE RequestsFeed
  <2>1. Init => StartInv
    BY DEF Init, StartInv, Exclusive, HasOutputs, InProgress, NoSetup, lock!LockInit
  <2>2. Shape /\ StopSparesPlayable /\ UseInv /\ StartInv /\ [Next]_vars => StartInv'
    BY <1>1, StartStep
  <2>3. StartInv => PendingHasOutputs
    BY DEF StartInv, HasOutputs, PendingHasOutputs
  <2> QED
    BY <2>1, <2>2, <2>3, UseInvariant, ShapeInvariant, StopIsSafe, PTL DEF Spec
<1>2. CASE ~RequestsFeed
  <2>1. PendingHasOutputs
    BY <1>2 DEF PendingHasOutputs
  <2> QED
    BY <2>1, PTL
<1> QED
  BY <1>1, <1>2
-----------------------------------------------------------------------------
(* The audio of an input that already feeds variants joins those and brings   *)
(* no other flavor into the channel: its white list is not empty, and what a   *)
(* request takes part in is in the list.                                       *)
THEOREM AudioJoinsVariants == Spec => AudioKeepsVariants
<1>1. ASSUME Shape, NEW s \in Setups, MetadataArrives(s),
             setups[s].request.type = "audio",
             \E v \in DOMAIN channel[setups[s].object].out :
                channel[setups[s].object].out[v].inputId = setups[s].request.input
      PROVE  DOMAIN channel'[setups[s].object].out = DOMAIN channel[setups[s].object].out
  <2> DEFINE o == setups[s].object
             req == setups[s].request
             W == WhiteList(channel[o].out, req)
             new == Configured(req, W)
  <2>1. o \in Objects /\ req \in RequestType
    BY <1>1 DEF MetadataArrives, Shape, SetupsOK, NoSetup
  <2>2. channel[o] \in ChannelType /\ channel[o].out \in OutputType
    BY <1>1, <2>1 DEF Shape, ChannelsOK, ChannelType
  <2>3. W # {} /\ W \subseteq DOMAIN channel[o].out
    BY <1>1 DEF WhiteList
  <2>4. DOMAIN new \subseteq W
    BY <2>3 DEF Configured, Participating
  <2>5. new \in OutputType
    BY <2>1, ConfiguredType
  <2>6. channel' = [channel EXCEPT ![o] = AddOutputs(channel[o], new)]
    BY <1>1 DEF MetadataArrives
  <2> HIDE DEF new, W, req, o
  <2>7. channel'[o].out = Merge(channel[o].out, new)
    BY <1>1, <2>1, <2>2, <2>5, <2>6, AddOutputsOut DEF Shape, ChannelsOK
  <2>8. DOMAIN Merge(channel[o].out, new) = DOMAIN channel[o].out
    BY <2>3, <2>4 DEF Merge
  <2> QED
    BY <2>7, <2>8 DEF o
<1>2. Shape /\ [Next]_vars =>
        [\A s \in Setups :
           LET o == setups[s].object
               req == setups[s].request IN
           /\ MetadataArrives(s)
           /\ req.type = "audio"
           /\ \E v \in DOMAIN channel[o].out : channel[o].out[v].inputId = req.input
           => DOMAIN channel'[o].out = DOMAIN channel[o].out]_vars
  BY <1>1
<1> QED
  BY <1>2, ShapeInvariant, PTL DEF Spec, AudioKeepsVariants
-----------------------------------------------------------------------------
\* What a request configures belongs to its own input.
LEMMA ConfiguredOwned ==
  ASSUME NEW req \in RequestType, NEW W
  PROVE  Owned(Configured(req, W))
<1>1. \A v \in Participating(req, W) : Profile[v].input \in {None, req.input}
  BY DEF Participating
<1> QED
  BY <1>1 DEF Owned, Configured

\* Merging keeps every variant with the input it was made for.
LEMMA MergeOwned ==
  ASSUME NEW out \in OutputType, NEW new \in OutputType, Owned(out), Owned(new)
  PROVE  Owned(Merge(out, new))
<1> DEFINE both == Merge(out, new)
<1>1. DOMAIN both = DOMAIN out \cup DOMAIN new
  BY DEF Merge
<1>2. /\ \A v \in DOMAIN out : out[v] \in VariantType
      /\ \A v \in DOMAIN new : new[v] \in VariantType
  BY OutputIsFunction
<1>3. ASSUME NEW v \in DOMAIN both, Profile[v].input # None
      PROVE  /\ both[v].inputId = Profile[v].input
             /\ \A t \in Types : both[v].tracks[t] \in {None, Profile[v].input}
  <2>1. CASE v \notin DOMAIN out \/ v \notin DOMAIN new
    BY <1>1, <1>3, <2>1 DEF Merge, Owned
  <2>2. CASE v \in DOMAIN out /\ v \in DOMAIN new
    <3>1. both[v] = [out[v] EXCEPT !.tracks =
                       [t \in Types |-> IF new[v].tracks[t] # None
                                        THEN new[v].tracks[t]
                                        ELSE out[v].tracks[t]]]
      BY <1>1, <2>2 DEF Merge
    <3> QED
      BY <1>2, <1>3, <2>2, <3>1 DEF Owned, VariantType
  <2> QED
    BY <2>1, <2>2
<1> QED
  BY <1>3 DEF Owned

\* So does removing an input's tracks.
LEMMA RemoveOwned ==
  ASSUME NEW out \in OutputType, NEW input \in Inputs, NEW type \in Types, Owned(out)
  PROVE  Owned(RemoveInputTracks(out, input, type))
<1> DEFINE stripped == Stripped(out, input, type)
<1>1. \A v \in DOMAIN out : out[v] \in VariantType
  BY OutputIsFunction
<1>2. ASSUME NEW v \in DOMAIN out, Profile[v].input # None
      PROVE  /\ stripped[v].inputId = Profile[v].input
             /\ \A t \in Types : stripped[v].tracks[t] \in {None, Profile[v].input}
  <2>1. out[v] \in VariantType
    BY <1>1
  <2> QED
    BY <1>2, <2>1 DEF Stripped, Owned, VariantType
<1> HIDE DEF stripped
<1>3. RemoveInputTracks(out, input, type)
        = [v \in {w \in DOMAIN out : HasTrack(stripped[w])} |-> stripped[v]]
  BY DEF RemoveInputTracks, stripped
<1> QED
  BY <1>2, <1>3 DEF Owned

\* What a step does to the output of an object: nothing, the object is another
\* channel's, a setup merges in what it has configured, or a teardown removes.
LEMMA OutputSteps ==
  ASSUME Shape, [Next]_vars, NEW p \in Objects
  PROVE  \/ channel'[p].out \in {channel[p].out, NoOutput}
         \/ \E req \in RequestType, W \in SUBSET Variants :
               channel'[p].out = Merge(channel[p].out, Configured(req, W))
         \/ \E req \in Requests :
               channel'[p].out = RemoveInputTracks(Found(p).out, req.input, req.type)
<1> DEFINE Same == channel'[p].out \in {channel[p].out, NoOutput}
           Merged == \E req \in RequestType, W \in SUBSET Variants :
                        channel'[p].out = Merge(channel[p].out, Configured(req, W))
           Removed == \E req \in Requests : channel'[p].out
                        = RemoveInputTracks(Found(p).out, req.input, req.type)
<1> SUFFICES Same \/ Merged \/ Removed
  OBVIOUS
<1>0. \A o \in Objects : channel[o] \in ChannelType /\ Found(o) \in ChannelType
                         /\ Found(o).out \in {channel[o].out, NoOutput}
  BY FoundType DEF Shape, ChannelsOK, Found, NewChannel
<1>1. ASSUME channel' = channel PROVE Same
  BY <1>1
<1>2. CASE Authenticate
  <2>1. PICK o \in Objects : channel' = [channel EXCEPT ![o] =
            Queued([Found(o) EXCEPT !.state = IF Found(o).state = "Stopped"
                                              THEN "Authenticated"
                                              ELSE Found(o).state],
                   "authenticate")]
    BY <1>2 DEF Authenticate
  <2> DEFINE state == IF Found(o).state = "Stopped" THEN "Authenticated"
                                                    ELSE Found(o).state
  <2>2. state \in States /\ "authenticate" \in Calls
    BY <1>0 DEF ChannelType, States, Calls
  <2> HIDE DEF state
  <2>3. Queued([Found(o) EXCEPT !.state = state], "authenticate").out = Found(o).out
    BY <1>0, <2>2, StateQueued
  <2>4. Same
    BY <1>0, <2>1, <2>3 DEF Shape, ChannelsOK, state
  <2> QED
    BY <2>4
<1>3. ASSUME NEW s \in Setups, NEW req \in Requests, SetupBegins(s, req) PROVE Same
  <2>1. PICK o \in Objects : channel' = [channel EXCEPT ![o] = Found(o)]
    BY <1>3 DEF SetupBegins, SetupOpens
  <2> QED
    BY <1>0, <2>1 DEF Shape, ChannelsOK
<1>4. ASSUME NEW s \in Setups, MetadataArrives(s) PROVE Same \/ Merged
  <2> DEFINE o == setups[s].object
             req == setups[s].request
             W == WhiteList(channel[o].out, req)
  <2>1. o \in Objects /\ req \in RequestType
    BY <1>4 DEF MetadataArrives, Shape, SetupsOK, NoSetup
  <2>2. channel[o].out \in OutputType
    BY <1>0, <2>1 DEF ChannelType
  <2>3. W \in SUBSET Variants
    BY <2>2, OutputIsFunction DEF WhiteList
  <2>4. channel' = [channel EXCEPT ![o] = AddOutputs(channel[o], Configured(req, W))]
    BY <1>4 DEF MetadataArrives
  <2> HIDE DEF W, req, o
  <2>5. AddOutputs(channel[o], Configured(req, W)).out
          = Merge(channel[o].out, Configured(req, W))
    BY <1>0, <2>1, ConfiguredType, AddOutputsOut
  <2>6. CASE p = o
    <3>1. channel'[p].out = Merge(channel[p].out, Configured(req, W))
      BY <2>4, <2>5, <2>6 DEF Shape, ChannelsOK
    <3> QED
      BY <2>1, <2>3, <3>1
  <2>7. CASE p # o
    BY <2>4, <2>7 DEF Shape, ChannelsOK
  <2> QED
    BY <2>6, <2>7
<1>5. ASSUME NEW s \in Setups, PackagerAssigned(s) \/ SetupFails(s) PROVE Same
  BY <1>1, <1>5 DEF PackagerAssigned, PackagerReady, SetupFails, SetupThrows
<1>6. ASSUME NEW req \in Requests, Teardown(req.input, req.type) PROVE Same \/ Removed
  <2>1. PICK o \in Objects :
          channel' = [channel EXCEPT ![o] = RemoveInput(Found(o), req.input, req.type)]
    BY <1>6 DEF Teardown, TracksRemoved
  <2>2. RemoveInput(Found(o), req.input, req.type).out
          = RemoveInputTracks(Found(o).out, req.input, req.type)
    BY <1>0 DEF RemoveInput, ChannelType
  <2>3. CASE p = o
    BY <2>1, <2>2, <2>3 DEF Shape, ChannelsOK
  <2>4. CASE p # o
    BY <2>1, <2>4 DEF Shape, ChannelsOK
  <2> QED
    BY <2>3, <2>4
<1>7. ASSUME NEW l \in Loops, Poll(l) PROVE Same
  <2>1. CASE LoopServed(l)
    <3>1. loops[l].object \in Objects
      BY <2>1 DEF LoopServed, Shape, LoopsOK, NoLoop
    <3>2. MarkPlayable(channel[loops[l].object]).out = channel[loops[l].object].out
      BY <1>0, <3>1, MarkPlayableType
    <3> QED
      BY <2>1, <3>1, <3>2 DEF LoopServed, Shape, ChannelsOK
  <2> QED
    BY <1>1, <1>7, <2>1 DEF Poll, LoopWakes, LoopCancelled, LoopUnserved
<1>8. CASE StopFires
  <2>1. stopper.object \in Objects
    BY <1>8 DEF StopFires, Shape, StopperOK
  <2>2. Stopped(channel[stopper.object]).out = channel[stopper.object].out
    BY <1>0, <2>1, StoppedType
  <2> QED
    BY <1>8, <2>1, <2>2 DEF StopFires, Shape, ChannelsOK
<1>9. ASSUME NEW o \in Objects, NEW ok \in BOOLEAN, BackendReplies(o, ok) PROVE Same
  <2>1. channel[o].calls # <<>>
    BY <1>9 DEF BackendReplies
  <2>2. Replied(channel[o], ok).out = channel[o].out /\ NewChannel.out = NoOutput
    BY <1>0, <2>1, RepliedType DEF NewChannel
  <2>3. channel' = [channel EXCEPT ![o] = NewChannel]
        \/ channel' = [channel EXCEPT ![o] = Replied(channel[o], ok)]
    BY <1>9 DEF BackendReplies
  <2> QED
    BY <2>2, <2>3 DEF Shape, ChannelsOK
<1>10. CASE UNCHANGED vars
  BY <1>1, <1>10 DEF vars
<1> HIDE DEF Same, Merged, Removed
<1> QED
  BY <1>2, <1>3, <1>4, <1>5, <1>6, <1>7, <1>8, <1>9, <1>10 DEF Next

\* Every variant stays with the input it was made for.
LEMMA OwnedStep == Shape /\ OwnedInv /\ [Next]_vars => OwnedInv'
<1> SUFFICES ASSUME Shape, OwnedInv, [Next]_vars, NEW p \in Objects
             PROVE  Owned(channel'[p].out)
  BY DEF OwnedInv
<1>1. Owned(NoOutput) /\ NoOutput \in OutputType
  BY NoOutputType DEF Owned, NoOutput
<1>2. /\ channel[p].out \in OutputType /\ Owned(channel[p].out)
      /\ Found(p).out \in OutputType /\ Owned(Found(p).out)
  BY <1>1 DEF OwnedInv, Shape, ChannelsOK, ChannelType, Found, NewChannel
<1>3. ASSUME NEW req \in RequestType, NEW W \in SUBSET Variants,
             channel'[p].out = Merge(channel[p].out, Configured(req, W))
      PROVE  Owned(channel'[p].out)
  BY <1>2, <1>3, ConfiguredType, ConfiguredOwned, MergeOwned
<1>4. ASSUME NEW req \in Requests,
             channel'[p].out = RemoveInputTracks(Found(p).out, req.input, req.type)
      PROVE  Owned(channel'[p].out)
  <2>1. req.input \in Inputs /\ req.type \in Types
    BY DEF RequestType
  <2> QED
    BY <1>2, <1>4, <2>1, RemoveOwned
<1> QED
  BY <1>1, <1>2, <1>3, <1>4, OutputSteps

(* After a teardown no variant that belongs to an input by its stream suffix  *)
(* has a track of that type from it: the removal strips the variants whose     *)
(* inputId it is, and OwnedInv says those are all that it feeds.               *)
THEOREM TeardownCompletes == Spec => TeardownIsComplete
<1>1. Init => OwnedInv
  BY DEF Init, OwnedInv, Owned, NewChannel, NoOutput
<1>2. ASSUME Shape, OwnedInv, NEW req \in Requests, Teardown(req.input, req.type),
             NEW v \in DOMAIN channel'[current'].out, Profile[v].input # None
      PROVE  channel'[current'].out[v].tracks[req.type] # req.input
  <2>1. req.input \in Inputs /\ req.type \in Types /\ req.input # None
    BY NoneAssumption DEF RequestType
  <2>2. PICK o \in Objects :
          /\ current' = o
          /\ channel' = [channel EXCEPT ![o] =
                             RemoveInput(Found(o), req.input, req.type)]
    BY <1>2 DEF Teardown, TracksRemoved
  <2>3. Found(o) \in ChannelType /\ Found(o).out \in OutputType /\ Owned(Found(o).out)
    BY <1>2, FoundType DEF Shape, ChannelsOK, ChannelType, OwnedInv, Owned, Found,
                           NewChannel, NoOutput
  <2> DEFINE rest == RemoveInputTracks(Found(o).out, req.input, req.type)
  <2>4. RemoveInput(Found(o), req.input, req.type).out = rest
    BY <2>3 DEF RemoveInput, ChannelType
  <2>5. channel'[current'].out = rest
    BY <1>2, <2>2, <2>4 DEF Shape, ChannelsOK
  <2>6. Owned(rest)
    BY <2>1, <2>3, RemoveOwned
  <2>7. rest[v].inputId = req.input => rest[v].tracks[req.type] = None
    BY <1>2, <2>1, <2>3, <2>5, RemoveType
  <2> HIDE DEF rest
  <2> QED
    BY <1>2, <2>1, <2>5, <2>6, <2>7 DEF Owned
<1>3. Shape /\ OwnedInv /\ [Next]_vars =>
        [\A req \in Requests : Teardown(req.input, req.type) =>
           LET out == channel'[current'].out IN
           \A v \in DOMAIN out : Profile[v].input # None =>
               out[v].tracks[req.type] # req.input]_vars
  BY <1>2
<1> QED
  BY <1>1, <1>3, OwnedStep, ShapeInvariant, PTL DEF Spec, TeardownIsComplete
-----------------------------------------------------------------------------
\* What setting the state and queueing a call does to the queue.
LEMMA QueuedCalls ==
  ASSUME NEW ch \in ChannelType, NEW state \in States, NEW call \in Calls
  PROVE  LET told == Queued([ch EXCEPT !.state = state], call) IN
         /\ told.state = state
         /\ told.failed = ch.failed
         /\ told.calls = IF Reporting THEN Append(ch.calls, call) ELSE ch.calls
<1> DEFINE set == [ch EXCEPT !.state = state]
<1>1. set.state = state /\ set.failed = ch.failed /\ set.calls = ch.calls
  BY DEF ChannelType
<1>2. set \in ChannelType
  BY DEF ChannelType
<1> HIDE DEF set
<1>3. Queued(set, call) = IF Reporting THEN [set EXCEPT !.calls = Append(set.calls, call)]
                                       ELSE set
  BY DEF Queued
<1>4. /\ Queued(set, call).state = state
      /\ Queued(set, call).failed = ch.failed
      /\ Queued(set, call).calls = IF Reporting THEN Append(ch.calls, call) ELSE ch.calls
  BY <1>1, <1>2, <1>3 DEF ChannelType
<1> QED
  BY <1>4 DEF set

\* A status call put at the end of a queue is its last; a call without a status
\* changes nothing.
LEMMA AppendLast ==
  ASSUME NEW calls \in Seq(Calls), NEW state, NEW call \in Calls
  PROVE  /\ call = "authenticate" /\ LastIs(calls, state) =>
               LastIs(Append(calls, call), state)
         /\ Silent(Append(calls, call)) => Silent(calls) /\ call = "authenticate"
         /\ call # "authenticate" => LastIs(Append(calls, call), call)
<1> DEFINE longer == Append(calls, call)
<1>1. /\ DOMAIN longer = 1 .. Len(calls) + 1 /\ DOMAIN calls = 1 .. Len(calls)
      /\ \A i \in 1 .. Len(calls) : longer[i] = calls[i]
      /\ longer[Len(calls) + 1] = call
      /\ Len(calls) \in Nat
  OBVIOUS
<1> HIDE DEF longer
<1>2. ASSUME call = "authenticate", LastIs(calls, state), NEW i \in DOMAIN longer,
             longer[i] # "authenticate"
      PROVE  \/ longer[i] = state
             \/ \E j \in DOMAIN longer : j > i /\ longer[j] # "authenticate"
  <2>1. i \in DOMAIN calls /\ longer[i] = calls[i]
    BY <1>1, <1>2
  <2>2. CASE calls[i] = state
    BY <2>1, <2>2
  <2>3. ASSUME NEW j \in DOMAIN calls, j > i, calls[j] # "authenticate"
        PROVE  \E k \in DOMAIN longer : k > i /\ longer[k] # "authenticate"
    <3>1. j \in DOMAIN longer /\ longer[j] = calls[j]
      BY <1>1
    <3> QED
      BY <2>3, <3>1
  <2> QED
    BY <1>2, <2>1, <2>2, <2>3 DEF LastIs
<1>3. Silent(longer) => Silent(calls) /\ call = "authenticate"
  BY <1>1 DEF Silent
<1>4. ASSUME call # "authenticate" PROVE LastIs(longer, call)
  <2> SUFFICES ASSUME NEW i \in DOMAIN longer, longer[i] # "authenticate", longer[i] # call
               PROVE  \E j \in DOMAIN longer : j > i /\ longer[j] # "authenticate"
    BY DEF LastIs
  <2>1. Len(calls) + 1 \in DOMAIN longer /\ Len(calls) + 1 > i
    BY <1>1
  <2> QED
    BY <1>1, <1>4, <2>1
<1> QED
  BY <1>2, <1>3, <1>4 DEF LastIs, longer

\* When the first call of a queue is answered the last status stays the last.
LEMMA TailLast ==
  ASSUME NEW calls \in Seq(Calls), NEW state, calls # <<>>, LastIs(calls, state)
  PROVE  /\ LastIs(Tail(calls), state)
         /\ Silent(Tail(calls)) /\ Head(calls) # "authenticate" => Head(calls) = state
         /\ Silent(Tail(calls)) /\ Head(calls) = "authenticate" => Silent(calls)
<1> DEFINE rest == Tail(calls)
<1>1. /\ Len(calls) \in Nat \ {0} /\ DOMAIN calls = 1 .. Len(calls)
      /\ DOMAIN rest = 1 .. Len(calls) - 1
      /\ \A i \in 1 .. Len(calls) - 1 : rest[i] = calls[i + 1]
      /\ Head(calls) = calls[1]
  OBVIOUS
<1> HIDE DEF rest
<1>2. ASSUME NEW j \in DOMAIN calls, j > 1
      PROVE  j - 1 \in DOMAIN rest /\ rest[j - 1] = calls[j]
  BY <1>1, <1>2
<1>3. ASSUME NEW i \in DOMAIN rest, rest[i] # "authenticate", rest[i] # state
      PROVE  \E j \in DOMAIN rest : j > i /\ rest[j] # "authenticate"
  <2>1. i + 1 \in DOMAIN calls /\ calls[i + 1] = rest[i] /\ i \in Nat
    BY <1>1
  <2>2. PICK j \in DOMAIN calls : j > i + 1 /\ calls[j] # "authenticate"
    BY <1>3, <2>1 DEF LastIs
  <2>3. j - 1 \in DOMAIN rest /\ rest[j - 1] = calls[j] /\ j - 1 > i
    BY <1>1, <1>2, <2>1, <2>2
  <2> QED
    BY <2>2, <2>3
<1>4. ASSUME Silent(rest), NEW j \in DOMAIN calls, calls[j] # "authenticate"
      PROVE  j = 1
  <2>1. j = 1 \/ j > 1
    BY <1>1
  <2> QED
    BY <1>2, <1>4, <2>1 DEF Silent
<1>5. ASSUME Silent(rest), Head(calls) # "authenticate" PROVE Head(calls) = state
  <2>1. 1 \in DOMAIN calls
    BY <1>1
  <2>2. ~\E j \in DOMAIN calls : j > 1 /\ calls[j] # "authenticate"
    BY <1>2, <1>5 DEF Silent
  <2> QED
    BY <1>1, <1>5, <2>1, <2>2 DEF LastIs
<1>6. ASSUME Silent(rest), Head(calls) = "authenticate" PROVE Silent(calls)
  BY <1>1, <1>4, <1>6 DEF Silent
<1> QED
  BY <1>3, <1>5, <1>6 DEF LastIs, rest

\* An object whose state is set to one that is not on the air, or not set, and
\* has at most a call without a status queued, is as well told as before.
LEMMA ToldQuietly ==
  ASSUME NEW o \in Objects, NEW ch \in ChannelType, NEW b, Told(o, ch, b),
         NEW state \in States, state = ch.state \/ state \notin OnAir
  PROVE  Told(o, Queued([ch EXCEPT !.state = state], "authenticate"), b)
<1> DEFINE told == Queued([ch EXCEPT !.state = state], "authenticate")
<1>1. ch.calls \in Seq(Calls) /\ "authenticate" \in Calls
  BY DEF ChannelType, Calls
<1>2. /\ told.state = state
      /\ told.failed = ch.failed
      /\ told.calls = IF Reporting THEN Append(ch.calls, "authenticate") ELSE ch.calls
  BY <1>1, QueuedCalls
<1> HIDE DEF told
<1>3. ASSUME state \in OnAir
      PROVE  LastIs(told.calls, state) /\ (Silent(told.calls) => Silent(ch.calls))
  <2>1. LastIs(ch.calls, state)
    BY <1>3 DEF Told
  <2> QED
    BY <1>1, <1>2, <2>1, AppendLast
<1>4. state \in OnAir => state = ch.state
  OBVIOUS
<1> QED
  BY <1>2, <1>3, <1>4 DEF Told, told

\* An object that sets its state and reports it is told of.
LEMMA ToldAloud ==
  ASSUME NEW o \in Objects, NEW ch \in ChannelType, NEW b, Told(o, ch, b),
         NEW state \in OnAir
  PROVE  Told(o, Queued([ch EXCEPT !.state = state], state), b)
<1> DEFINE told == Queued([ch EXCEPT !.state = state], state)
<1>1. ch.calls \in Seq(Calls) /\ state \in Calls /\ state \in States
      /\ state # "authenticate" /\ None \notin Objects
  BY DEF ChannelType, Calls, OnAir, States, Objects
<1>2. /\ told.state = state
      /\ told.failed = ch.failed
      /\ told.calls = IF Reporting THEN Append(ch.calls, state) ELSE ch.calls
  BY <1>1, QueuedCalls
<1> HIDE DEF told
<1>3. CASE Reporting
  <2>1. LastIs(told.calls, state) /\ ~Silent(told.calls)
    BY <1>1, <1>2, <1>3, AppendLast
  <2> QED
    BY <1>2, <1>3, <2>1 DEF Told, told
<1>4. CASE ~Reporting
  <2>1. told.calls = <<>> /\ b.by = None
    BY <1>2, <1>4 DEF Told
  <2>2. LastIs(told.calls, state)
    BY <2>1 DEF LastIs
  <2> QED
    BY <1>1, <1>2, <2>1, <2>2 DEF Told, told
<1> QED
  BY <1>3, <1>4

\* Looking up a channel takes away no object's report but that of an object
\* whose number is used again.
LEMMA ToldFound ==
  ASSUME Shape, BackendOK, ToldInv, NEW o \in Objects, NEW p \in Objects
  PROVE  /\ Told(p, channel[p], BackendFor(o))
         /\ Told(o, Found(o), BackendFor(o))
<1>1. None \notin Objects
  BY DEF Objects
<1>2. Told(p, channel[p], backend) /\ Told(o, channel[o], backend)
  BY DEF ToldInv
<1>3. CASE BackendFor(o) = backend
  BY <1>2, <1>3 DEF Told, Found, NewChannel, OnAir
<1>4. CASE BackendFor(o) # backend
  <2>1. o # current /\ BackendFor(o) = [backend EXCEPT !.by = None]
    BY <1>4 DEF BackendFor
  <2>2. Found(o) = NewChannel
    BY <2>1 DEF Found
  <2>3. Reporting
    BY <1>1, <1>2, <1>4 DEF Told, BackendFor
  <2>4. BackendFor(o).by = None
    BY <2>1 DEF BackendOK
  <2> QED
    BY <1>1, <1>2, <2>1, <2>2, <2>3, <2>4 DEF Told, NewChannel, OnAir
<1> QED
  BY <1>3, <1>4

\* What a step says of an object depends on its state and calls only.
LEMMA ToldOf ==
  ASSUME NEW o, NEW ch, NEW left, NEW b, Told(o, ch, b),
         left.calls = ch.calls, left.failed = ch.failed,
         left.state = ch.state \/ left.state \notin OnAir
  PROVE  Told(o, left, b)
  BY DEF Told

\* A step that reports nothing and looks up an object.
LEMMA ToldLookup ==
  ASSUME Shape, BackendOK, ToldInv, NEW o \in Objects, NEW ch,
         channel' = [channel EXCEPT ![o] = ch], Told(o, ch, BackendFor(o)),
         backend' = BackendFor(o)
  PROVE  ToldInv'
<1>1. \A p \in Objects : channel'[p] = IF p = o THEN ch ELSE channel[p]
  BY DEF Shape, ChannelsOK
<1>2. \A p \in Objects : Told(p, channel[p], BackendFor(o))
  BY ToldFound
<1>3. \A p \in Objects : Told(p, channel'[p], BackendFor(o))
  BY <1>1, <1>2
<1> QED
  BY <1>3 DEF ToldInv, Told

\* A step that changes one object and not the backend.
LEMMA ToldOne ==
  ASSUME Shape, ToldInv, NEW o \in Objects, NEW ch,
         channel' = [channel EXCEPT ![o] = ch], Told(o, ch, backend),
         backend' = backend
  PROVE  ToldInv'
<1>1. \A p \in Objects : channel'[p] = IF p = o THEN ch ELSE channel[p]
  BY DEF Shape, ChannelsOK
<1>2. \A p \in Objects : Told(p, channel'[p], backend)
  BY <1>1 DEF ToldInv
<1> QED
  BY <1>2 DEF ToldInv, Told

\* A call that settles.
LEMMA ToldReply ==
  ASSUME Shape, ToldInv, NEW o \in Objects, NEW ok \in BOOLEAN, BackendReplies(o, ok)
  PROVE  ToldInv'
<1> DEFINE ch == channel[o]
<1>1. ch \in ChannelType /\ ch.calls # <<>> /\ ch.calls \in Seq(Calls)
  BY DEF BackendReplies, Shape, ChannelsOK, ChannelType
<1>2. Told(o, ch, backend) /\ Reporting
  BY <1>1 DEF ToldInv, Told
<1>3. /\ Replied(ch, ok).state = ch.state
      /\ Replied(ch, ok).calls = Tail(ch.calls)
      /\ Replied(ch, ok).failed = IF Head(ch.calls) = "authenticate" THEN ch.failed
                                                                     ELSE ~ok
  BY <1>1 DEF Replied, ChannelType
<1>4. \/ backend' = backend /\ (Head(ch.calls) = "authenticate" \/ ~ok)
      \/ /\ backend' = [status |-> Head(ch.calls), by |-> o]
         /\ Head(ch.calls) # "authenticate"
  BY DEF BackendReplies
<1>5. \A p \in Objects : p # o => Told(p, channel'[p], backend')
  <2> SUFFICES ASSUME NEW p \in Objects, p # o PROVE Told(p, channel'[p], backend')
    OBVIOUS
  <2>1. channel'[p] = channel[p]
    BY DEF BackendReplies, Shape, ChannelsOK
  <2>2. Told(p, channel[p], backend)
    BY DEF ToldInv
  <2> QED
    BY <1>2, <1>4, <2>1, <2>2 DEF Told
<1>6. Told(o, Replied(ch, ok), backend')
  <2> SUFFICES ASSUME ch.state \in OnAir
               PROVE  /\ LastIs(Tail(ch.calls), ch.state)
                      /\ /\ Silent(Tail(ch.calls))
                         /\ ~Replied(ch, ok).failed
                         /\ backend'.by = o
                         => backend'.status = ch.state
    BY <1>2, <1>3 DEF Told
  <2>1. LastIs(ch.calls, ch.state)
    BY <1>2 DEF Told
  <2>2. /\ LastIs(Tail(ch.calls), ch.state)
        /\ Silent(Tail(ch.calls)) /\ Head(ch.calls) # "authenticate" =>
              Head(ch.calls) = ch.state
        /\ Silent(Tail(ch.calls)) /\ Head(ch.calls) = "authenticate" =>
              Silent(ch.calls)
    BY <1>1, <2>1, TailLast
  <2>3. CASE Head(ch.calls) = "authenticate"
    BY <1>2, <1>3, <1>4, <2>2, <2>3 DEF Told
  <2>4. CASE Head(ch.calls) # "authenticate"
    <3>1. ~Replied(ch, ok).failed => backend' = [status |-> Head(ch.calls), by |-> o]
      BY <1>3, <1>4, <2>4
    <3> QED
      BY <2>2, <2>4, <3>1
  <2> QED
    BY <2>3, <2>4
<1>7. Told(o, channel'[o], backend')
  <2>1. channel'[o] = NewChannel \/ channel'[o] = Replied(ch, ok)
    BY DEF BackendReplies, Shape, ChannelsOK
  <2>2. Told(o, NewChannel, backend')
    BY <1>2 DEF Told, NewChannel, OnAir
  <2> QED
    BY <1>6, <2>1, <2>2
<1> QED
  BY <1>5, <1>7 DEF ToldInv, Told

\* No step leaves an object on the air without having told, or being about to.
LEMMA ToldStep ==
  ASSUME Shape, BackendOK, ToldInv, [Next]_vars
  PROVE  ToldInv'
<1>0. \A o \in Objects : /\ channel[o] \in ChannelType
                         /\ Found(o) \in ChannelType
                         /\ Told(o, channel[o], backend)
                         /\ Told(o, Found(o), BackendFor(o))
  BY FoundType, ToldFound DEF Shape, ChannelsOK, ToldInv
<1>1. ASSUME UNCHANGED <<channel, backend>> PROVE ToldInv'
  BY <1>1 DEF ToldInv, Told
<1>2. CASE Authenticate
  <2>1. PICK o \in Objects :
          /\ channel' = [channel EXCEPT ![o] =
                Queued([Found(o) EXCEPT !.state = IF Found(o).state = "Stopped"
                                                  THEN "Authenticated"
                                                  ELSE Found(o).state],
                       "authenticate")]
          /\ backend' = BackendFor(o)
    BY <1>2 DEF Authenticate
  <2> DEFINE state == IF Found(o).state = "Stopped" THEN "Authenticated"
                                                    ELSE Found(o).state
  <2>2. state \in States /\ (state = Found(o).state \/ state \notin OnAir)
    BY <1>0 DEF ChannelType, States, OnAir
  <2>3. channel' = [channel EXCEPT ![o] =
                       Queued([Found(o) EXCEPT !.state = state], "authenticate")]
    BY <2>1
  <2> HIDE DEF state
  <2>4. Told(o, Queued([Found(o) EXCEPT !.state = state], "authenticate"),
             BackendFor(o))
    BY <1>0, <2>2, ToldQuietly
  <2> QED
    BY <2>1, <2>3, <2>4, ToldLookup
<1>3. ASSUME NEW s \in Setups, NEW req \in Requests, SetupBegins(s, req)
      PROVE  ToldInv'
  <2>1. PICK o \in Objects : /\ channel' = [channel EXCEPT ![o] = Found(o)]
                             /\ backend' = BackendFor(o)
    BY <1>3 DEF SetupBegins, SetupOpens
  <2> QED
    BY <1>0, <2>1, ToldLookup
<1>4. ASSUME NEW s \in Setups, MetadataArrives(s) PROVE ToldInv'
  <2> DEFINE o == setups[s].object
             req == setups[s].request
             new == Configured(req, WhiteList(channel[o].out, req))
             marked == IF IsEmpty(channel[o].out) THEN MarkBroadcasting(channel[o])
                                                  ELSE channel[o]
  <2>1. o \in Objects
    BY <1>4 DEF MetadataArrives, Shape, SetupsOK, NoSetup
  <2>2. marked \in ChannelType
    BY <1>0, <2>1, MarkBroadcastingType
  <2>3. Told(o, marked, backend)
    <3>1. CASE marked = channel[o]
      BY <1>0, <2>1, <3>1
    <3>2. CASE marked = Queued([channel[o] EXCEPT !.state = "Broadcasting"],
                               "Broadcasting")
      BY <1>0, <2>1, <3>2, ToldAloud DEF OnAir
    <3> QED
      BY <3>1, <3>2 DEF MarkBroadcasting
  <2>4. channel' = [channel EXCEPT ![o] = [marked EXCEPT !.out = Merge(marked.out, new)]]
        /\ backend' = backend
    BY <1>4 DEF MetadataArrives, AddOutputs
  <2> HIDE DEF marked, new, o
  <2>5. Told(o, [marked EXCEPT !.out = Merge(marked.out, new)], backend)
    <3>1. LET ch == [marked EXCEPT !.out = Merge(marked.out, new)] IN
          ch.calls = marked.calls /\ ch.failed = marked.failed /\ ch.state = marked.state
      BY <2>2 DEF ChannelType
    <3> QED
      BY <2>3, <3>1, ToldOf
  <2> QED
    BY <2>1, <2>4, <2>5, ToldOne
<1>5. ASSUME NEW s \in Setups, PackagerAssigned(s) \/ SetupFails(s) PROVE ToldInv'
  BY <1>1, <1>5 DEF PackagerAssigned, PackagerReady, SetupFails, SetupThrows
<1>6. ASSUME NEW req \in Requests, Teardown(req.input, req.type) PROVE ToldInv'
  <2>1. PICK o \in Objects :
          /\ channel' = [channel EXCEPT ![o] =
                             RemoveInput(Found(o), req.input, req.type)]
          /\ backend' = BackendFor(o)
    BY <1>6 DEF Teardown, TracksRemoved
  <2> DEFINE left == RemoveInput(Found(o), req.input, req.type)
  <2>2. /\ left.calls = Found(o).calls /\ left.failed = Found(o).failed
        /\ left.state = Found(o).state \/ left.state \notin OnAir
    BY <1>0 DEF RemoveInput, ChannelType, OnAir
  <2> HIDE DEF left
  <2>3. Told(o, left, BackendFor(o))
    BY <1>0, <2>2, ToldOf
  <2> QED
    BY <2>1, <2>3, ToldLookup DEF left
<1>7. ASSUME NEW l \in Loops, Poll(l) PROVE ToldInv'
  <2>1. CASE LoopServed(l)
    <3> DEFINE o == loops[l].object
    <3>1. /\ o \in Objects
          /\ channel' = [channel EXCEPT ![o] = MarkPlayable(channel[o])]
          /\ backend' = backend
      BY <2>1 DEF LoopServed, Shape, LoopsOK, NoLoop
    <3> HIDE DEF o
    <3>2. Told(o, MarkPlayable(channel[o]), backend)
      BY <1>0, <3>1, ToldAloud DEF MarkPlayable, OnAir
    <3> QED
      BY <3>1, <3>2, ToldOne
  <2> QED
    BY <1>1, <1>7, <2>1 DEF Poll, LoopWakes, LoopCancelled, LoopUnserved
<1>8. CASE StopFires
  <2> DEFINE o == stopper.object
  <2>1. /\ o \in Objects
        /\ channel' = [channel EXCEPT ![o] = Stopped(channel[o])]
        /\ backend' = backend
    BY <1>8 DEF StopFires, Shape, StopperOK
  <2> HIDE DEF o
  <2>2. Told(o, Stopped(channel[o]), backend)
    <3>1. "Stopped" \in States /\ "Stopped" \in Calls /\ "Stopped" \notin OnAir
      BY DEF States, Calls, OnAir
    <3>2. /\ Stopped(channel[o]).state = "Stopped"
          /\ ~Reporting => Stopped(channel[o]).calls = channel[o].calls
      BY <1>0, <2>1, <3>1, QueuedCalls DEF Stopped
    <3> QED
      BY <1>0, <2>1, <3>1, <3>2 DEF Told
  <2> QED
    BY <2>1, <2>2, ToldOne
<1>9. ASSUME NEW o \in Objects, NEW ok \in BOOLEAN, BackendReplies(o, ok)
      PROVE  ToldInv'
  BY <1>9, ToldReply
<1>10. CASE UNCHANGED vars
  BY <1>1, <1>10 DEF vars
<1> QED
  BY <1>2, <1>3, <1>4, <1>5, <1>6, <1>7, <1>8, <1>9, <1>10 DEF Next

(* Once the calls of the channel's object have landed and the last succeeded,  *)
(* the backend has the status the controller believes the channel to have: a   *)
(* state that is on the air is never set without a call of that status behind  *)
(* all the others, and a chain loses no call but to its answer.                *)
THEOREM BackendIsTold == Spec => []BackendAgrees
<1>1. Init => ToldInv
  BY DEF Init, ToldInv, Told, NewChannel, OnAir
<1>2. TypeOK => BackendOK
  BY DEF TypeOK, BackendOK
<1>3. ASSUME Shape, ToldInv PROVE BackendAgrees
  <2>1. \A o \in {current} \ {None} : o \in Objects
    BY <1>3 DEF Shape, ChannelsOK
  <2>2. \A o \in Objects : channel[o].calls = <<>> => Silent(channel[o].calls)
    BY DEF Silent
  <2> QED
    BY <1>3, <2>1, <2>2 DEF ToldInv, Told, OnAir, BackendAgrees
<1>4. Shape /\ BackendOK /\ ToldInv /\ [Next]_vars => ToldInv'
  BY ToldStep
<1> QED
  BY <1>1, <1>2, <1>3, <1>4, ShapeInvariant, TypeCorrectness, PTL DEF Spec
-----------------------------------------------------------------------------
\* A setup that is about to cancel the stop has not emptied the channel, and one
\* that has just begun works on it.
Waiting == \A s \in InProgress : setups[s].object = current /\ setups[s].pc = "metadata"

SuspendedEmpty ==
    \A o \in Objects : channel[o].state = "Suspended" => IsEmpty(channel[o].out)

TimedInv ==
    /\ SuspendedEmpty
    /\ owners = InProgress
    /\ "brokeIn" \notin hazards =>
          Exclusive /\ (Emptied => Waiting /\ stopper.pc # "none")

\* Outputs are added to a channel that is not, or no longer, suspended.
LEMMA AddedGoesOn ==
  ASSUME NEW ch \in ChannelType, NEW new, ch.state = "Suspended" => IsEmpty(ch.out)
  PROVE  AddOutputs(ch, new).state # "Suspended"
<1> DEFINE marked == IF IsEmpty(ch.out) THEN MarkBroadcasting(ch) ELSE ch
<1>1. "Broadcasting" \in States /\ "Broadcasting" \in Calls
  BY DEF States, Calls
<1>2. marked \in ChannelType
  BY MarkBroadcastingType
<1>3. marked.state # "Suspended"
  <2>1. CASE marked = ch /\ (ch.state = "Playable" \/ ~IsEmpty(ch.out))
    BY <2>1
  <2>2. CASE marked = Queued([ch EXCEPT !.state = "Broadcasting"], "Broadcasting")
    BY <1>1, <2>2, StateQueued
  <2> QED
    BY <2>1, <2>2 DEF MarkBroadcasting
<1>4. AddOutputs(ch, new) = [marked EXCEPT !.out = Merge(marked.out, new)]
  BY DEF AddOutputs
<1> HIDE DEF marked
<1> QED
  BY <1>2, <1>3, <1>4 DEF ChannelType

\* What a step does to the states and outputs: a channel is suspended by a
\* teardown only, and then without outputs.
LEMMA SuspendedSteps ==
  ASSUME Shape, SuspendedEmpty, [Next]_vars
  PROVE  /\ SuspendedEmpty'
         /\ (~\E req \in Requests : Teardown(req.input, req.type)) =>
               \A p \in Objects : channel'[p].state = "Suspended" =>
                   channel[p].state = "Suspended"
         /\ \A s \in Setups : MetadataArrives(s) =>
               channel'[setups[s].object].state # "Suspended"
<1> DEFINE Kept == \A p \in Objects : channel'[p].state = "Suspended" =>
                       /\ channel[p].state = "Suspended"
                       /\ channel'[p].out = channel[p].out
<1>0. \A o \in Objects : /\ channel[o] \in ChannelType
                         /\ Found(o) \in ChannelType
                         /\ Found(o).state = "Suspended" =>
                               Found(o) = channel[o] /\ IsEmpty(Found(o).out)
  BY FoundType DEF Shape, ChannelsOK, Found, NewChannel, SuspendedEmpty
<1>1. ASSUME channel' = channel PROVE Kept
  BY <1>1
<1>2. ASSUME Authenticate PROVE Kept
  <2>1. PICK o \in Objects : channel' = [channel EXCEPT ![o] =
            Queued([Found(o) EXCEPT !.state = IF Found(o).state = "Stopped"
                                              THEN "Authenticated"
                                              ELSE Found(o).state],
                   "authenticate")]
    BY <1>2 DEF Authenticate
  <2> DEFINE state == IF Found(o).state = "Stopped" THEN "Authenticated"
                                                    ELSE Found(o).state
             ch == Queued([Found(o) EXCEPT !.state = state], "authenticate")
  <2>2. /\ state \in States /\ "authenticate" \in Calls
        /\ state = "Suspended" => Found(o).state = "Suspended"
    BY <1>0 DEF ChannelType, States, Calls
  <2>3. channel' = [channel EXCEPT ![o] = ch]
    BY <2>1
  <2> HIDE DEF state
  <2>4. ch.out = Found(o).out /\ ch.state = state
    BY <1>0, <2>2, StateQueued
  <2> HIDE DEF ch
  <2>5. Kept
    BY <1>0, <2>2, <2>3, <2>4 DEF Shape, ChannelsOK
  <2> QED
    BY <2>5
<1>3. ASSUME NEW s \in Setups, NEW req \in Requests, SetupBegins(s, req) PROVE Kept
  <2>1. PICK o \in Objects : channel' = [channel EXCEPT ![o] = Found(o)]
    BY <1>3 DEF SetupBegins, SetupOpens
  <2> QED
    BY <1>0, <2>1 DEF Shape, ChannelsOK
<1>4. ASSUME NEW s \in Setups, MetadataArrives(s)
      PROVE  Kept /\ channel'[setups[s].object].state # "Suspended"
  <2> DEFINE o == setups[s].object
             req == setups[s].request
             new == Configured(req, WhiteList(channel[o].out, req))
  <2>1. o \in Objects
    BY <1>4 DEF MetadataArrives, Shape, SetupsOK, NoSetup
  <2>2. channel' = [channel EXCEPT ![o] = AddOutputs(channel[o], new)]
    BY <1>4 DEF MetadataArrives
  <2> HIDE DEF new
  <2>3. AddOutputs(channel[o], new).state # "Suspended"
    BY <1>0, <2>1, AddedGoesOn DEF SuspendedEmpty
  <2> QED
    BY <2>1, <2>2, <2>3 DEF Shape, ChannelsOK
<1>5. ASSUME NEW s \in Setups, PackagerAssigned(s) \/ SetupFails(s) PROVE Kept
  BY <1>1, <1>5 DEF PackagerAssigned, PackagerReady, SetupFails, SetupThrows
<1>6. ASSUME NEW req \in Requests, Teardown(req.input, req.type) PROVE SuspendedEmpty'
  <2>1. PICK o \in Objects :
          channel' = [channel EXCEPT ![o] = RemoveInput(Found(o), req.input, req.type)]
    BY <1>6 DEF Teardown, TracksRemoved
  <2>2. req.input \in Inputs /\ req.type \in Types
    BY DEF RequestType
  <2> DEFINE left == RemoveInput(Found(o), req.input, req.type)
  <2>3. left.state = "Suspended" => IsEmpty(left.out)
    <3>1. left.state = IF IsEmpty(left.out) THEN "Suspended" ELSE Found(o).state
      BY <1>0, <2>2, RemoveInputType
    <3>2. Found(o).out \in OutputType
      BY <1>0 DEF ChannelType
    <3>3. left.out = RemoveInputTracks(Found(o).out, req.input, req.type)
      BY <1>0 DEF RemoveInput, ChannelType
    <3>4. DOMAIN left.out \subseteq DOMAIN Found(o).out
      BY <2>2, <3>2, <3>3, RemoveType
    <3> HIDE DEF left
    <3> QED
      BY <1>0, <3>1, <3>4 DEF IsEmpty
  <2> HIDE DEF left
  <2>4. channel' = [channel EXCEPT ![o] = left]
    BY <2>1 DEF left
  <2> QED
    BY <2>3, <2>4 DEF SuspendedEmpty, Shape, ChannelsOK
<1>7. ASSUME NEW l \in Loops, Poll(l) PROVE Kept
  <2>1. CASE LoopServed(l)
    <3>1. loops[l].object \in Objects
      BY <2>1 DEF LoopServed, Shape, LoopsOK, NoLoop
    <3>2. MarkPlayable(channel[loops[l].object]).state = "Playable"
      BY <1>0, <3>1, StateQueued DEF MarkPlayable, States, Calls
    <3> QED
      BY <2>1, <3>1, <3>2 DEF LoopServed, Shape, ChannelsOK
  <2> QED
    BY <1>1, <1>7, <2>1 DEF Poll, LoopWakes, LoopCancelled, LoopUnserved
<1>8. ASSUME StopFires PROVE Kept
  <2>1. stopper.object \in Objects
    BY <1>8 DEF StopFires, Shape, StopperOK
  <2>2. Stopped(channel[stopper.object]).state = "Stopped"
    BY <1>0, <2>1, StateQueued DEF Stopped, States, Calls
  <2>3. Kept
    BY <1>8, <2>1, <2>2 DEF StopFires, Shape, ChannelsOK
  <2> QED
    BY <2>3
<1>9. ASSUME NEW o \in Objects, NEW ok \in BOOLEAN, BackendReplies(o, ok) PROVE Kept
  <2>1. channel[o].calls # <<>>
    BY <1>9 DEF BackendReplies
  <2>2. /\ Replied(channel[o], ok).out = channel[o].out
        /\ Replied(channel[o], ok).state = channel[o].state
        /\ NewChannel.state = "Stopped"
    BY <1>0, <2>1, RepliedType DEF NewChannel
  <2>3. channel' = [channel EXCEPT ![o] = NewChannel]
        \/ channel' = [channel EXCEPT ![o] = Replied(channel[o], ok)]
    BY <1>9 DEF BackendReplies
  <2> QED
    BY <2>2, <2>3 DEF Shape, ChannelsOK
<1>10. ASSUME UNCHANGED vars PROVE Kept
  BY <1>1, <1>10 DEF vars
<1> HIDE DEF Kept
<1>11. Kept \/ \E req \in Requests : Teardown(req.input, req.type)
  BY <1>2, <1>3, <1>4, <1>5, <1>6, <1>7, <1>8, <1>9, <1>10 DEF Next
<1>12. Kept => SuspendedEmpty'
  BY DEF SuspendedEmpty, Kept
<1> QED
  BY <1>4, <1>6, <1>11, <1>12 DEF Kept

\* Nothing but a teardown empties a channel, and no step but the timer's takes an
\* emptied one from the id.
LEMMA EmptiedBefore ==
  ASSUME Shape, SuspendedEmpty, [Next]_vars, Emptied',
         ~\E req \in Requests : Teardown(req.input, req.type)
  PROVE  Emptied /\ current' = current
<1>1. current' \in Objects /\ channel'[current'].state = "Suspended"
      /\ channel[current'].state = "Suspended"
  <2>1. current' \in Objects
    BY ShapeStep DEF Emptied, Shape, ChannelsOK
  <2> QED
    BY <2>1, SuspendedSteps DEF Emptied
<1>2. ASSUME NEW o \in Objects, GetChannel(o), current' = o, current = None,
             channel'[o].state \in {"Stopped", "Authenticated"}
      PROVE  FALSE
  BY <1>1, <1>2
<1>3. CASE Authenticate
  <2>1. PICK o \in Objects :
          /\ GetChannel(o)
          /\ current' = o
          /\ channel' = [channel EXCEPT ![o] =
                Queued([Found(o) EXCEPT !.state = IF Found(o).state = "Stopped"
                                                  THEN "Authenticated"
                                                  ELSE Found(o).state],
                       "authenticate")]
    BY <1>3 DEF Authenticate
  <2>2. CASE current = None
    <3>1. Found(o) \in ChannelType /\ Found(o).state = "Stopped"
      BY <2>2, FoundType DEF Shape, Objects
    <3>2. channel'[o] = Queued([Found(o) EXCEPT !.state = "Authenticated"],
                               "authenticate")
      BY <2>1, <3>1 DEF Shape, ChannelsOK
    <3>3. Queued([Found(o) EXCEPT !.state = "Authenticated"], "authenticate").state
            = "Authenticated"
      <4>1. "Authenticated" \in States /\ "authenticate" \in Calls
        BY DEF States, Calls
      <4> DEFINE found == Found(o)
      <4>2. found \in ChannelType
        BY <3>1
      <4> HIDE DEF found
      <4>3. Queued([found EXCEPT !.state = "Authenticated"], "authenticate").state
              = "Authenticated"
        BY <4>1, <4>2, StateQueued
      <4> QED
        BY <4>3 DEF found
    <3> QED
      BY <1>2, <2>1, <2>2, <3>2, <3>3
  <2>3. CASE current # None
    BY <1>1, <2>1, <2>3 DEF GetChannel, Emptied
  <2> QED
    BY <2>2, <2>3
<1>4. ASSUME NEW s \in Setups, NEW req \in Requests, SetupBegins(s, req)
      PROVE  Emptied /\ current' = current
  <2>1. PICK o \in Objects : /\ GetChannel(o)
                             /\ current' = o
                             /\ channel' = [channel EXCEPT ![o] = Found(o)]
    BY <1>4 DEF SetupBegins, SetupOpens
  <2>2. CASE current = None
    <3>1. Found(o).state = "Stopped"
      BY <2>2, FoundType DEF Shape, Objects
    <3> QED
      BY <1>2, <2>1, <2>2, <3>1 DEF Shape, ChannelsOK
  <2>3. CASE current # None
    BY <1>1, <2>1, <2>3 DEF GetChannel, Emptied
  <2> QED
    BY <2>2, <2>3
<1>5. ASSUME current' = current PROVE Emptied /\ current' = current
  BY <1>1, <1>5 DEF Emptied, Objects
<1>6. CASE UNCHANGED vars
  BY <1>5, <1>6 DEF vars
<1>7. ASSUME NEW s \in Setups, MetadataArrives(s) \/ PackagerAssigned(s) \/ SetupFails(s)
      PROVE  current' = current
  BY <1>7 DEF MetadataArrives, PackagerAssigned, PackagerReady, SetupFails, SetupThrows
<1>8. ASSUME NEW l \in Loops, Poll(l) PROVE current' = current
  BY <1>8 DEF Poll, LoopWakes, LoopCancelled, LoopServed, LoopUnserved
<1>9. ~StopFires
  BY <1>1 DEF StopFires, Objects
<1>10. ASSUME NEW o \in Objects, NEW ok \in BOOLEAN, BackendReplies(o, ok)
       PROVE  current' = current
  BY <1>10 DEF BackendReplies
<1> QED
  BY <1>3, <1>4, <1>5, <1>6, <1>7, <1>8, <1>9, <1>10 DEF Next

\* While the lock is a mutex, no setup cancels the stop of an emptied channel.
LEMMA TimedStep ==
  ASSUME Shape, TimedInv, [Next]_vars
  PROVE  TimedInv'
<1>1. SuspendedEmpty' /\ owners' = InProgress'
  BY SuspendedSteps, OwnersAreInside DEF TimedInv
<1> SUFFICES ASSUME "brokeIn" \notin hazards'
             PROVE  Exclusive' /\ (Emptied' => Waiting' /\ stopper'.pc # "none")
  BY <1>1 DEF TimedInv
<1>2. /\ Exclusive /\ owners = InProgress /\ SuspendedEmpty
      /\ Emptied => Waiting /\ stopper.pc # "none"
  BY HazardsGrow DEF TimedInv
<1>3. Exclusive'
  BY <1>2, ExclusiveStep
<1> SUFFICES ASSUME Emptied' PROVE Waiting' /\ stopper'.pc # "none"
  BY <1>3
<1>4. ASSUME NEW req \in Requests, Teardown(req.input, req.type)
      PROVE  Waiting' /\ stopper'.pc # "none"
  <2>1. owners = {} /\ setups' = setups
    BY <1>4 DEF Teardown, TracksRemoved, LockedBriefly
  <2>2. InProgress' = {}
    BY <1>2, <2>1 DEF InProgress
  <2>3. PICK o \in Objects :
          LET ch == RemoveInput(Found(o), req.input, req.type) IN
          /\ current' = o
          /\ channel' = [channel EXCEPT ![o] = ch]
          /\ stopper' = IF IsEmpty(ch.out) THEN ArmStop(o) ELSE stopper
    BY <1>4 DEF Teardown, TracksRemoved
  <2>4. IsEmpty(channel'[o].out)
    BY <1>1, <2>3 DEF SuspendedEmpty, Emptied
  <2>5. stopper' = ArmStop(o)
    BY <2>3, <2>4 DEF Shape, ChannelsOK
  <2>6. ArmStop(o).pc # "none"
    BY DEF ArmStop
  <2> QED
    BY <2>2, <2>5, <2>6 DEF Waiting
<1>5. CASE ~\E req \in Requests : Teardown(req.input, req.type)
  <2>1. Emptied /\ current' = current
    BY <1>2, <1>5, EmptiedBefore
  <2>2. Waiting /\ stopper.pc # "none"
    BY <1>2, <2>1
  <2>3. ASSUME setups' = setups, stopper' = stopper
        PROVE  Waiting' /\ stopper'.pc # "none"
    BY <2>1, <2>2, <2>3 DEF Waiting, InProgress
  <2>4. CASE UNCHANGED vars \/ Authenticate
    BY <2>3, <2>4 DEF vars, Authenticate
  <2>5. ASSUME NEW s \in Setups, NEW req \in Requests, SetupBegins(s, req)
        PROVE  Waiting' /\ stopper'.pc # "none"
    <3>1. PICK o \in Objects :
            /\ current' = o
            /\ setups' = [setups EXCEPT ![s] = [pc |-> "metadata", object |-> o,
                                                request |-> req]]
      BY <2>5 DEF SetupBegins, SetupOpens
    <3>2. stopper' = stopper
      BY <2>5 DEF SetupBegins, SetupOpens
    <3> QED
      BY <2>1, <2>2, <3>1, <3>2 DEF Waiting, InProgress, Shape, SetupsOK
  <2>6. ASSUME NEW s \in Setups, MetadataArrives(s) PROVE FALSE
    <3>1. setups[s].object = current
      BY <2>2, <2>6 DEF MetadataArrives, Waiting, InProgress
    <3> QED
      BY <1>2, <2>1, <2>6, <3>1, SuspendedSteps DEF Emptied
  <2>7. ASSUME NEW s \in Setups, PackagerAssigned(s) PROVE FALSE
    BY <2>2, <2>7 DEF PackagerAssigned, PackagerReady, Waiting, InProgress
  <2>8. ASSUME NEW s \in Setups, SetupFails(s)
        PROVE  Waiting' /\ stopper'.pc # "none"
    BY <2>1, <2>2, <2>8 DEF SetupFails, SetupThrows, SetupEnds, Waiting, InProgress,
                            NoSetup, Shape,
                            SetupsOK
  <2>9. ASSUME NEW l \in Loops, Poll(l) PROVE setups' = setups /\ stopper' = stopper
    BY <2>9 DEF Poll, LoopWakes, LoopCancelled, LoopServed, LoopUnserved
  <2>10. ~StopFires
    BY <2>1 DEF StopFires, Emptied
  <2>11. ASSUME NEW o \in Objects, NEW ok \in BOOLEAN, BackendReplies(o, ok)
         PROVE  setups' = setups /\ stopper' = stopper
    BY <2>11 DEF BackendReplies
  <2> QED
    BY <1>5, <2>3, <2>4, <2>5, <2>6, <2>7, <2>8, <2>9, <2>10, <2>11 DEF Next
<1> QED
  BY <1>4, <1>5

(* A channel left without inputs waits out its grace period, or its id has the *)
(* entry of an earlier timer, unless a lease ran out: whatever setups begin and *)
(* fail in between, only one that has made the channel broadcast again cancels  *)
(* the stop.                                                                   *)
THEOREM EmptiedWaits == Spec => []EmptiedIsTimed
<1>1. Init => TimedInv
  BY DEF Init, TimedInv, SuspendedEmpty, NewChannel, Exclusive, Emptied, InProgress,
         NoSetup, lock!LockInit
<1>2. Shape /\ TimedInv /\ [Next]_vars => TimedInv'
  BY TimedStep
<1>3. TimedInv => EmptiedIsTimed
  BY DEF TimedInv, EmptiedIsTimed
<1> QED
  BY <1>1, <1>2, <1>3, ShapeInvariant, PTL DEF Spec
=============================================================================
