--------------------------- MODULE ReceiverProofs ---------------------------
(***************************************************************************)
(* Theorems about Receiver, for every configuration of tracks and every    *)
(* length of the stream: its type invariant, that each of its outputs      *)
(* implements KmpConnection, that no frame due to an output is lost while  *)
(* its stages work, and that the end of a session leaves nothing behind.   *)
(*                                                                         *)
(* The first inductive invariant (IInv) says, at every place of the thread,*)
(* that what a stage of the pipeline has let through is earlier than all   *)
(* that is still ahead of it: held by the stages before it or in the       *)
(* thread's hands.  The second (LossInv, which needs the first) says what  *)
(* exactly is ahead of a stage.                                            *)
(***************************************************************************)
EXTENDS Receiver, FiniteSetTheorems, TLAPS

Before(S, T) == \A m \in S, n \in T : m < n

Working == at \in {"filter", "sink", "encode", "direct"}

\* What has yet to reach filter g: the decoder's frames and the one in hand,
\* unless g has had its turn with it.
AheadOfFilter(g) ==
    decoder.held \cup
    {n \in {frame} : \/ at = "filter" /\ g >= cursor
                     \/ at \in {"sink", "encode"} /\ g > cursor}

\* What has yet to reach the encoder of output i.
AheadOfEncoder(i) ==
    LET g == outputs[i].filterId
    IN IF g = 0
       THEN decoder.held \cup
            {n \in {frame} : \/ at \in {"filter", "sink", "encode"}
                             \/ at = "direct" /\ i >= turn}
       ELSE AheadOfFilter(g) \cup filters[g].held \cup
            {n \in {filtered} : at = "encode" /\ g = cursor /\ i >= turn}

Seen(i) == outputs[i].sent \cup outputs[i].held

InHand ==
    /\ Working => frame \in 1 .. packets
    /\ at = "encode" => filtered \in 1 .. packets
    /\ at \in {"sink", "encode"} => cursor \in DOMAIN filters

Bounds ==
    /\ decoder.held \subseteq 1 .. packets
    /\ \A g \in DOMAIN filters : filters[g].held \subseteq 1 .. packets
    /\ \A i \in DOMAIN outputs : Seen(i) \subseteq 1 .. packets

\* What an output without an encoder, or without a connection, does not have.
Roles ==
    \A i \in DOMAIN outputs :
        /\ Track(i).passthrough => ~outputs[i].encoder
        /\ ~outputs[i].encoder => outputs[i].held = {}
        /\ outputs[i].phase = "none" => outputs[i].sent = {} /\ outputs[i].frames = 0
        /\ at \notin {"closing", "done", "dead"} => outputs[i].phase # "ended"

InOrder ==
    /\ \A i \in DOMAIN outputs : Before(outputs[i].sent, outputs[i].held)
    /\ \A g \in DOMAIN filters : Before(filters[g].held, AheadOfFilter(g))
    /\ \A i \in Current : outputs[i].encoder => Before(Seen(i), AheadOfEncoder(i))
    /\ Working => Before({frame}, decoder.held)
    /\ at = "encode" =>
           Before({filtered}, filters[cursor].held \cup AheadOfFilter(cursor))

IInv == Typed /\ InHand /\ Bounds /\ Roles /\ InOrder
-----------------------------------------------------------------------------
\* The frames a stage holds can be counted.
LEMMA SubsetCard ==
    ASSUME NEW n \in Nat, NEW S \in SUBSET (1 .. n)
    PROVE  IsFiniteSet(S) /\ Cardinality(S) \in Nat
  <1>1. IsFiniteSet(1 .. n)
    BY FS_Interval
  <1>2. IsFiniteSet(S)
    BY <1>1, FS_Subset
  <1> QED BY <1>2, FS_CardinalityType

\* The thread starts with nothing in any stage.
LEMMA InitInv == Init => IInv
  <1> SUFFICES ASSUME Init PROVE IInv
    OBVIOUS
  <1> USE DEF Init
  <1>1. Typed
    BY SessionAssumption DEF Typed, HeaderTypes, Places, DecoderType, Current
  <1>2. InHand /\ Bounds /\ Roles
    BY DEF InHand, Bounds, Roles, Working
  <1>3. InOrder
    BY DEF InOrder, Working, Current
  <1> QED BY <1>1, <1>2, <1>3 DEF IInv
-----------------------------------------------------------------------------
\* An output of the session is fed from the decoder or from one of its filters.
LEMMA FedFrom ==
    ASSUME Typed, NEW i \in Current
    PROVE  /\ i \in DOMAIN outputs
           /\ outputs[i].filterId = 0 \/ outputs[i].filterId \in DOMAIN filters
  <1>1. i \in DOMAIN outputs /\ outputs[i] \in OutputType
    BY DEF Typed, Current
  <1>2. outputs[i].filterId \in Nat /\ outputs[i].filterId <= Len(filters)
    BY <1>1 DEF Typed, OutputType
  <1> QED BY <1>1, <1>2 DEF Typed

\* A step that changes no stage keeps the invariant when nothing becomes ahead
\* of a stage that was not.
LEMMA Moves ==
    ASSUME IInv, UNCHANGED <<packets, first, stages>>,
           peer' \in {"new", "connected", "streaming", "ended", "closed", "reset"},
           header' \in HeaderTypes, at' \in Places \ {"encode"},
           cursor' \in Nat \ {0}, turn' \in Nat \ {0},
           frame' \in Nat, filtered' \in Nat,
           at \in {"closing", "done", "dead"} => at' \in {"closing", "done", "dead"},
           Working' => Working /\ frame' = frame,
           at' = "sink" => cursor' \in DOMAIN filters,
           \A g \in DOMAIN filters : AheadOfFilter(g)' \subseteq AheadOfFilter(g),
           \A i \in Current : AheadOfEncoder(i)' \subseteq AheadOfEncoder(i)
    PROVE  IInv'
  <1>1. Typed'
    BY DEF IInv, Typed, stages, Current, Track
  <1>2. InHand' /\ Bounds'
    BY DEF IInv, InHand, Bounds, stages, Seen, Working
  <1>3. Roles'
    BY DEF IInv, Roles, stages, Track
  <1>4. InOrder'
    <2>1. \A i \in DOMAIN outputs' : Before(outputs'[i].sent, outputs'[i].held)
      BY DEF IInv, InOrder, stages, Before
    <2>2. \A g \in DOMAIN filters' : Before(filters'[g].held, AheadOfFilter(g)')
      BY DEF IInv, InOrder, stages, Before
    <2>3. \A i \in Current' : outputs'[i].encoder => Before(Seen(i)', AheadOfEncoder(i)')
      BY DEF IInv, InOrder, stages, Before, Current, Seen
    <2>4. Working' => Before({frame}', decoder'.held)
      BY DEF IInv, InOrder, stages, Before
    <2> QED BY <2>1, <2>2, <2>3, <2>4 DEF InOrder, Before
  <1> QED BY <1>1, <1>2, <1>3, <1>4 DEF IInv

\* The thread has no frame in hand after the step.
LEMMA Rests ==
    ASSUME IInv, UNCHANGED <<packets, first, stages, frame, filtered>>,
           peer' \in {"new", "connected", "streaming", "ended", "closed", "reset"},
           header' \in HeaderTypes,
           at' \in Places \ {"filter", "sink", "encode", "direct"},
           cursor' \in Nat \ {0}, turn' \in Nat \ {0},
           at \in {"closing", "done", "dead"} => at' \in {"closing", "done", "dead"}
    PROVE  IInv'
  <1>1. ~Working'
    BY DEF Working, Places
  <1>2. \A g \in DOMAIN filters : AheadOfFilter(g)' \subseteq AheadOfFilter(g)
    BY DEF AheadOfFilter, Places, stages
  <1>3. \A i \in Current : AheadOfEncoder(i)' \subseteq AheadOfEncoder(i)
    BY <1>2 DEF AheadOfEncoder, AheadOfFilter, Places, stages
  <1> QED BY <1>1, <1>2, <1>3, Moves DEF IInv, Typed

\* The steps that end with no frame in the thread's hands and no stage changed.
LEMMA QuietInv ==
    ASSUME IInv,
           \/ ReadHeader \/ ReadNothing \/ PeerGoes \/ ServeConnect
           \/ ServeMediaInfoExits \/ ServeOther
           \/ /\ \/ SkipDisabled \/ AddOverruns \/ AddCrashes \/ AllAdded
                 \/ DecoderWaits \/ DecoderEnds \/ Flushed \/ ClosedAll \/ Killed
              /\ UNCHANGED <<peer, header>>
    PROVE  IInv'
  <1> USE DEF Goes, hands, IInv, Typed
  <1>1. CASE ReadHeader \/ ReadNothing \/ PeerGoes
    BY <1>1, Rests DEF ReadHeader, ReadNothing, PeerGoes, Sends, Gone, Places, sessionVars
  <1>2. CASE ServeConnect \/ ServeMediaInfoExits \/ ServeOther
    BY <1>2, Rests DEF ServeConnect, ServeMediaInfoExits, ServeOther, RecvFails, Gone, Places
  <1>3. CASE /\ SkipDisabled \/ AddOverruns \/ AddCrashes \/ AllAdded
             /\ UNCHANGED <<peer, header>>
    BY <1>3, Rests DEF SkipDisabled, AddStep, AddDone, AddOverruns, AddCrashes, AllAdded,
                       Places, stages
  <1>4. CASE (DecoderWaits \/ DecoderEnds) /\ UNCHANGED <<peer, header>>
    BY <1>4, Rests DEF DecoderWaits, DecoderEnds, Places
  <1>5. CASE (Flushed \/ ClosedAll \/ Killed) /\ UNCHANGED <<peer, header>>
    BY <1>5, Rests DEF Flushed, ServeEnds, ClosedAll, Killed, Places
  <1> QED BY <1>1, <1>2, <1>3, <1>4, <1>5

\* The steps that pass on to the next filter, encoder or frame.
LEMMA MovesInv ==
    ASSUME IInv, UNCHANGED <<peer, header>>,
           FilterWaits \/ FiltersDone \/ EncodedFiltered \/ EncodedDirect
    PROVE  IInv'
  <1> USE DEF Goes, Working
  <1>1. CASE FilterWaits
    <2>1. \A g \in DOMAIN filters : AheadOfFilter(g)' \subseteq AheadOfFilter(g)
      BY <1>1 DEF FilterWaits, AheadOfFilter, stages, IInv, Typed
    <2>2. \A i \in Current : AheadOfEncoder(i)' \subseteq AheadOfEncoder(i)
      BY <1>1, <2>1, FedFrom DEF FilterWaits, AheadOfEncoder, AheadOfFilter, stages, IInv
    <2> QED BY <1>1, <2>1, <2>2, Moves DEF FilterWaits, IInv, Typed, Places
  <1>2. CASE FiltersDone
    <2>1. \A g \in DOMAIN filters : AheadOfFilter(g)' \subseteq AheadOfFilter(g)
      BY <1>2 DEF FiltersDone, AheadOfFilter, stages, IInv, Typed
    <2>2. \A i \in Current : AheadOfEncoder(i)' \subseteq AheadOfEncoder(i)
      BY <1>2, <2>1 DEF FiltersDone, AheadOfEncoder, AheadOfFilter, stages, IInv, Typed, Current
    <2> QED BY <1>2, <2>1, <2>2, Moves DEF FiltersDone, IInv, Typed, Places
  <1>3. CASE EncodedFiltered
    <2> USE <1>3 DEF EncodedFiltered, ServeEnds
    <2>1. \A g \in DOMAIN filters : AheadOfFilter(g)' \subseteq AheadOfFilter(g)
      BY DEF AheadOfFilter, stages
    <2>2. \A i \in Current : AheadOfEncoder(i)' \subseteq AheadOfEncoder(i)
      BY <2>1 DEF AheadOfEncoder, AheadOfFilter, stages, Current
    <2> QED BY <2>1, <2>2, Moves DEF IInv, Typed, Places, InHand
  <1>4. CASE EncodedDirect
    <2> USE <1>4 DEF EncodedDirect, ServeEnds
    <2>1. \A g \in DOMAIN filters : AheadOfFilter(g)' \subseteq AheadOfFilter(g)
      BY DEF AheadOfFilter, stages
    <2>2. \A i \in Current : AheadOfEncoder(i)' \subseteq AheadOfEncoder(i)
      BY <2>1 DEF AheadOfEncoder, AheadOfFilter, stages, Current
    <2> QED BY <2>1, <2>2, Moves DEF IInv, Typed, Places, InHand
  <1> QED BY <1>1, <1>2, <1>3, <1>4
-----------------------------------------------------------------------------
\* The decoder gives a frame, loses some, or is told to drain: the outputs and
\* the filters are as they were.
LEMMA DecoderInv ==
    ASSUME IInv, UNCHANGED <<packets, first, filters, outputs, base>>,
           peer' \in {"new", "connected", "streaming", "ended", "closed", "reset"},
           header' \in HeaderTypes,
           DecoderGives \/ DecoderFails \/ StartClose, at \in {"decode", "body"}
    PROVE  IInv'
  <1> USE DEF Goes, Working
  <1>1. decoder' \in DecoderType /\ decoder'.held \subseteq decoder.held
    BY DEF DecoderGives, DecoderFails, StartClose, IInv, Typed, DecoderType
  <1>2. /\ at' \in Places \ {"sink", "encode", "direct"}
        /\ cursor' \in Nat \ {0} /\ turn' \in Nat \ {0}
        /\ frame' \in Nat /\ filtered' \in Nat
        /\ at' = "filter" =>
               /\ frame' \in decoder.held
               /\ Before({frame'}, decoder'.held)
        /\ at \in {"closing", "done", "dead"} => at' \in {"closing", "done", "dead"}
    <2>1. CASE DecoderGives
      BY <2>1 DEF DecoderGives, Earliest, Before, Places, IInv, Typed, Bounds, DecoderType
    <2>2. CASE DecoderFails
      <3>1. at' \in {"read", "dead"}
        BY <2>2 DEF DecoderFails
      <3> QED BY <2>2, <3>1 DEF DecoderFails, hands, Places, IInv, Typed
    <2>3. CASE StartClose
      <3>1. at' \in {"decode", "closing"}
        BY <2>3 DEF StartClose
      <3> QED BY <2>3, <3>1 DEF StartClose, Places, IInv, Typed
    <2> QED BY <2>1, <2>2, <2>3
  <1>3. Typed'
    BY <1>1, <1>2 DEF IInv, Typed, Current, Track
  <1>4. InHand' /\ Bounds'
    BY <1>1, <1>2 DEF IInv, InHand, Bounds, Seen, Places
  <1>5. Roles'
    BY <1>2 DEF IInv, Roles, Track, Places
  <1>6. \A g \in DOMAIN filters : AheadOfFilter(g)' \subseteq decoder.held
    BY <1>1, <1>2 DEF AheadOfFilter
  <1>7. \A g \in DOMAIN filters : decoder.held \subseteq AheadOfFilter(g)
    BY DEF AheadOfFilter
  <1>8. \A i \in Current : AheadOfEncoder(i)' \subseteq AheadOfEncoder(i)
    BY <1>1, <1>2, <1>6, <1>7 DEF AheadOfEncoder, AheadOfFilter, IInv, Typed, Current, OutputType
  <1>9. InOrder'
    <2>1. \A g \in DOMAIN filters' : Before(filters'[g].held, AheadOfFilter(g)')
      BY <1>6, <1>7 DEF IInv, InOrder, Before
    <2>2. \A i \in Current' : outputs'[i].encoder => Before(Seen(i)', AheadOfEncoder(i)')
      BY <1>8 DEF IInv, InOrder, Before, Current, Seen
    <2> QED BY <1>2, <2>1, <2>2 DEF IInv, InOrder, Places
  <1> QED BY <1>3, <1>4, <1>5, <1>9 DEF IInv
-----------------------------------------------------------------------------
\* The filter whose turn it is takes the frame in hand, gives a frame or fails:
\* the decoder and the outputs are as they were.
FilterSteps == FilterTakes \/ FilterRefuses \/ FilterGives \/ FilterFails

\* A filter that was given a frame is a filter.
LEMMA FedType ==
    ASSUME NEW f \in FilterType, NEW held \in SUBSET Nat, NEW ok \in BOOLEAN
    PROVE  [f EXCEPT !.count = @ + 1, !.held = held, !.ok = ok] \in FilterType
  <1>1. f.count + 1 \in Nat
    BY DEF FilterType
  <1>2. [f EXCEPT !.count = f.count + 1] \in FilterType
    BY <1>1 DEF FilterType
  <1> QED BY <1>2 DEF FilterType

\* Only what filter `cursor` holds is different, and its counts.
LEMMA FilterFacts ==
    ASSUME IInv, FilterSteps
    PROVE  /\ cursor \in DOMAIN filters
           /\ filters' \in Seq(FilterType) /\ DOMAIN filters' = DOMAIN filters
           /\ Len(filters') = Len(filters)
           /\ \A g \in DOMAIN filters : g # cursor => filters'[g] = filters[g]
           /\ UNCHANGED <<packets, first, decoder, outputs, base, frame>>
  <1>1. cursor \in DOMAIN filters
    BY DEF FilterSteps, FilterTakes, FilterRefuses, FilterGives, FilterFails, Goes, IInv, InHand
  <1>2. /\ UNCHANGED <<packets, first, decoder, outputs, base, frame>>
        /\ \E f \in FilterType : filters' = [filters EXCEPT ![cursor] = f]
    <2> DEFINE f == filters[cursor]
    <2>0. f \in FilterType
      BY <1>1 DEF IInv, Typed
    <2>1. CASE FilterTakes
      <3> DEFINE new == IF Passes(f) THEN f.held \cup {frame} ELSE f.held
      <3>1. [f EXCEPT !.count = @ + 1, !.held = new, !.ok = f.ok] \in FilterType
        <4>1. new \in SUBSET Nat /\ f.ok \in BOOLEAN
          BY <2>0 DEF FilterType, IInv, Typed
        <4> HIDE DEF f, new
        <4> QED BY <2>0, <4>1, FedType
      <3>2. filters' = [filters EXCEPT ![cursor] =
                           [f EXCEPT !.count = @ + 1, !.held = new, !.ok = f.ok]]
        BY <2>1 DEF FilterTakes, Feed, IInv, Typed
      <3> QED BY <2>1, <3>1, <3>2 DEF FilterTakes, hands
    <2>2. CASE FilterRefuses
      <3>1. [f EXCEPT !.count = @ + 1, !.held = f.held, !.ok = FALSE] \in FilterType
        <4>1. f.held \in SUBSET Nat
          BY <2>0 DEF FilterType
        <4> HIDE DEF f
        <4> QED BY <2>0, <4>1, FedType
      <3>2. filters' = [filters EXCEPT ![cursor] =
                           [f EXCEPT !.count = @ + 1, !.held = f.held, !.ok = FALSE]]
        BY <2>2 DEF FilterRefuses, Feed, IInv, Typed
      <3> QED BY <2>2, <3>1, <3>2 DEF FilterRefuses
    <2>3. CASE FilterGives
      <3>1. PICK n : filters' = [filters EXCEPT ![cursor] = [f EXCEPT !.held = @ \ {n}]]
        BY <2>3 DEF FilterGives
      <3>2. [f EXCEPT !.held = @ \ {n}] \in FilterType
        BY <2>0 DEF FilterType
      <3> QED BY <2>3, <3>1, <3>2 DEF FilterGives
    <2>4. CASE FilterFails
      <3>1. PICK lost : filters' = [filters EXCEPT ![cursor] =
                                       [f EXCEPT !.ok = FALSE, !.held = @ \ lost]]
        BY <2>4 DEF FilterFails
      <3>2. [f EXCEPT !.ok = FALSE, !.held = @ \ lost] \in FilterType
        BY <2>0 DEF FilterType
      <3> QED BY <2>4, <3>1, <3>2 DEF FilterFails
    <2> QED BY <2>1, <2>2, <2>3, <2>4 DEF FilterSteps
  <1> QED BY <1>1, <1>2 DEF IInv, Typed

\* What the filter holds after its step, and where the thread goes.
LEMMA FilterHolds ==
    ASSUME IInv, FilterSteps
    PROVE  /\ cursor' \in Nat \ {0} /\ turn' \in Nat \ {0} /\ filtered' \in Nat
           /\ \/ FilterTakes /\ at' = "sink" /\ cursor' = cursor
              \/ FilterRefuses /\ at' = "filter" /\ cursor' = cursor + 1
              \/ FilterGives /\ at' = "encode" /\ cursor' = cursor
              \/ FilterFails /\ at' = "filter" /\ cursor' = cursor + 1
           /\ FilterTakes => filters'[cursor].held \subseteq filters[cursor].held \cup {frame}
           /\ ~FilterTakes => filters'[cursor].held \subseteq filters[cursor].held
           /\ FilterGives => /\ filtered' \in filters[cursor].held
                             /\ Before({filtered'}, filters'[cursor].held)
  <1> USE FilterFacts DEF Goes
  <1>0. /\ filters \in Seq(FilterType) /\ filters[cursor] \in FilterType
        /\ cursor \in Nat \ {0} /\ turn \in Nat \ {0} /\ filtered \in Nat
        /\ base \in Nat /\ packets \in Nat
        /\ filters[cursor].held \subseteq 1 .. packets
    BY DEF IInv, Typed, Bounds
  <1>1. CASE FilterTakes
    <2>1. filters'[cursor].held =
             IF Passes(filters[cursor]) THEN filters[cursor].held \cup {frame}
             ELSE filters[cursor].held
      BY <1>0, <1>1 DEF FilterTakes, Feed, FilterType
    <2>2. ~FilterGives
      BY <1>1 DEF FilterTakes, FilterGives
    <2>9. at' = "sink" /\ UNCHANGED <<cursor, turn, filtered>>
      BY <1>0, <1>1 DEF FilterTakes, hands
    <2> QED BY <1>1, <2>1, <2>2, <1>0, <2>9
  <1>2. CASE FilterRefuses
    <2>1. filters'[cursor].held = filters[cursor].held
      BY <1>0, <1>2 DEF FilterRefuses, Feed, FilterType
    <2>2. ~FilterGives /\ ~FilterTakes
      BY <1>2 DEF FilterRefuses, FilterTakes, FilterGives
    <2>9. /\ at' = "filter" /\ cursor' = cursor + 1 /\ cursor' \in Nat \ {0}
          /\ UNCHANGED <<turn, filtered>>
      BY <1>0, <1>2 DEF FilterRefuses
    <2> QED BY <1>2, <2>1, <2>2, <1>0, <2>9
  <1>3. CASE FilterGives
    <2>1. PICK n \in filters[cursor].held :
             /\ Earliest(n, filters[cursor].held)
             /\ filtered' = n
             /\ filters' = [filters EXCEPT ![cursor].held = @ \ {n}]
      BY <1>3 DEF FilterGives
    <2>2. filters[cursor].held \in SUBSET Nat
      BY <1>0 DEF FilterType
    <2>3. filters'[cursor].held = filters[cursor].held \ {n}
      BY <1>0, <2>1 DEF FilterType
    <2>4. ~FilterTakes
      BY <1>3 DEF FilterGives, FilterTakes
    <2>5. Before({filtered'}, filters'[cursor].held)
      BY <2>1, <2>2, <2>3 DEF Before, Earliest
    <2>9. /\ at' = "encode" /\ UNCHANGED cursor
          /\ turn' \in Nat \ {0} /\ filtered' \in Nat
      BY <1>0, <1>3, <2>1 DEF FilterGives
    <2> QED BY <1>3, <2>1, <2>2, <2>3, <2>4, <2>5, <1>0, <2>9
  <1>4. CASE FilterFails
    <2>0. PICK lost : filters' = [filters EXCEPT ![cursor].ok = FALSE,
                                                  ![cursor].held = @ \ lost]
      BY <1>4 DEF FilterFails
    <2>1. filters'[cursor].held \subseteq filters[cursor].held
      BY <1>0, <2>0 DEF FilterType
    <2>2. ~FilterTakes /\ ~FilterGives
      BY <1>4 DEF FilterFails, FilterTakes, FilterGives
    <2>9. /\ at' = "filter" /\ cursor' = cursor + 1 /\ cursor' \in Nat \ {0}
          /\ UNCHANGED <<turn, filtered>>
      BY <1>0, <1>4 DEF FilterFails
    <2> QED BY <1>4, <2>1, <2>2, <1>0, <2>9
  <1> QED BY <1>1, <1>2, <1>3, <1>4 DEF FilterSteps

\* A filter's step moves frames from ahead of it to what it holds or gives.
LEMMA FilterInv ==
    ASSUME IInv, FilterSteps, UNCHANGED <<peer, header>>
    PROVE  IInv'
  <1> USE FilterFacts
  <1>1. /\ at \in {"filter", "sink"} /\ at' \in {"filter", "sink", "encode"}
        /\ at' = "encode" => FilterGives
        /\ FilterTakes => at = "filter" /\ at' = "sink"
        /\ FilterGives => at = "sink" /\ at' = "encode" /\ turn' = base + 1
    BY FilterHolds DEF FilterSteps, FilterTakes, FilterRefuses, FilterGives, FilterFails, Goes
  <1>2. Typed'
    BY <1>1, FilterHolds DEF IInv, Typed, Current, Track, Places
  <1>3. frame \in 1 .. packets /\ Before({frame}, decoder.held)
    BY <1>1 DEF IInv, InHand, InOrder, Working
  <1>4. filters[cursor].held \subseteq 1 .. packets
    BY DEF IInv, Bounds
  <1>5. InHand' /\ Bounds'
    <2>1. InHand'
      BY <1>1, <1>3, <1>4, FilterHolds DEF InHand, Working
    <2>2. Bounds'
      BY <1>3, <1>4, FilterHolds DEF IInv, Bounds, Seen
    <2> QED BY <2>1, <2>2
  <1>6. Roles'
    BY <1>1 DEF IInv, Roles, Track
  <1>7. \A g \in DOMAIN filters : AheadOfFilter(g)' \subseteq AheadOfFilter(g)
    <2> SUFFICES ASSUME NEW g \in DOMAIN filters
                 PROVE  AheadOfFilter(g)' \subseteq AheadOfFilter(g)
      OBVIOUS
    <2>1. g \in Nat /\ cursor \in Nat
      BY DEF IInv, Typed
    <2>2. CASE at = "filter"
      BY <1>1, <2>1, <2>2, FilterHolds DEF AheadOfFilter
    <2>3. CASE at = "sink"
      BY <1>1, <2>1, <2>3, FilterHolds DEF AheadOfFilter, FilterRefuses
    <2> QED BY <1>1, <2>2, <2>3
  <1>8. \A g \in DOMAIN filters :
           FilterTakes /\ g = cursor => AheadOfFilter(g)' = decoder.held
    BY <1>1, FilterHolds DEF AheadOfFilter, FilterTakes, hands, IInv, Typed
  <1>9. /\ decoder.held \subseteq AheadOfFilter(cursor)
        /\ FilterTakes => frame \in AheadOfFilter(cursor)
    BY <1>1 DEF AheadOfFilter, IInv, Typed
  <1>10. \A i \in Current : AheadOfEncoder(i)' \subseteq AheadOfEncoder(i)
    <2> SUFFICES ASSUME NEW i \in Current
                 PROVE  AheadOfEncoder(i)' \subseteq AheadOfEncoder(i)
      OBVIOUS
    <2>1. outputs[i].filterId = 0 \/ outputs[i].filterId \in DOMAIN filters
      BY FedFrom DEF IInv
    <2>2. CASE outputs[i].filterId = 0
      BY <1>1, <2>2 DEF AheadOfEncoder
    <2>3. CASE outputs[i].filterId \in DOMAIN filters \ {cursor, 0}
      BY <1>1, <1>7, <2>3, FilterHolds DEF AheadOfEncoder, FilterGives
    <2>4. CASE outputs[i].filterId = cursor /\ cursor # 0
      BY <1>1, <1>7, <1>9, <2>4, FilterHolds DEF AheadOfEncoder
    <2> QED BY <2>1, <2>2, <2>3, <2>4
  <1>11. InOrder'
    <2>1. \A g \in DOMAIN filters' : Before(filters'[g].held, AheadOfFilter(g)')
      <3> SUFFICES ASSUME NEW g \in DOMAIN filters
                   PROVE  Before(filters'[g].held, AheadOfFilter(g)')
        OBVIOUS
      <3>1. Before(filters[g].held, AheadOfFilter(g))
        BY DEF IInv, InOrder
      <3>2. CASE FilterTakes /\ g = cursor
        BY <1>3, <1>8, <1>9, <3>1, <3>2, FilterHolds DEF Before
      <3>3. CASE ~FilterTakes \/ g # cursor
        BY <1>7, <3>1, <3>3, FilterHolds DEF Before
      <3> QED BY <3>2, <3>3
    <2>2. \A i \in Current' : outputs'[i].encoder => Before(Seen(i)', AheadOfEncoder(i)')
      BY <1>10 DEF IInv, InOrder, Before, Current, Seen
    <2>3. (at = "encode" =>
             Before({filtered}, filters[cursor].held \cup AheadOfFilter(cursor)))'
      <3> SUFFICES ASSUME at' = "encode"
                   PROVE  Before({filtered}, filters[cursor].held \cup AheadOfFilter(cursor))'
        OBVIOUS
      <3>1. Before(filters[cursor].held, AheadOfFilter(cursor))
        BY DEF IInv, InOrder
      <3>2. AheadOfFilter(cursor)' \subseteq AheadOfFilter(cursor)
        BY <1>1, FilterHolds DEF AheadOfFilter, FilterGives
      <3> QED BY <1>1, <3>1, <3>2, FilterHolds DEF Before, FilterGives
    <2>4. \A i \in DOMAIN outputs' : Before(outputs'[i].sent, outputs'[i].held)
      BY DEF IInv, InOrder
    <2>5. Working' => Before({frame'}, decoder'.held)
      BY <1>3
    <2> QED BY <2>1, <2>2, <2>3, <2>4, <2>5 DEF InOrder
  <1> QED BY <1>2, <1>5, <1>6, <1>11 DEF IInv
-----------------------------------------------------------------------------
\* A session starts, or an output is added to it.
LEMMA EmptiedType ==
    ASSUME NEW o \in OutputType, NEW new, new = [o EXCEPT !.held = {}]
    PROVE  /\ new \in OutputType
           /\ new.track = o.track /\ new.filterId = o.filterId
           /\ new.encoder = o.encoder /\ new.phase = o.phase
           /\ new.sent = o.sent /\ new.frames = o.frames
           /\ new.held = {}
  BY DEF OutputType

\* A new session has empty stages, and no output yet.
LEMMA ServeMediaInfoInv ==
    ASSUME IInv, ServeMediaInfo
    PROVE  IInv'
  <1> USE DEF ServeMediaInfo, SessionInit, SessionBegins, Goes
  <1>1. /\ outputs' \in Seq(OutputType) /\ DOMAIN outputs' = DOMAIN outputs
        /\ Len(outputs') = Len(outputs)
        /\ \A i \in DOMAIN outputs : outputs'[i] = [outputs[i] EXCEPT !.held = {}]
    <2>1. \A i \in DOMAIN outputs : [outputs[i] EXCEPT !.held = {}] \in OutputType
      <3>1. \A i \in DOMAIN outputs : outputs[i] \in OutputType
        BY DEF IInv, Typed
      <3> QED BY <3>1, EmptiedType
    <2>2. DOMAIN outputs = 1 .. Len(outputs) /\ Len(outputs) \in Nat
      BY DEF IInv, Typed
    <2> QED BY <2>1, <2>2
  <1>2. \A i \in DOMAIN outputs :
           /\ outputs'[i].track = outputs[i].track
           /\ outputs'[i].filterId = outputs[i].filterId
           /\ outputs'[i].encoder = outputs[i].encoder
           /\ outputs'[i].phase = outputs[i].phase
           /\ outputs'[i].sent = outputs[i].sent
           /\ outputs'[i].frames = outputs[i].frames
           /\ outputs'[i].held = {}
    <2>1. \A i \in DOMAIN outputs : outputs[i] \in OutputType
      BY DEF IInv, Typed
    <2> QED BY <1>1, <2>1, EmptiedType
  <1>3. decoder' \in DecoderType /\ decoder'.held \subseteq decoder.held
    <2>1. ASSUME NEW d \in BOOLEAN, decoder' = [decoder EXCEPT !.described = d, !.ok = FALSE]
          PROVE  decoder' \in DecoderType /\ decoder'.held \subseteq decoder.held
      BY <2>1 DEF IInv, Typed, DecoderType
    <2>2. CASE decoder' = [described |-> TRUE, open |-> TRUE, draining |-> FALSE,
                           ok |-> TRUE, held |-> {}]
      BY <2>2 DEF DecoderType
    <2>3. (decoder.described \/ peer # "closed") \in BOOLEAN
      BY DEF IInv, Typed, DecoderType
    <2> QED BY <2>1, <2>2, <2>3 DEF InitDecoder
  <1>4. base' = Len(outputs) /\ Current' = {}
    BY <1>1 DEF Current, IInv, Typed
  <1>5. Typed'
    <2>1. /\ peer' = peer /\ header' = header /\ at' \in Places /\ packets' = packets
          /\ first' = packets /\ filters' = <<>> /\ cursor' = 1
          /\ UNCHANGED <<turn, frame, filtered>>
      BY DEF Places
    <2>2. packets' \in Nat /\ first' \in 0 .. packets' /\ base' \in 0 .. Len(outputs')
      BY <1>1, <1>4, <2>1 DEF IInv, Typed
    <2>3. filters' \in Seq(FilterType) /\ cursor' \in Nat \ {0}
      BY <2>1
    <2>4. \A i \in DOMAIN outputs' :
             outputs'[i].phase # "none" <=> outputs'[i].encoder \/ Track(i)'.passthrough
      BY <1>1, <1>2 DEF IInv, Typed, Track
    <2> QED BY <1>1, <1>3, <1>4, <2>1, <2>2, <2>3, <2>4 DEF IInv, Typed
  <1>6. InHand' /\ Bounds'
    BY <1>1, <1>2, <1>3 DEF IInv, InHand, Bounds, Seen, Working
  <1>7. Roles'
    BY <1>1, <1>2 DEF IInv, Roles, Track
  <1>8. InOrder'
    BY <1>1, <1>2, <1>4 DEF InOrder, Before, Working
  <1> QED BY <1>5, <1>6, <1>7, <1>8 DEF IInv

\* The output appended by an action of AddTranscoded or AddPassthrough.
LEMMA NewOutputInv ==
    ASSUME IInv, at = "adding", at' = "adding", cursor \in DOMAIN Tracks,
           cursor' = cursor + 1, UNCHANGED <<peer, header>>, AddDone,
           NEW o, outputs' = Append(outputs, o), o \in OutputType,
           o.held = {}, o.sent = {}, o.frames = 0, o.phase # "ended",
           o.phase # "none" <=> o.encoder \/ Tracks[o.track].passthrough,
           Tracks[o.track].passthrough => ~o.encoder,
           filters' \in Seq(FilterType), Len(filters) <= Len(filters'),
           o.filterId <= Len(filters'),
           \A g \in DOMAIN filters' : filters'[g].held \subseteq 1 .. packets,
           \A g \in DOMAIN filters : filters'[g] = filters[g],
           \A g \in DOMAIN filters' \ DOMAIN filters : filters'[g].held = {}
    PROVE  IInv'
  <1>1. /\ outputs' \in Seq(OutputType) /\ Len(outputs') = Len(outputs) + 1
        /\ DOMAIN outputs' = 1 .. (Len(outputs) + 1)
        /\ outputs'[Len(outputs) + 1] = o
        /\ \A i \in DOMAIN outputs : outputs'[i] = outputs[i]
        /\ DOMAIN outputs = 1 .. Len(outputs) /\ Len(outputs) \in Nat
    BY DEF IInv, Typed
  <1>2. \A i \in DOMAIN outputs' : i \in DOMAIN outputs \/ outputs'[i] = o
    BY <1>1
  <1>3. Current' \subseteq Current \cup {Len(outputs) + 1}
    BY <1>1 DEF Current, AddDone, IInv, Typed
  <1>4. Typed'
    <2>1. \A i \in Current' : outputs'[i].filterId <= Len(filters')
      <3>1. \A i \in Current : outputs[i].filterId \in Nat /\ i \in DOMAIN outputs
        <4>1. \A i \in Current : i \in DOMAIN outputs
          BY FedFrom DEF IInv
        <4>2. \A i \in Current : outputs[i] \in OutputType
          BY <4>1 DEF IInv, Typed
        <4> QED BY <4>1, <4>2 DEF OutputType
      <3> QED BY <1>1, <1>3, <3>1 DEF IInv, Typed
    <2>2. \A i \in DOMAIN outputs' :
             outputs'[i].phase # "none"
                <=> outputs'[i].encoder \/ Tracks[outputs'[i].track].passthrough
      BY <1>1, <1>2 DEF IInv, Typed, Track
    <2>3. base' \in 0 .. Len(outputs')
      BY <1>1 DEF IInv, Typed, AddDone
    <2>4. cursor' \in Nat \ {0}
      BY DEF IInv, Typed
    <2> QED BY <1>1, <2>1, <2>2, <2>3, <2>4 DEF IInv, Typed, Track, AddDone, Places
  <1>5. InHand' /\ Bounds'
    BY <1>1, <1>2 DEF IInv, InHand, Bounds, Seen, Working, AddDone
  <1>6. Roles'
    BY <1>1, <1>2 DEF IInv, Roles, Track, AddDone
  <1>7. InOrder'
    <2>1. \A i \in DOMAIN outputs' : Before(outputs'[i].sent, outputs'[i].held)
      BY <1>1, <1>2 DEF IInv, InOrder, Before
    <2>2. \A g \in DOMAIN filters' : Before(filters'[g].held, AheadOfFilter(g)')
      BY DEF IInv, InOrder, Before, AheadOfFilter, AddDone
    <2>3. \A i \in Current' : outputs'[i].encoder => Before(Seen(i)', AheadOfEncoder(i)')
      <3> SUFFICES ASSUME NEW i \in Current', outputs'[i].encoder
                   PROVE  Before(Seen(i)', AheadOfEncoder(i)')
        OBVIOUS
      <3>1. CASE i = Len(outputs) + 1
        BY <1>1, <3>1 DEF Before, Seen
      <3>2. CASE i \in Current
        <4>1. /\ i \in DOMAIN outputs
              /\ outputs[i].filterId = 0 \/ outputs[i].filterId \in DOMAIN filters
          BY <3>2, FedFrom DEF IInv
        <4>2. AheadOfEncoder(i)' \subseteq AheadOfEncoder(i) /\ Seen(i)' = Seen(i)
          BY <1>1, <4>1 DEF AheadOfEncoder, AheadOfFilter, Seen, AddDone
        <4> QED BY <1>1, <3>2, <4>1, <4>2 DEF IInv, InOrder, Before
      <3> QED BY <1>3, <3>1, <3>2
    <2> QED BY <2>1, <2>2, <2>3 DEF InOrder, Working
  <1> QED BY <1>4, <1>5, <1>6, <1>7 DEF IInv

\* transcode_session_add_output for an output without an encoder.
LEMMA AddPassthroughInv ==
    ASSUME IInv, AddPassthrough, UNCHANGED <<peer, header>>
    PROVE  IInv'
  <1> USE DEF AddPassthrough, AddStep
  <1> DEFINE o == [NewOutput EXCEPT !.phase = "described"]
  <1>1. /\ o \in OutputType /\ o.track = cursor /\ o.filterId = 0
        /\ o.encoder = FALSE /\ o.phase = "described"
        /\ o.held = {} /\ o.sent = {} /\ o.frames = 0
    BY DEF NewOutput, OutputType
  <1>2. outputs' = Append(outputs, o) /\ UNCHANGED filters /\ at' = "adding"
    BY DEF AddDone
  <1>3. filters \in Seq(FilterType) /\ Len(filters) \in Nat
    BY DEF IInv, Typed
  <1>4. \A g \in DOMAIN filters : filters[g].held \subseteq 1 .. packets
    BY DEF IInv, Bounds
  <1> HIDE DEF o
  <1> QED BY <1>1, <1>2, <1>3, <1>4, NewOutputInv

\* get_filter_config makes a configuration.
LEMMA ConfigType ==
    ASSUME NEW n \in DOMAIN Tracks
    PROVE  FilterConfig(Tracks[n]) \in FilterConfigType
  <1>1. Tracks[n] \in TrackType
    BY SessionAssumption
  <1>2. CASE Media = "audio"
    BY <1>1, <1>2 DEF FilterConfig, FilterConfigType
  <1>3. CASE Media # "audio"
    <2>1. /\ Tracks[n].skip \in Nat \ {0} /\ Tracks[n].height \in Nat
          /\ Tracks[n].software \in BOOLEAN
      BY <1>1 DEF TrackType
    <2>2. (~Accelerated \/ Tracks[n].software) \in BOOLEAN
      OBVIOUS
    <2>3. FilterConfig(Tracks[n]) =
             [skip |-> Tracks[n].skip, height |-> Tracks[n].height,
              cpu |-> ~Accelerated \/ Tracks[n].software]
      BY <1>3 DEF FilterConfig
    <2> QED BY <2>1, <2>2, <2>3 DEF FilterConfigType
  <1> QED BY <1>2, <1>3

\* transcode_session_add_output for the others, with or without a filter.
LEMMA AddTranscodedInv ==
    ASSUME IInv, AddTranscoded, UNCHANGED <<peer, header>>
    PROVE  IInv'
  <1> USE DEF AddTranscoded, AddStep
  <1> DEFINE config == FilterConfig(Tracks[cursor])
  <1>1. config \in FilterConfigType /\ ~Tracks[cursor].passthrough
    BY ConfigType
  <1>2. filters \in Seq(FilterType) /\ Len(filters) \in Nat
    BY DEF IInv, Typed
  <1>3. \A g \in DOMAIN filters : filters[g].held \subseteq 1 .. packets
    BY DEF IInv, Bounds
  <1>4. ASSUME NEW id \in Nat, NEW cpu \in BOOLEAN, AddEncoded(id, cpu),
               id <= Len(filters'), filters' \in Seq(FilterType),
               Len(filters) <= Len(filters'),
               \A g \in DOMAIN filters : filters'[g] = filters[g],
               \A g \in DOMAIN filters' \ DOMAIN filters : filters'[g].held = {}
        PROVE  IInv'
    <2>1. PICK opens \in BOOLEAN :
             outputs' = Append(outputs,
                [NewOutput EXCEPT !.filterId = id, !.cpu = cpu, !.encoder = opens,
                                  !.phase = IF opens THEN "described" ELSE "none"])
      BY <1>4 DEF AddEncoded
    <2> DEFINE phase == IF opens THEN "described" ELSE "none"
               o == [NewOutput EXCEPT !.filterId = id, !.cpu = cpu,
                                      !.encoder = opens, !.phase = phase]
    <2>2. phase \in {"none", "described"} /\ (phase # "none" <=> opens)
      OBVIOUS
    <2>3. outputs' = Append(outputs, o)
      BY <2>1
    <2> HIDE DEF phase
    <2>4. /\ o \in OutputType /\ o.track = cursor /\ o.filterId = id
          /\ o.encoder = opens /\ o.phase = phase
          /\ o.held = {} /\ o.sent = {} /\ o.frames = 0
      <3>1. cursor \in DOMAIN Tracks
        OBVIOUS
      <3> HIDE DEF AddTranscoded, AddStep
      <3> QED BY <1>4, <2>2, <3>1 DEF NewOutput, OutputType
    <2>5. \A g \in DOMAIN filters' : filters'[g].held \subseteq 1 .. packets
      BY <1>3, <1>4
    <2>6. at = "adding" /\ at' = "adding"
      BY DEF AddDone
    <2> HIDE DEF o
    <2> QED BY <1>1, <1>4, <2>2, <2>3, <2>4, <2>5, <2>6, NewOutputInv
  <1>5. CASE ReuseFilter(config)
    <2>1. PICK id \in DOMAIN filters : AddEncoded(id, filters[Len(filters)].config.cpu)
      BY <1>5 DEF ReuseFilter
    <2>2. id \in Nat /\ id <= Len(filters) /\ UNCHANGED filters
      BY <1>2, <1>5, <2>1 DEF ReuseFilter
    <2>3. filters[Len(filters)] \in FilterType
      BY <1>2, <2>1
    <2>4. filters[Len(filters)].config.cpu \in BOOLEAN
      BY <2>3 DEF FilterType, FilterConfigType
    <2> QED BY <1>2, <1>4, <2>1, <2>2, <2>4
  <1>6. CASE CreateFilter(config)
    <2> DEFINE f == [config |-> config, count |-> 0, ok |-> TRUE, held |-> {}]
    <2>1. /\ f \in FilterType /\ f.held = {}
          /\ filters' = Append(filters, f) /\ AddEncoded(Len(filters) + 1, config.cpu)
      BY <1>1, <1>6 DEF CreateFilter, FilterType
    <2> HIDE DEF f
    <2>2. /\ filters' \in Seq(FilterType) /\ Len(filters') = Len(filters) + 1
          /\ DOMAIN filters = 1 .. Len(filters)
          /\ DOMAIN filters' = 1 .. (Len(filters) + 1)
          /\ \A g \in DOMAIN filters : filters'[g] = filters[g]
          /\ filters'[Len(filters) + 1] = f
      BY <1>2, <2>1
    <2>3. \A g \in DOMAIN filters' \ DOMAIN filters : filters'[g].held = {}
      BY <1>2, <2>1, <2>2
    <2>4. config.cpu \in BOOLEAN
      BY <1>1 DEF FilterConfigType
    <2> HIDE DEF config
    <2> QED BY <1>2, <1>4, <2>1, <2>2, <2>3, <2>4
  <1>7. CASE CreateFilterFails(config)
    <2>1. \E cpu \in BOOLEAN : AddEncoded(0, cpu)
      BY <1>7, Zenon DEF CreateFilterFails
    <2>2. UNCHANGED filters
      BY <1>7 DEF CreateFilterFails
    <2> QED BY <1>2, <1>4, <2>1, <2>2
  <1> QED BY <1>5, <1>6, <1>7
-----------------------------------------------------------------------------
\* A packet goes to the passthrough outputs and to the decoder: it is later
\* than every frame the session has.
Passed(o, n) == [o EXCEPT !.sent = @ \cup {n}, !.frames = @ + 1]

\* An output that was sent a packet is an output.
LEMMA PassthroughType ==
    ASSUME NEW o \in OutputType, NEW n \in Nat
    PROVE  /\ Passed(o, n) \in OutputType
           /\ Passed(o, n).track = o.track /\ Passed(o, n).filterId = o.filterId
           /\ Passed(o, n).encoder = o.encoder /\ Passed(o, n).phase = o.phase
           /\ Passed(o, n).held = o.held
           /\ Passed(o, n).sent = o.sent \cup {n}
           /\ Passed(o, n).frames = o.frames + 1
  <1>1. o.sent \cup {n} \in SUBSET Nat /\ o.frames + 1 \in Nat
    BY DEF OutputType
  <1>2. [o EXCEPT !.sent = o.sent \cup {n}] \in OutputType
    BY <1>1 DEF OutputType
  <1> QED BY <1>1, <1>2 DEF OutputType, Passed

\* The outputs after a packet: passthrough outputs sent it, others did not.
LEMMA PassthroughFacts ==
    ASSUME IInv, Passthrough(packets + 1)
    PROVE  /\ outputs' \in Seq(OutputType) /\ Len(outputs') = Len(outputs)
           /\ DOMAIN outputs' = DOMAIN outputs
           /\ \A i \in DOMAIN outputs :
                 /\ outputs'[i].track = outputs[i].track
                 /\ outputs'[i].filterId = outputs[i].filterId
                 /\ outputs'[i].encoder = outputs[i].encoder
                 /\ outputs'[i].phase = outputs[i].phase
                 /\ outputs'[i].held = outputs[i].held
                 /\ \/ outputs'[i].sent = outputs[i].sent
                    \/ /\ i \in Current /\ Track(i).passthrough
                       /\ outputs'[i].sent = outputs[i].sent \cup {packets + 1}
                 /\ \/ outputs'[i] = outputs[i]
                    \/ outputs'[i].frames = outputs[i].frames + 1
                       /\ outputs'[i].sent = outputs[i].sent \cup {packets + 1}
  <1>1. /\ packets + 1 \in Nat /\ Len(outputs) \in Nat
        /\ DOMAIN outputs = 1 .. Len(outputs)
        /\ \A i \in DOMAIN outputs : outputs[i] \in OutputType
    BY DEF IInv, Typed
  <1>2. \A i \in DOMAIN outputs :
           /\ outputs'[i] \in OutputType
           /\ \/ outputs'[i] = outputs[i]
              \/ /\ i \in Current /\ Track(i).passthrough
                 /\ outputs'[i] = Passed(outputs[i], packets + 1)
    <2>1. \A i \in DOMAIN outputs :
             \/ outputs'[i] = outputs[i]
             \/ /\ i \in Current /\ Track(i).passthrough
                /\ outputs'[i] = Passed(outputs[i], packets + 1)
      BY DEF Passthrough, Passed
    <2> QED BY <1>1, <2>1, PassthroughType
  <1>3. outputs' \in Seq(OutputType) /\ Len(outputs') = Len(outputs)
    <2>1. outputs' \in [1 .. Len(outputs) -> OutputType]
      BY <1>1, <1>2 DEF Passthrough
    <2> QED BY <1>1, <2>1
  <1>4. DOMAIN outputs' = DOMAIN outputs
    BY <1>1, <1>3
  <1>5. ASSUME NEW i \in DOMAIN outputs
        PROVE  /\ outputs'[i].track = outputs[i].track
               /\ outputs'[i].filterId = outputs[i].filterId
               /\ outputs'[i].encoder = outputs[i].encoder
               /\ outputs'[i].phase = outputs[i].phase
               /\ outputs'[i].held = outputs[i].held
               /\ \/ outputs'[i].sent = outputs[i].sent
                  \/ /\ i \in Current /\ Track(i).passthrough
                     /\ outputs'[i].sent = outputs[i].sent \cup {packets + 1}
               /\ \/ outputs'[i] = outputs[i]
                  \/ outputs'[i].frames = outputs[i].frames + 1
                     /\ outputs'[i].sent = outputs[i].sent \cup {packets + 1}
    <2>1. CASE outputs'[i] = outputs[i]
      BY <2>1
    <2>2. CASE /\ i \in Current /\ Track(i).passthrough
               /\ outputs'[i] = Passed(outputs[i], packets + 1)
      <3>1. outputs[i] \in OutputType /\ packets + 1 \in Nat
        BY <1>1
      <3>2. LET new == Passed(outputs[i], packets + 1)
            IN /\ new.track = outputs[i].track /\ new.filterId = outputs[i].filterId
               /\ new.encoder = outputs[i].encoder /\ new.phase = outputs[i].phase
               /\ new.held = outputs[i].held
               /\ new.sent = outputs[i].sent \cup {packets + 1}
               /\ new.frames = outputs[i].frames + 1
        BY <3>1, PassthroughType, Zenon
      <3> QED BY <2>2, <3>2
    <2> QED BY <1>2, <2>1, <2>2
  <1> QED BY <1>3, <1>4, <1>5

\* A packet is later than all there is, so it may join any of it last.
LEMMA ServeFrameInv ==
    ASSUME IInv, ServeFrame
    PROVE  IInv'
  <1> USE DEF ServeFrame, SendPacket
  <1>1. Passthrough(packets + 1) /\ packets' = packets + 1 /\ packets \in Nat
    BY DEF IInv, Typed
  <1> USE PassthroughFacts
  <1>2. /\ at \notin {"closing", "done", "dead"} /\ at' \in {"read", "decode"}
        /\ decoder' \in DecoderType
        /\ decoder'.held \subseteq decoder.held \cup {packets + 1}
    <2>1. CASE decoder' = [decoder EXCEPT !.held = @ \cup {packets'}]
      BY <1>1, <2>1 DEF DecoderTakes, IInv, Typed, DecoderType
    <2>2. CASE decoder' = [decoder EXCEPT !.ok = FALSE]
      BY <1>1, <2>2 DEF DecoderTakes, IInv, Typed, DecoderType
    <2>3. CASE decoder' = decoder
      BY <1>1, <2>3 DEF DecoderTakes, IInv, Typed, DecoderType
    <2> QED BY <2>1, <2>2, <2>3 DEF DecoderTakes
  <1>3. Typed'
    <2>1. first' \in 0 .. packets'
      BY <1>1 DEF IInv, Typed
    <2>2. \A i \in Current' : outputs'[i].filterId <= Len(filters')
      BY DEF IInv, Typed, Current
    <2>3. \A i \in DOMAIN outputs' :
             outputs'[i].phase # "none" <=> outputs'[i].encoder \/ Track(i)'.passthrough
      BY DEF IInv, Typed, Track
    <2> QED BY <1>1, <1>2, <2>1, <2>2, <2>3 DEF IInv, Typed, Places, hands
  <1>4. InHand' /\ Bounds'
    <2>1. \A i \in DOMAIN outputs' : Seen(i)' \subseteq 1 .. packets'
      <3> SUFFICES ASSUME NEW i \in DOMAIN outputs
                   PROVE  Seen(i)' \subseteq 1 .. packets'
        OBVIOUS
      <3>1. Seen(i)' \subseteq Seen(i) \cup {packets + 1}
        BY <1>1 DEF Seen
      <3> QED BY <1>1, <3>1 DEF IInv, Bounds
    <2> QED BY <1>1, <1>2, <2>1 DEF IInv, InHand, Bounds, Working
  <1>5. Roles'
    <2> SUFFICES ASSUME NEW i \in DOMAIN outputs
                 PROVE  /\ Track(i)'.passthrough => ~outputs'[i].encoder
                        /\ ~outputs'[i].encoder => outputs'[i].held = {}
                        /\ outputs'[i].phase = "none" =>
                               outputs'[i].sent = {} /\ outputs'[i].frames = 0
                        /\ outputs'[i].phase # "ended"
      BY <1>2 DEF Roles
    <2>1. Track(i).passthrough => outputs[i].phase # "none"
      BY DEF IInv, Typed
    <2>2. Track(i)' = Track(i)
      BY DEF Track
    <2>3. outputs[i].phase = "none" => outputs'[i] = outputs[i]
      BY <1>1, <2>1 DEF Passthrough
    <2> QED BY <1>2, <2>2, <2>3 DEF IInv, Roles
  <1>6. InOrder'
    <2>1. \A i \in DOMAIN outputs' : Before(outputs'[i].sent, outputs'[i].held)
      BY DEF IInv, InOrder, Before, Roles
    <2>2. \A g \in DOMAIN filters' : Before(filters'[g].held, AheadOfFilter(g)')
      <3> SUFFICES ASSUME NEW g \in DOMAIN filters
                   PROVE  Before(filters[g].held, AheadOfFilter(g)')
        OBVIOUS
      <3>1. AheadOfFilter(g)' \subseteq decoder.held \cup {packets + 1}
        BY <1>2 DEF AheadOfFilter
      <3>2. Before(filters[g].held, decoder.held)
        BY DEF IInv, InOrder, AheadOfFilter, Before
      <3>3. filters[g].held \subseteq 1 .. packets
        BY DEF IInv, Bounds
      <3> QED BY <1>1, <3>1, <3>2, <3>3 DEF Before
    <2>3. \A i \in Current' : outputs'[i].encoder => Before(Seen(i)', AheadOfEncoder(i)')
      <3> SUFFICES ASSUME NEW i \in Current, outputs[i].encoder
                   PROVE  Before(Seen(i)', AheadOfEncoder(i)')
        BY DEF Current, IInv, Typed
      <3>1. /\ i \in DOMAIN outputs
            /\ outputs[i].filterId = 0 \/ outputs[i].filterId \in DOMAIN filters
        BY FedFrom DEF IInv
      <3>2. Seen(i)' = Seen(i)
        BY <3>1 DEF Seen, IInv, Roles
      <3>3. AheadOfEncoder(i)' \subseteq AheadOfEncoder(i) \cup {packets + 1}
        BY <1>2, <3>1 DEF AheadOfEncoder, AheadOfFilter
      <3>4. Seen(i) \subseteq 1 .. packets
        BY <3>1 DEF IInv, Bounds
      <3>5. Before(Seen(i), AheadOfEncoder(i))
        BY DEF IInv, InOrder
      <3> QED BY <1>1, <3>2, <3>3, <3>4, <3>5 DEF Before
    <2> QED BY <1>2, <2>1, <2>2, <2>3 DEF InOrder, Working
  <1> QED BY <1>3, <1>4, <1>5, <1>6 DEF IInv
-----------------------------------------------------------------------------
\* An encoder takes a frame in and gives some of what it has.
LEMMA EmitsFacts ==
    ASSUME IInv, NEW i \in DOMAIN outputs, NEW taken \in SUBSET (1 .. packets),
           NEW ok \in BOOLEAN, NEW out \in SUBSET taken, Emits(i, taken, ok, out)
    PROVE  /\ outputs' \in Seq(OutputType) /\ Len(outputs') = Len(outputs)
           /\ DOMAIN outputs' = DOMAIN outputs
           /\ \A j \in DOMAIN outputs : j # i => outputs'[j] = outputs[j]
           /\ outputs'[i].track = outputs[i].track
           /\ outputs'[i].filterId = outputs[i].filterId
           /\ outputs'[i].encoder = outputs[i].encoder
           /\ outputs'[i].phase = outputs[i].phase
           /\ outputs'[i].held = taken \ out
           /\ outputs'[i].sent = outputs[i].sent \cup out
           /\ outputs'[i].frames = outputs[i].frames + Cardinality(out)
           /\ outputs'[i].ok = ok
  <1> DEFINE o == outputs[i]
             intra == {n \in taken \ outputs[i].held : ForcedIntra(n)}
             held == taken \ out
             count == Cardinality(out)
             new == [o EXCEPT !.held = held, !.sent = @ \cup out, !.frames = @ + count,
                              !.intra = @ \cup intra, !.ok = ok]
  <1>1. /\ packets \in Nat /\ o \in OutputType /\ outputs \in Seq(OutputType)
        /\ Len(outputs) \in Nat /\ DOMAIN outputs = 1 .. Len(outputs)
    BY DEF IInv, Typed
  <1>2. /\ taken \ out \in SUBSET Nat /\ out \in SUBSET Nat /\ intra \in SUBSET Nat
        /\ Cardinality(out) \in Nat
    <2>1. Cardinality(out) \in Nat
      BY <1>1, SubsetCard
    <2>2. 1 .. packets \subseteq Nat
      BY <1>1
    <2> HIDE DEF o
    <2> QED BY <2>1, <2>2
  <1>3. outputs' = [outputs EXCEPT ![i] = new]
    BY <1>1 DEF Emits
  <1>4. /\ new \in OutputType
        /\ new.track = o.track /\ new.filterId = o.filterId
        /\ new.encoder = o.encoder /\ new.phase = o.phase
        /\ new.held = taken \ out /\ new.sent = o.sent \cup out
        /\ new.frames = o.frames + Cardinality(out) /\ new.ok = ok
    <2>1. /\ o \in OutputType /\ intra \in SUBSET Nat /\ held \in SUBSET Nat
          /\ out \in SUBSET Nat /\ count \in Nat
      BY <1>1, <1>2
    <2> HIDE DEF o, intra, held, count
    <2>2. o.sent \in SUBSET Nat /\ o.frames \in Nat /\ o.intra \in SUBSET Nat
      BY <2>1 DEF OutputType
    <2>3. /\ o.sent \cup out \in SUBSET Nat
          /\ o.intra \cup intra \in SUBSET Nat
      BY <2>1, <2>2, Zenon
    <2>4. o.frames + count \in Nat
      BY <2>1, <2>2
    <2>5. [o EXCEPT !.held = held, !.sent = o.sent \cup out] \in OutputType
      BY <2>1, <2>3 DEF OutputType
    <2>6. /\ new \in OutputType
          /\ new.track = o.track /\ new.filterId = o.filterId
          /\ new.encoder = o.encoder /\ new.phase = o.phase
          /\ new.held = held /\ new.sent = o.sent \cup out
          /\ new.frames = o.frames + count /\ new.ok = ok
      BY <2>1, <2>3, <2>4, <2>5 DEF OutputType
    <2> QED BY <2>6 DEF held, count
  <1> HIDE DEF new
  <1> QED BY <1>1, <1>3, <1>4

\* What encodeFrame may do, whether or not it fails.
LEMMA EncodeFacts ==
    ASSUME IInv, NEW i \in DOMAIN outputs, NEW new \in SUBSET (1 .. packets),
           EncodeFrame(i, new)
    PROVE  \E taken, out \in SUBSET (1 .. packets), ok \in BOOLEAN :
              /\ out \subseteq taken
              /\ taken \subseteq outputs[i].held \cup new
              /\ Before(out, taken \ out)
              /\ Emits(i, taken, ok, out)
  <1>1. outputs[i].held \subseteq 1 .. packets /\ outputs[i].ok \in BOOLEAN
    <2>1. outputs[i] \in OutputType
      BY DEF IInv, Typed
    <2> QED BY <2>1 DEF IInv, Bounds, Seen, OutputType
  <1>2. CASE EncoderWorks(i, new)
    BY <1>1, <1>2 DEF EncoderWorks, Prefixes, Before
  <1>3. CASE EncoderFails(i, new)
    BY <1>1, <1>3 DEF EncoderFails, Prefixes, Before
  <1> QED BY <1>2, <1>3 DEF EncodeFrame

\* encodeFrame does not change where the output is fed from.
LEMMA EncodeKeepsFilter ==
    ASSUME IInv, NEW i \in DOMAIN outputs, NEW new \in SUBSET (1 .. packets),
           EncodeFrame(i, new)
    PROVE  outputs'[i].filterId = outputs[i].filterId
  <1>1. PICK taken, out \in SUBSET (1 .. packets), ok \in BOOLEAN :
           out \subseteq taken /\ Emits(i, taken, ok, out)
    BY EncodeFacts
  <1>2. out \in SUBSET taken
    BY <1>1
  <1> QED BY <1>1, <1>2, EmitsFacts

\* What the encoder is given is later than all it saw and earlier than all
\* that is still to come to it.
LEMMA ServeInv ==
    ASSUME IInv, UNCHANGED <<peer, header>>, at \in {"encode", "direct", "flush"},
           turn \in Current, turn' = turn + 1,
           UNCHANGED <<at, packets, first, decoder, filters, base, cursor, frame, filtered>>,
           NEW new \in SUBSET (1 .. packets),
           UNCHANGED outputs \/ (outputs[turn].encoder /\ EncodeFrame(turn, new)),
           outputs[turn].encoder => Before(Seen(turn), new),
           \A i \in Current : outputs[i].encoder /\ ~UNCHANGED outputs /\ i = turn
                                 => Before(new, AheadOfEncoder(i)')
    PROVE  IInv'
  <1> DEFINE t == turn
  <1>0. t \in DOMAIN outputs /\ t \in Nat /\ outputs \in Seq(OutputType) /\ packets \in Nat
    BY FedFrom DEF IInv, Typed
  <1> HIDE DEF t
  <1>1. /\ outputs' \in Seq(OutputType) /\ Len(outputs') = Len(outputs)
        /\ DOMAIN outputs' = DOMAIN outputs
        /\ \A j \in DOMAIN outputs : j # t => outputs'[j] = outputs[j]
        /\ outputs'[t].track = outputs[t].track
        /\ outputs'[t].filterId = outputs[t].filterId
        /\ outputs'[t].encoder = outputs[t].encoder
        /\ outputs'[t].phase = outputs[t].phase
        /\ outputs'[t].held \cup outputs'[t].sent
              \subseteq outputs[t].held \cup outputs[t].sent \cup new
        /\ Before(outputs'[t].sent, outputs'[t].held)
        /\ outputs' = outputs \/ outputs[t].encoder
    <2>1. CASE UNCHANGED outputs
      BY <1>0, <2>1 DEF IInv, InOrder
    <2>2. CASE outputs[t].encoder /\ EncodeFrame(t, new)
      <3>1. PICK taken, out \in SUBSET (1 .. packets), ok \in BOOLEAN :
               /\ out \subseteq taken
               /\ taken \subseteq outputs[t].held \cup new
               /\ Before(out, taken \ out)
               /\ Emits(t, taken, ok, out)
        BY <1>0, <2>2, EncodeFacts
      <3>2. Before(outputs[t].sent, outputs[t].held)
        BY <1>0 DEF IInv, InOrder
      <3>3. Before(outputs[t].sent, new)
        BY <2>2 DEF t, Seen, Before
      <3>4. Before(outputs[t].sent \cup out, taken \ out)
        BY <3>1, <3>2, <3>3 DEF Before
      <3>5. out \in SUBSET taken
        BY <3>1
      <3>6. /\ outputs' \in Seq(OutputType) /\ Len(outputs') = Len(outputs)
            /\ DOMAIN outputs' = DOMAIN outputs
            /\ \A j \in DOMAIN outputs : j # t => outputs'[j] = outputs[j]
            /\ outputs'[t].track = outputs[t].track
            /\ outputs'[t].filterId = outputs[t].filterId
            /\ outputs'[t].encoder = outputs[t].encoder
            /\ outputs'[t].phase = outputs[t].phase
            /\ outputs'[t].held = taken \ out
            /\ outputs'[t].sent = outputs[t].sent \cup out
        BY <1>0, <3>1, <3>5, EmitsFacts
      <3>7. outputs'[t].held \cup outputs'[t].sent
               \subseteq outputs[t].held \cup outputs[t].sent \cup new
        BY <3>1, <3>6
      <3> QED BY <2>2, <3>4, <3>6, <3>7
    <2> QED BY <2>1, <2>2 DEF t
  <1>2. \A i \in DOMAIN outputs :
           /\ outputs'[i].track = outputs[i].track
           /\ outputs'[i].filterId = outputs[i].filterId
           /\ outputs'[i].encoder = outputs[i].encoder
           /\ outputs'[i].phase = outputs[i].phase
           /\ Before(outputs'[i].sent, outputs'[i].held)
           /\ Seen(i)' \subseteq Seen(i) \cup new
           /\ i # t => Seen(i)' = Seen(i)
    BY <1>1 DEF Seen, IInv, InOrder
  <1>3. Typed'
    <2>1. \A i \in Current' : outputs'[i].filterId <= Len(filters')
      BY <1>1, <1>2, FedFrom DEF IInv, Typed, Current
    <2>2. \A i \in DOMAIN outputs :
             outputs'[i].phase # "none" <=> outputs'[i].encoder \/ Track(i)'.passthrough
      BY <1>2 DEF IInv, Typed, Track
    <2>3. turn' \in Nat \ {0}
      BY DEF IInv, Typed
    <2> QED BY <1>1, <2>1, <2>2, <2>3 DEF IInv, Typed
  <1>4. InHand' /\ Bounds'
    BY <1>1, <1>2 DEF IInv, InHand, Bounds, Working
  <1>5. Roles'
    <2>1. outputs[t].encoder => outputs[t].phase # "none"
      BY <1>0 DEF IInv, Typed
    <2> SUFFICES ASSUME NEW i \in DOMAIN outputs
                 PROVE  /\ Track(i)'.passthrough => ~outputs'[i].encoder
                        /\ ~outputs'[i].encoder => outputs'[i].held = {}
                        /\ outputs'[i].phase = "none" =>
                               outputs'[i].sent = {} /\ outputs'[i].frames = 0
                        /\ outputs'[i].phase # "ended"
      BY <1>1 DEF Roles
    <2>2. CASE outputs'[i] = outputs[i]
      BY <2>2 DEF IInv, Roles, Track
    <2>3. CASE i = t /\ outputs[t].encoder
      BY <1>1, <2>1, <2>3 DEF IInv, Roles, Track
    <2> QED BY <1>1, <2>2, <2>3
  <1>6. InOrder'
    <2>1. \A g \in DOMAIN filters : AheadOfFilter(g)' = AheadOfFilter(g)
      BY DEF AheadOfFilter
    <2>2. \A i \in Current : AheadOfEncoder(i)' \subseteq AheadOfEncoder(i)
      <3> SUFFICES ASSUME NEW i \in Current
                   PROVE  AheadOfEncoder(i)' \subseteq AheadOfEncoder(i)
        OBVIOUS
      <3>1. /\ i \in DOMAIN outputs /\ i \in Nat /\ turn \in Nat
            /\ outputs[i].filterId = 0 \/ outputs[i].filterId \in DOMAIN filters
        BY FedFrom DEF IInv, Typed
      <3> QED BY <1>2, <2>1, <3>1 DEF AheadOfEncoder
    <2>3. \A i \in Current' : outputs'[i].encoder => Before(Seen(i)', AheadOfEncoder(i)')
      <3> SUFFICES ASSUME NEW i \in Current, outputs[i].encoder
                   PROVE  Before(Seen(i)', AheadOfEncoder(i)')
        BY <1>1, <1>2, FedFrom DEF Current, IInv
      <3>1. i \in DOMAIN outputs /\ Before(Seen(i), AheadOfEncoder(i))
        BY FedFrom DEF IInv, InOrder
      <3>2. CASE Seen(i)' = Seen(i)
        BY <2>2, <3>1, <3>2 DEF Before
      <3>3. CASE i = t /\ ~UNCHANGED outputs
        BY <1>2, <2>2, <3>1, <3>3 DEF Before, t
      <3>4. CASE UNCHANGED outputs
        BY <3>2, <3>4 DEF Seen
      <3> QED BY <1>2, <3>1, <3>2, <3>3, <3>4
    <2>4. \A g \in DOMAIN filters' : Before(filters'[g].held, AheadOfFilter(g)')
      BY <2>1 DEF IInv, InOrder, Before
    <2>5. (at = "encode" =>
             Before({filtered}, filters[cursor].held \cup AheadOfFilter(cursor)))'
      BY DEF IInv, InOrder, AheadOfFilter
    <2> QED BY <1>1, <1>2, <2>3, <2>4, <2>5 DEF IInv, InOrder, Working
  <1> QED BY <1>3, <1>4, <1>5, <1>6 DEF IInv

\* The three loops over the session's outputs give each encoder its next frame.
LEMMA EncodeInv ==
    ASSUME IInv, UNCHANGED <<peer, header>>, EncodeFiltered \/ EncodeDirect \/ Flush
    PROVE  IInv'
  <1>1. turn \in Current /\ packets \in Nat /\ turn \in Nat
    BY DEF EncodeFiltered, EncodeDirect, Flush, ServeTurn, IInv, Typed
  <1>2. turn \in DOMAIN outputs /\ outputs[turn] \in OutputType
    <2>1. turn \in DOMAIN outputs
      BY <1>1, FedFrom DEF IInv
    <2> QED BY <2>1 DEF IInv, Typed
  <1>3. outputs[turn].encoder => Before(Seen(turn), AheadOfEncoder(turn))
    BY <1>1 DEF IInv, InOrder
  <1>4. CASE EncodeFiltered
    <2> USE <1>4 DEF EncodeFiltered, ServeTurn
    <2>1. /\ {filtered} \in SUBSET (1 .. packets) /\ cursor \in DOMAIN filters
          /\ cursor \in Nat \ {0}
      BY DEF IInv, InHand, Typed
    <2>2. Before({filtered}, filters[cursor].held \cup AheadOfFilter(cursor))
      BY DEF IInv, InOrder
    <2>3. CASE Filtered(outputs[turn])
      <3>1. filtered \in AheadOfEncoder(turn)
        BY <1>1, <2>1, <2>3 DEF AheadOfEncoder, Filtered
      <3>2. outputs[turn].encoder => Before(Seen(turn), {filtered})
        BY <1>3, <3>1 DEF Before
      <3>3. ASSUME NEW i \in Current, i = turn, ~UNCHANGED outputs
            PROVE  Before({filtered}, AheadOfEncoder(i)')
        <4>1. EncodeFrame(turn, {filtered})
          BY <2>3
        <4>2. outputs'[i].filterId = cursor
          <5> HIDE DEF EncodeFiltered
          <5>1. outputs'[turn].filterId = outputs[turn].filterId
            BY <1>2, <2>1, <4>1, EncodeKeepsFilter
          <5> QED BY <2>3, <3>3, <5>1 DEF Filtered
        <4>3. AheadOfEncoder(i)' \subseteq filters[cursor].held \cup AheadOfFilter(cursor)
          BY <1>1, <2>1, <3>3, <4>2 DEF AheadOfEncoder, AheadOfFilter
        <4> QED BY <2>2, <4>3 DEF Before
      <3> QED BY <1>1, <2>1, <2>3, <3>2, <3>3, ServeInv DEF Filtered
    <2>4. CASE ~Filtered(outputs[turn])
      <3>1. UNCHANGED outputs /\ {} \in SUBSET (1 .. packets)
        BY <2>4
      <3>2. Before(Seen(turn), {})
        BY DEF Before
      <3> QED BY <1>1, <3>1, <3>2, ServeInv
    <2> QED BY <2>3, <2>4
  <1>5. CASE EncodeDirect
    <2> USE <1>5 DEF EncodeDirect, ServeTurn
    <2>1. {frame} \in SUBSET (1 .. packets) /\ Before({frame}, decoder.held)
      BY DEF IInv, InHand, InOrder, Working
    <2>2. CASE Direct(outputs[turn])
      <3>1. frame \in AheadOfEncoder(turn)
        BY <1>1, <2>2 DEF AheadOfEncoder, Direct
      <3>2. outputs[turn].encoder => Before(Seen(turn), {frame})
        BY <1>3, <3>1 DEF Before
      <3>3. ASSUME NEW i \in Current, i = turn, ~UNCHANGED outputs
            PROVE  Before({frame}, AheadOfEncoder(i)')
        <4>1. EncodeFrame(turn, {frame})
          BY <2>2
        <4>2. outputs'[i].filterId = 0
          <5> HIDE DEF EncodeDirect
          <5>1. outputs'[turn].filterId = outputs[turn].filterId
            BY <1>2, <2>1, <4>1, EncodeKeepsFilter
          <5> QED BY <2>2, <3>3, <5>1 DEF Direct
        <4>3. AheadOfEncoder(i)' \subseteq decoder.held
          BY <1>1, <3>3, <4>2 DEF AheadOfEncoder
        <4> QED BY <2>1, <4>3 DEF Before
      <3> QED BY <1>1, <2>1, <2>2, <3>2, <3>3, ServeInv DEF Direct
    <2>3. CASE ~Direct(outputs[turn])
      <3>1. UNCHANGED outputs /\ {} \in SUBSET (1 .. packets)
        BY <2>3
      <3>2. Before(Seen(turn), {})
        BY DEF Before
      <3> QED BY <1>1, <3>1, <3>2, ServeInv
    <2> QED BY <2>2, <2>3
  <1>6. CASE Flush
    <2>1. \A i \in Current : Before({}, AheadOfEncoder(i)')
      BY DEF Before
    <2>2. Before(Seen(turn), {}) /\ {} \in SUBSET (1 .. packets)
      BY DEF Before
    <2> QED BY <1>1, <1>6, <2>1, <2>2, ServeInv DEF Flush, ServeTurn, Encoded
  <1> QED BY <1>4, <1>5, <1>6

\* transcode_session_output_close changes the connection only.
LEMMA CloseOutputInv ==
    ASSUME IInv, UNCHANGED <<peer, header>>, CloseOutput
    PROVE  IInv'
  <1> USE DEF CloseOutput
  <1> DEFINE phase == IF outputs[turn].phase = "described" THEN "ended"
                      ELSE outputs[turn].phase
  <1>0. turn \in DOMAIN outputs /\ outputs[turn] \in OutputType /\ turn \in Nat
    BY DEF IInv, Typed
  <1>1. /\ phase \in {"none", "described", "ended"}
        /\ phase = "none" <=> outputs[turn].phase = "none"
    BY <1>0 DEF OutputType
  <1> DEFINE closed == [outputs[turn] EXCEPT !.phase = phase]
  <1>2. outputs' = [outputs EXCEPT ![turn] = closed]
    OBVIOUS
  <1> HIDE DEF phase
  <1>3. /\ closed \in OutputType
        /\ closed.track = outputs[turn].track
        /\ closed.filterId = outputs[turn].filterId
        /\ closed.encoder = outputs[turn].encoder
        /\ closed.held = outputs[turn].held
        /\ closed.sent = outputs[turn].sent
        /\ closed.frames = outputs[turn].frames
        /\ closed.phase = phase
    BY <1>0, <1>1 DEF OutputType
  <1> HIDE DEF closed
  <1>4. /\ outputs' \in Seq(OutputType) /\ Len(outputs') = Len(outputs)
        /\ DOMAIN outputs' = DOMAIN outputs
        /\ outputs'[turn] = closed
        /\ \A i \in DOMAIN outputs : i # turn => outputs'[i] = outputs[i]
    <2> HIDE DEF CloseOutput
    <2> QED BY <1>0, <1>2, <1>3 DEF IInv, Typed
  <1>5. \A i \in DOMAIN outputs :
           /\ outputs'[i].track = outputs[i].track
           /\ outputs'[i].filterId = outputs[i].filterId
           /\ outputs'[i].encoder = outputs[i].encoder
           /\ outputs'[i].held = outputs[i].held
           /\ outputs'[i].sent = outputs[i].sent
           /\ outputs'[i].frames = outputs[i].frames
           /\ outputs'[i].phase = "none" <=> outputs[i].phase = "none"
    <2> SUFFICES ASSUME NEW i \in DOMAIN outputs
                 PROVE  /\ outputs'[i].track = outputs[i].track
                        /\ outputs'[i].filterId = outputs[i].filterId
                        /\ outputs'[i].encoder = outputs[i].encoder
                        /\ outputs'[i].held = outputs[i].held
                        /\ outputs'[i].sent = outputs[i].sent
                        /\ outputs'[i].frames = outputs[i].frames
                        /\ outputs'[i].phase = "none" <=> outputs[i].phase = "none"
      OBVIOUS
    <2>1. CASE i = turn
      BY <1>1, <1>3, <1>4, <2>1
    <2>2. CASE i # turn
      BY <1>4, <2>2
    <2> QED BY <2>1, <2>2
  <1>6. Typed'
    <2>1. \A i \in Current' : outputs'[i].filterId <= Len(filters')
      BY <1>4, <1>5, FedFrom DEF IInv, Typed, Current
    <2>2. \A i \in DOMAIN outputs :
             outputs'[i].phase # "none" <=> outputs'[i].encoder \/ Track(i)'.passthrough
      BY <1>5 DEF IInv, Typed, Track
    <2>3. turn' \in Nat \ {0}
      BY <1>0
    <2> QED BY <1>4, <2>1, <2>2, <2>3 DEF IInv, Typed
  <1>7. InHand' /\ Bounds'
    BY <1>4, <1>5 DEF IInv, InHand, Bounds, Working, Seen
  <1>8. Roles'
    BY <1>4, <1>5 DEF IInv, Roles, Track
  <1>9. InOrder'
    <2>1. \A i \in Current' : outputs'[i].encoder => Before(Seen(i)', AheadOfEncoder(i)')
      <3> SUFFICES ASSUME NEW i \in Current, outputs[i].encoder
                   PROVE  Before(Seen(i)', AheadOfEncoder(i)')
        BY <1>4, <1>5, FedFrom DEF Current, IInv
      <3>1. i \in DOMAIN outputs /\ Before(Seen(i), AheadOfEncoder(i))
        BY FedFrom DEF IInv, InOrder
      <3>2. Seen(i)' = Seen(i) /\ AheadOfEncoder(i)' \subseteq AheadOfEncoder(i)
        BY <1>5, <3>1 DEF Seen, AheadOfEncoder, AheadOfFilter
      <3> QED BY <3>1, <3>2 DEF Before
    <2>2. \A g \in DOMAIN filters' : Before(filters'[g].held, AheadOfFilter(g)')
      BY DEF IInv, InOrder, AheadOfFilter
    <2> QED BY <1>4, <1>5, <2>1, <2>2 DEF IInv, InOrder, Working
  <1> QED BY <1>6, <1>7, <1>8, <1>9 DEF IInv
-----------------------------------------------------------------------------
\* The invariant is inductive.
LEMMA NextInv == IInv /\ [Next]_vars => IInv'
  <1> SUFFICES ASSUME IInv, [Next]_vars PROVE IInv'
    OBVIOUS
  <1>1. CASE \/ ReadHeader \/ ReadNothing \/ PeerGoes \/ ServeConnect
             \/ ServeMediaInfoExits \/ ServeOther
             \/ Killed /\ UNCHANGED <<peer, header>>
    BY <1>1, QuietInv
  <1>2. CASE ServeEos \/ ServeFrameFails
    <2>1. /\ StartClose /\ at = "body"
          /\ UNCHANGED <<packets, first, filters, outputs, base, header>>
          /\ peer' \in {"new", "connected", "streaming", "ended", "closed", "reset"}
      BY <1>2 DEF ServeEos, ServeFrameFails, StartClose, RecvFails, IInv, Typed
    <2> QED BY <2>1, DecoderInv DEF IInv, Typed
  <1>3. CASE ServeMediaInfo
    BY <1>3, ServeMediaInfoInv
  <1>4. CASE ServeFrame
    BY <1>4, ServeFrameInv
  <1>5. CASE SessionStep /\ UNCHANGED <<peer, header>>
    <2>1. CASE SkipDisabled \/ AddOverruns \/ AddCrashes \/ AllAdded \/ DecoderWaits \/ DecoderEnds
               \/ Flushed \/ ClosedAll
      BY <1>5, <2>1, QuietInv
    <2>2. CASE AddPassthrough \/ AddTranscoded
      BY <1>5, <2>2, AddPassthroughInv, AddTranscodedInv
    <2>3. CASE DecoderGives \/ DecoderFails
      <3>1. /\ at = "decode"
            /\ UNCHANGED <<packets, first, filters, outputs, base>>
        BY <2>3 DEF DecoderGives, DecoderFails, Goes
      <3> QED BY <1>5, <2>3, <3>1, DecoderInv DEF IInv, Typed
    <2>4. CASE FilterSteps
      BY <1>5, <2>4, FilterInv
    <2>5. CASE FilterWaits \/ FiltersDone \/ EncodedFiltered \/ EncodedDirect
      BY <1>5, <2>5, MovesInv
    <2>6. CASE EncodeFiltered \/ EncodeDirect \/ Flush
      BY <1>5, <2>6, EncodeInv
    <2>7. CASE CloseOutput
      BY <1>5, <2>7, CloseOutputInv
    <2> QED BY <1>5, <2>1, <2>2, <2>3, <2>4, <2>5, <2>6, <2>7 DEF SessionStep, FilterSteps
  <1>6. CASE UNCHANGED vars
    <2> USE <1>6 DEF vars, sessionVars, stages, hands
    <2>1. Typed'
      BY DEF IInv, Typed, Current, Track
    <2>2. InHand' /\ Bounds' /\ Roles'
      BY DEF IInv, InHand, Bounds, Roles, Working, Seen, Track
    <2>3. InOrder'
      <3>1. \A g \in DOMAIN filters' : AheadOfFilter(g)' = AheadOfFilter(g)
        BY DEF AheadOfFilter
      <3>2. \A i \in Current' : AheadOfEncoder(i)' = AheadOfEncoder(i) /\ Seen(i)' = Seen(i)
        BY DEF AheadOfEncoder, AheadOfFilter, Seen
      <3>3. AheadOfFilter(cursor)' = AheadOfFilter(cursor)
        BY DEF AheadOfFilter
      <3>4. Current' = Current
        BY DEF Current
      <3> QED BY <3>1, <3>2, <3>3, <3>4 DEF IInv, InOrder, Working
    <2> QED BY <2>1, <2>2, <2>3 DEF IInv
  <1> QED BY <1>1, <1>2, <1>3, <1>4, <1>5, <1>6 DEF Next, ThreadStep

\* The tracks init_outputs has added when it is at track c.
Added(c) == {t \in Enabled : t < c}

\* While a MEDIA_INFO is served the session has the outputs it has added, and no
\* others; when there was no place for one, it asks for more.
Counted ==
    /\ at = "adding" => Cardinality(Added(cursor)) = Len(outputs) - base
    /\ at = "overrun" => Excess

\* Going on to the next track adds it, if it is enabled.
LEMMA AddedNext ==
    ASSUME NEW c \in DOMAIN Tracks
    PROVE  /\ IsFiniteSet(Enabled) /\ IsFiniteSet(Added(c))
           /\ Cardinality(Added(c)) \in Nat /\ Cardinality(Enabled) \in Nat
           /\ ~Tracks[c].enabled => Added(c + 1) = Added(c)
           /\ Tracks[c].enabled =>
                 /\ Cardinality(Added(c + 1)) = Cardinality(Added(c)) + 1
                 /\ Cardinality(Added(c)) < Cardinality(Enabled)
  <1>1. DOMAIN Tracks = 1 .. Len(Tracks) /\ Len(Tracks) \in Nat
    BY SessionAssumption DEF SessionAssumption
  <1>2. IsFiniteSet(Enabled) /\ IsFiniteSet(Added(c))
    <2>1. IsFiniteSet(1 .. Len(Tracks))
      BY <1>1, FS_Interval
    <2>2. Enabled \subseteq 1 .. Len(Tracks) /\ Added(c) \subseteq 1 .. Len(Tracks)
      BY <1>1 DEF Enabled, Added
    <2> QED BY <2>1, <2>2, FS_Subset
  <1>3. Cardinality(Added(c)) \in Nat /\ Cardinality(Enabled) \in Nat
    BY <1>2, FS_CardinalityType
  <1>4. ASSUME ~Tracks[c].enabled PROVE Added(c + 1) = Added(c)
    BY <1>1, <1>4 DEF Added, Enabled
  <1>5. ASSUME Tracks[c].enabled
        PROVE  /\ Cardinality(Added(c + 1)) = Cardinality(Added(c)) + 1
               /\ Cardinality(Added(c)) < Cardinality(Enabled)
    <2>1. Added(c + 1) = Added(c) \cup {c} /\ c \notin Added(c)
      BY <1>1, <1>5 DEF Added, Enabled
    <2>2. Cardinality(Added(c + 1)) = Cardinality(Added(c)) + 1
      BY <1>2, <2>1, FS_AddElement
    <2>3. Added(c + 1) \subseteq Enabled
      BY DEF Added
    <2>4. Cardinality(Added(c + 1)) <= Cardinality(Enabled)
      BY <1>2, <2>3, FS_Subset
    <2> QED BY <1>3, <2>2, <2>4
  <1> QED BY <1>2, <1>3, <1>4, <1>5

\* Nothing but the end of an array keeps an output from being counted.
LEMMA CountedStep == IInv /\ Counted /\ [Next]_vars => Counted'
  <1> SUFFICES ASSUME IInv, Counted, [Next]_vars PROVE Counted'
    OBVIOUS
  <1>0. /\ Len(outputs) \in Nat /\ base \in Nat /\ base <= Len(outputs)
        /\ outputs \in Seq(OutputType) /\ cursor \in Nat \ {0}
    BY DEF IInv, Typed
  <1>1. CASE ServeMediaInfo
    <2>1. /\ at' = "adding" /\ cursor' = 1 /\ base' = Len(outputs)
          /\ outputs' = [i \in DOMAIN outputs |-> [outputs[i] EXCEPT !.held = {}]]
      BY <1>1 DEF ServeMediaInfo, SessionInit, SessionBegins, Goes
    <2>2. Len(outputs') = Len(outputs)
      BY <1>0, <2>1
    <2>3. Added(cursor)' = {}
      BY <2>1, SessionAssumption DEF SessionAssumption, Added, Enabled
    <2>4. Cardinality(Added(cursor)') = 0
      BY <2>3, FS_EmptySet
    <2>5. Len(outputs') - base' = 0
      BY <1>0, <2>1, <2>2
    <2> QED BY <2>1, <2>4, <2>5 DEF Counted
  <1>2. CASE SkipDisabled
    <2>1. /\ at = "adding" /\ at' = "adding" /\ cursor \in DOMAIN Tracks
          /\ cursor' = cursor + 1 /\ ~Tracks[cursor].enabled
          /\ UNCHANGED <<outputs, base>>
      BY <1>2 DEF SkipDisabled, AddStep, AddDone
    <2> QED BY <2>1, AddedNext DEF Counted
  <1>3. CASE AddPassthrough \/ AddTranscoded
    <2>1. /\ at = "adding" /\ at' = "adding" /\ cursor \in DOMAIN Tracks
          /\ cursor' = cursor + 1 /\ Tracks[cursor].enabled /\ base' = base
          /\ \E o : outputs' = Append(outputs, o)
      BY <1>3 DEF AddPassthrough, AddTranscoded, AddStep, AddDone, ReuseFilter,
                  CreateFilter, CreateFilterFails, AddEncoded
    <2>2. Len(outputs') = Len(outputs) + 1
      BY <1>0, <2>1
    <2> QED BY <1>0, <2>1, <2>2, AddedNext DEF Counted
  <1>4. CASE AddOverruns
    <2>1. /\ at = "adding" /\ at' = "overrun" /\ cursor \in DOMAIN Tracks
          /\ Tracks[cursor].enabled /\ ~HasRoom /\ UNCHANGED <<outputs, base>>
      BY <1>4 DEF AddOverruns, Goes, stages
    <2>2. /\ Cardinality(Enabled) \in Nat
          /\ Len(outputs) - base < Cardinality(Enabled)
      BY <2>1, AddedNext DEF Counted
    <2>3. Cardinality(Current) = Len(outputs) - base
      <3>1. base + 1 \in Int /\ Len(outputs) \in Int
        BY <1>0
      <3>2. Cardinality((base + 1) .. Len(outputs)) =
              IF base + 1 > Len(outputs) THEN 0 ELSE Len(outputs) - (base + 1) + 1
        BY <3>1, FS_Interval
      <3> QED BY <1>0, <3>2 DEF Current
    <2>4. Len(outputs) >= MaxOutputs \/ Len(outputs) - base >= MaxSessionOutputs
      BY <1>0, <2>1, <2>3, SessionAssumption DEF HasRoom, SessionAssumption
    <2>5. Excess
      BY <1>0, <2>2, <2>4, SessionAssumption DEF Excess, SessionAssumption
    <2> QED BY <2>1, <2>5 DEF Counted, Excess
  <1>5. CASE UNCHANGED vars
    BY <1>5 DEF vars, sessionVars, stages, hands, Counted, Excess
  <1>6. CASE \/ ReadHeader \/ ReadNothing \/ PeerGoes \/ ServeEos \/ ServeConnect
             \/ ServeMediaInfoExits \/ ServeFrame \/ ServeFrameFails \/ ServeOther
             \/ Killed
    <2>1. at' \notin {"adding", "overrun"}
      BY <1>6 DEF ReadHeader, ReadNothing, PeerGoes, ServeEos, ServeConnect,
                  ServeMediaInfoExits, ServeFrame, ServeFrameFails, ServeOther, Killed,
                  Goes, StartClose, SendPacket, DecoderTakes, sessionVars
    <2> QED BY <2>1 DEF Counted
  <1>7. CASE \/ AddCrashes \/ AllAdded \/ DecoderGives \/ DecoderWaits \/ DecoderEnds
             \/ DecoderFails \/ FilterTakes \/ FilterRefuses \/ FilterGives
             \/ FilterWaits \/ FilterFails \/ FiltersDone
             \/ EncodeFiltered \/ EncodedFiltered \/ EncodeDirect \/ EncodedDirect
             \/ Flush \/ Flushed \/ CloseOutput \/ ClosedAll
    <2>1. at' \notin {"adding", "overrun"}
      BY <1>7 DEF AddCrashes, AllAdded, DecoderGives, DecoderWaits, DecoderEnds,
                  DecoderFails, FilterTakes, FilterRefuses, FilterGives, FilterWaits,
                  FilterFails, FiltersDone, EncodeFiltered, EncodedFiltered, EncodeDirect,
                  EncodedDirect, Flush, Flushed, ServeTurn, ServeEnds, CloseOutput,
                  ClosedAll, Goes
    <2> QED BY <2>1 DEF Counted
  <1> QED BY <1>1, <1>2, <1>3, <1>4, <1>5, <1>6, <1>7
          DEF Next, ThreadStep, SessionStep

(* Whatever the tracks and however long the stream, every variable keeps its  *)
(* type, and an array of outputs is overrun only by a MEDIA_INFO that asks    *)
(* for more than the session's has places or the server's has left: the code  *)
(* that adds outputs has no test, but counts them right.                      *)
THEOREM TypeCorrect == Spec => []TypeOK
  <1>1. Init => Counted
    BY DEF Init, Counted
  <1>2. IInv /\ Counted => TypeOK
    BY DEF IInv, Counted, TypeOK
  <1> QED BY <1>1, <1>2, InitInv, NextInv, CountedStep, PTL DEF Spec

(* What a stage let through is earlier than all that is still ahead of it, at *)
(* every place the thread can be (decodePacket to sendFrameToFilter).         *)
THEOREM FramesInOrder == Spec => []IInv
  BY InitInv, NextInv, PTL DEF Spec
-----------------------------------------------------------------------------
\* The connection of output i, as KmpConnection sees it, over one step.
KmpStep(i) == [Kmp(i)!KmpNext]_(Kmp(i)!kmpVars)

\* No connection is told anything.
LEMMA Stutters ==
    ASSUME DOMAIN outputs' = DOMAIN outputs,
           \A i \in DOMAIN outputs : /\ outputs'[i].phase = outputs[i].phase
                                     /\ outputs'[i].sent = outputs[i].sent
                                     /\ outputs'[i].frames = outputs[i].frames
    PROVE  \A i \in 1 .. MaxOutputs : KmpStep(i)
  BY DEF KmpStep, Kmp!kmpVars

\* A connection is opened, or not when its encoder did not open.
LEMMA Describes ==
    ASSUME IInv, NEW o, outputs' = Append(outputs, o), o.phase \in {"none", "described"},
           o.sent = {}, o.frames = 0
    PROVE  \A i \in 1 .. MaxOutputs : KmpStep(i)
  <1>1. /\ DOMAIN outputs = 1 .. Len(outputs) /\ Len(outputs) \in Nat
        /\ DOMAIN outputs' = 1 .. (Len(outputs) + 1)
        /\ outputs'[Len(outputs) + 1] = o
        /\ \A i \in DOMAIN outputs : outputs'[i] = outputs[i]
    BY DEF IInv, Typed
  <1> TAKE i \in 1 .. MaxOutputs
  <1>2. CASE i = Len(outputs) + 1
    <2>1. i \notin DOMAIN outputs /\ i \in DOMAIN outputs'
      BY <1>1, <1>2
    <2> QED BY <1>1, <1>2, <2>1 DEF KmpStep, Kmp!kmpVars, Kmp!KmpNext, Kmp!Describe
  <1>3. CASE i # Len(outputs) + 1
    <2>1. i \in DOMAIN outputs <=> i \in DOMAIN outputs'
      BY <1>1, <1>3
    <2> QED BY <1>1, <2>1 DEF KmpStep, Kmp!kmpVars
  <1> QED BY <1>2, <1>3

\* Frames later than all those sent go to some connections that are open.
LEMMA SendsLater ==
    ASSUME IInv, DOMAIN outputs' = DOMAIN outputs,
           \A i \in DOMAIN outputs :
              \/ outputs'[i] = outputs[i]
              \/ \E out \in SUBSET Nat :
                    /\ outputs[i].phase = "described" /\ outputs'[i].phase = "described"
                    /\ outputs'[i].sent = outputs[i].sent \cup out
                    /\ Before(outputs[i].sent, out)
                    /\ outputs'[i].frames = outputs[i].frames + Cardinality(out)
    PROVE  \A i \in 1 .. MaxOutputs : KmpStep(i)
  <1> TAKE i \in 1 .. MaxOutputs
  <1>1. CASE i \notin DOMAIN outputs \/ outputs'[i] = outputs[i]
    BY <1>1 DEF KmpStep, Kmp!kmpVars
  <1>2. CASE i \in DOMAIN outputs /\ outputs'[i] # outputs[i]
    <2>1. PICK out \in SUBSET Nat :
             /\ outputs[i].phase = "described" /\ outputs'[i].phase = "described"
             /\ outputs'[i].sent = outputs[i].sent \cup out
             /\ Before(outputs[i].sent, out)
             /\ outputs'[i].frames = outputs[i].frames + Cardinality(out)
      BY <1>2
    <2>2. outputs'[i].sent \ outputs[i].sent = out
      <3>1. \A n \in out : n \notin outputs[i].sent
        <4> SUFFICES ASSUME NEW n \in out, n \in outputs[i].sent PROVE FALSE
          OBVIOUS
        <4>1. n \in Nat /\ n < n
          BY <2>1 DEF Before
        <4> QED BY <4>1
      <3> QED BY <2>1, <3>1
    <2>3. Kmp(i)!SendFrames
      <3> DEFINE old == outputs[i].sent
                 now == outputs'[i].sent
      <3>1. /\ old \subseteq now
            /\ \A m \in old, n \in now \ old : m < n
            /\ outputs'[i].frames = outputs[i].frames + Cardinality(now \ old)
        BY <2>1, <2>2 DEF Before
      <3>2. i \in DOMAIN outputs /\ i \in DOMAIN outputs'
        BY <1>2
      <3>3. Kmp(i)!Cardinality(now \ old) = Cardinality(now \ old)
        BY DEF Kmp!Cardinality, Cardinality
      <3> QED BY <2>1, <3>1, <3>2, <3>3 DEF Kmp!SendFrames
    <2> QED BY <2>3 DEF KmpStep, Kmp!KmpNext
  <1> QED BY <1>1, <1>2

\* An output's encoder is given frames later than all it has seen.
LEMMA EncodesLater ==
    ASSUME IInv, EncodeFiltered \/ EncodeDirect \/ Flush
    PROVE  \/ UNCHANGED outputs
           \/ /\ turn \in DOMAIN outputs /\ outputs[turn].encoder
              /\ at \notin {"closing", "done", "dead"}
              /\ \E new \in SUBSET (1 .. packets) :
                    Before(Seen(turn), new) /\ EncodeFrame(turn, new)
  <1>1. turn \in Current
    BY DEF EncodeFiltered, EncodeDirect, Flush, ServeTurn
  <1>2. turn \in DOMAIN outputs /\ turn \in Nat
    BY <1>1, FedFrom DEF IInv, Typed
  <1>3. outputs[turn].encoder => Before(Seen(turn), AheadOfEncoder(turn))
    BY <1>1 DEF IInv, InOrder
  <1>4. CASE EncodeFiltered /\ Filtered(outputs[turn])
    <2>1. at = "encode" /\ filtered \in 1 .. packets /\ cursor \in Nat \ {0}
      BY <1>4 DEF EncodeFiltered, ServeTurn, IInv, InHand, Typed
    <2>2. filtered \in AheadOfEncoder(turn)
      BY <1>2, <1>4, <2>1 DEF AheadOfEncoder, Filtered
    <2>3. EncodeFrame(turn, {filtered})
      BY <1>4 DEF EncodeFiltered, ServeTurn
    <2>4. Before(Seen(turn), {filtered}) /\ {filtered} \in SUBSET (1 .. packets)
      BY <1>3, <1>4, <2>1, <2>2 DEF Before, Filtered
    <2> QED BY <1>2, <1>4, <2>1, <2>3, <2>4 DEF Filtered
  <1>5. CASE EncodeDirect /\ Direct(outputs[turn])
    <2>1. at = "direct" /\ frame \in 1 .. packets
      BY <1>5 DEF EncodeDirect, ServeTurn, IInv, InHand, Working
    <2>2. frame \in AheadOfEncoder(turn)
      BY <1>2, <1>5, <2>1 DEF AheadOfEncoder, Direct
    <2>3. EncodeFrame(turn, {frame})
      BY <1>5 DEF EncodeDirect, ServeTurn
    <2>4. Before(Seen(turn), {frame}) /\ {frame} \in SUBSET (1 .. packets)
      BY <1>3, <1>5, <2>1, <2>2 DEF Before, Direct
    <2> QED BY <1>2, <1>5, <2>1, <2>3, <2>4 DEF Direct
  <1>6. CASE Flush /\ Encoded(outputs[turn])
    <2>1. at = "flush" /\ EncodeFrame(turn, {})
      BY <1>6 DEF Flush, ServeTurn
    <2>2. Before(Seen(turn), {}) /\ {} \in SUBSET (1 .. packets)
      BY DEF Before
    <2> QED BY <1>2, <1>6, <2>1, <2>2 DEF Encoded
  <1>7. CASE \/ EncodeFiltered /\ ~Filtered(outputs[turn])
             \/ EncodeDirect /\ ~Direct(outputs[turn])
             \/ Flush /\ ~Encoded(outputs[turn])
    BY <1>7 DEF EncodeFiltered, EncodeDirect, Flush, ServeTurn
  <1> QED BY <1>4, <1>5, <1>6, <1>7

\* A connection is in one of three phases.
LEMMA PhaseType ==
    ASSUME IInv, NEW i \in DOMAIN outputs
    PROVE  outputs[i].phase \in {"none", "described", "ended"}
  <1>1. outputs[i] \in OutputType
    BY DEF IInv, Typed
  <1> QED BY <1>1 DEF OutputType

\* The steps that send frames are SendFrames on the connections they use.
LEMMA SendsKmp ==
    ASSUME IInv, ServeFrame \/ EncodeFiltered \/ EncodeDirect \/ Flush
    PROVE  \A i \in 1 .. MaxOutputs : KmpStep(i)
  <1>0. packets \in Nat /\ packets + 1 \in Nat
    BY DEF IInv, Typed
  <1>1. CASE ServeFrame
    <2>1. Passthrough(packets + 1) /\ at \notin {"closing", "done", "dead"}
      BY <1>1 DEF ServeFrame, SendPacket
    <2>2. ASSUME NEW i \in DOMAIN outputs
          PROVE  \/ outputs'[i] = outputs[i]
                 \/ \E out \in SUBSET Nat :
                       /\ outputs[i].phase = "described" /\ outputs'[i].phase = "described"
                       /\ outputs'[i].sent = outputs[i].sent \cup out
                       /\ Before(outputs[i].sent, out)
                       /\ outputs'[i].frames = outputs[i].frames + Cardinality(out)
      <3>1. CASE /\ outputs'[i].frames = outputs[i].frames + 1
                 /\ outputs'[i].sent = outputs[i].sent \cup {packets + 1}
        <4>1. /\ {packets + 1} \in SUBSET Nat
              /\ Cardinality({packets + 1}) = 1
          BY <1>0, FS_Singleton
        <4>2. outputs[i].sent \subseteq 1 .. packets
          BY DEF IInv, Bounds, Seen
        <4>3. Before(outputs[i].sent, {packets + 1})
          BY <1>0, <4>2 DEF Before
        <4>4. outputs'[i].phase = outputs[i].phase
          BY <2>1, PassthroughFacts
        <4>5. outputs'[i] # outputs[i] => outputs[i].phase = "described"
          <5>1. outputs'[i] # outputs[i] => Track(i).passthrough
            BY <2>1 DEF Passthrough
          <5>2. outputs[i].phase \in {"none", "described", "ended"}
            BY PhaseType
          <5> QED BY <2>1, <5>1, <5>2 DEF IInv, Typed, Roles
        <4> QED BY <3>1, <4>1, <4>3, <4>4, <4>5
      <3>2. CASE outputs'[i] = outputs[i]
        BY <3>2
      <3> QED BY <2>1, <3>1, <3>2, PassthroughFacts
    <2>3. DOMAIN outputs' = DOMAIN outputs
      BY <2>1, PassthroughFacts
    <2> QED BY <2>2, <2>3, SendsLater
  <1>2. CASE EncodeFiltered \/ EncodeDirect \/ Flush
    <2>1. CASE UNCHANGED outputs
      BY <2>1, Stutters
    <2>2. CASE ~UNCHANGED outputs
      <3>1. /\ turn \in DOMAIN outputs /\ outputs[turn].encoder
            /\ at \notin {"closing", "done", "dead"}
        BY <1>2, <2>2, EncodesLater
      <3>2. PICK new \in SUBSET (1 .. packets) :
               Before(Seen(turn), new) /\ EncodeFrame(turn, new)
        BY <1>2, <2>2, EncodesLater
      <3>3. PICK taken, out \in SUBSET (1 .. packets), ok \in BOOLEAN :
               /\ out \subseteq taken
               /\ taken \subseteq outputs[turn].held \cup new
               /\ Before(out, taken \ out)
               /\ Emits(turn, taken, ok, out)
        BY <3>1, <3>2, EncodeFacts
      <3>4. out \in SUBSET taken /\ out \in SUBSET Nat
        BY <1>0, <3>3
      <3>5. /\ DOMAIN outputs' = DOMAIN outputs
            /\ \A j \in DOMAIN outputs : j # turn => outputs'[j] = outputs[j]
            /\ outputs'[turn].phase = outputs[turn].phase
            /\ outputs'[turn].sent = outputs[turn].sent \cup out
            /\ outputs'[turn].frames = outputs[turn].frames + Cardinality(out)
        BY <3>1, <3>3, <3>4, EmitsFacts
      <3>6. Before(outputs[turn].sent, out)
        <4>1. Before(outputs[turn].sent, outputs[turn].held)
          BY <3>1 DEF IInv, InOrder
        <4> QED BY <3>2, <3>3, <4>1 DEF Before, Seen
      <3>7. outputs[turn].phase = "described"
        <4>1. outputs[turn].phase \in {"none", "described", "ended"}
          BY <3>1, PhaseType
        <4> QED BY <3>1, <4>1 DEF IInv, Typed, Roles
      <3> QED BY <3>4, <3>5, <3>6, <3>7, SendsLater
    <2> QED BY <2>1, <2>2
  <1> QED BY <1>1, <1>2

\* The steps that add an output are Describe on its connection.
LEMMA OpensKmp ==
    ASSUME IInv, AddPassthrough \/ AddTranscoded
    PROVE  \A i \in 1 .. MaxOutputs : KmpStep(i)
  <1>1. CASE AddPassthrough
    <2> DEFINE o == [NewOutput EXCEPT !.phase = "described"]
    <2>1. /\ outputs' = Append(outputs, o) /\ o.phase = "described"
          /\ o.sent = {} /\ o.frames = 0
      BY <1>1 DEF AddPassthrough, NewOutput
    <2> HIDE DEF o
    <2> QED BY <2>1, Describes
  <1>2. ASSUME NEW id, NEW cpu, AddEncoded(id, cpu)
        PROVE  \A i \in 1 .. MaxOutputs : KmpStep(i)
    <2>1. PICK opens \in BOOLEAN :
             outputs' = Append(outputs,
                [NewOutput EXCEPT !.filterId = id, !.cpu = cpu, !.encoder = opens,
                                  !.phase = IF opens THEN "described" ELSE "none"])
      BY <1>2 DEF AddEncoded
    <2> DEFINE phase == IF opens THEN "described" ELSE "none"
               o == [NewOutput EXCEPT !.filterId = id, !.cpu = cpu,
                                      !.encoder = opens, !.phase = phase]
    <2>2. phase \in {"none", "described"}
      OBVIOUS
    <2>3. outputs' = Append(outputs, o)
      BY <2>1
    <2> HIDE DEF phase
    <2>4. o.phase = phase /\ o.sent = {} /\ o.frames = 0
      BY DEF NewOutput
    <2> HIDE DEF o
    <2> QED BY <2>2, <2>3, <2>4, Describes
  <1>3. CASE AddTranscoded
    <2>1. \E id, cpu : AddEncoded(id, cpu)
      <3> DEFINE config == FilterConfig(Tracks[cursor])
      <3>1. CASE ReuseFilter(config)
        BY <3>1, Zenon DEF ReuseFilter
      <3>2. CASE CreateFilter(config)
        BY <3>2, Zenon DEF CreateFilter
      <3>3. CASE CreateFilterFails(config)
        BY <3>3, Zenon DEF CreateFilterFails
      <3> QED BY <1>3, <3>1, <3>2, <3>3, Zenon DEF AddTranscoded
    <2> QED BY <1>2, <2>1
  <1> QED BY <1>1, <1>3

\* Closing an output is SendEof on its connection.
LEMMA CloseOutputKmp ==
    ASSUME IInv, CloseOutput
    PROVE  \A i \in 1 .. MaxOutputs : KmpStep(i)
  <1> TAKE i \in 1 .. MaxOutputs
  <1> DEFINE phase == IF outputs[turn].phase = "described" THEN "ended"
                      ELSE outputs[turn].phase
             closed == [outputs[turn] EXCEPT !.phase = phase]
  <1>0. turn \in DOMAIN outputs /\ outputs[turn] \in OutputType
    BY DEF CloseOutput, IInv, Typed
  <1>1. outputs' = [outputs EXCEPT ![turn] = closed]
    BY DEF CloseOutput
  <1> HIDE DEF phase
  <1>2. /\ closed.phase = phase /\ closed.sent = outputs[turn].sent
        /\ closed.frames = outputs[turn].frames
    BY <1>0 DEF OutputType
  <1> HIDE DEF closed
  <1>3. /\ DOMAIN outputs' = DOMAIN outputs /\ outputs'[turn] = closed
        /\ \A j \in DOMAIN outputs : j # turn => outputs'[j] = outputs[j]
    BY <1>0, <1>1 DEF IInv, Typed
  <1>4. CASE i # turn \/ outputs[turn].phase # "described"
    BY <1>0, <1>2, <1>3, <1>4 DEF phase, KmpStep, Kmp!kmpVars
  <1>5. CASE i = turn /\ outputs[turn].phase = "described"
    <2>1. phase = "ended"
      BY <1>5 DEF phase
    <2>2. Kmp(i)!SendEof
      BY <1>0, <1>2, <1>3, <1>5, <2>1 DEF Kmp!SendEof
    <2> QED BY <2>2 DEF KmpStep, Kmp!KmpNext
  <1> QED BY <1>4, <1>5

\* A new session leaves the connections of the earlier ones alone.
LEMMA ServeMediaInfoKmp ==
    ASSUME IInv, ServeMediaInfo
    PROVE  \A i \in 1 .. MaxOutputs : KmpStep(i)
  <1>1. \A i \in DOMAIN outputs : outputs[i] \in OutputType
    BY DEF IInv, Typed
  <1>2. \A i \in DOMAIN outputs : outputs'[i] = [outputs[i] EXCEPT !.held = {}]
    BY DEF ServeMediaInfo, SessionInit
  <1>3. DOMAIN outputs' = DOMAIN outputs
    BY DEF ServeMediaInfo, SessionInit
  <1> QED BY <1>1, <1>2, <1>3, EmptiedType, Stutters

\* Every step is a step or a stutter on each connection.
LEMMA NextKmp == IInv /\ [Next]_vars => \A i \in 1 .. MaxOutputs : KmpStep(i)
  <1> SUFFICES ASSUME IInv, [Next]_vars PROVE \A i \in 1 .. MaxOutputs : KmpStep(i)
    OBVIOUS
  <1>1. CASE ServeFrame \/ EncodeFiltered \/ EncodeDirect \/ Flush
    BY <1>1, SendsKmp
  <1>2. CASE AddPassthrough \/ AddTranscoded
    BY <1>2, OpensKmp
  <1>3. CASE CloseOutput
    BY <1>3, CloseOutputKmp
  <1>4. CASE ServeMediaInfo
    BY <1>4, ServeMediaInfoKmp
  <1>5. CASE UNCHANGED outputs
    BY <1>5, Stutters
  <1>6. CASE \/ ReadHeader \/ ReadNothing \/ PeerGoes \/ Killed
             \/ ServeConnect \/ ServeMediaInfoExits \/ ServeOther
             \/ ServeEos \/ ServeFrameFails
    <2>1. UNCHANGED outputs
      BY <1>6 DEF ReadHeader, ReadNothing, PeerGoes, Killed, ServeConnect,
                  ServeMediaInfoExits, ServeOther, ServeEos, ServeFrameFails,
                  StartClose, sessionVars, stages
    <2> QED BY <1>5, <2>1
  <1>7. CASE \/ SkipDisabled \/ AddOverruns \/ AddCrashes \/ AllAdded
             \/ DecoderGives \/ DecoderWaits \/ DecoderEnds \/ DecoderFails \/ FilterWaits \/ FiltersDone
             \/ EncodedFiltered \/ EncodedDirect \/ Flushed \/ ClosedAll
    <2>1. UNCHANGED outputs
      BY <1>7 DEF SkipDisabled, AddOverruns, AddCrashes, AllAdded, DecoderGives, DecoderWaits,
                  DecoderEnds, DecoderFails, FilterWaits, FiltersDone, EncodedFiltered,
                  EncodedDirect, Flushed, ServeEnds, ClosedAll, stages
    <2> QED BY <1>5, <2>1
  <1>8. CASE FilterSteps
    BY <1>5, <1>8, FilterFacts
  <1>9. CASE UNCHANGED vars
    BY <1>5, <1>9 DEF vars, sessionVars, stages
  <1> QED BY <1>1, <1>2, <1>3, <1>4, <1>6, <1>7, <1>8, <1>9
          DEF Next, ThreadStep, SessionStep, FilterSteps

(* Every connection to a packager follows the protocol, whatever the codecs   *)
(* hold back or lose, whenever the client goes and however many sessions the  *)
(* receiver has had: KMP_send_packet is never given a frame out of order and  *)
(* nothing follows KMP_send_eof.                                              *)
THEOREM ConnectionsFollowKmp == Spec => ImplementsKmp
  <1>1. Init => \A i \in 1 .. MaxOutputs : Kmp(i)!KmpInit
    BY DEF Init, Kmp!KmpInit
  <1>2. IInv /\ [Next]_vars =>
           [\A i \in 1 .. MaxOutputs : [Kmp(i)!KmpNext]_(Kmp(i)!kmpVars)]_vars
    BY NextKmp DEF KmpStep
  <1> QED BY <1>1, <1>2, FramesInOrder, PTL DEF Spec, ImplementsKmp
-----------------------------------------------------------------------------
(* Nothing is lost: while the decoder, the filter and the encoder of an output *)
(* have not failed, the frames that are due to the output and that it has not  *)
(* seen are exactly those that are ahead of it.                                *)

\* What output i is to get of the session's packets.
Wants(i) ==
    {n \in Received :
        outputs[i].filterId # 0 =>
            (n - first - 1) % filters[outputs[i].filterId].config.skip = 0}

\* What passes filter g.
Kept(g) == {n \in Received : (n - first - 1) % filters[g].config.skip = 0}

Turns ==
    /\ at \in {"encode", "direct", "flush"} => turn > base
    /\ at = "adding" => packets = first

\* Filters are made for outputs that are transcoded.
FiltersUsed == filters # <<>> => ShouldDecode

InSession ==
    decoder.ok /\ at # "dead" =>
        /\ decoder.held \subseteq Received
        /\ Working => frame \in Received

\* A filter has been given the first frames of the session, as many as it
\* counts, and the others are ahead of it.
Fed ==
    decoder.ok /\ at # "dead" =>
        \A g \in DOMAIN filters :
            /\ filters[g].count <= packets - first
            /\ AheadOfFilter(g) = (first + filters[g].count + 1) .. packets

Stepped ==
    decoder.ok /\ at # "dead" =>
        /\ \A g \in DOMAIN filters : filters[g].held \subseteq Kept(g)
        /\ at = "encode" => filtered \in Kept(cursor)

\* A passthrough output has sent all packets.
PassedOn ==
    at # "dead" => \A i \in Current : Track(i).passthrough => outputs[i].sent = Received

\* What a sound output has not seen is ahead of it.
NoneMissing ==
    at # "dead" =>
        \A i \in Current : Sound(i) => Seen(i) = Wants(i) \ AheadOfEncoder(i)

Flushing ==
    /\ at \in {"flush", "closing", "done"} /\ decoder.ok =>
           decoder.held = {} \/ ~ShouldDecode
    /\ \A i \in Current : Sound(i) =>
           /\ at = "flush" /\ i < turn => outputs[i].held = {}
           /\ at \in {"closing", "done"} => outputs[i].held = {}

Closing ==
    \A i \in DOMAIN outputs :
        (at = "closing" /\ i < turn) \/ at = "done" => outputs[i].phase # "described"

LossInv ==
    /\ Turns /\ FiltersUsed /\ InSession /\ Fed /\ Stepped
    /\ PassedOn /\ NoneMissing /\ Flushing /\ Closing

\* What is given out first is the smallest.
LEMMA Smallest ==
    ASSUME NEW a \in Int, NEW p \in Int, NEW f, NEW H,
           H \cup {f} = (a + 1) .. p, Before({f}, H)
    PROVE  f = a + 1 /\ H = (a + 2) .. p /\ a + 1 <= p
  <1>1. f \in (a + 1) .. p
    OBVIOUS
  <1>2. a + 1 \in (a + 1) .. p
    BY <1>1
  <1>3. f = a + 1
    <2>1. CASE a + 1 \in H
      <3>1. f < a + 1
        BY <2>1 DEF Before
      <3> QED BY <1>1, <3>1
    <2> QED BY <1>2, <2>1
  <1>4. \A n \in H : n \in (a + 1) .. p /\ f < n
    BY DEF Before
  <1>5. H = (a + 2) .. p
    <2>1. H \subseteq (a + 2) .. p
      BY <1>3, <1>4
    <2>2. ASSUME NEW n \in (a + 2) .. p PROVE n \in H
      <3>1. n \in (a + 1) .. p /\ n # a + 1
        OBVIOUS
      <3> QED BY <1>3, <3>1
    <2> QED BY <2>1, <2>2
  <1> QED BY <1>2, <1>3, <1>5

\* The thread starts before any packet.
LEMMA InitLoss == Init => LossInv
  <1> SUFFICES ASSUME Init PROVE LossInv
    OBVIOUS
  <1> USE DEF Init
  <1>1. Current = {} /\ Received = {} /\ DOMAIN filters = {} /\ DOMAIN outputs = {}
    BY DEF Current, Received
  <1>2. Turns /\ FiltersUsed /\ InSession
    BY DEF Turns, FiltersUsed, InSession, Working
  <1>3. Fed /\ Stepped /\ PassedOn /\ NoneMissing
    BY <1>1 DEF Fed, Stepped, PassedOn, NoneMissing
  <1>4. Flushing /\ Closing
    BY <1>1 DEF Flushing, Closing
  <1> QED BY <1>2, <1>3, <1>4 DEF LossInv

\* A step that leaves what is ahead of every stage as it was, or after which the
\* decoder is known to have failed.
LEMMA MovesLoss ==
    ASSUME LossInv, UNCHANGED <<packets, first, filters, outputs, base>>,
           at # "dead", at' \notin {"encode", "dead"},
           decoder'.ok =>
               /\ decoder.ok
               /\ \A g \in DOMAIN filters : AheadOfFilter(g)' = AheadOfFilter(g)
               /\ \A i \in Current : AheadOfEncoder(i)' = AheadOfEncoder(i),
           Turns', InSession', Flushing', Closing'
    PROVE  LossInv'
  <1>1. Received' = Received /\ Current' = Current /\ ShouldDecode' = ShouldDecode
    BY DEF Received, Current, ShouldDecode, Track
  <1>2. FiltersUsed'
    BY <1>1 DEF LossInv, FiltersUsed
  <1>3. Fed'
    BY DEF LossInv, Fed
  <1>4. Stepped'
    BY <1>1 DEF LossInv, Stepped, Kept
  <1>5. PassedOn'
    BY <1>1 DEF LossInv, PassedOn, Track
  <1>6. NoneMissing'
    <2> SUFFICES ASSUME NEW i \in Current, Sound(i)'
                 PROVE  Seen(i)' = Wants(i)' \ AheadOfEncoder(i)'
      BY <1>1 DEF NoneMissing
    <2>1. Sound(i) /\ decoder'.ok
      BY DEF Sound
    <2>2. Seen(i)' = Seen(i) /\ Wants(i)' = Wants(i)
      BY <1>1 DEF Seen, Wants
    <2> QED BY <2>1, <2>2 DEF LossInv, NoneMissing
  <1> QED BY <1>2, <1>3, <1>4, <1>5, <1>6 DEF LossInv

\* A step of which the process dies.
LEMMA DeadLoss ==
    ASSUME LossInv, UNCHANGED <<filters, outputs, base>>, at' = "dead"
    PROVE  LossInv'
  <1>1. Turns' /\ InSession' /\ Fed' /\ Stepped' /\ PassedOn' /\ NoneMissing'
    BY DEF Turns, InSession, Fed, Stepped, PassedOn, NoneMissing
  <1>2. FiltersUsed'
    BY DEF LossInv, FiltersUsed, ShouldDecode, Current, Track
  <1>3. Flushing' /\ Closing'
    BY DEF Flushing, Closing
  <1> QED BY <1>1, <1>2, <1>3 DEF LossInv

\* A step of the thread without a frame in its hands, before and after.
LEMMA RestsLoss ==
    ASSUME LossInv, UNCHANGED <<packets, first, filters, outputs, base>>,
           ~Working, ~Working', at # "dead", at' # "dead",
           decoder'.held = decoder.held, decoder'.ok = decoder.ok,
           Turns', Flushing', Closing'
    PROVE  LossInv'
  <1>1. \A g \in DOMAIN filters : AheadOfFilter(g)' = AheadOfFilter(g)
    BY DEF AheadOfFilter, Working
  <1>2. \A i \in Current : AheadOfEncoder(i)' = AheadOfEncoder(i)
    BY <1>1 DEF AheadOfEncoder, AheadOfFilter, Working
  <1>3. InSession'
    BY DEF LossInv, InSession, Received
  <1> QED BY <1>1, <1>2, <1>3, MovesLoss DEF Working

\* The server's outputs and the places its loops go through.
LEMMA Ranges ==
    ASSUME IInv
    PROVE  /\ Len(outputs) \in Nat /\ DOMAIN outputs = 1 .. Len(outputs)
           /\ base \in Nat /\ base <= Len(outputs)
           /\ turn \in Nat \ {0} /\ cursor \in Nat \ {0}
           /\ packets \in Nat /\ first \in Nat /\ first <= packets
           /\ Current = (base + 1) .. Len(outputs)
           /\ \A i \in Current : i \in DOMAIN outputs /\ i \in Nat /\ i > base
  BY DEF IInv, Typed, Current

\* The steps that end with no frame in the thread's hands and no stage changed.
LEMMA QuietLoss ==
    ASSUME IInv, LossInv,
           \/ ReadHeader \/ ReadNothing \/ PeerGoes \/ ServeConnect \/ ServeOther
           \/ SkipDisabled \/ AddOverruns \/ AllAdded \/ DecoderWaits
    PROVE  LossInv'
  <1>1. /\ UNCHANGED <<packets, first, filters, outputs, base, decoder>>
        /\ ~Working /\ at # "dead"
        /\ at' \in {"read", "body", "adding", "decode", "overrun"}
        /\ at' = "adding" => at = "adding"
    BY DEF ReadHeader, ReadNothing, PeerGoes, ServeConnect, ServeOther, SkipDisabled,
           AddOverruns, AllAdded, DecoderWaits, AddStep, AddDone, Goes, stages, hands,
           sessionVars, Working
  <1>2. Turns' /\ Flushing' /\ Closing'
    BY <1>1 DEF Turns, Flushing, Closing, LossInv
  <1>3. ~Working' /\ at' # "dead"
    BY <1>1 DEF Working
  <1> QED BY <1>1, <1>2, <1>3, RestsLoss

\* The steps of which the process dies.
LEMMA DyingLoss ==
    ASSUME LossInv, ServeMediaInfoExits \/ AddCrashes \/ Killed
    PROVE  LossInv'
  BY DeadLoss DEF ServeMediaInfoExits, AddCrashes, Killed, Goes, stages

\* The session is told to end.
LEMMA StartCloseLoss ==
    ASSUME IInv, LossInv, StartClose, at = "body"
    PROVE  LossInv'
  <1>1. /\ UNCHANGED <<packets, first, filters, outputs, base>>
        /\ turn' = 1
        /\ \/ ShouldDecode /\ at' = "decode"
              /\ decoder' = [decoder EXCEPT !.draining = TRUE]
           \/ ~ShouldDecode /\ at' = "closing" /\ decoder' = decoder
    BY DEF StartClose
  <1>2. at' \in {"decode", "closing"} /\ ~Working /\ ~Working'
    BY <1>1 DEF Working
  <1>3. decoder'.held = decoder.held /\ decoder'.ok = decoder.ok
    BY <1>1 DEF IInv, Typed, DecoderType
  <1>4. Turns'
    BY <1>2 DEF Turns
  <1>5. ShouldDecode' = ShouldDecode /\ Current' = Current
    BY <1>1 DEF ShouldDecode, Current, Track
  <1>6. Flushing'
    <2>1. ASSUME at' = "closing", NEW i \in Current PROVE ~Sound(i)'
      <3>1. Track(i).passthrough /\ i \in DOMAIN outputs
        BY <1>1, <2>1, Ranges DEF ShouldDecode
      <3>2. ~outputs[i].encoder
        BY <3>1 DEF IInv, Roles
      <3> QED BY <1>1, <3>2 DEF Sound
    <2> QED BY <1>1, <1>2, <1>5, <2>1 DEF Flushing
  <1>7. Closing'
    <2> SUFFICES ASSUME NEW i \in DOMAIN outputs', i < turn' PROVE FALSE
      BY <1>2 DEF Closing
    <2> QED BY <1>1, Ranges
  <1> QED BY <1>1, <1>2, <1>3, <1>4, <1>6, <1>7, RestsLoss

\* The decoder gives a frame.
LEMMA DecoderGivesLoss ==
    ASSUME IInv, LossInv, DecoderGives
    PROVE  LossInv'
  <1>1. /\ UNCHANGED <<packets, first, filters, outputs, base>>
        /\ at = "decode" /\ at' = "filter" /\ cursor' = 1
        /\ frame' \in decoder.held
        /\ decoder' = [decoder EXCEPT !.held = @ \ {frame'}]
    BY DEF DecoderGives, Goes
  <1>2. decoder'.held = decoder.held \ {frame'} /\ decoder'.ok = decoder.ok
    BY <1>1 DEF IInv, Typed, DecoderType
  <1>3. \A g \in DOMAIN filters : AheadOfFilter(g)' = AheadOfFilter(g)
    <2> SUFFICES ASSUME NEW g \in DOMAIN filters
                 PROVE  AheadOfFilter(g)' = AheadOfFilter(g)
      OBVIOUS
    <2>1. g >= 1
      BY DEF IInv, Typed
    <2> QED BY <1>1, <1>2, <2>1 DEF AheadOfFilter
  <1>4. \A i \in Current : AheadOfEncoder(i)' = AheadOfEncoder(i)
    <2> SUFFICES ASSUME NEW i \in Current
                 PROVE  AheadOfEncoder(i)' = AheadOfEncoder(i)
      OBVIOUS
    <2>1. outputs[i].filterId = 0 \/ outputs[i].filterId \in DOMAIN filters
      BY FedFrom DEF IInv
    <2> QED BY <1>1, <1>2, <1>3, <2>1 DEF AheadOfEncoder
  <1>5. InSession'
    BY <1>1, <1>2 DEF LossInv, InSession, Received
  <1>6. Turns' /\ Flushing' /\ Closing'
    BY <1>1 DEF Turns, Flushing, Closing
  <1> QED BY <1>1, <1>2, <1>3, <1>4, <1>5, <1>6, MovesLoss

\* A call for the decoder fails.
LEMMA DecoderFailsLoss ==
    ASSUME IInv, LossInv, DecoderFails
    PROVE  LossInv'
  <1>1. /\ UNCHANGED <<packets, first, filters, outputs, base>>
        /\ at = "decode" /\ at' \in {"dead", "read"}
    BY DEF DecoderFails
  <1>2. decoder'.ok = FALSE
    BY DEF DecoderFails, IInv, Typed, DecoderType
  <1>3. Turns' /\ InSession' /\ Flushing' /\ Closing'
    BY <1>1, <1>2 DEF Turns, InSession, Flushing, Closing, Sound
  <1> QED BY <1>1, <1>2, <1>3, DeadLoss, MovesLoss

\* The decoder is empty, or the encoders are, or the outputs are closed.
LEMMA EndsLoss ==
    ASSUME IInv, LossInv, DecoderEnds \/ Flushed \/ ClosedAll
    PROVE  LossInv'
  <1>1. /\ UNCHANGED <<packets, first, filters, outputs, base, decoder>>
        /\ ~Working /\ ~Working' /\ at # "dead" /\ at' # "dead"
        /\ at' # "adding"
    BY DEF DecoderEnds, Flushed, ServeEnds, ClosedAll, Goes, stages, Working
  <1>2. /\ ShouldDecode' = ShouldDecode /\ Current' = Current
        /\ \A i \in Current : Sound(i)' <=> Sound(i)
    BY <1>1 DEF ShouldDecode, Current, Track, Sound
  <1>3. CASE DecoderEnds
    <2>1. at' = "flush" /\ turn' = base + 1 /\ decoder.held = {}
      BY <1>3 DEF DecoderEnds, Goes
    <2>2. \A i \in Current : ~(i < turn')
      BY <2>1, Ranges
    <2>3. Turns' /\ Flushing' /\ Closing'
      BY <1>1, <1>2, <2>1, <2>2, Ranges DEF Turns, Flushing, Closing
    <2> QED BY <1>1, <2>3, RestsLoss
  <1>4. CASE Flushed
    <2>1. at = "flush" /\ at' = "closing" /\ turn \notin Current /\ turn' = 1
      BY <1>4 DEF Flushed, ServeEnds, Goes
    <2>2. turn > base
      BY <2>1 DEF LossInv, Turns
    <2>3. \A i \in Current : i < turn
      BY <2>1, <2>2, Ranges
    <2>4. Flushing'
      BY <1>1, <1>2, <2>1, <2>3 DEF LossInv, Flushing
    <2>5. Turns' /\ Closing'
      BY <1>1, <2>1, Ranges DEF Turns, Closing
    <2> QED BY <1>1, <2>4, <2>5, RestsLoss
  <1>5. CASE ClosedAll
    <2>1. at = "closing" /\ at' = "done" /\ turn \notin DOMAIN outputs
      BY <1>5 DEF ClosedAll, Goes
    <2>2. \A i \in DOMAIN outputs : i < turn
      BY <2>1, Ranges
    <2>3. Flushing'
      BY <1>1, <1>2, <2>1 DEF LossInv, Flushing
    <2>4. Turns' /\ Closing'
      BY <1>1, <2>1, <2>2 DEF Turns, LossInv, Closing
    <2> QED BY <1>1, <2>3, <2>4, RestsLoss
  <1> QED BY <1>3, <1>4, <1>5

\* The thread passes on to the next filter, or to the encoders without one, or
\* comes back from the encoders.
LEMMA PassesOnLoss ==
    ASSUME IInv, LossInv,
           FilterWaits \/ FiltersDone \/ EncodedFiltered \/ EncodedDirect
    PROVE  LossInv'
  <1>1. /\ UNCHANGED <<packets, first, filters, outputs, base, decoder>>
        /\ UNCHANGED frame \/ at' = "decode"
        /\ Working /\ at' \in {"filter", "direct", "sink", "decode"}
    BY DEF FilterWaits, FiltersDone, EncodedFiltered, EncodedDirect, ServeEnds, Goes,
           stages, Working
  <1>2. InSession'
    BY <1>1 DEF LossInv, InSession, Received, Working
  <1>3. Flushing' /\ Closing'
    BY <1>1 DEF Flushing, Closing
  <1>4. CASE FilterWaits
    <2>1. at = "sink" /\ at' = "filter" /\ cursor' = cursor + 1
      BY <1>4 DEF FilterWaits, Goes
    <2>2. \A g \in DOMAIN filters : AheadOfFilter(g)' = AheadOfFilter(g)
      <3> SUFFICES ASSUME NEW g \in DOMAIN filters
                   PROVE  AheadOfFilter(g)' = AheadOfFilter(g)
        OBVIOUS
      <3>1. g \in Nat /\ cursor \in Nat
        BY DEF IInv, Typed
      <3>2. g >= cursor + 1 <=> g > cursor
        BY <3>1
      <3> QED BY <1>1, <2>1, <3>2 DEF AheadOfFilter
    <2>3. \A i \in Current : AheadOfEncoder(i)' = AheadOfEncoder(i)
      <3> SUFFICES ASSUME NEW i \in Current
                   PROVE  AheadOfEncoder(i)' = AheadOfEncoder(i)
        OBVIOUS
      <3>1. outputs[i].filterId = 0 \/ outputs[i].filterId \in DOMAIN filters
        BY FedFrom DEF IInv
      <3> QED BY <1>1, <2>1, <2>2, <3>1 DEF AheadOfEncoder
    <2>4. Turns'
      BY <2>1 DEF Turns
    <2> QED BY <1>1, <1>2, <1>3, <2>1, <2>2, <2>3, <2>4, MovesLoss
  <1>5. CASE FiltersDone
    <2>1. /\ at = "filter" /\ at' = "direct" /\ turn' = base + 1
          /\ cursor \notin DOMAIN filters
      BY <1>5 DEF FiltersDone, Goes
    <2>2. \A g \in DOMAIN filters : AheadOfFilter(g)' = AheadOfFilter(g)
      <3> SUFFICES ASSUME NEW g \in DOMAIN filters
                   PROVE  AheadOfFilter(g)' = AheadOfFilter(g)
        OBVIOUS
      <3>1. ~(g >= cursor)
        BY <2>1 DEF IInv, Typed
      <3> QED BY <1>1, <2>1, <3>1 DEF AheadOfFilter
    <2>3. \A i \in Current : AheadOfEncoder(i)' = AheadOfEncoder(i)
      <3> SUFFICES ASSUME NEW i \in Current
                   PROVE  AheadOfEncoder(i)' = AheadOfEncoder(i)
        OBVIOUS
      <3>1. outputs[i].filterId = 0 \/ outputs[i].filterId \in DOMAIN filters
        BY FedFrom DEF IInv
      <3>2. i >= turn'
        BY <2>1, Ranges
      <3> QED BY <1>1, <2>1, <2>2, <3>1, <3>2 DEF AheadOfEncoder
    <2>4. Turns'
      BY <1>1, <2>1, Ranges DEF Turns
    <2> QED BY <1>1, <1>2, <1>3, <2>1, <2>2, <2>3, <2>4, MovesLoss
  <1>6. CASE EncodedFiltered
    <2>1. /\ at = "encode" /\ at' = "sink" /\ turn \notin Current
          /\ UNCHANGED <<packets, first, filters, outputs, base, decoder, frame, cursor>>
      BY <1>6 DEF EncodedFiltered, ServeEnds, Goes, stages
    <2>2. \A i \in Current : ~(i >= turn)
      <3>1. turn > base
        BY <2>1 DEF LossInv, Turns
      <3> QED BY <2>1, <3>1, Ranges
    <2>3. \A g \in DOMAIN filters : AheadOfFilter(g)' = AheadOfFilter(g)
      BY <2>1 DEF AheadOfFilter
    <2>4. \A i \in Current : AheadOfEncoder(i)' = AheadOfEncoder(i)
      <3> SUFFICES ASSUME NEW i \in Current
                   PROVE  AheadOfEncoder(i)' = AheadOfEncoder(i)
        OBVIOUS
      <3>1. outputs[i].filterId = 0 \/ outputs[i].filterId \in DOMAIN filters
        BY FedFrom DEF IInv
      <3> QED BY <2>1, <2>2, <2>3, <3>1 DEF AheadOfEncoder
    <2>5. Turns'
      BY <2>1 DEF Turns
    <2> QED BY <1>2, <1>3, <2>1, <2>3, <2>4, <2>5, MovesLoss
  <1>7. CASE EncodedDirect
    <2>1. /\ at = "direct" /\ at' = "decode" /\ turn \notin Current
          /\ UNCHANGED <<packets, first, filters, outputs, base, decoder, cursor>>
      BY <1>7 DEF EncodedDirect, ServeEnds, Goes, stages
    <2>2. \A i \in Current : ~(i >= turn)
      <3>1. turn > base
        BY <2>1 DEF LossInv, Turns
      <3> QED BY <2>1, <3>1, Ranges
    <2>3. \A g \in DOMAIN filters : AheadOfFilter(g)' = AheadOfFilter(g)
      BY <2>1 DEF AheadOfFilter
    <2>4. \A i \in Current : AheadOfEncoder(i)' = AheadOfEncoder(i)
      <3> SUFFICES ASSUME NEW i \in Current
                   PROVE  AheadOfEncoder(i)' = AheadOfEncoder(i)
        OBVIOUS
      <3>1. outputs[i].filterId = 0 \/ outputs[i].filterId \in DOMAIN filters
        BY FedFrom DEF IInv
      <3> QED BY <2>1, <2>2, <2>3, <3>1 DEF AheadOfEncoder
    <2>5. Turns'
      BY <2>1 DEF Turns
    <2> QED BY <1>2, <1>3, <2>1, <2>3, <2>4, <2>5, MovesLoss
  <1> QED BY <1>4, <1>5, <1>6, <1>7
-----------------------------------------------------------------------------
\* What exactly the filter whose turn it is has after its step.
LEMMA FilterExact ==
    ASSUME IInv, FilterSteps
    PROVE  /\ filters'[cursor].config = filters[cursor].config
           /\ FilterTakes =>
                  /\ filters'[cursor].count = filters[cursor].count + 1
                  /\ filters'[cursor].ok = filters[cursor].ok
                  /\ filters'[cursor].held =
                        IF Passes(filters[cursor]) THEN filters[cursor].held \cup {frame}
                        ELSE filters[cursor].held
           /\ FilterRefuses =>
                  /\ filters'[cursor].count = filters[cursor].count + 1
                  /\ filters'[cursor].ok = FALSE
                  /\ filters'[cursor].held = filters[cursor].held
           /\ FilterGives =>
                  /\ filters'[cursor].count = filters[cursor].count
                  /\ filters'[cursor].ok = filters[cursor].ok
                  /\ filtered' \in filters[cursor].held
                  /\ filters'[cursor].held = filters[cursor].held \ {filtered'}
           /\ FilterFails =>
                  /\ filters'[cursor].count = filters[cursor].count
                  /\ filters'[cursor].ok = FALSE
                  /\ filters'[cursor].held \subseteq filters[cursor].held
  <1>0. /\ filters \in Seq(FilterType) /\ filters[cursor] \in FilterType
        /\ cursor \in DOMAIN filters
    BY FilterFacts DEF IInv, Typed
  <1>1. CASE FilterTakes
    <2>1. /\ filters'[cursor].config = filters[cursor].config
          /\ filters'[cursor].count = filters[cursor].count + 1
          /\ filters'[cursor].ok = filters[cursor].ok
          /\ filters'[cursor].held =
                IF Passes(filters[cursor]) THEN filters[cursor].held \cup {frame}
                ELSE filters[cursor].held
      BY <1>0, <1>1 DEF FilterTakes, Feed, FilterType
    <2>2. ~FilterRefuses /\ ~FilterGives /\ ~FilterFails
      BY <1>1 DEF FilterTakes, FilterRefuses, FilterGives, FilterFails, Goes
    <2> QED BY <2>1, <2>2
  <1>2. CASE FilterRefuses
    <2>1. /\ filters'[cursor].config = filters[cursor].config
          /\ filters'[cursor].count = filters[cursor].count + 1
          /\ filters'[cursor].ok = FALSE
          /\ filters'[cursor].held = filters[cursor].held
      BY <1>0, <1>2 DEF FilterRefuses, Feed, FilterType
    <2>2. ~FilterTakes /\ ~FilterGives /\ ~FilterFails
      BY <1>2 DEF FilterTakes, FilterRefuses, FilterGives, FilterFails, Goes
    <2> QED BY <2>1, <2>2
  <1>3. CASE FilterGives
    <2>1. /\ filtered' \in filters[cursor].held
          /\ filters' = [filters EXCEPT ![cursor].held = @ \ {filtered'}]
      BY <1>3 DEF FilterGives
    <2>2. /\ filters'[cursor].config = filters[cursor].config
          /\ filters'[cursor].count = filters[cursor].count
          /\ filters'[cursor].ok = filters[cursor].ok
          /\ filters'[cursor].held = filters[cursor].held \ {filtered'}
      BY <1>0, <2>1 DEF FilterType
    <2>3. ~FilterTakes /\ ~FilterRefuses /\ ~FilterFails
      BY <1>3 DEF FilterTakes, FilterRefuses, FilterGives, FilterFails, Goes
    <2> QED BY <2>1, <2>2, <2>3
  <1>4. CASE FilterFails
    <2>1. PICK lost : filters' = [filters EXCEPT ![cursor].ok = FALSE,
                                                  ![cursor].held = @ \ lost]
      BY <1>4 DEF FilterFails
    <2>2. /\ filters'[cursor].config = filters[cursor].config
          /\ filters'[cursor].count = filters[cursor].count
          /\ filters'[cursor].ok = FALSE
          /\ filters'[cursor].held \subseteq filters[cursor].held
      BY <1>0, <2>1 DEF FilterType
    <2>3. ~FilterTakes /\ ~FilterRefuses /\ ~FilterGives
      BY <1>4 DEF FilterTakes, FilterRefuses, FilterGives, FilterFails, Goes
    <2> QED BY <2>2, <2>3
  <1> QED BY <1>1, <1>2, <1>3, <1>4 DEF FilterSteps

\* The frame a filter is given is the first it was not given yet.
LEMMA GivenNext ==
    ASSUME IInv, LossInv, decoder.ok, at = "filter", cursor \in DOMAIN filters
    PROVE  LET n == filters[cursor].count
           IN /\ n \in Nat /\ n + 1 <= packets - first
              /\ decoder.held = (first + (n + 1) + 1) .. packets
              /\ Passes(filters[cursor]) <=> frame \in Kept(cursor)
  <1> DEFINE n == filters[cursor].count
  <1>0. n \in Nat /\ packets \in Nat /\ first \in Nat /\ cursor \in Nat
    <2>1. filters[cursor] \in FilterType
      BY DEF IInv, Typed
    <2> QED BY <2>1 DEF IInv, Typed, FilterType
  <1>1. decoder.held \cup {frame} = (first + n + 1) .. packets
    <2>1. AheadOfFilter(cursor) = (first + n + 1) .. packets
      BY DEF LossInv, Fed
    <2>2. AheadOfFilter(cursor) = decoder.held \cup {frame}
      BY <1>0 DEF AheadOfFilter
    <2> QED BY <2>1, <2>2
  <1>2. Before({frame}, decoder.held)
    BY DEF IInv, InOrder, Working
  <1> HIDE DEF n
  <1>3. /\ frame = first + n + 1 /\ first + n + 1 <= packets
        /\ decoder.held = (first + n + 2) .. packets
    <2> DEFINE a == first + n
    <2>1. a \in Int /\ packets \in Int /\ decoder.held \cup {frame} = (a + 1) .. packets
      BY <1>0, <1>1
    <2> HIDE DEF a
    <2>2. frame = a + 1 /\ decoder.held = (a + 2) .. packets /\ a + 1 <= packets
      BY <1>2, <2>1, Smallest
    <2> QED BY <2>2 DEF a
  <1>4. Passes(filters[cursor]) <=> frame \in Kept(cursor)
    <2>1. frame - first - 1 = n /\ frame \in Received
      BY <1>0, <1>3 DEF Received
    <2> QED BY <2>1 DEF Passes, Kept, n
  <1>5. n + 1 <= packets - first /\ first + (n + 1) + 1 = first + n + 2
    BY <1>0, <1>3
  <1> QED BY <1>0, <1>3, <1>4, <1>5 DEF n

\* A filter takes the frame in hand, gives a frame or fails: with that it counts
\* one more, and what it let through is ahead of its encoders.
LEMMA FilterLoss ==
    ASSUME IInv, LossInv, FilterSteps
    PROVE  LossInv'
  <1> USE FilterFacts
  <1>1. /\ at \in {"filter", "sink"} /\ at' \in {"filter", "sink", "encode"}
        /\ at' = "encode" => FilterGives
        /\ FilterTakes \/ FilterRefuses => at = "filter"
        /\ FilterGives => at = "sink" /\ at' = "encode" /\ turn' = base + 1
        /\ FilterFails => at = "sink"
        /\ Working /\ Working'
    BY FilterHolds DEF FilterSteps, FilterTakes, FilterRefuses, FilterGives, FilterFails,
                       Goes, Working
  <1>2. /\ Received' = Received /\ Current' = Current /\ ShouldDecode' = ShouldDecode
        /\ \A g \in DOMAIN filters : filters'[g].config = filters[g].config
        /\ \A g \in DOMAIN filters : Kept(g)' = Kept(g)
    <2>1. \A g \in DOMAIN filters : filters'[g].config = filters[g].config
      BY FilterExact
    <2> QED BY <2>1 DEF Received, Current, ShouldDecode, Track, Kept
  <1>3. Turns'
    BY <1>1, Ranges DEF Turns
  <1>4. FiltersUsed'
    <2>1. filters # <<>> /\ ShouldDecode
      BY DEF IInv, Typed, LossInv, FiltersUsed
    <2> QED BY <1>2, <2>1 DEF FiltersUsed
  <1>5. InSession'
    BY <1>1, <1>2 DEF LossInv, InSession
  <1>6. PassedOn'
    BY <1>1, <1>2 DEF LossInv, PassedOn, Track
  <1>7. Flushing' /\ Closing'
    BY <1>1 DEF Flushing, Closing
  <1>8. \A g \in DOMAIN filters : g # cursor => AheadOfFilter(g)' = AheadOfFilter(g)
    <2> SUFFICES ASSUME NEW g \in DOMAIN filters, g # cursor
                 PROVE  AheadOfFilter(g)' = AheadOfFilter(g)
      OBVIOUS
    <2>1. g \in Nat /\ cursor \in Nat
      BY DEF IInv, Typed
    <2>2. (g >= cursor <=> g > cursor) /\ (g >= cursor + 1 <=> g > cursor)
      BY <2>1
    <2> QED BY <1>1, <2>2, FilterHolds DEF AheadOfFilter
  <1>9. ASSUME NEW g \in DOMAIN filters, g = cursor
        PROVE  /\ FilterTakes \/ FilterRefuses => AheadOfFilter(g)' = decoder.held
               /\ FilterGives \/ FilterFails => AheadOfFilter(g)' = AheadOfFilter(g)
               /\ at = "filter" => AheadOfFilter(g) = decoder.held \cup {frame}
    <2>1. g \in Nat
      BY DEF IInv, Typed
    <2>2. g >= cursor /\ ~(g > cursor) /\ ~(g >= cursor + 1)
      BY <1>9, <2>1
    <2>3. at' = "filter" => cursor' = cursor + 1
      BY FilterHolds
    <2>4. at' \in {"sink", "encode"} => cursor' = cursor
      BY FilterHolds
    <2>5. CASE at = "filter"
      <3>1. at' \in {"sink", "filter"} /\ ~FilterGives /\ ~FilterFails
        BY <1>1, <2>5 DEF FilterSteps
      <3>2. AheadOfFilter(g) = decoder.held \cup {frame}
        BY <2>2, <2>5 DEF AheadOfFilter
      <3>3. AheadOfFilter(g)' = decoder.held
        BY <2>2, <2>3, <2>4, <3>1 DEF AheadOfFilter
      <3> QED BY <3>1, <3>2, <3>3
    <2>6. CASE at = "sink"
      <3>1. at' \in {"encode", "filter"} /\ ~FilterTakes /\ ~FilterRefuses
        BY <1>1, <2>6, FilterHolds DEF FilterSteps
      <3>2. AheadOfFilter(g) = decoder.held
        BY <2>2, <2>6 DEF AheadOfFilter
      <3>3. AheadOfFilter(g)' = decoder.held
        BY <2>2, <2>3, <2>4, <3>1 DEF AheadOfFilter
      <3> QED BY <2>6, <3>1, <3>2, <3>3
    <2> QED BY <1>1, <2>5, <2>6
  <1>10. Fed'
    <2> SUFFICES ASSUME decoder.ok, NEW g \in DOMAIN filters
                 PROVE  /\ filters'[g].count <= packets - first
                        /\ AheadOfFilter(g)' = (first + filters'[g].count + 1) .. packets
      BY DEF Fed
    <2>1. /\ filters[g].count <= packets - first
          /\ AheadOfFilter(g) = (first + filters[g].count + 1) .. packets
      BY <1>1 DEF LossInv, Fed
    <2>2. CASE g # cursor
      BY <1>8, <2>1, <2>2
    <2>3. CASE g = cursor /\ (FilterTakes \/ FilterRefuses)
      <3>1. filters'[g].count = filters[g].count + 1
        BY <2>3, FilterExact
      <3>2. /\ filters[g].count + 1 <= packets - first
            /\ decoder.held = (first + (filters[g].count + 1) + 1) .. packets
        BY <1>1, <2>3, GivenNext
      <3> QED BY <1>9, <2>3, <3>1, <3>2
    <2>4. CASE g = cursor /\ (FilterGives \/ FilterFails)
      <3>1. filters'[g].count = filters[g].count
        BY <2>4, FilterExact
      <3> QED BY <1>9, <2>1, <2>4, <3>1
    <2> QED BY <2>2, <2>3, <2>4 DEF FilterSteps
  <1>11. Stepped'
    <2> SUFFICES ASSUME decoder.ok
                 PROVE  /\ \A g \in DOMAIN filters : filters'[g].held \subseteq Kept(g)
                        /\ at' = "encode" => filtered' \in Kept(cursor)
      BY <1>2, FilterHolds, <1>1 DEF Stepped
    <2>1. \A g \in DOMAIN filters : filters[g].held \subseteq Kept(g)
      BY <1>1 DEF LossInv, Stepped
    <2>2. filters'[cursor].held \subseteq Kept(cursor)
      <3>1. CASE FilterTakes
        <4>1. Passes(filters[cursor]) => frame \in Kept(cursor)
          BY <1>1, <3>1, GivenNext
        <4> QED BY <2>1, <3>1, <4>1, FilterExact
      <3>2. CASE ~FilterTakes
        BY <2>1, <3>2, FilterHolds
      <3> QED BY <3>1, <3>2
    <2>3. at' = "encode" => filtered' \in Kept(cursor)
      BY <1>1, <2>1, FilterExact
    <2> QED BY <2>1, <2>2, <2>3
  <1>12. NoneMissing'
    <2> SUFFICES ASSUME NEW i \in Current, Sound(i)'
                 PROVE  Seen(i)' = Wants(i)' \ AheadOfEncoder(i)'
      BY <1>2 DEF NoneMissing
    <2> DEFINE g == outputs[i].filterId
    <2>1. g = 0 \/ (g \in DOMAIN filters /\ g # 0)
      <3>1. (g = 0 \/ g \in DOMAIN filters) /\ 0 \notin DOMAIN filters
        BY FedFrom DEF IInv, Typed
      <3> QED BY <3>1
    <2>2. Seen(i)' = Seen(i) /\ decoder.ok
      BY DEF Seen, Sound
    <2>3. Wants(i)' = Wants(i)
      BY <1>2, <2>1 DEF Wants
    <2>4. g = cursor => FilterTakes \/ FilterGives
      <3> SUFFICES ASSUME g = cursor, FilterRefuses \/ FilterFails PROVE FALSE
        BY DEF FilterSteps
      <3>1. filters'[g].ok = FALSE
        BY FilterExact
      <3> QED BY <2>1, <3>1 DEF Sound, IInv, Typed
    <2>5. Sound(i)
      <3>1. g \in DOMAIN filters => filters'[g].ok = filters[g].ok
        BY <2>4, FilterExact
      <3> QED BY <2>1, <3>1 DEF Sound
    <2>6. Seen(i) = Wants(i) \ AheadOfEncoder(i)
      BY <1>1, <2>5 DEF LossInv, NoneMissing
    <2>7. CASE g = 0
      <3>1. AheadOfEncoder(i)' = AheadOfEncoder(i)
        BY <1>1, <2>7 DEF AheadOfEncoder
      <3> QED BY <2>2, <2>3, <2>6, <3>1
    <2>8. CASE g \in DOMAIN filters /\ g # 0 /\ g # cursor
      <3>1. AheadOfEncoder(i)' = AheadOfEncoder(i)
        <4>1. cursor' = cursor \/ at' = "filter"
          BY FilterHolds
        <4> QED BY <1>1, <1>8, <2>8, <4>1 DEF AheadOfEncoder
      <3> QED BY <2>2, <2>3, <2>6, <3>1
    <2>9. CASE g = cursor /\ g # 0 /\ FilterTakes
      <3>1. AheadOfEncoder(i) = decoder.held \cup {frame} \cup filters[cursor].held
        BY <1>1, <1>9, <2>9 DEF AheadOfEncoder
      <3>2. AheadOfEncoder(i)' = decoder.held \cup filters'[cursor].held
        <4>1. at' = "sink"
          BY <2>9, FilterExact, FilterHolds DEF FilterTakes, Goes
        <4> QED BY <1>9, <2>9, <4>1 DEF AheadOfEncoder
      <3>3. Passes(filters[cursor]) <=> frame \in Kept(cursor)
        BY <1>1, <2>2, <2>9, GivenNext
      <3>4. Wants(i) = Kept(cursor)
        BY <2>9 DEF Wants, Kept
      <3>5. filters'[cursor].held =
               IF Passes(filters[cursor]) THEN filters[cursor].held \cup {frame}
               ELSE filters[cursor].held
        BY <2>9, FilterExact
      <3> QED BY <2>2, <2>3, <2>6, <3>1, <3>2, <3>3, <3>4, <3>5
    <2>10. CASE g = cursor /\ g # 0 /\ FilterGives
      <3>1. AheadOfEncoder(i) = AheadOfFilter(cursor) \cup filters[cursor].held
        BY <1>1, <2>10 DEF AheadOfEncoder
      <3>2. i >= turn' /\ cursor' = cursor
        BY <1>1, <2>10, Ranges, FilterHolds DEF FilterGives
      <3>3. AheadOfEncoder(i)' =
               AheadOfFilter(cursor) \cup filters'[cursor].held \cup {filtered'}
        BY <1>1, <1>9, <2>10, <3>2 DEF AheadOfEncoder
      <3>4. filters'[cursor].held = filters[cursor].held \ {filtered'}
            /\ filtered' \in filters[cursor].held
        BY <2>10, FilterExact
      <3> QED BY <2>2, <2>3, <2>6, <3>1, <3>3, <3>4
    <2> QED BY <2>1, <2>4, <2>7, <2>8, <2>9, <2>10
  <1> QED BY <1>3, <1>4, <1>5, <1>6, <1>7, <1>10, <1>11, <1>12 DEF LossInv
-----------------------------------------------------------------------------
\* An output whose encoder did not fail has seen what it was given too, and a
\* drain has emptied it.
LEMMA EncodeKnown ==
    ASSUME IInv, NEW i \in DOMAIN outputs, NEW new \in SUBSET (1 .. packets),
           EncodeFrame(i, new)
    PROVE  /\ Len(outputs') = Len(outputs) /\ DOMAIN outputs' = DOMAIN outputs
           /\ \A j \in DOMAIN outputs : j # i => outputs'[j] = outputs[j]
           /\ outputs'[i].track = outputs[i].track
           /\ outputs'[i].filterId = outputs[i].filterId
           /\ outputs'[i].encoder = outputs[i].encoder
           /\ outputs'[i].phase = outputs[i].phase
           /\ outputs'[i].ok =>
                  /\ outputs[i].ok
                  /\ Seen(i)' = Seen(i) \cup new
                  /\ new = {} => outputs'[i].held = {}
  <1>1. outputs[i].held \subseteq 1 .. packets /\ outputs[i].ok \in BOOLEAN
    <2>1. outputs[i] \in OutputType
      BY DEF IInv, Typed
    <2> QED BY <2>1 DEF IInv, Bounds, Seen, OutputType
  <1>2. CASE EncoderWorks(i, new)
    <2> DEFINE taken == outputs[i].held \cup new
    <2>1. PICK out \in SUBSET taken :
             /\ new = {} => out = taken
             /\ Emits(i, taken, outputs[i].ok, out)
      BY <1>2 DEF EncoderWorks, Prefixes
    <2>2. taken \in SUBSET (1 .. packets)
      BY <1>1
    <2> HIDE DEF taken
    <2>3. /\ Len(outputs') = Len(outputs) /\ DOMAIN outputs' = DOMAIN outputs
          /\ \A j \in DOMAIN outputs : j # i => outputs'[j] = outputs[j]
          /\ outputs'[i].track = outputs[i].track
          /\ outputs'[i].filterId = outputs[i].filterId
          /\ outputs'[i].encoder = outputs[i].encoder
          /\ outputs'[i].phase = outputs[i].phase
          /\ outputs'[i].held = taken \ out
          /\ outputs'[i].sent = outputs[i].sent \cup out
          /\ outputs'[i].ok = outputs[i].ok
      BY <1>1, <2>1, <2>2, EmitsFacts
    <2> QED BY <2>1, <2>3 DEF Seen, taken
  <1>3. CASE EncoderFails(i, new)
    <2>1. PICK taken \in {outputs[i].held, outputs[i].held \cup new} :
             \E out \in SUBSET taken : Emits(i, taken, FALSE, out)
      BY <1>3 DEF EncoderFails, Prefixes
    <2>2. taken \in SUBSET (1 .. packets)
      BY <1>1, <2>1
    <2>3. PICK out \in SUBSET taken : Emits(i, taken, FALSE, out)
      BY <2>1
    <2> QED BY <2>2, <2>3, EmitsFacts
  <1> QED BY <1>2, <1>3 DEF EncodeFrame

\* The output whose turn it is gets a frame, or has none to get.
LEMMA ServeLoss ==
    ASSUME IInv, LossInv, at \in {"encode", "direct", "flush"},
           turn \in Current, turn' = turn + 1,
           UNCHANGED <<at, packets, first, decoder, filters, base, cursor, frame, filtered>>,
           NEW new \in SUBSET (1 .. packets),
           UNCHANGED outputs \/ (outputs[turn].encoder /\ EncodeFrame(turn, new)),
           NEW t, t = turn,
           Sound(t)' => Seen(t)' = Wants(t)' \ AheadOfEncoder(t)',
           at = "flush" /\ Sound(t)' => outputs'[t].held = {}
    PROVE  LossInv'
  <1>0. t \in DOMAIN outputs /\ t \in Nat /\ t > base /\ t \in Current
    BY Ranges
  <1>1. /\ Len(outputs') = Len(outputs) /\ DOMAIN outputs' = DOMAIN outputs
        /\ \A j \in DOMAIN outputs : j # t => outputs'[j] = outputs[j]
        /\ outputs'[t].track = outputs[t].track
        /\ outputs'[t].filterId = outputs[t].filterId
        /\ outputs'[t].encoder = outputs[t].encoder
        /\ outputs'[t].phase = outputs[t].phase
        /\ outputs' = outputs \/ outputs[t].encoder
    <2>1. CASE UNCHANGED outputs
      BY <2>1
    <2>2. CASE outputs[t].encoder /\ EncodeFrame(t, new)
      BY <1>0, <2>2, EncodeKnown
    <2> QED BY <2>1, <2>2
  <1>2. /\ Received' = Received /\ Current' = Current
        /\ \A i \in DOMAIN outputs : Track(i)' = Track(i)
        /\ \A g \in DOMAIN filters : AheadOfFilter(g)' = AheadOfFilter(g)
        /\ \A g \in DOMAIN filters : Kept(g)' = Kept(g)
    BY <1>1 DEF Received, Current, Track, AheadOfFilter, Kept
  <1>3. ShouldDecode' <=> ShouldDecode
    BY <1>2, Ranges DEF ShouldDecode
  <1>4. Turns' /\ FiltersUsed' /\ InSession' /\ Fed' /\ Stepped'
    <2>1. Turns'
      BY <1>0, Ranges DEF LossInv, Turns
    <2>2. FiltersUsed'
      BY <1>3 DEF LossInv, FiltersUsed
    <2>3. InSession'
      BY <1>2 DEF LossInv, InSession, Working
    <2>4. Fed'
      BY <1>2 DEF LossInv, Fed
    <2>5. Stepped'
      BY <1>2 DEF LossInv, Stepped, Kept
    <2> QED BY <2>1, <2>2, <2>3, <2>4, <2>5
  <1>5. PassedOn'
    <2> SUFFICES ASSUME NEW i \in Current, Track(i).passthrough
                 PROVE  outputs'[i].sent = Received
      BY <1>2, Ranges DEF PassedOn
    <2>1. outputs[i].sent = Received /\ i \in DOMAIN outputs
      BY Ranges DEF LossInv, PassedOn
    <2>2. outputs'[i] = outputs[i]
      BY <1>1, <2>1 DEF IInv, Roles
    <2> QED BY <2>1, <2>2
  <1>6. \A i \in Current : i # t => (Sound(i)' <=> Sound(i))
    BY <1>1, Ranges DEF Sound
  <1>7. NoneMissing'
    <2> SUFFICES ASSUME NEW i \in Current, Sound(i)', i # t
                 PROVE  Seen(i)' = Wants(i)' \ AheadOfEncoder(i)'
      BY <1>0, <1>2 DEF NoneMissing
    <2>1. /\ i \in DOMAIN outputs /\ outputs'[i] = outputs[i]
          /\ i \in Nat /\ turn \in Nat
      BY <1>1, Ranges
    <2>2. Seen(i)' = Seen(i) /\ Wants(i)' = Wants(i)
      BY <1>2, <2>1 DEF Seen, Wants
    <2>3. i >= turn' <=> i >= turn
      BY <2>1
    <2>4. outputs[i].filterId = 0 \/ outputs[i].filterId \in DOMAIN filters
      BY FedFrom DEF IInv
    <2>5. AheadOfEncoder(i)' = AheadOfEncoder(i)
      BY <1>2, <2>1, <2>3, <2>4 DEF AheadOfEncoder
    <2>6. Seen(i) = Wants(i) \ AheadOfEncoder(i)
      BY <1>6 DEF LossInv, NoneMissing
    <2> QED BY <2>2, <2>5, <2>6
  <1>8. Flushing'
    <2>1. at = "flush" /\ decoder.ok => decoder.held = {} \/ ~ShouldDecode
      BY DEF LossInv, Flushing
    <2>2. ASSUME NEW i \in Current, Sound(i)', at = "flush", i < turn'
          PROVE  outputs'[i].held = {}
      <3>1. CASE i = t
        BY <2>2, <3>1
      <3>2. CASE i # t
        <4>1. i < turn /\ Sound(i)
          BY <1>6, <2>2, <3>2, Ranges
        <4>2. outputs[i].held = {}
          BY <2>2, <4>1 DEF LossInv, Flushing
        <4> QED BY <1>1, <3>2, <4>2, Ranges
      <3> QED BY <3>1, <3>2
    <2> QED BY <1>2, <1>3, <2>1, <2>2 DEF Flushing
  <1>9. Closing'
    BY DEF Closing
  <1> QED BY <1>4, <1>5, <1>7, <1>8, <1>9 DEF LossInv

\* The three loops over the session's outputs.
LEMMA EncodeLoss ==
    ASSUME IInv, LossInv, EncodeFiltered \/ EncodeDirect \/ Flush
    PROVE  LossInv'
  <1>1. PICK t : t = turn
    OBVIOUS
  <1>2. /\ t \in Current /\ turn' = turn + 1 /\ t \in DOMAIN outputs /\ t \in Nat
        /\ UNCHANGED <<at, packets, first, decoder, filters, base, cursor, frame, filtered>>
        /\ at \in {"encode", "direct", "flush"}
    BY <1>1, Ranges DEF EncodeFiltered, EncodeDirect, Flush, ServeTurn
  <1>3. t >= turn /\ ~(t >= turn')
    BY <1>1, <1>2
  <1>4. Sound(t) => Seen(t) = Wants(t) \ AheadOfEncoder(t)
    BY <1>2 DEF LossInv, NoneMissing
  <1>5. outputs[t].filterId = 0 \/ outputs[t].filterId \in DOMAIN filters
    BY <1>2, FedFrom DEF IInv
  <1>6. ASSUME UNCHANGED outputs \/ outputs'[t].filterId = outputs[t].filterId
        PROVE  Wants(t)' = Wants(t)
    BY <1>2, <1>6 DEF Wants, Received
  <1>7. \A g \in DOMAIN filters : AheadOfFilter(g)' = AheadOfFilter(g)
    BY <1>2 DEF AheadOfFilter
  <1>8. \A new \in SUBSET (1 .. packets) : EncodeFrame(t, new) =>
           /\ outputs'[t].filterId = outputs[t].filterId
           /\ Sound(t)' => /\ Sound(t)
                           /\ Seen(t)' = Seen(t) \cup new
                           /\ new = {} => outputs'[t].held = {}
    <2> SUFFICES ASSUME NEW new \in SUBSET (1 .. packets), EncodeFrame(t, new)
                 PROVE  /\ outputs'[t].filterId = outputs[t].filterId
                        /\ Sound(t)' => /\ Sound(t)
                                        /\ Seen(t)' = Seen(t) \cup new
                                        /\ new = {} => outputs'[t].held = {}
      OBVIOUS
    <2>1. /\ outputs'[t].filterId = outputs[t].filterId
          /\ outputs'[t].encoder = outputs[t].encoder
          /\ outputs'[t].ok =>
                  /\ outputs[t].ok
                  /\ Seen(t)' = Seen(t) \cup new
                  /\ new = {} => outputs'[t].held = {}
      BY <1>2, EncodeKnown
    <2> QED BY <1>2, <2>1 DEF Sound
  <1>9. UNCHANGED outputs => (Sound(t)' <=> Sound(t)) /\ Seen(t)' = Seen(t)
    BY <1>2 DEF Sound, Seen
  <1>10. CASE EncodeFiltered
    <2>1. /\ at = "encode"
          /\ IF Filtered(outputs[t]) THEN EncodeFrame(t, {filtered}) ELSE UNCHANGED outputs
      BY <1>1, <1>10 DEF EncodeFiltered, ServeTurn
    <2>2. /\ {filtered} \in SUBSET (1 .. packets) /\ filtered \in Nat
          /\ cursor \in DOMAIN filters /\ cursor # 0
      BY <2>1 DEF IInv, InHand, Typed
    <2>3. CASE Filtered(outputs[t])
      <3>1. /\ EncodeFrame(t, {filtered}) /\ outputs[t].encoder
            /\ outputs[t].filterId = cursor
        BY <2>1, <2>3 DEF Filtered
      <3>2. outputs'[t].filterId = cursor
        BY <1>8, <2>2, <3>1
      <3>3. Sound(t)' => Seen(t)' = Wants(t)' \ AheadOfEncoder(t)'
        <4> SUFFICES ASSUME Sound(t)' PROVE Seen(t)' = Wants(t)' \ AheadOfEncoder(t)'
          OBVIOUS
        <4>1. Sound(t) /\ Seen(t)' = Seen(t) \cup {filtered}
          BY <1>8, <2>2, <3>1
        <4>2. filtered \in Wants(t)
          <5>1. filtered \in Kept(cursor)
            BY <2>1, <4>1 DEF LossInv, Stepped, Sound
          <5> QED BY <3>1, <5>1 DEF Kept, Wants
        <4>3. AheadOfEncoder(t) =
                 AheadOfFilter(cursor) \cup filters[cursor].held \cup {filtered}
          BY <1>3, <2>1, <2>2, <3>1 DEF AheadOfEncoder
        <4>4. AheadOfEncoder(t)' = AheadOfFilter(cursor) \cup filters[cursor].held
          BY <1>2, <1>3, <1>7, <2>1, <2>2, <3>2 DEF AheadOfEncoder
        <4>5. filtered \notin AheadOfFilter(cursor) \cup filters[cursor].held
          <5>1. Before({filtered}, filters[cursor].held \cup AheadOfFilter(cursor))
            BY <2>1 DEF IInv, InOrder
          <5> QED BY <2>2, <5>1 DEF Before
        <4> QED BY <1>4, <1>6, <3>1, <3>2, <4>1, <4>2, <4>3, <4>4, <4>5
      <3> QED BY <1>1, <1>2, <2>1, <2>2, <3>1, <3>3, ServeLoss
    <2>4. CASE ~Filtered(outputs[t])
      <3>1. UNCHANGED outputs
        BY <2>1, <2>4
      <3>2. Sound(t)' => Seen(t)' = Wants(t)' \ AheadOfEncoder(t)'
        <4> SUFFICES ASSUME Sound(t) PROVE Seen(t) = Wants(t) \ AheadOfEncoder(t)'
          BY <1>6, <1>9, <3>1
        <4>1. outputs[t].filterId # cursor
          BY <2>4 DEF Filtered, Sound
        <4>2. AheadOfEncoder(t)' = AheadOfEncoder(t)
          BY <1>2, <1>5, <1>7, <2>1, <3>1, <4>1 DEF AheadOfEncoder
        <4> QED BY <1>4, <4>2
      <3> QED BY <1>1, <1>2, <2>1, <2>2, <3>1, <3>2, ServeLoss
    <2> QED BY <2>3, <2>4
  <1>11. CASE EncodeDirect
    <2>1. /\ at = "direct"
          /\ IF Direct(outputs[t]) THEN EncodeFrame(t, {frame}) ELSE UNCHANGED outputs
      BY <1>1, <1>11 DEF EncodeDirect, ServeTurn
    <2>2. {frame} \in SUBSET (1 .. packets) /\ frame \in Nat
      BY <2>1 DEF IInv, InHand, Typed, Working
    <2>3. CASE Direct(outputs[t])
      <3>1. /\ EncodeFrame(t, {frame}) /\ outputs[t].encoder
            /\ outputs[t].filterId = 0
        BY <2>1, <2>3 DEF Direct
      <3>2. outputs'[t].filterId = 0
        BY <1>8, <2>2, <3>1
      <3>3. Sound(t)' => Seen(t)' = Wants(t)' \ AheadOfEncoder(t)'
        <4> SUFFICES ASSUME Sound(t)' PROVE Seen(t)' = Wants(t)' \ AheadOfEncoder(t)'
          OBVIOUS
        <4>1. Sound(t) /\ Seen(t)' = Seen(t) \cup {frame}
          BY <1>8, <2>2, <3>1
        <4>2. frame \in Wants(t)
          <5>1. frame \in Received
            BY <2>1, <4>1 DEF LossInv, InSession, Sound, Working
          <5> QED BY <3>1, <5>1 DEF Wants
        <4>3. AheadOfEncoder(t) = decoder.held \cup {frame}
          BY <1>3, <2>1, <3>1 DEF AheadOfEncoder
        <4>4. AheadOfEncoder(t)' = decoder.held
          BY <1>2, <1>3, <2>1, <3>2 DEF AheadOfEncoder
        <4>5. frame \notin decoder.held
          <5>1. Before({frame}, decoder.held)
            BY <2>1 DEF IInv, InOrder, Working
          <5> QED BY <2>2, <5>1 DEF Before
        <4> QED BY <1>4, <1>6, <3>1, <3>2, <4>1, <4>2, <4>3, <4>4, <4>5
      <3> QED BY <1>1, <1>2, <2>1, <2>2, <3>1, <3>3, ServeLoss
    <2>4. CASE ~Direct(outputs[t])
      <3>1. UNCHANGED outputs
        BY <2>1, <2>4
      <3>2. Sound(t)' => Seen(t)' = Wants(t)' \ AheadOfEncoder(t)'
        <4> SUFFICES ASSUME Sound(t) PROVE Seen(t) = Wants(t) \ AheadOfEncoder(t)'
          BY <1>6, <1>9, <3>1
        <4>1. outputs[t].filterId # 0
          BY <2>4 DEF Direct, Sound
        <4>2. AheadOfEncoder(t)' = AheadOfEncoder(t)
          BY <1>2, <1>5, <1>7, <2>1, <3>1, <4>1 DEF AheadOfEncoder
        <4> QED BY <1>4, <4>2
      <3> QED BY <1>1, <1>2, <2>1, <2>2, <3>1, <3>2, ServeLoss
    <2> QED BY <2>3, <2>4
  <1>12. CASE Flush
    <2>1. /\ at = "flush"
          /\ IF outputs[t].encoder THEN EncodeFrame(t, {}) ELSE UNCHANGED outputs
      BY <1>1, <1>12 DEF Flush, Encoded, ServeTurn
    <2>2. {} \in SUBSET (1 .. packets)
      OBVIOUS
    <2>3. CASE outputs[t].encoder
      <3>1. EncodeFrame(t, {}) /\ outputs'[t].filterId = outputs[t].filterId
        BY <1>8, <2>1, <2>2, <2>3
      <3>2. Sound(t)' => /\ Seen(t)' = Wants(t)' \ AheadOfEncoder(t)'
                         /\ outputs'[t].held = {}
        <4> SUFFICES ASSUME Sound(t)'
                     PROVE  /\ Seen(t)' = Wants(t)' \ AheadOfEncoder(t)'
                            /\ outputs'[t].held = {}
          OBVIOUS
        <4>1. Sound(t) /\ Seen(t)' = Seen(t) /\ outputs'[t].held = {}
          BY <1>8, <2>2, <3>1
        <4>2. AheadOfEncoder(t)' = AheadOfEncoder(t)
          BY <1>2, <1>5, <1>7, <2>1, <3>1 DEF AheadOfEncoder
        <4> QED BY <1>4, <1>6, <3>1, <4>1, <4>2
      <3> QED BY <1>1, <1>2, <2>1, <2>2, <2>3, <3>1, <3>2, ServeLoss
    <2>4. CASE ~outputs[t].encoder
      <3>1. UNCHANGED outputs /\ ~Sound(t)'
        BY <1>9, <2>1, <2>4 DEF Sound
      <3> QED BY <1>1, <1>2, <2>1, <2>2, <3>1, ServeLoss
    <2> QED BY <2>3, <2>4
  <1> QED BY <1>10, <1>11, <1>12
-----------------------------------------------------------------------------
\* An output is added while the session has no packet.
LEMMA NewOutputLoss ==
    ASSUME IInv, LossInv, at = "adding", AddDone,
           NEW o, outputs' = Append(outputs, o), o \in OutputType,
           o.held = {}, o.sent = {}, filters' \in Seq(FilterType),
           Len(filters) <= Len(filters'),
           filters' # filters => ~Tracks[o.track].passthrough,
           \A g \in DOMAIN filters : filters'[g] = filters[g],
           \A g \in DOMAIN filters' \ DOMAIN filters :
               filters'[g].held = {} /\ filters'[g].count = 0
    PROVE  LossInv'
  <1>1. /\ DOMAIN outputs' = 1 .. (Len(outputs) + 1)
        /\ Len(outputs') = Len(outputs) + 1
        /\ outputs'[Len(outputs) + 1] = o
        /\ \A i \in DOMAIN outputs : outputs'[i] = outputs[i]
    BY DEF IInv, Typed
  <1>2. /\ UNCHANGED <<at, packets, first, decoder, base>> /\ packets = first
        /\ at' = "adding" /\ ~Working /\ ~Working'
    BY DEF AddDone, LossInv, Turns, Working
  <1>3. Received = {} /\ Received' = {}
    BY <1>2, Ranges DEF Received
  <1>4. /\ Current' = Current \cup {Len(outputs) + 1}
        /\ \A i \in Current : i \in DOMAIN outputs
    BY <1>1, <1>2, Ranges DEF Current
  <1>5. Turns' /\ Flushing' /\ Closing'
    BY <1>2 DEF Turns, Flushing, Closing
  <1>6. FiltersUsed'
    <2>1. CASE filters' = filters
      <3> SUFFICES ASSUME ShouldDecode PROVE ShouldDecode'
        BY <2>1 DEF LossInv, FiltersUsed
      <3>1. PICK i \in Current : ~Track(i).passthrough
        BY DEF ShouldDecode
      <3> QED BY <1>1, <1>4, <3>1 DEF ShouldDecode, Track
    <2>2. CASE filters' # filters
      <3>1. PICK n \in Nat : n = Len(outputs) + 1
        BY Ranges
      <3>2. n \in Current' /\ ~Track(n)'.passthrough
        BY <1>1, <1>4, <2>2, <3>1 DEF Track
      <3>3. ShouldDecode'
        BY <3>2 DEF ShouldDecode
      <3> QED BY <3>3 DEF FiltersUsed
    <2> QED BY <2>1, <2>2
  <1>7. decoder.ok => decoder.held = {}
    BY <1>2, <1>3 DEF LossInv, InSession
  <1>8. InSession'
    BY <1>2, <1>7 DEF InSession
  <1>9. Fed'
    <2> SUFFICES ASSUME decoder.ok, NEW g \in DOMAIN filters'
                 PROVE  /\ filters'[g].count <= packets - first
                        /\ AheadOfFilter(g)' = (first + filters'[g].count + 1) .. packets
      BY <1>2 DEF Fed
    <2>1. AheadOfFilter(g)' = {}
      BY <1>2, <1>7 DEF AheadOfFilter
    <2>2. filters'[g].count \in Nat /\ packets \in Nat /\ first \in Nat
      <3>1. filters'[g] \in FilterType
        OBVIOUS
      <3> QED BY <3>1, Ranges DEF FilterType
    <2>3. filters'[g].count <= packets - first
      <3>1. CASE g \in DOMAIN filters
        BY <1>2, <3>1 DEF LossInv, Fed
      <3>2. CASE g \notin DOMAIN filters
        BY <1>2, <2>2, <3>2
      <3> QED BY <3>1, <3>2
    <2>4. (first + filters'[g].count + 1) .. packets = {}
      BY <1>2, <2>2
    <2> QED BY <2>1, <2>3, <2>4
  <1>10. Stepped'
    <2> SUFFICES ASSUME decoder.ok, NEW g \in DOMAIN filters'
                 PROVE  filters'[g].held \subseteq {}
      BY <1>2, <1>3 DEF Stepped
    <2>1. CASE g \in DOMAIN filters
      BY <1>2, <1>3, <2>1 DEF LossInv, Stepped, Kept
    <2>2. CASE g \notin DOMAIN filters
      BY <2>2
    <2> QED BY <2>1, <2>2
  <1>11. PassedOn'
    <2> SUFFICES ASSUME NEW i \in Current', Track(i)'.passthrough
                 PROVE  outputs'[i].sent = {}
      BY <1>3 DEF PassedOn
    <2>1. CASE i = Len(outputs) + 1
      BY <1>1, <2>1
    <2>2. CASE i \in Current
      BY <1>1, <1>2, <1>3, <1>4, <2>2 DEF LossInv, PassedOn, Track
    <2> QED BY <1>4, <2>1, <2>2
  <1>12. NoneMissing'
    <2> SUFFICES ASSUME NEW i \in Current', Sound(i)'
                 PROVE  Seen(i)' = Wants(i)' \ AheadOfEncoder(i)'
      BY DEF NoneMissing
    <2>1. Wants(i)' = {}
      BY <1>3 DEF Wants
    <2>2. CASE i = Len(outputs) + 1
      BY <1>1, <2>1, <2>2 DEF Seen
    <2>3. CASE i \in Current
      <3>1. /\ outputs'[i] = outputs[i]
            /\ outputs[i].filterId = 0 \/ outputs[i].filterId \in DOMAIN filters
        BY <1>1, <1>4, <2>3, FedFrom DEF IInv
      <3>2. Sound(i)
        BY <1>2, <3>1 DEF Sound
      <3>3. Seen(i) \subseteq Wants(i)
        BY <1>2, <2>3, <3>2 DEF LossInv, NoneMissing
      <3>4. Seen(i)' = {}
        BY <1>3, <3>1, <3>3 DEF Seen, Wants
      <3> QED BY <2>1, <3>4
    <2> QED BY <1>4, <2>2, <2>3
  <1> QED BY <1>5, <1>6, <1>8, <1>9, <1>10, <1>11, <1>12 DEF LossInv

\* transcode_session_add_output.
LEMMA AddsLoss ==
    ASSUME IInv, LossInv, AddPassthrough \/ AddTranscoded
    PROVE  LossInv'
  <1>1. at = "adding" /\ AddDone /\ cursor \in DOMAIN Tracks
    BY DEF AddPassthrough, AddTranscoded, AddStep
  <1>2. filters \in Seq(FilterType) /\ Len(filters) \in Nat
    BY DEF IInv, Typed
  <1>3. CASE AddPassthrough
    <2> DEFINE o == [NewOutput EXCEPT !.phase = "described"]
    <2>1. o \in OutputType /\ o.held = {} /\ o.sent = {}
      BY <1>1 DEF NewOutput, OutputType
    <2>2. outputs' = Append(outputs, o) /\ UNCHANGED filters
      BY <1>3 DEF AddPassthrough
    <2> HIDE DEF o
    <2> QED BY <1>1, <1>2, <2>1, <2>2, NewOutputLoss
  <1>4. CASE AddTranscoded
    <2> DEFINE config == FilterConfig(Tracks[cursor])
    <2>0. /\ ~Tracks[cursor].passthrough
          /\ ReuseFilter(config) \/ CreateFilter(config) \/ CreateFilterFails(config)
      BY <1>4 DEF AddTranscoded
    <2>00. config \in FilterConfigType
      BY <1>1, ConfigType
    <2> HIDE DEF config
    <2>1. ASSUME NEW id \in Nat, NEW cpu \in BOOLEAN, AddEncoded(id, cpu),
                 filters' \in Seq(FilterType), Len(filters) <= Len(filters'),
                 \A g \in DOMAIN filters : filters'[g] = filters[g],
                 \A g \in DOMAIN filters' \ DOMAIN filters :
                     filters'[g].held = {} /\ filters'[g].count = 0
          PROVE  LossInv'
      <3>1. PICK opens \in BOOLEAN :
               outputs' = Append(outputs,
                  [NewOutput EXCEPT !.filterId = id, !.cpu = cpu, !.encoder = opens,
                                    !.phase = IF opens THEN "described" ELSE "none"])
        BY <2>1 DEF AddEncoded
      <3> DEFINE phase == IF opens THEN "described" ELSE "none"
                 o == [NewOutput EXCEPT !.filterId = id, !.cpu = cpu,
                                        !.encoder = opens, !.phase = phase]
      <3>2. phase \in {"none", "described"} /\ outputs' = Append(outputs, o)
        BY <3>1
      <3> HIDE DEF phase
      <3>3. o \in OutputType /\ o.track = cursor /\ o.held = {} /\ o.sent = {}
        BY <1>1, <2>1, <3>2 DEF NewOutput, OutputType
      <3> HIDE DEF o
      <3> QED BY <1>1, <2>0, <2>1, <3>2, <3>3, NewOutputLoss
    <2>2. CASE ReuseFilter(config)
      <3>1. PICK id \in DOMAIN filters : AddEncoded(id, filters[Len(filters)].config.cpu)
        BY <2>2 DEF ReuseFilter
      <3>2. id \in Nat /\ id <= Len(filters) /\ UNCHANGED filters
        BY <1>2, <2>2, <3>1 DEF ReuseFilter
      <3>3. filters[Len(filters)] \in FilterType
        BY <1>2, <3>1
      <3>4. filters[Len(filters)].config.cpu \in BOOLEAN
        BY <3>3 DEF FilterType, FilterConfigType
      <3> QED BY <1>2, <2>1, <3>1, <3>2, <3>4
    <2>3. CASE CreateFilter(config)
      <3> DEFINE f == [config |-> config, count |-> 0, ok |-> TRUE, held |-> {}]
      <3>1. /\ f \in FilterType /\ f.held = {} /\ f.count = 0
            /\ filters' = Append(filters, f) /\ AddEncoded(Len(filters) + 1, config.cpu)
        BY <2>00, <2>3 DEF CreateFilter, FilterType
      <3> HIDE DEF f
      <3>2. /\ filters' \in Seq(FilterType) /\ Len(filters') = Len(filters) + 1
            /\ DOMAIN filters = 1 .. Len(filters)
            /\ DOMAIN filters' = 1 .. (Len(filters) + 1)
            /\ \A g \in DOMAIN filters : filters'[g] = filters[g]
            /\ filters'[Len(filters) + 1] = f
        BY <1>2, <3>1
      <3>3. \A g \in DOMAIN filters' \ DOMAIN filters :
               filters'[g].held = {} /\ filters'[g].count = 0
        BY <1>2, <3>1, <3>2
      <3>4. config.cpu \in BOOLEAN
        BY <2>00 DEF FilterConfigType
      <3> QED BY <1>2, <2>1, <3>1, <3>2, <3>3, <3>4
    <2>4. CASE CreateFilterFails(config)
      <3>1. PICK cpu \in BOOLEAN : AddEncoded(0, cpu)
        BY <2>4, Zenon DEF CreateFilterFails
      <3>2. UNCHANGED filters
        BY <2>4 DEF CreateFilterFails
      <3> QED BY <1>2, <2>1, <3>1, <3>2
    <2> QED BY <2>0, <2>2, <2>3, <2>4
  <1> QED BY <1>3, <1>4

\* A session starts: it has no output, no filter and no packet.
LEMMA ServeMediaInfoLoss ==
    ASSUME IInv, LossInv, ServeMediaInfo
    PROVE  LossInv'
  <1>1. /\ at' = "adding" /\ first' = packets /\ packets' = packets
        /\ filters' = <<>> /\ base' = Len(outputs)
        /\ outputs' = [i \in DOMAIN outputs |-> [outputs[i] EXCEPT !.held = {}]]
        /\ InitDecoder(peer # "closed")
    BY DEF ServeMediaInfo, SessionInit, SessionBegins, Goes
  <1>2. Len(outputs') = Len(outputs)
    <2>1. DOMAIN outputs' = 1 .. Len(outputs) /\ Len(outputs) \in Nat
      BY <1>1, Ranges
    <2> QED BY <2>1
  <1>3. Current' = {} /\ DOMAIN filters' = {}
    BY <1>1, <1>2, Ranges DEF Current
  <1>4. decoder'.ok => decoder'.held = {}
    <2>1. CASE decoder' = [described |-> TRUE, open |-> TRUE, draining |-> FALSE,
                           ok |-> TRUE, held |-> {}]
      BY <2>1
    <2>2. ASSUME NEW d, decoder' = [decoder EXCEPT !.described = d, !.ok = FALSE]
          PROVE  ~decoder'.ok
      BY <2>2 DEF IInv, Typed, DecoderType
    <2> QED BY <1>1, <2>1, <2>2 DEF InitDecoder
  <1>5. Turns' /\ FiltersUsed'
    BY <1>1 DEF Turns, FiltersUsed
  <1>6. InSession'
    BY <1>1, <1>4 DEF InSession, Working
  <1>7. Fed' /\ Stepped'
    BY <1>1, <1>3 DEF Fed, Stepped
  <1>8. PassedOn' /\ NoneMissing'
    BY <1>3 DEF PassedOn, NoneMissing
  <1>9. Flushing' /\ Closing'
    BY <1>1 DEF Flushing, Closing
  <1> QED BY <1>5, <1>6, <1>7, <1>8, <1>9 DEF LossInv

\* A packet: passthrough outputs are sent it, the decoder has it or has failed.
LEMMA ServeFrameLoss ==
    ASSUME IInv, LossInv, ServeFrame
    PROVE  LossInv'
  <1>1. /\ at = "body" /\ packets' = packets + 1
        /\ UNCHANGED <<first, filters, base>>
        /\ Passthrough(packets + 1)
        /\ \/ ShouldDecode /\ DecoderTakes(packets + 1)
           \/ ~ShouldDecode /\ at' = "read" /\ UNCHANGED decoder
    BY DEF ServeFrame, SendPacket, hands
  <1>2. at' \in {"read", "decode"} /\ ~Working /\ ~Working'
    BY <1>1 DEF DecoderTakes, Working
  <1>3. /\ Len(outputs') = Len(outputs) /\ DOMAIN outputs' = DOMAIN outputs
        /\ Current' = Current /\ \A i \in DOMAIN outputs : Track(i)' = Track(i)
        /\ ShouldDecode' = ShouldDecode
    <2>1. /\ Len(outputs') = Len(outputs) /\ DOMAIN outputs' = DOMAIN outputs
          /\ \A i \in DOMAIN outputs : outputs'[i].track = outputs[i].track
      BY <1>1, PassthroughFacts
    <2>2. Current' = Current
      BY <1>1, <2>1 DEF Current
    <2>3. \A i \in DOMAIN outputs : Track(i)' = Track(i)
      BY <2>1 DEF Track
    <2> QED BY <2>1, <2>2, <2>3, Ranges DEF ShouldDecode
  <1>4. \A i \in Current :
           IF Track(i).passthrough
           THEN outputs'[i].sent = outputs[i].sent \cup {packets + 1}
           ELSE outputs'[i] = outputs[i]
    <2> SUFFICES ASSUME NEW i \in Current
                 PROVE  IF Track(i).passthrough
                        THEN outputs'[i].sent = outputs[i].sent \cup {packets + 1}
                        ELSE outputs'[i] = outputs[i]
      OBVIOUS
    <2>1. i \in DOMAIN outputs /\ outputs[i] \in OutputType /\ packets + 1 \in Nat
      BY Ranges DEF IInv, Typed
    <2>2. CASE Track(i).passthrough
      <3>1. outputs'[i] = Passed(outputs[i], packets + 1)
        BY <1>1, <2>1, <2>2 DEF Passthrough, Passed
      <3>2. Passed(outputs[i], packets + 1).sent = outputs[i].sent \cup {packets + 1}
        BY <2>1, PassthroughType
      <3> QED BY <2>2, <3>1, <3>2
    <2>3. CASE ~Track(i).passthrough
      BY <1>1, <2>1, <2>3 DEF Passthrough
    <2> QED BY <2>2, <2>3
  <1>5. Received' = Received \cup {packets + 1} /\ packets + 1 \notin Received
    BY <1>1, Ranges DEF Received
  <1>6. decoder'.ok =>
           /\ decoder.ok
           /\ ShouldDecode => decoder'.held = decoder.held \cup {packets + 1}
           /\ ~ShouldDecode => decoder'.held = decoder.held
    <2>1. CASE ~ShouldDecode
      BY <1>1, <2>1
    <2>2. CASE ShouldDecode /\ DecoderTakes(packets + 1)
      <3>1. CASE decoder' = [decoder EXCEPT !.held = @ \cup {packets + 1}]
        BY <2>2, <3>1 DEF IInv, Typed, DecoderType
      <3>2. CASE decoder' = [decoder EXCEPT !.ok = FALSE]
        BY <3>2 DEF IInv, Typed, DecoderType
      <3>3. CASE ~decoder.ok /\ UNCHANGED decoder
        BY <3>3
      <3> QED BY <2>2, <3>1, <3>2, <3>3 DEF DecoderTakes
    <2> QED BY <1>1, <2>1, <2>2
  <1>7. Turns' /\ Flushing' /\ Closing'
    BY <1>2 DEF Turns, Flushing, Closing
  <1>8. FiltersUsed'
    BY <1>1, <1>3 DEF LossInv, FiltersUsed
  <1>9. InSession'
    BY <1>1, <1>2, <1>5, <1>6 DEF LossInv, InSession
  <1>10. Fed'
    <2> SUFFICES ASSUME decoder'.ok, NEW g \in DOMAIN filters
                 PROVE  /\ filters[g].count <= packets' - first
                        /\ AheadOfFilter(g)' = (first + filters[g].count + 1) .. packets'
      BY <1>1 DEF Fed
    <2>1. ShouldDecode
      <3>1. filters # <<>>
        OBVIOUS
      <3> QED BY <3>1 DEF LossInv, FiltersUsed
    <2>2. /\ filters[g].count <= packets - first
          /\ AheadOfFilter(g) = (first + filters[g].count + 1) .. packets
      BY <1>1, <1>6 DEF LossInv, Fed
    <2>3. /\ AheadOfFilter(g) = decoder.held
          /\ AheadOfFilter(g)' = decoder.held \cup {packets + 1}
      BY <1>1, <1>2, <1>6, <2>1 DEF AheadOfFilter
    <2>4. filters[g].count \in Nat
      <3>1. filters[g] \in FilterType
        BY DEF IInv, Typed
      <3> QED BY <3>1 DEF FilterType
    <2> QED BY <1>1, <2>2, <2>3, <2>4, Ranges
  <1>11. Stepped'
    BY <1>1, <1>2, <1>5, <1>6 DEF LossInv, Stepped, Kept
  <1>12. PassedOn'
    <2> SUFFICES ASSUME NEW i \in Current, Track(i).passthrough
                 PROVE  outputs'[i].sent = Received'
      BY <1>3, Ranges DEF PassedOn
    <2>1. outputs[i].sent = Received
      BY <1>1 DEF LossInv, PassedOn
    <2> QED BY <1>4, <1>5, <2>1
  <1>13. NoneMissing'
    <2> SUFFICES ASSUME NEW i \in Current, Sound(i)'
                 PROVE  Seen(i)' = Wants(i)' \ AheadOfEncoder(i)'
      BY <1>3 DEF NoneMissing
    <2>1. i \in DOMAIN outputs /\ ~Track(i).passthrough
      <3>1. CASE Track(i).passthrough
        <4>1. outputs'[i].encoder = outputs[i].encoder
          BY <1>1, Ranges, PassthroughFacts
        <4>2. ~outputs[i].encoder
          BY <3>1, Ranges DEF IInv, Roles
        <4> QED BY <4>1, <4>2 DEF Sound
      <3> QED BY <3>1, Ranges
    <2>2. outputs'[i] = outputs[i] /\ ShouldDecode
      BY <1>4, <2>1 DEF ShouldDecode
    <2>3. decoder'.ok /\ decoder.ok /\ decoder'.held = decoder.held \cup {packets + 1}
      BY <1>6, <2>2 DEF Sound
    <2>4. Sound(i)
      BY <1>1, <2>2, <2>3 DEF Sound
    <2>5. Seen(i) = Wants(i) \ AheadOfEncoder(i)
      BY <1>1, <2>4 DEF LossInv, NoneMissing
    <2>6. Seen(i)' = Seen(i)
      BY <2>2 DEF Seen
    <2>7. Wants(i) \subseteq Wants(i)' /\ Wants(i)' \subseteq Wants(i) \cup {packets + 1}
      BY <1>1, <1>5, <2>2 DEF Wants
    <2>8. packets + 1 \notin Wants(i)
      BY <1>5 DEF Wants
    <2>9. AheadOfEncoder(i)' = AheadOfEncoder(i) \cup {packets + 1}
      BY <1>1, <1>2, <2>2, <2>3 DEF AheadOfEncoder, AheadOfFilter
    <2> QED BY <2>5, <2>6, <2>7, <2>8, <2>9
  <1> QED BY <1>7, <1>8, <1>9, <1>10, <1>11, <1>12, <1>13 DEF LossInv

\* transcode_session_output_close ends the connection of the output whose turn
\* it is.
LEMMA CloseOutputLoss ==
    ASSUME IInv, LossInv, CloseOutput
    PROVE  LossInv'
  <1>1. /\ at = "closing" /\ at' = "closing" /\ turn \in DOMAIN outputs
        /\ turn' = turn + 1
        /\ UNCHANGED <<packets, first, decoder, filters, base>>
        /\ outputs' = [outputs EXCEPT
                          ![turn].phase = IF @ = "described" THEN "ended" ELSE @]
    BY DEF CloseOutput
  <1> DEFINE phase == IF outputs[turn].phase = "described" THEN "ended"
                      ELSE outputs[turn].phase
             closed == [outputs[turn] EXCEPT !.phase = phase]
  <1>2. outputs' = [outputs EXCEPT ![turn] = closed]
    BY <1>1
  <1>3. outputs \in Seq(OutputType) /\ outputs[turn] \in OutputType
    BY <1>1 DEF IInv, Typed
  <1>4. /\ closed.track = outputs[turn].track
        /\ closed.filterId = outputs[turn].filterId
        /\ closed.encoder = outputs[turn].encoder /\ closed.ok = outputs[turn].ok
        /\ closed.held = outputs[turn].held /\ closed.sent = outputs[turn].sent
        /\ closed.phase # "described"
    <2>1. phase # "described"
      OBVIOUS
    <2> HIDE DEF phase
    <2> QED BY <1>3, <2>1 DEF OutputType
  <1> HIDE DEF phase, closed
  <1>5. /\ Len(outputs') = Len(outputs) /\ DOMAIN outputs' = DOMAIN outputs
        /\ outputs'[turn] = closed
        /\ \A i \in DOMAIN outputs : i # turn => outputs'[i] = outputs[i]
    BY <1>1, <1>2, <1>3
  <1>6. \A i \in DOMAIN outputs :
           /\ outputs'[i].track = outputs[i].track
           /\ outputs'[i].filterId = outputs[i].filterId
           /\ outputs'[i].encoder = outputs[i].encoder /\ outputs'[i].ok = outputs[i].ok
           /\ outputs'[i].held = outputs[i].held /\ outputs'[i].sent = outputs[i].sent
    BY <1>4, <1>5
  <1>7. /\ Received' = Received /\ Current' = Current
        /\ \A i \in DOMAIN outputs : Track(i)' = Track(i)
        /\ ~Working /\ ~Working'
    BY <1>1, <1>5, <1>6 DEF Received, Current, Track, Working
  <1>8. ShouldDecode' <=> ShouldDecode
    BY <1>7, Ranges DEF ShouldDecode
  <1>9. \A i \in Current : Sound(i)' <=> Sound(i)
    BY <1>1, <1>6, Ranges DEF Sound
  <1>10. Turns' /\ FiltersUsed' /\ InSession'
    BY <1>1, <1>7, <1>8 DEF LossInv, Turns, FiltersUsed, InSession
  <1>11. Fed' /\ Stepped'
    BY <1>1, <1>7 DEF LossInv, Fed, Stepped, AheadOfFilter, Kept
  <1>12. PassedOn'
    BY <1>1, <1>6, <1>7, Ranges DEF LossInv, PassedOn
  <1>13. NoneMissing'
    <2> SUFFICES ASSUME NEW i \in Current, Sound(i)
                 PROVE  Seen(i)' = Wants(i)' \ AheadOfEncoder(i)'
      BY <1>7, <1>9 DEF NoneMissing
    <2>1. i \in DOMAIN outputs /\ Seen(i) = Wants(i) \ AheadOfEncoder(i)
      BY <1>1, Ranges DEF LossInv, NoneMissing
    <2>2. Seen(i)' = Seen(i) /\ Wants(i)' = Wants(i)
      BY <1>1, <1>6, <1>7, <2>1 DEF Seen, Wants
    <2>3. AheadOfEncoder(i)' = AheadOfEncoder(i)
      BY <1>1, <1>6, <2>1 DEF AheadOfEncoder, AheadOfFilter
    <2> QED BY <2>1, <2>2, <2>3
  <1>14. Flushing'
    BY <1>1, <1>6, <1>7, <1>8, <1>9, Ranges DEF LossInv, Flushing
  <1>15. Closing'
    <2> SUFFICES ASSUME NEW i \in DOMAIN outputs, i < turn + 1
                 PROVE  outputs'[i].phase # "described"
      BY <1>1, <1>5 DEF Closing
    <2>1. CASE i = turn
      BY <1>4, <1>5, <2>1
    <2>2. CASE i # turn
      <3>1. i < turn
        BY <2>2, Ranges
      <3>2. outputs[i].phase # "described"
        BY <1>1, <3>1 DEF LossInv, Closing
      <3> QED BY <1>5, <2>2, <3>2
    <2> QED BY <2>1, <2>2
  <1> QED BY <1>10, <1>11, <1>12, <1>13, <1>14, <1>15 DEF LossInv

\* The invariant is inductive.
LEMMA NextLoss == IInv /\ LossInv /\ [Next]_vars => LossInv'
  <1> SUFFICES ASSUME IInv, LossInv, [Next]_vars PROVE LossInv'
    OBVIOUS
  <1>1. CASE \/ ReadHeader \/ ReadNothing \/ PeerGoes \/ ServeConnect \/ ServeOther
             \/ SkipDisabled \/ AddOverruns \/ AllAdded \/ DecoderWaits
    BY <1>1, QuietLoss
  <1>2. CASE ServeMediaInfoExits \/ AddCrashes \/ Killed
    BY <1>2, DyingLoss
  <1>3. CASE ServeEos \/ ServeFrameFails
    BY <1>3, StartCloseLoss DEF ServeEos, ServeFrameFails
  <1>4. CASE ServeMediaInfo
    BY <1>4, ServeMediaInfoLoss
  <1>5. CASE ServeFrame
    BY <1>5, ServeFrameLoss
  <1>6. CASE AddPassthrough \/ AddTranscoded
    BY <1>6, AddsLoss
  <1>7. CASE DecoderGives \/ DecoderFails
    BY <1>7, DecoderGivesLoss, DecoderFailsLoss
  <1>8. CASE DecoderEnds \/ Flushed \/ ClosedAll
    BY <1>8, EndsLoss
  <1>9. CASE FilterSteps
    BY <1>9, FilterLoss
  <1>10. CASE FilterWaits \/ FiltersDone \/ EncodedFiltered \/ EncodedDirect
    BY <1>10, PassesOnLoss
  <1>11. CASE EncodeFiltered \/ EncodeDirect \/ Flush
    BY <1>11, EncodeLoss
  <1>12. CASE CloseOutput
    BY <1>12, CloseOutputLoss
  <1>13. CASE UNCHANGED vars
    <2> USE <1>13 DEF vars, sessionVars, stages, hands
    <2>1. /\ Received' = Received /\ Current' = Current /\ (Working' <=> Working)
          /\ (ShouldDecode' <=> ShouldDecode)
          /\ \A g \in DOMAIN filters : AheadOfFilter(g)' = AheadOfFilter(g)
          /\ \A g \in DOMAIN filters : Kept(g)' = Kept(g)
      BY DEF Received, Current, Working, ShouldDecode, Track, AheadOfFilter, Kept
    <2>2. \A i \in Current :
             /\ Sound(i)' <=> Sound(i)
             /\ Seen(i)' = Seen(i) /\ Wants(i)' = Wants(i)
             /\ AheadOfEncoder(i)' = AheadOfEncoder(i) /\ Track(i)' = Track(i)
      BY <2>1 DEF Sound, Seen, Wants, AheadOfEncoder, AheadOfFilter, Track
    <2>3. Turns' /\ FiltersUsed' /\ InSession'
      BY <2>1 DEF LossInv, Turns, FiltersUsed, InSession
    <2>4. Fed' /\ Stepped'
      BY <2>1 DEF LossInv, Fed, Stepped, Kept
    <2>5. PassedOn' /\ NoneMissing'
      BY <2>1, <2>2 DEF LossInv, PassedOn, NoneMissing
    <2>6. Flushing' /\ Closing'
      BY <2>1, <2>2 DEF LossInv, Flushing, Closing
    <2> QED BY <2>3, <2>4, <2>5, <2>6 DEF LossInv
  <1> QED BY <1>1, <1>2, <1>3, <1>4, <1>5, <1>6, <1>7, <1>8, <1>9, <1>10, <1>11, <1>12,
             <1>13 DEF Next, ThreadStep, SessionStep, FilterSteps
-----------------------------------------------------------------------------
(* While no call for its stages has failed, what an output has not seen of    *)
(* the session's frames is ahead of it, at every place the thread can be: the *)
(* frames a filter was given tell which one is next (transcode_filter_send),  *)
(* and a frame leaves a stage into the hands of the thread only.              *)
THEOREM LossInvariant == Spec => [](IInv /\ LossInv)
  BY InitInv, NextInv, InitLoss, NextLoss, PTL DEF Spec

(* Between packets every frame due to an output has been sent or is held by   *)
(* its encoder, whatever became of the other outputs, and a passthrough       *)
(* output has sent every packet (sendFrameToFilter, OnDecodedFrame,           *)
(* transcode_session_send_packet).                                            *)
THEOREM NothingIsLost == Spec => []NothingLost
  <1>1. ASSUME IInv, LossInv PROVE NothingLost
    <2> SUFFICES ASSUME Idle, NEW i \in Current, ~Track(i).passthrough, Sound(i)
                 PROVE  Seen(i) = Due(i)
      BY <1>1 DEF NothingLost, LossInv, PassedOn, Idle, Seen
    <2>1. at \in {"read", "closing", "done"}
      BY DEF Idle
    <2>2. Seen(i) = Wants(i) \ AheadOfEncoder(i)
      BY <1>1, <2>1 DEF LossInv, NoneMissing
    <2>3. CASE outputs[i].filterId = 0
      <3>1. AheadOfEncoder(i) = decoder.held /\ Wants(i) = Received
        BY <2>1, <2>3 DEF AheadOfEncoder, Wants
      <3> QED BY <2>2, <2>3, <3>1 DEF Due, Decoded
    <2>4. CASE outputs[i].filterId # 0
      <3> DEFINE f == filters[outputs[i].filterId]
      <3>1. AheadOfEncoder(i) = decoder.held \cup f.held
        BY <2>1, <2>4 DEF AheadOfEncoder, AheadOfFilter
      <3>2. Wants(i) = {n \in Received : (n - first - 1) % f.config.skip = 0}
        BY <2>4 DEF Wants
      <3>3. Due(i) = {n \in Received \ decoder.held :
                         (n - first - 1) % f.config.skip = 0} \ f.held
        BY <2>4 DEF Due, Decoded
      <3> QED BY <2>2, <3>1, <3>2, <3>3
    <2> QED BY <2>3, <2>4
  <1> QED BY <1>1, LossInvariant, PTL

(* When the session ends, what the decoder and the encoders held back has     *)
(* been sent before the connections end, and every connection that was        *)
(* opened ends (transcode_session_close, transcode_session_output_close).     *)
THEOREM FlushCompletes == Spec => []FlushIsComplete
  <1>1. LossInv => FlushIsComplete
    BY DEF LossInv, Flushing, Closing, FlushIsComplete
  <1> QED BY <1>1, LossInvariant, PTL
=============================================================================
