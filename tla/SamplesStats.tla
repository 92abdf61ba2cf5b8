---------------------------- MODULE SamplesStats ----------------------------
(***************************************************************************)
(* The statistics every receiver, codec and output of the transcoder keeps *)
(* of its samples (utils/samples_stats.c): a ring of the last HISTORY_SIZE *)
(* samples, a window into it of the last HISTORY_DURATION, and the bytes   *)
(* in that window, from which the bit rate is computed.  One thread adds.  *)
(*                                                                         *)
(* The one loop of samples_stats_add, drain, is a step per iteration.      *)
(***************************************************************************)
EXTENDS Integers

CONSTANTS HISTORY_SIZE,
          HISTORY_DURATION,  \* in ticks of the 90 kHz clock
          Pts,               \* timestamps of samples
          Sizes,             \* their sizes in bytes
          PtsModulus,        \* 2^64: subtraction of timestamps is unsigned
          MaxSamples         \* bound on the samples between two resets

ASSUME SamplesStatsAssumption ==
    /\ HISTORY_SIZE \in Nat \ {0}
    /\ PtsModulus \in Nat \ {0}
    /\ HISTORY_DURATION \in 1 .. PtsModulus
    /\ Pts \subseteq 0 .. PtsModulus - 1
    /\ Sizes \subseteq Nat
    /\ MaxSamples \in Nat

VARIABLES
    adding,    \* samples_stats_add is in drain
    head,      \* number of the last sample, -1 if none
    tail,      \* number of the first sample of the window
    history,   \* the ring
    totalWindowSizeInBytes,
    bitRate,   \* the bytes and the ticks currentBitRate was computed from
    added,     \* ghost: the samples since sample_stats_init, by number
    bytesIn,   \* ghost: their sizes
    bytesOut,  \* ghost: the sizes of those that left the window
    wrapped    \* ghost: a sample was overwritten while in the window

vars == <<adding, head, tail, history, totalWindowSizeInBytes, bitRate, added,
          bytesIn, bytesOut, wrapped>>

Slots == 0 .. HISTORY_SIZE - 1
Slot == [pts : 0 .. PtsModulus - 1, frameSize : Nat]
Sample == [pts : Pts, frameSize : Sizes]

NoSamples == [i \in {} |-> 0]
NoRate == [bytes |-> 0, ticks |-> 1]

\* All statistics are parts of static objects, zero before sample_stats_init.
Init ==
    /\ adding = FALSE
    /\ head = -1 /\ tail = -1
    /\ history = [i \in Slots |-> [pts |-> 0, frameSize |-> 0]]
    /\ totalWindowSizeInBytes = 0
    /\ bitRate = NoRate
    /\ added = NoSamples
    /\ bytesIn = 0 /\ bytesOut = 0
    /\ wrapped = FALSE

\* Mutant of Reset: head keeps its number.
ResetKeepsHead ==
    /\ ~adding
    /\ tail' = -1
    /\ totalWindowSizeInBytes' = 0
    /\ bitRate' = NoRate
    /\ added' = NoSamples
    /\ bytesIn' = 0 /\ bytesOut' = 0
    /\ wrapped' = FALSE
    /\ UNCHANGED <<adding, head, history>>

\* sample_stats_init again, when a codec is opened anew; the ring keeps what it
\* had.
Reset ==
    /\ ~adding
    /\ head' = -1 /\ tail' = -1
    /\ totalWindowSizeInBytes' = 0
    /\ bitRate' = NoRate
    /\ added' = NoSamples
    /\ bytesIn' = 0 /\ bytesOut' = 0
    /\ wrapped' = FALSE
    /\ UNCHANGED <<adding, history>>

InRing(i) == history[i % HISTORY_SIZE]

\* uint64_t arithmetic.
Ticks(from, to) == (to - from) % PtsModulus
-----------------------------------------------------------------------------
\* Mutant of AddSample: the size of the sample is not counted.
AddSampleUncounted(s) ==
    /\ ~adding
    /\ head + 1 < MaxSamples
    /\ adding' = TRUE
    /\ head' = head + 1
    /\ tail' = IF head' = 0 THEN 0 ELSE tail
    /\ history' = [history EXCEPT ![head' % HISTORY_SIZE] = s]
    /\ added' = [i \in 0 .. head' |-> IF i = head' THEN s ELSE added[i]]
    /\ bytesIn' = bytesIn + s.frameSize
    /\ wrapped' = (wrapped \/ head' - tail' >= HISTORY_SIZE)
    /\ UNCHANGED <<totalWindowSizeInBytes, bitRate, bytesOut>>

\* The sample goes into the ring, over whatever is in its slot.
AddSample(s) ==
    /\ ~adding
    /\ head + 1 < MaxSamples
    /\ adding' = TRUE
    /\ head' = head + 1
    /\ tail' = IF head' = 0 THEN 0 ELSE tail
    /\ history' = [history EXCEPT ![head' % HISTORY_SIZE] = s]
    /\ totalWindowSizeInBytes' = totalWindowSizeInBytes + s.frameSize
    /\ added' = [i \in 0 .. head' |-> IF i = head' THEN s ELSE added[i]]
    /\ bytesIn' = bytesIn + s.frameSize
    /\ wrapped' = (wrapped \/ head' - tail' >= HISTORY_SIZE)
    /\ UNCHANGED <<bitRate, bytesOut>>

\* Mutant of IsOld: a sample of exactly that age stays.
IsOldLater(i) == Ticks(InRing(i).pts, InRing(head).pts) > HISTORY_DURATION

\* drain goes on while the sample at the tail is old by the newest one's clock.
IsOld(i) == Ticks(InRing(i).pts, InRing(head).pts) >= HISTORY_DURATION

Drain ==
    /\ adding
    /\ tail < head
    /\ IsOld(tail)
    /\ totalWindowSizeInBytes' = totalWindowSizeInBytes - InRing(tail).frameSize
    /\ tail' = tail + 1
    /\ bytesOut' = bytesOut + added[tail].frameSize
    /\ UNCHANGED <<adding, head, history, bitRate, added, bytesIn, wrapped>>

\* calculate_stats: the rate changes if the samples differ in pts and the clock
\* has moved between them.
CalculateStats(clockMoved) ==
    /\ adding
    /\ tail = head \/ ~IsOld(tail)
    /\ adding' = FALSE
    /\ LET ticks == Ticks(InRing(tail).pts, InRing(head).pts) IN
       bitRate' = IF tail # head /\ ticks > 0 /\ clockMoved
                  THEN [bytes |-> totalWindowSizeInBytes, ticks |-> ticks]
                  ELSE bitRate
    /\ UNCHANGED <<head, tail, history, totalWindowSizeInBytes, added, bytesIn,
                   bytesOut, wrapped>>

Next ==
    \/ \E s \in Sample : AddSample(s)
    \/ Drain
    \/ \E clockMoved \in BOOLEAN : CalculateStats(clockMoved)
    \/ Reset

Spec == Init /\ [][Next]_vars
-----------------------------------------------------------------------------
\* The variables have their types.
TypeOK ==
    /\ adding \in BOOLEAN
    /\ head \in -1 .. MaxSamples - 1
    /\ tail \in -1 .. head
    /\ history \in [Slots -> Slot]
    /\ totalWindowSizeInBytes \in Int
    /\ bitRate \in [bytes : Int, ticks : 1 .. PtsModulus]
    /\ added \in [0 .. head -> Sample]
    /\ bytesIn \in Nat /\ bytesOut \in Nat
    /\ wrapped \in BOOLEAN

\* The bytes of the window are those of the samples that came in and have not
\* left it, in whatever order timestamps come, as long as no sample was
\* overwritten in the window.
WindowSum == ~wrapped => totalWindowSizeInBytes = bytesIn - bytesOut

Monotone == \A i, j \in 0 .. head : i < j => added[i].pts <= added[j].pts

\* While timestamps do not decrease and no sample is overwritten in the window,
\* the window is exactly the samples of the last HISTORY_DURATION.
WindowExact ==
    ~adding /\ ~wrapped /\ Monotone =>
        \A i \in 0 .. head :
            i >= tail <=> added[head].pts - added[i].pts < HISTORY_DURATION

\* The bytes a rate was computed from are among those that came in.
RateCounted == ~wrapped => bitRate.bytes \in 0 .. bytesIn
=============================================================================
