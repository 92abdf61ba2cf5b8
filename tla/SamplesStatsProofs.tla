------------------------- MODULE SamplesStatsProofs -------------------------
(***************************************************************************)
(* The byte count, the rate and the window of SamplesStats.tla for any     *)
(* ring size, duration, timestamps and sizes.                              *)
(***************************************************************************)
EXTENDS SamplesStats, TLAPS

\* No multiple of n lies strictly between 0 and n.
LEMMA NoMultiple ==
  ASSUME NEW n \in Nat, n > 0, NEW d \in Int
  PROVE  ~(0 < n * d /\ n * d < n)
<1>1. CASE d <= 0
  <2>1. n * d <= 0
    BY <1>1, Z3T(20)
  <2> QED
    BY <2>1, Z3
<1>2. CASE d >= 1
  <2>1. n * d >= n
    BY <1>2, Z3T(20)
  <2> QED
    BY <2>1, Z3
<1> QED
  BY <1>1, <1>2, Z3

\* The quotient and the remainder by which samples find their slot.
LEMMA Division ==
  ASSUME NEW n \in Nat, n > 0, NEW i \in Int
  PROVE  /\ i = n * (i \div n) + (i % n)
         /\ i \div n \in Int
         /\ i % n \in 0 .. n - 1
  BY Z3T(30)

\* Samples less than the size of the ring apart have different slots.
LEMMA DifferentSlots ==
  ASSUME NEW n \in Nat, n > 0, NEW i \in Nat, NEW j \in Nat, i < j, j - i < n
  PROVE  i % n # j % n
<1> DEFINE p == i \div n
           q == j \div n
           r == i % n
           s == j % n
<1>1. i = n * p + r /\ p \in Int /\ r \in Int
  BY Division, Z3
<1>2. j = n * q + s /\ q \in Int /\ s \in Int
  BY Division, Z3
<1> HIDE DEF p, q, r, s
<1>3. ASSUME r = s PROVE j - i = n * (q - p)
  BY <1>1, <1>2, <1>3, Z3T(30)
<1>4. ~(0 < n * (q - p) /\ n * (q - p) < n)
  BY <1>1, <1>2, NoMultiple
<1>5. r # s
  BY <1>3, <1>4, Z3
<1> QED
  BY <1>5 DEF r, s

\* The window starts at a sample once there is one.
Placed == /\ head >= 0 => tail >= 0
          /\ adding => head >= 0

\* The slots of the window hold its samples.
RingOK ==
    ~wrapped =>
        /\ head - tail < HISTORY_SIZE
        /\ \A i \in tail .. head : i >= 0 => InRing(i) = added[i]

IInv == TypeOK /\ Placed /\ RingOK /\ WindowSum

\* The slot of a sample is in the ring.
LEMMA SlotOf ==
  ASSUME NEW i \in Int
  PROVE  i % HISTORY_SIZE \in Slots
  BY Division, SamplesStatsAssumption DEF SamplesStatsAssumption, Slots

\* An index reduced to the ring is one of its slots.
LEMMA InRingType ==
  ASSUME TypeOK, NEW i \in Int
  PROVE  InRing(i) \in Slot
  BY SlotOf DEF TypeOK, InRing

\* The invariant holds at the start.
LEMMA InitIInv == Init => IInv
<1> SUFFICES ASSUME Init PROVE IInv
  OBVIOUS
<1> USE SamplesStatsAssumption DEF SamplesStatsAssumption, Init
<1>1. TypeOK
  <2>1. history \in [Slots -> Slot]
    BY DEF Slot
  <2>2. added \in [0 .. head -> Sample]
    BY DEF NoSamples
  <2>3. bitRate \in [bytes : Int, ticks : 1 .. PtsModulus]
    BY DEF NoRate
  <2>4. adding \in BOOLEAN /\ wrapped \in BOOLEAN
    OBVIOUS
  <2>5. head \in -1 .. MaxSamples - 1 /\ tail \in -1 .. head
    OBVIOUS
  <2>6. totalWindowSizeInBytes \in Int /\ bytesIn \in Nat /\ bytesOut \in Nat
    OBVIOUS
  <2> QED
    BY <2>1, <2>2, <2>3, <2>4, <2>5, <2>6 DEF TypeOK
<1>2. Placed /\ RingOK /\ WindowSum
  BY DEF Placed, RingOK, WindowSum
<1> QED
  BY <1>1, <1>2 DEF IInv

\* A sample is written to the slot after the latest.
LEMMA AddSampleStep ==
  ASSUME IInv, NEW s \in Sample, AddSample(s)
  PROVE  IInv'
<1> USE SamplesStatsAssumption DEF SamplesStatsAssumption
<1>1. /\ head' = head + 1 /\ head \in -1 .. MaxSamples - 2
      /\ tail' = IF head' = 0 THEN 0 ELSE tail
      /\ tail \in -1 .. head
      /\ head >= 0 => tail >= 0
  BY DEF AddSample, IInv, TypeOK, Placed
<1>2. tail' \in 0 .. head' /\ head' \in 0 .. MaxSamples - 1
  BY <1>1
<1>3. s \in Slot /\ s.frameSize \in Nat
  BY DEF Sample, Slot
<1>4. head' % HISTORY_SIZE \in Slots
  BY <1>2, SlotOf
<1>5. history' \in [Slots -> Slot] /\ history'[head' % HISTORY_SIZE] = s
  BY <1>3, <1>4 DEF AddSample, IInv, TypeOK
<1>6. added' \in [0 .. head' -> Sample]
  <2>1. ASSUME NEW i \in 0 .. head', i # head' PROVE added[i] \in Sample
    BY <1>1, <2>1 DEF IInv, TypeOK
  <2> QED
    BY <2>1 DEF AddSample
<1>7. TypeOK'
  <2>1. totalWindowSizeInBytes' \in Int /\ bytesIn' \in Nat
    BY <1>3 DEF AddSample, IInv, TypeOK
  <2>2. wrapped' \in BOOLEAN
    BY DEF AddSample
  <2>3. adding' \in BOOLEAN
    BY DEF AddSample
  <2>4. bitRate' \in [bytes : Int, ticks : 1 .. PtsModulus] /\ bytesOut' \in Nat
    BY DEF AddSample, IInv, TypeOK
  <2>5. tail' \in -1 .. head' /\ head' \in -1 .. MaxSamples - 1
    BY <1>2
  <2> QED
    BY <1>5, <1>6, <2>1, <2>2, <2>3, <2>4, <2>5 DEF TypeOK
<1>8. Placed'
  BY <1>2 DEF Placed
<1>9. ASSUME ~wrapped' PROVE ~wrapped /\ head' - tail' < HISTORY_SIZE
  <2>1. ~(wrapped \/ head' - tail' >= HISTORY_SIZE)
    BY <1>9 DEF AddSample
  <2>2. ~wrapped /\ ~(head' - tail' >= HISTORY_SIZE)
    BY <2>1, Zenon
  <2>3. head' \in Int /\ tail' \in Int
    BY <1>2
  <2>4. ~(head' - tail' >= HISTORY_SIZE)
    BY <2>2, Zenon
  <2>5. head' - tail' < HISTORY_SIZE
    <3>1. head' - tail' \in Int /\ HISTORY_SIZE \in Int
      BY <2>3
    <3>2. ASSUME NEW a \in Int, NEW b \in Int, ~(a >= b) PROVE a < b
      BY <3>2
    <3> QED
      BY <2>4, <3>1, <3>2, Zenon
  <2> QED
    BY <2>2, <2>5, Zenon
<1>10. RingOK'
  <2>1. ASSUME ~wrapped', NEW i \in tail' .. head'
        PROVE  history'[i % HISTORY_SIZE] = added'[i]
    <3>1. CASE i = head'
      BY <1>2, <1>5, <3>1 DEF AddSample
    <3>2. CASE i # head'
      <4>1. i \in tail .. head /\ i >= 0 /\ i < head' /\ head' - i < HISTORY_SIZE
        BY <1>1, <1>2, <1>9, <2>1, <3>2
      <4>2. i % HISTORY_SIZE # head' % HISTORY_SIZE
        <5>1. i \in Nat /\ head' \in Nat /\ HISTORY_SIZE \in Nat /\ HISTORY_SIZE > 0
          BY <1>2, <4>1
        <5> QED
          BY <4>1, <5>1, DifferentSlots
      <4>3. history'[i % HISTORY_SIZE] = history[i % HISTORY_SIZE]
        BY <4>1, <4>2, SlotOf DEF AddSample, IInv, TypeOK
      <4>4. added'[i] = added[i]
        BY <1>2, <2>1, <3>2, <4>1 DEF AddSample
      <4>5. history[i % HISTORY_SIZE] = added[i]
        BY <1>9, <2>1, <4>1 DEF IInv, RingOK, InRing
      <4> QED
        BY <4>3, <4>4, <4>5
    <3> QED
      BY <3>1, <3>2
  <2> QED
    BY <1>9, <2>1 DEF RingOK, InRing
<1>11. WindowSum'
  <2>1. ASSUME ~wrapped' PROVE totalWindowSizeInBytes' = bytesIn' - bytesOut'
    <3>1. totalWindowSizeInBytes = bytesIn - bytesOut
      BY <1>9, <2>1 DEF IInv, WindowSum
    <3> QED
      BY <1>3, <3>1 DEF AddSample, IInv, TypeOK
  <2> QED
    BY <2>1 DEF WindowSum
<1> QED
  BY <1>7, <1>8, <1>10, <1>11 DEF IInv

\* A sample that leaves the window is taken off the totals.
LEMMA DrainStep ==
  ASSUME IInv, Drain
  PROVE  IInv'
<1>1. /\ head \in 0 .. MaxSamples - 1 /\ head' = head
      /\ tail \in 0 .. head - 1 /\ tail' = tail + 1
  BY DEF Drain, IInv, TypeOK, Placed
<1>2. InRing(tail) \in Slot /\ InRing(tail).frameSize \in Nat
  BY <1>1, InRingType DEF IInv, Slot
<1>3. added[tail] \in Sample /\ added[tail].frameSize \in Nat
  <2>1. tail \in 0 .. head
    BY <1>1
  <2>2. added[tail] \in Sample
    BY <2>1 DEF IInv, TypeOK
  <2> QED
    BY <2>2, SamplesStatsAssumption DEF SamplesStatsAssumption, Sample
<1>4. TypeOK'
  BY <1>1, <1>2, <1>3 DEF Drain, IInv, TypeOK
<1>5. Placed'
  BY <1>1 DEF Drain, Placed
<1>6. RingOK'
  <2>1. ASSUME ~wrapped', NEW i \in tail' .. head', i >= 0
        PROVE  InRing(i)' = added'[i]
    <3>1. ~wrapped /\ history' = history /\ added' = added
      BY <2>1 DEF Drain
    <3>2. i \in tail .. head
      BY <1>1, <2>1
    <3>3. InRing(i) = added[i]
      BY <2>1, <3>1, <3>2 DEF IInv, RingOK
    <3> QED
      BY <3>1, <3>3 DEF InRing
  <2>2. ASSUME ~wrapped' PROVE head' - tail' < HISTORY_SIZE
    <3>1. head - tail < HISTORY_SIZE
      BY <2>2 DEF Drain, IInv, RingOK
    <3> QED
      BY <1>1, <3>1, SamplesStatsAssumption DEF SamplesStatsAssumption
  <2> QED
    BY <2>1, <2>2 DEF RingOK, InRing
<1>7. WindowSum'
  <2>1. ASSUME ~wrapped PROVE InRing(tail) = added[tail]
    BY <1>1, <2>1 DEF IInv, RingOK
  <2>2. ASSUME ~wrapped' PROVE totalWindowSizeInBytes' = bytesIn' - bytesOut'
    <3>1. ~wrapped /\ InRing(tail) = added[tail]
      BY <2>1, <2>2 DEF Drain
    <3>2. totalWindowSizeInBytes = bytesIn - bytesOut
      BY <3>1 DEF IInv, WindowSum
    <3> QED
      BY <1>2, <3>1, <3>2 DEF Drain, IInv, TypeOK
  <2> QED
    BY <2>2 DEF WindowSum
<1> QED
  BY <1>4, <1>5, <1>6, <1>7 DEF IInv

\* What is published are the window's totals.
LEMMA CalculateStep ==
  ASSUME IInv, NEW moved \in BOOLEAN, CalculateStats(moved)
  PROVE  IInv'
<1> DEFINE ticks == Ticks(InRing(tail).pts, InRing(head).pts)
<1>1. tail \in Int /\ head \in Int
  BY DEF IInv, TypeOK
<1>2. ticks \in 0 .. PtsModulus - 1
  <2>1. InRing(tail).pts \in Int /\ InRing(head).pts \in Int
    BY <1>1, InRingType DEF IInv, Slot
  <2> QED
    BY <2>1, Division, SamplesStatsAssumption DEF SamplesStatsAssumption, Ticks
<1>3. \/ bitRate' = [bytes |-> totalWindowSizeInBytes, ticks |-> ticks] /\ ticks > 0
      \/ bitRate' = bitRate
  BY DEF CalculateStats
<1> HIDE DEF ticks
<1>4. bitRate' \in [bytes : Int, ticks : 1 .. PtsModulus]
  BY <1>2, <1>3, SamplesStatsAssumption
     DEF SamplesStatsAssumption, IInv, TypeOK
<1>5. TypeOK'
  BY <1>4 DEF CalculateStats, IInv, TypeOK
<1>6. Placed' /\ RingOK' /\ WindowSum'
  BY DEF CalculateStats, IInv, Placed, RingOK, InRing, WindowSum
<1> QED
  BY <1>5, <1>6 DEF IInv

\* After a reset no sample is in the window.
LEMMA ResetStep ==
  ASSUME IInv, Reset
  PROVE  IInv'
<1> USE SamplesStatsAssumption DEF SamplesStatsAssumption, Reset
<1>1. TypeOK'
  <2>1. added' \in [0 .. head' -> Sample]
    BY DEF NoSamples
  <2>2. bitRate' \in [bytes : Int, ticks : 1 .. PtsModulus]
    BY DEF NoRate
  <2>3. history' \in [Slots -> Slot] /\ adding' \in BOOLEAN
    BY DEF IInv, TypeOK
  <2>4. wrapped' \in BOOLEAN
    OBVIOUS
  <2>5. head' \in -1 .. MaxSamples - 1 /\ tail' \in -1 .. head'
    OBVIOUS
  <2>6. totalWindowSizeInBytes' \in Int /\ bytesIn' \in Nat /\ bytesOut' \in Nat
    OBVIOUS
  <2> QED
    BY <2>1, <2>2, <2>3, <2>4, <2>5, <2>6 DEF TypeOK
<1>2. Placed' /\ RingOK' /\ WindowSum'
  BY DEF Placed, RingOK, WindowSum
<1> QED
  BY <1>1, <1>2 DEF IInv

\* The inductive invariant.
THEOREM Invariant == Spec => []IInv
<1>1. IInv /\ [Next]_vars => IInv'
  <2> SUFFICES ASSUME IInv, [Next]_vars PROVE IInv'
    OBVIOUS
  <2>1. CASE UNCHANGED vars
    BY <2>1 DEF vars, IInv, TypeOK, Placed, RingOK, InRing, WindowSum
  <2> QED
    BY <2>1, AddSampleStep, DrainStep, CalculateStep, ResetStep DEF Next
<1> QED
  BY InitIInv, <1>1, PTL DEF Spec

\* Every variable keeps its type.
THEOREM TypeCorrect == Spec => []TypeOK
<1>1. IInv => TypeOK
  BY DEF IInv
<1> QED
  BY <1>1, Invariant, PTL

\* The byte count is that of the samples in the window until one is overwritten
\* there.
THEOREM WindowCounted == Spec => []WindowSum
<1>1. IInv => WindowSum
  BY DEF IInv
<1> QED
  BY <1>1, Invariant, PTL
-----------------------------------------------------------------------------
(* The rate.  What has left the window is no more than what came in, because  *)
(* both are partial sums of the sizes.                                        *)

\* P[i] are the bytes of the samples before sample i.
PartialSums(P) ==
    /\ P \in [0 .. head + 1 -> Nat]
    /\ \A i \in 0 .. head : P[i + 1] = P[i] + added[i].frameSize
    /\ \A i, j \in 0 .. head + 1 : i <= j => P[i] <= P[j]
    /\ P[head + 1] = bytesIn
    /\ P[IF tail = -1 THEN 0 ELSE tail] = bytesOut

Summed == \E P : PartialSums(P)

RateInv == IInv /\ Summed /\ RateCounted

\* What is counted in the window is not negative and not more than came in.
LEMMA WindowBounded ==
  ASSUME IInv, Summed
  PROVE  bytesOut <= bytesIn /\ (~wrapped => totalWindowSizeInBytes \in 0 .. bytesIn)
<1>1. PICK P : PartialSums(P)
  BY DEF Summed
<1>2. /\ head \in -1 .. MaxSamples - 1 /\ tail \in -1 .. head
      /\ bytesIn \in Nat /\ bytesOut \in Nat
  BY DEF IInv, TypeOK
<1> DEFINE first == IF tail = -1 THEN 0 ELSE tail
<1>3. first \in 0 .. head + 1 /\ head + 1 \in 0 .. head + 1 /\ first <= head + 1
  BY <1>2, SamplesStatsAssumption DEF SamplesStatsAssumption
<1>4. P[first] <= P[head + 1]
  BY <1>1, <1>3 DEF PartialSums
<1>5. bytesOut <= bytesIn
  BY <1>1, <1>4 DEF PartialSums
<1>6. ASSUME ~wrapped PROVE totalWindowSizeInBytes \in 0 .. bytesIn
  BY <1>2, <1>5, <1>6 DEF IInv, WindowSum
<1> QED
  BY <1>5, <1>6

\* A new sample has a new partial sum.
LEMMA AddSampleSummed ==
  ASSUME IInv, Summed, NEW s \in Sample, AddSample(s)
  PROVE  Summed'
<1>1. PICK P : PartialSums(P)
  BY DEF Summed
<1>2. /\ head' = head + 1 /\ head \in -1 .. MaxSamples - 2
      /\ tail' = IF head' = 0 THEN 0 ELSE tail
      /\ tail \in -1 .. head /\ (head >= 0 => tail >= 0)
      /\ bytesIn \in Nat /\ bytesIn' = bytesIn + s.frameSize /\ bytesOut' = bytesOut
      /\ MaxSamples \in Nat
  BY SamplesStatsAssumption DEF SamplesStatsAssumption, AddSample, IInv, TypeOK, Placed
<1>3. s.frameSize \in Nat
  BY SamplesStatsAssumption DEF SamplesStatsAssumption, Sample
<1> DEFINE Q == [i \in 0 .. head + 2 |-> IF i = head + 2 THEN bytesIn' ELSE P[i]]
<1>4. /\ P \in [0 .. head + 1 -> Nat] /\ P[head + 1] = bytesIn
      /\ \A i \in 0 .. head : P[i + 1] = P[i] + added[i].frameSize
      /\ \A i, j \in 0 .. head + 1 : i <= j => P[i] <= P[j]
      /\ P[IF tail = -1 THEN 0 ELSE tail] = bytesOut
  BY <1>1 DEF PartialSums
<1>5. Q \in [0 .. head' + 1 -> Nat]
  BY <1>2, <1>3, <1>4
<1>6. /\ Q[head + 2] = bytesIn'
      /\ \A i \in 0 .. head + 1 : Q[i] = P[i]
  BY <1>2
<1> HIDE DEF Q
<1>7. ASSUME NEW i \in 0 .. head' PROVE Q[i + 1] = Q[i] + added'[i].frameSize
  <2>1. CASE i = head'
    <3>1. added'[i] = s
      BY <2>1 DEF AddSample
    <3> QED
      BY <1>2, <1>4, <1>6, <2>1, <3>1
  <2>2. CASE i # head'
    <3>1. i \in 0 .. head /\ i + 1 \in 0 .. head + 1 /\ i \in 0 .. head + 1
      BY <1>2, <2>2
    <3>2. added'[i] = added[i]
      BY <2>2 DEF AddSample
    <3> QED
      BY <1>4, <1>6, <3>1, <3>2
  <2> QED
    BY <2>1, <2>2
<1>8. ASSUME NEW i \in 0 .. head' + 1, NEW j \in 0 .. head' + 1, i <= j
      PROVE  Q[i] <= Q[j]
  <2>1. CASE j = head + 2 /\ i # head + 2
    <3>1. i \in 0 .. head + 1 /\ head + 1 \in 0 .. head + 1 /\ i <= head + 1
      BY <1>2, <2>1
    <3>2. P[i] <= bytesIn /\ P[i] \in Nat
      BY <1>4, <3>1
    <3> QED
      BY <1>2, <1>3, <1>6, <2>1, <3>1, <3>2
  <2>2. CASE j = head + 2 /\ i = head + 2
    BY <1>2, <1>3, <1>6, <2>2
  <2>3. CASE j # head + 2
    <3>1. i \in 0 .. head + 1 /\ j \in 0 .. head + 1
      BY <1>2, <1>8, <2>3
    <3> QED
      BY <1>4, <1>6, <1>8, <3>1
  <2> QED
    BY <2>1, <2>2, <2>3
<1>9. Q[IF tail' = -1 THEN 0 ELSE tail'] = bytesOut'
  <2>1. CASE head = -1
    <3>1. tail = -1 /\ tail' = 0 /\ 0 \in 0 .. head + 1
      BY <1>2, <2>1
    <3> QED
      BY <1>2, <1>4, <1>6, <3>1
  <2>2. CASE head >= 0
    <3>1. tail' = tail /\ tail >= 0 /\ tail \in 0 .. head + 1
      BY <1>2, <2>2
    <3> QED
      BY <1>2, <1>4, <1>6, <3>1
  <2> QED
    BY <1>2, <2>1, <2>2
<1>10. Q[head' + 1] = bytesIn'
  BY <1>2, <1>6
<1> QED
  BY <1>5, <1>7, <1>8, <1>9, <1>10 DEF Summed, PartialSums

\* To leave the window is to go to the next partial sum.
LEMMA DrainSummed ==
  ASSUME IInv, Summed, Drain
  PROVE  Summed'
<1>1. PICK P : PartialSums(P)
  BY DEF Summed
<1>2. /\ head \in 0 .. MaxSamples - 1 /\ head' = head
      /\ tail \in 0 .. head - 1 /\ tail' = tail + 1
  BY SamplesStatsAssumption DEF SamplesStatsAssumption, Drain, IInv, TypeOK, Placed
<1>3. P[tail + 1] = P[tail] + added[tail].frameSize /\ P[tail] = bytesOut
  <2>1. tail \in 0 .. head /\ tail # -1
    BY <1>2
  <2>2. \A i \in 0 .. head : P[i + 1] = P[i] + added[i].frameSize
    BY <1>1 DEF PartialSums
  <2>3. P[IF tail = -1 THEN 0 ELSE tail] = bytesOut
    BY <1>1 DEF PartialSums
  <2> QED
    BY <2>1, <2>2, <2>3
<1>4. P[IF tail' = -1 THEN 0 ELSE tail'] = bytesOut'
  BY <1>2, <1>3 DEF Drain
<1>5. PartialSums(P)'
  BY <1>1, <1>2, <1>4 DEF Drain, PartialSums
<1> QED
  BY <1>5 DEF Summed

\* The rate is computed from a window, and what came in only grows.
LEMMA RateStep ==
  ASSUME RateInv, IInv', [Next]_vars
  PROVE  RateInv'
<1> USE DEF RateInv
<1>1. CASE UNCHANGED vars
  BY <1>1 DEF vars, Summed, PartialSums, RateCounted
<1>2. ASSUME NEW s \in Sample, AddSample(s) PROVE RateInv'
  <2>1. Summed'
    BY <1>2, AddSampleSummed
  <2>2. s.frameSize \in Nat
    BY SamplesStatsAssumption DEF SamplesStatsAssumption, Sample
  <2>3. /\ bitRate' = bitRate /\ bytesIn' = bytesIn + s.frameSize
        /\ ~wrapped' => ~wrapped
    BY <1>2 DEF AddSample
  <2>4. RateCounted'
    BY <2>2, <2>3 DEF RateCounted, IInv, TypeOK
  <2> QED
    BY <2>1, <2>4
<1>3. CASE Drain
  <2>1. Summed'
    BY <1>3, DrainSummed
  <2>2. RateCounted'
    BY <1>3 DEF Drain, RateCounted
  <2> QED
    BY <2>1, <2>2
<1>4. ASSUME NEW moved \in BOOLEAN, CalculateStats(moved) PROVE RateInv'
  <2>1. UNCHANGED <<head, tail, added, bytesIn, bytesOut, wrapped>>
    BY <1>4 DEF CalculateStats
  <2>2. Summed'
    BY <2>1 DEF Summed, PartialSums
  <2>3. bitRate'.bytes \in {totalWindowSizeInBytes, bitRate.bytes}
    BY <1>4 DEF CalculateStats
  <2>4. RateCounted'
    BY <2>1, <2>3, WindowBounded DEF RateCounted
  <2> QED
    BY <2>2, <2>4
<1>5. CASE Reset
  <2>1. head' = -1 /\ tail' = -1 /\ bytesIn' = 0 /\ bytesOut' = 0
    BY <1>5 DEF Reset
  <2> DEFINE Q == [i \in 0 .. 0 |-> 0]
  <2>2. PartialSums(Q)'
    BY <2>1 DEF PartialSums
  <2>3. RateCounted'
    BY <1>5 DEF Reset, RateCounted, NoRate
  <2> QED
    BY <2>2, <2>3 DEF Summed
<1> QED
  BY <1>1, <1>2, <1>3, <1>4, <1>5 DEF Next

\* At the start nothing came in.
LEMMA InitRate == Init => Summed /\ RateCounted
<1> SUFFICES ASSUME Init PROVE Summed /\ RateCounted
  OBVIOUS
<1> DEFINE Q == [i \in 0 .. 0 |-> 0]
<1>1. PartialSums(Q)
  BY DEF Init, PartialSums
<1>2. RateCounted
  BY DEF Init, RateCounted, NoRate
<1> QED
  BY <1>1, <1>2 DEF Summed

\* The inductive invariant of the rate.
THEOREM RateInvariant == Spec => []RateInv
<1>1. Init => RateInv
  BY InitIInv, InitRate DEF RateInv
<1>2. RateInv /\ IInv' /\ [Next]_vars => RateInv'
  BY RateStep
<1> QED
  BY <1>1, <1>2, Invariant, PTL DEF Spec

\* The bytes a rate is computed from are among those that came in, as long as
\* no sample was overwritten in the window: calculate_stats never divides a
\* negative count.
THEOREM RatesCounted == Spec => []RateCounted
<1>1. RateInv => RateCounted
  BY DEF RateInv
<1> QED
  BY <1>1, RateInvariant, PTL
-----------------------------------------------------------------------------
(* The window.  A sample that has left it stays too old, and drain does not   *)
(* end before the sample at the tail is young enough.                         *)

WindowKept ==
    ~wrapped /\ Monotone =>
        /\ \A i \in 0 .. head :
               i < tail => added[head].pts - added[i].pts >= HISTORY_DURATION
        /\ ~adding /\ head >= 0 =>
               added[head].pts - added[tail].pts < HISTORY_DURATION

WindowInv == IInv /\ WindowKept

\* What is less than the modulus is its own remainder.
LEMMA SmallRemainder ==
  ASSUME NEW n \in Nat, n > 0, NEW d \in 0 .. n - 1
  PROVE  d % n = d
<1> DEFINE q == d \div n
           r == d % n
<1>1. d = n * q + r /\ q \in Int /\ r \in 0 .. n - 1
  BY Division, Z3
<1> HIDE DEF q, r
<1>2. ~(0 < n * q /\ n * q < n) /\ ~(0 < n * (-q) /\ n * (-q) < n)
  BY <1>1, NoMultiple
<1>3. n * (-q) = -(n * q) /\ n * q \in Int
  BY <1>1, Z3T(30)
<1>4. n * q = 0
  BY <1>1, <1>2, <1>3, Z3
<1>5. r = d
  BY <1>1, <1>4, Z3
<1> QED
  BY <1>5 DEF r

\* A sample's timestamp is one of the clock's.
LEMMA PtsOf ==
  ASSUME IInv, NEW i \in 0 .. head
  PROVE  added[i].pts \in 0 .. PtsModulus - 1
<1>1. added[i] \in Sample
  BY DEF IInv, TypeOK
<1> QED
  BY <1>1, SamplesStatsAssumption DEF SamplesStatsAssumption, Sample

\* While timestamps do not decrease the unsigned age is the age.
LEMMA Age ==
  ASSUME IInv, ~wrapped, Monotone, head >= 0
  PROVE  /\ tail \in 0 .. head
         /\ Ticks(InRing(tail).pts, InRing(head).pts) = added[head].pts - added[tail].pts
<1> USE SamplesStatsAssumption DEF SamplesStatsAssumption
<1>1. tail \in 0 .. head /\ head \in 0 .. head /\ head \in Int
  BY DEF IInv, TypeOK, Placed
<1>2. InRing(tail) = added[tail] /\ InRing(head) = added[head]
  BY <1>1 DEF IInv, RingOK
<1> DEFINE d == added[head].pts - added[tail].pts
<1>3. added[head].pts \in 0 .. PtsModulus - 1 /\ added[tail].pts \in 0 .. PtsModulus - 1
  BY <1>1, PtsOf
<1>4. added[tail].pts <= added[head].pts
  BY <1>1, <1>3 DEF Monotone
<1>5. d \in 0 .. PtsModulus - 1
  BY <1>3, <1>4
<1>6. d % PtsModulus = d
  BY <1>5, SmallRemainder
<1> QED
  BY <1>1, <1>2, <1>6 DEF Ticks

\* A later sample only makes the earlier ones older.
LEMMA AddSampleKept ==
  ASSUME WindowInv, IInv', NEW s \in Sample, AddSample(s)
  PROVE  WindowKept'
<1> USE SamplesStatsAssumption DEF SamplesStatsAssumption
<1>1. /\ head' = head + 1 /\ head \in -1 .. MaxSamples - 2
      /\ tail' = IF head' = 0 THEN 0 ELSE tail
      /\ adding' /\ (~wrapped' => ~wrapped)
  BY DEF AddSample, WindowInv, IInv, TypeOK
<1>2. \A i \in 0 .. head : added'[i] = added[i]
  BY <1>1 DEF AddSample
<1> SUFFICES ASSUME ~wrapped', Monotone', NEW i \in 0 .. head', i < tail'
             PROVE  added'[head'].pts - added'[i].pts >= HISTORY_DURATION
  BY <1>1 DEF WindowKept
<1>3. head >= 0 /\ tail' = tail /\ i < tail /\ i \in 0 .. head /\ head \in 0 .. head
  BY <1>1 DEF WindowInv, IInv, TypeOK
<1>4. Monotone
  <2> SUFFICES ASSUME NEW j \in 0 .. head, NEW k \in 0 .. head, j < k
               PROVE  added[j].pts <= added[k].pts
    BY DEF Monotone
  <2>1. j \in 0 .. head' /\ k \in 0 .. head'
    BY <1>1
  <2>2. added'[j].pts <= added'[k].pts
    BY <2>1 DEF Monotone
  <2> QED
    BY <1>2, <2>2
<1>5. added[head].pts - added[i].pts >= HISTORY_DURATION
  BY <1>1, <1>3, <1>4 DEF WindowInv, WindowKept
<1>6. added'[head].pts <= added'[head'].pts
  <2>1. head \in 0 .. head' /\ head' \in 0 .. head' /\ head < head'
    BY <1>1, <1>3
  <2> QED
    BY <2>1 DEF Monotone
<1>7. /\ added[head].pts \in Int /\ added[i].pts \in Int
      /\ added'[head'].pts \in Int
  <2>1. added[head].pts \in 0 .. PtsModulus - 1 /\ added[i].pts \in 0 .. PtsModulus - 1
    BY <1>3, PtsOf DEF WindowInv
  <2>2. added'[head'] = s
    BY <1>1, <1>3 DEF AddSample
  <2>3. s.pts \in Int
    <3>1. s \in [pts : Pts, frameSize : Sizes]
      BY DEF Sample
    <3>2. s.pts \in Pts
      BY <3>1
    <3>3. Pts \subseteq 0 .. PtsModulus - 1 /\ PtsModulus \in Nat
      BY SamplesStatsAssumption DEF SamplesStatsAssumption
    <3>4. s.pts \in 0 .. PtsModulus - 1
      BY <3>2, <3>3, Zenon
    <3> QED
      BY <3>3, <3>4
  <2> QED
    BY <2>1, <2>2, <2>3
<1>8. added'[head] = added[head] /\ added'[i] = added[i]
  BY <1>2, <1>3
<1> QED
  BY <1>5, <1>6, <1>7, <1>8

\* Only an old sample leaves the window.
LEMMA DrainKept ==
  ASSUME WindowInv, Drain
  PROVE  WindowKept'
<1>1. /\ head \in Int /\ head >= 0 /\ tail \in Int
      /\ adding /\ IsOld(tail) /\ tail' = tail + 1
      /\ UNCHANGED <<adding, head, added, wrapped>>
  BY DEF Drain, WindowInv, IInv, TypeOK, Placed
<1> SUFFICES ASSUME ~wrapped, Monotone, NEW i \in 0 .. head, i < tail + 1
             PROVE  added[head].pts - added[i].pts >= HISTORY_DURATION
  BY <1>1 DEF WindowKept, Monotone
<1>2. CASE i < tail
  BY <1>2 DEF WindowInv, WindowKept
<1>3. CASE i = tail
  BY <1>1, <1>3, Age DEF WindowInv, IsOld
<1> QED
  BY <1>1, <1>2, <1>3

\* drain ends at a sample that is not old, or at the latest one.
LEMMA CalculateKept ==
  ASSUME WindowInv, NEW moved \in BOOLEAN, CalculateStats(moved)
  PROVE  WindowKept'
<1> USE SamplesStatsAssumption DEF SamplesStatsAssumption
<1>1. /\ UNCHANGED <<head, tail, added, wrapped>>
      /\ tail = head \/ ~IsOld(tail)
  BY DEF CalculateStats
<1>2. ASSUME ~wrapped, Monotone, head >= 0
      PROVE  added[head].pts - added[tail].pts < HISTORY_DURATION
  <2>1. /\ tail \in 0 .. head /\ head \in 0 .. head
        /\ Ticks(InRing(tail).pts, InRing(head).pts)
             = added[head].pts - added[tail].pts
    <3>1. head \in Int /\ IInv
      BY DEF WindowInv, IInv, TypeOK
    <3>2. head \in 0 .. head
      BY <1>2, <3>1
    <3> QED
      BY <1>2, <3>1, <3>2, Age, Zenon
  <2>2. added[head].pts \in 0 .. PtsModulus - 1 /\ added[tail].pts \in 0 .. PtsModulus - 1
    BY <2>1, PtsOf DEF WindowInv
  <2>3. CASE tail = head
    BY <2>2, <2>3
  <2>4. CASE ~IsOld(tail)
    BY <2>1, <2>2, <2>4 DEF IsOld
  <2> QED
    BY <1>1, <2>3, <2>4
<1> QED
  BY <1>1, <1>2 DEF WindowInv, WindowKept, Monotone

\* The inductive invariant of the window.
THEOREM WindowInvariant == Spec => []WindowInv
<1>1. Init => WindowInv
  <2>1. Init => WindowKept
    BY DEF Init, WindowKept
  <2> QED
    BY <2>1, InitIInv DEF WindowInv
<1>2. WindowInv /\ IInv' /\ [Next]_vars => WindowInv'
  <2> SUFFICES ASSUME WindowInv, IInv', [Next]_vars PROVE WindowKept'
    BY DEF WindowInv
  <2>1. CASE UNCHANGED vars
    BY <2>1 DEF vars, WindowInv, WindowKept, Monotone
  <2>2. CASE Reset
    BY <2>2 DEF Reset, WindowKept
  <2> QED
    BY <2>1, <2>2, AddSampleKept, DrainKept, CalculateKept DEF Next
<1> QED
  BY <1>1, <1>2, Invariant, PTL DEF Spec

\* While timestamps do not decrease and none is overwritten there, the window
\* is the samples of the last HISTORY_DURATION, no more and no fewer.
THEOREM WindowIsExact == Spec => []WindowExact
<1>1. WindowInv => WindowExact
  <2> SUFFICES ASSUME WindowInv, ~adding, ~wrapped, Monotone, NEW i \in 0 .. head
               PROVE  i >= tail <=> added[head].pts - added[i].pts < HISTORY_DURATION
    BY DEF WindowExact
  <2> USE SamplesStatsAssumption DEF SamplesStatsAssumption
  <2>1. head >= 0 /\ head \in 0 .. head /\ tail \in 0 .. head
    BY DEF WindowInv, IInv, TypeOK, Placed
  <2>2. /\ added[head].pts \in 0 .. PtsModulus - 1
        /\ added[tail].pts \in 0 .. PtsModulus - 1
        /\ added[i].pts \in 0 .. PtsModulus - 1
    BY <2>1, PtsOf DEF WindowInv
  <2>3. ASSUME i < tail PROVE added[head].pts - added[i].pts >= HISTORY_DURATION
    BY <2>3 DEF WindowInv, WindowKept
  <2>4. ASSUME i >= tail PROVE added[head].pts - added[i].pts < HISTORY_DURATION
    <3>1. added[head].pts - added[tail].pts < HISTORY_DURATION
      BY <2>1 DEF WindowInv, WindowKept
    <3>2. added[tail].pts <= added[i].pts
      BY <2>1, <2>2, <2>4 DEF Monotone
    <3> QED
      BY <2>2, <3>1, <3>2
  <2> QED
    BY <2>1, <2>2, <2>3, <2>4
<1> QED
  BY <1>1, WindowInvariant, PTL
=============================================================================
