-------------------------- MODULE TranscoderProofs --------------------------
(***************************************************************************)
(* The composition of Transcoder.tla, for any file, any number of buffers  *)
(* and of SIGINTs.  Each step of it is, for each of the three parts, a     *)
(* step of that part or none (BufferSteps, StreamerSteps, LoggerSteps say  *)
(* which), and only the death of the process by SIGPIPE is not one of      *)
(* Diagnostics; so what DiagnosticsProofs shows of the buffers carries     *)
(* over.                                                                   *)
(***************************************************************************)
EXTENDS Transcoder, DiagnosticsProofs, FiniteSetTheorems, SequenceTheorems

-----------------------------------------------------------------------------
(* What a step of the transcoder is to each of its parts.                     *)

Dies == /\ main' = "exited" /\ http' = "killed"
        /\ UNCHANGED <<tmpBuf, oldDiag, lastDiagnsotics, live, locker, listening,
                       source, interrupts>>

\* To the buffers every step is one of Diagnostics, or the end of the process.
LEMMA BufferSteps ==
  ASSUME [TNext]_tVars
  PROVE  [Next]_vars \/ Dies
<1> USE DEF Next, MainStep, HttpStep
<1>1. CASE UNCHANGED tVars
  BY <1>1 DEF tVars
<1>2. CASE Main
  BY <1>2 DEF Main, OpenReceiver, AllocateStreamer, StartStreamer, StartHttp,
              AcceptStreamer, GiveUpAccepting, Publish, LogPublished, FinishClient,
              StopAll, JoinStreamer, FreeStreamer, ExitProcess
<1>3. CASE Signal \/ Handler
  BY <1>3 DEF Signal, Handler, HandlerLogs, HandlerStops, HandlerCloses
<1>4. CASE Streamer
  BY <1>4 DEF Streamer, SetLevel, Announce, Stream
<1>5. CASE Sigpipe
  BY <1>5 DEF Sigpipe, Dies
<1>6. CASE HttpAnswers
  BY <1>6 DEF HttpAnswers
<1>7. ASSUME NEW c \in Callers, LogSteps(c) PROVE UNCHANGED vars
  BY <1>7 DEF LogSteps, EnterLog, LeaveLog
<1> QED
  BY <1>1, <1>2, <1>3, <1>4, <1>5, <1>6, <1>7 DEF TNext

\* Nobody but its own thread moves the streamer, once it is created.
StreamerStays == UNCHANGED <<streamer, pos, basePts, lastDts, duration>>

Created == /\ fileStreamer = "allocated" /\ fileStreamer' = "started"
           /\ StreamerMoves("none", "created")
           /\ stop' = FALSE
           /\ UNCHANGED <<conn, pos, basePts, lastDts, duration>>

StreamerMoved == \/ LowerLevel \/ OpenInput \/ OpenFails \/ RestoreLevel
                 \/ Connect(listening) \/ ConnectFails(listening) \/ StreamerLoop

\* The structure is allocated, started, joined and freed in this order; it is
\* started where the thread is created and joined where the thread is done.
StructureMoved ==
    \/ fileStreamer = "null" /\ fileStreamer' = "allocated"
    \/ fileStreamer = "started" /\ fileStreamer' = "running"
    \/ fileStreamer = "running" /\ fileStreamer' = "joined" /\ streamer = "done"
    \/ fileStreamer = "joined" /\ fileStreamer' = "freed"
    \/ fileStreamer = "freed" /\ fileStreamer' = "cleared"

LEMMA StreamerSteps ==
  ASSUME [TNext]_tVars
  PROVE  \/ Created
         \/ StreamerMoved /\ UNCHANGED fileStreamer
         \/ StreamerStays /\ (StructureMoved \/ UNCHANGED fileStreamer)
<1> USE DEF StreamerStays, StreamerKeeps, streamerVars
<1>1. CASE UNCHANGED tVars
  BY <1>1 DEF tVars
<1>2. CASE StartStreamer
  BY <1>2 DEF StartStreamer, Created
<1>3. CASE OpenReceiver \/ GiveUpAccepting \/ Publish \/ LogPublished \/ ExitProcess
  BY <1>3 DEF OpenReceiver, GiveUpAccepting, Publish, LogPublished, ExitProcess
<1>4. CASE AcceptStreamer \/ FinishClient \/ StopAll
  BY <1>4 DEF AcceptStreamer, FinishClient, StopAll
<1>5. CASE AllocateStreamer \/ StartHttp \/ JoinStreamer \/ FreeStreamer
  BY <1>5 DEF AllocateStreamer, StartHttp, JoinStreamer, FreeStreamer, StructureMoved
<1>6. CASE Signal \/ Handler
  BY <1>6 DEF Signal, Handler, HandlerLogs, HandlerStops, HandlerCloses
<1>7. CASE Streamer
  BY <1>7 DEF Streamer, SetLevel, Announce, Stream, StreamerMoved
<1>8. CASE Sigpipe \/ HttpAnswers
  BY <1>8 DEF Sigpipe, HttpAnswers
<1>9. ASSUME NEW c \in Callers, LogSteps(c)
      PROVE StreamerStays /\ UNCHANGED fileStreamer
  BY <1>9 DEF LogSteps, EnterLog, LeaveLog
<1> QED
  BY <1>1, <1>2, <1>3, <1>4, <1>5, <1>6, <1>7, <1>8, <1>9 DEF TNext, Main

\* The thread runs only while its structure is started: before that it does not
\* exist, and before the structure is freed it is done.
StreamerPlaced ==
    /\ fileStreamer \in FileStreamers
    /\ fileStreamer \in {"null", "allocated"} => streamer = "none"
    /\ fileStreamer \in {"joined", "freed", "cleared"} => streamer = "done"

LEMMA StreamerPlacedStep ==
  ASSUME StreamerPlaced, [TNext]_tVars
  PROVE  StreamerPlaced'
<1> USE DEF StreamerPlaced, FileStreamers
<1>1. CASE Created
  BY <1>1 DEF Created
<1>2. CASE StreamerStays /\ (StructureMoved \/ UNCHANGED fileStreamer)
  BY <1>2 DEF StreamerStays, StructureMoved
<1>3. CASE StreamerMoved /\ UNCHANGED fileStreamer
  <2>1. streamer \notin {"none", "done"}
    BY <1>3 DEF StreamerMoved, LowerLevel, OpenInput, OpenFails, RestoreLevel, Connect,
                ConnectFails, StreamerLoop, StartAgain, SkipPacket, SendPacket,
                DurationReached, SeeStop, SendEof, StreamerMoves, Streaming
  <2> QED
    BY <1>3, <2>1
<1> QED
  BY <1>1, <1>2, <1>3, StreamerSteps

\* The HTTP thread does not log before it exists.
Quiet ==
    /\ log \in [Callers -> {"out", "waits", "in"}]
    /\ fileStreamer \in {"null", "allocated", "started"} => log["http"] = "out"

LEMMA QuietStep ==
  ASSUME StreamerPlaced, Quiet, [TNext]_tVars
  PROVE  Quiet'
<1> USE DEF Quiet, StreamerPlaced, FileStreamers, Callers, logVars
<1>1. CASE UNCHANGED tVars
  BY <1>1 DEF tVars
<1>2. CASE StartHttp
  BY <1>2 DEF StartHttp
<1>3. CASE LogPublished \/ FinishClient
  BY <1>3 DEF LogPublished, FinishClient, LogCalled
<1>4. CASE OpenReceiver \/ AcceptStreamer \/ GiveUpAccepting \/ Publish \/ StopAll
           \/ ExitProcess
  BY <1>4 DEF OpenReceiver, AcceptStreamer, GiveUpAccepting, Publish, StopAll,
              ExitProcess
<1>5. CASE AllocateStreamer \/ StartStreamer \/ JoinStreamer \/ FreeStreamer
  BY <1>5 DEF AllocateStreamer, StartStreamer, JoinStreamer, FreeStreamer
<1>6. CASE Signal \/ Handler
  BY <1>6 DEF Signal, Handler, HandlerLogs, HandlerStops, HandlerCloses, LogCalled,
              LogAwakes
<1>7. CASE Streamer
  BY <1>7 DEF Streamer, SetLevel, Announce, Stream, LogInit, LogCalled
<1>8. CASE Sigpipe \/ HttpAnswers
  BY <1>8 DEF Sigpipe, HttpAnswers, LogCalled
<1>9. ASSUME NEW c \in Callers, LogSteps(c) PROVE Quiet'
  BY <1>9 DEF LogSteps, EnterLog, LeaveLog, LogEnters, LogLeaves
<1> QED
  BY <1>1, <1>2, <1>3, <1>4, <1>5, <1>6, <1>7, <1>8, <1>9 DEF TNext, Main

\* To the logger a step is that somebody calls it, enters or leaves, or that the
\* lock is initialised; the HTTP thread's first line is called where it begins.
BothCalled ==
    /\ log["main"] = "out" /\ log["http"] = "out"
    /\ log' = [log EXCEPT !["main"] = "waits", !["http"] = "waits"]
    /\ UNCHANGED <<owner, count, lost, torn>>

LEMMA LoggerSteps ==
  ASSUME Quiet, [TNext]_tVars
  PROVE  \/ UNCHANGED logVars \/ LogInit \/ LogAwakes \/ BothCalled
         \/ \E c \in Callers : LogCalled(c) \/ LogEnters(c) \/ LogLeaves(c)
<1> USE DEF Callers
<1>1. CASE UNCHANGED tVars
  BY <1>1 DEF tVars
<1>2. CASE StartHttp
  BY <1>2 DEF StartHttp, MainRuns, BothCalled, Quiet
<1>3. CASE LogPublished \/ FinishClient
  BY <1>3 DEF LogPublished, FinishClient
<1>4. CASE OpenReceiver \/ AllocateStreamer \/ StartStreamer \/ AcceptStreamer
           \/ GiveUpAccepting \/ Publish \/ StopAll \/ JoinStreamer \/ FreeStreamer
           \/ ExitProcess
  BY <1>4 DEF OpenReceiver, AllocateStreamer, StartStreamer, AcceptStreamer,
              GiveUpAccepting, Publish, StopAll, JoinStreamer, FreeStreamer, ExitProcess
<1>5. CASE Signal \/ Handler
  BY <1>5 DEF Signal, Handler, HandlerLogs, HandlerStops, HandlerCloses
<1>6. CASE Streamer
  BY <1>6 DEF Streamer, SetLevel, Announce, Stream
<1>7. CASE Sigpipe \/ HttpAnswers
  BY <1>7 DEF Sigpipe, HttpAnswers
<1>8. ASSUME NEW c \in Callers, LogSteps(c) PROVE LogEnters(c) \/ LogLeaves(c)
  BY <1>8 DEF LogSteps, EnterLog, LeaveLog
<1> QED
  BY <1>1, <1>2, <1>3, <1>4, <1>5, <1>6, <1>7, <1>8 DEF TNext, Main
-----------------------------------------------------------------------------
(* The diagnostics buffers.                                                   *)

\* What holds of the buffers in Diagnostics holds in the transcoder.
LEMMA BuffersKept ==
  ASSUME IInv, [TNext]_tVars
  PROVE  IInv'
<1>1. CASE [Next]_vars
  BY <1>1, TypeStep, AccountedStep, RememberedStep, FreshStep, ExcludedStep DEF IInv
<1>2. CASE Dies
  <2>1. TypeOK'
    BY <1>2 DEF Dies, IInv, TypeOK, MainPlaces, HttpPlaces
  <2>2. Accounted' /\ Remembered' /\ Fresh' /\ Excluded'
    BY <1>2 DEF Dies, IInv, TypeOK, Accounted, Remembered, Fresh, Excluded
  <2> QED
    BY <2>1, <2>2 DEF IInv
<1> QED
  BY <1>1, <1>2, BufferSteps
-----------------------------------------------------------------------------
(* The file streamer's locals.                                                *)

\* The locals of the thread's loop have their types.
LocalsOK == /\ streamer \in StreamerPlaces
            /\ pos \in 0 .. Len(File) /\ basePts \in Int /\ lastDts \in Int
            /\ duration \in Durations

\* The packet that is read next is one of the file.
LEMMA PacketType ==
  ASSUME pos \in 0 .. Len(File), pos < Len(File)
  PROVE  /\ pos + 1 \in 1 .. Len(File)
         /\ Packet \in [stream : Nat, pts : Int, dts : Int]
<1>1. File \in Seq([stream : Nat, pts : Int, dts : Int])
  BY FileAssumption DEF FileAssumption
<1>2. /\ Len(File) \in Nat
      /\ File \in [1 .. Len(File) -> [stream : Nat, pts : Int, dts : Int]]
  BY <1>1, LenProperties
<1>3. pos + 1 \in 1 .. Len(File)
  BY <1>2
<1> QED
  BY <1>2, <1>3 DEF Packet

LEMMA LocalsStep ==
  ASSUME LocalsOK, [TNext]_tVars
  PROVE  LocalsOK'
<1> USE DEF LocalsOK
<1>0. Len(File) \in Nat
  BY FileAssumption DEF FileAssumption
<1>1. CASE Created
  BY <1>1 DEF Created, StreamerMoves, StreamerPlaces
<1>2. CASE StreamerStays
  BY <1>2 DEF StreamerStays
<1>3. CASE LowerLevel \/ OpenInput \/ OpenFails \/ RestoreLevel \/ Connect(listening)
           \/ ConnectFails(listening) \/ SendEof
  BY <1>3 DEF LowerLevel, OpenInput, OpenFails, RestoreLevel, Connect, ConnectFails,
              SendEof, StreamerMoves, StreamerPlaces
<1>4. CASE StartAgain \/ SkipPacket
  BY <1>0, <1>4 DEF StartAgain, SkipPacket
<1>5. CASE SendPacket
  <2>1. pos < Len(File) /\ Packet \in [stream : Nat, pts : Int, dts : Int]
    BY <1>5, PacketType DEF SendPacket
  <2> QED
    BY <1>0, <1>5, <2>1 DEF SendPacket
<1>6. CASE DurationReached \/ SeeStop
  BY <1>0, <1>6 DEF DurationReached, SeeStop, LoopLeft, StreamerMoves, StreamerPlaces
<1> QED
  BY <1>1, <1>2, <1>3, <1>4, <1>5, <1>6, StreamerSteps DEF StreamerMoved, StreamerLoop

\* The stop flag is a flag and the connection one of the known ones.
SharedOK == stop \in BOOLEAN /\ conn \in Connections

LEMMA SharedStep ==
  ASSUME SharedOK, [TNext]_tVars
  PROVE  SharedOK'
<1> USE DEF SharedOK, Connections, StreamerKeeps, streamerVars
<1>1. CASE UNCHANGED tVars
  BY <1>1 DEF tVars
<1>2. CASE OpenReceiver \/ GiveUpAccepting \/ Publish \/ LogPublished \/ ExitProcess
           \/ StartHttp \/ JoinStreamer \/ FreeStreamer
  BY <1>2 DEF OpenReceiver, GiveUpAccepting, Publish, LogPublished, ExitProcess,
              StartHttp, JoinStreamer, FreeStreamer
<1>3. CASE AllocateStreamer \/ StartStreamer \/ AcceptStreamer \/ FinishClient
  BY <1>3 DEF AllocateStreamer, StartStreamer, AcceptStreamer, FinishClient
<1>4. CASE StopAll \/ Signal \/ Handler
  <2>1. StopStreamer => stop' \in BOOLEAN
    BY DEF StopStreamer
  <2>2. ResetPending => conn' \in Connections
    BY DEF ResetPending
  <2> QED
    BY <1>4, <2>1, <2>2 DEF StopAll, Signal, Handler, HandlerLogs, HandlerStops,
                            HandlerCloses
<1>5. CASE Streamer
  BY <1>5 DEF Streamer, SetLevel, Announce, Stream, LowerLevel, RestoreLevel, OpenInput,
              OpenFails, Connect, ConnectFails, StreamerLoop, StartAgain, SkipPacket,
              SendPacket, DurationReached, SeeStop, SendEof
<1>6. CASE Sigpipe \/ HttpAnswers
  BY <1>6 DEF Sigpipe, HttpAnswers
<1>7. ASSUME NEW c \in Callers, LogSteps(c) PROVE UNCHANGED streamerVars
  BY <1>7 DEF LogSteps, EnterLog, LeaveLog
<1> QED
  BY <1>1, <1>2, <1>3, <1>4, <1>5, <1>6, <1>7 DEF TNext, Main
-----------------------------------------------------------------------------
(* The logger.                                                                *)

Inside == {c \in Callers : log[c] = "in"}

\* Those inside on the thread that owns the lock.
InsideAsOwner == {c \in Inside : Thread(c) = owner}

\* However often the lock was initialised, its count is at most that of its owner's
\* callers inside, and it is free when the count is 0.
CountOK ==
    /\ log \in [Callers -> {"out", "waits", "in"}]
    /\ owner \in {"none", "main", "http", "streamer"}
    /\ count \in Nat
    /\ count <= Cardinality(InsideAsOwner)
    /\ owner = "none" <=> count = 0
    /\ lost \subseteq Callers /\ torn \in BOOLEAN

LEMMA CallersFinite ==
  /\ IsFiniteSet(Callers)
  /\ \A S \in SUBSET Callers : IsFiniteSet(S) /\ Cardinality(S) \in Nat
<1>1. IsFiniteSet(Callers)
  <2>1. Callers = ((({} \cup {"main"}) \cup {"handler"}) \cup {"http"}) \cup {"streamer"}
    BY DEF Callers
  <2> QED
    BY <2>1, FS_EmptySet, FS_AddElement
<1> QED
  BY <1>1, FS_Subset, FS_CardinalityType

\* A thread has at most two callers: the main thread and the handler.
LEMMA AtMostTwo ==
  ASSUME owner # "none"
  PROVE  Cardinality(InsideAsOwner) <= 2
<1> DEFINE Pair == IF owner = "main" THEN {"main", "handler"} ELSE {owner, "main"}
<1>1. InsideAsOwner \subseteq Pair
  BY DEF InsideAsOwner, Inside, Callers, Thread
<1>2. IsFiniteSet(Pair) /\ Cardinality(Pair) = 2
  <2>1. ASSUME NEW a, NEW b, a # b
        PROVE  IsFiniteSet({a, b}) /\ Cardinality({a, b}) = 2
    <3>1. IsFiniteSet({a}) /\ Cardinality({a}) = 1
      BY FS_Singleton
    <3>2. {a, b} = {a} \cup {b} /\ b \notin {a}
      BY <2>1
    <3> QED
      BY <3>1, <3>2, FS_AddElement
  <2> QED
    BY <2>1
<1> HIDE DEF Pair
<1> QED
  BY <1>1, <1>2, FS_Subset

\* One of a set of callers more, and one less.
LEMMA OneMore ==
  ASSUME NEW S \in SUBSET Callers, NEW c \in Callers, c \notin S
  PROVE  Cardinality(S \cup {c}) = Cardinality(S) + 1
  BY CallersFinite, FS_AddElement

LEMMA OneLess ==
  ASSUME NEW S \in SUBSET Callers, NEW c \in S
  PROVE  Cardinality(S \ {c}) = Cardinality(S) - 1
  BY CallersFinite, FS_RemoveElement

\* Whoever enters is added to those inside.
LEMMA EntersInside ==
  ASSUME CountOK, NEW c \in Callers, LogEnters(c)
  PROVE  /\ c \notin Inside /\ Inside' = Inside \cup {c}
         /\ InsideAsOwner' = {d \in Inside : Thread(d) = Thread(c)} \cup {c}
<1>1. Inside' = Inside \cup {c} /\ c \notin Inside
  BY DEF CountOK, LogEnters, Inside
<1>2. owner' = Thread(c)
  BY DEF LogEnters
<1> QED
  BY <1>1, <1>2 DEF InsideAsOwner

LEMMA LeavesInside ==
  ASSUME CountOK, NEW c \in Callers, LogLeaves(c)
  PROVE  c \in Inside /\ Inside' = Inside \ {c}
  BY DEF CountOK, LogLeaves, Inside

\* Who calls, waits or is woken is not inside.
LEMMA OthersInside ==
  ASSUME CountOK, \/ UNCHANGED logVars \/ LogAwakes \/ BothCalled
                  \/ \E c \in Callers : LogCalled(c)
  PROVE  Inside' = Inside /\ UNCHANGED <<owner, count, torn>>
<1>1. CASE UNCHANGED logVars \/ LogAwakes
  BY <1>1 DEF logVars, LogAwakes, Inside
<1>2. CASE BothCalled
  BY <1>2 DEF BothCalled, CountOK, Inside, Callers
<1>3. CASE \E c \in Callers : LogCalled(c)
  BY <1>3 DEF LogCalled, CountOK, Inside
<1> QED
  BY <1>1, <1>2, <1>3

\* The lock and its log keep their types, and the count its bound.
LEMMA CountStep ==
  ASSUME Quiet, CountOK, [TNext]_tVars
  PROVE  CountOK'
<1>0. \A S \in SUBSET Callers : Cardinality(S) \in Nat
  BY CallersFinite
<1>1. CASE \/ UNCHANGED logVars \/ LogAwakes \/ BothCalled
           \/ \E c \in Callers : LogCalled(c)
  <2>1. Inside' = Inside /\ UNCHANGED <<owner, count, torn>>
    BY <1>1, OthersInside
  <2>2. /\ log' \in [Callers -> {"out", "waits", "in"}]
        /\ lost' \subseteq Callers
    BY <1>1 DEF CountOK, logVars, LogAwakes, BothCalled, LogCalled
  <2>3. InsideAsOwner' = InsideAsOwner
    BY <2>1 DEF InsideAsOwner
  <2> QED
    BY <2>1, <2>2, <2>3 DEF CountOK
<1>2. CASE LogInit
  <2>1. Cardinality(InsideAsOwner') \in Nat
    BY <1>0 DEF InsideAsOwner, Inside
  <2> QED
    BY <1>2, <2>1 DEF LogInit, CountOK
<1>3. ASSUME NEW c \in Callers, LogEnters(c) PROVE CountOK'
  <2> DEFINE Before == {d \in Inside : Thread(d) = Thread(c)}
  <2>1. /\ c \notin Inside /\ InsideAsOwner' = Before \cup {c}
    BY <1>3, EntersInside
  <2>2. Before \in SUBSET Callers /\ c \notin Before
    BY <2>1 DEF Inside
  <2>3. Cardinality(InsideAsOwner') = Cardinality(Before) + 1
    BY <2>1, <2>2, OneMore
  <2>4. count <= Cardinality(Before)
    <3>1. CASE owner = "none"
      BY <1>0, <2>2, <3>1 DEF CountOK
    <3>2. CASE owner = Thread(c)
      BY <3>2 DEF CountOK, InsideAsOwner
    <3> QED
      BY <1>3, <3>1, <3>2 DEF LogEnters, MayLock
  <2>5. count' <= Cardinality(InsideAsOwner')
    BY <1>0, <1>3, <2>2, <2>3, <2>4 DEF LogEnters, CountOK
  <2>6. /\ log' \in [Callers -> {"out", "waits", "in"}] /\ owner' = Thread(c)
        /\ count' = count + 1 /\ lost' \subseteq Callers /\ torn' = torn
    BY <1>3 DEF LogEnters, CountOK
  <2>7. Thread(c) \in {"main", "http", "streamer"}
    BY DEF Callers, Thread
  <2> QED
    BY <2>5, <2>6, <2>7 DEF CountOK
<1>4. ASSUME NEW c \in Callers, LogLeaves(c) PROVE CountOK'
  <2>1. c \in Inside /\ Inside' = Inside \ {c}
    BY <1>4, LeavesInside
  <2>2. /\ log' \in [Callers -> {"out", "waits", "in"}]
        /\ UNCHANGED <<lost, torn>>
    BY <1>4 DEF LogLeaves, CountOK
  <2>3. CASE owner # Thread(c)
    <3>1. UNCHANGED <<owner, count>>
      BY <1>4, <2>3 DEF LogLeaves
    <3>2. InsideAsOwner' = InsideAsOwner
      BY <2>1, <2>3, <3>1 DEF InsideAsOwner
    <3> QED
      BY <2>2, <3>1, <3>2 DEF CountOK
  <2>4. CASE owner = Thread(c)
    <3>1. count' = count - 1 /\ owner' = IF count = 1 THEN "none" ELSE owner
      BY <1>4, <2>4 DEF LogLeaves
    <3>2. count \in Nat \ {0}
      BY <2>4 DEF CountOK, Thread, Callers
    <3>3. CASE count = 1
      <4>1. count' = 0 /\ owner' = "none"
        BY <3>1, <3>3
      <4>2. Cardinality(InsideAsOwner') \in Nat
        BY <1>0 DEF InsideAsOwner, Inside
      <4> QED
        BY <2>2, <4>1, <4>2 DEF CountOK
    <3>4. CASE count # 1
      <4>1. owner' = owner /\ c \in InsideAsOwner /\ InsideAsOwner' = InsideAsOwner \ {c}
        BY <2>1, <2>4, <3>1, <3>4 DEF InsideAsOwner
      <4>2. InsideAsOwner \in SUBSET Callers
        BY DEF InsideAsOwner, Inside
      <4>3. Cardinality(InsideAsOwner') = Cardinality(InsideAsOwner) - 1
        BY <4>1, <4>2, OneLess
      <4>4. count' <= Cardinality(InsideAsOwner') /\ count' \in Nat \ {0}
        BY <1>0, <3>1, <3>2, <3>4, <4>2, <4>3 DEF CountOK
      <4> QED
        BY <2>2, <3>2, <4>1, <4>4 DEF CountOK
    <3> QED
      BY <3>3, <3>4
  <2> QED
    BY <2>3, <2>4
<1> QED
  BY <1>1, <1>2, <1>3, <1>4, LoggerSteps

\* LogExclusive over the set of those inside.
Exclusive ==
    ~torn => /\ \A c \in Inside : Thread(c) = owner
             /\ count = Cardinality(Inside)
             /\ owner = "none" <=> Inside = {}

\* An initialisation that meets nobody leaves the lock free; whoever enters is of
\* the thread that owns it, and whoever leaves owned it.
LEMMA ExclusiveStep ==
  ASSUME Quiet, CountOK, Exclusive, [TNext]_tVars
  PROVE  Exclusive'
<1>0. \A S \in SUBSET Callers : Cardinality(S) \in Nat
  BY CallersFinite
<1>1. CASE \/ UNCHANGED logVars \/ LogAwakes \/ BothCalled
           \/ \E c \in Callers : LogCalled(c)
  BY <1>1, OthersInside DEF Exclusive
<1>2. CASE LogInit
  <2>1. ~torn' => Inside' = {}
    BY <1>2 DEF LogInit, Inside
  <2>2. count' = 0 /\ owner' = "none"
    BY <1>2 DEF LogInit
  <2> QED
    BY <2>1, <2>2, FS_EmptySet DEF Exclusive
<1>3. ASSUME NEW c \in Callers, LogEnters(c), ~torn' PROVE Exclusive'
  <2>1. /\ c \notin Inside /\ Inside' = Inside \cup {c}
        /\ owner' = Thread(c) /\ count' = count + 1 /\ ~torn
    BY <1>3, EntersInside DEF LogEnters
  <2>2. \A d \in Inside : Thread(d) = Thread(c)
    BY <1>3, <2>1 DEF Exclusive, LogEnters, MayLock
  <2>3. Cardinality(Inside') = Cardinality(Inside) + 1
    BY <2>1, OneMore DEF Inside
  <2>4. Thread(c) # "none"
    BY DEF Thread, Callers
  <2> QED
    BY <2>1, <2>2, <2>3, <2>4 DEF Exclusive
<1>4. ASSUME NEW c \in Callers, LogLeaves(c), ~torn' PROVE Exclusive'
  <2>1. /\ c \in Inside /\ Inside' = Inside \ {c} /\ ~torn
    BY <1>4, LeavesInside DEF LogLeaves
  <2>2. owner = Thread(c) /\ count = Cardinality(Inside)
    BY <2>1 DEF Exclusive
  <2>3. count' = count - 1 /\ owner' = IF count = 1 THEN "none" ELSE owner
    BY <1>4, <2>2 DEF LogLeaves
  <2>4. Cardinality(Inside') = Cardinality(Inside) - 1
    BY <2>1, OneLess DEF Inside
  <2>5. /\ Inside' \in SUBSET Callers
        /\ Cardinality(Inside') = 0 <=> Inside' = {}
    <3>1. Inside' \in SUBSET Callers
      BY DEF Inside
    <3> QED
      BY <3>1, CallersFinite, FS_EmptySet
  <2>6. count' = Cardinality(Inside') /\ (count = 1 <=> Inside' = {})
    BY <1>0, <2>2, <2>3, <2>4, <2>5
  <2>7. owner # "none"
    BY <2>2 DEF Thread, Callers
  <2>8. \A d \in Inside' : Thread(d) = owner'
    BY <2>1, <2>3, <2>6 DEF Exclusive
  <2>9. owner' = "none" <=> Inside' = {}
    BY <2>3, <2>6, <2>7
  <2> QED
    BY <2>6, <2>8, <2>9 DEF Exclusive
<1> QED
  BY <1>1, <1>2, <1>3, <1>4, LoggerSteps DEF Exclusive
-----------------------------------------------------------------------------
(* The order of the decoding timestamps.                                      *)

\* In a round, what is sent last is between what is behind it and what is ahead of
\* it; before anything is sent it is between 0 and the base.
Between ==
    /\ basePts >= 0
    /\ AtRoundStart => 0 <= lastDts /\ lastDts <= basePts
    /\ \A k \in 1 .. Len(File) : k <= pos /\ Active(k) => File[k].dts + basePts <= lastDts
    /\ ~AtRoundStart =>
          \A k \in 1 .. Len(File) : k > pos /\ Active(k) => lastDts <= File[k].dts + basePts

InRound == OrderedFile => Between

LEMMA PacketsType ==
  /\ Len(File) \in Nat
  /\ DOMAIN File = 1 .. Len(File)
  /\ \A k \in 1 .. Len(File) : File[k].dts \in Int
<1>1. File \in Seq([stream : Nat, pts : Int, dts : Int])
  BY FileAssumption DEF FileAssumption
<1>2. /\ Len(File) \in Nat
      /\ File \in [1 .. Len(File) -> [stream : Nat, pts : Int, dts : Int]]
  BY <1>1, LenProperties
<1> QED
  BY <1>2

\* A round that is over has sent something at or after 0, or nothing at all.
LEMMA RoundEnds ==
  ASSUME OrderedFile, Between, LocalsOK, pos = Len(File)
  PROVE  lastDts >= 0
<1> USE PacketsType DEF LocalsOK, Between
<1>1. CASE AtRoundStart
  BY <1>1
<1>2. CASE ~AtRoundStart
  <2>1. PICK i \in 1 .. Len(File) : Active(i)
    BY <1>2 DEF AtRoundStart
  <2>2. PICK k \in 1 .. Len(File) : Active(k) /\ File[k].dts >= 0
    BY <2>1 DEF OrderedFile
  <2> QED
    BY <2>2
<1> QED
  BY <1>1, <1>2

LEMMA RoundStep ==
  ASSUME OrderedFile, LocalsOK, Between, [TNext]_tVars
  PROVE  /\ Between'
         /\ streamer' = "streaming" =>
               \/ lastDts' >= lastDts
               \/ (AtRoundStart /\ lastDts' >= lastDts + Packet.dts)
<1> USE PacketsType DEF LocalsOK, Between
<1>1. CASE UNCHANGED <<pos, basePts, lastDts>>
  BY <1>1 DEF AtRoundStart
<1>2. CASE SkipPacket
  <2>1. /\ pos' = pos + 1 /\ pos + 1 \in 1 .. Len(File) /\ ~Active(pos + 1)
        /\ UNCHANGED <<basePts, lastDts>>
    BY <1>2 DEF SkipPacket, Packet, Active
  <2>2. AtRoundStart' = AtRoundStart
    BY <2>1 DEF AtRoundStart
  <2> QED
    BY <2>1, <2>2
<1>3. CASE StartAgain
  <2>1. pos' = 0 /\ basePts' = basePts + lastDts /\ lastDts' = lastDts /\ lastDts >= 0
    BY <1>3, RoundEnds DEF StartAgain
  <2>2. AtRoundStart'
    BY <2>1 DEF AtRoundStart
  <2> QED
    BY <2>1, <2>2
<1>4. CASE SendPacket
  <2>1. /\ pos + 1 \in 1 .. Len(File) /\ Active(pos + 1) /\ Packet = File[pos + 1]
        /\ pos' = pos + 1 /\ lastDts' = File[pos + 1].dts + basePts
        /\ basePts' = basePts
    BY <1>4 DEF SendPacket, Packet, Active
  <2>2. lastDts' >= lastDts \/ (AtRoundStart /\ lastDts' >= lastDts + Packet.dts)
    <3>1. CASE AtRoundStart
      BY <2>1, <3>1
    <3>2. CASE ~AtRoundStart
      BY <2>1, <3>2
    <3> QED
      BY <3>1, <3>2
  <2>3. ~AtRoundStart'
    BY <2>1 DEF AtRoundStart
  <2>4. ASSUME NEW k \in 1 .. Len(File), k > pos', Active(k)
        PROVE  lastDts' <= File[k].dts + basePts'
    BY <2>1, <2>4 DEF OrderedFile
  <2>5. ASSUME NEW k \in 1 .. Len(File), k <= pos', Active(k)
        PROVE  File[k].dts + basePts' <= lastDts'
    <3>1. CASE k = pos + 1
      BY <2>1, <3>1
    <3>2. CASE k < pos + 1
      <4>1. File[k].dts <= File[pos + 1].dts
        BY <2>1, <2>5, <3>2 DEF OrderedFile
      <4> QED
        BY <2>1, <4>1
    <3> QED
      BY <2>1, <2>5, <3>1, <3>2
  <2> QED
    BY <2>1, <2>2, <2>3, <2>4, <2>5
<1>5. CASE DurationReached \/ SeeStop
  <2>1. /\ pos' = 0 /\ basePts' = 0 /\ lastDts' = 0 /\ streamer' = "ending"
    BY <1>5 DEF DurationReached, SeeStop, LoopLeft, StreamerMoves
  <2> QED
    BY <2>1 DEF AtRoundStart
<1>6. Created \/ StreamerStays => UNCHANGED <<pos, basePts, lastDts>>
  BY DEF Created, StreamerStays
<1>7. StreamerMoved => \/ UNCHANGED <<pos, basePts, lastDts>> \/ SkipPacket \/ StartAgain
                       \/ SendPacket \/ DurationReached \/ SeeStop
  BY DEF StreamerMoved, StreamerLoop, LowerLevel, OpenInput, OpenFails, RestoreLevel,
         Connect, ConnectFails, SendEof
<1> QED
  BY <1>1, <1>2, <1>3, <1>4, <1>5, <1>6, <1>7, StreamerSteps
-----------------------------------------------------------------------------
(* The transcoder.                                                            *)

HandlerOK == handler \in {"none", "called", "logging", "closing"}

LEMMA HandlerStep ==
  ASSUME HandlerOK, [TNext]_tVars
  PROVE  HandlerOK'
<1> USE DEF HandlerOK
<1>1. CASE UNCHANGED tVars
  BY <1>1 DEF tVars
<1>2. CASE Main
  BY <1>2 DEF Main, OpenReceiver, AllocateStreamer, StartStreamer, StartHttp,
              AcceptStreamer, GiveUpAccepting, Publish, LogPublished, FinishClient,
              StopAll, JoinStreamer, FreeStreamer, ExitProcess
<1>3. CASE Signal \/ Handler
  BY <1>3 DEF Signal, Handler, HandlerLogs, HandlerStops, HandlerCloses
<1>4. CASE Streamer \/ Sigpipe \/ HttpAnswers
  BY <1>4 DEF Streamer, SetLevel, Announce, Stream, Sigpipe, HttpAnswers
<1>5. ASSUME NEW c \in Callers, LogSteps(c) PROVE UNCHANGED handler
  BY <1>5 DEF LogSteps, EnterLog, LeaveLog
<1> QED
  BY <1>1, <1>2, <1>3, <1>4, <1>5 DEF TNext

TIInv == /\ IInv
         /\ StreamerPlaced /\ LocalsOK /\ SharedOK
         /\ Quiet /\ CountOK /\ Exclusive
         /\ HandlerOK

\* The invariant holds at the start.
LEMMA TInitInvariant == TInit => TIInv
<1> SUFFICES ASSUME TInit PROVE TIInv
  OBVIOUS
<1> USE DEF TInit
<1>1. IInv
  BY InitIInv
<1>2. StreamerPlaced /\ LocalsOK /\ SharedOK /\ HandlerOK
  <2>1. pos \in 0 .. Len(File) /\ basePts \in Int /\ lastDts \in Int
    BY PacketsType DEF StreamerInit
  <2>2. StreamerPlaced
    BY DEF StreamerInit, StreamerPlaced, FileStreamers
  <2>3. LocalsOK
    BY <2>1 DEF StreamerInit, LocalsOK, StreamerPlaces
  <2>4. SharedOK /\ HandlerOK
    BY DEF StreamerInit, SharedOK, Connections, HandlerOK
  <2> QED
    BY <2>2, <2>3, <2>4
<1>3. Inside = {} /\ InsideAsOwner = {}
  BY DEF LogInitially, Inside, InsideAsOwner
<1>4. Quiet /\ CountOK /\ Exclusive
  <2>1. Cardinality(Inside) = 0 /\ Cardinality(InsideAsOwner) = 0
    BY <1>3, FS_EmptySet
  <2>2. /\ log = [c \in Callers |-> "out"] /\ owner = "none" /\ count = 0
        /\ lost = {} /\ torn = FALSE
    BY DEF LogInitially
  <2>3. Quiet
    BY <2>2 DEF Quiet, Callers
  <2>4. CountOK
    <3>1. log \in [Callers -> {"out", "waits", "in"}]
      BY <2>2
    <3>2. lost \subseteq Callers /\ torn \in BOOLEAN
      BY <2>2
    <3>3. count \in Nat /\ count <= Cardinality(InsideAsOwner)
      BY <2>1, <2>2
    <3> QED
      BY <2>2, <3>1, <3>2, <3>3 DEF CountOK
  <2>5. Exclusive
    BY <1>3, <2>1, <2>2 DEF Exclusive
  <2> QED
    BY <2>3, <2>4, <2>5
<1> QED
  BY <1>1, <1>2, <1>4 DEF TIInv

\* The inductive invariant of the composition: that of Diagnostics, where the
\* streamer is against what became of its structure, and who is in the logger
\* against owner and count of its lock.
THEOREM TInvariant == TSpec => []TIInv
<1>1. TIInv /\ [TNext]_tVars => TIInv'
  BY BuffersKept, StreamerPlacedStep, LocalsStep, SharedStep, QuietStep, CountStep,
     ExclusiveStep, HandlerStep DEF TIInv
<1> QED
  BY TInitInvariant, <1>1, PTL DEF TSpec

\* Every variable of the three parts and of their composition keeps its type; the
\* count of the logger's lock never passes 2, however often it is initialised.
THEOREM TypesOfTranscoder == TSpec => []TTypeOK
<1>1. ASSUME TIInv PROVE TTypeOK
  <2>1. count \in 0 .. 2
    <3>1. CASE owner = "none"
      BY <1>1, <3>1 DEF TIInv, CountOK
    <3>2. CASE owner # "none"
      <4>1. Cardinality(InsideAsOwner) \in Nat
        BY CallersFinite DEF InsideAsOwner, Inside
      <4> QED
        BY <1>1, <3>2, <4>1, AtMostTwo DEF TIInv, CountOK
    <3> QED
      BY <3>1, <3>2
  <2>2. LogTypeOK
    BY <1>1, <2>1 DEF TIInv, CountOK, LogTypeOK
  <2>3. StreamerTypeOK
    BY <1>1 DEF TIInv, LocalsOK, SharedOK, StreamerTypeOK
  <2> QED
    BY <1>1, <2>2, <2>3 DEF TIInv, IInv, StreamerPlaced, HandlerOK, TTypeOK
<1> QED
  BY <1>1, TInvariant, PTL

\* No diagnostics buffer leaks or is freed twice, with a streamer that connects and
\* dies at any moment, a handler that runs step by step, and a SIGPIPE.
THEOREM BuffersOfTranscoder == TSpec => []Accounted
<1>1. TIInv => Accounted
  BY DEF TIInv, IInv
<1> QED
  BY <1>1, TInvariant, PTL

\* Unless a SIGINT has destroyed the mutex, the HTTP thread of the whole transcoder
\* copies no buffer that was freed.
THEOREM CopiesOfTranscoder == TSpec => []CopiesLive
<1>1. TIInv => CopiesLive
  BY DEF TIInv, IInv, TypeOK, Accounted, Excluded, CopiesLive
<1> QED
  BY <1>1, TInvariant, PTL

\* The structure of the file streamer is not freed while its thread polls it.
THEOREM StreamerOutlived == TSpec => []StreamerAlive
<1>1. TIInv => StreamerAlive
  BY DEF TIInv, StreamerPlaced, FileStreamers, StreamerAlive, StreamerRuns
<1> QED
  BY <1>1, TInvariant, PTL

\* Unless the logger's lock was initialised under somebody, one thread at a time
\* writes a line, also when the SIGINT handler logs inside the logger.
THEOREM OneLogs == TSpec => []LogExclusive
<1>1. TIInv => LogExclusive
  BY DEF TIInv, Exclusive, Inside, LogExclusive
<1> QED
  BY <1>1, TInvariant, PTL

\* The decoding timestamps of an ordered file go back nowhere but at the start of a
\* round, and there by no more than what the file begins before 0.
THEOREM DtsInOrder == TSpec => DtsGoesBackByLead
<1> DEFINE Follows == OrderedFile /\ streamer' = "streaming" =>
                        \/ lastDts' >= lastDts
                        \/ (AtRoundStart /\ lastDts' >= lastDts + Packet.dts)
<1>1. TInit => InRound
  BY PacketsType DEF TInit, StreamerInit, InRound, Between, AtRoundStart
<1>2. OrderedFile' = OrderedFile
  BY DEF OrderedFile, Active
<1>3. TIInv /\ InRound /\ [TNext]_tVars => InRound' /\ [Follows]_streamerVars
  BY <1>2, RoundStep DEF TIInv, InRound
<1> QED
  BY <1>1, <1>3, TInvariant, PTL DEF TSpec, DtsGoesBackByLead
=============================================================================
