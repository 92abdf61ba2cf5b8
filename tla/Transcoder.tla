----------------------------- MODULE Transcoder -----------------------------
(***************************************************************************)
(* A transcoder that streams a file to itself (main.c with input.file):    *)
(* the main thread starts the file streamer and the HTTP thread, serves    *)
(* the streamer as its one client, then stops it, joins it and exits.  It  *)
(* composes Diagnostics, FileStreamer and Logger: a step of the main       *)
(* thread is one of Diagnostics, taken while it is neither in the logger   *)
(* nor interrupted, and the SIGINT handler is taken apart: it logs, asks   *)
(* the streamer to stop and closes the receiver.                           *)
(***************************************************************************)
EXTENDS Diagnostics, FileStreamer, Logger

VARIABLES
    fileStreamer,  \* the file_streamer_t and main's pointer to it
    handler        \* where the SIGINT handler is, "none" when it does not run

tVars == <<vars, streamerVars, logVars, fileStreamer, handler>>

FileStreamers == {"null", "allocated", "started", "running", "joined", "freed",
                  "cleared"}

TInit ==
    /\ Init /\ StreamerInit /\ LogInitially
    /\ fileStreamer = "null" /\ handler = "none"
-----------------------------------------------------------------------------
(* The main thread.                                                           *)

MainRuns == handler = "none" /\ log["main"] = "out"

\* file_streamer_stop, where threadId may not have been written yet.
StopStreamer ==
    CASE fileStreamer \in {"started", "running"} -> stop' = TRUE
      [] fileStreamer \in {"allocated", "freed"} -> stop' \in {stop, TRUE}
      [] OTHER -> UNCHANGED stop

\* A connection nobody has accepted is reset with the listening socket.
ResetPending == conn' = IF conn = "pending" THEN "reset" ELSE conn

StreamerKeeps(var) ==
    /\ UNCHANGED <<streamer, pos, basePts, lastDts, duration>>
    /\ var # "stop" => UNCHANGED stop
    /\ var # "conn" => UNCHANGED conn

OpenReceiver ==
    /\ MainRuns /\ Open
    /\ UNCHANGED <<streamerVars, logVars, fileStreamer, handler>>

\* Its fields are not initialised.
AllocateStreamer ==
    /\ MainRuns /\ main = "accepting" /\ fileStreamer = "null"
    /\ fileStreamer' = "allocated"
    /\ stop' \in BOOLEAN /\ StreamerKeeps("stop")
    /\ UNCHANGED <<vars, logVars, handler>>

\* file_streamer_start
StartStreamer ==
    /\ MainRuns /\ fileStreamer = "allocated"
    /\ fileStreamer' = "started"
    /\ stop' = FALSE /\ StreamerMoves("none", "created")
    /\ UNCHANGED <<vars, conn, pos, basePts, lastDts, duration, logVars, handler>>

\* http_server_start, whose thread logs, and "Waiting for accept".
StartHttp ==
    /\ MainRuns /\ fileStreamer = "started"
    /\ fileStreamer' = "running"
    /\ log' = [log EXCEPT !["main"] = "waits", !["http"] = "waits"]
    /\ UNCHANGED <<vars, streamerVars, owner, count, lost, torn, handler>>

AcceptStreamer ==
    /\ MainRuns /\ fileStreamer = "running"
    /\ Accept
    /\ conn = "pending" /\ conn' = "accepted" /\ StreamerKeeps("conn")
    /\ UNCHANGED <<logVars, fileStreamer, handler>>

GiveUpAccepting ==
    /\ MainRuns /\ fileStreamer = "running"
    /\ AcceptFails
    /\ UNCHANGED <<streamerVars, logVars, fileStreamer, handler>>

Publish ==
    /\ MainRuns
    /\ Calculate \/ CalculateLocks \/ CalculateSwaps \/ CalculateUnlocks
    /\ UNCHANGED <<streamerVars, logVars, fileStreamer, handler>>

\* "calculated diagnostics"
LogPublished ==
    /\ MainRuns /\ CalculateFrees
    /\ LogCalled("main")
    /\ UNCHANGED <<streamerVars, fileStreamer, handler>>

\* The receiver has read the EOS packet; "Completed receive thread".
FinishClient ==
    /\ MainRuns /\ ClientEnds
    /\ streamer = "done"
    /\ conn' = "closed" /\ StreamerKeeps("conn")
    /\ LogCalled("main")
    /\ UNCHANGED <<fileStreamer, handler>>

StopAll ==
    /\ MainRuns /\ Stop
    /\ StopStreamer /\ ResetPending
    /\ UNCHANGED <<streamer, pos, basePts, lastDts, duration, logVars, fileStreamer, handler>>

\* Mutant of JoinStreamer: the thread is not waited for.
JoinNobody ==
    /\ MainRuns /\ main = "stopped" /\ fileStreamer = "running"
    /\ fileStreamer' = "joined"
    /\ UNCHANGED <<vars, streamerVars, logVars, handler>>

JoinStreamer ==
    /\ MainRuns /\ main = "stopped" /\ fileStreamer = "running"
    /\ streamer = "done" /\ log["streamer"] = "out"
    /\ fileStreamer' = "joined"
    /\ UNCHANGED <<vars, streamerVars, logVars, handler>>

\* av_free, and a statement later the pointer is cleared.
FreeStreamer ==
    /\ MainRuns
    /\ \/ fileStreamer = "joined" /\ fileStreamer' = "freed"
       \/ fileStreamer = "freed" /\ fileStreamer' = "cleared"
    /\ UNCHANGED <<vars, streamerVars, logVars, handler>>

ExitProcess ==
    /\ MainRuns /\ fileStreamer = "cleared"
    /\ Exit
    /\ UNCHANGED <<streamerVars, logVars, fileStreamer, handler>>
-----------------------------------------------------------------------------
(* The SIGINT handler, on the main thread; the signal is blocked meanwhile.   *)

Signal ==
    /\ handler = "none" /\ main # "exited" /\ interrupts < MaxInterrupts
    /\ handler' = "called"
    /\ LogAwakes
    /\ UNCHANGED <<vars, streamerVars, fileStreamer>>

HandlerLogs ==
    /\ handler = "called" /\ main # "exited"
    /\ handler' = "logging"
    /\ LogCalled("handler")
    /\ UNCHANGED <<vars, streamerVars, fileStreamer>>

\* Mutant of HandlerStops: only the receiver is closed.
HandlerForgets ==
    /\ handler = "logging" /\ log["handler"] = "out" /\ main # "exited"
    /\ handler' = "closing"
    /\ UNCHANGED <<vars, streamerVars, logVars, fileStreamer>>

HandlerStops ==
    /\ handler = "logging" /\ log["handler"] = "out" /\ main # "exited"
    /\ handler' = "closing"
    /\ StopStreamer /\ StreamerKeeps("stop")
    /\ UNCHANGED <<vars, logVars, fileStreamer>>

HandlerCloses ==
    /\ handler = "closing" /\ handler' = "none"
    /\ Interrupt
    /\ ResetPending /\ StreamerKeeps("conn")
    /\ UNCHANGED <<logVars, fileStreamer>>
-----------------------------------------------------------------------------
(* The other threads, and the logger.                                         *)

StreamerFree == main # "exited" /\ log["streamer"] = "out"

SetLevel ==
    /\ StreamerFree
    /\ LowerLevel \/ RestoreLevel
    /\ LogInit
    /\ UNCHANGED <<vars, fileStreamer, handler>>

\* What became of opening the file or the connection is logged.
Announce ==
    /\ StreamerFree
    /\ OpenFails \/ Connect(listening) \/ ConnectFails(listening)
    /\ LogCalled("streamer")
    /\ UNCHANGED <<vars, fileStreamer, handler>>

Stream ==
    /\ StreamerFree
    /\ OpenInput \/ StreamerLoop
    /\ UNCHANGED <<vars, logVars, fileStreamer, handler>>

Sigpipe ==
    /\ StreamerFree /\ MaySigpipe
    /\ main' = "exited" /\ http' = "killed"
    /\ UNCHANGED <<tmpBuf, oldDiag, lastDiagnsotics, live, locker, listening, source,
                   interrupts, streamerVars, logVars, fileStreamer, handler>>

\* The thread "Accepted client" and what it says of the answer are one line.
HttpAnswers ==
    /\ main # "exited" /\ fileStreamer \notin {"null", "allocated", "started"}
    /\ log["http"] = "out"
    /\ \/ (Request \/ GetLocks \/ GetLoads \/ GetCopies \/ GetCrashes)
          /\ UNCHANGED logVars
       \/ GetUnlocks /\ LogCalled("http")
    /\ UNCHANGED <<streamerVars, fileStreamer, handler>>

CallerRuns(c) == main # "exited" /\ (c = "main" => handler = "none")

EnterLog(c) ==
    /\ CallerRuns(c) /\ LogEnters(c)
    /\ UNCHANGED <<vars, streamerVars, fileStreamer, handler>>

LeaveLog(c) ==
    /\ CallerRuns(c) /\ LogLeaves(c)
    /\ UNCHANGED <<vars, streamerVars, fileStreamer, handler>>

LogSteps(c) == EnterLog(c) \/ LeaveLog(c)

Main == OpenReceiver \/ AllocateStreamer \/ StartStreamer \/ StartHttp
        \/ AcceptStreamer \/ GiveUpAccepting \/ Publish \/ LogPublished
        \/ FinishClient \/ StopAll \/ JoinStreamer \/ FreeStreamer \/ ExitProcess

Handler == HandlerLogs \/ HandlerStops \/ HandlerCloses

Streamer == SetLevel \/ Announce \/ Stream

TNext == Main \/ Signal \/ Handler \/ Streamer \/ Sigpipe \/ HttpAnswers
         \/ \E c \in Callers : LogSteps(c)

TSpec == TInit /\ [][TNext]_tVars

\* Every thread gets the processor, and in the end a lock that is free again and
\* again, but not one it sleeps on that was initialised meanwhile.  What the client
\* has sent is finite; no request and no signal has to come.
Awake(c) == c \notin lost /\ LogSteps(c)

TFairness ==
    /\ SF_tVars(Main \/ Handler \/ Awake("main") \/ Awake("handler"))
    /\ SF_tVars(FinishClient)
    /\ SF_tVars(Streamer \/ Awake("streamer"))
    /\ SF_tVars((HttpAnswers /\ http # "idle") \/ Awake("http"))

FairTranscoder == TSpec /\ TFairness
-----------------------------------------------------------------------------
\* The variables of the three parts, and what the composition adds, have their types.
TTypeOK ==
    /\ TypeOK /\ StreamerTypeOK /\ LogTypeOK
    /\ fileStreamer \in FileStreamers
    /\ handler \in {"none", "called", "logging", "closing"}

\* While the streamer's thread runs, the structure it polls is allocated.
StreamerAlive ==
    StreamerRuns /\ main # "exited" => fileStreamer \in {"started", "running"}

\* A lock the main thread waits for was initialised under it.
MainLost == {"main", "handler"} \cap lost # {}

\* Once the receiver is closed, by a SIGINT at any moment or because it could not
\* listen, the process ends, whatever the streamer was doing, even if it streams
\* for ever, and although the request to stop is overwritten when it starts; and so
\* it does by itself when a file is streamed for a limited duration.
Ends ==
    \/ ~listening /\ main # "starting"
    \/ streamer = "streaming" /\ duration # -1
    ~> main = "exited" \/ MainLost
=============================================================================
