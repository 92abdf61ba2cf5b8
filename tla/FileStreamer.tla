---------------------------- MODULE FileStreamer ----------------------------
(***************************************************************************)
(* The thread that streams a file over and over into the transcoder's own  *)
(* receiver (file_streamer.c): each time it starts again, what was sent    *)
(* last is added to the timestamps.  The rest of the program sets stop and *)
(* joins the thread.                                                       *)
(***************************************************************************)
EXTENDS Integers, Sequences

CONSTANTS File,          \* its packets: records [stream, pts, dts]
          ActiveStream,
          Durations,     \* input.duration in the configurations, -1 for none
          MaxBase        \* bound on the timestamps a round starts from

ASSUME FileAssumption ==
    /\ File \in Seq([stream : Nat, pts : Int, dts : Int])
    /\ Durations \subseteq Nat \cup {-1} /\ MaxBase \in Nat

VARIABLES
    streamer,  \* where the thread is, see StreamerPlaces
    stop,      \* file_streamer_t.stop
    conn,      \* its connection, as the receiver has it
    pos,       \* locals of its loop: how many packets of the file were read,
    basePts, lastDts,
    duration

streamerVars == <<streamer, stop, conn, pos, basePts, lastDts, duration>>

StreamerPlaces == {"none", "created", "opening", "opened", "connecting",
                   "streaming", "ending", "done"}
Connections == {"none", "pending", "accepted", "reset", "closed"}

StreamerInit ==
    /\ streamer = "none" /\ stop = FALSE /\ conn = "none"
    /\ pos = 0 /\ basePts = 0 /\ lastDts = 0
    /\ duration \in Durations

StreamerMoves(from, to) == streamer = from /\ streamer' = to

\* The log level is lowered while ffmpeg opens the file.
LowerLevel ==
    /\ StreamerMoves("created", "opening")
    /\ UNCHANGED <<stop, conn, pos, basePts, lastDts, duration>>

OpenInput ==
    /\ StreamerMoves("opening", "opened")
    /\ UNCHANGED <<stop, conn, pos, basePts, lastDts, duration>>

OpenFails ==
    /\ StreamerMoves("opening", "done")
    /\ UNCHANGED <<stop, conn, pos, basePts, lastDts, duration>>

RestoreLevel ==
    /\ StreamerMoves("opened", "connecting")
    /\ UNCHANGED <<stop, conn, pos, basePts, lastDts, duration>>

\* The kernel takes the connection, the handshake and the header before the
\* receiver accepts.
Connect(listening) ==
    /\ StreamerMoves("connecting", "streaming")
    /\ listening
    /\ conn' = "pending"
    /\ UNCHANGED <<stop, pos, basePts, lastDts, duration>>

\* That socket() returns 0, which KMP_connect passes on as if it had connected, is
\* left out: stdin, or a file opened before, has that descriptor.
ConnectFails(listening) ==
    /\ StreamerMoves("connecting", "done")
    /\ ~listening
    /\ UNCHANGED <<stop, conn, pos, basePts, lastDts, duration>>

Streaming == streamer = "streaming" /\ ~stop

Packet == File[pos + 1]
InDuration == duration = -1 \/ Packet.pts + basePts < duration

\* Mutant of StartAgain: the first round's timestamps return.
StartAgainAtZero ==
    /\ Streaming /\ pos = Len(File) /\ basePts <= MaxBase
    /\ pos' = 0 /\ basePts' = 0
    /\ UNCHANGED <<streamer, stop, conn, lastDts, duration>>

\* lastDts has basePts in it already: the base more than doubles.
StartAgain ==
    /\ Streaming /\ pos = Len(File) /\ basePts <= MaxBase
    /\ pos' = 0 /\ basePts' = basePts + lastDts
    /\ UNCHANGED <<streamer, stop, conn, lastDts, duration>>

SkipPacket ==
    /\ Streaming /\ pos < Len(File) /\ Packet.stream # ActiveStream
    /\ pos' = pos + 1
    /\ UNCHANGED <<streamer, stop, conn, basePts, lastDts, duration>>

\* An error of send is ignored.
SendPacket ==
    /\ Streaming /\ pos < Len(File) /\ Packet.stream = ActiveStream
    /\ InDuration
    /\ pos' = pos + 1 /\ lastDts' = Packet.dts + basePts
    /\ UNCHANGED <<streamer, stop, conn, basePts, duration>>

LoopLeft == pos' = 0 /\ basePts' = 0 /\ lastDts' = 0

DurationReached ==
    /\ StreamerMoves("streaming", "ending")
    /\ ~stop /\ pos < Len(File) /\ Packet.stream = ActiveStream
    /\ ~InDuration
    /\ LoopLeft
    /\ UNCHANGED <<stop, conn, duration>>

SeeStop ==
    /\ StreamerMoves("streaming", "ending")
    /\ stop
    /\ LoopLeft
    /\ UNCHANGED <<stop, conn, duration>>

\* KMP_send_eof, KMP_close; the thread returns.
SendEof ==
    /\ StreamerMoves("ending", "done")
    /\ UNCHANGED <<stop, conn, pos, basePts, lastDts, duration>>

\* To send on a connection that was reset may also raise SIGPIPE.
MaySigpipe == streamer \in {"streaming", "ending"} /\ conn = "reset"

StreamerRuns == streamer \notin {"none", "done"}

StreamerLoop == StartAgain \/ SkipPacket \/ SendPacket \/ DurationReached \/ SeeStop
                \/ SendEof

StreamerTypeOK ==
    /\ streamer \in StreamerPlaces /\ stop \in BOOLEAN /\ conn \in Connections
    /\ pos \in 0 .. Len(File) /\ basePts \in Int /\ lastDts \in Int
    /\ duration \in Durations

\* The packets of the active stream come in decoding order, and not all of them
\* before 0.  They may begin before it, as the dts of a stream with B-frames do.
Active(k) == File[k].stream = ActiveStream
OrderedFile ==
    /\ \A i, k \in DOMAIN File : i < k /\ Active(i) /\ Active(k) => File[i].dts <= File[k].dts
    /\ \A i \in DOMAIN File : Active(i) => \E k \in DOMAIN File : Active(k) /\ File[k].dts >= 0

\* Nothing of this round through the file has been sent.
AtRoundStart == \A k \in 1 .. pos : ~Active(k)

\* From one packet of an ordered file to the next the decoding timestamps that are
\* sent do not go back, and from one round to the next by no more than what the
\* file begins before 0, however much the base has grown.
DtsGoesBackByLead ==
    [][OrderedFile /\ streamer' = "streaming" =>
          \/ lastDts' >= lastDts
          \/ (AtRoundStart /\ lastDts' >= lastDts + Packet.dts)]_streamerVars
=============================================================================
