------------------------------ MODULE Receiver ------------------------------
(***************************************************************************)
(* processClient of receiver_server.c: the thread reads one client's KMP   *)
(* connection (the receiving half of KMP.c) and drives the transcode       *)
(* session with it.  The client may go away between any two reads.         *)
(* The server serves one client (receiver_server_sync_listen), then ends.  *)
(***************************************************************************)
EXTENDS TranscodeSession

CONSTANTS MaxPackets,    \* bound on the frames the client sends
          KeyPackets     \* numbers of its key frames

ASSUME ReceiverAssumption == MaxPackets \in Nat /\ KeyPackets \subseteq Nat

VARIABLES peer,     \* what the client has sent, or how it went away
          header    \* type in the local packet_header_t

vars == <<peer, header, sessionVars>>

HeaderTypes == {"CONNECT", "MEDIA_INFO", "FRAME", "EOS", "other"}
Gone == {"closed", "reset"}

\* The header is an uninitialised local.
Init ==
    /\ peer = "new"
    /\ header \in HeaderTypes
    /\ at = "read"
    /\ packets = 0 /\ first = 0 /\ base = 0
    /\ decoder = [described |-> FALSE, open |-> FALSE, draining |-> FALSE,
                  ok |-> TRUE, held |-> {}]
    /\ filters = <<>> /\ outputs = <<>>
    /\ cursor = 1 /\ turn = 1 /\ frame = 0 /\ filtered = 0
-----------------------------------------------------------------------------
(* KMP_read_header.                                                           *)

\* The packets a client sends: CONNECT, MEDIA_INFO, then frames, another
\* MEDIA_INFO when its format changes, and EOS.
Sends(type) ==
    \/ peer = "new" /\ type = "CONNECT" /\ peer' = "connected"
    \/ peer \in {"connected", "streaming"} /\ type = "MEDIA_INFO" /\ peer' = "streaming"
    \/ peer = "streaming" /\ type = "FRAME" /\ packets < MaxPackets /\ UNCHANGED peer
    \/ peer = "streaming" /\ type = "EOS" /\ peer' = "ended"

ReadHeader ==
    /\ Goes("read", "body")
    /\ \E type \in HeaderTypes : Sends(type) /\ header' = type
    /\ UNCHANGED <<packets, first, stages, hands>>

\* The result is ignored: without a client the last header is served again.
\* A reset is reported by one recv, those after it find the connection closed.
ReadNothing ==
    /\ Goes("read", "body")
    /\ peer \in Gone
    /\ peer' = "closed"
    /\ UNCHANGED <<header, packets, first, stages, hands>>

\* The client goes whenever it likes; the thread can tell at a read only, so the
\* step is one of those places.
PeerGoes ==
    /\ at \in {"read", "body"}
    /\ peer \in {"new", "connected", "streaming"}
    /\ peer' \in Gone
    /\ UNCHANGED <<header, sessionVars>>
-----------------------------------------------------------------------------
(* The rest of a round of processClient's loop, by the header's type.          *)

\* recv after a reset or the end: what is left of peer.
RecvFails == peer \in Gone /\ peer' = "closed"

ServeEos ==
    /\ at = "body" /\ header = "EOS"
    /\ StartClose
    /\ UNCHANGED <<peer, header>>

\* A handshake that cannot be read is logged, no more.
ServeConnect ==
    /\ Goes("body", "read")
    /\ header = "CONNECT"
    /\ RecvFails \/ (peer \notin Gone /\ UNCHANGED peer)
    /\ UNCHANGED <<header, packets, first, stages, hands>>

\* KMP_read_mediaInfo returns 0 when the client has closed, which the check for
\* an error lets through: the parameters stay as they were.
ServeMediaInfo ==
    /\ Goes("body", "adding")
    /\ header = "MEDIA_INFO"
    /\ peer # "reset"
    /\ SessionInit(peer # "closed")
    /\ UNCHANGED <<peer, header>>

ServeMediaInfoExits ==
    /\ Goes("body", "dead")
    /\ header = "MEDIA_INFO"
    /\ peer = "reset"
    /\ UNCHANGED <<peer, header, packets, first, stages, hands>>

ServeFrame ==
    /\ at = "body" /\ header = "FRAME"
    /\ peer \notin Gone
    /\ SendPacket
    /\ UNCHANGED <<peer, header>>

\* Mutant of ServeFrameFails: the failed read is ignored.
ServeFrameIgnoresFailure ==
    /\ Goes("body", "read") /\ header = "FRAME"
    /\ RecvFails
    /\ UNCHANGED <<header, packets, first, stages, hands>>

ServeFrameFails ==
    /\ at = "body" /\ header = "FRAME"
    /\ RecvFails
    /\ StartClose
    /\ UNCHANGED header

ServeOther ==
    /\ Goes("body", "read")
    /\ header = "other"
    /\ UNCHANGED <<peer, header, packets, first, stages, hands>>

\* What the thread does without waiting for its client.
ThreadStep ==
    \/ ReadNothing
    \/ ServeEos \/ ServeConnect \/ ServeMediaInfo \/ ServeMediaInfoExits
    \/ ServeFrame \/ ServeFrameFails \/ ServeOther
    \/ SessionStep /\ UNCHANGED <<peer, header>>

Next ==
    \/ ReadHeader
    \/ ThreadStep
    \/ PeerGoes
    \/ Killed /\ UNCHANGED <<peer, header>>

Spec == Init /\ [][Next]_vars

\* The receiver thread is scheduled; its client owes it nothing.
FairSpec == Spec /\ WF_vars(ThreadStep)
-----------------------------------------------------------------------------
(* Properties.                                                                *)

FilterConfigType == [skip : Nat \ {0}, height : Nat, cpu : BOOLEAN]
DecoderType == [described : BOOLEAN, open : BOOLEAN, draining : BOOLEAN,
                ok : BOOLEAN, held : SUBSET Nat]
FilterType == [config : FilterConfigType, count : Nat, ok : BOOLEAN,
               held : SUBSET Nat]
OutputType == [track : DOMAIN Tracks, filterId : Nat, encoder : BOOLEAN,
               cpu : BOOLEAN, ok : BOOLEAN, held : SUBSET Nat,
               intra : SUBSET Nat, phase : {"none", "described", "ended"},
               sent : SUBSET Nat, frames : Nat]

(* The types; an output is fed from a filter its session has (GetFilter), and *)
(* exactly the outputs with an encoder or in passthrough are connected.       *)
Typed ==
    /\ peer \in {"new", "connected", "streaming", "ended", "closed", "reset"}
    /\ header \in HeaderTypes
    /\ at \in Places
    /\ packets \in Nat /\ first \in 0 .. packets
    /\ decoder \in DecoderType
    /\ filters \in Seq(FilterType)
    /\ outputs \in Seq(OutputType)
    /\ base \in 0 .. Len(outputs)
    /\ cursor \in Nat \ {0} /\ turn \in Nat \ {0}
    /\ frame \in Nat /\ filtered \in Nat
    /\ \A i \in Current : outputs[i].filterId <= Len(filters)
    /\ \A i \in DOMAIN outputs :
          outputs[i].phase # "none" <=> outputs[i].encoder \/ Track(i).passthrough

\* What one MEDIA_INFO asks for does not fit in the session's array, or not in what
\* those before it have left of the server's.
Enabled == {t \in DOMAIN Tracks : Tracks[t].enabled}
Excess == \/ Cardinality(Enabled) > MaxSessionOutputs
          \/ base + Cardinality(Enabled) > MaxOutputs

(* Every variable has its type, an output is fed from a filter its session    *)
(* has and connected exactly when it has packets to send; and the arrays of   *)
(* outputs, which no code guards, are overrun only by a MEDIA_INFO that asks  *)
(* for too many, never by what a session before it left in the session's own  *)
(* (transcode_session_init).                                                  *)
TypeOK == Typed /\ (at = "overrun" => Excess)

Kmp(i) == INSTANCE KmpConnection WITH
    phase <- IF i \in DOMAIN outputs THEN outputs[i].phase ELSE "none",
    sent <- IF i \in DOMAIN outputs THEN outputs[i].sent ELSE {},
    frames <- IF i \in DOMAIN outputs THEN outputs[i].frames ELSE 0

(* Each output's connection to its packager follows the protocol: described   *)
(* first, frames in order and none twice whatever codecs hold back or lose,   *)
(* nothing after EOS (KMP_send_packet, KMP_send_eof).                         *)
ImplementsKmp ==
    /\ \A i \in 1 .. MaxOutputs : Kmp(i)!KmpInit
    /\ [][\A i \in 1 .. MaxOutputs : [Kmp(i)!KmpNext]_(Kmp(i)!kmpVars)]_vars

Received == (first + 1) .. packets
Decoded == Received \ decoder.held

\* No call for output i's decoder, filter or encoder failed.
Sound(i) ==
    /\ decoder.ok /\ outputs[i].ok /\ outputs[i].encoder
    /\ outputs[i].filterId # 0 => filters[outputs[i].filterId].ok

\* The frames due to output i, of those decoded.
Due(i) ==
    IF outputs[i].filterId = 0 THEN Decoded
    ELSE LET f == filters[outputs[i].filterId]
         IN {n \in Decoded : (n - first - 1) % f.config.skip = 0} \ f.held

Idle == at \in {"read", "closing", "done"}

(* Between packets every frame due to an output has been sent or is held by   *)
(* its encoder, and a passthrough output has sent every packet: a failing     *)
(* filter or encoder loses nothing of another output (encodeFrame's result is *)
(* ignored by sendFrameToFilter for this).                                    *)
NothingLost ==
    Idle => \A i \in Current :
        IF Track(i).passthrough THEN outputs[i].sent = Received
        ELSE Sound(i) => outputs[i].sent \cup outputs[i].held = Due(i)

(* When the session ends, by EOS or because the client went away in a frame,  *)
(* what decoder and encoders held back has been sent before the connection    *)
(* ends, and every connection that was opened ends (transcode_session_close). *)
FlushIsComplete ==
    /\ at \in {"closing", "done"} /\ decoder.ok =>
           decoder.held = {} \/ ~ShouldDecode
    /\ at \in {"closing", "done"} =>
           \A i \in Current : Sound(i) => outputs[i].held = {}
    /\ at = "done" => \A i \in DOMAIN outputs : outputs[i].phase # "described"

(* A client that ends its stream, or goes away while it sends frames, does    *)
(* not keep the receiver (processClient leaves its loop).                     *)
StreamEnds ==
    header \in {"FRAME", "EOS"} /\ peer \in Gone \cup {"ended"} ~> at \in {"done", "dead"}

(* "in case of use software encoder we need to copy to CPU memory": no output *)
(* that has a filter and a software encoder has the encoder configured for    *)
(* frames on the GPU (GetFilter, config_encoder).                             *)
SoftwareFramesInCpuMemory ==
    \A i \in DOMAIN outputs :
        Track(i).software /\ outputs[i].filterId # 0 => outputs[i].cpu

(* "key frame aligment": an encoder that sends the frame of a key packet was  *)
(* forced to make it a key frame.                                             *)
KeyAligned == \A i \in DOMAIN outputs : outputs[i].encoder =>
    KeyPackets \cap outputs[i].sent \subseteq outputs[i].intra
=============================================================================
