-------------------------- MODULE TranscodeSession --------------------------
(***************************************************************************)
(* One transcoder's pipeline (transcode_session.c over transcode_codec.c,  *)
(* transcode_filter.c and transcode_session_output.c): a decoder, a filter *)
(* per distinct filter configuration and an encoder per transcoded output. *)
(* One thread runs all of it; `at` is where that thread is.  What ffmpeg   *)
(* decides is a choice: how many frames a stage holds back, and when a     *)
(* call fails.  Stages keep frames in order, so what a stage holds is a    *)
(* set of frame numbers, given out smallest first; a frame has the number  *)
(* of the packet it was decoded from.                                      *)
(*                                                                         *)
(* Receiver.tla reads the packets and calls this module's actions.         *)
(***************************************************************************)
EXTENDS Naturals, Sequences, FiniteSets

CONSTANTS
    Tracks,        \* outputTracks of the configuration, see TrackType
    Media,         \* "video" or "audio": what the one input track carries
    Accelerated,   \* the decoder is an Nvidia one, its frames are on the GPU
    CorruptFrames, \* numbers of the packets whose frame is flagged corrupt
    MaxOutputs,        \* places in receiver_server_t.outputs
    MaxSessionOutputs  \* MAX_OUTPUTS, places in transcode_session_t.output

TrackType == [enabled : BOOLEAN, passthrough : BOOLEAN, software : BOOLEAN,
              height : Nat, skip : Nat \ {0}]

ASSUME SessionAssumption ==
    /\ Tracks \in Seq(TrackType)
    /\ Media \in {"video", "audio"}
    /\ Accelerated \in BOOLEAN
    /\ CorruptFrames \subseteq Nat
    /\ MaxOutputs \in Nat /\ MaxSessionOutputs \in Nat

VARIABLES
    at,        \* where the thread is, see Places
    packets,   \* packets received so far; the number of the latest
    first,     \* packets when this session was initialised
    decoder,   \* [described, open, draining, ok, held], see InitDecoder
    filters,   \* filters of this session: [config, count, ok, held]
    outputs,   \* every output the server made, see NewOutput
    base,      \* this session's outputs are those after the first `base`
    cursor,    \* the track being added, or the filter being fed
    turn,      \* the output being served
    frame,     \* the decoder's frame in hand, 0 when there is none
    filtered   \* the filter's frame in hand, 0 when there is none

stages == <<decoder, filters, outputs, base>>
hands == <<cursor, turn, frame, filtered>>
sessionVars == <<at, packets, first, stages, hands>>

Places == {"read", "body", "adding", "decode", "filter", "sink", "encode",
           "direct", "flush", "closing", "done", "dead", "overrun"}

Goes(from, to) == at = from /\ at' = to

Current == (base + 1) .. Len(outputs)
Track(i) == Tracks[outputs[i].track]

\* Frames leave a stage in order: what may be given out of `held` at once.
Prefixes(held) == {s \in SUBSET held : \A m \in s, n \in held \ s : m < n}

\* av_frame flags: what the AV_PKT_FLAG_KEY bit means on a frame is "corrupt".
ForcedIntra(n) == n \in CorruptFrames
-----------------------------------------------------------------------------
(* transcode_session_init and transcode_session_add_output.                   *)

\* The decoder is opened from the codec parameters; they are blank, and no decoder
\* is found, until a MEDIA_INFO was `received`.  One that does not open leaves the
\* context an earlier one had.
InitDecoder(received) ==
    LET described == decoder.described \/ received
    IN \/ /\ described
          /\ decoder' = [described |-> TRUE, open |-> TRUE, draining |-> FALSE,
                         ok |-> TRUE, held |-> {}]
       \/ decoder' = [decoder EXCEPT !.described = described, !.ok = FALSE]

\* Mutant of SessionBegins: the session's count of outputs is not reset.
SessionGoesOn == base' = base /\ first' = packets

SessionBegins == base' = Len(outputs) /\ first' = packets

\* The encoders of an earlier session are forgotten with what they hold.
SessionInit(received) ==
    /\ InitDecoder(received)
    /\ filters' = <<>>
    /\ SessionBegins
    /\ outputs' = [i \in DOMAIN outputs |-> [outputs[i] EXCEPT !.held = {}]]
    /\ cursor' = 1
    /\ UNCHANGED <<packets, turn, frame, filtered>>

\* get_filter_config; cpu says where the filter leaves its frames.
FilterConfig(t) ==
    IF Media = "audio" THEN [skip |-> 1, height |-> 0, cpu |-> TRUE]
    ELSE [skip |-> t.skip, height |-> t.height,
          cpu |-> ~Accelerated \/ t.software]

\* transcode_session_output_from_json, before it is added to the session.
NewOutput ==
    [track |-> cursor, filterId |-> 0, encoder |-> FALSE, cpu |-> TRUE,
     ok |-> TRUE, held |-> {}, intra |-> {}, phase |-> "none", sent |-> {},
     frames |-> 0]

AddStep == at = "adding" /\ cursor \in DOMAIN Tracks /\ cursor' = cursor + 1
AddDone == UNCHANGED <<at, packets, first, decoder, base, turn, frame, filtered>>

SkipDisabled ==
    /\ AddStep
    /\ ~Tracks[cursor].enabled
    /\ UNCHANGED <<filters, outputs>>
    /\ AddDone

\* A place for one more output in the server's array and in the session's, whose
\* indices nobody tests.  The arrays of filters and encoders are as long as the
\* latter and get at most one element per output.
HasRoom == Len(outputs) < MaxOutputs /\ Cardinality(Current) < MaxSessionOutputs

AddPassthrough ==
    /\ AddStep
    /\ Tracks[cursor].enabled /\ Tracks[cursor].passthrough
    /\ HasRoom /\ decoder.open
    /\ outputs' = Append(outputs, [NewOutput EXCEPT !.phase = "described"])
    /\ UNCHANGED filters
    /\ AddDone

\* config_encoder for frames in CPU memory or not; a software encoder does not
\* open for the latter.  Without an encoder the output is never connected.
AddEncoded(id, cpu) ==
    \E opens \in BOOLEAN :
        /\ opens => cpu \/ ~Tracks[cursor].software
        /\ outputs' = Append(outputs,
              [NewOutput EXCEPT !.filterId = id, !.cpu = cpu, !.encoder = opens,
                                !.phase = IF opens THEN "described" ELSE "none"])

\* The loop of GetFilter does not stop at the filter it finds: the encoder is
\* configured from the last filter whichever one the output is fed from.
ReuseFilter(config) ==
    /\ \E id \in DOMAIN filters :
          filters[id].config = config /\ AddEncoded(id, filters[Len(filters)].config.cpu)
    /\ UNCHANGED filters

NoFilterFor(config) == \A id \in DOMAIN filters : filters[id].config # config

CreateFilter(config) ==
    /\ NoFilterFor(config)
    /\ filters' = Append(filters, [config |-> config, count |-> 0, ok |-> TRUE,
                                   held |-> {}])
    /\ AddEncoded(Len(filters) + 1, config.cpu)

\* Without its filter an encoder is configured from the decoder.
CreateFilterFails(config) ==
    /\ NoFilterFor(config)
    /\ Media = "video"
    /\ AddEncoded(0, ~Accelerated)
    /\ UNCHANGED filters

AddTranscoded ==
    /\ AddStep
    /\ Tracks[cursor].enabled /\ ~Tracks[cursor].passthrough
    /\ HasRoom /\ decoder.open
    /\ LET config == FilterConfig(Tracks[cursor])
       IN ReuseFilter(config) \/ CreateFilter(config) \/ CreateFilterFails(config)
    /\ AddDone

\* The output is written beyond an array, over whatever follows it in memory: the
\* process has no defined behaviour from here on.
AddOverruns ==
    /\ Goes("adding", "overrun")
    /\ cursor \in DOMAIN Tracks
    /\ Tracks[cursor].enabled
    /\ ~HasRoom
    /\ UNCHANGED <<packets, first, stages, hands>>

\* The context of a missing decoder, or the filter an audio encoder lacks, is NULL.
AddCrashes ==
    /\ Goes("adding", "dead")
    /\ cursor \in DOMAIN Tracks
    /\ Tracks[cursor].enabled
    /\ HasRoom
    /\ \/ ~decoder.open
       \/ /\ ~Tracks[cursor].passthrough
          /\ Media = "audio"
          /\ NoFilterFor(FilterConfig(Tracks[cursor]))
    /\ UNCHANGED <<packets, first, stages, hands>>

AllAdded ==
    /\ Goes("adding", "read")
    /\ cursor \notin DOMAIN Tracks
    /\ cursor' = 1
    /\ UNCHANGED <<packets, first, stages, turn, frame, filtered>>
-----------------------------------------------------------------------------
(* transcode_session_send_packet: the packet goes to the passthrough outputs   *)
(* and, when some output is transcoded, to the decoder.                       *)

ShouldDecode == \E i \in Current : ~Track(i).passthrough

Passthrough(n) ==
    outputs' = [i \in DOMAIN outputs |->
                   IF i \in Current /\ Track(i).passthrough
                   THEN [outputs[i] EXCEPT !.sent = @ \cup {n}, !.frames = @ + 1]
                   ELSE outputs[i]]

DecoderTakes(n) ==
    \/ /\ decoder' = [decoder EXCEPT !.held = @ \cup {n}]
       /\ at' = "decode"
    \/ /\ decoder' = [decoder EXCEPT !.ok = FALSE]      \* refused
       /\ at' = "read"
    \/ /\ ~decoder.ok                                    \* EAGAIN, taken for 0
       /\ UNCHANGED decoder
       /\ at' = "decode"

SendPacket ==
    /\ packets' = packets + 1
    /\ Passthrough(packets')
    /\ \/ ShouldDecode /\ DecoderTakes(packets')
       \/ ~ShouldDecode /\ at' = "read" /\ UNCHANGED decoder
    /\ UNCHANGED <<first, filters, base, hands>>

\* send_packet(NULL) of transcode_session_close: only the decoder sees it.
StartClose ==
    /\ \/ /\ ShouldDecode
          /\ decoder' = [decoder EXCEPT !.draining = TRUE]
          /\ at' = "decode"
       \/ /\ ~ShouldDecode
          /\ UNCHANGED decoder
          /\ at' = "closing"
    /\ turn' = 1
    /\ UNCHANGED <<packets, first, filters, outputs, base, cursor, frame, filtered>>
-----------------------------------------------------------------------------
(* decodePacket: the frames the decoder gives after it took a packet.          *)

Earliest(n, held) == n \in held /\ \A m \in held : n <= m

DecoderGives ==
    /\ Goes("decode", "filter")
    /\ \E n \in decoder.held :
          /\ Earliest(n, decoder.held)
          /\ frame' = n
          /\ decoder' = [decoder EXCEPT !.held = @ \ {n}]
    /\ cursor' = 1
    /\ UNCHANGED <<packets, first, filters, outputs, base, turn, filtered>>

DecoderWaits ==
    /\ Goes("decode", "read")
    /\ ~decoder.draining
    /\ UNCHANGED <<packets, first, stages, hands>>

\* Mutant of DecoderEnds: the encoders are not flushed.
DecoderEndsAlone ==
    /\ Goes("decode", "closing")
    /\ decoder.draining /\ decoder.held = {}
    /\ turn' = 1
    /\ UNCHANGED <<packets, first, stages, cursor, frame, filtered>>

\* AVERROR_EOF: the decoder is empty, every encoder is flushed.
DecoderEnds ==
    /\ Goes("decode", "flush")
    /\ decoder.draining /\ decoder.held = {}
    /\ turn' = base + 1
    /\ UNCHANGED <<packets, first, stages, cursor, frame, filtered>>

\* The message about the error names the packet, which is NULL in a drain.
DecoderFails ==
    /\ at = "decode"
    /\ at' = IF decoder.draining THEN "dead" ELSE "read"
    /\ \E lost \in SUBSET decoder.held :
          decoder' = [decoder EXCEPT !.ok = FALSE, !.held = @ \ lost]
    /\ UNCHANGED <<packets, first, filters, outputs, base, hands>>
-----------------------------------------------------------------------------
(* OnDecodedFrame and sendFrameToFilter: the frame goes through every filter,  *)
(* whatever a filter gives goes to every encoder behind it, and the encoders   *)
(* that have no filter get the frame last.                                    *)

Feed(held, ok) ==
    filters' = [filters EXCEPT ![cursor].count = @ + 1, ![cursor].held = held,
                               ![cursor].ok = ok]

\* framestep passes one frame in `skip`.
Passes(f) == f.count % f.config.skip = 0

FilterTakes ==
    /\ Goes("filter", "sink")
    /\ cursor \in DOMAIN filters
    /\ LET f == filters[cursor]
       IN Feed(IF Passes(f) THEN f.held \cup {frame} ELSE f.held, f.ok)
    /\ UNCHANGED <<packets, first, decoder, outputs, base, hands>>

FilterRefuses ==
    /\ at = "filter"
    /\ cursor \in DOMAIN filters
    /\ LET f == filters[cursor] IN Feed(f.held, FALSE)
    /\ cursor' = cursor + 1
    /\ UNCHANGED <<at, packets, first, decoder, outputs, base, turn, frame, filtered>>

FilterGives ==
    /\ Goes("sink", "encode")
    /\ \E n \in filters[cursor].held :
          /\ Earliest(n, filters[cursor].held)
          /\ filtered' = n
          /\ filters' = [filters EXCEPT ![cursor].held = @ \ {n}]
    /\ turn' = base + 1
    /\ UNCHANGED <<packets, first, decoder, outputs, base, cursor, frame>>

\* EAGAIN.  Scaling holds nothing back; resampling regroups the samples into
\* the encoder's frame size and keeps the rest.
FilterWaits ==
    /\ Goes("sink", "filter")
    /\ Media = "video" => filters[cursor].held = {}
    /\ cursor' = cursor + 1
    /\ UNCHANGED <<packets, first, stages, turn, frame, filtered>>

FilterFails ==
    /\ Goes("sink", "filter")
    /\ \E lost \in SUBSET filters[cursor].held :
          filters' = [filters EXCEPT ![cursor].ok = FALSE, ![cursor].held = @ \ lost]
    /\ cursor' = cursor + 1
    /\ UNCHANGED <<packets, first, decoder, outputs, base, turn, frame, filtered>>

FiltersDone ==
    /\ Goes("filter", "direct")
    /\ cursor \notin DOMAIN filters
    /\ cursor' = 1
    /\ turn' = base + 1
    /\ UNCHANGED <<packets, first, stages, frame, filtered>>
-----------------------------------------------------------------------------
(* encodeFrame, and the output's send_output_packet for each packet.           *)

\* Output i's encoder has taken in and gives some of what it has, in order.
Emits(i, taken, ok, out) ==
    outputs' = [outputs EXCEPT
        ![i].held = taken \ out,
        ![i].sent = @ \cup out,
        ![i].frames = @ + Cardinality(out),
        ![i].intra = @ \cup {n \in taken \ outputs[i].held : ForcedIntra(n)},
        ![i].ok = ok]

\* A drain (new = {}) empties it.
EncoderWorks(i, new) ==
    LET taken == outputs[i].held \cup new
    IN \E out \in Prefixes(taken) :
           /\ new = {} => out = taken
           /\ Emits(i, taken, outputs[i].ok, out)

\* Refused (EAGAIN is taken for 0), or an error after some packets; the caller
\* ignores both.
EncoderFails(i, new) ==
    \E taken \in {outputs[i].held, outputs[i].held \cup new} :
        \E out \in Prefixes(taken) : Emits(i, taken, FALSE, out)

EncodeFrame(i, new) == EncoderWorks(i, new) \/ EncoderFails(i, new)

\* One round of a loop over the session's outputs at place p: output `turn` gets
\* `new` if it is to be served.
ServeTurn(p, serves, new) ==
    /\ at = p
    /\ turn \in Current
    /\ IF serves THEN EncodeFrame(turn, new) ELSE UNCHANGED outputs
    /\ turn' = turn + 1
    /\ UNCHANGED <<at, packets, first, decoder, filters, base, cursor, frame, filtered>>

ServeEnds(p, next) ==
    /\ Goes(p, next)
    /\ turn \notin Current
    /\ UNCHANGED <<packets, first, stages, cursor>>

\* Mutants of Filtered and Direct: the guard on filterId is dropped.
FilteredByAny(o) == o.encoder
DirectToAll(o) == o.encoder

Filtered(o) == o.encoder /\ o.filterId = cursor
Direct(o) == o.encoder /\ o.filterId = 0
Encoded(o) == o.encoder

EncodeFiltered == ServeTurn("encode", Filtered(outputs[turn]), {filtered})
EncodedFiltered ==
    ServeEnds("encode", "sink") /\ turn' = 1 /\ filtered' = 0 /\ UNCHANGED frame
EncodeDirect == ServeTurn("direct", Direct(outputs[turn]), {frame})
EncodedDirect ==
    ServeEnds("direct", "decode") /\ turn' = 1 /\ frame' = 0 /\ UNCHANGED filtered
Flush == ServeTurn("flush", Encoded(outputs[turn]), {})
\* Mutant of Flushed: only this session's outputs are closed.
FlushedCurrent ==
    ServeEnds("flush", "closing") /\ turn' = base + 1 /\ UNCHANGED <<frame, filtered>>

Flushed ==
    ServeEnds("flush", "closing") /\ turn' = 1 /\ UNCHANGED <<frame, filtered>>
-----------------------------------------------------------------------------
(* The end of processClient: transcode_session_output_close of every output    *)
(* the server ever made, those of earlier sessions included.                  *)

CloseOutput ==
    /\ at = "closing"
    /\ turn \in DOMAIN outputs
    /\ outputs' = [outputs EXCEPT
                      ![turn].phase = IF @ = "described" THEN "ended" ELSE @]
    /\ turn' = turn + 1
    /\ UNCHANGED <<at, packets, first, decoder, filters, base, cursor, frame, filtered>>

ClosedAll ==
    /\ Goes("closing", "done")
    /\ turn \notin DOMAIN outputs
    /\ UNCHANGED <<packets, first, stages, hands>>

\* A packager is gone: SIGPIPE ends the process in the next send.
Killed ==
    /\ at \in {"body", "adding", "encode", "direct", "flush", "closing"}
    /\ at = "adding" \/ \E i \in DOMAIN outputs : outputs[i].phase = "described"
    /\ at' = "dead"
    /\ UNCHANGED <<packets, first, stages, hands>>

SessionStep ==
    \/ SkipDisabled \/ AddPassthrough \/ AddTranscoded
    \/ AddOverruns \/ AddCrashes \/ AllAdded
    \/ DecoderGives \/ DecoderWaits \/ DecoderEnds \/ DecoderFails
    \/ FilterTakes \/ FilterRefuses \/ FilterGives \/ FilterWaits \/ FilterFails
    \/ FiltersDone
    \/ EncodeFiltered \/ EncodedFiltered \/ EncodeDirect \/ EncodedDirect
    \/ Flush \/ Flushed
    \/ CloseOutput \/ ClosedAll
=============================================================================
