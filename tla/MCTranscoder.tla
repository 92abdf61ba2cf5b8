---------------------------- MODULE MCTranscoder ----------------------------
(* An instance of Transcoder for TLC.                                         *)
EXTENDS Transcoder

\* Two pictures of the active stream, the first of which is decoded before the time
\* it is shown, which is 0, and a packet of another stream.
MCFile == <<[stream |-> 0, pts |-> 0, dts |-> -1], [stream |-> 1, pts |-> 1, dts |-> 1],
            [stream |-> 0, pts |-> 2, dts |-> 1]>>

MCDurations == {-1, 3}
=============================================================================
