----------------------------- MODULE MCChannels -----------------------------
(***************************************************************************)
(* Profiles and requests for the instances of Channels, one per question:  *)
(* inputs (own and shared flavors), liveness, and the calls to the backend. *)
(* Setups that race, under the lock of LocalCache, are in MCController.    *)
(***************************************************************************)
EXTENDS Channels, TLC

Flavor(input, isSource, height) ==
    [input |-> input, isSource |-> isSource,
     codec |-> [t \in Types |-> "h264"], bitrate |-> [t \in Types |-> 1],
     height |-> height, width |-> None, samplingRate |-> 2]

Request(input, type) ==
    [input |-> input, type |-> type, codec |-> "h264", bitrate |-> 1,
     height |-> 1, width |-> None, samplingRate |-> 1]

SourceOnly == [v \in Variants |-> Flavor(None, TRUE, 1)]
VideoAndAudio == {Request("i1", t) : t \in Types}
VideoRequest == {Request("i1", "video")}

\* "v1" and "v2" are made of their own inputs, "low" of whichever is rich enough:
\* the video requests are not, the audio ones are.
OwnAndShared == [v \in Variants |-> CASE v = "v1" -> Flavor("i1", TRUE, 1)
                                      [] v = "v2" -> Flavor("i2", TRUE, 1)
                                      [] v = "low" -> Flavor(None, FALSE, 2)]
TwoInputs == {Request("i1", "video"), Request("i1", "audio"),
              Request("i2", "audio")}
=============================================================================
