---------------------------- MODULE MCController ----------------------------
(* The controller with a profile of one flavor and one video request.       *)
EXTENDS Controller, TLC

SourceOnly ==
    [v \in Variants |->
        [input |-> None, isSource |-> TRUE,
         codec |-> [t \in {"video", "audio"} |-> "h264"],
         bitrate |-> [t \in {"video", "audio"} |-> 1],
         height |-> 1, width |-> None, samplingRate |-> 2]]

VideoRequest ==
    {[input |-> "i1", type |-> "video", codec |-> "h264", bitrate |-> 1,
      height |-> 1, width |-> None, samplingRate |-> 1]}

SlotSymmetry == Permutations(Setups) \cup Permutations(Loops)
=============================================================================
