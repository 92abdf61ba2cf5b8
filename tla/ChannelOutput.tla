---------------------------- MODULE ChannelOutput ----------------------------
(***************************************************************************)
(* The data a channel is about (controller/src/interfaces): a transcoding  *)
(* profile of variants, a setup request, the output configured from both   *)
(* (InputConfiguration.ts) and the output of the channel, into which the   *)
(* configured ones are merged and from which torn down inputs are removed  *)
(* (channelOutput.ts).                                                     *)
(*                                                                         *)
(* An output is a function from variant ids to [inputId, tracks], where    *)
(* tracks maps each track type to the input that feeds it or to None.  The *)
(* order of the variants array matters to nobody.                          *)
(***************************************************************************)
EXTENDS Integers

CONSTANTS Variants,  \* the variant (flavor) ids of the profile
          Inputs,    \* the input streams a channel can have
          None,      \* JavaScript's undefined or null
          Profile    \* see ProfileType

ASSUME NoneAssumption == None \notin Inputs \cup Nat

Types == {"video", "audio"}
Number == Nat \cup {None}

\* A request to set up one track of one input; numbers may be missing.
RequestType == [input : Inputs, type : Types, codec : STRING, bitrate : Number,
                height : Number, width : Number, samplingRate : Number]

\* A flavor of the conversion profile; its stream suffix may be missing.
ProfileType ==
    [Variants -> [input : Inputs \cup {None}, isSource : BOOLEAN,
                  codec : [Types -> STRING], bitrate : [Types -> Number],
                  height : Number, width : Number, samplingRate : Number]]

VariantType == [inputId : Inputs, tracks : [Types -> Inputs \cup {None}]]
OutputType == UNION {[V -> VariantType] : V \in SUBSET Variants}

NoOutput == [v \in {} |-> None]
IsEmpty(out) == DOMAIN out = {}
-----------------------------------------------------------------------------
\* a < b in JavaScript: false when either is undefined.
Less(a, b) == IF a = None \/ b = None THEN FALSE ELSE a < b

\* The request's stream is too poor to make the flavor from, or the flavor is
\* not worth a transcode; only decided when the codecs are the same.
TooPoor(req, rp) ==
    /\ req.codec = rp.codec[req.type]
    /\ \/ Less(req.bitrate, rp.bitrate[req.type])
       \/ /\ req.type = "video"
          /\ Less(req.height, rp.height) \/ Less(req.width, rp.width)
       \/ req.type = "audio" /\ req.samplingRate = rp.samplingRate

\* Mutant of Participating: the flavors of other inputs are not left out.
ParticipatingOfAnyInput(req, whiteList) ==
    {v \in Variants :
        /\ whiteList # {} => v \in whiteList
        /\ Profile[v].isSource \/ ~TooPoor(req, Profile[v])}

\* The flavors a request feeds.
Participating(req, whiteList) ==
    {v \in Variants :
        /\ whiteList # {} => v \in whiteList
        /\ Profile[v].input \in {None, req.input}
        /\ Profile[v].isSource \/ ~TooPoor(req, Profile[v])}

\* The output InputConfiguration.setup makes of a request: one track each.
Configured(req, whiteList) ==
    [v \in Participating(req, whiteList) |->
        [inputId |-> req.input,
         tracks |-> [t \in Types |-> IF t = req.type THEN req.input ELSE None]]]

\* Mutant of WhiteList: the wrong track type is kept to the variants.
WhiteListSwapped(out, req) ==
    IF req.type = "video"
    THEN {v \in DOMAIN out : out[v].inputId = req.input}
    ELSE {}

\* An audio request is kept to the variants its input already feeds, if any.
WhiteList(out, req) ==
    IF req.type = "audio"
    THEN {v \in DOMAIN out : out[v].inputId = req.input}
    ELSE {}
-----------------------------------------------------------------------------
\* Merging: a new variant is taken over, a known one gets the new tracks and
\* keeps its inputId.
Merge(out, new) ==
    [v \in DOMAIN out \cup DOMAIN new |->
        IF v \notin DOMAIN out THEN new[v]
        ELSE IF v \notin DOMAIN new THEN out[v]
        ELSE [out[v] EXCEPT !.tracks =
                [t \in Types |-> IF new[v].tracks[t] # None
                                 THEN new[v].tracks[t] ELSE @[t]]]]

HasTrack(variant) == \E t \in Types : variant.tracks[t] # None

\* The tracks of one type leave the variants of one input.
Stripped(out, input, type) ==
    [v \in DOMAIN out |->
        IF out[v].inputId = input
        THEN [out[v] EXCEPT !.tracks[type] = None] ELSE out[v]]

\* Mutant of RemoveInputTracks: the empty variants are not filtered out.
RemoveInputTracksOnly(out, input, type) == Stripped(out, input, type)

\* Removing an input's tracks of one type, and the variants left with none.
RemoveInputTracks(out, input, type) ==
    LET stripped == Stripped(out, input, type)
    IN  [v \in {w \in DOMAIN out : HasTrack(stripped[w])} |-> stripped[v]]
=============================================================================
