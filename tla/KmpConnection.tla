--------------------------- MODULE KmpConnection ---------------------------
(***************************************************************************)
(* What a transcoder promises on each connection it opens to a packager    *)
(* (the sending half of KMP.c): CONNECT and MEDIA_INFO first, then frames  *)
(* in the order of their numbers and none twice, then at most one EOS and  *)
(* nothing after it.  The outputs of TranscodeSession implement it.        *)
(***************************************************************************)
EXTENDS Naturals, FiniteSets

VARIABLES phase,   \* "none", "described" (CONNECT and MEDIA_INFO sent), "ended"
          sent,    \* numbers of the frames sent
          frames   \* how many frames were sent

kmpVars == <<phase, sent, frames>>

KmpInit == phase = "none" /\ sent = {} /\ frames = 0

Describe ==
    /\ phase = "none"
    /\ phase' = "described"
    /\ UNCHANGED <<sent, frames>>

\* One or more frames, all later than what was sent.
SendFrames ==
    /\ phase = "described"
    /\ sent \subseteq sent'
    /\ \A m \in sent, n \in sent' \ sent : m < n
    /\ frames' = frames + Cardinality(sent' \ sent)
    /\ UNCHANGED phase

SendEof ==
    /\ phase = "described"
    /\ phase' = "ended"
    /\ UNCHANGED <<sent, frames>>

KmpNext == Describe \/ SendFrames \/ SendEof

KmpSpec == KmpInit /\ [][KmpNext]_kmpVars
=============================================================================
