----------------------------- MODULE MCReceiver -----------------------------
(* Instances of Receiver for TLC: what the transcoder is asked to produce.    *)
EXTENDS Receiver

Passing == [enabled |-> TRUE, passthrough |-> TRUE, software |-> FALSE,
            height |-> 1, skip |-> 1]
Encoding(software, height, skip) ==
    [Passing EXCEPT !.passthrough = FALSE, !.software = software,
                    !.height = height, !.skip = skip]
Disabled == [Passing EXCEPT !.enabled = FALSE]

\* The input itself, two renditions behind one filter, one that drops frames and
\* one that is switched off.
Ladder == <<Passing, Encoding(TRUE, 7, 1), Disabled, Encoding(TRUE, 4, 2),
            Encoding(TRUE, 7, 1)>>
\* The input itself and one rendition.
Simple == <<Passing, Encoding(TRUE, 7, 1)>>
\* A software, a hardware and a software rendition of one size.
Mixed == <<Encoding(TRUE, 7, 1), Encoding(FALSE, 7, 1), Encoding(TRUE, 7, 1)>>

\* Every stage does what it is asked for.
NoneFails ==
    decoder.ok /\ \A stage \in {outputs, filters} : \A i \in DOMAIN stage : stage[i].ok

\* At most one stage of the pipeline fails, as often as it likes.
OneFails ==
    LET Broken(stage) == {i \in DOMAIN stage : ~stage[i].ok}
    IN Cardinality(Broken(outputs)) + Cardinality(Broken(filters))
         + Cardinality(Broken(<<decoder>>)) <= 1
=============================================================================
