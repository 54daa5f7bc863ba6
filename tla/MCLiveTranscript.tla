-------------------------- MODULE MCLiveTranscript --------------------------
(* Bounds that keep the event traffic of LiveTranscript finite and small.    *)
EXTENDS LiveTranscript, FiniteSets, TLC

CONSTANT MaxUnderway  \* bound: events on their way at a time

FirstTwice == [i \in Intent |-> IF i = 1 THEN 2 ELSE 1]
EachOnce == [i \in Intent |-> 1]

FewEvents == Cardinality(publishing) + Len(wire) <= MaxUnderway

=============================================================================
