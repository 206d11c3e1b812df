------------------------------ MODULE MC_Tier ------------------------------
\* Model values for the write-back tier; the cfg files choose among them.
EXTENDS WriteBackTier, TLC

Streams == {"body"}
BodyAndThumb == {"body", "thumb"}
Thumb == {"thumb"}
OneIndex == {0}
TwoIndices == {0, 1}
NoTask == {}

\* The events of each question the runs ask.
AllButCount == EventKinds \ {"count"}
CountOnly == {"count"}
ReadAndDelete == {"get", "delete"}

\* Requests are interchangeable.
Symmetric == Permutations(Request)
=============================================================================
