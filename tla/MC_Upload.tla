----------------------------- MODULE MC_Upload -----------------------------
\* Model values for a resumable upload: two content chunks and a metadata chunk.
EXTENDS ResumableUpload

Streams == {"content", "metadata"}
TwoIndices == {0, 1}
Metadata == {<<"metadata", 0>>}
OneFraming == {Whole}
WithEscrow == {{Owner, Recovery}}

DropsAndDiscards == {"drop", "delete"}
=============================================================================
