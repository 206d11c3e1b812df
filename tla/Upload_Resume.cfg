SPECIFICATION FairUploadSpec
CONSTANTS
  User = {owner}
  Owner = owner
  Recovery = Recovery
  None = None
  Gone = Gone
  Stream <- Streams
  Index <- TwoIndices
  Content = "content"
  Small <- Metadata
  Chunks = 2
  Framings <- OneFraming
  Audiences <- WithEscrow
  MaxVersion = 1
  Writer = {w1, w2}
  Asker = {}
  Events <- DropsAndDiscards
  MaxFaults = 2
  MaxDiscards = 1
INVARIANTS UploadTypeOK StoredUntilDiscarded
PROPERTY UploadSettles
CHECK_DEADLOCK FALSE
