SPECIFICATION UploadSpec
CONSTANTS
  User = {owner}
  Owner = owner
  Recovery = Recovery
  None = None
  Gone = Gone
  Stream <- Streams
  Index <- TwoIndices
  Content = "content"
  Small <- Metadata
  Chunks = 2
  Framings <- OneFraming
  Audiences <- WithEscrow
  MaxVersion = 1
  Writer = {w1, w2}
  Asker = {}
  Events <- DropsAndDiscards
  MaxFaults = 0
  MaxDiscards = 1
PROPERTY DiscardSparesPublished
CHECK_DEADLOCK FALSE
