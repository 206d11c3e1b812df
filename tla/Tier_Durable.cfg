SPECIFICATION Spec
CONSTANTS
  Stream <- BodyAndThumb
  Index <- OneIndex
  Pinned <- Thumb
  Bytes = {b1}
  None = None
  Capacity = 1
  Request = {r1}
  Sweeper = {sw}
  Backup = {bk}
  Events <- AllButCount
INVARIANTS
  NoChunkLost
  NoFalseMiss
  PinnedStaysLocal
  BackupAccountsForAll
  BackupMissingIsGone
PROPERTY ImplementsChunkStore
