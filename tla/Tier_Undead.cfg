SPECIFICATION Spec
CONSTANTS
  Stream <- Streams
  Index <- TwoIndices
  Pinned <- NoTask
  Bytes = {b1}
  None = None
  Capacity = 1
  Request = {r1, r2}
  Sweeper = {}
  Backup = {}
  Events <- ReadAndDelete
SYMMETRY Symmetric
INVARIANTS DeletedIsPurged
