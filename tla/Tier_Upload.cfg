SPECIFICATION FairSpec
CONSTANTS
  Stream <- BodyAndThumb
  Index <- TwoIndices
  Pinned <- Thumb
  Bytes = {b1}
  None = None
  Capacity = 1
  Request = {r1, r2}
  Sweeper = {sw}
  Backup = {}
  Events <- CountOnly
INVARIANTS QuietCountExact IndexWithinCapacity
PROPERTIES UploadReachesCold
CHECK_DEADLOCK FALSE
