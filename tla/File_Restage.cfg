SPECIFICATION Spec
CONSTANTS
  User = {owner}
  Owner = owner
  Recovery = Recovery
  None = None
  Stream <- OnlyContent
  Index <- TwoIndices
  Framings <- WholeOrShortened
  Audiences <- Everybody
  MaxVersion = 1
  Writer = {w}
  Asker = {}
  Events = {}
INVARIANT FinalizedWhole
