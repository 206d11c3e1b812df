SPECIFICATION Spec
CONSTANTS
  User = {owner, alice}
  Owner = owner
  Recovery = Recovery
  None = None
  Stream <- OnlyContent
  Index <- TwoIndices
  Framings <- WholeFile
  Audiences <- Everybody
  MaxVersion = 2
  Writer = {w}
  Asker = {r}
  Events = {"drop", "iofail", "delete"}
INVARIANTS FinalizedWhole VersionChain RecoveryAlwaysWrapped ViewHoldsOrIsSuperseded
PROPERTIES WrapsVanishOnRecord ImplementsVersionedFile
