SPECIFICATION Spec
CONSTANTS
  r1 = r1
  r2 = r2
  c1 = c1
  c2 = c2
  Root <- TwoRoots
  Cert <- TwoCerts
  SignedBy <- OneEach
  NoRoot = NoRoot
  NoCert = NoCert
  MaxFaults = 1
  Task = {t1, t2}
  Name = {alice, bob}
  Recovery = Recovery
  Key = {k1, k2, k3}
  Nonce = {x1}
  KeyVersions = 2
  KeyPairs = 1
  Promoted = {alice, bob}
  NoOne = NoOne
  NoKey = NoKey
SYMMETRY Symmetric
INVARIANTS
  NeverStranded
  FirstAdminOnce
  KeyOpensOneAccount
  OnlyAdminsInvite
  NoLateReplay
  NoWaitCycle
PROPERTIES
  RootStays
  ImplementsRegistry
CHECK_DEADLOCK FALSE
