SPECIFICATION Spec
CONSTANTS
  a1 = a1
  a2 = a2
  alice = alice
  f1 = f1
  s1 = s1
  s2 = s2
  Admin <- TwoAdmins
  Ceremony <- TwoCeremonies
  AdminOf <- OneEach
  User <- Everyone
  Recipient <- Alice
  File <- OneFile
  AccountWide = AccountWide
  NoAdmin = NoAdmin
  NoRow = NoRow
  Unpinned = Unpinned
  Client = {c}
  Order <- BackAndForth
  MaxRows = 3
  MaxRestores = 1
INVARIANTS TypeOK AcceptedSetIsWhole ConfirmedRevocationHolds ConfirmedNarrowingHolds
