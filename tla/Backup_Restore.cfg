CONSTANTS
  u1 = u1
  Users <- OneUser
  MaxVersion = 2
  MaxGen = 3
  MaxRequests = 4
  MaxStamp = 2
  Keep = 1
  MaxFaults = 1
  MaxRestores = 2
SPECIFICATION Spec
INVARIANTS
  TypeOK
  ListedIsWhole
  FreshBundleStays
  BundleOpens
  ServedOpens
  DeletedStaysDeleted
  NoWrapComesBack
  SupersededStaysGone
  HistoryKept
CHECK_DEADLOCK FALSE
