CONSTANTS
  Savers = {s1, s2}
  LogPub = "k1"
  OtherPub = "k2"
  MaxLogEntries = 3
  MaxEntries = 3
  MaxSaves = 3
  MaxCrashes = 2
SPECIFICATION Spec
INVARIANTS SnapshotLoads FileIsPastLog SettledAnchorHolds SavedCoversCall AlterationIsRollback
PROPERTIES ImplementsLossyLog
CHECK_DEADLOCK FALSE
SYMMETRY SaverSymmetry
