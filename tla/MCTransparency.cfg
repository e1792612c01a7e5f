CONSTANTS
  RootReqs = {q1}
  EntryReqs = {q2}
  Seqs <- MCSeqs
  LogPub = "k1"
  MaxEntries = 5
SPECIFICATION Spec
INVARIANTS NeverInternalError RootIsOfServedPeriod QuietReadIsExact
CHECK_DEADLOCK FALSE
