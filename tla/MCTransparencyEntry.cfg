CONSTANTS
  RootReqs = {}
  EntryReqs = {q2}
  Seqs <- MCSeqs
  LogPub = "k1"
  MaxEntries = 3
SPECIFICATION Spec
INVARIANTS EntryProofVerifies
CHECK_DEADLOCK FALSE
