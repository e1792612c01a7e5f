CONSTANTS
  Alphabet <- MCAlphabet
  MaxLeaves = 8
SPECIFICATION TreeSpec
INVARIANTS RootMatchesReference ProofsVerify ProofsSound RootIdentifiesLog
CHECK_DEADLOCK FALSE
