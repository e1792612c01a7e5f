CONSTANTS
  s1 = s1
  s2 = s2
  s3 = s3
  s4 = s4
  Spenders = {s1, s2, s3, s4}
  NonceOf <- MCNonceOf
  Free = Free
SPECIFICATION FairSpec
INVARIANTS OneWinner
PROPERTIES EveryNonceWon
CHECK_DEADLOCK FALSE
