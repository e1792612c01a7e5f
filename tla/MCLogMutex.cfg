CONSTANTS
  a1 = a1
  a2 = a2
  a3 = a3
  e1 = e1
  rLen = rLen
  rAt = rAt
  rRoot = rRoot
  rProof = rProof
  rVerify = rVerify
  Appenders = {a1, a2, a3}
  Encoders = {e1}
  Readers = {rLen, rAt, rRoot, rProof, rVerify}
  Ask <- MCAsk
  LogPub = "k1"
  Free = Free
  NoAnswer = NoAnswer
  KeyOf <- MCKeyOf
  Payload <- MCPayload
SPECIFICATION FairSpec
INVARIANTS ReturnedIsLogged
PROPERTIES ImplementsAtomicLog
CHECK_DEADLOCK FALSE
