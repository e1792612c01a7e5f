CONSTANTS
  n1 = n1
  n2 = n2
  r3 = r3
  Callers = {r1, r2}
  Requests = {r1, r2}
  Nonces = {n1, n2}
  NoReq = NoReq
  LogPub = "k1"
  PepKey <- OneKey
  PepName = "pep"
  SpendMayFail = TRUE
  MaxClock = 1
  KeyLen = 1
  AmountWidth = 2
  ZeroTime <- MCZeroTime
  SchemeTag <- MCSchemeTag
  NetworkTag <- MCNetworkTag
  HttpInputs <- AllInputs
  EmitterIsNoop = FALSE
  EmitOutcomes = {"ok", "error"}
  PolicyOutcomes = {"ok", "violation", "unavailable"}
SPECIFICATION Spec
SYMMETRY CallerSymmetry
INVARIANTS TypeOK SingleUse BurnedOnlyBySpend ReplayIsReal ChainSound ServedHasEvidence EvidenceTiedToPayment AuditMatchesAnswer
CHECK_DEADLOCK FALSE
