CONSTANTS
  n1 = n1
  n2 = n2
  r3 = r3
  Callers = {r1, r2, r3}
  Requests = {r1, r2, r3}
  Nonces = {n1, n2}
  NoReq = NoReq
  LogPub = "k1"
  PepKey <- OneMiskeyed
  PepName = "pep"
  SpendMayFail = TRUE
  MaxClock = 0
  KeyLen = 1
  AmountWidth = 2
  ZeroTime <- MCZeroTime
  SchemeTag <- MCSchemeTag
  NetworkTag <- MCNetworkTag
  HttpInputs <- ContestedInputs
  EmitterIsNoop = FALSE
  EmitOutcomes = {"ok", "error"}
  PolicyOutcomes = {"ok", "violation"}
SPECIFICATION FairSpec
PROPERTIES ImplementsAuthz Answered DenialSurvivesEvidenceOutage
CHECK_DEADLOCK FALSE
