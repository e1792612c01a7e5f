CONSTANTS
  n1 = n1
  n2 = n2
  t2 = t2
  Callers = {r1}
  Requests = {r1}
  ToolCalls = {}
  Nonces = {n1, n2}
  NoReq = NoReq
  LogPub = "k1"
  PepKey <- PepOneKey
  EnforcerKey <- OneMiskeyed
  PepName = "pep"
  SpendMayFail = TRUE
  Configs <- AllDurable
  MaxClock = 0
  MaxCrashes = 1
  KeyLen = 1
  AmountWidth = 2
  UintWidth = 1
  ZeroTime <- MCZeroTime
  SchemeTag <- MCSchemeTag
  NetworkTag <- MCNetworkTag
  EnforcerScheme = "exact"
  EnforcerNetwork = "devnet"
  Capability <- MCCapability
  HttpInputs <- OneHttpInput
  CallInputs <- ApprovedCalls
  EmitterIsNoop = FALSE
  EmitOutcomes = {"ok", "error"}
  PolicyOutcomes = {"ok"}
SPECIFICATION DepSpec
INVARIANTS ServedKeepsEntry
CHECK_DEADLOCK FALSE
