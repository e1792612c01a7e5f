CONSTANTS
  n1 = n1
  n2 = n2
  t2 = t2
  Callers = {r1, t1, t2}
  Requests = {r1}
  ToolCalls = {t1, t2}
  Nonces = {n1, n2}
  NoReq = NoReq
  LogPub = "k1"
  PepKey <- PepOneKey
  EnforcerKey <- OneMiskeyed
  PepName = "pep"
  SpendMayFail = FALSE
  Configs <- DurableOrNot
  MaxClock = 1
  MaxCrashes = 1
  KeyLen = 1
  AmountWidth = 2
  UintWidth = 1
  ZeroTime <- MCZeroTime
  SchemeTag <- MCSchemeTag
  NetworkTag <- MCNetworkTag
  EnforcerScheme = "exact"
  EnforcerNetwork = "devnet"
  Capability <- MCCapability
  HttpInputs <- OneHttpInput
  CallInputs <- AgentCalls
  EmitterIsNoop = FALSE
  EmitOutcomes = {"ok", "error"}
  PolicyOutcomes = {"ok"}
SPECIFICATION DepSpec
INVARIANTS ServedOnce PermitMeansSpent AllowedIsApproved EntryIsDecision ServedKeepsReceipt ChainRespectsRealTime ExpiryIsFinal
PROPERTIES ImplementsLossyLog
CHECK_DEADLOCK FALSE
