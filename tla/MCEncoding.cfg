CONSTANTS
  KeyLen = 1
  Symbols = {0, 1, 4, 24, 57, 255}
  MaxLen = 3
  AmountWidth = 2
  NoPayment = NoPayment
  Payments <- MCPayments
  Nonces = {1, 2}
  ZeroTime <- MCZeroTime
  SchemeTag <- MCSchemeTag
  NetworkTag <- MCNetworkTag
  Capability <- MCCapability
  UintWidth = 1
SPECIFICATION Spec
INVARIANTS OneTextPerAddress BindingIdentifiesPayment BindsWhateverFits PolicyAgreesWithBinding
CHECK_DEADLOCK FALSE
