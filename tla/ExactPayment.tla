---------------------------- MODULE ExactPayment ----------------------------
(***************************************************************************)
(* mcpgate/mcpgate.go: ExactPayment, the policy that holds the one         *)
(* capability a human approved for an agent.                               *)
(***************************************************************************)
EXTENDS Gate

CONSTANTS
    Capability,  \* the ExactPayment: [asset, payTo, resource, maxAmount]
    UintWidth    \* bytes of a uint64: 8 in the code

ASSUME UintAssumption == UintWidth \in Nat \ {0}
ASSUME CapabilityAssumption ==
    /\ Capability.asset \in Base58Text /\ Capability.payTo \in Base58Text
    /\ Capability.maxAmount \in Nat /\ AmountInRange(Capability.maxAmount)
    /\ ByteBase ^ UintWidth \in Nat /\ Capability.maxAmount < ByteBase ^ UintWidth

(* Mutation of ParseUint: a number that is too large wraps. *)
ParseUintWraps(a) ==
    [ok |-> a.sign = "none" /\ a.digits # NotDecimal,
     n  |-> a.digits % ByteBase ^ UintWidth]

(* strconv.ParseUint(s, 10, 64): digits only, no sign, in range. *)
ParseUint(a) ==
    [ok |-> a.sign = "none" /\ a.digits # NotDecimal /\ a.digits < ByteBase ^ UintWidth,
     n  |-> a.digits]

(* Mutation of ExactPaymentVerify: the limit itself is refused. *)
ExactPaymentVerifyBelow(pr) ==
    IF /\ pr.asset = Capability.asset
       /\ pr.payTo = Capability.payTo
       /\ pr.resource = Capability.resource
       /\ ParseUint(pr.amount).ok
       /\ ParseUint(pr.amount).n < Capability.maxAmount
    THEN "ok" ELSE "violation"

(* ExactPayment.Verify, as a verdict of Policy. *)
ExactPaymentVerify(pr) ==
    IF /\ pr.asset = Capability.asset
       /\ pr.payTo = Capability.payTo
       /\ pr.resource = Capability.resource
       /\ ParseUint(pr.amount).ok
       /\ ParseUint(pr.amount).n <= Capability.maxAmount
    THEN "ok" ELSE "violation"

(* The bindings of the payments the human approved, for nonce n. *)
ApprovedBindings(scheme, network, n) ==
    {computeBindingRaw(SchemeTag[scheme], NetworkTag[network],
        decodePubkey32(Capability.asset).bytes, decodePubkey32(Capability.payTo).bytes,
        amount, Capability.resource, n) : amount \in 0..Capability.maxAmount}
=============================================================================
