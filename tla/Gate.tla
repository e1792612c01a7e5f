-------------------------------- MODULE Gate --------------------------------
(***************************************************************************)
(* gate/gate.go and gate/binding.go: the decision vocabulary and the       *)
(* intent binding.  What Evaluate does to shared state, step by step, is   *)
(* in EnforcementCore; this module holds its pure parts.                   *)
(*                                                                         *)
(* A payment is a record of the six PaymentRequirements fields.  Scheme,   *)
(* network and resource are opaque names, asset and payTo base58 strings   *)
(* (Base58), the amount a record [sign, digits]: sign is "none", "plus" or *)
(* "minus", digits the number its decimal digits denote or NotDecimal.     *)
(***************************************************************************)
EXTENDS Base58, Crypto

CONSTANTS
    SchemeTag,    \* Allowlist.Schemes: accepted scheme -> u8 tag
    NetworkTag,   \* Allowlist.Networks: accepted network -> u8 tag
    AmountWidth,  \* bytes of a bound amount: 16 in the code
    ZeroTime      \* Unix seconds of Go's zero time.Time ("no expiry set")

ASSUME AmountWidthAssumption == AmountWidth \in Nat \ {0}
ASSUME ZeroTimeAssumption == ZeroTime \in Int

NotDecimal == -1

---------------------------------------------------------------------------
(* Decision classes: the iota values of gate.DecisionClass. *)
Allow == 0

DenyViolation == 1

DenyUnavailable == 2

(* The result variable before Evaluate returns. *)
Undecided == -1

Decision(class, reason, binding) ==
    [class |-> class, reason |-> reason, binding |-> binding]

---------------------------------------------------------------------------
DomainTagX402 == "spt-txn/x402-payment/v1"

BindingLayoutVersion == 1

(* new(big.Int).SetString(s, 10): an optional sign, then decimal digits. *)
SetString10(a) ==
    [ok |-> a.digits # NotDecimal,
     n  |-> IF a.sign = "minus" THEN -a.digits ELSE a.digits]

(* Little-endian, zero-padded to the full width; never truncated. *)
amount16LE(n) ==
    LET be == DigitsOf(n, ByteBase)
    IN  [i \in 1..AmountWidth |-> IF i <= Len(be) THEN be[Len(be) + 1 - i] ELSE 0]

(* Mutation of AmountInRange: one byte too many is accepted. *)
AmountInRangeWider(n) == n >= 0 /\ Len(DigitsOf(n, ByteBase)) <= AmountWidth + 1

(* Not a.Sign() < 0, and not a.BitLen() > 128: no more than AmountWidth     *)
(* bytes are needed.                                                        *)
AmountInRange(n) == n >= 0 /\ Len(DigitsOf(n, ByteBase)) <= AmountWidth

(* Mutation of computeBindingRaw: the amount is left out. *)
computeBindingRawNoAmount(schemeTag, networkTag, asset, payTo, n, resource, nonce) ==
    Sha256(<<DomainTagX402, 0, BindingLayoutVersion, schemeTag, networkTag>>
             \o asset \o payTo \o <<Sha256(resource), nonce>>)

(* The fixed-width layout: every block has one width for all payments.  A   *)
(* digest and a nonce are one block each.                                   *)
computeBindingRaw(schemeTag, networkTag, asset, payTo, n, resource, nonce) ==
    Sha256(<<DomainTagX402, 0, BindingLayoutVersion, schemeTag, networkTag>>
             \o asset \o payTo \o amount16LE(n)
             \o <<Sha256(resource), nonce>>)

(* The first check of ComputeBinding that fails, "" if all pass. *)
BindingError(pr) ==
    LET amount == SetString10(pr.amount)
    IN  IF pr.scheme \notin DOMAIN SchemeTag THEN "unknown scheme"
        ELSE IF pr.network \notin DOMAIN NetworkTag THEN "unknown network"
        ELSE IF ~(decodePubkey32(pr.asset).ok /\ decodePubkey32(pr.payTo).ok) THEN "bad pubkey"
        ELSE IF ~(amount.ok /\ AmountInRange(amount.n)) THEN "bad amount"
        ELSE ""

(* An error comes with the zero binding. *)
ComputeBinding(pr, nonce) ==
    LET err == BindingError(pr)
    IN  [err |-> err,
         binding |->
            IF err # "" THEN Zero32
            ELSE computeBindingRaw(SchemeTag[pr.scheme], NetworkTag[pr.network],
                    decodePubkey32(pr.asset).bytes, decodePubkey32(pr.payTo).bytes,
                    SetString10(pr.amount).n, pr.resource, nonce)]

(* What the parties to a payment would call the same payment. *)
PaymentMeaning(pr, nonce) ==
    [scheme |-> pr.scheme, network |-> pr.network,
     asset |-> decodeBase58(pr.asset).bytes, payTo |-> decodeBase58(pr.payTo).bytes,
     amount |-> IF pr.amount.sign = "minus" THEN -pr.amount.digits ELSE pr.amount.digits,
     resource |-> pr.resource, nonce |-> nonce]

---------------------------------------------------------------------------
(* Mutation of Expired: the comparison is the wrong way round. *)
ExpiredReversed(tok, now) == tok.expiry # ZeroTime /\ now <= tok.expiry

(* !tok.Expiry.IsZero() && now.After(tok.Expiry) *)
Expired(tok, now) == tok.expiry # ZeroTime /\ now > tok.expiry
=============================================================================
