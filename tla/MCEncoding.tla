----------------------------- MODULE MCEncoding -----------------------------
(***************************************************************************)
(* The pure functions between a payment and its binding.  A behaviour      *)
(* either grows one string for Base58, symbol by symbol, or puts two       *)
(* payments to ComputeBinding, one after the other.                        *)
(*                                                                         *)
(* A string whose symbols are all below Radix is read both as bytes and as *)
(* base58 text.  Keys are one byte long: <<4, 24>> and <<0, 5>> are the    *)
(* texts of two-byte strings, [1, 0] and [0, 5], which next to [5] and [1] *)
(* would read alike.                                                       *)
(***************************************************************************)
EXTENDS ExactPayment

CONSTANTS
    NoPayment,
    Payments,     \* the payments that are put to ComputeBinding
    Nonces,       \* the nonces they are put with
    Symbols,      \* byte values: zero, one, both sides of a carry, the largest
    MaxLen        \* bound on the length of a string

ASSUME SymbolsAssumption == Symbols \subseteq 0..(ByteBase - 1)
ASSUME PaymentsAssumption ==
    \A p \in Payments :
        p.asset \in Base58Text /\ p.payTo \in Base58Text /\ p.amount.digits \in Int

VARIABLES string, first, second

vars == <<string, first, second>>

(* Go's zero time is long before the epoch. *)
MCZeroTime == -1

MCSchemeTag == [s \in {"exact"} |-> 1]

MCNetworkTag == [n \in {"devnet", "mainnet"} |-> IF n = "devnet" THEN 2 ELSE 1]

Addresses == {<<1>>, <<5>>, <<4, 24>>, <<0, 5>>}

(* At the limit of the capability and beyond it, beyond a uint, the largest *)
(* that binds and beyond it, text that is no number, and signs.             *)
AmountTexts ==
    {[sign |-> "none", digits |-> d]
        : d \in {0, 7, 8, 256 + 7, 256 * 256 - 1, 256 * 256, NotDecimal}}
      \cup {[sign |-> s, digits |-> 7] : s \in {"plus", "minus"}}

MCCapability == [asset |-> <<5>>, payTo |-> <<1>>, resource |-> "a", maxAmount |-> 7]

(* All of one scheme and network, and some of others, known and unknown. *)
MCPayments ==
    [scheme : {"exact"}, network : {"devnet"}, asset : Addresses, payTo : Addresses,
     amount : AmountTexts, resource : {"a", "b"}]
      \cup
    [scheme : {"exact", "upto"}, network : {"devnet", "mainnet", "testnet"},
     asset : {<<5>>}, payTo : {<<1>>}, amount : AmountTexts, resource : {"a"}]

Considered == [pr : Payments, nonce : Nonces]

Init == string = <<>> /\ first = NoPayment /\ second = NoPayment

AddSymbol(b) ==
    /\ first = NoPayment
    /\ Len(string) < MaxLen
    /\ string' = Append(string, b)
    /\ UNCHANGED <<first, second>>

ConsiderFirst ==
    /\ string = <<>> /\ first = NoPayment
    /\ first' \in Considered
    /\ UNCHANGED <<string, second>>

ConsiderSecond ==
    /\ first # NoPayment /\ second = NoPayment
    /\ second' \in Considered
    /\ UNCHANGED <<string, first>>

Next == (\E b \in Symbols : AddSymbol(b)) \/ ConsiderFirst \/ ConsiderSecond

Spec == Init /\ [][Next]_vars

---------------------------------------------------------------------------
(* "decodeBase58(EncodeBase58(b)) == b for all b" (base58.go), leading zero *)
(* bytes, carries and the empty string included, and the other way round:   *)
(* an address has one text only, text that decodes is what its bytes encode *)
(* to.  ExactPayment compares addresses as text, the binding as bytes; they *)
(* agree because of this.                                                   *)
OneTextPerAddress ==
    LET back == decodeBase58(EncodeBase58(string))
    IN  /\ back.ok /\ back.bytes = string
        /\ (\A i \in DOMAIN string : string[i] < Radix)
              => EncodeBase58(decodeBase58(string).bytes) = string

Bound(c) == c # NoPayment /\ BindingError(c.pr) = ""

Meaning(c) == PaymentMeaning(c.pr, c.nonce)

(* Two payments that bind have the same binding exactly when they are the   *)
(* same payment under the same nonce: no field can borrow bytes from its    *)
(* neighbour, no amount wraps, and how an amount is written does not matter.*)
BindingIdentifiesPayment ==
    Bound(first) /\ Bound(second) =>
        (ComputeBinding(first.pr, first.nonce).binding
            = ComputeBinding(second.pr, second.nonce).binding
         <=> Meaning(first) = Meaning(second))

(* How many numbers AmountWidth bytes can tell apart. *)
Capacity ==
    LET values[w \in 0..AmountWidth] == IF w = 0 THEN 1 ELSE 256 * values[w - 1]
    IN  values[AmountWidth]

(* What is refused is what cannot be bound: a decimal amount that fits, on  *)
(* addresses of the right size, under a scheme and a network of the         *)
(* allowlist, always binds.                                                 *)
BindsWhateverFits ==
    first # NoPayment =>
        (Bound(first) <=>
            /\ first.pr.scheme \in DOMAIN SchemeTag /\ first.pr.network \in DOMAIN NetworkTag
            /\ first.pr.amount.digits # NotDecimal
            /\ Meaning(first).amount \in 0..(Capacity - 1)
            /\ Len(Meaning(first).asset) = KeyLen /\ Len(Meaning(first).payTo) = KeyLen)

(* The policy and the binding agree on what was approved.  Of the payments  *)
(* that bind, ExactPayment.Verify accepts exactly those written without a   *)
(* sign whose binding is the approved asset, recipient and resource with an *)
(* amount up to the limit: it compares addresses as text and reads the      *)
(* amount with ParseUint, the binding is made of decoded bytes and reads it *)
(* with big.Int.SetString.                                                  *)
PolicyAgreesWithBinding ==
    Bound(first) =>
        (ExactPaymentVerify(first.pr) = "ok" <=>
            /\ first.pr.amount.sign = "none"
            /\ ComputeBinding(first.pr, first.nonce).binding
                  \in ApprovedBindings(first.pr.scheme, first.pr.network, first.nonce))
=============================================================================
