------------------------------- MODULE Base58 -------------------------------
(***************************************************************************)
(* gate/base58.go.  A base58 string is the sequence of the b58Index values *)
(* of its characters, -1 for a character outside the alphabet; the         *)
(* character '1' has index 0.  Byte strings are sequences of 0..255.       *)
(***************************************************************************)
EXTENDS Integers, Sequences, SequencesExt

CONSTANT KeyLen   \* bytes in a public key: 32 in the code

ASSUME KeyLenAssumption == KeyLen \in Nat \ {0}

Radix == 58

ByteBase == 256

(* b58Index of a character that is not in the alphabet. *)
NoIndex == -1

Base58Text == Seq(NoIndex..(Radix - 1))

(* big.Int Mul/Add over the digits, most significant first. *)
ValueOf(digits, base) ==
    LET value[i \in 0..Len(digits)] ==
            IF i = 0 THEN 0 ELSE value[i - 1] * base + digits[i]
    IN  value[Len(digits)]

(* big.Int.Bytes for base 256, DivMod in a loop for base 58: the digits of  *)
(* n without leading zeros, so none at all for zero.                        *)
DigitsOf(n, base) ==
    LET digits[k \in 0..n] ==
            IF k = 0 THEN <<>> ELSE Append(digits[k \div base], k % base)
    IN  digits[n]

(* Mutation of LeadingZeros: they are dropped. *)
LeadingZerosDropped(s) == 0

LeadingZeros(s) ==
    CHOOSE z \in 0..Len(s) : /\ \A i \in 1..z : s[i] = 0
                             /\ z < Len(s) => s[z + 1] # 0

(* The zero run at the front of the one notation is kept, the rest is       *)
(* converted from one radix to the other.                                   *)
Convert(s, from, to) ==
    [i \in 1..LeadingZeros(s) |-> 0] \o DigitsOf(ValueOf(s, from), to)

decodeBase58(s) ==
    IF \E i \in DOMAIN s : s[i] = NoIndex
    THEN [ok |-> FALSE, bytes |-> <<>>]
    ELSE [ok |-> TRUE, bytes |-> Convert(s, Radix, ByteBase)]

(* Mutation of decodePubkey32: the length is not checked. *)
decodePubkeyAnyLength(s) ==
    [ok |-> decodeBase58(s).ok, bytes |-> decodeBase58(s).bytes]

(* Anything but KeyLen decoded bytes is an error. *)
decodePubkey32(s) ==
    LET raw == decodeBase58(s)
        ok  == raw.ok /\ Len(raw.bytes) = KeyLen
    IN  [ok |-> ok, bytes |-> IF ok THEN raw.bytes ELSE <<>>]

EncodeBase58(b) == Convert(b, ByteBase, Radix)
=============================================================================
