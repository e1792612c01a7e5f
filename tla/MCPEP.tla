-------------------------------- MODULE MCPEP --------------------------------
(* Small instances of PEP.  Keys are one byte long and amounts two, so that *)
(* an address is one or two base58 digits.                                  *)
EXTENDS PEPAuthz, TLC

CONSTANTS n1, n2, r3

(* Go's zero time is long before the epoch. *)
MCZeroTime == -1

MCSchemeTag == [s \in {"exact"} |-> 1]

MCNetworkTag == [n \in {"devnet"} |-> 2]

Payment(scheme, amount) ==
    [scheme |-> scheme, network |-> "devnet", asset |-> <<5>>, payTo |-> <<3, 26>>,
     amount |-> [sign |-> "none", digits |-> amount], resource |-> "data"]

(* A header whose nonce is too short to be a token. *)
ShortNonce == [json |-> TRUE, nonceLen |-> 16, nonce |-> n1, expiry |-> 0]

Input(header, pr) == [header |-> header, pr |-> pr]

(* Fresh, expiring, never-expiring and malformed tokens; two payments that  *)
(* bind and two whose scheme is not accepted.                               *)
AllInputs ==
    {Input(EncodeToken(n, e), Payment("exact", 7)) : n \in {n1, n2}, e \in {0, ZeroTime}}
        \cup {Input(EncodeToken(n1, ZeroTime), Payment(s, 8)) : s \in {"exact", "upto"}}
        \cup {Input(EncodeToken(n, ZeroTime), Payment("upto", 7)) : n \in {n1, n2}}
        \cup {Input(ShortNonce, Payment("exact", 7))}

(* Every request presents the same good token for the same good payment. *)
ContestedInputs == {Input(EncodeToken(n1, ZeroTime), Payment("exact", 7))}

(* Every PEP signs with the log's key. *)
OneKey == [r \in Requests |-> "k1"]

(* The PEP that r3 goes through signs with a key that is not the log's. *)
OneMiskeyed == [r \in Requests |-> IF r = r3 THEN "k2" ELSE "k1"]

CallerSymmetry == Permutations(Callers)
=============================================================================
