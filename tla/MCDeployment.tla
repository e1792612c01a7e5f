---------------------------- MODULE MCDeployment ----------------------------
(* Small instances of Deployment: keys of one byte, amounts of two, and a   *)
(* one-byte uint, so that an amount can be bindable and not parseable.      *)
EXTENDS Deployment, TLC

CONSTANTS n1, n2, t2

(* Go's zero time is long before the epoch. *)
MCZeroTime == -1

MCSchemeTag == [s \in {"exact"} |-> 1]

MCNetworkTag == [n \in {"devnet"} |-> 2]

Mint == <<5>>

Shop == <<3, 26>>

MCCapability == [asset |-> Mint, payTo |-> Shop, resource |-> "data", maxAmount |-> 9]

AmountText(sign, digits) == [sign |-> sign, digits |-> digits]

HttpInput(nonce) ==
    [header |-> EncodeToken(nonce, ZeroTime),
     pr |-> [scheme |-> "exact", network |-> "devnet", asset |-> Mint, payTo |-> Shop,
             amount |-> AmountText("none", 7), resource |-> "data"]]

Call(to, amount, nonce, expiry) ==
    [to |-> to, asset |-> Mint, amount |-> amount, resource |-> "data",
     nonce |-> nonce, expiry |-> expiry]

(* At the limit, beyond a uint (and, were it to wrap, within the limit),    *)
(* and expiring.                                                            *)
AgentCalls ==
    {Call(Shop, AmountText("none", a), n1, ZeroTime) : a \in {9, 256 + 7}}
      \cup {Call(Shop, AmountText("none", 7), n2, 0)}

ApprovedCalls == {Call(Shop, AmountText("none", 7), n, ZeroTime) : n \in {n1, n2}}

AllDurable == {[emitterDurable |-> TRUE, spendDurable |-> TRUE]}

(* A buffering emitter may flush at once, so it covers a durable one next   *)
(* to MemSpendLog.                                                          *)
DurableOrNot == AllDurable \cup {[emitterDurable |-> FALSE, spendDurable |-> FALSE]}

OneHttpInput == {HttpInput(n1)}

PepOneKey == [r \in Requests |-> "k1"]

(* Two enforcers; the one that handles t2 signs with a key that is not the  *)
(* log's.                                                                   *)
OneMiskeyed == [t \in ToolCalls |-> IF t = t2 THEN "k2" ELSE "k1"]
=============================================================================
