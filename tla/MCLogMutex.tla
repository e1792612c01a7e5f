----------------------------- MODULE MCLogMutex -----------------------------
EXTENDS LogMutex, TLC

CONSTANTS a1, a2, a3, e1, rLen, rAt, rRoot, rProof, rVerify

MCKeyOf == [a \in Appenders |-> IF a = a3 THEN "k2" ELSE "k1"]

(* One reader for each method; At and Proof ask for the second entry. *)
MCAsk ==
    [r \in Readers |->
        [op |-> CASE r = rLen -> "Len" [] r = rAt -> "At" [] r = rRoot -> "Root"
                  [] r = rProof -> "Proof" [] r = rVerify -> "Verify",
         seq |-> 1]]

MCPayload ==
    [a \in Appenders |-> [decision |-> LogAllow, binding |-> Sha256(a), issuedAt |-> 0]]
=============================================================================
