---------------------------- MODULE MCMemSpendLog ----------------------------
EXTENDS MemSpendLog

CONSTANTS s1, s2, s3, s4

(* Three goroutines race on one nonce, a fourth has its own. *)
MCNonceOf == [s \in Spenders |-> IF s = s4 THEN "other" ELSE "contested"]
=============================================================================
