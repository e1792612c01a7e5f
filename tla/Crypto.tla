------------------------------- MODULE Crypto -------------------------------
(***************************************************************************)
(* The standard-library primitives the code calls, idealised.  A SHA-256   *)
(* digest is the term built from its preimage, so two digests are equal    *)
(* exactly when the preimages are; an Ed25519 key pair is one identity, so *)
(* the public key k accepts exactly what the private key k has signed.     *)
(***************************************************************************)

Sha256(m) == [digest |-> <<m>>]

(* The zero value of a Go [32]byte.  It is the digest of nothing. *)
Zero32 == [digest |-> <<>>]

Ed25519Sign(priv, m) == [signer |-> priv, message |-> m]

Ed25519Verify(pub, m, sig) == sig = Ed25519Sign(pub, m)
=============================================================================
