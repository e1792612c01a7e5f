------------------------------ MODULE TransLog ------------------------------
(***************************************************************************)
(* translog/record.go and translog/log.go: the signed, hash-chained record *)
(* of one decision, and the log as the sequence of its entries.  Sequence  *)
(* numbers start at 0, TLA+ sequences at 1.  Log's mutex makes every       *)
(* method one critical section, so a method is an operator on the whole    *)
(* sequence here; LogMutex takes the critical sections apart and shows     *)
(* that this is justified.                                                 *)
(***************************************************************************)
EXTENDS Integers, Sequences, Crypto

(* translog.Decision wire values. *)
LogAllow == 0

LogDenyViolation == 1

LogDenyUnavailable == 2

DomainTagLogEntry == "spt-txn/logentry/v1"

RecordLayoutVersion == 2

CanonicalBytes(r) ==
    <<DomainTagLogEntry, 0, RecordLayoutVersion,
      r.seq, r.decision, r.binding, r.issuedAt, r.prevHash>>

Hash(r) == Sha256(CanonicalBytes(r))

Sign(priv, r) == Ed25519Sign(priv, CanonicalBytes(r))

Verify(pub, r, sig) == Ed25519Verify(pub, CanonicalBytes(r), sig)

(* The canonical bytes of every record, in order. *)
canonicalLeaves(es) == [i \in 1..Len(es) |-> CanonicalBytes(es[i].record)]

(* The hash the record after the first n entries must carry as PrevHash. *)
TailHash(es, n) == IF n = 0 THEN Zero32 ELSE Hash(es[n].record)

(* Mutation of NextRecord: the link to the previous record is left out. *)
NextRecordUnlinked(es, decision, binding, issuedAt) ==
    [seq |-> Len(es), decision |-> decision, binding |-> binding,
     issuedAt |-> issuedAt, prevHash |-> Zero32]

NextRecord(es, decision, binding, issuedAt) ==
    [seq      |-> Len(es),
     decision |-> decision,
     binding  |-> binding,
     issuedAt |-> issuedAt,
     prevHash |-> TailHash(es, Len(es))]

Entry(priv, r) == [record |-> r, signature |-> Sign(priv, r)]

(* Mutation of SelfVerifies: the signature is not checked. *)
SelfVerifiesAlways(pub, e) == TRUE

(* Append's self-verify: the only way it fails is a signing key that does   *)
(* not belong to the public key the log was created with.                   *)
SelfVerifies(pub, e) == Verify(pub, e.record, e.signature)

(* Mutation of LogVerify: the signatures are not checked. *)
LogVerifyUnsigned(pub, es) ==
    \A i \in 1..Len(es) :
        /\ es[i].record.seq = i - 1
        /\ es[i].record.prevHash = TailHash(es, i - 1)

(* Log.Verify: contiguous sequence numbers, an intact chain, valid          *)
(* signatures.                                                              *)
LogVerify(pub, es) ==
    \A i \in 1..Len(es) :
        /\ es[i].record.seq = i - 1
        /\ es[i].record.prevHash = TailHash(es, i - 1)
        /\ Verify(pub, es[i].record, es[i].signature)
=============================================================================
