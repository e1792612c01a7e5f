----------------------------- MODULE Transparency -----------------------------
(***************************************************************************)
(* gateway/transparency.go: the two read-only endpoints, while decisions   *)
(* keep being appended.  Each call a handler makes on the log (At, Proof,  *)
(* Root, Len) is a critical section of its own, so entries may be appended *)
(* between any two of them.                                                *)
(***************************************************************************)
EXTENDS TransLog, Merkle

CONSTANTS
    RootReqs,   \* requests for /transparency/root
    EntryReqs,  \* requests for /transparency/entry/{seq}
    Seqs,       \* the integers that come as {seq}
    LogPub,     \* the log's key pair
    MaxEntries  \* bound on the length of the log

ASSUME TransparencyAssumption ==
    MaxEntries \in Nat /\ Seqs \subseteq Int /\ RootReqs \cap EntryReqs = {}

VARIABLES
    entries, \* Log.entries
    pc,      \* where each handler is
    seq,     \* the sequence number asked for
    leaf,    \* rec.CanonicalBytes()
    proof,   \* what Proof returned
    root,    \* what Root returned
    size,    \* what the first Len returned
    resp,    \* the response: status, and verified for an entry
    began    \* Len(entries) at the handler's first read (history)

vars == <<entries, pc, seq, leaf, proof, root, size, resp, began>>

Handlers == RootReqs \cup EntryReqs

NoResponse == [status |-> 0, verified |-> FALSE]

Init ==
    /\ entries = <<>>
    /\ pc = [h \in Handlers |-> "start"]
    /\ seq = [h \in EntryReqs |-> 0]
    /\ leaf = [h \in EntryReqs |-> <<>>]
    /\ proof = [h \in EntryReqs |-> <<>>]
    /\ root = [h \in Handlers |-> Zero32]
    /\ size = [h \in Handlers |-> 0]
    /\ resp = [h \in Handlers |-> NoResponse]
    /\ began = [h \in Handlers |-> 0]

(* The enforcement path appends one more decision. *)
AppendDecision ==
    /\ Len(entries) < MaxEntries
    /\ entries' = Append(entries,
                     Entry(LogPub, NextRecord(entries, LogAllow, Sha256("payment"), 0)))
    /\ UNCHANGED <<pc, seq, leaf, proof, root, size, resp, began>>

Step(h, from, to) == pc[h] = from /\ pc' = [pc EXCEPT ![h] = to]

Reply(h, code, verified) ==
    resp' = [resp EXCEPT ![h] = [status |-> code, verified |-> verified]]

LogRoot == MerkleRoot(canonicalLeaves(entries))

(* l.At(seq) *)
InLog(n) == n >= 0 /\ n < Len(entries)

---------------------------------------------------------------------------
(* /transparency/root *)

RootRead(h) ==
    /\ Step(h, "start", "len")
    /\ root' = [root EXCEPT ![h] = LogRoot]
    /\ began' = [began EXCEPT ![h] = Len(entries)]
    /\ UNCHANGED <<entries, seq, leaf, proof, size, resp>>

RootRespond(h) ==
    /\ Step(h, "len", "done")
    /\ size' = [size EXCEPT ![h] = Len(entries)]
    /\ Reply(h, 200, FALSE)
    /\ UNCHANGED <<entries, seq, leaf, proof, root, began>>

---------------------------------------------------------------------------
(* /transparency/entry/{seq} *)

(* strconv.Atoi fails: 400, the log is not read. *)
EntryBadSeq(h) ==
    /\ Step(h, "start", "done")
    /\ Reply(h, 400, FALSE)
    /\ UNCHANGED <<entries, seq, leaf, proof, root, size, began>>

EntryAt(h, n) ==
    /\ seq' = [seq EXCEPT ![h] = n]
    /\ began' = [began EXCEPT ![h] = Len(entries)]
    /\ \/ /\ InLog(n)
          /\ Step(h, "start", "proof")
          /\ leaf' = [leaf EXCEPT ![h] = CanonicalBytes(entries[n + 1].record)]
          /\ UNCHANGED resp
       \/ /\ ~InLog(n)
          /\ Step(h, "start", "done")
          /\ Reply(h, 404, FALSE)
          /\ UNCHANGED leaf
    /\ UNCHANGED <<entries, proof, root, size>>

EntryProof(h) ==
    LET p == InclusionProof(canonicalLeaves(entries), seq[h])
    IN  /\ pc[h] = "proof"
        /\ IF p.ok THEN Step(h, "proof", "root") /\ UNCHANGED resp
                   ELSE Step(h, "proof", "done") /\ Reply(h, 500, FALSE)
        /\ proof' = [proof EXCEPT ![h] = p.path]
        /\ UNCHANGED <<entries, seq, leaf, root, size, began>>

EntryRoot(h) ==
    /\ Step(h, "root", "size")
    /\ root' = [root EXCEPT ![h] = LogRoot]
    /\ UNCHANGED <<entries, seq, leaf, proof, size, resp, began>>

(* Mutation of EntrySize: the length seen when the entry was looked up. *)
EntrySizeStale(h) ==
    /\ Step(h, "size", "verify")
    /\ size' = [size EXCEPT ![h] = began[h]]
    /\ UNCHANGED <<entries, seq, leaf, proof, root, resp, began>>

(* Size: t.Log.Len() *)
EntrySize(h) ==
    /\ Step(h, "size", "verify")
    /\ size' = [size EXCEPT ![h] = Len(entries)]
    /\ UNCHANGED <<entries, seq, leaf, proof, root, resp, began>>

(* Mutation of EntryRespond: the size is taken one too large. *)
EntryRespondOffByOne(h) ==
    /\ Step(h, "verify", "done")
    /\ Reply(h, 200, VerifyInclusion(root[h], leaf[h], seq[h], Len(entries) + 1, proof[h]))
    /\ UNCHANGED <<entries, seq, leaf, proof, root, size, began>>

(* Verified: VerifyInclusion(root, leaf, seq, t.Log.Len(), proof) *)
EntryRespond(h) ==
    /\ Step(h, "verify", "done")
    /\ Reply(h, 200, VerifyInclusion(root[h], leaf[h], seq[h], Len(entries), proof[h]))
    /\ UNCHANGED <<entries, seq, leaf, proof, root, size, began>>

---------------------------------------------------------------------------
Next ==
    \/ AppendDecision
    \/ \E h \in RootReqs : RootRead(h) \/ RootRespond(h)
    \/ \E h \in EntryReqs :
          \/ EntryBadSeq(h)
          \/ \E n \in Seqs : EntryAt(h, n)
          \/ EntryProof(h) \/ EntryRoot(h) \/ EntrySize(h) \/ EntryRespond(h)

Spec == Init /\ [][Next]_vars

---------------------------------------------------------------------------
(* Correctness *)

Answered(h) == resp[h].status = 200

PrefixRoot(k) == MerkleRoot(canonicalLeaves(SubSeq(entries, 1, k)))

(* Once At has found the entry, Proof cannot fail, whatever is appended in  *)
(* between: the endpoint never answers 500.                                 *)
NeverInternalError == \A h \in EntryReqs : resp[h].status # 500

(* A reader that was overtaken by appends still gets the root of a state    *)
(* the log was in while it was being served: not older than its first read, *)
(* not newer than the size it was told.                                     *)
RootIsOfServedPeriod ==
    \A h \in Handlers : Answered(h) =>
        \E k \in began[h]..size[h] : root[h] = PrefixRoot(k)

(* A reader that no append overtook gets an exact answer: the root of the   *)
(* whole log and, for an entry, a proof that verifies against it.           *)
QuietReadIsExact ==
    \A h \in Handlers : Answered(h) /\ began[h] = Len(entries) =>
        /\ size[h] = Len(entries) /\ root[h] = LogRoot
        /\ h \in EntryReqs => resp[h].verified

(* "Every receipt's inclusion proof verifies" (transparency_test.go): an    *)
(* entry that is found is returned with a proof that verifies.              *)
EntryProofVerifies ==
    \A h \in EntryReqs : Answered(h) => resp[h].verified
=============================================================================
