-------------------------- MODULE TransparencyProofs --------------------------
(***************************************************************************)
(* The transparency endpoints, for any number of concurrent readers, any   *)
(* sequence numbers asked for and any number of appends between two calls  *)
(* on the log.                                                             *)
(***************************************************************************)
EXTENDS Transparency, Lemmas

ReadLabels == {"start", "len", "proof", "root", "size", "verify", "done"}

(* Every variable the argument is about has its type, and nothing has been  *)
(* answered before the handler returns.                                     *)
ReadTypeOK ==
    /\ entries \in Seq(Range(entries))
    /\ pc \in [Handlers -> ReadLabels]
    /\ seq \in [EntryReqs -> Int]
    /\ DOMAIN root = Handlers
    /\ size \in [Handlers -> Nat] /\ began \in [Handlers -> Nat]
    /\ DOMAIN resp = Handlers
    /\ \A h \in Handlers : pc[h] # "done" => resp[h] = NoResponse

(* Between At and Proof the index stays inside the log. *)
SeqInLog == \A h \in EntryReqs : pc[h] = "proof" => InLog(seq[h])

(* A root that has been read is the root of a prefix of the log that is no  *)
(* shorter than the log was when the handler began and no longer than n.    *)
RootUpTo(h, n) == \E k \in began[h]..n : root[h] = PrefixRoot(k)

(* What a handler knows at each label: its first read is behind it, the     *)
(* root it holds is between then and now, and the size it read is between   *)
(* that root and now.                                                       *)
Reading(h) ==
    /\ pc[h] \in {"len", "proof", "root", "size", "verify"} => began[h] <= Len(entries)
    /\ pc[h] \in {"len", "size"} => RootUpTo(h, Len(entries))
    /\ pc[h] = "verify" \/ Answered(h) =>
          size[h] <= Len(entries) /\ RootUpTo(h, size[h])

ReadInv == \A h \in Handlers : Reading(h)

(* The inductive invariant. *)
ReadIInv == ReadTypeOK /\ SeqInLog /\ ReadInv

(* It holds before the first request. *)
LEMMA ReadIInvInit == Init => ReadIInv
<1> SUFFICES ASSUME Init PROVE ReadIInv
  OBVIOUS
<1>1. ReadTypeOK
  BY DEF Init, ReadTypeOK, ReadLabels, Range, Handlers
<1>2. SeqInLog
  BY DEF Init, SeqInLog, Handlers
<1>3. ReadInv
  BY DEF Init, ReadInv, Reading, Answered, NoResponse
<1> QED
  BY <1>1, <1>2, <1>3 DEF ReadIInv

(* Appending an entry leaves the root of every prefix as it was. *)
LEMMA PrefixRootStays ==
  ASSUME entries \in Seq(Range(entries)), AppendDecision, NEW k \in 0..Len(entries)
  PROVE  PrefixRoot(k)' = PrefixRoot(k)
<1> DEFINE e == Entry(LogPub, NextRecord(entries, LogAllow, Sha256("payment"), 0))
<1>1. entries' = Append(entries, e)
  BY DEF AppendDecision
<1> HIDE DEF e
<1>2. SubSeq(entries', 1, k) = SubSeq(entries, 1, k)
  BY <1>1, PrefixOfAppend
<1> QED
  BY <1>2 DEF PrefixRoot

(* The root of the whole log is the root of its longest prefix. *)
LEMMA LogRootIsPrefixRoot ==
  ASSUME entries \in Seq(Range(entries))
  PROVE  LogRoot = PrefixRoot(Len(entries)) /\ Len(entries) \in Nat
<1>1. SubSeq(entries, 1, Len(entries)) = entries
  BY PrefixFull
<1>2. LogRoot = PrefixRoot(Len(entries))
  BY <1>1 DEF LogRoot, PrefixRoot
<1> QED
  BY <1>2

(* The enforcement path appends under the readers: all they hold stays      *)
(* true.                                                                    *)
LEMMA AppendKeepsReaders == ReadIInv /\ AppendDecision => ReadIInv'
<1> SUFFICES ASSUME ReadIInv, AppendDecision PROVE ReadIInv'
  OBVIOUS
<1> DEFINE e == Entry(LogPub, NextRecord(entries, LogAllow, Sha256("payment"), 0))
<1>1. /\ entries' = Append(entries, e)
      /\ UNCHANGED <<pc, seq, leaf, proof, root, size, resp, began>>
  BY DEF AppendDecision
<1> HIDE DEF e
<1>2. entries \in Seq(Range(entries))
  BY DEF ReadIInv, ReadTypeOK
<1>3. /\ entries' \in Seq(Range(entries'))
      /\ Len(entries) \in Nat /\ Len(entries') = Len(entries) + 1
  BY <1>1, <1>2, AppendExtends
<1>4. ReadTypeOK'
  BY <1>1, <1>3 DEF ReadIInv, ReadTypeOK
<1>5. SeqInLog'
  BY <1>1, <1>3 DEF ReadIInv, ReadTypeOK, SeqInLog, InLog
<1>6. ASSUME NEW h \in Handlers, NEW n \in Nat, n <= Len(entries), RootUpTo(h, n)
      PROVE  RootUpTo(h, n)' /\ RootUpTo(h, n + 1)'
  <2>1. PICK k \in began[h]..n : root[h] = PrefixRoot(k)
    BY <1>6 DEF RootUpTo
  <2>2. began[h] \in Nat /\ k \in 0..Len(entries)
    BY <1>3, <1>6, <2>1 DEF ReadIInv, ReadTypeOK
  <2>3. PrefixRoot(k)' = root'[h] /\ k \in began'[h]..n /\ k \in began'[h]..(n + 1)
    BY <1>1, <1>2, <2>1, <2>2, PrefixRootStays
  <2> QED
    BY <2>3 DEF RootUpTo
<1>7. ASSUME NEW h \in Handlers PROVE Reading(h)'
  <2>1. Reading(h) /\ size[h] \in Nat /\ began[h] \in Nat
    BY DEF ReadIInv, ReadInv, ReadTypeOK
  <2>2. pc[h] \in {"len", "proof", "root", "size", "verify"} => began'[h] <= Len(entries')
    BY <1>1, <1>3, <2>1 DEF Reading
  <2>3. pc[h] \in {"len", "size"} => RootUpTo(h, Len(entries))'
    <3>1. pc[h] \in {"len", "size"} => RootUpTo(h, Len(entries))
      BY <2>1 DEF Reading
    <3>2. \A n \in Nat : n <= Len(entries) /\ RootUpTo(h, n) => RootUpTo(h, n + 1)'
      BY <1>6
    <3> QED
      BY <1>1, <1>3, <3>1, <3>2 DEF RootUpTo
  <2>4. pc[h] = "verify" \/ Answered(h) =>
           size'[h] <= Len(entries') /\ RootUpTo(h, size[h])'
    BY <1>1, <1>3, <1>6, <2>1 DEF Reading, RootUpTo
  <2> QED
    BY <1>1, <2>2, <2>3, <2>4 DEF Reading, Answered
<1> QED
  BY <1>4, <1>5, <1>7 DEF ReadIInv, ReadInv
---------------------------------------------------------------------------
(* A step of one handler does not disturb what the others hold. *)
LEMMA OthersKeepReading ==
  ASSUME ReadInv, NEW h \in Handlers, UNCHANGED entries,
         \A q \in Handlers \ {h} :
            /\ pc'[q] = pc[q] /\ root'[q] = root[q] /\ size'[q] = size[q]
            /\ resp'[q] = resp[q] /\ began'[q] = began[q],
         Reading(h)'
  PROVE  ReadInv'
<1> SUFFICES ASSUME NEW q \in Handlers, q # h PROVE Reading(q)'
  BY DEF ReadInv
<1>1. /\ pc'[q] = pc[q] /\ root'[q] = root[q] /\ size'[q] = size[q]
      /\ resp'[q] = resp[q] /\ began'[q] = began[q]
  OBVIOUS
<1>2. Reading(q)
  BY DEF ReadInv
<1> QED
  BY <1>1, <1>2 DEF Reading, RootUpTo, PrefixRoot, Answered

(* A handler that does not enter "proof" leaves the indices in the log. *)
LEMMA SeqStays ==
  ASSUME ReadTypeOK, SeqInLog, NEW h \in Handlers, NEW label \in ReadLabels \ {"proof"},
         pc' = [pc EXCEPT ![h] = label], UNCHANGED <<entries, seq>>
  PROVE  SeqInLog'
<1> SUFFICES ASSUME NEW q \in EntryReqs, pc'[q] = "proof" PROVE InLog(seq[q])'
  BY DEF SeqInLog
<1>1. q \in Handlers /\ pc[q] = "proof"
  BY DEF ReadTypeOK, Handlers, ReadLabels
<1> QED
  BY <1>1 DEF SeqInLog, InLog

(* The root endpoint reads the root, then the length: the length it reads   *)
(* is at least that of the log the root is of.                              *)
LEMMA RootSteps ==
  ASSUME ReadIInv, NEW h \in RootReqs, RootRead(h) \/ RootRespond(h)
  PROVE  ReadIInv'
<1>1. h \in Handlers /\ entries \in Seq(Range(entries)) /\ UNCHANGED entries
  BY DEF Handlers, ReadIInv, ReadTypeOK, RootRead, RootRespond
<1>2. LogRoot = PrefixRoot(Len(entries)) /\ Len(entries) \in Nat
  BY <1>1, LogRootIsPrefixRoot
<1>3. ReadTypeOK'
  <2>1. CASE RootRead(h)
    <3>1. /\ pc' = [pc EXCEPT ![h] = "len"] /\ root' = [root EXCEPT ![h] = LogRoot]
          /\ began' = [began EXCEPT ![h] = Len(entries)] /\ pc[h] = "start"
          /\ UNCHANGED <<entries, seq, size, resp>>
      BY <2>1 DEF RootRead, Step
    <3> QED
      BY <1>1, <1>2, <3>1 DEF ReadIInv, ReadTypeOK, ReadLabels
  <2>2. CASE RootRespond(h)
    <3>1. /\ pc' = [pc EXCEPT ![h] = "done"] /\ size' = [size EXCEPT ![h] = Len(entries)]
          /\ resp' = [resp EXCEPT ![h] = [status |-> 200, verified |-> FALSE]]
          /\ UNCHANGED <<entries, seq, root, began>>
      BY <2>2 DEF RootRespond, Step, Reply
    <3> QED
      BY <1>1, <1>2, <3>1 DEF ReadIInv, ReadTypeOK, ReadLabels
  <2> QED
    BY <2>1, <2>2
<1>4. SeqInLog'
  <2>1. PICK label \in {"len", "done"} : pc' = [pc EXCEPT ![h] = label] /\ UNCHANGED seq
    BY DEF RootRead, RootRespond, Step
  <2> QED
    BY <1>1, <2>1, SeqStays DEF ReadIInv, ReadLabels
<1>5. Reading(h)'
  <2>1. CASE RootRead(h)
    <3>1. /\ pc'[h] = "len" /\ root'[h] = LogRoot /\ began'[h] = Len(entries)
          /\ resp'[h] = NoResponse
      BY <1>1, <2>1 DEF RootRead, Step, ReadIInv, ReadTypeOK
    <3>2. RootUpTo(h, Len(entries))'
      BY <1>1, <1>2, <3>1 DEF RootUpTo, PrefixRoot
    <3> QED
      BY <1>1, <1>2, <3>1, <3>2 DEF Reading, Answered, NoResponse
  <2>2. CASE RootRespond(h)
    <3>1. /\ pc[h] = "len" /\ pc'[h] = "done" /\ size'[h] = Len(entries)
          /\ UNCHANGED <<root, began>>
      BY <1>1, <2>2 DEF RootRespond, Step, ReadIInv, ReadTypeOK
    <3>2. RootUpTo(h, Len(entries))
      BY <1>1, <3>1 DEF ReadIInv, ReadInv, Reading
    <3>3. RootUpTo(h, size[h])'
      BY <1>1, <3>1, <3>2 DEF RootUpTo, PrefixRoot
    <3> QED
      BY <1>1, <1>2, <3>1, <3>3 DEF Reading
  <2> QED
    BY <2>1, <2>2
<1>6. ReadInv'
  <2>1. \A q \in Handlers \ {h} :
            /\ pc'[q] = pc[q] /\ root'[q] = root[q] /\ size'[q] = size[q]
            /\ resp'[q] = resp[q] /\ began'[q] = began[q]
    BY <1>1 DEF ReadIInv, ReadTypeOK, RootRead, RootRespond, Step, Reply
  <2> QED
    BY <1>1, <1>5, <2>1, OthersKeepReading DEF ReadIInv
<1> QED
  BY <1>3, <1>4, <1>6 DEF ReadIInv

---------------------------------------------------------------------------
(* Proof is asked for an index that At has found in the log, and the log    *)
(* has only grown since: it succeeds.                                       *)
LEMMA ProofSucceeds ==
  ASSUME ReadTypeOK, SeqInLog, NEW h \in EntryReqs, pc[h] = "proof"
  PROVE  InclusionProof(canonicalLeaves(entries), seq[h]).ok
<1>1. seq[h] \in Int /\ seq[h] >= 0 /\ seq[h] < Len(entries) /\ Len(entries) \in Nat
  BY DEF ReadTypeOK, SeqInLog, InLog
<1>2. Len(canonicalLeaves(entries)) = Len(entries)
  BY <1>1 DEF canonicalLeaves
<1> QED
  BY <1>1, <1>2 DEF InclusionProof

(* The look-up of an entry: malformed, found or not found. *)
LEMMA EntryLookup ==
  ASSUME ReadIInv, NEW h \in EntryReqs, EntryBadSeq(h) \/ \E n \in Seqs : EntryAt(h, n)
  PROVE  ReadIInv' /\ resp'[h].status # 500
<1>1. h \in Handlers /\ entries \in Seq(Range(entries)) /\ UNCHANGED entries
  BY DEF Handlers, ReadIInv, ReadTypeOK, EntryBadSeq, EntryAt
<1>2. Len(entries) \in Nat
  BY <1>1
<1>t. /\ h \in Handlers /\ pc \in [Handlers -> ReadLabels] /\ DOMAIN resp = Handlers
      /\ \A q \in Handlers : pc[q] # "done" => resp[q] = NoResponse
  BY DEF ReadIInv, ReadTypeOK, Handlers
<1>u. seq \in [EntryReqs -> Int] /\ began \in [Handlers -> Nat] /\ h \in Handlers
  BY DEF ReadIInv, ReadTypeOK, Handlers
<1>3. /\ pc[h] = "start" /\ UNCHANGED <<root, size>>
      /\ \/ /\ pc' = [pc EXCEPT ![h] = "done"]
            /\ \E code \in {400, 404} :
                  resp' = [resp EXCEPT ![h] = [status |-> code, verified |-> FALSE]]
         \/ pc' = [pc EXCEPT ![h] = "proof"] /\ UNCHANGED resp
  BY DEF EntryBadSeq, EntryAt, Step, Reply
<1>4. /\ seq' \in [EntryReqs -> Int] /\ began' \in [Handlers -> Nat]
      /\ \A q \in Handlers \ {h} : began'[q] = began[q]
      /\ \A q \in EntryReqs \ {h} : seq'[q] = seq[q]
      /\ pc'[h] = "proof" => began'[h] = Len(entries) /\ InLog(seq'[h])
  <2>1. CASE EntryBadSeq(h)
    <3>1. UNCHANGED <<seq, began>> /\ pc'[h] = "done"
      BY <1>t, <2>1 DEF EntryBadSeq, Step
    <3> QED
      BY <1>u, <3>1
  <2>2. ASSUME NEW n \in Seqs, EntryAt(h, n)
        PROVE  /\ seq' \in [EntryReqs -> Int] /\ began' \in [Handlers -> Nat]
               /\ \A q \in Handlers \ {h} : began'[q] = began[q]
               /\ \A q \in EntryReqs \ {h} : seq'[q] = seq[q]
               /\ pc'[h] = "proof" => began'[h] = Len(entries) /\ InLog(seq'[h])
    <3>1. /\ seq' = [seq EXCEPT ![h] = n]
          /\ began' = [began EXCEPT ![h] = Len(entries)]
      BY <2>2 DEF EntryAt
    <3>2. pc'[h] = "proof" => InLog(n)
      BY <1>t, <2>2 DEF EntryAt, Step
    <3>3. n \in Int /\ seq'[h] = n /\ began'[h] = Len(entries)
      BY <1>u, <3>1, TransparencyAssumption
    <3>4. /\ seq' \in [EntryReqs -> Int] /\ began' \in [Handlers -> Nat]
          /\ \A q \in Handlers \ {h} : began'[q] = began[q]
          /\ \A q \in EntryReqs \ {h} : seq'[q] = seq[q]
      BY <1>2, <1>u, <3>1, <3>3
    <3> QED
      BY <3>2, <3>3, <3>4
  <2> QED
    BY <2>1, <2>2
<1>5. /\ pc'[h] \in {"proof", "done"}
      /\ resp'[h].status \in {0, 400, 404}
      /\ \A q \in Handlers : pc'[q] # "done" => resp'[q] = NoResponse
      /\ \A q \in Handlers \ {h} :
            /\ pc'[q] = pc[q] /\ resp'[q] = resp[q] /\ began'[q] = began[q]
      /\ pc'[h] = "proof" => began'[h] = Len(entries) /\ InLog(seq'[h])
      /\ \A q \in EntryReqs \ {h} : seq'[q] = seq[q]
  <2>1. /\ pc'[h] \in {"proof", "done"}
        /\ \A q \in Handlers \ {h} : pc'[q] = pc[q] /\ resp'[q] = resp[q]
    BY <1>3, <1>t
  <2>2. resp[h] = NoResponse
    BY <1>3, <1>t
  <2>3. resp'[h].status \in {0, 400, 404}
    BY <1>3, <1>t, <2>2 DEF NoResponse
  <2>4. pc'[h] # "done" => resp'[h] = NoResponse
    BY <1>3, <1>t, <2>2
  <2> QED
    BY <1>4, <1>t, <2>1, <2>3, <2>4
<1>6. ReadTypeOK'
  <2>1. pc' \in [Handlers -> ReadLabels] /\ DOMAIN resp' = Handlers
    BY <1>3, <1>t DEF ReadLabels
  <2> QED
    BY <1>1, <1>3, <1>4, <1>5, <2>1 DEF ReadIInv, ReadTypeOK
<1>7. SeqInLog'
  BY <1>1, <1>3, <1>5 DEF ReadIInv, SeqInLog, InLog, Handlers
<1>8. Reading(h)'
  BY <1>1, <1>2, <1>5 DEF Reading, Answered
<1>9. ReadInv'
  BY <1>1, <1>3, <1>5, <1>8, OthersKeepReading DEF ReadIInv
<1> QED
  BY <1>5, <1>6, <1>7, <1>9 DEF ReadIInv

(* The reads that follow: the proof, the root, the size, and the answer. *)
LEMMA EntryReads ==
  ASSUME ReadIInv, NEW h \in EntryReqs,
         EntryProof(h) \/ EntryRoot(h) \/ EntrySize(h) \/ EntryRespond(h)
  PROVE  ReadIInv' /\ resp'[h].status # 500
<1>1. /\ h \in Handlers /\ entries \in Seq(Range(entries))
      /\ UNCHANGED <<entries, seq, began>>
  BY DEF Handlers, ReadIInv, ReadTypeOK, EntryProof, EntryRoot, EntrySize, EntryRespond
<1>2. LogRoot = PrefixRoot(Len(entries)) /\ Len(entries) \in Nat
  BY <1>1, LogRootIsPrefixRoot
<1>3. \/ pc[h] = "proof" /\ pc' = [pc EXCEPT ![h] = "root"] /\ UNCHANGED <<root, size, resp>>
      \/ /\ pc[h] = "root" /\ pc' = [pc EXCEPT ![h] = "size"]
         /\ root' = [root EXCEPT ![h] = LogRoot] /\ UNCHANGED <<size, resp>>
      \/ /\ pc[h] = "size" /\ pc' = [pc EXCEPT ![h] = "verify"]
         /\ size' = [size EXCEPT ![h] = Len(entries)] /\ UNCHANGED <<root, resp>>
      \/ /\ pc[h] = "verify" /\ pc' = [pc EXCEPT ![h] = "done"]
         /\ UNCHANGED <<root, size>>
         /\ \E v : resp' = [resp EXCEPT ![h] = [status |-> 200, verified |-> v]]
  <2>1. ASSUME pc[h] = "proof" PROVE InclusionProof(canonicalLeaves(entries), seq[h]).ok
    BY <2>1, ProofSucceeds DEF ReadIInv
  <2> QED
    BY <2>1 DEF EntryProof, EntryRoot, EntrySize, EntryRespond, Step, Reply
<1>4. /\ pc'[h] # "done" => resp'[h] = NoResponse
      /\ resp'[h].status \in {0, 200}
  <2>1. pc[h] # "done" => resp[h] = NoResponse
    BY <1>1 DEF ReadIInv, ReadTypeOK
  <2>2. h \in DOMAIN pc /\ h \in DOMAIN resp
    BY <1>1 DEF ReadIInv, ReadTypeOK
  <2>3. \/ pc[h] # "done" /\ UNCHANGED resp
        \/ /\ pc' = [pc EXCEPT ![h] = "done"]
           /\ \E v : resp' = [resp EXCEPT ![h] = [status |-> 200, verified |-> v]]
    BY <1>3
  <2>4. pc'[h] # "done" => resp'[h] = NoResponse
    BY <2>1, <2>2, <2>3
  <2>5. resp'[h].status \in {0, 200}
    BY <2>1, <2>2, <2>3 DEF NoResponse
  <2> QED
    BY <2>4, <2>5
<1>5. ReadTypeOK'
  BY <1>1, <1>2, <1>3, ZenonT(60) DEF ReadIInv, ReadTypeOK, ReadLabels
<1>6. SeqInLog'
  <2>1. PICK label \in ReadLabels \ {"proof"} : pc' = [pc EXCEPT ![h] = label]
    BY <1>3 DEF ReadLabels
  <2> QED
    BY <1>1, <2>1, SeqStays DEF ReadIInv
<1>7. Reading(h)'
  <2> USE <1>1, <1>2, <1>4
  <2>1. Reading(h) /\ began[h] \in Nat /\ pc \in [Handlers -> ReadLabels]
        /\ DOMAIN root = Handlers /\ DOMAIN size = Handlers /\ DOMAIN resp = Handlers
    BY DEF ReadIInv, ReadInv, ReadTypeOK
  <2>2. CASE pc[h] = "proof"
    BY <1>3, <2>1, <2>2 DEF Reading, Answered, NoResponse
  <2>3. CASE pc[h] = "root"
    <3>1. /\ pc'[h] = "size" /\ root'[h] = PrefixRoot(Len(entries))
          /\ began[h] <= Len(entries) /\ resp'[h].status = 0
      BY <1>3, <2>1, <2>3 DEF Reading, NoResponse
    <3>2. RootUpTo(h, Len(entries))'
      BY <2>1, <3>1 DEF RootUpTo, PrefixRoot
    <3> QED
      BY <3>1, <3>2 DEF Reading, Answered
  <2>4. CASE pc[h] = "size"
    <3>1. /\ pc'[h] = "verify" /\ size'[h] = Len(entries) /\ UNCHANGED root
          /\ began[h] <= Len(entries) /\ RootUpTo(h, Len(entries))
      BY <1>3, <2>1, <2>4 DEF Reading
    <3>2. RootUpTo(h, size[h])'
      BY <3>1 DEF RootUpTo, PrefixRoot
    <3> QED
      BY <3>1, <3>2 DEF Reading
  <2>5. CASE pc[h] = "verify"
    <3>1. /\ pc'[h] = "done" /\ UNCHANGED <<root, size>>
          /\ size[h] <= Len(entries) /\ RootUpTo(h, size[h])
      BY <1>3, <2>1, <2>5 DEF Reading
    <3>2. RootUpTo(h, size[h])'
      BY <3>1 DEF RootUpTo, PrefixRoot
    <3> QED
      BY <3>1, <3>2 DEF Reading
  <2> QED
    BY <1>3, <2>2, <2>3, <2>4, <2>5
<1>8. ReadInv'
  <2>1. \A q \in Handlers \ {h} :
            /\ pc'[q] = pc[q] /\ root'[q] = root[q] /\ size'[q] = size[q]
            /\ resp'[q] = resp[q] /\ began'[q] = began[q]
    BY <1>1, <1>3 DEF ReadIInv, ReadTypeOK
  <2> QED
    BY <1>1, <1>7, <2>1, OthersKeepReading DEF ReadIInv
<1> QED
  BY <1>4, <1>5, <1>6, <1>8 DEF ReadIInv

---------------------------------------------------------------------------
(* Every step preserves the inductive invariant, and none answers 500. *)
LEMMA ReadIInvStep ==
  ASSUME ReadIInv, NeverInternalError, [Next]_vars
  PROVE  ReadIInv' /\ NeverInternalError'
<1>1. CASE AppendDecision
  BY <1>1, AppendKeepsReaders DEF NeverInternalError, AppendDecision
<1>2. ASSUME NEW h \in RootReqs, RootRead(h) \/ RootRespond(h)
      PROVE  ReadIInv' /\ NeverInternalError'
  <2>1. \A q \in EntryReqs : resp'[q] = resp[q] \/ resp'[q].status = 200
    BY <1>2 DEF RootRead, RootRespond, Reply, ReadIInv, ReadTypeOK, Handlers
  <2> QED
    BY <1>2, <2>1, RootSteps DEF NeverInternalError
<1>3. ASSUME NEW h \in EntryReqs,
             \/ EntryBadSeq(h) \/ \E n \in Seqs : EntryAt(h, n)
             \/ EntryProof(h) \/ EntryRoot(h) \/ EntrySize(h) \/ EntryRespond(h)
      PROVE  ReadIInv' /\ NeverInternalError'
  <2>1. ReadIInv' /\ resp'[h].status # 500
    BY <1>3, EntryLookup, EntryReads
  <2>2. \A q \in EntryReqs \ {h} : resp'[q] = resp[q]
    <3>1. DOMAIN resp = Handlers
      BY DEF ReadIInv, ReadTypeOK
    <3>2. \/ UNCHANGED resp
          \/ \E code, v : resp' = [resp EXCEPT ![h] = [status |-> code, verified |-> v]]
      BY <1>3 DEF EntryBadSeq, EntryAt, EntryProof, EntryRoot, EntrySize, EntryRespond, Reply
    <3> QED
      BY <3>1, <3>2 DEF Handlers
  <2> QED
    BY <2>1, <2>2 DEF NeverInternalError
<1>4. CASE UNCHANGED vars
  <2>1. UNCHANGED <<entries, pc, seq, leaf, proof, root, size, resp, began>>
    BY <1>4 DEF vars
  <2>2. ReadTypeOK' /\ SeqInLog' /\ NeverInternalError'
    BY <2>1 DEF ReadIInv, ReadTypeOK, SeqInLog, InLog, NeverInternalError
  <2>3. ReadInv'
    BY <2>1 DEF ReadIInv, ReadInv, Reading, RootUpTo, PrefixRoot, Answered
  <2> QED
    BY <2>2, <2>3 DEF ReadIInv
<1> QED
  BY <1>1, <1>2, <1>3, <1>4 DEF Next

(* So both hold in every state. *)
LEMMA ReadAlways == Spec => [](ReadIInv /\ NeverInternalError)
<1>1. Init => ReadIInv /\ NeverInternalError
  <2>1. Init => NeverInternalError
    BY DEF Init, NeverInternalError, NoResponse, Handlers
  <2> QED
    BY <2>1, ReadIInvInit
<1>2. ReadIInv /\ NeverInternalError /\ [Next]_vars => ReadIInv' /\ NeverInternalError'
  BY ReadIInvStep
<1> QED
  BY <1>1, <1>2, PTL DEF Spec

(* Once At has found an entry, Proof cannot fail: whatever is appended      *)
(* between the calls of handleEntry, it never answers 500.                  *)
THEOREM EndpointNeverFails == Spec => []NeverInternalError
  BY ReadAlways, PTL

(* The root in an answer is the root of a state the log was in between the  *)
(* handler's first read and the size that the answer gives.                 *)
THEOREM RootIsCurrent == Spec => []RootIsOfServedPeriod
<1>1. ReadIInv => RootIsOfServedPeriod
  BY DEF ReadIInv, ReadInv, Reading, RootUpTo, RootIsOfServedPeriod
<1> QED
  BY <1>1, ReadAlways, PTL

(* The size and the root of an answer that no append overtook are those of  *)
(* the whole log, and so is the root of an entry's reader that is about to  *)
(* verify.                                                                  *)
LEMMA QuietRoot ==
  ASSUME ReadIInv, NEW h \in Handlers, pc[h] = "verify" \/ Answered(h)
  PROVE  /\ began[h] <= Len(entries)
         /\ began[h] = Len(entries) => size[h] = Len(entries) /\ root[h] = LogRoot
<1>1. /\ entries \in Seq(Range(entries)) /\ size[h] \in Nat /\ began[h] \in Nat
      /\ size[h] <= Len(entries) /\ RootUpTo(h, size[h])
  BY DEF ReadIInv, ReadTypeOK, ReadInv, Reading
<1>2. PICK k \in began[h]..size[h] : root[h] = PrefixRoot(k)
  BY <1>1 DEF RootUpTo
<1>3. LogRoot = PrefixRoot(Len(entries)) /\ Len(entries) \in Nat
  BY <1>1, LogRootIsPrefixRoot
<1>4. began[h] <= Len(entries)
  BY <1>1, <1>2, <1>3
<1>5. began[h] = Len(entries) => k = Len(entries) /\ size[h] = Len(entries)
  BY <1>1, <1>2, <1>3
<1> QED
  BY <1>2, <1>3, <1>4, <1>5

(* What the reader of an entry holds: the leaf that is at its index and,    *)
(* unless it was overtaken, the proof that the log gives for it now.        *)
Quiet(h) ==
    /\ pc[h] \in {"proof", "root", "size", "verify"} =>
          InLog(seq[h]) /\ leaf[h] = CanonicalBytes(entries[seq[h] + 1].record)
    /\ pc[h] \in {"root", "size", "verify"} /\ began[h] = Len(entries) =>
          proof[h] = InclusionProof(canonicalLeaves(entries), seq[h]).path
    /\ Answered(h) /\ began[h] = Len(entries) => resp[h].verified

QuietInv ==
    /\ DOMAIN leaf = EntryReqs /\ DOMAIN proof = EntryReqs
    /\ \A h \in EntryReqs : Quiet(h)

(* Before the first request nobody holds anything. *)
LEMMA QuietInit == Init => QuietInv
<1> SUFFICES ASSUME Init PROVE QuietInv
  OBVIOUS
<1>1. DOMAIN leaf = EntryReqs /\ DOMAIN proof = EntryReqs
  BY DEF Init
<1>2. \A h \in EntryReqs : pc[h] = "start" /\ resp[h].status = 0
  BY DEF Init, Handlers, NoResponse
<1>3. \A h \in EntryReqs : Quiet(h)
  BY <1>2 DEF Quiet, Answered
<1> QED
  BY <1>1, <1>3 DEF QuietInv

(* An append makes every reader that is under way or answered an overtaken  *)
(* one, and leaves its leaf where it is.                                    *)
LEMMA AppendQuiet ==
  ASSUME ReadIInv, QuietInv, AppendDecision
  PROVE  QuietInv'
<1> DEFINE e == Entry(LogPub, NextRecord(entries, LogAllow, Sha256("payment"), 0))
<1>1. /\ entries' = Append(entries, e)
      /\ UNCHANGED <<pc, seq, leaf, proof, root, size, resp, began>>
  BY DEF AppendDecision
<1> HIDE DEF e
<1>2. /\ Len(entries) \in Nat /\ Len(entries') = Len(entries) + 1
      /\ \A i \in 1..Len(entries) : entries'[i] = entries[i]
  BY <1>1, AppendExtends DEF ReadIInv, ReadTypeOK
<1>3. ASSUME NEW h \in EntryReqs PROVE Quiet(h)'
  <2>1. /\ h \in Handlers /\ seq[h] \in Int /\ began[h] \in Nat /\ Quiet(h) /\ Reading(h)
    BY DEF ReadIInv, ReadTypeOK, ReadInv, QuietInv, Handlers
  <2>2. ASSUME pc[h] \in {"proof", "root", "size", "verify"}
        PROVE  InLog(seq[h])' /\ leaf'[h] = CanonicalBytes(entries'[seq'[h] + 1].record)
    <3>1. InLog(seq[h]) /\ leaf[h] = CanonicalBytes(entries[seq[h] + 1].record)
      BY <2>1, <2>2 DEF Quiet
    <3>2. seq[h] + 1 \in 1..Len(entries)
      BY <1>2, <2>1, <3>1 DEF InLog
    <3>3. entries'[seq[h] + 1] = entries[seq[h] + 1]
      BY <1>2, <3>2
    <3>4. InLog(seq[h])'
      BY <1>1, <1>2, <2>1, <3>1 DEF InLog
    <3> QED
      BY <1>1, <3>1, <3>3, <3>4
  <2>3. pc[h] \in {"root", "size", "verify"} \/ Answered(h) => began'[h] # Len(entries')
    <3>1. pc[h] \in {"root", "size", "verify"} \/ Answered(h) => began[h] <= Len(entries)
      BY <2>1, QuietRoot DEF Reading
    <3> QED
      BY <1>1, <1>2, <2>1, <3>1
  <2> QED
    BY <1>1, <2>2, <2>3 DEF Quiet, Answered
<1> QED
  BY <1>1, <1>3 DEF QuietInv

(* A step of another handler leaves a reader as it is. *)
LEMMA OthersStayQuiet ==
  ASSUME QuietInv, NEW q \in EntryReqs, UNCHANGED entries,
         pc'[q] = pc[q], seq'[q] = seq[q], leaf'[q] = leaf[q], proof'[q] = proof[q],
         resp'[q] = resp[q], began'[q] = began[q]
  PROVE  Quiet(q)'
<1>1. Quiet(q)
  BY DEF QuietInv
<1> QED
  BY <1>1 DEF Quiet, InLog, Answered

(* The proof that is asked for in a log that has not grown since verifies   *)
(* against the root of that log.                                            *)
LEMMA QuietProofVerifies ==
  ASSUME ReadIInv, QuietInv, NEW h \in EntryReqs, pc[h] = "verify", began[h] = Len(entries)
  PROVE  VerifyInclusion(root[h], leaf[h], seq[h], Len(entries), proof[h])
<1> DEFINE ds == canonicalLeaves(entries)
           m == seq[h]
<1>1. /\ h \in Handlers /\ entries \in Seq(Range(entries)) /\ Len(entries) \in Nat /\ m \in Int
  BY DEF ReadIInv, ReadTypeOK, Handlers
<1>2. root[h] = MerkleRoot(ds)
  BY <1>1, QuietRoot DEF LogRoot
<1>3. /\ InLog(m) /\ leaf[h] = CanonicalBytes(entries[m + 1].record)
      /\ proof[h] = InclusionProof(ds, m).path
  BY DEF QuietInv, Quiet
<1>4. m \in 0..(Len(entries) - 1) /\ m + 1 \in 1..Len(entries)
  BY <1>1, <1>3 DEF InLog
<1>5. Len(ds) = Len(entries) /\ ds[m + 1] = CanonicalBytes(entries[m + 1].record)
  <2> HIDE DEF m
  <2> QED
    BY <1>1, <1>4 DEF canonicalLeaves
<1> HIDE DEF ds, m
<1>6. VerifyInclusion(MerkleRoot(ds), ds[m + 1], m, Len(ds), InclusionProof(ds, m).path)
  BY <1>1, <1>4, <1>5, InclusionComplete
<1>7. VerifyInclusion(root[h], leaf[h], m, Len(entries), proof[h])
  BY <1>2, <1>3, <1>5, <1>6
<1> QED
  BY <1>7 DEF m

(* The steps of the entry endpoint. *)
LEMMA EntryQuiet ==
  ASSUME ReadIInv, QuietInv, NEW h \in EntryReqs,
         \/ EntryBadSeq(h) \/ \E n \in Seqs : EntryAt(h, n)
         \/ EntryProof(h) \/ EntryRoot(h) \/ EntrySize(h) \/ EntryRespond(h)
  PROVE  QuietInv'
<1>1. /\ h \in Handlers /\ Len(entries) \in Nat /\ UNCHANGED entries
      /\ pc \in [Handlers -> ReadLabels] /\ seq \in [EntryReqs -> Int]
      /\ DOMAIN resp = Handlers /\ DOMAIN began = Handlers
      /\ DOMAIN leaf = EntryReqs /\ DOMAIN proof = EntryReqs
      /\ Quiet(h)
  <2>1. UNCHANGED entries
    BY DEF EntryBadSeq, EntryAt, EntryProof, EntryRoot, EntrySize, EntryRespond
  <2>2. /\ h \in Handlers /\ Len(entries) \in Nat
        /\ pc \in [Handlers -> ReadLabels] /\ seq \in [EntryReqs -> Int]
        /\ DOMAIN resp = Handlers /\ DOMAIN began = Handlers
    BY DEF ReadIInv, ReadTypeOK, Handlers
  <2>3. DOMAIN leaf = EntryReqs /\ DOMAIN proof = EntryReqs /\ Quiet(h)
    BY DEF QuietInv
  <2> QED
    BY <2>1, <2>2, <2>3
<1>2. pc[h] # "done" => resp[h].status = 0
  BY <1>1 DEF ReadIInv, ReadTypeOK, NoResponse
<1>3. Quiet(h)'
  <2>1. CASE EntryBadSeq(h)
    <3>1. pc'[h] = "done" /\ resp'[h] = [status |-> 400, verified |-> FALSE]
      BY <1>1, <2>1 DEF EntryBadSeq, Step, Reply
    <3> QED
      BY <3>1 DEF Quiet, Answered
  <2>2. ASSUME NEW n \in Seqs, EntryAt(h, n) PROVE Quiet(h)'
    <3>1. seq'[h] = n /\ pc[h] = "start"
      BY <1>1, <2>2 DEF EntryAt, Step
    <3>2. CASE ~InLog(n)
      <4>1. pc'[h] = "done" /\ resp'[h] = [status |-> 404, verified |-> FALSE]
        BY <1>1, <2>2, <3>2, ZenonT(60) DEF EntryAt, Step, Reply
      <4> QED
        BY <4>1 DEF Quiet, Answered
    <3>3. CASE InLog(n)
      <4>1. /\ pc'[h] = "proof" /\ leaf'[h] = CanonicalBytes(entries[n + 1].record)
            /\ UNCHANGED resp
        BY <1>1, <2>2, <3>3 DEF EntryAt, Step
      <4>2. resp'[h].status = 0
        BY <1>2, <3>1, <4>1
      <4> QED
        BY <1>1, <3>1, <3>3, <4>1, <4>2 DEF Quiet, Answered, InLog
    <3> QED
      BY <3>2, <3>3
  <2>3. CASE EntryProof(h)
    <3>1. InclusionProof(canonicalLeaves(entries), seq[h]).ok /\ pc[h] = "proof"
      BY <2>3, ProofSucceeds DEF EntryProof, ReadIInv
    <3>2. /\ pc'[h] = "root" /\ UNCHANGED <<seq, leaf, resp, began>>
          /\ proof'[h] = InclusionProof(canonicalLeaves(entries), seq[h]).path
      BY <1>1, <2>3, <3>1 DEF EntryProof, Step
    <3>3. resp'[h].status = 0
      BY <1>2, <3>1, <3>2
    <3>4. InLog(seq[h]) /\ leaf[h] = CanonicalBytes(entries[seq[h] + 1].record)
      BY <1>1, <3>1 DEF Quiet
    <3> QED
      BY <1>1, <3>2, <3>3, <3>4 DEF Quiet, Answered, InLog
  <2>4. CASE EntryRoot(h) \/ EntrySize(h)
    <3>1. /\ pc[h] \in {"root", "size"} /\ pc'[h] \in {"size", "verify"}
          /\ UNCHANGED <<seq, leaf, proof, resp, began>>
      BY <1>1, <2>4 DEF EntryRoot, EntrySize, Step
    <3>2. resp'[h].status = 0
      BY <1>2, <3>1
    <3>3. /\ InLog(seq[h]) /\ leaf[h] = CanonicalBytes(entries[seq[h] + 1].record)
          /\ began[h] = Len(entries) =>
                proof[h] = InclusionProof(canonicalLeaves(entries), seq[h]).path
      BY <1>1, <3>1 DEF Quiet
    <3> QED
      BY <1>1, <3>1, <3>2, <3>3 DEF Quiet, Answered, InLog
  <2>5. CASE EntryRespond(h)
    <3> DEFINE v == VerifyInclusion(root[h], leaf[h], seq[h], Len(entries), proof[h])
    <3>1. /\ pc[h] = "verify" /\ pc'[h] = "done" /\ UNCHANGED began
          /\ resp' = [resp EXCEPT ![h] = [status |-> 200, verified |-> v]]
      BY <1>1, <2>5 DEF EntryRespond, Step, Reply
    <3>2. began[h] = Len(entries) => v
      BY <3>1, QuietProofVerifies
    <3> HIDE DEF v
    <3>3. resp'[h].verified = v
      BY <1>1, <3>1
    <3> QED
      BY <1>1, <3>1, <3>2, <3>3 DEF Quiet
  <2> QED
    BY <2>1, <2>2, <2>3, <2>4, <2>5
<1>4. /\ DOMAIN leaf' = EntryReqs /\ DOMAIN proof' = EntryReqs
      /\ \A q \in EntryReqs \ {h} :
            /\ pc'[q] = pc[q] /\ seq'[q] = seq[q] /\ leaf'[q] = leaf[q] /\ proof'[q] = proof[q]
            /\ resp'[q] = resp[q] /\ began'[q] = began[q]
  <2>1. /\ UNCHANGED seq \/ \E x : seq' = [seq EXCEPT ![h] = x]
        /\ UNCHANGED leaf \/ \E x : leaf' = [leaf EXCEPT ![h] = x]
        /\ UNCHANGED proof \/ \E x : proof' = [proof EXCEPT ![h] = x]
        /\ UNCHANGED began \/ \E x : began' = [began EXCEPT ![h] = x]
    BY DEF EntryBadSeq, EntryAt, EntryProof, EntryRoot, EntrySize, EntryRespond
  <2>2. \E x : pc' = [pc EXCEPT ![h] = x]
    BY DEF EntryBadSeq, EntryAt, EntryProof, EntryRoot, EntrySize, EntryRespond, Step
  <2>3. UNCHANGED resp \/ \E x : resp' = [resp EXCEPT ![h] = x]
    BY DEF EntryBadSeq, EntryAt, EntryProof, EntryRoot, EntrySize, EntryRespond, Reply
  <2> QED
    BY <1>1, <2>1, <2>2, <2>3 DEF Handlers
<1>5. ASSUME NEW q \in EntryReqs PROVE Quiet(q)'
  <2>1. CASE q = h
    BY <1>3, <2>1
  <2>2. CASE q # h
    BY <1>1, <1>4, <2>2, OthersStayQuiet
  <2> QED
    BY <2>1, <2>2
<1> QED
  BY <1>4, <1>5 DEF QuietInv

(* Every step preserves what the readers of entries hold. *)
LEMMA QuietStep ==
  ASSUME ReadIInv, QuietInv, [Next]_vars
  PROVE  QuietInv'
<1>1. CASE AppendDecision
  BY <1>1, AppendQuiet
<1>2. ASSUME NEW h \in RootReqs, RootRead(h) \/ RootRespond(h)
      PROVE  QuietInv'
  <2>1. /\ UNCHANGED <<entries, seq, leaf, proof>> /\ h \notin EntryReqs
        /\ \A q \in EntryReqs : pc'[q] = pc[q] /\ resp'[q] = resp[q] /\ began'[q] = began[q]
    <3>1. /\ pc \in [Handlers -> ReadLabels] /\ DOMAIN resp = Handlers
          /\ DOMAIN began = Handlers
      BY DEF ReadIInv, ReadTypeOK
    <3>2. h \notin EntryReqs
      BY TransparencyAssumption
    <3>3. /\ UNCHANGED <<entries, seq, leaf, proof>>
          /\ \E x : pc' = [pc EXCEPT ![h] = x]
          /\ UNCHANGED resp \/ \E x : resp' = [resp EXCEPT ![h] = x]
          /\ UNCHANGED began \/ \E x : began' = [began EXCEPT ![h] = x]
      BY <1>2 DEF RootRead, RootRespond, Step, Reply
    <3> QED
      BY <3>1, <3>2, <3>3 DEF Handlers
  <2>2. \A q \in EntryReqs : Quiet(q)'
    BY <2>1, OthersStayQuiet
  <2> QED
    BY <2>1, <2>2 DEF QuietInv
<1>3. ASSUME NEW h \in EntryReqs,
             \/ EntryBadSeq(h) \/ \E n \in Seqs : EntryAt(h, n)
             \/ EntryProof(h) \/ EntryRoot(h) \/ EntrySize(h) \/ EntryRespond(h)
      PROVE  QuietInv'
  BY <1>3, EntryQuiet
<1>4. CASE UNCHANGED vars
  <2>1. UNCHANGED <<entries, pc, seq, leaf, proof, root, size, resp, began>>
    BY <1>4 DEF vars
  <2>2. \A q \in EntryReqs : Quiet(q)'
    BY <2>1, OthersStayQuiet
  <2> QED
    BY <2>1, <2>2 DEF QuietInv
<1> QED
  BY <1>1, <1>2, <1>3, <1>4 DEF Next

(* A reader that no append overtook gets an exact answer: the size and the  *)
(* root of the whole log and, for an entry, a proof that verifies against   *)
(* it.  (The run transparency_entry shows what an overtaken one may get.)   *)
THEOREM QuietReadExact == Spec => []QuietReadIsExact
<1>1. ReadIInv /\ QuietInv => QuietReadIsExact
  <2> SUFFICES ASSUME ReadIInv, QuietInv, NEW h \in Handlers,
                      Answered(h), began[h] = Len(entries)
               PROVE  /\ size[h] = Len(entries) /\ root[h] = LogRoot
                      /\ h \in EntryReqs => resp[h].verified
    BY DEF QuietReadIsExact
  <2>1. size[h] = Len(entries) /\ root[h] = LogRoot
    BY QuietRoot
  <2>2. h \in EntryReqs => resp[h].verified
    BY DEF QuietInv, Quiet
  <2> QED
    BY <2>1, <2>2
<1>2. ReadIInv /\ QuietInv /\ [Next]_vars => QuietInv'
  BY QuietStep
<1> QED
  BY <1>1, <1>2, QuietInit, ReadAlways, PTL DEF Spec
===============================================================================
