------------------------------ MODULE LogMutex ------------------------------
(***************************************************************************)
(* translog/log.go and Encode of translog/store.go, one memory access at a *)
(* time: concurrent calls of all methods of one Log, serialised by Log.mu  *)
(* alone.  An append to a Go slice loads the slice and stores a longer     *)
(* one; Encode computes the root in one pass over the entries and copies   *)
(* them in another; the reading methods look at the length first and go    *)
(* through the entries afterwards.  Log.entries is AtomicLog's log, and a  *)
(* call's answer is set when its effect is complete.                       *)
(***************************************************************************)
EXTENDS AtomicLog

CONSTANT Free  \* the value of mu when nobody holds it

ASSUME ProcsAssumption ==
    /\ Appenders \cap Encoders = {} /\ Readers \cap (Appenders \cup Encoders) = {}
    /\ Free \notin Procs

VARIABLES
    mu,      \* Log.mu: the goroutine that holds it, or Free
    pc,      \* where each goroutine is
    rec,     \* Append's r
    slice,   \* the slice Append's append() loaded
    root,    \* Encode's root
    size     \* the length a reading method has seen

vars == <<mu, log, pc, rec, slice, root, size, answer>>

Init ==
    /\ mu = Free
    /\ log = <<>>
    /\ pc = [p \in Procs |-> "start"]
    /\ rec = [a \in Appenders |-> NoAnswer]
    /\ slice = [a \in Appenders |-> <<>>]
    /\ root = [e \in Encoders |-> Zero32]
    /\ size = [r \in Readers |-> 0]
    /\ answer = [p \in Procs |-> NoAnswer]

At(p, from, to) == pc[p] = from /\ pc' = [pc EXCEPT ![p] = to]

(* Mutation of Lock: the mutex is not waited for. *)
LockUnguarded(p) ==
    /\ At(p, "start", "locked")
    /\ mu' = p
    /\ UNCHANGED <<log, rec, slice, root, size, answer>>

(* l.mu.Lock() *)
Lock(p) ==
    /\ At(p, "start", "locked")
    /\ mu = Free
    /\ mu' = p
    /\ UNCHANGED <<log, rec, slice, root, size, answer>>

(* l.mu.Unlock(), deferred in Append and explicit in Encode. *)
Unlock(p) ==
    /\ At(p, "unlock", "done")
    /\ mu' = Free
    /\ UNCHANGED <<log, rec, slice, root, size, answer>>

---------------------------------------------------------------------------
(* Append *)

(* Read the tail, build the record. *)
BuildRecord(a) ==
    /\ At(a, "locked", "built")
    /\ rec' = [rec EXCEPT ![a] = RecordFor(a, log)]
    /\ UNCHANGED <<mu, log, slice, root, size, answer>>

NewEntry(a) == Entry(KeyOf[a], rec[a])

(* The signature does not verify under the log's key. *)
SignFails(a) ==
    /\ At(a, "built", "unlock")
    /\ ~SelfVerifies(LogPub, NewEntry(a))
    /\ answer' = [answer EXCEPT ![a] = Failed]
    /\ UNCHANGED <<mu, log, rec, slice, root, size>>

LoadSlice(a) ==
    /\ At(a, "built", "loaded")
    /\ SelfVerifies(LogPub, NewEntry(a))
    /\ slice' = [slice EXCEPT ![a] = log]
    /\ UNCHANGED <<mu, log, rec, root, size, answer>>

StoreSlice(a) ==
    /\ At(a, "loaded", "unlock")
    /\ log' = Append(slice[a], NewEntry(a))
    /\ answer' = [answer EXCEPT ![a] = Succeeded(NewEntry(a))]
    /\ UNCHANGED <<mu, rec, slice, root, size>>

---------------------------------------------------------------------------
(* Encode: what is captured under the lock and written out after it. *)

ComputeRoot(e) ==
    /\ At(e, "locked", "rooted")
    /\ root' = [root EXCEPT ![e] = MerkleRoot(canonicalLeaves(log))]
    /\ UNCHANGED <<mu, log, rec, slice, size, answer>>

CopyEntries(e) ==
    /\ At(e, "rooted", "unlock")
    /\ answer' = [answer EXCEPT ![e] = [root |-> root[e], body |-> log]]
    /\ UNCHANGED <<mu, log, rec, slice, root, size>>

---------------------------------------------------------------------------
(* The reading methods *)

(* Mutation of Measure: the lock is released once the length is known. *)
MeasureReleases(r) ==
    /\ At(r, "locked", "measured")
    /\ mu' = Free
    /\ size' = [size EXCEPT ![r] = Len(log)]
    /\ UNCHANGED <<log, rec, slice, root, answer>>

(* make([][]byte, len(l.entries)) in canonicalLeavesLocked, At's bounds     *)
(* check.                                                                   *)
Measure(r) ==
    /\ At(r, "locked", "measured")
    /\ size' = [size EXCEPT ![r] = Len(log)]
    /\ UNCHANGED <<mu, log, rec, slice, root, answer>>

(* canonicalLeavesLocked writes past the slice it made. *)
Panicked == [panic |-> TRUE]

Overruns(r) == Ask[r].op \in {"Root", "Proof"} /\ Len(log) > size[r]

LookUp(r) ==
    /\ At(r, "measured", "unlock")
    /\ answer' = [answer EXCEPT ![r] = IF Overruns(r) THEN Panicked ELSE View(r, log)]
    /\ UNCHANGED <<mu, log, rec, slice, root, size>>

---------------------------------------------------------------------------
AppendStep(a) ==
    \/ Lock(a) \/ BuildRecord(a) \/ SignFails(a)
    \/ LoadSlice(a) \/ StoreSlice(a) \/ Unlock(a)

EncodeStep(e) == Lock(e) \/ ComputeRoot(e) \/ CopyEntries(e) \/ Unlock(e)

ReadStep(r) == Lock(r) \/ Measure(r) \/ LookUp(r) \/ Unlock(r)

Next ==
    \/ \E a \in Appenders : AppendStep(a)
    \/ \E e \in Encoders : EncodeStep(e)
    \/ \E r \in Readers : ReadStep(r)

Spec == Init /\ [][Next]_vars

(* sync.Mutex hands the lock to every waiter in the end; each goroutine     *)
(* locks once.                                                              *)
FairSpec ==
    /\ Spec
    /\ \A a \in Appenders : WF_vars(AppendStep(a))
    /\ \A e \in Encoders : WF_vars(EncodeStep(e))
    /\ \A r \in Readers : WF_vars(ReadStep(r))

---------------------------------------------------------------------------
(* Correctness *)

InCritical(p) == pc[p] \notin {"start", "done"}

(* Only the holder of the mutex is between Lock and Unlock, what it read    *)
(* there is still true, and nobody has an answer before its effect.         *)
MutexInv ==
    /\ \A p \in Procs : InCritical(p) <=> mu = p
    /\ \A a \in Appenders : pc[a] \in {"built", "loaded"} => rec[a] = RecordFor(a, log)
    /\ \A a \in Appenders : pc[a] = "loaded" =>
          slice[a] = log /\ SelfVerifies(LogPub, NewEntry(a))
    /\ \A e \in Encoders : pc[e] = "rooted" =>
          root[e] = MerkleRoot(canonicalLeaves(log))
    /\ \A r \in Readers : pc[r] = "measured" => size[r] = Len(log)
    /\ \A p \in Procs : pc[p] \notin {"unlock", "done"} => answer[p] = NoAnswer

(* Concurrent Appends never lose, overwrite or renumber an entry: what      *)
(* Append returned is in the log, at the position its Seq says, for good.   *)
ReturnedIsLogged ==
    \A a \in Appenders : answer[a] # NoAnswer /\ answer[a] # Failed =>
        LET e == answer[a].entry
        IN  e.record.seq + 1 \in DOMAIN log /\ log[e.record.seq + 1] = e

(* The locked code behaves as if every method were instantaneous, none      *)
(* panics on a slice that grew under it, and every call returns.            *)
ImplementsAtomicLog == AtomFairSpec
=============================================================================
