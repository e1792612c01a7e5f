----------------------------- MODULE StoreProofs -----------------------------
(***************************************************************************)
(* Save and LoadLog, for any number of concurrent Saves, any number of     *)
(* appends between their steps, any file operation failing and crashes at  *)
(* any point.                                                              *)
(***************************************************************************)
EXTENDS Store, Lemmas

SaveLabels == {"idle", "chmod", "encode", "sync", "close", "rename", "remove"}

(* A file that holds all of one snapshot of the log: whole, self-consistent *)
(* and chained.  If it is small enough for ReadLog, it is a past state of   *)
(* the log es that is now in memory.                                        *)
IsSnapshot(f, es) ==
    /\ f = [synced |-> f.synced, torn |-> f.torn, body |-> f.body]
    /\ f.torn = FALSE /\ f.body = Encode(f.body.entries)
    /\ f.body.entries \in Seq(Range(f.body.entries))
    /\ LogVerify(LogPub, f.body.entries)
    /\ Len(f.body.entries) <= MaxEntries
    /\ Len(f.body.entries) <= MaxLogEntries => IsPrefix(f.body.entries, es)

(* What a crash can leave at path. *)
OnDisk == {file} \cup undoable

LogInv ==
    /\ entries \in Seq(Range(entries))
    /\ LogVerify(LogPub, entries)
    /\ Len(entries) <= MaxEntries

SaverTypeOK ==
    /\ pc \in [Savers -> SaveLabels]
    /\ DOMAIN temp = Savers

DiskInv == \A f \in OnDisk : f # NoFile => IsSnapshot(f, entries) /\ f.synced = TRUE

TempInv ==
    \A s \in Savers :
        /\ pc[s] \in {"sync", "close", "rename"} => IsSnapshot(temp[s], entries)
        /\ pc[s] \in {"close", "rename"} => temp[s].synced = TRUE

(* The inductive invariant: everything that is at path, may come back to    *)
(* path, or is about to be renamed to path is a snapshot that has reached   *)
(* the disk.                                                                *)
StoreInv == LogInv /\ SaverTypeOK /\ DiskInv /\ TempInv

---------------------------------------------------------------------------
(* The file that Encode writes is a snapshot of the log it was given. *)
LEMMA FreshSnapshot ==
  ASSUME LogInv, NEW b
  PROVE  IsSnapshot([synced |-> b, torn |-> FALSE, body |-> Encode(entries)], entries)
<1> DEFINE f == [synced |-> b, torn |-> FALSE, body |-> Encode(entries)]
<1>1. /\ f.synced = b /\ f.torn = FALSE /\ f.body = Encode(entries)
      /\ f = [synced |-> f.synced, torn |-> f.torn, body |-> f.body]
  OBVIOUS
<1>2. f.body.entries = entries
  BY <1>1 DEF Encode
<1>3. IsPrefix(entries, entries)
  BY PrefixReflexive DEF LogInv
<1> HIDE DEF f
<1>4. IsSnapshot(f, entries)
  BY <1>1, <1>2, <1>3 DEF IsSnapshot, LogInv
<1> QED
  BY <1>4 DEF f

(* A snapshot is a file. *)
LEMMA SnapshotIsFile ==
  ASSUME NEW f, NEW es, IsSnapshot(f, es)
  PROVE  f # NoFile
<1>1. PICK a, t, b : f = [synced |-> a, torn |-> t, body |-> b]
  BY DEF IsSnapshot
<1>2. "synced" \in DOMAIN f /\ "synced" \notin DOMAIN NoFile
  BY <1>1 DEF NoFile
<1> QED
  BY <1>2

(* Appending to the log leaves every snapshot a snapshot. *)
LEMMA SnapshotGrows ==
  ASSUME NEW f, NEW es, es \in Seq(Range(es)), IsSnapshot(f, es), NEW e
  PROVE  IsSnapshot(f, Append(es, e))
<1>1. Len(f.body.entries) <= MaxLogEntries => IsPrefix(f.body.entries, Append(es, e))
  BY PrefixAppend DEF IsSnapshot
<1> QED
  BY <1>1 DEF IsSnapshot

(* ReadLog accepts exactly the snapshots within its cap. *)
LEMMA SnapshotReads ==
  ASSUME NEW f, NEW es, IsSnapshot(f, es)
  PROVE  ReadLog(f) <=> Len(f.body.entries) <= MaxLogEntries
<1> DEFINE es2 == f.body.entries
<1>1. f.torn = FALSE /\ f.body = Encode(es2)
  BY DEF IsSnapshot
<1>2. /\ f.body.format = FormatTransLog /\ f.body.layout = RecordLayoutVersion
      /\ f.body.pubkey = LogPub /\ f.body.count = Len(es2)
      /\ f.body.root = MerkleRoot(canonicalLeaves(es2))
  <2> HIDE DEF es2
  <2> QED
    BY <1>1 DEF Encode
<1>3. LogVerify(LogPub, es2)
  BY DEF IsSnapshot
<1> QED
  BY <1>1, <1>2, <1>3 DEF ReadLog

(* Forcing a snapshot to the disk changes nothing of what it holds. *)
LEMMA SyncedSnapshot ==
  ASSUME NEW f, NEW es, IsSnapshot(f, es), NEW g, g = [f EXCEPT !.synced = TRUE]
  PROVE  IsSnapshot(g, es) /\ g.synced = TRUE
<1>1. f = [synced |-> f.synced, torn |-> f.torn, body |-> f.body] /\ f.torn = FALSE
  BY DEF IsSnapshot
<1>2. g.synced = TRUE /\ g.torn = f.torn /\ g.body = f.body
  BY <1>1
<1>3. g = [synced |-> g.synced, torn |-> g.torn, body |-> g.body]
  BY <1>1
<1> QED
  BY <1>1, <1>2, <1>3 DEF IsSnapshot

(* A crash leaves what is synced as it is. *)
LEMMA SyncedSurvives ==
  ASSUME DiskInv, NEW f \in UNION {Surviving(g) : g \in {file} \cup undoable}
  PROVE  f \in OnDisk
<1>1. PICK g \in OnDisk : f \in Surviving(g)
  BY DEF OnDisk
<1>2. g = NoFile \/ g.synced
  BY DEF DiskInv
<1> QED
  BY <1>1, <1>2 DEF Surviving

(* Before the first decision. *)
LEMMA StoreInvInit == Init => StoreInv
<1> SUFFICES ASSUME Init PROVE StoreInv
  OBVIOUS
<1>1. LogInv
  <2>1. entries = <<>> /\ 1..Len(entries) = {} /\ Len(entries) = 0
    BY DEF Init
  <2> QED
    BY <2>1, StoreAssumption DEF LogInv, LogVerify
<1>2. SaverTypeOK /\ DiskInv /\ TempInv
  BY DEF Init, SaverTypeOK, DiskInv, TempInv, OnDisk, SaveLabels
<1> QED
  BY <1>1, <1>2 DEF StoreInv

(* A decision is appended under the Saves. *)
LEMMA AppendKeepsStore ==
  ASSUME StoreInv, AppendDecision
  PROVE  StoreInv'
<1> DEFINE e == Entry(LogPub, NextRecord(entries, LogAllow, Sha256("payment"), crashes))
<1>1. /\ entries' = Append(entries, e) /\ Len(entries) < MaxEntries
      /\ UNCHANGED <<file, undoable, temp, pc>>
  BY DEF AppendDecision
<1>2. LogVerify(LogPub, Append(entries, e))
  <2>1. SelfVerifies(LogPub, e)
    BY DEF SelfVerifies, Verify, Ed25519Verify, Entry, Sign
  <2> QED
    BY <2>1, ExtendedLogVerifies DEF StoreInv, LogInv
<1> HIDE DEF e
<1>3. entries \in Seq(Range(entries))
  BY DEF StoreInv, LogInv
<1>4. LogInv'
  BY <1>1, <1>2, <1>3, AppendExtends, StoreAssumption DEF LogInv
<1>5. DiskInv'
  <2> SUFFICES ASSUME NEW f \in OnDisk', f # NoFile
               PROVE  IsSnapshot(f, entries') /\ f.synced = TRUE
    BY DEF DiskInv
  <2>1. f \in OnDisk
    BY <1>1 DEF OnDisk
  <2>2. IsSnapshot(f, entries) /\ f.synced = TRUE
    BY <2>1 DEF StoreInv, DiskInv
  <2> QED
    BY <1>1, <1>3, <2>2, SnapshotGrows
<1>6. TempInv'
  <2> SUFFICES ASSUME NEW s \in Savers
               PROVE  /\ pc[s] \in {"sync", "close", "rename"} => IsSnapshot(temp[s], entries')
                      /\ pc[s] \in {"close", "rename"} => temp[s].synced = TRUE
    BY <1>1 DEF TempInv
  <2>1. /\ pc[s] \in {"sync", "close", "rename"} => IsSnapshot(temp[s], entries)
        /\ pc[s] \in {"close", "rename"} => temp[s].synced = TRUE
    BY DEF StoreInv, TempInv
  <2> QED
    BY <1>1, <1>3, <2>1, SnapshotGrows
<1>7. SaverTypeOK'
  BY <1>1 DEF StoreInv, SaverTypeOK
<1> QED
  BY <1>4, <1>5, <1>6, <1>7 DEF StoreInv

(* A step of one Save disturbs no other Save's temporary file. *)
LEMMA OneSaveMoves ==
  ASSUME SaverTypeOK, TempInv, NEW s \in Savers, NEW label \in SaveLabels,
         pc' = [pc EXCEPT ![s] = label],
         UNCHANGED temp \/ \E f : temp' = [temp EXCEPT ![s] = f],
         UNCHANGED entries,
         label \in {"sync", "close", "rename"} => IsSnapshot(temp'[s], entries),
         label \in {"close", "rename"} => temp'[s].synced = TRUE
  PROVE  SaverTypeOK' /\ TempInv'
<1>1. SaverTypeOK'
  BY DEF SaverTypeOK, SaveLabels
<1>2. \A t \in Savers \ {s} : pc'[t] = pc[t] /\ temp'[t] = temp[t]
  BY DEF SaverTypeOK
<1>3. pc'[s] = label
  BY DEF SaverTypeOK
<1>4. ASSUME NEW t \in Savers
      PROVE  /\ pc'[t] \in {"sync", "close", "rename"} => IsSnapshot(temp'[t], entries')
             /\ pc'[t] \in {"close", "rename"} => temp'[t].synced = TRUE
  BY <1>2, <1>3 DEF TempInv
<1> QED
  BY <1>1, <1>4 DEF TempInv

(* The steps of Save that leave path alone. *)
LEMMA SaveStepsKeepStore ==
  ASSUME StoreInv, NEW s \in Savers,
         \/ CreateTemp(s) \/ CreateFails(s) \/ Chmod(s) \/ WriteTemp(s) \/ Sync(s)
         \/ Close(s) \/ OperationFails(s) \/ RemoveTemp(s)
  PROVE  StoreInv' /\ UNCHANGED <<entries, file, undoable>>
<1>1. UNCHANGED <<entries, file, undoable>>
  BY DEF CreateTemp, CreateFails, Chmod, WriteTemp, Sync, Close, OperationFails, RemoveTemp
<1>2. LogInv' /\ DiskInv'
  BY <1>1 DEF StoreInv, LogInv, DiskInv, OnDisk
<1>3. /\ SaverTypeOK /\ TempInv
      /\ pc[s] \in {"sync", "close", "rename"} => IsSnapshot(temp[s], entries)
      /\ pc[s] \in {"close", "rename"} => temp[s].synced = TRUE
  BY DEF StoreInv, TempInv
<1>4. SaverTypeOK' /\ TempInv'
  <2>1. CASE CreateFails(s)
    <3>1. UNCHANGED <<pc, temp>>
      BY <2>1 DEF CreateFails
    <3> QED
      BY <1>1, <1>3, <3>1 DEF SaverTypeOK, TempInv
  <2>2. CASE CreateTemp(s) \/ Chmod(s) \/ OperationFails(s) \/ RemoveTemp(s)
    <3>1. PICK label \in {"chmod", "encode", "remove", "idle"} : pc' = [pc EXCEPT ![s] = label]
      BY <2>2 DEF CreateTemp, Chmod, OperationFails, RemoveTemp, Goto
    <3>2. UNCHANGED temp \/ \E f : temp' = [temp EXCEPT ![s] = f]
      BY <2>2 DEF CreateTemp, Chmod, OperationFails, RemoveTemp
    <3> QED
      BY <1>1, <1>3, <3>1, <3>2, OneSaveMoves DEF SaveLabels
  <2>3. CASE WriteTemp(s)
    <3> DEFINE f == [synced |-> FALSE, torn |-> FALSE, body |-> Encode(entries)]
    <3>1. pc' = [pc EXCEPT ![s] = "sync"] /\ temp' = [temp EXCEPT ![s] = f]
      BY <2>3 DEF WriteTemp, Goto
    <3>2. IsSnapshot(f, entries)
      BY FreshSnapshot DEF StoreInv
    <3> HIDE DEF f
    <3>3. temp'[s] = f
      BY <1>3, <3>1 DEF SaverTypeOK
    <3> QED
      BY <1>1, <1>3, <3>1, <3>2, <3>3, OneSaveMoves DEF SaveLabels
  <2>4. CASE Sync(s)
    <3>1. /\ pc[s] = "sync" /\ pc' = [pc EXCEPT ![s] = "close"]
          /\ temp' = [temp EXCEPT ![s] = [temp[s] EXCEPT !.synced = TRUE]]
      BY <2>4 DEF Sync, Goto
    <3>2. IsSnapshot(temp[s], entries)
      BY <1>3, <3>1
    <3>3. PICK g : g = [temp[s] EXCEPT !.synced = TRUE]
      OBVIOUS
    <3>4. IsSnapshot(g, entries) /\ g.synced = TRUE
      BY <3>2, <3>3, SyncedSnapshot
    <3>5. temp' = [temp EXCEPT ![s] = g] /\ temp'[s] = g
      BY <1>3, <3>1, <3>3 DEF SaverTypeOK
    <3> QED
      BY <1>1, <1>3, <3>1, <3>4, <3>5, OneSaveMoves DEF SaveLabels
  <2>5. CASE Close(s)
    <3>1. pc[s] = "close" /\ pc' = [pc EXCEPT ![s] = "rename"] /\ UNCHANGED temp
      BY <2>5 DEF Close, Goto
    <3> QED
      BY <1>1, <1>3, <3>1, OneSaveMoves DEF SaveLabels
  <2> QED
    BY <2>1, <2>2, <2>3, <2>4, <2>5
<1> QED
  BY <1>1, <1>2, <1>4 DEF StoreInv

(* Rename puts a snapshot that is on the disk at path, and makes the file   *)
(* that was there one that may come back.                                   *)
LEMMA RenameKeepsStore ==
  ASSUME StoreInv, NEW s \in Savers, Rename(s)
  PROVE  StoreInv'
<1>1. /\ pc[s] = "rename" /\ pc' = [pc EXCEPT ![s] = "remove"]
      /\ file' = temp[s] /\ undoable' = undoable \cup {file}
      /\ temp' = [temp EXCEPT ![s] = NoFile] /\ UNCHANGED entries
  BY DEF Rename, Goto
<1>2. SaverTypeOK' /\ TempInv'
  BY <1>1, OneSaveMoves DEF StoreInv, SaveLabels
<1>3. IsSnapshot(temp[s], entries) /\ temp[s].synced = TRUE
  BY <1>1 DEF StoreInv, TempInv
<1>4. DiskInv'
  BY <1>1, <1>3 DEF StoreInv, DiskInv, OnDisk
<1>5. LogInv'
  BY <1>1 DEF StoreInv, LogInv
<1> QED
  BY <1>2, <1>4, <1>5 DEF StoreInv

(* After a crash the log in memory is what was at path, if that loads, and  *)
(* empty otherwise: a past state of the log in either case.                 *)
LEMMA CrashKeepsStore ==
  ASSUME StoreInv, Crash
  PROVE  /\ StoreInv' /\ file' \in OnDisk
         /\ entries' = IF Loads(file') THEN file'.body.entries ELSE <<>>
         /\ IsPrefix(entries', entries)
<1>1. PICK f \in UNION {Surviving(g) : g \in {file} \cup undoable} :
         file' = f /\ entries' = IF Loads(f) THEN f.body.entries ELSE <<>>
  BY DEF Crash
<1>2. /\ undoable' = {} /\ temp' = [s \in Savers |-> NoFile]
      /\ pc' = [s \in Savers |-> "idle"]
  BY DEF Crash
<1>3. f \in OnDisk
  BY SyncedSurvives DEF StoreInv
<1>4. SaverTypeOK' /\ TempInv'
  BY <1>2 DEF SaverTypeOK, TempInv, SaveLabels
<1>5. f # NoFile => IsSnapshot(f, entries) /\ f.synced = TRUE
  BY <1>3 DEF StoreInv, DiskInv
<1>6. CASE Loads(f)
  <2>1. f # NoFile /\ ReadLog(f) /\ IsSnapshot(f, entries)
    BY <1>5, <1>6 DEF Loads
  <2>2. Len(f.body.entries) <= MaxLogEntries
    BY <2>1, SnapshotReads
  <2>3. /\ f.body.entries \in Seq(Range(f.body.entries)) /\ IsPrefix(f.body.entries, entries)
        /\ LogVerify(LogPub, f.body.entries) /\ Len(f.body.entries) <= MaxEntries
    BY <2>1, <2>2 DEF IsSnapshot
  <2>4. IsPrefix(f.body.entries, f.body.entries)
    BY <2>3, PrefixReflexive
  <2>5. IsSnapshot(f, f.body.entries)
    BY <2>1, <2>4 DEF IsSnapshot
  <2>6. DiskInv' /\ LogInv'
    BY <1>1, <1>2, <1>5, <1>6, <2>1, <2>3, <2>5 DEF DiskInv, OnDisk, LogInv
  <2> QED
    BY <1>1, <1>3, <1>4, <1>6, <2>3, <2>6 DEF StoreInv
<1>7. CASE ~Loads(f)
  <2>1. entries' = <<>>
    BY <1>1, <1>7
  <2>2. LogInv'
    <3>1. 1..Len(<<>>) = {} /\ Len(<<>>) = 0
      OBVIOUS
    <3> QED
      BY <2>1, <3>1, StoreAssumption DEF LogInv, LogVerify
  <2>3. f # NoFile => IsSnapshot(f, <<>>)
    <3> SUFFICES ASSUME f # NoFile PROVE IsSnapshot(f, <<>>)
      OBVIOUS
    <3>1. IsSnapshot(f, entries) /\ ~ReadLog(f)
      BY <1>5, <1>7 DEF Loads
    <3>2. ~(Len(f.body.entries) <= MaxLogEntries)
      BY <3>1, SnapshotReads
    <3> QED
      BY <3>1, <3>2 DEF IsSnapshot
  <2>4. DiskInv'
    BY <1>1, <1>2, <1>5, <2>1, <2>3 DEF DiskInv, OnDisk
  <2>5. IsPrefix(<<>>, entries)
    BY PrefixReflexive DEF StoreInv, LogInv
  <2> QED
    BY <1>1, <1>3, <1>4, <1>7, <2>1, <2>2, <2>4, <2>5 DEF StoreInv
<1> QED
  BY <1>6, <1>7

(* The steps that change neither the log nor a file. *)
LEMMA QuietKeepsStore ==
  ASSUME StoreInv, CommitRenames \/ Anchor \/ UNCHANGED vars
  PROVE  StoreInv' /\ UNCHANGED <<entries, file, temp, pc>>
<1>1. UNCHANGED <<entries, file, temp, pc>> /\ (undoable' = {} \/ UNCHANGED undoable)
  BY DEF CommitRenames, Anchor, vars
<1>2. DiskInv'
  BY <1>1 DEF StoreInv, DiskInv, OnDisk
<1>3. LogInv' /\ SaverTypeOK' /\ TempInv'
  BY <1>1 DEF StoreInv, LogInv, SaverTypeOK, TempInv
<1> QED
  BY <1>1, <1>2, <1>3 DEF StoreInv

(* What a step can be. *)
LEMMA StoreCases ==
  ASSUME [Next]_vars
  PROVE  \/ AppendDecision
         \/ \E s \in Savers : Rename(s)
         \/ \E s \in Savers :
               \/ CreateTemp(s) \/ CreateFails(s) \/ Chmod(s) \/ WriteTemp(s) \/ Sync(s)
               \/ Close(s) \/ OperationFails(s) \/ RemoveTemp(s)
         \/ CommitRenames \/ Anchor \/ UNCHANGED vars
         \/ Crash
  BY DEF Next, SaveStep

(* Every step preserves the invariant. *)
LEMMA StoreInvStep == StoreInv /\ [Next]_vars => StoreInv'
  BY StoreCases, AppendKeepsStore, RenameKeepsStore, SaveStepsKeepStore, QuietKeepsStore,
     CrashKeepsStore

(* So it holds in every state. *)
LEMMA StoreAlways == Spec => []StoreInv
  BY StoreInvInit, StoreInvStep, PTL DEF Spec

---------------------------------------------------------------------------
(* store.go refuses to load more than maxLogEntries entries and leaves      *)
(* larger logs out of its scope.  The results that need the log to stay     *)
(* within that cap say so; MaxEntries is the longest the log gets.          *)
WithinCap == MaxEntries <= MaxLogEntries

(* LoadLog accepts the file at path in every state: whatever Saves,         *)
(* failures and crashes came before, the file is one whole snapshot.        *)
THEOREM FileAlwaysLoads ==
  ASSUME WithinCap
  PROVE  Spec => []SnapshotLoads
<1>1. StoreInv => SnapshotLoads
  <2> SUFFICES ASSUME StoreInv, file # NoFile PROVE ReadLog(file)
    BY DEF SnapshotLoads
  <2>1. IsSnapshot(file, entries)
    BY DEF StoreInv, DiskInv, OnDisk
  <2>2. Len(file.body.entries) <= MaxLogEntries
    <3>1. Len(file.body.entries) \in Nat /\ Len(file.body.entries) <= MaxEntries
      BY <2>1 DEF IsSnapshot
    <3> QED
      BY <3>1, StoreAssumption DEF WithinCap
  <2> QED
    BY <2>1, <2>2, SnapshotReads
<1> QED
  BY <1>1, StoreAlways, PTL

(* What is at path is always a past state of the log in memory. *)
THEOREM FileNeverForks ==
  ASSUME WithinCap
  PROVE  Spec => []FileIsPastLog
<1>1. StoreInv => FileIsPastLog
  <2> SUFFICES ASSUME StoreInv, file # NoFile PROVE IsPrefix(file.body.entries, entries)
    BY DEF FileIsPastLog
  <2>1. IsSnapshot(file, entries)
    BY DEF StoreInv, DiskInv, OnDisk
  <2>2. Len(file.body.entries) \in Nat /\ Len(file.body.entries) <= MaxEntries
    BY <2>1 DEF IsSnapshot
  <2>3. Len(file.body.entries) <= MaxLogEntries
    BY <2>2, StoreAssumption DEF WithinCap
  <2> QED
    BY <2>1, <2>3 DEF IsSnapshot
<1> QED
  BY <1>1, StoreAlways, PTL

(* A snapshot that is on the disk within the cap loads, and what it holds   *)
(* is a past state of the log, even after the log has outgrown the cap and  *)
(* a crash has thrown it away.                                              *)
LoadedIsPastLog ==
    file # NoFile /\ Len(file.body.entries) <= MaxLogEntries =>
        ReadLog(file) /\ IsPrefix(file.body.entries, entries)

(* Without any bound on the log: whatever LoadLog would accept at path is   *)
(* a past state of the log in memory.                                       *)
THEOREM LoadedNeverForks == Spec => []LoadedIsPastLog
<1>1. StoreInv => LoadedIsPastLog
  <2> SUFFICES ASSUME StoreInv, file # NoFile, Len(file.body.entries) <= MaxLogEntries
               PROVE  ReadLog(file) /\ IsPrefix(file.body.entries, entries)
    BY DEF LoadedIsPastLog
  <2>1. IsSnapshot(file, entries)
    BY DEF StoreInv, DiskInv, OnDisk
  <2>2. ReadLog(file)
    BY <2>1, SnapshotReads
  <2> QED
    BY <2>1, <2>2 DEF IsSnapshot
<1> QED
  BY <1>1, StoreAlways, PTL

---------------------------------------------------------------------------
(* LossyLog's Verify is the log's. *)
LEMMA SameVerify == ASSUME NEW es PROVE Lossy!LogVerify(LogPub, es) <=> LogVerify(LogPub, es)
<1>1. \A r : Lossy!CanonicalBytes(r) = CanonicalBytes(r)
  BY DEF CanonicalBytes, DomainTagLogEntry, RecordLayoutVersion, Lossy!CanonicalBytes,
         Lossy!DomainTagLogEntry, Lossy!RecordLayoutVersion
<1>2. \A n : Lossy!TailHash(es, n) = TailHash(es, n)
  BY <1>1 DEF TailHash, Hash, Sha256, Zero32, Lossy!TailHash, Lossy!Hash, Lossy!Sha256,
              Lossy!Zero32
<1>3. \A r, sig : Lossy!Verify(LogPub, r, sig) <=> Verify(LogPub, r, sig)
  BY <1>1 DEF Verify, Ed25519Verify, Ed25519Sign, Lossy!Verify, Lossy!Ed25519Verify,
              Lossy!Ed25519Sign
<1> QED
  BY <1>2, <1>3 DEF LogVerify, Lossy!LogVerify

(* One step of the log, as LossyLog sees it: the log is unchanged, one      *)
(* entry longer, or back at an earlier state.                               *)
LEMMA LogStepIsLossy ==
  ASSUME StoreInv, StoreInv', [Next]_vars
  PROVE  Lossy!Extend \/ Lossy!Restart \/ UNCHANGED entries
<1>1. CASE AppendDecision
  <2> DEFINE e == Entry(LogPub, NextRecord(entries, LogAllow, Sha256("payment"), crashes))
  <2>1. entries' = Append(entries, e) /\ entries \in Seq(Range(entries))
    BY <1>1 DEF AppendDecision, StoreInv, LogInv
  <2> HIDE DEF e
  <2>2. Len(entries') = Len(entries) + 1 /\ Len(entries) \in 0..Len(entries)
    BY <2>1, AppendExtends
  <2>3. SubSeq(entries', 1, Len(entries)) = entries
    BY <2>1, <2>2, PrefixOfAppend, PrefixFull
  <2>4. LogVerify(LogPub, entries')
    BY DEF StoreInv, LogInv
  <2> QED
    BY <2>2, <2>3, <2>4, SameVerify DEF Lossy!Extend
<1>2. CASE Crash
  <2>1. /\ IsPrefix(entries', entries) /\ entries \in Seq(Range(entries))
        /\ entries' \in Seq(Range(entries'))
    BY <1>2, CrashKeepsStore DEF StoreInv, LogInv
  <2>2. Len(entries') \in 0..Len(entries) /\ entries' = SubSeq(entries, 1, Len(entries'))
    BY <2>1, PrefixIsSubSeq
  <2> QED
    BY <2>2 DEF Lossy!Restart
<1>3. CASE \E s \in Savers : Rename(s)
  BY <1>3 DEF Rename
<1> QED
  BY <1>1, <1>2, <1>3, StoreCases, SaveStepsKeepStore, QuietKeepsStore

(* Append, concurrent Saves and the restart from whatever file a crash      *)
(* leaves implement LossyLog: the log only gains an entry that continues    *)
(* the chain, or goes back to an earlier state.                             *)
THEOREM StoreRefinesLossyLog == Spec => ImplementsLossyLog
<1>1. Init => Lossy!LossyInit
  BY DEF Init, Lossy!LossyInit
<1>2. StoreInv /\ StoreInv' /\ [Next]_vars => [Lossy!Extend \/ Lossy!Restart]_entries
  BY LogStepIsLossy
<1> QED
  BY <1>1, <1>2, StoreAlways, PTL DEF Spec, ImplementsLossyLog, Lossy!LossySpec

---------------------------------------------------------------------------
(* The file f holds all that was anchored; if there is no file, nothing     *)
(* was.                                                                     *)
Covers(f, a) == IF f = NoFile THEN a = <<>> ELSE IsPrefix(a, f.body.entries)

(* After a settled anchoring, every file that is at path, may come back to  *)
(* path or is on its way there holds all that was anchored.                 *)
AnchorInv ==
    /\ anchored \in Seq(Range(anchored))
    /\ settled =>
          /\ IsPrefix(anchored, entries)
          /\ \A f \in OnDisk : Covers(f, anchored)
          /\ \A s \in Savers : pc[s] \in {"sync", "close", "rename"} =>
                IsPrefix(anchored, temp[s].body.entries)

(* Nothing is anchored at first. *)
LEMMA AnchorInvInit == Init => AnchorInv
<1> SUFFICES ASSUME Init PROVE AnchorInv
  OBVIOUS
<1>1. /\ anchored = <<>> /\ entries = <<>> /\ OnDisk = {NoFile}
      /\ \A s \in Savers : pc[s] = "idle"
  BY DEF Init, OnDisk
<1>2. <<>> \in Seq(Range(<<>>))
  OBVIOUS
<1>3. IsPrefix(<<>>, <<>>)
  BY <1>2, PrefixReflexive
<1> QED
  BY <1>1, <1>2, <1>3 DEF AnchorInv, Covers

(* The steps of Save. *)
LEMMA AnchorInvSave ==
  ASSUME StoreInv, StoreInv', AnchorInv, NEW s \in Savers, SaveStep(s)
  PROVE  AnchorInv'
<1>1. UNCHANGED <<entries, anchored, settled>>
  BY DEF SaveStep, CreateTemp, CreateFails, Chmod, WriteTemp, Sync, Close, Rename,
         OperationFails, RemoveTemp, anchorVars
<1> SUFFICES ASSUME settled
             PROVE  /\ \A f \in OnDisk' : Covers(f, anchored)
                    /\ \A t \in Savers : pc'[t] \in {"sync", "close", "rename"} =>
                          IsPrefix(anchored, temp'[t].body.entries)
  BY <1>1 DEF AnchorInv
<1>2. /\ IsPrefix(anchored, entries)
      /\ \A f \in OnDisk : Covers(f, anchored)
      /\ \A t \in Savers : pc[t] \in {"sync", "close", "rename"} =>
            IsPrefix(anchored, temp[t].body.entries)
  BY DEF AnchorInv
<1>3. pc \in [Savers -> SaveLabels] /\ DOMAIN temp = Savers
  BY DEF StoreInv, SaverTypeOK
<1>4. \A t \in Savers \ {s} : pc'[t] = pc[t] /\ temp'[t] = temp[t]
  BY <1>3 DEF SaveStep, CreateTemp, CreateFails, Chmod, WriteTemp, Sync, Close, Rename,
              OperationFails, RemoveTemp, Goto
<1>5. pc'[s] \in {"sync", "close", "rename"} => IsPrefix(anchored, temp'[s].body.entries)
  <2>1. CASE WriteTemp(s)
    <3>1. temp'[s].body.entries = entries
      BY <1>3, <2>1 DEF WriteTemp, Encode
    <3> QED
      BY <1>2, <3>1
  <2>2. CASE Sync(s)
    <3>1. pc[s] = "sync" /\ IsSnapshot(temp[s], entries)
      BY <2>2 DEF Sync, Goto, StoreInv, TempInv
    <3>2. temp'[s] = [temp[s] EXCEPT !.synced = TRUE]
      BY <1>3, <2>2 DEF Sync
    <3>3. temp[s] = [synced |-> temp[s].synced, torn |-> temp[s].torn, body |-> temp[s].body]
      BY <3>1 DEF IsSnapshot
    <3>4. temp'[s].body = temp[s].body
      BY <3>2, <3>3
    <3> QED
      BY <1>2, <3>1, <3>4
  <2>3. CASE Close(s)
    BY <1>2, <2>3 DEF Close, Goto
  <2>4. CASE CreateFails(s)
    BY <1>2, <2>4 DEF CreateFails
  <2>5. CASE CreateTemp(s) \/ Chmod(s) \/ OperationFails(s) \/ RemoveTemp(s) \/ Rename(s)
    BY <1>3, <2>5 DEF CreateTemp, Chmod, OperationFails, RemoveTemp, Rename, Goto
  <2> QED
    BY <2>1, <2>2, <2>3, <2>4, <2>5 DEF SaveStep
<1>6. \A f \in OnDisk' : Covers(f, anchored)
  <2>1. CASE Rename(s)
    <3>1. pc[s] = "rename" /\ OnDisk' = OnDisk \cup {temp[s]}
      BY <2>1 DEF Rename, Goto, OnDisk
    <3>2. temp[s] # NoFile
      BY <3>1, SnapshotIsFile DEF StoreInv, TempInv
    <3> QED
      BY <1>2, <3>1, <3>2 DEF Covers
  <2>2. CASE ~Rename(s)
    <3>1. UNCHANGED <<file, undoable>>
      BY <2>2, SaveStepsKeepStore DEF SaveStep
    <3> QED
      BY <1>2, <3>1 DEF OnDisk
  <2> QED
    BY <2>1, <2>2
<1> QED
  BY <1>2, <1>4, <1>5, <1>6

(* The anchoring process publishes what it loads from path. *)
LEMMA AnchorInvAnchor ==
  ASSUME StoreInv, Anchor
  PROVE  AnchorInv'
<1>1. /\ Loads(file) /\ anchored' = file.body.entries
      /\ settled' = (Active = {} /\ undoable = {})
      /\ UNCHANGED <<entries, file, undoable, temp, pc>>
  BY DEF Anchor
<1>2. file # NoFile /\ ReadLog(file) /\ IsSnapshot(file, entries)
  BY <1>1 DEF Loads, StoreInv, DiskInv, OnDisk
<1>3. Len(file.body.entries) <= MaxLogEntries
  BY <1>2, SnapshotReads
<1>4. file.body.entries \in Seq(Range(file.body.entries)) /\ IsPrefix(file.body.entries, entries)
  BY <1>2, <1>3 DEF IsSnapshot
<1>5. IsPrefix(file.body.entries, file.body.entries)
  BY <1>4, PrefixReflexive
<1>6. settled' => OnDisk' = {file} /\ \A s \in Savers : pc'[s] = "idle"
  <2>1. settled' => Active = {} /\ undoable = {}
    BY <1>1, Zenon
  <2>2. Active = {} => \A s \in Savers : pc[s] = "idle"
    BY DEF Active
  <2> QED
    BY <1>1, <2>1, <2>2 DEF OnDisk
<1> QED
  BY <1>1, <1>2, <1>4, <1>5, <1>6 DEF AnchorInv, Covers

(* The other steps, as long as the log stays within the cap. *)
LEMMA AnchorInvStep ==
  ASSUME WithinCap, StoreInv, StoreInv', AnchorInv, [Next]_vars
  PROVE  AnchorInv'
<1>1. CASE \E s \in Savers : SaveStep(s)
  BY <1>1, AnchorInvSave
<1>2. CASE Anchor
  BY <1>2, AnchorInvAnchor
<1>3. CASE AppendDecision
  <2> DEFINE e == Entry(LogPub, NextRecord(entries, LogAllow, Sha256("payment"), crashes))
  <2>1. /\ entries' = Append(entries, e) /\ entries \in Seq(Range(entries))
        /\ UNCHANGED <<file, undoable, temp, pc, anchored, settled>>
    BY <1>3 DEF AppendDecision, StoreInv, LogInv, anchorVars
  <2> HIDE DEF e
  <2>2. settled => IsPrefix(anchored, entries')
    BY <2>1, PrefixAppend DEF AnchorInv
  <2> QED
    BY <2>1, <2>2 DEF AnchorInv, OnDisk
<1>4. CASE CommitRenames \/ UNCHANGED vars
  <2>1. /\ UNCHANGED <<entries, file, temp, pc, anchored, settled>>
        /\ undoable' = {} \/ UNCHANGED undoable
    BY <1>4 DEF CommitRenames, vars, anchorVars
  <2>2. OnDisk' \subseteq OnDisk
    BY <2>1 DEF OnDisk
  <2> QED
    BY <2>1, <2>2 DEF AnchorInv
<1>5. CASE Crash
  <2>1. /\ file' \in OnDisk /\ entries' = IF Loads(file') THEN file'.body.entries ELSE <<>>
    BY <1>5, CrashKeepsStore
  <2>2. /\ UNCHANGED <<anchored, settled>> /\ OnDisk' = {file'}
        /\ \A s \in Savers : pc'[s] = "idle"
    BY <1>5 DEF Crash, anchorVars, OnDisk
  <2>3. file' # NoFile => Loads(file')
    <3> SUFFICES ASSUME file' # NoFile PROVE ReadLog(file')
      BY DEF Loads
    <3>1. IsSnapshot(file', entries)
      BY <2>1 DEF StoreInv, DiskInv
    <3>2. Len(file'.body.entries) \in Nat /\ Len(file'.body.entries) <= MaxEntries
      BY <3>1 DEF IsSnapshot
    <3>3. Len(file'.body.entries) <= MaxLogEntries
      BY <3>2, StoreAssumption DEF WithinCap
    <3> QED
      BY <3>1, <3>3, SnapshotReads
  <2>4. settled => Covers(file', anchored) /\ IsPrefix(anchored, entries')
    <3> SUFFICES ASSUME settled PROVE Covers(file', anchored) /\ IsPrefix(anchored, entries')
      OBVIOUS
    <3>1. Covers(file', anchored)
      BY <2>1 DEF AnchorInv
    <3>2. CASE file' = NoFile
      <4>1. anchored = <<>> /\ entries' \in Seq(Range(entries'))
        BY <3>1, <3>2 DEF Covers, StoreInv, LogInv
      <4> QED
        BY <3>1, <4>1, PrefixReflexive
    <3>3. CASE file' # NoFile
      BY <2>1, <2>3, <3>1, <3>3 DEF Covers
    <3> QED
      BY <3>1, <3>2, <3>3
  <2> QED
    BY <2>2, <2>4 DEF AnchorInv
<1> QED
  BY <1>1, <1>2, <1>3, <1>4, <1>5 DEF Next

(* A root that was anchored while no Save was under way and every rename    *)
(* had reached the disk stays the root of a past state of the log, through  *)
(* any later Saves, failures and crashes.                                   *)
THEOREM SettledAnchorStays ==
  ASSUME WithinCap
  PROVE  Spec => []SettledAnchorHolds
<1>1. StoreInv /\ StoreInv' /\ AnchorInv /\ [Next]_vars => AnchorInv'
  BY AnchorInvStep
<1>2. AnchorInv => SettledAnchorHolds
  BY DEF AnchorInv, SettledAnchorHolds
<1> QED
  BY <1>1, <1>2, AnchorInvInit, StoreAlways, PTL DEF Spec

---------------------------------------------------------------------------
Written(s) == pc[s] \in {"sync", "close", "rename"}

(* The file f holds at least n entries. *)
HoldsAtLeast(f, n) == f # NoFile /\ Len(f.body.entries) >= n

(* A Save that is under way and alone is the only one under way.  It, and   *)
(* every Save that writes its file after it has returned, writes at least   *)
(* what was in the log when it was called.                                  *)
CallInv ==
    /\ began \in [Savers -> Nat] /\ DOMAIN err = Savers /\ DOMAIN alone = Savers
    /\ \A s \in Savers :
          /\ began[s] <= Len(entries)
          /\ alone[s] /\ pc[s] # "idle" => Active = {s}
          /\ alone[s] /\ Written(s) => HoldsAtLeast(temp[s], began[s])
          /\ err[s] = "nil" /\ alone[s] =>
                /\ HoldsAtLeast(file, began[s])
                /\ \A t \in Savers : Written(t) => HoldsAtLeast(temp[t], began[s])

(* No Save has been called. *)
LEMMA CallInvInit == Init => CallInv
<1> SUFFICES ASSUME Init PROVE CallInv
  OBVIOUS
<1>1. /\ began = [s \in Savers |-> 0] /\ err = [s \in Savers |-> "none"]
      /\ pc = [s \in Savers |-> "idle"] /\ alone = [s \in Savers |-> FALSE]
      /\ Len(entries) = 0
  BY DEF Init
<1> QED
  BY <1>1 DEF CallInv, Written

(* The log grows. *)
LEMMA CallInvAppend ==
  ASSUME StoreInv, CallInv, AppendDecision
  PROVE  CallInv'
<1> DEFINE e == Entry(LogPub, NextRecord(entries, LogAllow, Sha256("payment"), crashes))
<1>1. /\ entries' = Append(entries, e) /\ entries \in Seq(Range(entries))
      /\ UNCHANGED <<file, temp, pc, err, began, alone>>
  BY DEF AppendDecision, StoreInv, LogInv
<1> HIDE DEF e
<1>2. Len(entries) \in Nat /\ Len(entries') = Len(entries) + 1
  BY <1>1, AppendExtends
<1>3. \A s \in Savers : began'[s] <= Len(entries')
  BY <1>1, <1>2 DEF CallInv
<1> QED
  BY <1>1, <1>3 DEF CallInv, Written, Active

(* Save is called: whoever is under way is no longer alone, and the caller  *)
(* is alone if nobody is.                                                   *)
LEMMA CallInvCreate ==
  ASSUME StoreInv, CallInv, NEW s \in Savers, CreateTemp(s)
  PROVE  CallInv'
<1>1. /\ pc[s] = "idle" /\ pc' = [pc EXCEPT ![s] = "chmod"]
      /\ \E f : temp' = [temp EXCEPT ![s] = f]
      /\ err' = [err EXCEPT ![s] = "none"]
      /\ began' = [began EXCEPT ![s] = Len(entries)]
      /\ alone' = AloneAfter(s) /\ UNCHANGED <<entries, file>>
  BY DEF CreateTemp, Goto
<1>2. /\ pc \in [Savers -> SaveLabels] /\ DOMAIN temp = Savers /\ Len(entries) \in Nat
  BY DEF StoreInv, SaverTypeOK, LogInv
<1>3. /\ began' \in [Savers -> Nat] /\ DOMAIN err' = Savers /\ DOMAIN alone' = Savers
  BY <1>1, <1>2 DEF CallInv, AloneAfter
<1>4. /\ pc'[s] = "chmod" /\ err'[s] = "none" /\ began'[s] = Len(entries)
      /\ \A t \in Savers \ {s} : /\ pc'[t] = pc[t] /\ temp'[t] = temp[t]
                                  /\ err'[t] = err[t] /\ began'[t] = began[t]
  BY <1>1, <1>2 DEF CallInv
<1>5. /\ alone'[s] => Active = {}
      /\ \A t \in Savers \ {s} : alone'[t] => alone[t] /\ t \notin Active
  BY <1>1, Zenon DEF AloneAfter
<1>6. Active' = Active \cup {s}
  BY <1>1, <1>2, <1>4 DEF Active
<1>7. \A t \in Savers : Written(t)' => Written(t) /\ t # s
  BY <1>4 DEF Written
<1>8. ASSUME NEW t \in Savers, t # s
      PROVE  /\ began'[t] <= Len(entries)
             /\ alone'[t] /\ pc'[t] # "idle" => Active' = {t}
             /\ alone'[t] /\ Written(t)' => HoldsAtLeast(temp'[t], began'[t])
             /\ err'[t] = "nil" /\ alone'[t] =>
                   /\ HoldsAtLeast(file', began'[t])
                   /\ \A q \in Savers : Written(q)' => HoldsAtLeast(temp'[q], began'[t])
  <2>1. alone'[t] => alone[t] /\ pc[t] = "idle"
    BY <1>5, <1>8 DEF Active
  <2> QED
    BY <1>1, <1>4, <1>7, <1>8, <2>1 DEF CallInv, Written
<1>9. /\ began'[s] <= Len(entries)
      /\ alone'[s] /\ pc'[s] # "idle" => Active' = {s}
      /\ ~Written(s)' /\ err'[s] # "nil"
  BY <1>2, <1>4, <1>5, <1>6, <1>7
<1> QED
  BY <1>1, <1>3, <1>8, <1>9 DEF CallInv

(* The steps of a Save up to its rename, and after it: what it writes is    *)
(* the log as it is now, which is no shorter than at any call.              *)
LEMMA CallInvWork ==
  ASSUME StoreInv, StoreInv', CallInv, NEW s \in Savers,
         Chmod(s) \/ WriteTemp(s) \/ Sync(s) \/ Close(s) \/ OperationFails(s) \/ RemoveTemp(s)
  PROVE  CallInv'
<1>1. /\ UNCHANGED <<entries, file, began, alone>>
      /\ UNCHANGED err \/ err' = [err EXCEPT ![s] = "error"]
      /\ UNCHANGED temp \/ \E f : temp' = [temp EXCEPT ![s] = f]
  <2>1. Sync(s) => \E f : temp' = [temp EXCEPT ![s] = f]
    <3>1. Sync(s) => temp' = [temp EXCEPT ![s] = [temp[s] EXCEPT !.synced = TRUE]]
      BY DEF Sync
    <3> QED
      BY <3>1
  <2> QED
    BY <2>1 DEF Chmod, WriteTemp, Sync, Close, OperationFails, RemoveTemp
<1>2. pc[s] # "idle" /\ \E label \in SaveLabels : pc' = [pc EXCEPT ![s] = label]
  BY DEF Chmod, WriteTemp, Sync, Close, OperationFails, RemoveTemp, Goto, SaveLabels
<1>3. pc \in [Savers -> SaveLabels] /\ DOMAIN temp = Savers /\ Len(entries) \in Nat
  BY DEF StoreInv, SaverTypeOK, LogInv
<1>4. /\ DOMAIN err' = Savers /\ \A t \in Savers : err'[t] = "nil" => err[t] = "nil"
      /\ \A t \in Savers \ {s} : pc'[t] = pc[t] /\ temp'[t] = temp[t]
  BY <1>1, <1>2, <1>3 DEF CallInv
<1>5. Active' \subseteq Active /\ \A t \in Savers : pc'[t] # "idle" => t \in Active' /\ pc[t] # "idle"
  BY <1>2, <1>4 DEF Active
<1>6. ASSUME NEW n \in Nat, n <= Len(entries), Written(s) => HoldsAtLeast(temp[s], n), Written(s)'
      PROVE  HoldsAtLeast(temp'[s], n)
  <2>1. temp'[s] # NoFile
    BY <1>6, SnapshotIsFile DEF StoreInv, TempInv, Written
  <2>2. CASE WriteTemp(s)
    <3>1. temp'[s].body.entries = entries
      BY <1>3, <2>2 DEF WriteTemp, Encode
    <3> QED
      BY <1>3, <1>6, <2>1, <3>1 DEF HoldsAtLeast
  <2>3. CASE Sync(s)
    <3>1. Written(s) /\ IsSnapshot(temp[s], entries)
      BY <2>3 DEF Sync, Goto, StoreInv, TempInv, Written
    <3>2. temp'[s] = [temp[s] EXCEPT !.synced = TRUE]
      BY <1>3, <2>3 DEF Sync
    <3>3. temp[s] = [synced |-> temp[s].synced, torn |-> temp[s].torn, body |-> temp[s].body]
      BY <3>1 DEF IsSnapshot
    <3>4. temp'[s].body = temp[s].body
      BY <3>2, <3>3
    <3> QED
      BY <1>6, <2>1, <3>1, <3>4 DEF HoldsAtLeast
  <2>4. CASE Close(s)
    BY <1>6, <2>4 DEF Close, Goto, Written
  <2>5. CASE Chmod(s) \/ OperationFails(s) \/ RemoveTemp(s)
    <3>1. pc'[s] \in {"encode", "remove", "idle"}
      BY <1>3, <2>5 DEF Chmod, OperationFails, RemoveTemp, Goto
    <3> QED
      BY <1>6, <3>1 DEF Written
  <2> QED
    BY <2>2, <2>3, <2>4, <2>5
<1>7. ASSUME NEW t \in Savers, alone[t]
      PROVE  /\ pc'[t] # "idle" => Active' = {t}
             /\ Written(t)' => HoldsAtLeast(temp'[t], began[t])
             /\ err'[t] = "nil" =>
                   /\ HoldsAtLeast(file', began[t])
                   /\ \A q \in Savers : Written(q)' => HoldsAtLeast(temp'[q], began[t])
  <2>1. /\ began[t] \in Nat /\ began[t] <= Len(entries)
        /\ pc[t] # "idle" => Active = {t}
        /\ Written(t) => HoldsAtLeast(temp[t], began[t])
        /\ err[t] = "nil" => /\ HoldsAtLeast(file, began[t])
                             /\ \A q \in Savers : Written(q) => HoldsAtLeast(temp[q], began[t])
    BY <1>7 DEF CallInv
  <2>2. pc'[t] # "idle" => Active' = {t}
    BY <1>5, <2>1
  <2>3. Written(t)' => HoldsAtLeast(temp'[t], began[t])
    BY <1>4, <1>6, <2>1 DEF Written
  <2>4. ASSUME err'[t] = "nil", NEW q \in Savers, Written(q)'
        PROVE  HoldsAtLeast(temp'[q], began[t])
    <3>1. Written(q) => HoldsAtLeast(temp[q], began[t])
      BY <1>4, <2>1, <2>4
    <3> QED
      BY <1>4, <1>6, <2>1, <2>4, <3>1 DEF Written
  <2> QED
    BY <1>1, <1>4, <2>1, <2>2, <2>3, <2>4
<1> QED
  BY <1>1, <1>4, <1>7 DEF CallInv

(* The Save that renames: if it was alone, no other file is on its way.     *)
LEMMA CallInvRename ==
  ASSUME StoreInv, CallInv, NEW s \in Savers, Rename(s)
  PROVE  CallInv'
<1>1. /\ pc[s] = "rename" /\ pc' = [pc EXCEPT ![s] = "remove"] /\ file' = temp[s]
      /\ temp' = [temp EXCEPT ![s] = NoFile] /\ err' = [err EXCEPT ![s] = "nil"]
      /\ UNCHANGED <<entries, began, alone>>
  BY DEF Rename, Goto
<1>2. pc \in [Savers -> SaveLabels] /\ DOMAIN temp = Savers
  BY DEF StoreInv, SaverTypeOK
<1>3. /\ DOMAIN err' = Savers /\ pc'[s] = "remove"
      /\ \A t \in Savers \ {s} : pc'[t] = pc[t] /\ temp'[t] = temp[t] /\ err'[t] = err[t]
  BY <1>1, <1>2 DEF CallInv
<1>4. /\ Written(s) /\ Active' = Active
      /\ \A t \in Savers : Written(t)' => Written(t) /\ t # s
  BY <1>1, <1>3 DEF Written, Active
<1>5. ASSUME NEW t \in Savers, alone[t]
      PROVE  /\ pc'[t] # "idle" => Active' = {t}
             /\ Written(t)' => HoldsAtLeast(temp'[t], began[t])
             /\ err'[t] = "nil" =>
                   /\ HoldsAtLeast(file', began[t])
                   /\ \A q \in Savers : Written(q)' => HoldsAtLeast(temp'[q], began[t])
  <2>1. /\ pc[t] # "idle" => Active = {t}
        /\ Written(t) => HoldsAtLeast(temp[t], began[t])
        /\ err[t] = "nil" => /\ HoldsAtLeast(file, began[t])
                             /\ \A q \in Savers : Written(q) => HoldsAtLeast(temp[q], began[t])
    BY <1>5 DEF CallInv
  <2>2. CASE t = s
    <3>1. Active = {s} /\ HoldsAtLeast(temp[s], began[s])
      BY <1>1, <1>4, <2>1, <2>2
    <3>2. \A q \in Savers : ~Written(q)'
      BY <1>4, <3>1 DEF Active, Written
    <3> QED
      BY <1>1, <1>4, <2>2, <3>1, <3>2
  <2>3. CASE t # s
    BY <1>1, <1>3, <1>4, <2>1, <2>3
  <2> QED
    BY <2>2, <2>3
<1> QED
  BY <1>1, <1>3, <1>5 DEF CallInv

(* The steps that touch no call, and a call that fails at once. *)
LEMMA CallInvQuiet ==
  ASSUME StoreInv, CallInv,
         CommitRenames \/ Anchor \/ UNCHANGED vars \/ \E s \in Savers : CreateFails(s)
  PROVE  CallInv'
<1>1. UNCHANGED <<entries, file, temp, pc, alone>>
  BY DEF CommitRenames, Anchor, vars, CreateFails
<1>2. CASE UNCHANGED <<err, began>>
  BY <1>1, <1>2 DEF CallInv, Written, Active
<1>3. ASSUME NEW s \in Savers, CreateFails(s) PROVE CallInv'
  <2>1. /\ pc[s] = "idle" /\ err' = [err EXCEPT ![s] = "error"]
        /\ began' = [began EXCEPT ![s] = Len(entries)]
    BY <1>3 DEF CreateFails
  <2>2. Len(entries) \in Nat
    BY DEF StoreInv, LogInv
  <2>3. /\ began' \in [Savers -> Nat] /\ DOMAIN err' = Savers
        /\ err'[s] = "error" /\ began'[s] = Len(entries)
        /\ \A t \in Savers \ {s} : err'[t] = err[t] /\ began'[t] = began[t]
    BY <2>1, <2>2 DEF CallInv
  <2>4. ~Written(s)
    BY <2>1 DEF Written
  <2>5. ASSUME NEW t \in Savers
        PROVE  /\ began'[t] <= Len(entries)
               /\ alone[t] /\ pc[t] # "idle" => Active = {t}
               /\ alone[t] /\ Written(t) => HoldsAtLeast(temp[t], began'[t])
               /\ err'[t] = "nil" /\ alone[t] =>
                     /\ HoldsAtLeast(file, began'[t])
                     /\ \A q \in Savers : Written(q) => HoldsAtLeast(temp[q], began'[t])
    <3>1. CASE t = s
      BY <2>1, <2>2, <2>3, <2>4, <3>1
    <3>2. CASE t # s
      BY <2>3, <3>2 DEF CallInv
    <3> QED
      BY <3>1, <3>2
  <2> QED
    BY <1>1, <2>3, <2>5 DEF CallInv, Written, Active
<1> QED
  BY <1>2, <1>3 DEF CommitRenames, Anchor, vars

(* After a crash no Save has been called. *)
LEMMA CallInvCrash ==
  ASSUME StoreInv', Crash
  PROVE  CallInv'
<1>1. /\ began' = [s \in Savers |-> 0] /\ err' = [s \in Savers |-> "none"]
      /\ pc' = [s \in Savers |-> "idle"] /\ alone' = [s \in Savers |-> FALSE]
  BY DEF Crash
<1>2. Len(entries') \in Nat
  BY DEF StoreInv, LogInv
<1> QED
  BY <1>1, <1>2 DEF CallInv, Written

(* Every step preserves the invariant. *)
LEMMA CallInvStep ==
  ASSUME StoreInv, StoreInv', CallInv, [Next]_vars
  PROVE  CallInv'
  BY StoreCases, CallInvAppend, CallInvCreate, CallInvWork, CallInvRename, CallInvQuiet,
     CallInvCrash

(* A Save that returned nil and that no other Save overlapped has put all   *)
(* that was in the log when it was called at path, and no later Save takes  *)
(* any of it away.                                                          *)
THEOREM SaveCoversItsCall == Spec => []SavedCoversCall
<1>1. StoreInv /\ StoreInv' /\ CallInv /\ [Next]_vars => CallInv'
  BY CallInvStep
<1>2. CallInv => SavedCoversCall
  BY DEF CallInv, SavedCoversCall, HoldsAtLeast
<1> QED
  BY <1>1, <1>2, CallInvInit, StoreAlways, PTL DEF Spec

---------------------------------------------------------------------------
(* A record with the fields of translog.Record, and its signature. *)
WellFormed(e) ==
    e = [record |-> [seq |-> e.record.seq, decision |-> e.record.decision,
                     binding |-> e.record.binding, issuedAt |-> e.record.issuedAt,
                     prevHash |-> e.record.prevHash],
         signature |-> e.signature]

Shaped(es) == \A i \in 1..Len(es) : WellFormed(es[i])

(* What parsing a file of any content can give ReadLog to check. *)
IsLogFile(g) ==
    /\ g.body = [format |-> g.body.format, layout |-> g.body.layout, pubkey |-> g.body.pubkey,
                 root |-> g.body.root, count |-> g.body.count, entries |-> g.body.entries]
    /\ g.body.entries \in Seq(Range(g.body.entries))
    /\ Shaped(g.body.entries)

(* The log's key has signed nothing for g that is not in f already. *)
MadeWithoutKey(g, f) ==
    \A i \in 1..Len(g.body.entries) :
        g.body.entries[i].signature.signer = LogPub =>
            \E j \in 1..Len(f.body.entries) :
                g.body.entries[i].signature = f.body.entries[j].signature

(* Nothing that is at path, may come back to path or is being written holds *)
(* anything but entries of that shape.                                      *)
ShapeInv ==
    /\ Shaped(entries)
    /\ \A f \in OnDisk : f # NoFile => Shaped(f.body.entries)
    /\ \A s \in Savers : temp[s] # NoFile => Shaped(temp[s].body.entries)

(* An empty log has no entry of another shape. *)
LEMMA EmptyIsShaped == Shaped(<<>>)
<1>1. 1..Len(<<>>) = {}
  OBVIOUS
<1> QED
  BY <1>1 DEF Shaped

(* Append builds an entry of this shape. *)
LEMMA AppendKeepsShape ==
  ASSUME StoreInv, ShapeInv, AppendDecision
  PROVE  ShapeInv'
<1> DEFINE r == NextRecord(entries, LogAllow, Sha256("payment"), crashes)
           e == Entry(LogPub, r)
<1>1. entries' = Append(entries, e) /\ UNCHANGED <<file, undoable, temp>>
  BY DEF AppendDecision
<1>2. r = [seq |-> r.seq, decision |-> r.decision, binding |-> r.binding,
           issuedAt |-> r.issuedAt, prevHash |-> r.prevHash]
  BY DEF NextRecord
<1> HIDE DEF r
<1>3. WellFormed(e)
  BY <1>2 DEF Entry, WellFormed
<1> HIDE DEF e
<1>4. /\ Len(entries) \in Nat /\ Len(entries') = Len(entries) + 1
      /\ \A i \in 1..Len(entries) : entries'[i] = entries[i]
      /\ entries'[Len(entries) + 1] = e
  BY <1>1, AppendExtends DEF StoreInv, LogInv
<1>5. ASSUME NEW i \in 1..Len(entries') PROVE WellFormed(entries'[i])
  <2>1. i \in 1..Len(entries) \/ i = Len(entries) + 1
    BY <1>4
  <2> QED
    BY <1>3, <1>4, <2>1 DEF ShapeInv, Shaped
<1>6. Shaped(entries')
  BY <1>5 DEF Shaped
<1> QED
  BY <1>1, <1>6 DEF ShapeInv, OnDisk

(* A Save writes what is in the log and moves what it wrote. *)
LEMMA SaveKeepsShape ==
  ASSUME StoreInv, ShapeInv, NEW s \in Savers, SaveStep(s)
  PROVE  ShapeInv'
<1>1. UNCHANGED entries /\ DOMAIN temp = Savers
  BY DEF SaveStep, CreateTemp, CreateFails, Chmod, WriteTemp, Sync, Close, Rename,
         OperationFails, RemoveTemp, StoreInv, SaverTypeOK
<1>2. ASSUME UNCHANGED <<file, undoable>>, NEW f, temp' = [temp EXCEPT ![s] = f],
             f # NoFile => Shaped(f.body.entries)
      PROVE  ShapeInv'
  BY <1>1, <1>2 DEF ShapeInv, OnDisk
<1>3. \A es, a, t : LET f == [synced |-> a, torn |-> t, body |-> Encode(es)]
                    IN  f.body.entries = es
  BY DEF Encode
<1>4. CASE CreateTemp(s)
  <2> DEFINE f == [synced |-> FALSE, torn |-> TRUE, body |-> Encode(<<>>)]
  <2>1. UNCHANGED <<file, undoable>> /\ temp' = [temp EXCEPT ![s] = f]
    BY <1>4 DEF CreateTemp
  <2>2. Shaped(f.body.entries)
    BY <1>3, EmptyIsShaped
  <2> HIDE DEF f
  <2> QED
    BY <1>2, <2>1, <2>2
<1>5. CASE WriteTemp(s)
  <2> DEFINE f == [synced |-> FALSE, torn |-> FALSE, body |-> Encode(entries)]
  <2>1. UNCHANGED <<file, undoable>> /\ temp' = [temp EXCEPT ![s] = f]
    BY <1>5 DEF WriteTemp
  <2>2. Shaped(f.body.entries)
    BY <1>3 DEF ShapeInv
  <2> HIDE DEF f
  <2> QED
    BY <1>2, <2>1, <2>2
<1>6. CASE Sync(s)
  <2> DEFINE f == [temp[s] EXCEPT !.synced = TRUE]
  <2>1. UNCHANGED <<file, undoable>> /\ temp' = [temp EXCEPT ![s] = f] /\ pc[s] = "sync"
    BY <1>6 DEF Sync, Goto
  <2>2. IsSnapshot(temp[s], entries)
    BY <2>1 DEF StoreInv, TempInv
  <2>3. temp[s] # NoFile /\ f.body = temp[s].body
    BY <2>2, SnapshotIsFile DEF IsSnapshot
  <2>4. Shaped(f.body.entries)
    BY <2>3 DEF ShapeInv
  <2> HIDE DEF f
  <2> QED
    BY <1>2, <2>1, <2>4
<1>7. CASE RemoveTemp(s)
  <2>1. UNCHANGED <<file, undoable>> /\ temp' = [temp EXCEPT ![s] = NoFile]
    BY <1>7 DEF RemoveTemp
  <2> QED
    BY <1>2, <2>1
<1>8. CASE Rename(s)
  <2>1. /\ file' = temp[s] /\ undoable' = undoable \cup {file}
        /\ temp' = [temp EXCEPT ![s] = NoFile]
    BY <1>8 DEF Rename
  <2>2. \A t \in Savers : temp'[t] # NoFile => temp'[t] = temp[t]
    BY <1>1, <2>1
  <2> QED
    BY <1>1, <2>1, <2>2 DEF ShapeInv, OnDisk
<1>9. CASE UNCHANGED <<file, undoable, temp>>
  BY <1>1, <1>9 DEF ShapeInv, OnDisk
<1>10. CreateFails(s) \/ Chmod(s) \/ Close(s) \/ OperationFails(s)
         => UNCHANGED <<file, undoable, temp>>
  BY DEF CreateFails, Chmod, Close, OperationFails
<1> QED
  BY <1>4, <1>5, <1>6, <1>7, <1>8, <1>9, <1>10 DEF SaveStep

(* The entries at path, of whatever Save, are entries as Append makes them. *)
LEMMA ShapeAlways == Spec => []ShapeInv
<1>1. Init => ShapeInv
  BY EmptyIsShaped DEF Init, ShapeInv, OnDisk
<1>2. StoreInv /\ ShapeInv /\ [Next]_vars => ShapeInv'
  <2> SUFFICES ASSUME StoreInv, ShapeInv, [Next]_vars PROVE ShapeInv'
    OBVIOUS
  <2>1. CASE Crash
    <3>1. /\ file' \in OnDisk
          /\ entries' = IF Loads(file') THEN file'.body.entries ELSE <<>>
          /\ undoable' = {} /\ temp' = [s \in Savers |-> NoFile]
      BY <2>1, CrashKeepsStore DEF Crash
    <3>2. file' # NoFile => Shaped(file'.body.entries)
      BY <3>1 DEF ShapeInv
    <3>3. Shaped(entries')
      BY <3>1, <3>2, EmptyIsShaped DEF Loads
    <3> QED
      BY <3>1, <3>2, <3>3 DEF ShapeInv, OnDisk
  <2>2. CASE CommitRenames \/ Anchor \/ UNCHANGED vars
    <3>1. UNCHANGED <<entries, file, temp>> /\ (undoable' = {} \/ UNCHANGED undoable)
      BY <2>2 DEF CommitRenames, Anchor, vars
    <3> QED
      BY <3>1 DEF ShapeInv, OnDisk
  <2> QED
    BY <2>1, <2>2, AppendKeepsShape, SaveKeepsShape DEF Next
<1> QED
  BY <1>1, <1>2, StoreAlways, PTL DEF Spec

(* A chain that verifies has the sequence numbers and signatures of its     *)
(* places: what is at place i carries number i - 1, signed.                 *)
LEMMA PlaceOfEntry ==
  ASSUME NEW es, NEW n \in Nat, Len(es) = n, NEW pub, LogVerify(pub, es), NEW i \in 1..n
  PROVE  /\ es[i].record.seq = i - 1
         /\ es[i].signature = [signer |-> pub, message |-> CanonicalBytes(es[i].record)]
  BY DEF LogVerify, Verify, Ed25519Verify, Ed25519Sign

(* A signature says all there is in the record: the canonical bytes leave   *)
(* no field out.                                                            *)
LEMMA SignatureFixesEntry ==
  ASSUME NEW e, NEW f, WellFormed(e), WellFormed(f), e.signature = f.signature, NEW k, NEW q,
         e.signature = [signer |-> k, message |-> CanonicalBytes(e.record)],
         f.signature = [signer |-> q, message |-> CanonicalBytes(f.record)]
  PROVE  e = f /\ k = q
<1> DEFINE x == CanonicalBytes(e.record)
           y == CanonicalBytes(f.record)
<1>1. /\ x[4] = e.record.seq /\ x[5] = e.record.decision /\ x[6] = e.record.binding
      /\ x[7] = e.record.issuedAt /\ x[8] = e.record.prevHash
  BY DEF CanonicalBytes
<1>2. /\ y[4] = f.record.seq /\ y[5] = f.record.decision /\ y[6] = f.record.binding
      /\ y[7] = f.record.issuedAt /\ y[8] = f.record.prevHash
  BY DEF CanonicalBytes
<1> HIDE DEF x, y
<1>3. [signer |-> k, message |-> x] = [signer |-> q, message |-> y]
  BY DEF x, y
<1>4. x = y /\ k = q
  BY <1>3
<1>5. /\ e.record.seq = f.record.seq /\ e.record.decision = f.record.decision
      /\ e.record.binding = f.record.binding /\ e.record.issuedAt = f.record.issuedAt
      /\ e.record.prevHash = f.record.prevHash
  BY <1>1, <1>2, <1>4
<1> QED
  BY <1>4, <1>5 DEF WellFormed

(* Without the log's key: a chain under the log's key all of whose          *)
(* signatures are in another such chain is a prefix of it, as every         *)
(* signature holds the place of its entry.                                  *)
LEMMA KeylessChainIsPrefix ==
  ASSUME NEW es, es \in Seq(Range(es)), Shaped(es), LogVerify(LogPub, es),
         NEW fs, fs \in Seq(Range(fs)), Shaped(fs), LogVerify(LogPub, fs),
         \A i \in 1..Len(es) : \E j \in 1..Len(fs) : es[i].signature = fs[j].signature
  PROVE  IsPrefix(es, fs)
<1> DEFINE n == Len(es)
           m == Len(fs)
<1>1. n \in Nat /\ m \in Nat
  OBVIOUS
<1>2. ASSUME NEW i \in 1..n PROVE i \in 1..m /\ es[i] = fs[i]
  <2>1. PICK j \in 1..m : es[i].signature = fs[j].signature
    OBVIOUS
  <2>2. /\ es[i].record.seq = i - 1
        /\ es[i].signature = [signer |-> LogPub, message |-> CanonicalBytes(es[i].record)]
    BY <1>1, PlaceOfEntry
  <2>3. /\ fs[j].record.seq = j - 1
        /\ fs[j].signature = [signer |-> LogPub, message |-> CanonicalBytes(fs[j].record)]
    BY <1>1, PlaceOfEntry
  <2>4. WellFormed(es[i]) /\ WellFormed(fs[j])
    BY DEF Shaped
  <2> DEFINE x == es[i]
             y == fs[j]
             a == x.record.seq
  <2> HIDE DEF x, y
  <2>5. x = y
    <3>1. WellFormed(x) /\ WellFormed(y) /\ x.signature = y.signature
      BY <2>1, <2>4 DEF x, y
    <3>2. /\ x.signature = [signer |-> LogPub, message |-> CanonicalBytes(x.record)]
          /\ y.signature = [signer |-> LogPub, message |-> CanonicalBytes(y.record)]
      BY <2>2, <2>3 DEF x, y
    <3> QED
      BY ONLY <3>1, <3>2, SignatureFixesEntry
  <2>6. a = i - 1 /\ a = j - 1
    BY <2>2, <2>3, <2>5 DEF x, y
  <2> HIDE DEF a, n, m
  <2>7. i = j
    BY <1>1, <2>6
  <2> QED
    BY <2>5, <2>7 DEF x, y
<1>3. n <= m
  <2> HIDE DEF n, m
  <2>1. CASE n = 0
    BY <1>1, <2>1
  <2>2. CASE n # 0
    <3>1. n \in 1..n
      BY <1>1, <2>2
    <3>2. n \in 1..m
      BY <1>2, <3>1
    <3> QED
      BY <1>1, <3>2
  <2> QED
    BY <2>1, <2>2
<1>4. /\ SubSeq(fs, 1, n) \in Seq(Range(fs)) /\ Len(SubSeq(fs, 1, n)) = n
      /\ \A i \in 1..n : SubSeq(fs, 1, n)[i] = fs[i]
  BY <1>1, <1>3, PrefixFacts
<1>5. SubSeq(es, 1, n) = es
  BY PrefixFull
<1>6. SubSeq(fs, 1, n) = es
  <2> DEFINE p == SubSeq(fs, 1, n)
  <2>1. p = [i \in 1..n |-> p[i]] /\ es = [i \in 1..n |-> es[i]]
    BY <1>4
  <2>2. \A i \in 1..n : p[i] = es[i]
    BY <1>2, <1>4
  <2> HIDE DEF p, n
  <2> QED
    BY <2>1, <2>2 DEF p
<1> QED
  BY <1>3, <1>5, <1>6 DEF IsPrefix

(* Entries under different keys are different entries. *)
LEMMA KeysSeparateLogs ==
  ASSUME NEW k, k # LogPub,
         NEW es, es \in Seq(Range(es)), Shaped(es), LogVerify(k, es),
         NEW fs, fs \in Seq(Range(fs)), Shaped(fs), LogVerify(LogPub, fs)
  PROVE  Range(es) \cap Range(fs) = {}
<1>1. Len(es) \in Nat /\ Len(fs) \in Nat /\ DOMAIN es = 1..Len(es) /\ DOMAIN fs = 1..Len(fs)
  OBVIOUS
<1>2. ASSUME NEW i \in 1..Len(es), NEW j \in 1..Len(fs), es[i] = fs[j] PROVE FALSE
  <2>1. es[i].signature = [signer |-> k, message |-> CanonicalBytes(es[i].record)]
    BY <1>1, PlaceOfEntry
  <2>2. fs[j].signature = [signer |-> LogPub, message |-> CanonicalBytes(fs[j].record)]
    BY <1>1, PlaceOfEntry
  <2>3. WellFormed(es[i]) /\ WellFormed(fs[j]) /\ es[i].signature = fs[j].signature
    BY <1>2 DEF Shaped
  <2> DEFINE x == es[i]
             y == fs[j]
  <2> HIDE DEF x, y
  <2>4. k = LogPub
    BY <2>1, <2>2, <2>3, SignatureFixesEntry DEF x, y
  <2> QED
    BY <2>4
<1> QED
  BY <1>1, <1>2 DEF Range

(* What ReadLog accepts and the log's key had no part in is an earlier      *)
(* state of the log, or another log.                                        *)
LEMMA KeylessFile ==
  ASSUME NEW f, f.body.entries \in Seq(Range(f.body.entries)), Shaped(f.body.entries),
         LogVerify(LogPub, f.body.entries),
         NEW g, IsLogFile(g), MadeWithoutKey(g, f), ReadLog(g)
  PROVE  IF g.body.pubkey = LogPub THEN EarlierState(g, f) ELSE ForeignLog(g, f)
<1> DEFINE b == g.body
           es == b.entries
           fs == f.body.entries
           k == b.pubkey
<1>1. /\ b = [format |-> b.format, layout |-> b.layout, pubkey |-> k,
              root |-> b.root, count |-> b.count, entries |-> es]
      /\ es \in Seq(Range(es)) /\ Shaped(es)
  BY DEF IsLogFile
<1>2. /\ b.format = FormatTransLog /\ b.layout = RecordLayoutVersion /\ b.count = Len(es)
      /\ b.root = MerkleRoot(canonicalLeaves(es)) /\ LogVerify(k, es)
      /\ Len(es) <= MaxLogEntries
  BY DEF ReadLog
<1>3. \A i \in 1..Len(es) : es[i].signature.signer = LogPub =>
         \E j \in 1..Len(fs) : es[i].signature = fs[j].signature
  BY DEF MadeWithoutKey
<1>4. fs \in Seq(Range(fs)) /\ Shaped(fs) /\ LogVerify(LogPub, fs)
  OBVIOUS
<1> HIDE DEF b, es, fs, k
<1>5. /\ k = LogPub => b = Encode(es)
      /\ b = [Encode(es) EXCEPT !.pubkey = k]
  BY <1>1, <1>2 DEF Encode
<1>6. ASSUME k = LogPub PROVE IsPrefix(es, fs)
  <2>1. ASSUME NEW i \in 1..Len(es) PROVE es[i].signature.signer = LogPub
    <3>1. Len(es) \in Nat
      BY <1>1
    <3>2. es[i].signature = [signer |-> k, message |-> CanonicalBytes(es[i].record)]
      BY <1>2, <3>1, PlaceOfEntry
    <3> QED
      BY <1>6, <3>2
  <2>2. \A i \in 1..Len(es) : \E j \in 1..Len(fs) : es[i].signature = fs[j].signature
    BY <1>3, <2>1
  <2>3. LogVerify(LogPub, es)
    BY <1>2, <1>6
  <2> QED
    BY <1>1, <1>4, <2>2, <2>3, KeylessChainIsPrefix
<1>7. ASSUME k # LogPub PROVE Range(es) \cap Range(fs) = {}
  BY <1>1, <1>2, <1>4, <1>7, KeysSeparateLogs
<1> QED
  BY <1>2, <1>5, <1>6, <1>7 DEF EarlierState, ForeignLog, b, es, fs, k

(* A list of entries that anybody could make from es. *)
MadeOf(xs, es) ==
    /\ xs \in Seq(Range(xs)) /\ Shaped(xs)
    /\ \A i \in 1..Len(xs) :
          xs[i].signature.signer = LogPub =>
              \E j \in 1..Len(es) : xs[i].signature = es[j].signature

(* Leaving entries out and moving them makes nothing. *)
LEMMA MadeOfOwnEntries ==
  ASSUME NEW es, es \in Seq(Range(es)), Shaped(es), NEW xs \in Seq(Range(es))
  PROVE  MadeOf(xs, es)
<1>1. ASSUME NEW i \in 1..Len(xs) PROVE \E j \in 1..Len(es) : xs[i] = es[j]
  <2>1. xs[i] \in Range(es) /\ DOMAIN es = 1..Len(es)
    OBVIOUS
  <2> QED
    BY <2>1 DEF Range
<1>2. Shaped(xs)
  BY <1>1 DEF Shaped
<1>3. xs \in Seq(Range(xs))
  <2>1. DOMAIN xs = 1..Len(xs) /\ xs = [i \in 1..Len(xs) |-> xs[i]] /\ Len(xs) \in Nat
    OBVIOUS
  <2>2. \A i \in 1..Len(xs) : xs[i] \in Range(xs)
    BY <2>1 DEF Range
  <2> QED
    BY <2>1, <2>2
<1> QED
  BY <1>1, <1>2, <1>3 DEF MadeOf

(* One entry replaced by one with its signature, or with another key's. *)
LEMMA MadeOfReplaced ==
  ASSUME NEW es, es \in Seq(Range(es)), Shaped(es), NEW i \in 1..Len(es), NEW e, WellFormed(e),
         e.signature = es[i].signature \/ e.signature.signer # LogPub
  PROVE  MadeOf([es EXCEPT ![i] = e], es)
<1> DEFINE xs == [es EXCEPT ![i] = e]
           n == Len(es)
<1>1. /\ n \in Nat /\ DOMAIN es = 1..n /\ xs = [j \in 1..n |-> IF j = i THEN e ELSE es[j]]
  OBVIOUS
<1>2. DOMAIN xs = 1..n /\ Len(xs) = n /\ \A j \in 1..n : xs[j] = IF j = i THEN e ELSE es[j]
  BY <1>1
<1>3. \A j \in 1..n : xs[j] \in Range(xs)
  BY <1>2 DEF Range
<1>4. \A j \in 1..n : WellFormed(es[j])
  BY DEF Shaped
<1>5. xs = [j \in 1..n |-> xs[j]]
  BY <1>1
<1> HIDE DEF xs, n
<1>6. xs \in Seq(Range(xs))
  BY <1>1, <1>3, <1>5
<1> USE DEF n
<1>7. Shaped(xs)
  BY <1>2, <1>4 DEF Shaped
<1>8. ASSUME NEW j \in 1..n, xs[j].signature.signer = LogPub
      PROVE  xs[j].signature = es[j].signature
  <2>1. CASE j = i
    <3>1. xs[j] = e
      BY <1>2, <2>1
    <3> QED
      BY <1>8, <2>1, <3>1
  <2>2. CASE j # i
    <3>1. xs[j] = es[j]
      BY <1>2, <2>2
    <3> QED
      BY <3>1
  <2> QED
    BY <2>1, <2>2
<1>9. MadeOf(xs, es)
  BY <1>2, <1>6, <1>7, <1>8 DEF MadeOf
<1> QED
  BY <1>9 DEF xs

(* What Entry makes of a record, and who signed it. *)
LEMMA EntryIsWellFormed ==
  ASSUME NEW k, NEW r, r = [seq |-> r.seq, decision |-> r.decision, binding |-> r.binding,
                            issuedAt |-> r.issuedAt, prevHash |-> r.prevHash]
  PROVE  WellFormed(Entry(k, r)) /\ Entry(k, r).signature.signer = k
<1> DEFINE e == Entry(k, r)
<1>1. e = [record |-> r, signature |-> [signer |-> k, message |-> CanonicalBytes(r)]]
  BY DEF Entry, Sign, Ed25519Sign
<1>2. e.record = r /\ e.signature = [signer |-> k, message |-> CanonicalBytes(r)]
      /\ e = [record |-> e.record, signature |-> e.signature]
  BY <1>1
<1> HIDE DEF e
<1>3. WellFormed(e)
  BY <1>2 DEF WellFormed
<1>4. e.signature.signer = k
  BY <1>2
<1> QED
  BY <1>3, <1>4 DEF e

(* A record with another decision is still a record. *)
LEMMA EditedRecord ==
  ASSUME NEW e, WellFormed(e), NEW d, NEW r, r = [e.record EXCEPT !.decision = d]
  PROVE  r = [seq |-> r.seq, decision |-> r.decision, binding |-> r.binding,
              issuedAt |-> r.issuedAt, prevHash |-> r.prevHash]
<1>1. PICK a, b, c, t, p : e.record = [seq |-> a, decision |-> b, binding |-> c, issuedAt |-> t,
                                       prevHash |-> p]
  <2>1. e.record = [seq |-> e.record.seq, decision |-> e.record.decision,
                    binding |-> e.record.binding, issuedAt |-> e.record.issuedAt,
                    prevHash |-> e.record.prevHash]
    BY DEF WellFormed
  <2> QED
    BY <2>1
<1>2. r = [seq |-> a, decision |-> d, binding |-> c, issuedAt |-> t, prevHash |-> p]
  BY <1>1
<1> QED
  BY <1>2

(* Whatever Rearranged makes, anybody could. *)
LEMMA RearrangedIsMade ==
  ASSUME NEW es, es \in Seq(Range(es)), Shaped(es), NEW xs \in Rearranged(es)
  PROVE  MadeOf(xs, es)
<1> DEFINE n == Len(es)
           Edited(i) == [es[i].record EXCEPT !.decision = LogDenyViolation]
           IsRecord(r) == r = [seq |-> r.seq, decision |-> r.decision, binding |-> r.binding,
                               issuedAt |-> r.issuedAt, prevHash |-> r.prevHash]
<1>1. n \in Nat /\ DOMAIN es = 1..n /\ \A i \in 1..n : es[i] \in Range(es)
  <2>1. n \in Nat /\ DOMAIN es = 1..n
    OBVIOUS
  <2> QED
    BY <2>1 DEF Range
<1>2. \A i \in 1..n : WellFormed(es[i])
  BY DEF Shaped
<1>3. \A i \in 1..n : IsRecord(es[i].record) /\ IsRecord(Edited(i))
  <2> SUFFICES ASSUME NEW i \in 1..n PROVE IsRecord(es[i].record) /\ IsRecord(Edited(i))
    OBVIOUS
  <2>1. WellFormed(es[i])
    BY <1>2
  <2>2. IsRecord(es[i].record)
    BY <2>1 DEF WellFormed
  <2>3. IsRecord(Edited(i))
    BY <2>1, EditedRecord
  <2> QED
    BY <2>2, <2>3
<1>4. \/ \E i \in 1..(n + 1), j \in 0..n : xs = SubSeq(es, i, j)
      \/ \E i \in 1..(n - 1) : xs = [es EXCEPT ![i] = es[i + 1], ![i + 1] = es[i]]
      \/ \E i \in 1..n :
            xs = [es EXCEPT ![i] = [record |-> Edited(i), signature |-> es[i].signature]]
      \/ \E i \in 1..n : xs = [es EXCEPT ![i] = Entry(OtherPub, Edited(i))]
      \/ xs = [i \in 1..n |-> Entry(OtherPub, es[i].record)]
  BY DEF Rearranged
<1> HIDE DEF Edited, IsRecord
<1>5. ASSUME NEW i \in 1..(n + 1), NEW j \in 0..n, xs = SubSeq(es, i, j) PROVE MadeOf(xs, es)
  <2>1. SubSeq(es, i, j) \in Seq(Range(es))
    BY <1>1
  <2> QED
    BY <1>5, <2>1, MadeOfOwnEntries
<1>6. ASSUME NEW i \in 1..(n - 1), xs = [es EXCEPT ![i] = es[i + 1], ![i + 1] = es[i]]
      PROVE  MadeOf(xs, es)
  <2>1. i \in 1..n /\ i + 1 \in 1..n
    BY <1>1
  <2>2. xs \in [1..n -> Range(es)]
    BY <1>1, <1>6, <2>1
  <2>3. xs \in Seq(Range(es))
    BY <1>1, <2>2
  <2> QED
    BY <2>3, MadeOfOwnEntries
<1>7. ASSUME NEW i \in 1..n,
             xs = [es EXCEPT ![i] = [record |-> Edited(i), signature |-> es[i].signature]]
      PROVE  MadeOf(xs, es)
  <2> DEFINE r == Edited(i)
             sig == es[i].signature
             e == [record |-> r, signature |-> sig]
  <2>1. IsRecord(r)
    BY <1>3
  <2> HIDE DEF r, sig
  <2>2. e.record = r /\ e.signature = sig
    OBVIOUS
  <2>3. WellFormed(e)
    BY <2>1 DEF WellFormed, IsRecord
  <2> HIDE DEF e
  <2>4. e.signature = es[i].signature /\ xs = [es EXCEPT ![i] = e]
    BY <1>7, <2>2 DEF e, r, sig
  <2> QED
    BY <2>3, <2>4, MadeOfReplaced
<1>8. ASSUME NEW i \in 1..n, xs = [es EXCEPT ![i] = Entry(OtherPub, Edited(i))]
      PROVE  MadeOf(xs, es)
  <2> DEFINE e == Entry(OtherPub, Edited(i))
  <2>1. WellFormed(e) /\ e.signature.signer = OtherPub
    BY <1>3, EntryIsWellFormed DEF IsRecord
  <2>2. e.signature.signer # LogPub
    BY <2>1, StoreAssumption
  <2> HIDE DEF e
  <2>3. xs = [es EXCEPT ![i] = e]
    BY <1>8 DEF e
  <2> QED
    BY <2>1, <2>2, <2>3, MadeOfReplaced
<1>9. ASSUME xs = [i \in 1..n |-> Entry(OtherPub, es[i].record)] PROVE MadeOf(xs, es)
  <2>1. \A i \in 1..n : WellFormed(Entry(OtherPub, es[i].record))
                        /\ Entry(OtherPub, es[i].record).signature.signer = OtherPub
    BY <1>3, EntryIsWellFormed DEF IsRecord
  <2>2. Len(xs) = n /\ DOMAIN xs = 1..n
    BY <1>1, <1>9
  <2>3. \A i \in 1..n : WellFormed(xs[i]) /\ xs[i].signature.signer = OtherPub
    BY <1>9, <2>1
  <2>4. \A i \in 1..n : xs[i] \in Range(xs)
    BY <2>2 DEF Range
  <2>5. xs = [i \in 1..n |-> xs[i]]
    BY <1>9
  <2>6. xs \in Seq(Range(xs))
    BY <1>1, <2>4, <2>5
  <2> QED
    BY <2>2, <2>3, <2>6, StoreAssumption DEF MadeOf, Shaped
<1> QED
  BY <1>4, <1>5, <1>6, <1>7, <1>8, <1>9

(* In every state: whatever is put in place of the file at path without the *)
(* log's key, ReadLog refuses it, or it is an earlier state of the log in   *)
(* that file, complete up to its last entry, or it is another log's and     *)
(* holds no entry of this one.                                              *)
OnlyTheKeyAdds ==
    file # NoFile =>
        \A g : IsLogFile(g) /\ MadeWithoutKey(g, file) /\ ReadLog(g) =>
                 IF g.body.pubkey = LogPub THEN EarlierState(g, file) ELSE ForeignLog(g, file)

(* "Forged by no one" (store.go): this holds for files of any content, made *)
(* at any time from the file that was at path.                              *)
THEOREM NothingIsForged == Spec => []OnlyTheKeyAdds
<1>1. StoreInv /\ ShapeInv => OnlyTheKeyAdds
  <2> SUFFICES ASSUME StoreInv, ShapeInv, file # NoFile,
                      NEW g, IsLogFile(g), MadeWithoutKey(g, file), ReadLog(g)
               PROVE  IF g.body.pubkey = LogPub THEN EarlierState(g, file)
                                                ELSE ForeignLog(g, file)
    BY DEF OnlyTheKeyAdds
  <2>1. IsSnapshot(file, entries) /\ Shaped(file.body.entries)
    BY DEF StoreInv, DiskInv, ShapeInv, OnDisk
  <2>2. /\ file.body.entries \in Seq(Range(file.body.entries))
        /\ LogVerify(LogPub, file.body.entries)
    BY <2>1 DEF IsSnapshot
  <2> QED
    BY <2>1, <2>2, KeylessFile
<1> QED
  BY <1>1, StoreAlways, ShapeAlways, PTL

(* ReadLog accepts every earlier state: a prefix of a chain is a chain. *)
LEMMA EarlierStateLoads ==
  ASSUME NEW f, f.body.entries \in Seq(Range(f.body.entries)), LogVerify(LogPub, f.body.entries),
         NEW g, g.body.entries \in Seq(Range(g.body.entries)), EarlierState(g, f), ~g.torn
  PROVE  ReadLog(g)
<1> DEFINE es == g.body.entries
           fs == f.body.entries
<1>1. g.body = Encode(es) /\ Len(es) <= MaxLogEntries /\ IsPrefix(es, fs)
  BY DEF EarlierState
<1>2. Len(es) \in 0..Len(fs) /\ es = SubSeq(fs, 1, Len(es))
  BY <1>1, PrefixIsSubSeq
<1>3. LogVerify(LogPub, SubSeq(fs, 1, Len(es)))
  BY <1>2, PrefixVerifies
<1>4. LogVerify(LogPub, es)
  BY <1>2, <1>3
<1>5. /\ g.body.format = FormatTransLog /\ g.body.layout = RecordLayoutVersion
      /\ g.body.pubkey = LogPub /\ g.body.count = Len(es)
      /\ g.body.root = MerkleRoot(canonicalLeaves(es))
  <2> HIDE DEF es
  <2> QED
    BY <1>1 DEF Encode
<1> QED
  BY <1>1, <1>4, <1>5 DEF ReadLog

(* The alterations that the run enumerates are files of that kind, or are    *)
(* marked with a layout that this build does not read; and those that are    *)
(* earlier states do load.                                                   *)
THEOREM AlterationsRollBack == Spec => []AlterationIsRollback
<1>1. StoreInv /\ ShapeInv /\ OnlyTheKeyAdds => AlterationIsRollback
  <2> SUFFICES ASSUME StoreInv, ShapeInv, OnlyTheKeyAdds, file # NoFile
               PROVE  AlterationIsRollback
    BY DEF AlterationIsRollback
  <2> DEFINE es == file.body.entries
             b == file.body
  <2>1. IsSnapshot(file, entries) /\ Shaped(es)
    BY DEF StoreInv, DiskInv, ShapeInv, OnDisk
  <2>2. /\ file = [synced |-> file.synced, torn |-> FALSE, body |-> b]
        /\ b = Encode(es) /\ es \in Seq(Range(es)) /\ LogVerify(LogPub, es)
    BY <2>1 DEF IsSnapshot
  <2>3. PICK a, x : file = [synced |-> a, torn |-> FALSE, body |-> Encode(x)]
    BY <2>2
  <2>4. ASSUME NEW g, g = [file EXCEPT !.body.layout = RecordLayoutVersion - 1]
        PROVE  Judged(g, file)
    <3> HIDE DEF es, b
    <3>1. g.body.layout = RecordLayoutVersion - 1 /\ g.body.pubkey = LogPub
      BY <2>3, <2>4 DEF Encode
    <3>2. RecordLayoutVersion - 1 # RecordLayoutVersion
      BY DEF RecordLayoutVersion
    <3>3. \A y : Encode(y).layout = RecordLayoutVersion
      BY DEF Encode
    <3> QED
      BY <3>1, <3>2, <3>3 DEF ReadLog, EarlierState, Judged
  <2>5. ASSUME NEW xs \in Rearranged(es), NEW k, NEW r, NEW c, NEW g,
               g = Reassembled(file, xs, k, r, c)
        PROVE  Judged(g, file)
    <3>1. MadeOf(xs, es)
      BY <2>1, <2>2, RearrangedIsMade
    <3> DEFINE body == [format |-> FormatTransLog, layout |-> RecordLayoutVersion, pubkey |-> k,
                        root |-> r, count |-> c, entries |-> xs]
    <3>2. g.body = body /\ g.torn = FALSE
      <4> HIDE DEF es, b
      <4> QED
        BY <2>3, <2>5 DEF Encode, Reassembled
    <3>3. IsLogFile(g)
      BY <3>1, <3>2 DEF IsLogFile, MadeOf
    <3>4. MadeWithoutKey(g, file)
      BY <3>1, <3>2 DEF MadeWithoutKey, MadeOf
    <3>5. ReadLog(g) => IF g.body.pubkey = LogPub THEN EarlierState(g, file)
                                                  ELSE ForeignLog(g, file)
      BY <3>3, <3>4 DEF OnlyTheKeyAdds
    <3>6. EarlierState(g, file) => ReadLog(g)
      BY <2>2, <3>2, <3>3, EarlierStateLoads DEF IsLogFile
    <3> QED
      BY <3>5, <3>6 DEF Judged
  <2> QED
    BY <2>4, <2>5 DEF AlterationIsRollback
<1> QED
  BY <1>1, NothingIsForged, StoreAlways, ShapeAlways, PTL
=============================================================================
