-------------------------------- MODULE Store --------------------------------
(***************************************************************************)
(* translog/store.go: Save and ReadLog, with decisions being appended,     *)
(* concurrent Saves, file operations that fail and crashes of the machine. *)
(*                                                                         *)
(* A file is [synced, torn, body]: whether its data has reached the disk,  *)
(* whether it was cut off in the middle, and the logFile it holds.  A      *)
(* crash may tear a file that was not synced, and may undo a rename that   *)
(* the file system has not yet committed (Save does not sync the           *)
(* directory).                                                             *)
(***************************************************************************)
EXTENDS TransLog, Merkle, SequencesExt

CONSTANTS
    Savers,         \* goroutines that call Save, one call at a time
    LogPub,         \* the log's key pair
    OtherPub,       \* the key pair of another log
    MaxLogEntries,  \* maxLogEntries: 100000 in the code
    MaxEntries,     \* bound on the length of the log
    MaxSaves,       \* bound on the number of Save calls
    MaxCrashes      \* bound on crashes

ASSUME StoreAssumption ==
    /\ MaxLogEntries \in Nat /\ MaxEntries \in Nat /\ MaxSaves \in Nat /\ MaxCrashes \in Nat
    /\ OtherPub # LogPub

VARIABLES
    entries,   \* Log.entries
    file,      \* what is at path
    undoable,  \* files that were at path before renames not yet committed
    temp,      \* each Save's temporary file
    pc,        \* where each Save is
    err,       \* what the last Save of each goroutine returned: "none", "nil", "error"
    began,     \* Len(entries) when it was called (history)
    alone,     \* no other Save was under way at any time during it (history)
    anchored,  \* the entries under the root that was last anchored on-chain
    settled,   \* no Save was under way and every rename committed at that time (history)
    saves,
    crashes

anchorVars == <<anchored, settled>>

vars == <<entries, file, undoable, temp, pc, err, began, alone, anchored, settled, saves, crashes>>

---------------------------------------------------------------------------
FormatTransLog == "spt-txn/translog/v1"

(* There is no file: os.Open fails. *)
NoFile == [absent |-> TRUE]

(* The logFile that Encode writes: one snapshot, root and entries together. *)
(* The hex fields hold what they encode.                                    *)
Encode(es) ==
    [format |-> FormatTransLog, layout |-> RecordLayoutVersion, pubkey |-> LogPub,
     root |-> MerkleRoot(canonicalLeaves(es)), count |-> Len(es), entries |-> es]

(* Mutations of ReadLog: the cap is exclusive; the root is believed. *)
ReadLogCapExclusive(f) ==
    /\ ~f.torn
    /\ f.body.format = FormatTransLog
    /\ f.body.layout = RecordLayoutVersion
    /\ Len(f.body.entries) < MaxLogEntries
    /\ f.body.count = Len(f.body.entries)
    /\ LogVerify(f.body.pubkey, f.body.entries)
    /\ MerkleRoot(canonicalLeaves(f.body.entries)) = f.body.root

ReadLogTrustsRoot(f) ==
    /\ ~f.torn
    /\ f.body.format = FormatTransLog
    /\ f.body.layout = RecordLayoutVersion
    /\ Len(f.body.entries) <= MaxLogEntries
    /\ f.body.count = Len(f.body.entries)
    /\ LogVerify(f.body.pubkey, f.body.entries)

(* The checks of ReadLog, in a file that was read to its end. *)
ReadLog(f) ==
    /\ ~f.torn
    /\ f.body.format = FormatTransLog
    /\ f.body.layout = RecordLayoutVersion
    /\ Len(f.body.entries) <= MaxLogEntries
    /\ f.body.count = Len(f.body.entries)
    /\ LogVerify(f.body.pubkey, f.body.entries)
    /\ MerkleRoot(canonicalLeaves(f.body.entries)) = f.body.root

Loads(f) == f # NoFile /\ ReadLog(f)

---------------------------------------------------------------------------
Init ==
    /\ entries = <<>>
    /\ file = NoFile
    /\ undoable = {}
    /\ temp = [s \in Savers |-> NoFile]
    /\ pc = [s \in Savers |-> "idle"]
    /\ err = [s \in Savers |-> "none"]
    /\ began = [s \in Savers |-> 0]
    /\ alone = [s \in Savers |-> FALSE]
    /\ anchored = <<>>
    /\ settled = TRUE
    /\ saves = 0
    /\ crashes = 0

(* Entries appended before and after a crash differ in their time. *)
AppendDecision ==
    /\ Len(entries) < MaxEntries
    /\ entries' = Append(entries,
                     Entry(LogPub, NextRecord(entries, LogAllow, Sha256("payment"), crashes)))
    /\ UNCHANGED <<file, undoable, temp, pc, err, began, alone, anchorVars, saves, crashes>>

Goto(s, from, to) == pc[s] = from /\ pc' = [pc EXCEPT ![s] = to]

(* The Saves under way, and who stays alone when s calls Save. *)
Active == {t \in Savers : pc[t] # "idle"}

AloneAfter(s) ==
    [t \in Savers |-> IF t = s THEN Active = {} ELSE alone[t] /\ t \notin Active]

(* Save is called and creates its temporary file. *)
CreateTemp(s) ==
    /\ saves < MaxSaves
    /\ Goto(s, "idle", "chmod")
    /\ saves' = saves + 1
    /\ temp' = [temp EXCEPT ![s] = [synced |-> FALSE, torn |-> TRUE, body |-> Encode(<<>>)]]
    /\ err' = [err EXCEPT ![s] = "none"]
    /\ began' = [began EXCEPT ![s] = Len(entries)]
    /\ alone' = AloneAfter(s)
    /\ UNCHANGED <<entries, file, undoable, anchorVars, crashes>>

(* Save is called and cannot create it: it returns at once. *)
CreateFails(s) ==
    /\ saves < MaxSaves
    /\ pc[s] = "idle"
    /\ saves' = saves + 1
    /\ err' = [err EXCEPT ![s] = "error"]
    /\ began' = [began EXCEPT ![s] = Len(entries)]
    /\ UNCHANGED <<entries, file, undoable, temp, pc, alone, anchorVars, crashes>>

Chmod(s) ==
    /\ Goto(s, "chmod", "encode")
    /\ UNCHANGED <<entries, file, undoable, temp, err, began, alone, anchorVars, saves, crashes>>

WriteTemp(s) ==
    /\ Goto(s, "encode", "sync")
    /\ temp' = [temp EXCEPT ![s] = [synced |-> FALSE, torn |-> FALSE, body |-> Encode(entries)]]
    /\ UNCHANGED <<entries, file, undoable, err, began, alone, anchorVars, saves, crashes>>

(* Mutation of Sync: the data is not forced to the disk. *)
SyncSkipped(s) ==
    /\ Goto(s, "sync", "close")
    /\ UNCHANGED <<entries, file, undoable, temp, err, began, alone, anchorVars, saves, crashes>>

Sync(s) ==
    /\ Goto(s, "sync", "close")
    /\ temp' = [temp EXCEPT ![s].synced = TRUE]
    /\ UNCHANGED <<entries, file, undoable, err, began, alone, anchorVars, saves, crashes>>

Close(s) ==
    /\ Goto(s, "close", "rename")
    /\ UNCHANGED <<entries, file, undoable, temp, err, began, alone, anchorVars, saves, crashes>>

Rename(s) ==
    /\ Goto(s, "rename", "remove")
    /\ file' = temp[s]
    /\ undoable' = undoable \cup {file}
    /\ temp' = [temp EXCEPT ![s] = NoFile]
    /\ err' = [err EXCEPT ![s] = "nil"]
    /\ UNCHANGED <<entries, began, alone, anchorVars, saves, crashes>>

(* Mutation of OperationFails: the error is not returned. *)
OperationFailsSilently(s) ==
    /\ \E from \in {"chmod", "encode", "sync", "close", "rename"} : Goto(s, from, "remove")
    /\ err' = [err EXCEPT ![s] = "nil"]
    /\ UNCHANGED <<entries, file, undoable, temp, began, alone, anchorVars, saves, crashes>>

(* Chmod, Encode, Sync, Close or Rename returned an error. *)
OperationFails(s) ==
    /\ \E from \in {"chmod", "encode", "sync", "close", "rename"} : Goto(s, from, "remove")
    /\ err' = [err EXCEPT ![s] = "error"]
    /\ UNCHANGED <<entries, file, undoable, temp, began, alone, anchorVars, saves, crashes>>

(* The deferred os.Remove, and the return. *)
RemoveTemp(s) ==
    /\ Goto(s, "remove", "idle")
    /\ temp' = [temp EXCEPT ![s] = NoFile]
    /\ UNCHANGED <<entries, file, undoable, err, began, alone, anchorVars, saves, crashes>>

SaveStep(s) ==
    \/ CreateTemp(s) \/ CreateFails(s) \/ Chmod(s) \/ WriteTemp(s) \/ Sync(s)
    \/ Close(s) \/ Rename(s) \/ OperationFails(s) \/ RemoveTemp(s)

---------------------------------------------------------------------------
(* The machine *)

(* The file system commits the renames so far. *)
CommitRenames ==
    /\ undoable # {}
    /\ undoable' = {}
    /\ UNCHANGED <<entries, file, temp, pc, err, began, alone, anchorVars, saves, crashes>>

(* "anchored on-chain by a separate, later process" (store.go): it loads    *)
(* the file and publishes the root of what it holds, an empty log excepted. *)
Anchor ==
    /\ Loads(file)
    /\ file.body.entries \notin {<<>>, anchored}
    /\ anchored' = file.body.entries
    /\ settled' = (Active = {} /\ undoable = {})
    /\ UNCHANGED <<entries, file, undoable, temp, pc, err, began, alone, saves, crashes>>

(* What a crash can make of a file. *)
Surviving(f) ==
    IF f = NoFile \/ f.synced THEN {f} ELSE {f, [f EXCEPT !.torn = TRUE]}

(* Everything in memory is lost; the next process loads what it finds at    *)
(* path, or starts an empty log.                                            *)
Crash ==
    /\ crashes < MaxCrashes
    /\ crashes' = crashes + 1
    /\ \E f \in UNION {Surviving(g) : g \in {file} \cup undoable} :
          /\ file' = f
          /\ entries' = IF Loads(f) THEN f.body.entries ELSE <<>>
    /\ undoable' = {}
    /\ temp' = [s \in Savers |-> NoFile]
    /\ pc' = [s \in Savers |-> "idle"]
    /\ err' = [s \in Savers |-> "none"]
    /\ began' = [s \in Savers |-> 0]
    /\ alone' = [s \in Savers |-> FALSE]
    /\ UNCHANGED <<anchorVars, saves>>

Next ==
    \/ AppendDecision
    \/ \E s \in Savers : SaveStep(s)
    \/ CommitRenames
    \/ Anchor
    \/ Crash

Spec == Init /\ [][Next]_vars

---------------------------------------------------------------------------
(* Correctness *)

(* "LoadLog succeeds on every snapshot, whatever count it captured"         *)
(* (concurrency_test.go): the file at path, if there is one, always loads:  *)
(* during concurrent Appends and Saves, after failures, after a crash.      *)
SnapshotLoads == file # NoFile => ReadLog(file)

(* What the file holds is a past state of the log that is in memory: no     *)
(* Save, failure or crash brings back entries that were never appended, or  *)
(* leaves a log in memory that has forked from the file.                    *)
FileIsPastLog == file # NoFile => IsPrefix(file.body.entries, entries)

(* An anchored root is the root of a past state of the log for good, if it  *)
(* was taken while no Save was under way and the renames had reached the    *)
(* disk ("the root anchored by a later process must be the root the         *)
(* enforcement path produced", store_test.go).  Otherwise a crash can       *)
(* restart the log from before it, and other decisions get its sequence     *)
(* numbers.                                                                 *)
SettledAnchorHolds == settled => IsPrefix(anchored, entries)

Lossy == INSTANCE LossyLog WITH log <- entries

(* Append, Save and the restart from whatever file a crash leaves only add  *)
(* an entry to the log or take it back to an earlier state.                 *)
ImplementsLossyLog == Lossy!LossySpec

(* A Save that returned nil, and that no other Save overlapped, has put     *)
(* every entry that was in the log when it was called into the file, and no *)
(* later Save, concurrent with others or failing, takes them away.          *)
SavedCoversCall ==
    \A s \in Savers : err[s] = "nil" /\ alone[s] =>
        file # NoFile /\ Len(file.body.entries) >= began[s]

(* What the entries of a file can be changed into by somebody who does not  *)
(* hold the log's key: entries left out at either end, two swapped, one     *)
(* edited under its old signature or under another key's, all of them made  *)
(* another log's.                                                           *)
Rearranged(es) ==
    LET n == Len(es)
        Edited(i) == [es[i].record EXCEPT !.decision = LogDenyViolation]
    IN  {SubSeq(es, i, j) : i \in 1..(n + 1), j \in 0..n}
          \cup {[es EXCEPT ![i] = es[i + 1], ![i + 1] = es[i]] : i \in 1..(n - 1)}
          \cup {[es EXCEPT ![i] = [record |-> Edited(i), signature |-> es[i].signature]]
                    : i \in 1..n}
          \cup {[es EXCEPT ![i] = Entry(OtherPub, Edited(i))] : i \in 1..n}
          \cup {[i \in 1..n |-> Entry(OtherPub, es[i].record)]}

(* The file f with entries es, key k, root r and count c instead. *)
Reassembled(f, es, k, r, c) ==
    [f EXCEPT !.body.entries = es, !.body.pubkey = k, !.body.root = r, !.body.count = c]

(* g is what Encode writes for an earlier state of the log in f. *)
EarlierState(g, f) ==
    /\ IsPrefix(g.body.entries, f.body.entries)
    /\ Len(g.body.entries) <= MaxLogEntries
    /\ g.body = Encode(g.body.entries)

(* g is what Encode writes for a log with another key and no entry of f. *)
ForeignLog(g, f) ==
    /\ g.body.pubkey # LogPub
    /\ g.body = [Encode(g.body.entries) EXCEPT !.pubkey = g.body.pubkey]
    /\ Range(g.body.entries) \cap Range(f.body.entries) = {}

(* What ReadLog says of a file g that was made from file f: if it names the *)
(* log's key it loads exactly when it is an earlier state of the log, and   *)
(* under another key only if it is another log's.                           *)
Judged(g, f) ==
    IF g.body.pubkey = LogPub THEN ReadLog(g) <=> EarlierState(g, f)
                              ELSE ReadLog(g) => ForeignLog(g, f)

(* "A file that has been truncated, reordered, or edited fails to load at   *)
(* all", "forged by no one" (store.go): not quite.  Of the altered versions *)
(* of the file at path, their root and count as they were or made to fit    *)
(* the entries, under either key or marked as of another layout, ReadLog    *)
(* accepts every one that is cut off at its end and consistent in itself,   *)
(* as every older copy is, and some of another log under that log's key.    *)
(* It accepts none that shows entries of this log changed, in another       *)
(* order, with a gap or next to foreign ones.                               *)
AlterationIsRollback ==
    file # NoFile =>
        /\ Judged([file EXCEPT !.body.layout = RecordLayoutVersion - 1], file)
        /\ \A es \in Rearranged(file.body.entries) :
              \A k \in {LogPub, OtherPub}, c \in {file.body.count, Len(es)},
                 r \in {file.body.root, MerkleRoot(canonicalLeaves(es))} :
                    Judged(Reassembled(file, es, k, r, c), file)
=============================================================================
