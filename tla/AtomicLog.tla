------------------------------ MODULE AtomicLog ------------------------------
(***************************************************************************)
(* What translog.Log promises its concurrent users: every method takes     *)
(* effect at one instant between call and return.                          *)
(***************************************************************************)
EXTENDS TransLog, Merkle

CONSTANTS
    Appenders,  \* goroutines that call Append once
    Encoders,   \* goroutines that call Encode once
    Readers,    \* goroutines that call Len, At, Root, Proof or Verify once
    Ask,        \* which of these each reader calls, and with what: [op, seq]
    LogPub,     \* the log's public key
    KeyOf,      \* the private key each appender signs with
    Payload,    \* what it appends: [decision, binding, issuedAt]
    NoAnswer    \* the answer of a call that has not taken effect

VARIABLES
    log,    \* the entries
    answer  \* what each call will return

atomVars == <<log, answer>>

Procs == Appenders \cup Encoders \cup Readers

(* Append's error result. *)
Failed == [ok |-> FALSE]

Succeeded(e) == [ok |-> TRUE, entry |-> e]

Snapshot(es) == [root |-> MerkleRoot(canonicalLeaves(es)), body |-> es]

(* The record appender a adds to es. *)
RecordFor(a, es) ==
    NextRecord(es, Payload[a].decision, Payload[a].binding, Payload[a].issuedAt)

EntryFor(a, es) == Entry(KeyOf[a], RecordFor(a, es))

(* What the reading methods return for a log es; At's empty answer is its   *)
(* ok = false.                                                              *)
Query(ask, es) ==
    CASE ask.op = "Len"    -> Len(es)
      [] ask.op = "At"     -> IF ask.seq \in 0..(Len(es) - 1)
                              THEN <<es[ask.seq + 1].record>> ELSE <<>>
      [] ask.op = "Root"   -> MerkleRoot(canonicalLeaves(es))
      [] ask.op = "Proof"  -> InclusionProof(canonicalLeaves(es), ask.seq)
      [] ask.op = "Verify" -> LogVerify(LogPub, es)

View(r, es) == [view |-> Query(Ask[r], es)]

AtomInit ==
    /\ log = <<>>
    /\ answer = [p \in Procs |-> NoAnswer]

AtomAppend(a) ==
    /\ answer[a] = NoAnswer
    /\ \/ /\ SelfVerifies(LogPub, EntryFor(a, log))
          /\ log' = Append(log, EntryFor(a, log))
          /\ answer' = [answer EXCEPT ![a] = Succeeded(EntryFor(a, log))]
       \/ /\ ~SelfVerifies(LogPub, EntryFor(a, log))
          /\ answer' = [answer EXCEPT ![a] = Failed]
          /\ UNCHANGED log

AtomEncode(e) ==
    /\ answer[e] = NoAnswer
    /\ answer' = [answer EXCEPT ![e] = Snapshot(log)]
    /\ UNCHANGED log

AtomRead(r) ==
    /\ answer[r] = NoAnswer
    /\ answer' = [answer EXCEPT ![r] = View(r, log)]
    /\ UNCHANGED log

AtomNext ==
    \/ \E a \in Appenders : AtomAppend(a)
    \/ \E e \in Encoders : AtomEncode(e)
    \/ \E r \in Readers : AtomRead(r)

AtomSpec == AtomInit /\ [][AtomNext]_atomVars

(* Every call returns. *)
AtomFairSpec ==
    /\ AtomSpec
    /\ \A a \in Appenders : WF_atomVars(AtomAppend(a))
    /\ \A e \in Encoders : WF_atomVars(AtomEncode(e))
    /\ \A r \in Readers : WF_atomVars(AtomRead(r))
=============================================================================
