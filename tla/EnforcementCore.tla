-------------------------- MODULE EnforcementCore --------------------------
(***************************************************************************)
(* What the HTTP PEP and the MCP enforcer have in common: gate.Evaluate    *)
(* run by concurrent callers (one goroutine per request or tool call)      *)
(* against one SpendLog, and the stamped Append to one transparency log.   *)
(*                                                                         *)
(* A step ends where another goroutine, the clock or an external service   *)
(* can intervene: at the clock reads, the policy call, the spend log's     *)
(* critical section, the receipt emitter and the log's critical section.   *)
(***************************************************************************)
EXTENDS Gate, TransLog, FiniteSets

CONSTANTS
    Callers,      \* goroutines; each handles one request or tool call
    Nonces,       \* the single-use token identifiers (jti)
    NoReq,        \* req[c] before c has presented anything
    LogPub,       \* the key pair of the transparency log
    SpendMayFail, \* TRUE if the SpendLog can be unavailable (MemSpendLog: FALSE)
    MaxClock      \* bound on the clock

ASSUME ClockAssumption == MaxClock \in Nat
ASSUME SpendAssumption == SpendMayFail \in BOOLEAN

VARIABLES
    clock,   \* time.Now, in seconds
    pc,      \* where each caller is
    req,     \* what it presented: [pr, tok, raw]
    dec,     \* the gate.Decision of its Evaluate
    spent,   \* MemSpendLog.seen
    stamp,   \* the IssuedAt it passes to Append
    entries, \* Log.entries
    tag      \* the locator (seq, hash) of the entry Append returned to it

(* tag[c] before Append has returned: the empty string. *)
NoTag == <<>>

coreVars == <<clock, pc, req, dec, spent, stamp, entries, tag>>

CoreInit ==
    /\ clock = 0
    /\ pc = [c \in Callers |-> "idle"]
    /\ req = [c \in Callers |-> NoReq]
    /\ dec = [c \in Callers |-> Decision(Undecided, "", Zero32)]
    /\ spent = {}
    /\ stamp = [c \in Callers |-> 0]
    /\ entries = <<>>
    /\ tag = [c \in Callers |-> NoTag]

Tick ==
    /\ clock < MaxClock
    /\ clock' = clock + 1
    /\ UNCHANGED <<pc, req, dec, spent, stamp, entries, tag>>

---------------------------------------------------------------------------
(* gate.Evaluate *)

(* Evaluate returns decision d to its caller. *)
Decide(c, class, reason) ==
    /\ dec' = [dec EXCEPT ![c] = Decision(class, reason, @.binding)]
    /\ pc' = [pc EXCEPT ![c] = "decided"]

(* Binding and freshness, against the clock value read when Evaluate is     *)
(* called.                                                                  *)
Check(c, pr, tok, raw) ==
    LET bound == ComputeBinding(pr, tok.nonce)
        Result(class, reason) ==
            dec' = [dec EXCEPT ![c] = Decision(class, reason, bound.binding)]
    IN  /\ pc[c] = "idle"
        /\ req' = [req EXCEPT ![c] = [pr |-> pr, tok |-> tok, raw |-> raw]]
        /\ \/ /\ bound.err # ""
              /\ Result(DenyViolation, "binding")
              /\ pc' = [pc EXCEPT ![c] = "decided"]
           \/ /\ bound.err = "" /\ Expired(tok, clock)
              /\ Result(DenyViolation, "expired")
              /\ pc' = [pc EXCEPT ![c] = "decided"]
           \/ /\ bound.err = "" /\ ~Expired(tok, clock)
              /\ Result(Undecided, "")
              /\ pc' = [pc EXCEPT ![c] = "policy"]
        /\ UNCHANGED <<clock, spent, stamp, entries, tag>>

(* Mutation of Policy: the nonce is burned before the policy is asked. *)
PolicyBurnsNonce(c, verdict) ==
    /\ pc[c] = "policy"
    /\ \/ /\ verdict = "ok"
          /\ pc' = [pc EXCEPT ![c] = "spend"]
          /\ UNCHANGED <<dec, spent>>
       \/ /\ verdict # "ok"
          /\ Decide(c, DenyViolation, "policy")
          /\ spent' = spent \cup {req[c].tok.nonce}
    /\ UNCHANGED <<clock, req, stamp, entries, tag>>

(* PolicyVerifier.Verify returns nil, an error wrapped by Unavailable(), or *)
(* any other error.                                                         *)
Policy(c, verdict) ==
    /\ pc[c] = "policy"
    /\ \/ /\ verdict = "ok"
          /\ pc' = [pc EXCEPT ![c] = "spend"]
          /\ UNCHANGED dec
       \/ verdict = "unavailable" /\ Decide(c, DenyUnavailable, "policy unavailable")
       \/ verdict = "violation" /\ Decide(c, DenyViolation, "policy")
    /\ UNCHANGED <<clock, req, spent, stamp, entries, tag>>

Nonce(c) == req[c].tok.nonce

(* Mutations of Spend's cases: record without looking, forget to record,    *)
(* report a replay without looking.                                         *)
SpendRecordsUnchecked(c) == spent' = spent \cup {Nonce(c)}

SpendRecordsNothing(c) == Nonce(c) \notin spent /\ UNCHANGED spent

SpendReplaysUnchecked(c) == UNCHANGED spent

(* SpendLog.Spend: check and record are one critical section. *)
SpendRecords(c) == Nonce(c) \notin spent /\ spent' = spent \cup {Nonce(c)}

SpendReplays(c) == Nonce(c) \in spent /\ UNCHANGED spent

(* An unavailable store may or may not have kept the nonce. *)
SpendFails(c) == SpendMayFail /\ spent' \in {spent, spent \cup {Nonce(c)}}

Spend(c) ==
    /\ pc[c] = "spend"
    /\ \/ SpendRecords(c) /\ Decide(c, Allow, "allow")
       \/ SpendReplays(c) /\ Decide(c, DenyViolation, "replay")
       \/ SpendFails(c) /\ Decide(c, DenyUnavailable, "spend-log unavailable")
    /\ UNCHANGED <<clock, req, stamp, entries, tag>>

---------------------------------------------------------------------------
(* The transparency log *)

(* Mutation of Stamp: the token's time is passed for the decision's. *)
StampFromToken(c, label) ==
    /\ pc[c] = label
    /\ stamp' = [stamp EXCEPT ![c] = req[c].tok.expiry]
    /\ pc' = [pc EXCEPT ![c] = "append"]
    /\ UNCHANGED <<clock, req, dec, spent, entries, tag>>

(* now().Unix() is an argument of Append: read before the log is locked. *)
Stamp(c, label) ==
    /\ pc[c] = label
    /\ stamp' = [stamp EXCEPT ![c] = clock]
    /\ pc' = [pc EXCEPT ![c] = "append"]
    /\ UNCHANGED <<clock, req, dec, spent, entries, tag>>

EntryTag(e) == <<e.record.seq, Hash(e.record)>>

AppendedEntry(c, key, decision) ==
    Entry(key, NextRecord(entries, decision, dec[c].binding, stamp[c]))

(* Append returned an entry: the next record, signed with the caller's key. *)
AppendOK(c, key, decision) ==
    LET e == AppendedEntry(c, key, decision)
    IN  /\ pc[c] = "append"
        /\ SelfVerifies(LogPub, e)
        /\ entries' = Append(entries, e)
        /\ tag' = [tag EXCEPT ![c] = EntryTag(e)]
        /\ UNCHANGED <<clock, req, dec, spent, stamp>>

(* Append returned an error: the record did not verify under the log's key. *)
AppendFails(c, key, decision) ==
    /\ pc[c] = "append"
    /\ ~SelfVerifies(LogPub, AppendedEntry(c, key, decision))
    /\ UNCHANGED <<clock, req, dec, spent, stamp, entries, tag>>

---------------------------------------------------------------------------
(* Correctness *)

Allowed(c) == dec[c].class = Allow

Presented(c) == req[c] # NoReq

(* No two callers are ever allowed on one nonce, however their checks,      *)
(* policy calls and spends interleave and whichever enforcement point they  *)
(* came through (gate.go: "the nonce is spent LAST, immediately before      *)
(* ALLOW").                                                                 *)
SingleUse ==
    \A c, d \in Callers :
        c # d /\ Allowed(c) /\ Allowed(d) => Nonce(c) # Nonce(d)

(* A nonce is burned only by a caller that reached the spend log: never by  *)
(* a binding error, an expiry or a policy denial, so that "a legitimate     *)
(* caller can retry after fixing a scope/parameter mistake" (gate.go).      *)
BurnedOnlyBySpend ==
    \A n \in spent : \E c \in Callers :
        /\ Presented(c) /\ Nonce(c) = n
        /\ dec[c].reason \in {"allow", "spend-log unavailable"}

(* A denial that accuses the caller of a replay is true: another caller has *)
(* put the nonce into the spend log, and when no store failed, was allowed. *)
ReplayIsReal ==
    \A c \in Callers : dec[c].reason = "replay" =>
        \E d \in Callers \ {c} :
            /\ Presented(d) /\ Nonce(d) = Nonce(c)
            /\ Allowed(d) \/ dec[d].reason = "spend-log unavailable"

(* Log.Verify accepts the log in every state: concurrent decisions never    *)
(* leave a gap, a fork or a bad signature in the chain.                     *)
ChainSound == LogVerify(LogPub, entries)
=============================================================================
