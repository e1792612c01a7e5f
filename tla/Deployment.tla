------------------------------ MODULE Deployment ------------------------------
(***************************************************************************)
(* One process with both transports, the HTTP PEP and the MCP enforcer, on *)
(* one spend log and one transparency log, run by an operator who saves    *)
(* the log from time to time and restarts the process when it dies.        *)
(*                                                                         *)
(* The process may crash at any step.  What survives is what has reached   *)
(* stable storage: the receipts, if the emitter is Durable, or those it    *)
(* has flushed; the nonces, if the spend log is a durable one; and of the  *)
(* log, what the file at its path holds, which is some past state of it    *)
(* (Store shows this; the operator may have saved at any time).            *)
(***************************************************************************)
EXTENDS PEP, MCPGate

CONSTANTS
    Configs,     \* how the process may be configured: [emitterDurable, spendDurable]
    MaxCrashes   \* bound on crashes

ASSUME ConfigAssumption == Configs \subseteq [emitterDurable : BOOLEAN, spendDurable : BOOLEAN]
ASSUME CrashAssumption == MaxCrashes \in Nat
ASSUME TransportsAssumption == Requests \cap ToolCalls = {}

VARIABLES
    config,   \* the emitter's Durable(); whether the spend log survives (MemSpendLog does not)
    synced,   \* the receipts that have reached the disk
    crashes,
    life,     \* crashes before each caller arrived (history)
    ended,    \* the callers that were gone when it arrived (history)
    owner     \* the caller behind each entry (history)

opsVars == <<config, synced, crashes, life, ended, owner>>

allVars == <<coreVars, pepVars, result, opsVars>>

DepInit ==
    /\ CoreInit /\ PEPInit /\ MCPInit
    /\ config \in Configs
    /\ synced = {}
    /\ crashes = 0
    /\ life = [c \in Callers |-> 0]
    /\ ended = [c \in Callers |-> {}]
    /\ owner = <<>>

(* Mutation of ReceiptsReachDisk: a Durable emitter buffers all the same. *)
ReceiptsBuffered == UNCHANGED synced

(* A Durable emitter records before Emit returns. *)
ReceiptsReachDisk ==
    synced' = IF config.emitterDurable THEN receipts' ELSE synced

(* A buffering emitter writes out what it has. *)
Flush ==
    /\ synced # receipts
    /\ synced' = receipts
    /\ UNCHANGED <<coreVars, pepVars, result, config, crashes, life, ended, owner>>

(* The history of a step of the process. *)
Observe ==
    LET Arrives(c) == pc[c] = "idle" /\ pc'[c] # "idle"
        Gone == {c \in Callers : pc[c] = "done"}
    IN  /\ life' = [c \in Callers |-> IF Arrives(c) THEN crashes ELSE life[c]]
        /\ ended' = [c \in Callers |-> IF Arrives(c) THEN Gone ELSE ended[c]]
        /\ owner' = IF entries' = entries THEN owner
                    ELSE Append(owner, CHOOSE c \in Callers : tag'[c] # tag[c])

ProcessStep ==
    /\ \/ PEPNext /\ UNCHANGED result
       \/ MCPNext /\ UNCHANGED pepVars
       \/ Tick /\ UNCHANGED <<pepVars, result>>
    /\ ReceiptsReachDisk
    /\ Observe
    /\ UNCHANGED <<config, crashes>>

(* The callers that were being handled are gone.  The new process loads the *)
(* log file and, with a durable spend log, the spent nonces.                *)
CrashRestart ==
    /\ crashes < MaxCrashes
    /\ crashes' = crashes + 1
    /\ pc' = [c \in Callers |-> IF pc[c] = "idle" THEN "idle" ELSE "done"]
    /\ \E n \in 0..Len(entries) :
          /\ entries' = SubSeq(entries, 1, n)
          /\ owner' = SubSeq(owner, 1, n)
    /\ spent' = IF config.spendDurable THEN spent ELSE {}
    /\ receipts' = synced
    /\ UNCHANGED <<clock, req, dec, stamp, tag, status, result, config, synced, life, ended>>

DepNext == ProcessStep \/ Flush \/ CrashRestart

DepSpec == DepInit /\ [][DepNext]_allVars

---------------------------------------------------------------------------
(* Correctness *)

(* A caller that got what it asked for. *)
Obtained(c) ==
    \/ c \in Requests /\ status[c] = 200
    \/ c \in ToolCalls /\ result[c] = Allow

(* One authorization buys one thing, across both transports and across      *)
(* crashes: no two callers are served on one nonce.  MemSpendLog ("not for  *)
(* production", mem_spendlog.go) keeps this for the life of a process, so   *)
(* that only a restart between the two can break it.                        *)
ServedOnce ==
    \A c, d \in Callers :
        c # d /\ Obtained(c) /\ Obtained(d) /\ Nonce(c) = Nonce(d)
            => ~config.spendDurable /\ life[c] # life[d]

(* The shared chain says only what was decided: behind every entry is the   *)
(* caller of either transport that appended it and was given its locator,   *)
(* and whose decision has the label and the binding of the entry.  The HTTP *)
(* handler translates the class, the enforcer converts its number; a        *)
(* restart continues the chain.                                             *)
EntryIsDecision ==
    \A i \in 1..Len(entries) :
        /\ tag[owner[i]] = EntryTag(entries[i])
        /\ entries[i].record.decision = dec[owner[i]].class
        /\ entries[i].record.binding = dec[owner[i]].binding

(* A PERMIT receipt in the emitter's store always names a nonce that the    *)
(* spend log holds: after any crash the token it was issued for is dead     *)
(* ("persist-before-ALLOW", gate.go), or, with MemSpendLog, for as long as  *)
(* the process lives that issued it.                                        *)
PermitMeansSpent ==
    \A rc \in receipts :
        rc.receipt.decision = "PERMIT" /\ (config.spendDurable \/ life[rc.by] = crashes)
            => Nonce(rc.by) \in spent

(* "an ALLOW is not served unless its receipt is durably recorded"          *)
(* (evidence.go), for an emitter that is Durable: whatever happens after a  *)
(* request was served, a crash included, its PERMIT receipt is there.       *)
ServedKeepsReceipt ==
    \A r \in Requests : status[r] = 200 /\ config.emitterDurable /\ Conformant =>
        PermitReceipted(r)

(* The chain can be read as a history: a caller that was gone before        *)
(* another arrived has the earlier entry, with a time that is not later,    *)
(* also across transports and restarts.  For callers that overlap neither   *)
(* holds: the time is read before the log is locked.                        *)
ChainRespectsRealTime ==
    \A i, j \in 1..Len(owner) : owner[i] \in ended[owner[j]] =>
        /\ i < j
        /\ entries[i].record.issuedAt <= entries[j].record.issuedAt

(* A token that was refused as expired is dead for everybody who comes      *)
(* later, through either transport and after a restart.  A caller that was  *)
(* already past its check may still be allowed on it.                       *)
ExpiryIsFinal ==
    \A c, d \in Callers :
        /\ c \in ended[d] /\ dec[c].reason = "expired"
        /\ req[c].tok = req[d].tok
        => ~Allowed(d)

Lossy == INSTANCE LossyLog WITH log <- entries

(* Every step of the process, of either transport, adds one well-chained    *)
(* entry or none, and a restart only cuts the log short.                    *)
ImplementsLossyLog == Lossy!LossySpec

(* "ALLOW is served only if BOTH evidence artifacts are durable" (pep.go):  *)
(* whatever happens next, a served request still has its ALLOW entry.       *)
ServedKeepsEntry ==
    \A r \in Requests : status[r] = 200 =>
        \E i \in 1..Len(entries) :
            /\ EntryOf(r, entries[i])
            /\ entries[i].record.decision = LogAllow
=============================================================================
