--------------------------- MODULE DeploymentProofs ---------------------------
(***************************************************************************)
(* Both transports in one process that crashes and restarts, for any       *)
(* number of requests and tool calls, any configuration of the emitter and *)
(* the spend log, and any number of crashes.                               *)
(***************************************************************************)
EXTENDS Deployment, Lemmas

Classes == {Undecided, Allow, DenyViolation, DenyUnavailable}

(* The variables have their types, as far as the argument needs them. *)
TypesOK ==
    /\ clock \in Nat
    /\ DOMAIN pc = Callers /\ DOMAIN req = Callers /\ DOMAIN dec = Callers
    /\ DOMAIN stamp = Callers /\ DOMAIN tag = Callers
    /\ DOMAIN status = Requests /\ DOMAIN result = ToolCalls
    /\ \A c \in Callers : pc[c] \in Labels /\ dec[c].class \in Classes
    /\ config \in Configs
    /\ crashes \in Nat

(* How far a caller has come, and what it then knows. *)
Stage(c) ==
    /\ pc[c] \in {"idle", "policy", "spend"} => dec[c].class = Undecided
    /\ pc[c] \in {"decided", "stamp", "append", "serve", "deny"} => dec[c].class # Undecided
    /\ pc[c] \in {"idle", "policy", "spend", "decided", "stamp", "append"} => tag[c] = NoTag
    /\ pc[c] = "serve" => Allowed(c)
    /\ pc[c] \notin {"idle", "done"} => life[c] = crashes
    /\ pc[c] \notin {"idle", "done"} \/ dec[c].class # Undecided =>
          dec[c].binding = BindingOf(c)

StageInv == \A c \in Callers : Stage(c)

(* An answer is the last thing that happens to a caller, and says what was  *)
(* decided.                                                                 *)
AnswerInv ==
    /\ \A r \in Requests : /\ status[r] # 0 => pc[r] = "done"
                           /\ status[r] = 200 => Allowed(r)
    /\ \A t \in ToolCalls : result[t] # Undecided =>
          pc[t] = "done" /\ result[t] = dec[t].class

BaseInv == TypesOK /\ StageInv /\ AnswerInv

(* Nobody has lived through more crashes than there were, and a nonce that  *)
(* somebody was allowed on is in the spend log, at least until the crash.   *)
SpentInv ==
    /\ \A c \in Callers : life[c] \in 0..crashes
    /\ \A c \in Callers :
          Allowed(c) /\ (config.spendDurable \/ life[c] = crashes) => Nonce(c) \in spent

(* No two callers are allowed on one nonce unless the spend log was lost in *)
(* between.                                                                 *)
AllowedOnce ==
    \A c, d \in Callers :
        c # d /\ Allowed(c) /\ Allowed(d) /\ Nonce(c) = Nonce(d)
            => ~config.spendDurable /\ life[c] # life[d]

(* A PERMIT receipt, on disk or not, is that of an allowed request. *)
PermitInv ==
    \A rc \in receipts \cup synced :
        rc.by \in Requests /\ (rc.receipt.decision = "PERMIT" => Allowed(rc.by))

(* What the emitter has by the time a request reaches each label. *)
ReceiptInv ==
    /\ config.emitterDurable => synced = receipts
    /\ \A r \in Requests :
          /\ Conformant /\ Allowed(r) /\ pc[r] \in {"stamp", "append", "serve"}
                => PermitReceipted(r)
          /\ Conformant /\ status[r] = 200 /\ config.emitterDurable
                => PermitReceipted(r)

(* The caller behind each entry is past Append, and the entry is what it    *)
(* appended.                                                                *)
OwnerInv ==
    /\ entries \in Seq(Range(entries)) /\ owner \in Seq(Range(owner))
    /\ Len(owner) = Len(entries)
    /\ \A i \in 1..Len(entries) :
          /\ owner[i] \in Callers /\ pc[owner[i]] \in {"serve", "deny", "done"}
          /\ tag[owner[i]] = EntryTag(entries[i])
          /\ entries[i].record.decision = dec[owner[i]].class
          /\ entries[i].record.binding = dec[owner[i]].binding
          /\ entries[i].record.issuedAt = stamp[owner[i]]

(* The callers that were gone when another arrived stay gone; by the time   *)
(* it appends, it has a stamp that is not earlier than theirs.              *)
TimeInv ==
    /\ \A c \in Callers : stamp[c] \in 0..clock
    /\ \A d \in Callers : \A c \in ended[d] : c \in Callers /\ pc[c] = "done"
    /\ \A d \in Callers : pc[d] = "append" => \A c \in ended[d] : stamp[c] <= stamp[d]

(* What was refused as expired is expired from then on. *)
ExpiryInv ==
    /\ \A c \in Callers : dec[c].reason = "expired" =>
          req[c].tok.expiry \in Int /\ Expired(req[c].tok, clock)
    /\ \A c, d \in Callers :
          c \in ended[d] /\ dec[c].reason = "expired" /\ req[c].tok = req[d].tok
            => ~Allowed(d) /\ pc[d] \notin {"policy", "spend"}

(* A payment of the enforcer's scheme and network that can be bound. *)
BindableCall(pr) ==
    /\ BindingError(pr) = ""
    /\ pr.scheme = EnforcerScheme /\ pr.network = EnforcerNetwork
    /\ pr.amount.digits \in Int

(* A tool call that the policy let through is inside the capability. *)
ApprovalInv ==
    \A t \in ToolCalls :
        /\ pc[t] \in {"policy", "spend"} => BindableCall(req[t].pr)
        /\ pc[t] = "spend" => ExactPaymentVerify(req[t].pr) = "ok"
        /\ Allowed(t) =>
              dec[t].binding \in ApprovedBindings(EnforcerScheme, EnforcerNetwork, Nonce(t))

---------------------------------------------------------------------------
(* What a step of one caller can be, whichever transport it came through. *)

(* Nobody but c is touched. *)
Only(c) ==
    /\ DOMAIN pc' = Callers /\ DOMAIN req' = Callers /\ DOMAIN dec' = Callers
    /\ DOMAIN stamp' = Callers /\ DOMAIN tag' = Callers
    /\ DOMAIN status' = Requests /\ DOMAIN result' = ToolCalls
    /\ \A d \in Callers \ {c} :
          /\ pc'[d] = pc[d] /\ req'[d] = req[d] /\ dec'[d] = dec[d]
          /\ stamp'[d] = stamp[d] /\ tag'[d] = tag[d]
    /\ \A r \in Requests \ {c} : status'[r] = status[r]
    /\ \A t \in ToolCalls \ {c} : result'[t] = result[t]
    /\ UNCHANGED clock

(* A request without a token is turned away. *)
TurnedAway(c) ==
    /\ c \in Requests /\ pc[c] = "idle" /\ pc'[c] = "done" /\ status'[c] = 401
    /\ UNCHANGED <<req, dec, spent, stamp, entries, tag, receipts, result>>

(* The binding and the expiry are checked. *)
Checked(c) ==
    /\ pc[c] = "idle" /\ pc'[c] \in {"policy", "decided"}
    /\ dec'[c].class = IF pc'[c] = "policy" THEN Undecided ELSE DenyViolation
    /\ dec'[c].binding = BindingOf(c)'
    /\ req'[c].tok.expiry \in Int
    /\ dec'[c].reason = "expired" => Expired(req'[c].tok, clock)
    /\ pc'[c] = "policy" => ~Expired(req'[c].tok, clock)
    /\ c \in ToolCalls /\ pc'[c] = "policy" => BindableCall(req'[c].pr)
    /\ UNCHANGED <<spent, stamp, entries, tag, receipts, status, result>>

(* The policy has answered. *)
Judged(c) ==
    /\ pc[c] = "policy" /\ pc'[c] \in {"spend", "decided"}
    /\ pc'[c] = "spend" => dec'[c] = dec[c]
    /\ pc'[c] = "decided" => dec'[c].class \in {DenyViolation, DenyUnavailable}
                            /\ dec'[c].reason # "expired"
    /\ dec'[c].binding = dec[c].binding
    /\ c \in ToolCalls /\ pc'[c] = "spend" => ExactPaymentVerify(req[c].pr) = "ok"
    /\ UNCHANGED <<req, spent, stamp, entries, tag, receipts, status, result>>

(* The spend log has answered: an ALLOW means that the nonce was fresh. *)
Spends(c) ==
    /\ pc[c] = "spend" /\ pc'[c] = "decided"
    /\ dec'[c].class \in {Allow, DenyViolation, DenyUnavailable}
    /\ dec'[c].reason # "expired"
    /\ dec'[c].binding = dec[c].binding
    /\ spent \subseteq spent'
    /\ dec'[c].class = Allow => Nonce(c) \notin spent /\ Nonce(c) \in spent'
    /\ UNCHANGED <<req, stamp, entries, tag, receipts, status, result>>

(* Emit has returned to a request. *)
Emits(c) ==
    /\ c \in Requests /\ pc[c] = "decided" /\ pc'[c] \in {"stamp", "done"}
    /\ receipts' \in {receipts, receipts \cup {ReceiptOf(c)}}
    /\ pc'[c] = "stamp" /\ Allowed(c) /\ Conformant => ReceiptOf(c) \in receipts'
    /\ status'[c] \in {status[c], 503} /\ (pc'[c] # "done" => status'[c] = status[c])
    /\ UNCHANGED <<req, dec, spent, stamp, entries, tag, result>>

(* The clock is read for the entry: by a request after Emit. *)
Stamps(c) ==
    /\ \/ c \in Requests /\ pc[c] = "stamp"
       \/ c \in ToolCalls /\ pc[c] = "decided"
    /\ pc'[c] = "append" /\ stamp'[c] = clock
    /\ UNCHANGED <<req, dec, spent, entries, tag, receipts, status, result>>

(* Append has returned an entry; a tool call is over then. *)
Appends(c) ==
    /\ pc[c] = "append" /\ pc'[c] \in {"serve", "deny", "done"}
    /\ pc'[c] = "serve" => Allowed(c)
    /\ \E key : LET e == AppendedEntry(c, key, dec[c].class)
                IN  /\ SelfVerifies(LogPub, e)
                    /\ entries' = Append(entries, e)
                    /\ tag'[c] = EntryTag(e)
    /\ c \in ToolCalls => pc'[c] = "done" /\ result'[c] = dec[c].class
    /\ UNCHANGED <<req, dec, spent, stamp, receipts, status>>

(* Append has failed, or the answer is given. *)
Finishes(c) ==
    /\ pc[c] \in {"append", "serve", "deny"} /\ pc'[c] \in {"deny", "done"}
    /\ pc[c] # "append" => tag'[c] = tag[c]
    /\ c \in Requests =>
          /\ status'[c] # status[c] => pc'[c] = "done"
          /\ status'[c] = 200 => pc[c] = "serve" \/ status'[c] = status[c]
    /\ c \in ToolCalls /\ result'[c] # result[c] =>
          pc'[c] = "done" /\ result'[c] = dec[c].class
    /\ UNCHANGED <<req, dec, spent, stamp, entries, receipts>>

CallerStep(c) ==
    /\ Only(c)
    /\ \/ TurnedAway(c) \/ Checked(c) \/ Judged(c) \/ Spends(c)
       \/ Emits(c) \/ Stamps(c) \/ Appends(c) \/ Finishes(c)

(* The decision classes are different values, and the numbers of the log's  *)
(* labels.                                                                  *)
LEMMA ClassesDiffer ==
  /\ Undecided \notin {Allow, DenyViolation, DenyUnavailable}
  /\ Allow \notin {DenyViolation, DenyUnavailable}
  /\ DenyViolation # DenyUnavailable
  /\ \A class \in {Allow, DenyViolation, DenyUnavailable} : mapDecision(class) = class
  BY DEF Undecided, Allow, DenyViolation, DenyUnavailable, mapDecision,
         LogAllow, LogDenyViolation, LogDenyUnavailable

(* Check, for either transport. *)
LEMMA CheckStep ==
  ASSUME TypesOK, NEW c \in Callers, NEW pr, NEW tok, NEW raw, Check(c, pr, tok, raw),
         tok.expiry \in Int, UNCHANGED <<receipts, status, result>>,
         c \in ToolCalls => /\ pr.scheme = EnforcerScheme /\ pr.network = EnforcerNetwork
                            /\ pr.amount.digits \in Int
  PROVE  Only(c) /\ Checked(c)
<1> DEFINE b == ComputeBinding(pr, tok.nonce)
           p == [pr |-> pr, tok |-> tok, raw |-> raw]
<1>1. /\ pc[c] = "idle" /\ req' = [req EXCEPT ![c] = p]
      /\ UNCHANGED <<clock, spent, stamp, entries, tag>>
  BY DEF Check
<1>2. PICK class \in {Undecided, DenyViolation}, reason \in {"", "binding", "expired"},
           label \in {"policy", "decided"} :
         /\ dec' = [dec EXCEPT ![c] = Decision(class, reason, b.binding)]
         /\ pc' = [pc EXCEPT ![c] = label]
         /\ class = IF label = "policy" THEN Undecided ELSE DenyViolation
         /\ reason = "expired" => Expired(tok, clock)
         /\ label = "policy" => b.err = "" /\ ~Expired(tok, clock)
  <2>1. CASE b.err # ""
    BY <2>1 DEF Check
  <2>2. CASE b.err = "" /\ Expired(tok, clock)
    BY <2>2 DEF Check
  <2>3. CASE b.err = "" /\ ~Expired(tok, clock)
    BY <2>3 DEF Check
  <2> QED
    BY <2>1, <2>2, <2>3
<1>3. b.err = BindingError(pr)
  BY DEF ComputeBinding
<1> HIDE DEF b
<1>4. Only(c)
  BY <1>1, <1>2 DEF Only, TypesOK
<1>5. pc'[c] = label /\ req'[c] = p /\ p.pr = pr /\ p.tok = tok
  BY <1>1, <1>2 DEF TypesOK
<1>6. dec'[c].class = class /\ dec'[c].reason = reason /\ dec'[c].binding = b.binding
  BY <1>2 DEF Decision, TypesOK
<1>7. dec'[c].binding = BindingOf(c)'
  BY <1>5, <1>6 DEF BindingOf, Nonce, b
<1>8. c \in ToolCalls /\ pc'[c] = "policy" => BindableCall(req'[c].pr)
  BY <1>2, <1>3, <1>5 DEF BindableCall
<1> QED
  BY <1>1, <1>2, <1>4, <1>5, <1>6, <1>7, <1>8 DEF Checked

(* Evaluate ends with a decision. *)
LEMMA DecideStep ==
  ASSUME TypesOK, NEW c \in Callers, NEW class, NEW reason, Decide(c, class, reason)
  PROVE  /\ DOMAIN pc' = Callers /\ DOMAIN dec' = Callers
         /\ pc'[c] = "decided" /\ dec'[c].class = class /\ dec'[c].reason = reason
         /\ dec'[c].binding = dec[c].binding
         /\ \A d \in Callers \ {c} : pc'[d] = pc[d] /\ dec'[d] = dec[d]
<1>1. /\ dec' = [dec EXCEPT ![c] = Decision(class, reason, dec[c].binding)]
      /\ pc' = [pc EXCEPT ![c] = "decided"]
      /\ DOMAIN dec = Callers /\ DOMAIN pc = Callers
  BY DEF Decide, TypesOK
<1>2. dec'[c] = Decision(class, reason, dec[c].binding)
  BY <1>1
<1>3. /\ dec'[c].class = class /\ dec'[c].reason = reason
      /\ dec'[c].binding = dec[c].binding
  BY <1>2 DEF Decision
<1> QED
  BY <1>1, <1>3

(* Policy, for either transport. *)
LEMMA PolicyStep ==
  ASSUME TypesOK, NEW c \in Callers, NEW verdict, Policy(c, verdict),
         UNCHANGED <<receipts, status, result>>,
         c \in ToolCalls => verdict = ExactPaymentVerify(req[c].pr)
  PROVE  Only(c) /\ Judged(c)
<1>1. /\ pc[c] = "policy" /\ UNCHANGED <<clock, req, spent, stamp, entries, tag>>
  BY DEF Policy
<1>2. CASE verdict = "ok" /\ pc' = [pc EXCEPT ![c] = "spend"] /\ UNCHANGED dec
  <2>1. Only(c)
    BY <1>1, <1>2 DEF Only, TypesOK
  <2>2. pc'[c] = "spend"
    BY <1>2 DEF TypesOK
  <2> QED
    BY <1>1, <1>2, <2>1, <2>2 DEF Judged
<1>3. CASE \/ Decide(c, DenyUnavailable, "policy unavailable")
           \/ Decide(c, DenyViolation, "policy")
  <2>1. PICK class \in {DenyViolation, DenyUnavailable},
             reason \in {"policy", "policy unavailable"} : Decide(c, class, reason)
    BY <1>3
  <2>2. /\ DOMAIN pc' = Callers /\ DOMAIN dec' = Callers
        /\ pc'[c] = "decided" /\ dec'[c].class = class /\ dec'[c].reason = reason
        /\ dec'[c].binding = dec[c].binding
        /\ \A d \in Callers \ {c} : pc'[d] = pc[d] /\ dec'[d] = dec[d]
    BY <2>1, DecideStep
  <2>3. Only(c)
    BY <1>1, <2>2 DEF Only, TypesOK
  <2> QED
    BY <1>1, <2>2, <2>3 DEF Judged
<1> QED
  BY <1>2, <1>3 DEF Policy

(* Spend, for either transport. *)
LEMMA SpendStep ==
  ASSUME TypesOK, NEW c \in Callers, Spend(c), UNCHANGED <<receipts, status, result>>
  PROVE  Only(c) /\ Spends(c)
<1>1. pc[c] = "spend" /\ UNCHANGED <<clock, req, stamp, entries, tag>>
  BY DEF Spend
<1>2. PICK class \in {Allow, DenyViolation, DenyUnavailable},
           reason \in {"allow", "replay", "spend-log unavailable"} :
         /\ Decide(c, class, reason)
         /\ spent \subseteq spent'
         /\ class = Allow => Nonce(c) \notin spent /\ Nonce(c) \in spent'
  BY ClassesDiffer DEF Spend, SpendRecords, SpendReplays, SpendFails
<1>3. /\ DOMAIN pc' = Callers /\ DOMAIN dec' = Callers
      /\ pc'[c] = "decided" /\ dec'[c].class = class /\ dec'[c].reason = reason
      /\ dec'[c].binding = dec[c].binding
      /\ \A d \in Callers \ {c} : pc'[d] = pc[d] /\ dec'[d] = dec[d]
  BY <1>2, DecideStep
<1>4. Only(c)
  BY <1>1, <1>3 DEF Only, TypesOK
<1> QED
  BY <1>1, <1>2, <1>3, <1>4 DEF Spends

(* Stamp, for either transport. *)
LEMMA StampStep ==
  ASSUME TypesOK, NEW c \in Callers, NEW label, Stamp(c, label),
         UNCHANGED <<receipts, status, result>>,
         \/ c \in Requests /\ label = "stamp"
         \/ c \in ToolCalls /\ label = "decided"
  PROVE  Only(c) /\ Stamps(c)
<1>1. /\ pc[c] = label /\ stamp' = [stamp EXCEPT ![c] = clock]
      /\ pc' = [pc EXCEPT ![c] = "append"]
      /\ UNCHANGED <<clock, req, dec, spent, entries, tag>>
  BY DEF Stamp
<1>2. Only(c) /\ pc'[c] = "append" /\ stamp'[c] = clock
  BY <1>1 DEF Only, TypesOK
<1> QED
  BY <1>1, <1>2 DEF Stamps

(* Respond and Goto move one request. *)
LEMMA HandlerMoves ==
  ASSUME TypesOK, NEW r \in Requests, UNCHANGED <<clock, req, dec, stamp, tag, result>>,
         \/ \E code \in {200, 401, 402, 503} : Respond(r, code)
         \/ \E label \in {"stamp", "serve", "deny"} : Goto(r, label)
  PROVE  Only(r)
<1>1. r \in Callers
  BY RequestsAssumption
<1>2. CASE \E code \in {200, 401, 402, 503} : Respond(r, code)
  BY <1>1, <1>2 DEF Respond, Only, TypesOK
<1>3. CASE \E label \in {"stamp", "serve", "deny"} : Goto(r, label)
  BY <1>1, <1>3 DEF Goto, Only, TypesOK
<1> QED
  BY <1>2, <1>3

(* A step of a request, one case per action of its handler. *)
LEMMA RequestStep ==
  ASSUME BaseInv, NEW r \in Requests, Refuse(r) \/ Receive(r) \/ Continue(r),
         UNCHANGED result
  PROVE  CallerStep(r)
<1>1. TypesOK /\ r \in Callers /\ r \notin ToolCalls /\ Stage(r) /\ dec[r].class \in Classes
  BY RequestsAssumption, TransportsAssumption DEF BaseInv, StageInv, TypesOK
<1>2. DOMAIN pc = Callers /\ DOMAIN status = Requests /\ DOMAIN tag = Callers
  BY <1>1 DEF TypesOK
<1>3. CASE Refuse(r)
  <2>1. Only(r)
    BY <1>1, <1>3, HandlerMoves DEF Refuse
  <2>2. TurnedAway(r)
    BY <1>1, <1>2, <1>3 DEF Refuse, Respond, TurnedAway
  <2> QED
    BY <2>1, <2>2 DEF CallerStep
<1>4. CASE Receive(r)
  <2>1. PICK in \in HttpInputs :
           /\ parseToken(in.header).ok
           /\ Check(r, in.pr, parseToken(in.header).tok, in.header)
    BY <1>4 DEF Receive
  <2>2. Presentation(in) \in Presentations /\ Presentation(in).tok = parseToken(in.header).tok
    BY <2>1 DEF Presentations, Presentation
  <2>3. parseToken(in.header).tok.expiry \in Int
    BY <2>2, PresentationAssumption
  <2>4. UNCHANGED <<receipts, status, result>>
    BY <1>4 DEF Receive, pepVars
  <2>5. Only(r) /\ Checked(r)
    BY <1>1, <2>1, <2>3, <2>4, CheckStep
  <2> QED
    BY <2>5 DEF CallerStep
<1>5. CASE AskPolicy(r)
  <2>1. Only(r) /\ Judged(r)
    BY <1>1, <1>5, PolicyStep DEF AskPolicy, pepVars
  <2> QED
    BY <2>1 DEF CallerStep
<1>6. CASE SpendNonce(r)
  <2>1. Only(r) /\ Spends(r)
    BY <1>1, <1>6, SpendStep DEF SpendNonce, pepVars
  <2> QED
    BY <2>1 DEF CallerStep
<1>7. CASE EmitOK(r)
  <2>1. Only(r)
    BY <1>1, <1>7, HandlerMoves DEF EmitOK
  <2>2. Emits(r)
    BY <1>1, <1>2, <1>7 DEF EmitOK, Emits, Goto, Conformant
  <2> QED
    BY <2>1, <2>2 DEF CallerStep
<1>8. CASE EmitFails(r)
  <2>1. Only(r)
    BY <1>1, <1>8, HandlerMoves DEF EmitFails
  <2>2. Emits(r)
    BY <1>1, <1>2, <1>8 DEF EmitFails, Emits, Goto, Respond
  <2> QED
    BY <2>1, <2>2 DEF CallerStep
<1>9. CASE StampEntry(r)
  <2>1. Only(r) /\ Stamps(r)
    BY <1>1, <1>9, StampStep DEF StampEntry, pepVars
  <2> QED
    BY <2>1 DEF CallerStep
<1>10. CASE Chain(r)
  <2> DEFINE e == AppendedEntry(r, PepKey[r], dec[r].class)
  <2>1. mapDecision(dec[r].class) = dec[r].class
    <3>1. pc[r] = "append"
      BY <1>10 DEF Chain, AppendOK
    <3>2. dec[r].class \in {Allow, DenyViolation, DenyUnavailable}
      BY <1>1, <3>1 DEF Stage, Classes
    <3> QED
      BY <3>2, ClassesDiffer
  <2>2. /\ pc[r] = "append" /\ SelfVerifies(LogPub, e)
        /\ entries' = Append(entries, e)
        /\ tag' = [tag EXCEPT ![r] = EntryTag(e)]
        /\ UNCHANGED <<clock, req, dec, spent, stamp, receipts, status>>
    BY <1>10, <2>1 DEF Chain, AppendOK, Goto
  <2>3. PICK label \in {"serve", "deny"} :
           pc' = [pc EXCEPT ![r] = label] /\ (label = "serve" => Allowed(r))
    BY <1>10 DEF Chain, Goto
  <2> HIDE DEF e
  <2>4. pc'[r] = label /\ tag'[r] = EntryTag(e)
    BY <1>1, <1>2, <2>2, <2>3
  <2>5. Only(r)
    BY <1>1, <2>2, <2>3 DEF Only, TypesOK
  <2>6. \E key : LET f == AppendedEntry(r, key, dec[r].class)
                IN  /\ SelfVerifies(LogPub, f)
                    /\ entries' = Append(entries, f)
                    /\ tag'[r] = EntryTag(f)
    BY <2>2, <2>4 DEF e
  <2>7. Appends(r)
    BY <1>1, <2>2, <2>3, <2>4, <2>6 DEF Appends
  <2> QED
    BY <2>5, <2>7 DEF CallerStep
<1>11. CASE ChainFails(r) \/ Serve(r) \/ Deny(r)
  <2>1. /\ UNCHANGED <<clock, req, dec, spent, stamp, entries, tag, receipts, result>>
        /\ pc[r] \in {"append", "serve", "deny"}
        /\ \/ \E code \in {200, 402, 503} : Respond(r, code) /\ (code = 200 => pc[r] = "serve")
           \/ Goto(r, "deny")
    BY <1>11 DEF ChainFails, AppendFails, Serve, Deny
  <2>2. Only(r)
    BY <1>1, <2>1, HandlerMoves
  <2>3. Finishes(r)
    BY <1>1, <1>2, <2>1 DEF Finishes, Respond, Goto
  <2> QED
    BY <2>2, <2>3 DEF CallerStep
<1> QED
  BY <1>3, <1>4, <1>5, <1>6, <1>7, <1>8, <1>9, <1>10, <1>11 DEF Continue

(* A step of a tool call. *)
LEMMA ToolCallStep ==
  ASSUME BaseInv, NEW t \in ToolCalls, Authorize(t) \/ MCPContinue(t), UNCHANGED pepVars
  PROVE  CallerStep(t)
<1>1. TypesOK /\ t \in Callers /\ t \notin Requests
  BY ToolCallsAssumption, TransportsAssumption DEF BaseInv
<1>2. /\ DOMAIN pc = Callers /\ DOMAIN result = ToolCalls /\ DOMAIN tag = Callers
      /\ UNCHANGED <<receipts, status>>
  BY <1>1 DEF TypesOK, pepVars
<1>3. CASE Authorize(t)
  <2>1. PICK call \in CallInputs : Check(t, PaymentOf(call), TokenOf(call), call)
    BY <1>3 DEF Authorize
  <2>2. /\ PaymentOf(call).scheme = EnforcerScheme /\ PaymentOf(call).network = EnforcerNetwork
        /\ PaymentOf(call).amount.digits \in Int /\ TokenOf(call).expiry \in Int
    BY CallAssumption DEF PaymentOf, TokenOf
  <2>3. UNCHANGED result
    BY <1>3 DEF Authorize
  <2>4. Only(t) /\ Checked(t)
    BY <1>1, <1>2, <2>1, <2>2, <2>3, CheckStep
  <2> QED
    BY <2>4 DEF CallerStep
<1>4. CASE AskCapability(t)
  <2>1. Only(t) /\ Judged(t)
    BY <1>1, <1>2, <1>4, PolicyStep DEF AskCapability
  <2> QED
    BY <2>1 DEF CallerStep
<1>5. CASE SpendCallNonce(t)
  <2>1. Only(t) /\ Spends(t)
    BY <1>1, <1>2, <1>5, SpendStep DEF SpendCallNonce
  <2> QED
    BY <2>1 DEF CallerStep
<1>6. CASE StampCall(t)
  <2>1. Only(t) /\ Stamps(t)
    BY <1>1, <1>2, <1>6, StampStep DEF StampCall
  <2> QED
    BY <2>1 DEF CallerStep
<1>7. ASSUME Return(t)
      PROVE  /\ pc'[t] = "done" /\ result'[t] = dec[t].class
             /\ DOMAIN pc' = Callers /\ DOMAIN result' = ToolCalls
             /\ \A d \in Callers \ {t} : pc'[d] = pc[d]
             /\ \A d \in ToolCalls \ {t} : result'[d] = result[d]
  BY <1>1, <1>2, <1>7 DEF Return
<1>8. CASE LogCall(t)
  <2> DEFINE e == AppendedEntry(t, EnforcerKey[t], dec[t].class)
  <2>1. /\ pc[t] = "append" /\ SelfVerifies(LogPub, e)
        /\ entries' = Append(entries, e)
        /\ tag' = [tag EXCEPT ![t] = EntryTag(e)]
        /\ UNCHANGED <<clock, req, dec, spent, stamp>>
        /\ Return(t)
    BY <1>8 DEF LogCall, AppendOK, ConvertClass
  <2> HIDE DEF e
  <2>2. tag'[t] = EntryTag(e)
    BY <1>1, <1>2, <2>1
  <2>3. Only(t)
    BY <1>1, <1>2, <1>7, <2>1 DEF Only, TypesOK
  <2>4. \E key : LET f == AppendedEntry(t, key, dec[t].class)
                IN  /\ SelfVerifies(LogPub, f)
                    /\ entries' = Append(entries, f)
                    /\ tag'[t] = EntryTag(f)
    BY <2>1, <2>2 DEF e
  <2>5. Appends(t)
    BY <1>1, <1>2, <1>7, <2>1, <2>4 DEF Appends
  <2> QED
    BY <2>3, <2>5 DEF CallerStep
<1>9. CASE LogCallFails(t)
  <2>1. /\ pc[t] = "append" /\ Return(t)
        /\ tag' = [tag EXCEPT ![t] = <<ZeroRecord.seq, Hash(ZeroRecord)>>]
        /\ UNCHANGED <<clock, req, dec, spent, stamp, entries>>
    BY <1>9 DEF LogCallFails
  <2>2. Only(t)
    BY <1>1, <1>2, <1>7, <2>1 DEF Only, TypesOK
  <2>3. Finishes(t)
    BY <1>1, <1>2, <1>7, <2>1 DEF Finishes
  <2> QED
    BY <2>2, <2>3 DEF CallerStep
<1> QED
  BY <1>3, <1>4, <1>5, <1>6, <1>8, <1>9 DEF MCPContinue

(* What the history variables record of a step of caller c. *)
History(c) ==
    /\ \A d \in Callers \ {c} : life'[d] = life[d] /\ ended'[d] = ended[d]
    /\ pc[c] # "idle" => life'[c] = life[c] /\ ended'[c] = ended[c]
    /\ pc[c] = "idle" => /\ life'[c] = crashes
                         /\ ended'[c] = {d \in Callers : pc[d] = "done"}
    /\ entries' = entries => owner' = owner
    /\ Appends(c) => owner' = Append(owner, c)

Moves(c) ==
    /\ CallerStep(c) /\ History(c)
    /\ ReceiptsReachDisk
    /\ UNCHANGED <<config, crashes>>

(* The clock ticks, the emitter flushes, or nothing happens. *)
Quiet ==
    /\ clock' \in {clock, clock + 1}
    /\ synced' \in {synced, receipts}
    /\ \A c \in Callers : life'[c] = life[c] /\ ended'[c] = ended[c]
    /\ UNCHANGED <<pc, req, dec, spent, stamp, entries, tag, receipts, status, result,
                   config, crashes, owner>>

(* A caller arrives by its first step, and owns the entry it appends. *)
LEMMA Observed ==
  ASSUME BaseInv, entries \in Seq(Range(entries)), NEW c \in Callers, CallerStep(c), Observe
  PROVE  History(c)
<1>1. /\ Only(c) /\ DOMAIN tag = Callers
      /\ pc[c] = "idle" => pc'[c] # "idle"
  BY DEF CallerStep, BaseInv, TypesOK, TurnedAway, Checked, Judged, Spends, Emits,
         Stamps, Appends, Finishes
<1>2. \A d \in Callers \ {c} : pc'[d] = pc[d] /\ tag'[d] = tag[d]
  BY <1>1 DEF Only
<1>3. \A d \in Callers \ {c} : life'[d] = life[d] /\ ended'[d] = ended[d]
  BY <1>2 DEF Observe
<1>4. pc[c] # "idle" => life'[c] = life[c] /\ ended'[c] = ended[c]
  BY DEF Observe
<1>5. pc[c] = "idle" => /\ life'[c] = crashes
                        /\ ended'[c] = {d \in Callers : pc[d] = "done"}
  BY <1>1 DEF Observe
<1>6. entries' = entries => owner' = owner
  BY DEF Observe
<1>7. ASSUME Appends(c) PROVE owner' = Append(owner, c)
  <2>1. PICK key : /\ entries' = Append(entries, AppendedEntry(c, key, dec[c].class))
                   /\ tag'[c] = EntryTag(AppendedEntry(c, key, dec[c].class))
                   /\ pc[c] = "append"
    BY <1>7 DEF Appends
  <2> DEFINE e == AppendedEntry(c, key, dec[c].class)
  <2>2. entries' = Append(entries, e) /\ tag'[c] = EntryTag(e)
    BY <2>1
  <2> HIDE DEF e
  <2>3. entries' # entries
    <3>1. Len(entries) \in Nat /\ Len(entries') = Len(entries) + 1
      BY <2>2, AppendExtends
    <3> QED
      BY <3>1
  <2>4. tag[c] = NoTag
    BY <2>1 DEF BaseInv, StageInv, Stage
  <2>5. EntryTag(e) # NoTag
    BY DEF EntryTag, NoTag
  <2>6. \A d \in Callers : tag'[d] # tag[d] <=> d = c
    BY <1>2, <2>2, <2>4, <2>5
  <2>7. (CHOOSE d \in Callers : tag'[d] # tag[d]) = c
    BY <2>6
  <2> QED
    BY <2>3, <2>7 DEF Observe
<1> QED
  BY <1>3, <1>4, <1>5, <1>6, <1>7 DEF History

(* What a step of the deployment can be. *)
LEMMA StepCases ==
  ASSUME BaseInv, entries \in Seq(Range(entries)), [DepNext]_allVars
  PROVE  (\E c \in Callers : Moves(c)) \/ Quiet \/ CrashRestart
<1>1. CASE ProcessStep
  <2>1. ReceiptsReachDisk /\ Observe /\ UNCHANGED <<config, crashes>>
    BY <1>1 DEF ProcessStep
  <2>2. CASE PEPNext /\ UNCHANGED result
    <3>1. PICK r \in Requests : Refuse(r) \/ Receive(r) \/ Continue(r)
      BY <2>2 DEF PEPNext
    <3>2. CallerStep(r) /\ r \in Callers
      BY <2>2, <3>1, RequestStep, RequestsAssumption
    <3> QED
      BY <2>1, <3>2, Observed DEF Moves
  <2>3. CASE MCPNext /\ UNCHANGED pepVars
    <3>1. PICK t \in ToolCalls : Authorize(t) \/ MCPContinue(t)
      BY <2>3 DEF MCPNext
    <3>2. CallerStep(t) /\ t \in Callers
      BY <2>3, <3>1, ToolCallStep, ToolCallsAssumption
    <3> QED
      BY <2>1, <3>2, Observed DEF Moves
  <2>4. CASE Tick /\ UNCHANGED <<pepVars, result>>
    <3>1. /\ clock' = clock + 1
          /\ UNCHANGED <<pc, req, dec, spent, stamp, entries, tag, receipts, status, result>>
      BY <2>4 DEF Tick, pepVars
    <3>2. synced' \in {synced, receipts}
      BY <2>1, <3>1 DEF ReceiptsReachDisk
    <3>3. /\ \A c \in Callers : life'[c] = life[c] /\ ended'[c] = ended[c]
          /\ owner' = owner
      BY <2>1, <3>1 DEF Observe
    <3> QED
      BY <2>1, <3>1, <3>2, <3>3 DEF Quiet
  <2> QED
    BY <1>1, <2>2, <2>3, <2>4 DEF ProcessStep
<1>2. CASE Flush \/ UNCHANGED allVars
  BY <1>2 DEF Flush, allVars, coreVars, pepVars, opsVars, Quiet
<1> QED
  BY <1>1, <1>2 DEF DepNext

---------------------------------------------------------------------------
(* The base invariant. *)

(* What a step of c leaves of the others. *)
LEMMA OthersStay ==
  ASSUME NEW c \in Callers, Moves(c), NEW d \in Callers, d # c
  PROVE  /\ pc'[d] = pc[d] /\ req'[d] = req[d] /\ dec'[d] = dec[d]
         /\ stamp'[d] = stamp[d] /\ tag'[d] = tag[d]
         /\ d \in Requests => status'[d] = status[d]
         /\ d \in ToolCalls => result'[d] = result[d]
         /\ life'[d] = life[d] /\ ended'[d] = ended[d]
         /\ BindingOf(d)' = BindingOf(d) /\ Nonce(d)' = Nonce(d)
         /\ Allowed(d)' <=> Allowed(d)
<1>1. Only(c) /\ History(c)
  BY DEF Moves, CallerStep
<1>2. pc'[d] = pc[d] /\ req'[d] = req[d] /\ dec'[d] = dec[d]
  BY <1>1 DEF Only
<1>3. /\ stamp'[d] = stamp[d] /\ tag'[d] = tag[d]
      /\ d \in Requests => status'[d] = status[d]
      /\ d \in ToolCalls => result'[d] = result[d]
  BY <1>1 DEF Only
<1>4. life'[d] = life[d] /\ ended'[d] = ended[d]
  BY <1>1 DEF History
<1>5. BindingOf(d)' = BindingOf(d) /\ Nonce(d)' = Nonce(d) /\ (Allowed(d)' <=> Allowed(d))
  BY <1>2 DEF BindingOf, Nonce, Allowed
<1> QED
  BY <1>2, <1>3, <1>4, <1>5

(* A caller's own step takes it from one stage to the next. *)
LEMMA StageMoves ==
  ASSUME BaseInv, NEW c \in Callers, Moves(c)
  PROVE  Stage(c)' /\ pc'[c] \in Labels /\ dec'[c].class \in Classes
<1>1. /\ Stage(c) /\ pc[c] \in Labels /\ dec[c].class \in Classes /\ History(c)
      /\ UNCHANGED crashes
  BY DEF BaseInv, StageInv, TypesOK, Moves
<1>2. pc[c] = "idle" => life'[c] = crashes
  BY <1>1 DEF History
<1>3. pc[c] # "idle" => life'[c] = life[c]
  BY <1>1 DEF History
<1>4. req'[c] = req[c] => BindingOf(c)' = BindingOf(c)
  BY DEF BindingOf, Nonce
<1>5. CASE TurnedAway(c)
  BY <1>1, <1>3, <1>4, <1>5 DEF TurnedAway, Stage, Labels, Classes
<1>6. CASE Checked(c)
  BY <1>1, <1>2, <1>6, ClassesDiffer DEF Checked, Stage, Labels, Classes
<1>7. CASE Judged(c)
  BY <1>1, <1>3, <1>4, <1>7, ClassesDiffer DEF Judged, Stage, Labels, Classes
<1>8. CASE Spends(c)
  BY <1>1, <1>3, <1>4, <1>8, ClassesDiffer DEF Spends, Stage, Labels, Classes
<1>9. CASE Emits(c)
  BY <1>1, <1>3, <1>4, <1>9 DEF Emits, Stage, Labels
<1>10. CASE Stamps(c)
  BY <1>1, <1>3, <1>4, <1>10 DEF Stamps, Stage, Labels
<1>11. CASE Appends(c)
  <2>1. /\ pc[c] = "append" /\ pc'[c] \in {"serve", "deny", "done"}
        /\ pc'[c] = "serve" => Allowed(c)
        /\ UNCHANGED <<req, dec>>
    BY <1>11 DEF Appends
  <2> QED
    BY <1>1, <1>3, <1>4, <2>1 DEF Stage, Labels, Allowed
<1>12. CASE Finishes(c)
  <2>1. /\ pc[c] \in {"append", "serve", "deny"} /\ pc'[c] \in {"deny", "done"}
        /\ UNCHANGED <<req, dec>>
    BY <1>12 DEF Finishes
  <2> QED
    BY <1>1, <1>3, <1>4, <2>1 DEF Stage, Labels, Allowed
<1> QED
  BY <1>5, <1>6, <1>7, <1>8, <1>9, <1>10, <1>11, <1>12 DEF Moves, CallerStep

(* The answer a caller's own step gives is its last and what was decided. *)
LEMMA AnswerMoves ==
  ASSUME BaseInv, NEW c \in Callers, Moves(c)
  PROVE  /\ c \in Requests => /\ status'[c] # 0 => pc'[c] = "done"
                              /\ status'[c] = 200 => Allowed(c)'
         /\ c \in ToolCalls => (result'[c] # Undecided =>
               pc'[c] = "done" /\ result'[c] = dec'[c].class)
<1>1. /\ c \in Requests => /\ status[c] # 0 => pc[c] = "done"
                           /\ status[c] = 200 => Allowed(c)
      /\ c \in ToolCalls => (result[c] # Undecided =>
            pc[c] = "done" /\ result[c] = dec[c].class)
      /\ Stage(c)
  BY DEF BaseInv, AnswerInv, StageInv
<1>2. CASE TurnedAway(c)
  BY <1>1, <1>2, TransportsAssumption DEF TurnedAway
<1>3. CASE Checked(c) \/ Judged(c) \/ Spends(c) \/ Stamps(c)
  BY <1>1, <1>3 DEF Checked, Judged, Spends, Stamps
<1>4. CASE Emits(c)
  BY <1>1, <1>4 DEF Emits
<1>5. CASE Appends(c)
  <2>1. /\ pc[c] = "append" /\ UNCHANGED <<dec, status>>
        /\ c \in ToolCalls => pc'[c] = "done" /\ result'[c] = dec[c].class
    BY <1>5 DEF Appends
  <2> QED
    BY <1>1, <2>1
<1>6. CASE Finishes(c)
  <2>1. pc[c] \in {"append", "serve", "deny"} /\ UNCHANGED dec
    BY <1>6 DEF Finishes
  <2>2. c \in Requests => /\ status'[c] # status[c] => pc'[c] = "done"
                          /\ status'[c] = 200 => pc[c] = "serve" \/ status'[c] = status[c]
    BY <1>6 DEF Finishes
  <2>3. c \in ToolCalls /\ result'[c] # result[c] =>
           pc'[c] = "done" /\ result'[c] = dec[c].class
    BY <1>6 DEF Finishes
  <2>4. pc[c] = "serve" => Allowed(c)'
    BY <1>1, <2>1 DEF Stage, Allowed
  <2> QED
    BY <1>1, <2>1, <2>2, <2>3, <2>4
<1> QED
  BY <1>2, <1>3, <1>4, <1>5, <1>6 DEF Moves, CallerStep

(* The base invariant is inductive. *)
LEMMA BaseInvMoves ==
  ASSUME BaseInv, NEW c \in Callers, Moves(c)
  PROVE  BaseInv'
<1>1. TypesOK'
  <2>1. Only(c) /\ TypesOK /\ UNCHANGED <<config, crashes>>
    BY DEF Moves, CallerStep, BaseInv
  <2>2. \A d \in Callers : pc'[d] \in Labels /\ dec'[d].class \in Classes
    BY <2>1, StageMoves, OthersStay DEF TypesOK
  <2> QED
    BY <2>1, <2>2 DEF TypesOK, Only
<1>2. StageInv'
  <2> SUFFICES ASSUME NEW d \in Callers PROVE Stage(d)'
    BY DEF StageInv
  <2>1. CASE d = c
    BY <2>1, StageMoves
  <2>2. CASE d # c
    <3>1. Stage(d) /\ UNCHANGED crashes
      BY DEF BaseInv, StageInv, Moves
    <3>2. /\ pc'[d] = pc[d] /\ dec'[d] = dec[d] /\ tag'[d] = tag[d]
          /\ life'[d] = life[d] /\ BindingOf(d)' = BindingOf(d)
          /\ Allowed(d)' <=> Allowed(d)
      BY <2>2, OthersStay
    <3> QED
      BY <3>1, <3>2 DEF Stage
  <2> QED
    BY <2>1, <2>2
<1>3. AnswerInv'
  <2>1. ASSUME NEW r \in Requests
        PROVE  /\ status'[r] # 0 => pc'[r] = "done"
               /\ status'[r] = 200 => Allowed(r)'
    BY AnswerMoves, OthersStay, RequestsAssumption DEF BaseInv, AnswerInv
  <2>2. ASSUME NEW t \in ToolCalls
        PROVE  result'[t] # Undecided => pc'[t] = "done" /\ result'[t] = dec'[t].class
    BY AnswerMoves, OthersStay, ToolCallsAssumption DEF BaseInv, AnswerInv
  <2> QED
    BY <2>1, <2>2 DEF AnswerInv
<1> QED
  BY <1>1, <1>2, <1>3 DEF BaseInv

(* A quiet step changes nothing of it. *)
LEMMA BaseInvQuiet == BaseInv /\ Quiet => BaseInv'
<1> SUFFICES ASSUME BaseInv, Quiet PROVE BaseInv'
  OBVIOUS
<1>1. TypesOK'
  BY DEF BaseInv, TypesOK, Quiet
<1>2. StageInv'
  BY DEF BaseInv, StageInv, Stage, Quiet, Allowed, BindingOf, Nonce
<1>3. AnswerInv'
  BY DEF BaseInv, AnswerInv, Quiet, Allowed
<1> QED
  BY <1>1, <1>2, <1>3 DEF BaseInv

(* After a crash everybody who had arrived is gone. *)
LEMMA BaseInvCrash == BaseInv /\ CrashRestart => BaseInv'
<1> SUFFICES ASSUME BaseInv, CrashRestart PROVE BaseInv'
  OBVIOUS
<1>1. /\ pc' = [c \in Callers |-> IF pc[c] = "idle" THEN "idle" ELSE "done"]
      /\ crashes' = crashes + 1
      /\ UNCHANGED <<clock, req, dec, stamp, tag, status, result, config, life>>
  BY DEF CrashRestart
<1>2. TypesOK'
  BY <1>1 DEF BaseInv, TypesOK, Labels
<1>3. StageInv'
  <2> SUFFICES ASSUME NEW c \in Callers PROVE Stage(c)'
    BY DEF StageInv
  <2>1. /\ Stage(c) /\ pc'[c] \in {"idle", "done"} /\ (pc'[c] = "idle" <=> pc[c] = "idle")
        /\ BindingOf(c)' = BindingOf(c)
    BY <1>1 DEF BaseInv, StageInv, BindingOf, Nonce
  <2> QED
    BY <1>1, <2>1 DEF Stage
<1>4. AnswerInv'
  BY <1>1, RequestsAssumption, ToolCallsAssumption DEF BaseInv, AnswerInv, Allowed
<1> QED
  BY <1>2, <1>3, <1>4 DEF BaseInv

---------------------------------------------------------------------------
(* The chain and the callers behind it. *)

(* A caller past Append keeps its decision, its stamp and its locator. *)
LEMMA PastAppend ==
  ASSUME NEW c \in Callers, Moves(c), NEW d \in Callers,
         pc[d] \in {"serve", "deny", "done"}
  PROVE  /\ pc'[d] \in {"serve", "deny", "done"} /\ (pc[d] = "done" => pc'[d] = "done")
         /\ req'[d] = req[d] /\ dec'[d] = dec[d] /\ stamp'[d] = stamp[d] /\ tag'[d] = tag[d]
         /\ life'[d] = life[d] /\ ended'[d] = ended[d]
<1>1. CASE d # c
  BY <1>1, OthersStay
<1>2. CASE d = c
  <2>1. Finishes(c)
    BY <1>2 DEF Moves, CallerStep, TurnedAway, Checked, Judged, Spends, Emits, Stamps, Appends
  <2>2. /\ pc[c] \in {"serve", "deny"} /\ pc'[c] \in {"deny", "done"}
        /\ tag'[c] = tag[c] /\ UNCHANGED <<req, dec, stamp>>
    BY <1>2, <2>1 DEF Finishes
  <2>3. life'[c] = life[c] /\ ended'[c] = ended[c]
    BY <2>2 DEF Moves, History
  <2> QED
    BY <1>2, <2>2, <2>3
<1> QED
  BY <1>1, <1>2

(* Only Append changes the log. *)
LEMMA OnlyAppendChangesLog ==
  ASSUME NEW c \in Callers, Moves(c), ~Appends(c)
  PROVE  entries' = entries /\ owner' = owner
<1>1. entries' = entries
  BY DEF Moves, CallerStep, TurnedAway, Checked, Judged, Spends, Emits, Stamps, Finishes
<1> QED
  BY <1>1 DEF Moves, History

(* Entry e is what caller c, who is past Append, appended. *)
Behind(c, e) ==
    /\ c \in Callers /\ pc[c] \in {"serve", "deny", "done"}
    /\ tag[c] = EntryTag(e)
    /\ e.record.decision = dec[c].class
    /\ e.record.binding = dec[c].binding
    /\ e.record.issuedAt = stamp[c]

(* The entry that Append adds. *)
LEMMA AppendsEntry ==
  ASSUME BaseInv, OwnerInv, NEW c \in Callers, Moves(c), Appends(c)
  PROVE  /\ entries' \in Seq(Range(entries')) /\ owner' \in Seq(Range(owner'))
         /\ Len(entries) \in Nat
         /\ Len(entries') = Len(entries) + 1 /\ Len(owner') = Len(entries) + 1
         /\ \A i \in 1..Len(entries) : entries'[i] = entries[i] /\ owner'[i] = owner[i]
         /\ owner'[Len(entries) + 1] = c
         /\ Behind(c, entries[Len(entries)])'
         /\ LogVerify(LogPub, entries) => LogVerify(LogPub, entries')
         /\ SubSeq(entries', 1, Len(entries)) = entries
<1>1. PICK key : /\ SelfVerifies(LogPub, AppendedEntry(c, key, dec[c].class))
                 /\ entries' = Append(entries, AppendedEntry(c, key, dec[c].class))
                 /\ tag'[c] = EntryTag(AppendedEntry(c, key, dec[c].class))
  BY DEF Appends
<1> DEFINE e == AppendedEntry(c, key, dec[c].class)
<1>2. /\ e.record.decision = dec[c].class /\ e.record.binding = dec[c].binding
      /\ e.record.issuedAt = stamp[c]
  BY DEF AppendedEntry, Entry, NextRecord
<1>3. entries' = Append(entries, e) /\ tag'[c] = EntryTag(e)
  BY <1>1
<1>4. /\ pc'[c] \in {"serve", "deny", "done"} /\ UNCHANGED <<dec, stamp>>
      /\ owner' = Append(owner, c)
  BY DEF Appends, Moves, History
<1>5. /\ entries \in Seq(Range(entries)) /\ owner \in Seq(Range(owner))
      /\ Len(owner) = Len(entries)
  BY DEF OwnerInv
<1>6. LogVerify(LogPub, entries) => LogVerify(LogPub, entries')
  BY <1>1, <1>5, ExtendedLogVerifies DEF AppendedEntry
<1> HIDE DEF e
<1>7. /\ entries' \in Seq(Range(entries')) /\ Len(entries) \in Nat
      /\ Len(entries') = Len(entries) + 1
      /\ \A i \in 1..Len(entries) : entries'[i] = entries[i]
      /\ entries'[Len(entries) + 1] = e
  BY <1>3, <1>5, AppendExtends
<1>8. /\ owner' \in Seq(Range(owner')) /\ Len(owner') = Len(owner) + 1
      /\ \A i \in 1..Len(owner) : owner'[i] = owner[i]
      /\ owner'[Len(owner) + 1] = c
  BY <1>4, <1>5, AppendExtends
<1>9. entries'[Len(entries')] = e
  BY <1>7
<1>10. Behind(c, entries[Len(entries)])'
  BY <1>2, <1>3, <1>4, <1>9 DEF Behind
<1>11. SubSeq(entries', 1, Len(entries)) = entries
  <2>1. Len(entries) \in 0..Len(entries)
    BY <1>7
  <2> QED
    BY <1>3, <1>5, <2>1, PrefixOfAppend, PrefixFull
<1> QED
  BY <1>5, <1>6, <1>7, <1>8, <1>10, <1>11

(* The owner invariant is inductive. *)
LEMMA OwnerInvMoves ==
  ASSUME BaseInv, OwnerInv, NEW c \in Callers, Moves(c)
  PROVE  OwnerInv'
<1>1. ASSUME NEW i \in 1..Len(entries), entries'[i] = entries[i], owner'[i] = owner[i]
      PROVE  Behind(owner[i], entries[i])'
  <2>1. Behind(owner[i], entries[i])
    BY DEF OwnerInv, Behind
  <2> DEFINE d == owner[i]
  <2>2. d \in Callers /\ pc[d] \in {"serve", "deny", "done"}
    BY <2>1 DEF Behind
  <2>3. /\ pc'[d] \in {"serve", "deny", "done"}
        /\ dec'[d] = dec[d] /\ stamp'[d] = stamp[d] /\ tag'[d] = tag[d]
    <3> HIDE DEF d
    <3> QED
      BY <2>2, PastAppend
  <2> QED
    BY <1>1, <2>1, <2>3 DEF Behind
<1>2. CASE ~Appends(c)
  <2>1. entries' = entries /\ owner' = owner
    BY <1>2, OnlyAppendChangesLog
  <2>2. \A i \in 1..Len(entries) : Behind(owner[i], entries[i])'
    BY <1>1, <2>1
  <2> QED
    BY <2>1, <2>2 DEF OwnerInv, Behind
<1>3. CASE Appends(c)
  <2>1. /\ entries' \in Seq(Range(entries')) /\ owner' \in Seq(Range(owner'))
        /\ Len(entries) \in Nat
        /\ Len(entries') = Len(entries) + 1 /\ Len(owner') = Len(entries) + 1
        /\ \A i \in 1..Len(entries) : entries'[i] = entries[i] /\ owner'[i] = owner[i]
        /\ owner'[Len(entries) + 1] = c
        /\ Behind(c, entries[Len(entries)])'
    BY <1>3, AppendsEntry
  <2>2. ASSUME NEW i \in 1..Len(entries') PROVE Behind(owner[i], entries[i])'
    <3>1. CASE i \in 1..Len(entries)
      BY <1>1, <2>1, <3>1
    <3>2. CASE i = Len(entries')
      BY <2>1, <3>2
    <3> QED
      BY <2>1, <3>1, <3>2
  <2> QED
    BY <2>1, <2>2 DEF OwnerInv, Behind
<1> QED
  BY <1>2, <1>3

(* A restart keeps a prefix of the log, and forgets the callers behind the  *)
(* rest.                                                                    *)
LEMMA CrashCutsLog ==
  ASSUME OwnerInv, CrashRestart
  PROVE  /\ entries' \in Seq(Range(entries')) /\ owner' \in Seq(Range(owner'))
         /\ Len(entries) \in Nat /\ Len(entries') \in 0..Len(entries)
         /\ entries' = SubSeq(entries, 1, Len(entries'))
         /\ Len(owner') = Len(entries')
         /\ \A i \in 1..Len(entries') : entries'[i] = entries[i] /\ owner'[i] = owner[i]
<1>1. /\ entries \in Seq(Range(entries)) /\ owner \in Seq(Range(owner))
      /\ Len(owner) = Len(entries)
  BY DEF OwnerInv
<1>2. PICK n \in 0..Len(entries) :
         entries' = SubSeq(entries, 1, n) /\ owner' = SubSeq(owner, 1, n)
  BY DEF CrashRestart
<1>3. /\ entries' \in Seq(Range(entries')) /\ Len(entries') = n
      /\ \A i \in 1..n : entries'[i] = entries[i]
  BY <1>1, <1>2, PrefixFacts
<1>4. /\ owner' \in Seq(Range(owner')) /\ Len(owner') = n
      /\ \A i \in 1..n : owner'[i] = owner[i]
  BY <1>1, <1>2, PrefixFacts
<1>5. Len(entries) \in Nat
  BY <1>1
<1> QED
  BY <1>2, <1>3, <1>4, <1>5

(* So every entry that is left still has its caller. *)
LEMMA OwnerInvCrash == OwnerInv /\ CrashRestart => OwnerInv'
<1> SUFFICES ASSUME OwnerInv, CrashRestart PROVE OwnerInv'
  OBVIOUS
<1>1. /\ entries' \in Seq(Range(entries')) /\ owner' \in Seq(Range(owner'))
      /\ Len(entries) \in Nat /\ Len(entries') \in 0..Len(entries)
      /\ Len(owner') = Len(entries')
      /\ \A i \in 1..Len(entries') : entries'[i] = entries[i] /\ owner'[i] = owner[i]
  BY CrashCutsLog
<1>2. ASSUME NEW i \in 1..Len(entries') PROVE Behind(owner[i], entries[i])'
  <2>1. i \in 1..Len(entries) /\ entries'[i] = entries[i] /\ owner'[i] = owner[i]
    BY <1>1
  <2>2. Behind(owner[i], entries[i])
    BY <2>1 DEF OwnerInv, Behind
  <2>3. /\ pc' = [c \in Callers |-> IF pc[c] = "idle" THEN "idle" ELSE "done"]
        /\ UNCHANGED <<dec, stamp, tag>>
    BY DEF CrashRestart
  <2> QED
    BY <2>1, <2>2, <2>3 DEF Behind
<1> QED
  BY <1>1, <1>2 DEF OwnerInv, Behind

(* Neither the clock nor the emitter touches the log. *)
LEMMA OwnerInvQuiet == OwnerInv /\ Quiet => OwnerInv'
  BY DEF OwnerInv, Quiet

---------------------------------------------------------------------------
(* The spend log, across transports and crashes. *)

(* Who is newly allowed has just put a fresh nonce into the spend log.      *)
(* Nobody else's decision or nonce changes while it can matter.             *)
LEMMA AllowStep ==
  ASSUME BaseInv, NEW c \in Callers, Moves(c)
  PROVE  /\ spent \subseteq spent'
         /\ Allowed(c)' => /\ Nonce(c)' = Nonce(c) /\ life'[c] = life[c]
                           /\ \/ Allowed(c)
                              \/ /\ life[c] = crashes
                                 /\ Nonce(c) \notin spent /\ Nonce(c) \in spent'
         /\ Allowed(c) => Allowed(c)'
<1>1. Stage(c) /\ History(c)
  BY DEF BaseInv, StageInv, Moves
<1>2. CASE TurnedAway(c) \/ Checked(c)
  <2>1. ~Allowed(c) /\ ~Allowed(c)' /\ UNCHANGED spent
    BY <1>1, <1>2, ClassesDiffer DEF TurnedAway, Checked, Stage, Allowed
  <2> QED
    BY <2>1
<1>3. CASE Judged(c)
  <2>1. ~Allowed(c) /\ ~Allowed(c)' /\ UNCHANGED spent
    BY <1>1, <1>3, ClassesDiffer DEF Judged, Stage, Allowed
  <2> QED
    BY <2>1
<1>4. CASE Spends(c)
  <2>1. ~Allowed(c) /\ life[c] = crashes /\ life'[c] = life[c]
    BY <1>1, <1>4, ClassesDiffer DEF Spends, Stage, Allowed, History
  <2>2. spent \subseteq spent' /\ Nonce(c)' = Nonce(c)
    BY <1>4 DEF Spends, Nonce
  <2>3. Allowed(c)' => Nonce(c) \notin spent /\ Nonce(c) \in spent'
    BY <1>4 DEF Spends, Allowed
  <2> QED
    BY <2>1, <2>2, <2>3
<1>5. CASE Emits(c) \/ Stamps(c) \/ Appends(c) \/ Finishes(c)
  <2>1. UNCHANGED <<req, dec, spent>> /\ pc[c] # "idle"
    BY <1>5 DEF Emits, Stamps, Appends, Finishes
  <2>2. life'[c] = life[c]
    BY <1>1, <2>1 DEF History
  <2> QED
    BY <2>1, <2>2 DEF Allowed, Nonce
<1> QED
  BY <1>2, <1>3, <1>4, <1>5 DEF Moves, CallerStep

(* The two invariants of the spend log are inductive. *)
LEMMA SpentMoves ==
  ASSUME BaseInv, SpentInv, AllowedOnce, NEW c \in Callers, Moves(c)
  PROVE  SpentInv' /\ AllowedOnce'
<1>1. /\ UNCHANGED <<config, crashes>> /\ crashes \in Nat
      /\ life'[c] \in {life[c], crashes}
  BY DEF Moves, History, BaseInv, TypesOK
<1>2. \A d \in Callers \ {c} : /\ life'[d] = life[d] /\ Nonce(d)' = Nonce(d)
                               /\ Allowed(d)' <=> Allowed(d)
  BY OthersStay
<1>3. /\ spent \subseteq spent'
      /\ Allowed(c)' => /\ Nonce(c)' = Nonce(c) /\ life'[c] = life[c]
                        /\ \/ Allowed(c)
                           \/ /\ life[c] = crashes
                              /\ Nonce(c) \notin spent /\ Nonce(c) \in spent'
  BY AllowStep
<1>4. \A d \in Callers : life'[d] \in 0..crashes'
  BY <1>1, <1>2 DEF SpentInv
<1>5. ASSUME NEW d \in Callers, Allowed(d)', config.spendDurable \/ life'[d] = crashes
      PROVE  Nonce(d)' \in spent'
  <2>1. CASE Allowed(d)
    <3>1. Nonce(d)' = Nonce(d) /\ life'[d] = life[d]
      BY <1>2, <1>3, <1>5
    <3>2. Nonce(d) \in spent
      BY <1>5, <2>1, <3>1 DEF SpentInv
    <3> QED
      BY <1>3, <3>1, <3>2
  <2>2. CASE ~Allowed(d)
    BY <1>2, <1>3, <1>5, <2>2
  <2> QED
    BY <2>1, <2>2
<1>6. SpentInv'
  BY <1>1, <1>4, <1>5 DEF SpentInv
<1>7. ASSUME NEW d \in Callers, d # c, Allowed(c)', Allowed(d)', Nonce(c)' = Nonce(d)'
      PROVE  ~config.spendDurable /\ life'[c] # life'[d]
  <2>1. /\ Nonce(c)' = Nonce(c) /\ life'[c] = life[c]
        /\ Nonce(d)' = Nonce(d) /\ life'[d] = life[d] /\ Allowed(d)
    BY <1>2, <1>3, <1>7
  <2>2. CASE Allowed(c)
    BY <1>7, <2>1, <2>2 DEF AllowedOnce
  <2>3. CASE ~Allowed(c)
    <3>1. life[c] = crashes /\ Nonce(d) \notin spent
      BY <1>3, <1>7, <2>1, <2>3
    <3>2. ~config.spendDurable /\ life[d] # crashes
      BY <2>1, <3>1 DEF SpentInv
    <3> QED
      BY <2>1, <3>1, <3>2
  <2> QED
    BY <2>2, <2>3
<1>8. AllowedOnce'
  <2> SUFFICES ASSUME NEW d \in Callers, NEW e \in Callers, d # e,
                      Allowed(d)', Allowed(e)', Nonce(d)' = Nonce(e)'
               PROVE  ~config.spendDurable /\ life'[d] # life'[e]
    BY <1>1 DEF AllowedOnce
  <2>1. CASE d # c /\ e # c
    <3>1. /\ life'[d] = life[d] /\ Nonce(d)' = Nonce(d) /\ Allowed(d)
          /\ life'[e] = life[e] /\ Nonce(e)' = Nonce(e) /\ Allowed(e)
      BY <1>2, <2>1
    <3> QED
      BY <3>1 DEF AllowedOnce
  <2>2. CASE d = c
    BY <1>7, <2>2
  <2>3. CASE e = c
    BY <1>7, <2>3
  <2> QED
    BY <2>1, <2>2, <2>3
<1> QED
  BY <1>6, <1>8

(* A quiet step leaves the spend log and the decisions alone. *)
LEMMA SpentQuiet == SpentInv /\ AllowedOnce /\ Quiet => SpentInv' /\ AllowedOnce'
<1> SUFFICES ASSUME SpentInv, AllowedOnce, Quiet PROVE SpentInv' /\ AllowedOnce'
  OBVIOUS
<1>1. /\ UNCHANGED <<config, crashes, spent>>
      /\ \A c \in Callers : /\ life'[c] = life[c] /\ Nonce(c)' = Nonce(c)
                            /\ Allowed(c)' <=> Allowed(c)
  BY DEF Quiet, Nonce, Allowed
<1>2. SpentInv'
  BY <1>1 DEF SpentInv
<1>3. AllowedOnce'
  BY <1>1 DEF AllowedOnce
<1> QED
  BY <1>2, <1>3

(* After a crash nobody's life is the current one, so that only a durable   *)
(* spend log has anything to keep, and it keeps it.                         *)
LEMMA SpentCrash ==
  ASSUME BaseInv, SpentInv, AllowedOnce, CrashRestart
  PROVE  SpentInv' /\ AllowedOnce'
<1>1. /\ UNCHANGED <<config, req, dec, life>> /\ crashes' = crashes + 1 /\ crashes \in Nat
      /\ config.spendDurable => spent' = spent
  BY DEF CrashRestart, BaseInv, TypesOK
<1>2. \A c \in Callers : life'[c] \in 0..crashes' /\ life'[c] # crashes'
  BY <1>1 DEF SpentInv
<1>3. SpentInv'
  BY <1>1, <1>2 DEF SpentInv, Nonce, Allowed
<1>4. AllowedOnce'
  BY <1>1 DEF AllowedOnce, Nonce, Allowed
<1> QED
  BY <1>3, <1>4

---------------------------------------------------------------------------
(* The receipts, in the emitter and on disk. *)

(* Only Emit adds a receipt, that of its own decision, and nothing but a    *)
(* crash takes one away.                                                    *)
LEMMA ReceiptsGrow ==
  ASSUME NEW c \in Callers, Moves(c)
  PROVE  /\ receipts' = receipts \/ (Emits(c) /\ receipts' = receipts \cup {ReceiptOf(c)})
         /\ receipts \subseteq receipts'
         /\ synced' \in {synced, receipts'}
         /\ config.emitterDurable => synced' = receipts'
         /\ UNCHANGED config
<1>1. receipts' = receipts \/ (Emits(c) /\ receipts' = receipts \cup {ReceiptOf(c)})
  BY DEF Moves, CallerStep, TurnedAway, Checked, Judged, Spends, Emits, Stamps, Appends,
         Finishes
<1>2. /\ synced' \in {synced, receipts'}
      /\ config.emitterDurable => synced' = receipts'
      /\ UNCHANGED config
  BY DEF Moves, ReceiptsReachDisk
<1> QED
  BY <1>1, <1>2

(* The receipt of an allowed request says PERMIT, for what it presented;    *)
(* no other does.                                                           *)
LEMMA ReceiptSays ==
  ASSUME NEW r
  PROVE  /\ ReceiptOf(r).by = r
         /\ ReceiptOf(r).receipt.decision = "PERMIT" <=> Allowed(r)
         /\ ReceiptOf(r).receipt.tokenHash = tokenFingerprint(req[r].raw)
         /\ ReceiptOf(r).receipt.intentDigest = dec[r].binding
<1>1. /\ ReceiptOf(r).by = r
      /\ ReceiptOf(r).receipt = receiptFor(dec[r], tokenFingerprint(req[r].raw))
  BY DEF ReceiptOf
<1>2. ReceiptOf(r).receipt.decision = IF dec[r].class = Allow THEN "PERMIT" ELSE "DENY"
  BY <1>1 DEF receiptFor
<1>3. /\ ReceiptOf(r).receipt.tokenHash = tokenFingerprint(req[r].raw)
      /\ ReceiptOf(r).receipt.intentDigest = dec[r].binding
  BY <1>1 DEF receiptFor
<1> QED
  BY <1>1, <1>2, <1>3 DEF Allowed

(* The permit invariant is inductive. *)
LEMMA PermitMoves ==
  ASSUME BaseInv, PermitInv, NEW c \in Callers, Moves(c)
  PROVE  PermitInv'
<1>1. \A d \in Callers : Allowed(d) => Allowed(d)'
  BY AllowStep, OthersStay
<1>2. /\ receipts' = receipts \/ (Emits(c) /\ receipts' = receipts \cup {ReceiptOf(c)})
      /\ synced' \in {synced, receipts'}
  BY ReceiptsGrow
<1>3. ASSUME NEW rc \in receipts' \cup synced'
      PROVE  rc.by \in Requests /\ (rc.receipt.decision = "PERMIT" => Allowed(rc.by)')
  <2>1. CASE rc \in receipts \cup synced
    BY <1>1, <2>1, RequestsAssumption DEF PermitInv
  <2>2. CASE Emits(c) /\ rc = ReceiptOf(c)
    <3>1. rc.by = c /\ (rc.receipt.decision = "PERMIT" <=> Allowed(c))
      BY <2>2, ReceiptSays
    <3> QED
      BY <1>1, <2>2, <3>1 DEF Emits
  <2> QED
    BY <1>2, <2>1, <2>2
<1> QED
  BY <1>3 DEF PermitInv

(* A flush writes out what is there. *)
LEMMA PermitQuiet == PermitInv /\ Quiet => PermitInv'
<1> SUFFICES ASSUME PermitInv, Quiet PROVE PermitInv'
  OBVIOUS
<1>1. receipts' = receipts /\ synced' \in {synced, receipts} /\ dec' = dec
  BY DEF Quiet
<1> QED
  BY <1>1 DEF PermitInv, Allowed

(* What is read back after a crash was on disk before it. *)
LEMMA PermitCrash == PermitInv /\ CrashRestart => PermitInv'
<1> SUFFICES ASSUME PermitInv, CrashRestart PROVE PermitInv'
  OBVIOUS
<1>1. receipts' = synced /\ synced' = synced /\ dec' = dec
  BY DEF CrashRestart
<1> QED
  BY <1>1 DEF PermitInv, Allowed

(* A permit stays while the receipts grow. *)
LEMMA PermitStays ==
  ASSUME NEW r, PermitReceipted(r), receipts \subseteq receipts', req'[r] = req[r]
  PROVE  PermitReceipted(r)'
<1>1. PICK rc \in receipts :
         /\ rc.by = r
         /\ rc.receipt.decision = "PERMIT"
         /\ rc.receipt.tokenHash = tokenFingerprint(req[r].raw)
         /\ rc.receipt.intentDigest = BindingOf(r)
  BY DEF PermitReceipted
<1>2. BindingOf(r)' = BindingOf(r)
  BY DEF BindingOf, Nonce
<1> QED
  BY <1>1, <1>2 DEF PermitReceipted

(* The receipt invariant is inductive. *)
LEMMA ReceiptMoves ==
  ASSUME BaseInv, ReceiptInv, NEW c \in Callers, Moves(c)
  PROVE  ReceiptInv'
<1>1. /\ receipts \subseteq receipts' /\ UNCHANGED config
      /\ config.emitterDurable => synced' = receipts'
  BY ReceiptsGrow
<1>2. ASSUME NEW r \in Requests, Conformant, Allowed(r)', pc'[r] \in {"stamp", "append", "serve"}
      PROVE  PermitReceipted(r)'
  <2>1. CASE r # c
    <3>1. /\ Allowed(r) /\ pc[r] \in {"stamp", "append", "serve"} /\ req'[r] = req[r]
      BY <1>2, <2>1, OthersStay, RequestsAssumption
    <3>2. PermitReceipted(r)
      BY <1>2, <3>1 DEF ReceiptInv
    <3> QED
      BY <1>1, <3>1, <3>2, PermitStays
  <2>2. CASE r = c
    <3>1. Emits(c) \/ Stamps(c) \/ Appends(c)
      BY <1>2, <2>2 DEF Moves, CallerStep, TurnedAway, Checked, Judged, Spends, Finishes
    <3>2. UNCHANGED <<req, dec>>
      BY <3>1 DEF Emits, Stamps, Appends
    <3>3. Allowed(c)
      BY <1>2, <2>2, <3>2 DEF Allowed
    <3>4. CASE Emits(c)
      <4>1. pc[c] = "decided" /\ ReceiptOf(c) \in receipts'
        <5>1. pc[c] = "decided" /\ pc'[c] \in {"stamp", "done"}
          BY <3>4 DEF Emits
        <5>2. pc'[c] = "stamp"
          BY <1>2, <2>2, <5>1
        <5> QED
          BY <1>2, <3>3, <3>4, <5>1, <5>2 DEF Emits
      <4>2. dec[c].binding = BindingOf(c)
        BY <4>1 DEF BaseInv, StageInv, Stage
      <4>3. BindingOf(c)' = BindingOf(c)
        BY <3>2 DEF BindingOf, Nonce
      <4>4. /\ ReceiptOf(c).by = c /\ ReceiptOf(c).receipt.decision = "PERMIT"
            /\ ReceiptOf(c).receipt.tokenHash = tokenFingerprint(req'[c].raw)
            /\ ReceiptOf(c).receipt.intentDigest = BindingOf(c)'
        BY <3>2, <3>3, <4>2, <4>3, ReceiptSays
      <4> DEFINE rc == ReceiptOf(c)
      <4> HIDE DEF rc
      <4>5. /\ rc \in receipts' /\ rc.by = c /\ rc.receipt.decision = "PERMIT"
            /\ rc.receipt.tokenHash = tokenFingerprint(req'[c].raw)
            /\ rc.receipt.intentDigest = BindingOf(c)'
        BY <4>1, <4>4 DEF rc
      <4> QED
        BY <2>2, <4>5 DEF PermitReceipted
    <3>5. CASE Stamps(c) \/ Appends(c)
      <4>1. pc[c] \in {"stamp", "append"}
        BY <2>2, <3>5, TransportsAssumption DEF Stamps, Appends
      <4>2. PermitReceipted(c)
        BY <1>2, <2>2, <3>3, <4>1 DEF ReceiptInv
      <4> QED
        BY <1>1, <2>2, <3>2, <4>2, PermitStays
    <3> QED
      BY <3>1, <3>4, <3>5
  <2> QED
    BY <2>1, <2>2
<1>3. ASSUME NEW r \in Requests, Conformant, status'[r] = 200, config.emitterDurable
      PROVE  PermitReceipted(r)'
  <2>1. CASE status[r] = 200
    <3>1. PermitReceipted(r) /\ pc[r] = "done"
      BY <1>3, <2>1 DEF ReceiptInv, BaseInv, AnswerInv
    <3>2. req'[r] = req[r]
      BY <3>1, PastAppend, RequestsAssumption
    <3> QED
      BY <1>1, <3>1, <3>2, PermitStays
  <2>2. CASE status[r] # 200
    <3>1. r = c
      BY <1>3, <2>2, OthersStay, RequestsAssumption
    <3>2. Finishes(c)
      BY <1>3, <2>2, <3>1
         DEF Moves, CallerStep, TurnedAway, Checked, Judged, Spends, Emits, Stamps, Appends
    <3>3. pc[r] = "serve" /\ req'[r] = req[r]
      BY <1>3, <2>2, <3>1, <3>2 DEF Finishes
    <3>4. PermitReceipted(r)
      <4>1. Allowed(r)
        BY <3>3, RequestsAssumption DEF BaseInv, StageInv, Stage
      <4> QED
        BY <1>3, <3>3, <4>1 DEF ReceiptInv
    <3> QED
      BY <1>1, <3>3, <3>4, PermitStays
  <2> QED
    BY <2>1, <2>2
<1> QED
  BY <1>1, <1>2, <1>3 DEF ReceiptInv

(* So it is by the steps in which no caller moves: a Durable emitter has    *)
(* everything on disk when the process dies.                                *)
LEMMA ReceiptQuiet == ReceiptInv /\ Quiet => ReceiptInv'
<1> SUFFICES ASSUME ReceiptInv, Quiet PROVE ReceiptInv'
  OBVIOUS
<1>1. /\ UNCHANGED <<pc, req, dec, receipts, status, config>>
      /\ synced' \in {synced, receipts}
  BY DEF Quiet
<1> QED
  BY <1>1 DEF ReceiptInv, PermitReceipted, Allowed, BindingOf, Nonce

(* Likewise for a crash. *)
LEMMA ReceiptCrash == ReceiptInv /\ CrashRestart => ReceiptInv'
<1> SUFFICES ASSUME ReceiptInv, CrashRestart PROVE ReceiptInv'
  OBVIOUS
<1>1. /\ pc' = [c \in Callers |-> IF pc[c] = "idle" THEN "idle" ELSE "done"]
      /\ receipts' = synced /\ UNCHANGED <<req, dec, status, config, synced>>
  BY DEF CrashRestart
<1>2. \A r \in Requests : pc'[r] \notin {"stamp", "append", "serve"}
  BY <1>1, RequestsAssumption
<1>3. config.emitterDurable => receipts' = receipts
  BY <1>1 DEF ReceiptInv
<1>4. ASSUME NEW r \in Requests, Conformant, status[r] = 200, config.emitterDurable
      PROVE  PermitReceipted(r)'
  <2>1. PermitReceipted(r)
    BY <1>4 DEF ReceiptInv
  <2> QED
    BY <1>1, <1>3, <1>4, <2>1, PermitStays
<1> QED
  BY <1>1, <1>2, <1>4 DEF ReceiptInv

---------------------------------------------------------------------------
(* Real time. *)

(* A step of c leaves those that are gone as they were. *)
LEMMA EndedMoves ==
  ASSUME TimeInv, NEW c \in Callers, Moves(c), NEW d \in Callers, NEW x \in ended'[d]
  PROVE  /\ x \in Callers /\ pc[x] = "done" /\ pc'[x] = "done"
         /\ req'[x] = req[x] /\ dec'[x] = dec[x] /\ stamp'[x] = stamp[x]
         /\ (d # c \/ pc[c] # "idle") => x \in ended[d]
<1>1. (d # c \/ pc[c] # "idle") => ended'[d] = ended[d]
  BY OthersStay DEF Moves, History
<1>2. (d = c /\ pc[c] = "idle") => ended'[d] = {y \in Callers : pc[y] = "done"}
  BY DEF Moves, History
<1>3. x \in Callers /\ pc[x] = "done"
  BY <1>1, <1>2 DEF TimeInv
<1>4. /\ pc'[x] = "done" /\ req'[x] = req[x] /\ dec'[x] = dec[x] /\ stamp'[x] = stamp[x]
  BY <1>3, PastAppend
<1> QED
  BY <1>1, <1>3, <1>4

(* Only Stamp changes a stamp, to the time that it is. *)
LEMMA StampMoves ==
  ASSUME NEW c \in Callers, Moves(c)
  PROVE  /\ clock' = clock
         /\ stamp'[c] \in {stamp[c], clock}
         /\ pc'[c] = "append" => stamp'[c] = clock /\ pc[c] # "idle"
<1>1. clock' = clock
  BY DEF Moves, CallerStep, Only
<1> QED
  BY <1>1 DEF Moves, CallerStep, TurnedAway, Checked, Judged, Spends, Emits, Stamps,
              Appends, Finishes

(* The time invariant is inductive. *)
LEMMA TimeMoves ==
  ASSUME BaseInv, TimeInv, NEW c \in Callers, Moves(c)
  PROVE  TimeInv'
<1>1. /\ clock' = clock /\ clock \in Nat
      /\ stamp'[c] \in {stamp[c], clock}
      /\ pc'[c] = "append" => stamp'[c] = clock /\ pc[c] # "idle"
  BY StampMoves DEF BaseInv, TypesOK
<1>2. \A d \in Callers : stamp'[d] \in 0..clock'
  <2>1. ASSUME NEW d \in Callers, d # c PROVE stamp'[d] = stamp[d]
    BY <2>1, OthersStay
  <2> QED
    BY <1>1, <2>1 DEF TimeInv
<1>3. \A d \in Callers : \A x \in ended'[d] : x \in Callers /\ pc'[x] = "done"
  BY EndedMoves
<1>4. ASSUME NEW d \in Callers, pc'[d] = "append", NEW x \in ended'[d]
      PROVE  stamp'[x] <= stamp'[d]
  <2>1. x \in Callers /\ stamp'[x] = stamp[x] /\ (d # c \/ pc[c] # "idle" => x \in ended[d])
    BY EndedMoves
  <2>2. CASE d = c
    BY <1>1, <1>4, <2>1, <2>2 DEF TimeInv
  <2>3. CASE d # c
    <3>1. pc[d] = "append" /\ stamp'[d] = stamp[d]
      BY <1>4, <2>3, OthersStay
    <3> QED
      BY <2>1, <2>3, <3>1 DEF TimeInv
  <2> QED
    BY <2>2, <2>3
<1> QED
  BY <1>2, <1>3, <1>4 DEF TimeInv

(* Time goes forward only. *)
LEMMA TimeQuiet == BaseInv /\ TimeInv /\ Quiet => TimeInv'
<1> SUFFICES ASSUME BaseInv, TimeInv, Quiet PROVE TimeInv'
  OBVIOUS
<1>1. /\ clock \in Nat /\ clock' \in {clock, clock + 1} /\ UNCHANGED <<pc, stamp>>
      /\ \A c \in Callers : ended'[c] = ended[c]
  BY DEF BaseInv, TypesOK, Quiet
<1>2. \A c \in Callers : stamp'[c] \in 0..clock'
  BY <1>1 DEF TimeInv
<1>3. \A d \in Callers : \A c \in ended'[d] : c \in Callers /\ pc'[c] = "done"
  BY <1>1 DEF TimeInv
<1>4. \A d \in Callers : pc'[d] = "append" => \A c \in ended'[d] : stamp'[c] <= stamp'[d]
  BY <1>1 DEF TimeInv
<1> QED
  BY <1>2, <1>3, <1>4 DEF TimeInv

(* Who was gone before a crash is gone after it. *)
LEMMA TimeCrash == TimeInv /\ CrashRestart => TimeInv'
<1> SUFFICES ASSUME TimeInv, CrashRestart PROVE TimeInv'
  OBVIOUS
<1>1. /\ pc' = [c \in Callers |-> IF pc[c] = "idle" THEN "idle" ELSE "done"]
      /\ UNCHANGED <<clock, stamp, ended>>
  BY DEF CrashRestart
<1> QED
  BY <1>1 DEF TimeInv

(* The order of the chain is kept: a caller that appends is not gone, and   *)
(* its stamp is not earlier than that of anybody who was when it came.      *)
LEMMA OrderMoves ==
  ASSUME BaseInv, OwnerInv, TimeInv, ChainRespectsRealTime, NEW c \in Callers, Moves(c)
  PROVE  ChainRespectsRealTime'
<1>1. ASSUME NEW i \in 1..Len(entries)
      PROVE  /\ owner[i] \in Callers /\ ended'[owner[i]] = ended[owner[i]]
             /\ pc[owner[i]] \in {"serve", "deny", "done"}
             /\ entries[i].record.issuedAt = stamp[owner[i]]
  <2>1. /\ owner[i] \in Callers /\ pc[owner[i]] \in {"serve", "deny", "done"}
        /\ entries[i].record.issuedAt = stamp[owner[i]]
    BY DEF OwnerInv
  <2> QED
    BY <2>1, PastAppend
<1>2. Len(owner) = Len(entries)
  BY DEF OwnerInv
<1>3. CASE ~Appends(c)
  <2>1. entries' = entries /\ owner' = owner
    BY <1>3, OnlyAppendChangesLog
  <2> QED
    BY <1>1, <1>2, <2>1 DEF ChainRespectsRealTime
<1>4. CASE Appends(c)
  <2>1. /\ Len(entries) \in Nat
        /\ Len(entries') = Len(entries) + 1 /\ Len(owner') = Len(entries) + 1
        /\ \A i \in 1..Len(entries) : entries'[i] = entries[i] /\ owner'[i] = owner[i]
        /\ owner'[Len(entries) + 1] = c
        /\ Behind(c, entries[Len(entries)])'
    BY <1>4, AppendsEntry
  <2>2. pc[c] = "append" /\ UNCHANGED stamp
    BY <1>4 DEF Appends
  <2>3. ended'[c] = ended[c]
    BY <2>2 DEF Moves, History
  <2>4. entries'[Len(entries) + 1].record.issuedAt = stamp[c]
    BY <2>1, <2>2 DEF Behind
  <2> SUFFICES ASSUME NEW i \in 1..Len(owner'), NEW j \in 1..Len(owner'),
                      owner'[i] \in ended'[owner'[j]]
               PROVE  i < j /\ entries'[i].record.issuedAt <= entries'[j].record.issuedAt
    BY DEF ChainRespectsRealTime
  <2>5. owner'[j] \in Callers
    BY <1>1, <2>1
  <2>6. i # Len(entries) + 1
    <3>1. pc[owner'[i]] = "done"
      BY <2>5, EndedMoves
    <3> QED
      BY <2>1, <2>2, <3>1
  <2>7. i \in 1..Len(entries) /\ owner'[i] = owner[i] /\ entries'[i] = entries[i]
    BY <2>1, <2>6
  <2>8. CASE j \in 1..Len(entries)
    <3>1. owner'[j] = owner[j] /\ entries'[j] = entries[j]
      BY <2>1, <2>8
    <3>2. owner[i] \in ended[owner[j]]
      BY <1>1, <2>7, <2>8, <3>1
    <3> QED
      BY <1>2, <2>7, <2>8, <3>1, <3>2 DEF ChainRespectsRealTime
  <2>9. CASE j = Len(entries) + 1
    <3>1. owner'[j] = c /\ i < j
      BY <2>1, <2>7, <2>9
    <3>2. owner[i] \in ended[c]
      BY <2>3, <2>7, <3>1
    <3>3. stamp[owner[i]] <= stamp[c]
      BY <2>2, <3>2 DEF TimeInv
    <3>4. entries[i].record.issuedAt = stamp[owner[i]]
      BY <1>1, <2>7
    <3> QED
      BY <2>4, <2>7, <2>9, <3>1, <3>3, <3>4
  <2> QED
    BY <2>1, <2>8, <2>9
<1> QED
  BY <1>3, <1>4

(* Quiet steps keep it. *)
LEMMA OrderQuiet ==
  ASSUME OwnerInv, ChainRespectsRealTime, Quiet
  PROVE  ChainRespectsRealTime'
<1>1. /\ UNCHANGED <<entries, owner>> /\ \A c \in Callers : ended'[c] = ended[c]
      /\ Len(owner) = Len(entries) /\ \A i \in 1..Len(entries) : owner[i] \in Callers
  BY DEF Quiet, OwnerInv
<1> QED
  BY <1>1 DEF ChainRespectsRealTime

(* So does a crash: what is left of the chain is in order. *)
LEMMA OrderCrash ==
  ASSUME OwnerInv, ChainRespectsRealTime, CrashRestart
  PROVE  ChainRespectsRealTime'
<1>1. /\ Len(entries) \in Nat /\ Len(entries') \in 0..Len(entries)
      /\ Len(owner') = Len(entries')
      /\ \A i \in 1..Len(entries') : entries'[i] = entries[i] /\ owner'[i] = owner[i]
  BY CrashCutsLog
<1>2. ended' = ended /\ Len(owner) = Len(entries)
  BY DEF CrashRestart, OwnerInv
<1> SUFFICES ASSUME NEW i \in 1..Len(owner'), NEW j \in 1..Len(owner'),
                    owner'[i] \in ended'[owner'[j]]
             PROVE  i < j /\ entries'[i].record.issuedAt <= entries'[j].record.issuedAt
  BY DEF ChainRespectsRealTime
<1>3. /\ i \in 1..Len(owner) /\ j \in 1..Len(owner)
      /\ owner'[i] = owner[i] /\ owner'[j] = owner[j]
      /\ entries'[i] = entries[i] /\ entries'[j] = entries[j]
  BY <1>1, <1>2
<1> QED
  BY <1>2, <1>3 DEF ChainRespectsRealTime

---------------------------------------------------------------------------
(* Expiry. *)

(* What has expired stays expired. *)
LEMMA ExpiredStays ==
  ASSUME NEW tok, tok.expiry \in Int, clock \in Nat, clock' \in {clock, clock + 1},
         Expired(tok, clock)
  PROVE  Expired(tok, clock')
  BY DEF Expired

(* The expiry invariant is inductive. *)
LEMMA ExpiryMoves ==
  ASSUME BaseInv, TimeInv, ExpiryInv, NEW c \in Callers, Moves(c)
  PROVE  ExpiryInv'
<1>1. clock' = clock
  BY StampMoves
<1>2. Stage(c)
  BY DEF BaseInv, StageInv
<1>3. ASSUME NEW d \in Callers, dec'[d].reason = "expired"
      PROVE  req'[d].tok.expiry \in Int /\ Expired(req'[d].tok, clock)
  <2>1. CASE req'[d] = req[d] /\ dec'[d] = dec[d]
    BY <1>3, <2>1 DEF ExpiryInv
  <2>2. CASE ~(req'[d] = req[d] /\ dec'[d] = dec[d])
    <3>1. d = c
      BY <2>2, OthersStay
    <3>2. Checked(c) \/ Judged(c) \/ Spends(c)
      BY <2>2, <3>1 DEF Moves, CallerStep, TurnedAway, Emits, Stamps, Appends, Finishes
    <3>3. Checked(c)
      BY <1>3, <2>2, <3>1, <3>2 DEF Judged, Spends
    <3> QED
      BY <1>3, <3>1, <3>3 DEF Checked
  <2> QED
    BY <2>1, <2>2
<1>4. ASSUME NEW x \in Callers, NEW d \in Callers, x \in ended'[d],
             dec'[x].reason = "expired", req'[x].tok = req'[d].tok
      PROVE  ~Allowed(d)' /\ pc'[d] \notin {"policy", "spend"}
  <2>1. /\ req'[x] = req[x] /\ dec'[x] = dec[x]
        /\ (d # c \/ pc[c] # "idle") => x \in ended[d]
    BY <1>4, EndedMoves
  <2>2. CASE d # c
    <3>1. /\ pc'[d] = pc[d] /\ req'[d] = req[d] /\ (Allowed(d)' <=> Allowed(d))
      BY <2>2, OthersStay
    <3> QED
      BY <1>4, <2>1, <2>2, <3>1 DEF ExpiryInv
  <2>3. CASE d = c
    <3>1. CASE TurnedAway(c)
      BY <1>2, <2>3, <3>1, ClassesDiffer DEF TurnedAway, Stage, Allowed
    <3>2. CASE Checked(c)
      <4>1. Expired(req'[c].tok, clock)
        BY <1>4, <2>1, <2>3 DEF ExpiryInv
      <4>2. pc'[c] = "decided" /\ dec'[c].class = DenyViolation
        BY <3>2, <4>1 DEF Checked
      <4> QED
        BY <2>3, <4>2, ClassesDiffer DEF Allowed
    <3>3. CASE ~TurnedAway(c) /\ ~Checked(c)
      <4>1. pc[c] # "idle" /\ UNCHANGED req
        BY <3>3 DEF Moves, CallerStep, Judged, Spends, Emits, Stamps, Appends, Finishes
      <4>2. ~Allowed(c) /\ pc[c] \notin {"policy", "spend"}
        BY <1>4, <2>1, <2>3, <4>1 DEF ExpiryInv
      <4>3. dec' = dec /\ pc'[c] \notin {"policy", "spend"}
        BY <3>3, <4>2 DEF Moves, CallerStep, Judged, Spends, Emits, Stamps, Appends, Finishes
      <4> QED
        BY <2>3, <4>2, <4>3 DEF Allowed
    <3> QED
      BY <3>1, <3>2, <3>3
  <2> QED
    BY <2>2, <2>3
<1> QED
  BY <1>1, <1>3, <1>4 DEF ExpiryInv

(* The clock only confirms it. *)
LEMMA ExpiryQuiet ==
  ASSUME BaseInv, ExpiryInv, Quiet
  PROVE  ExpiryInv'
<1>1. /\ clock \in Nat /\ clock' \in {clock, clock + 1} /\ UNCHANGED <<pc, req, dec>>
      /\ \A c \in Callers : ended'[c] = ended[c]
  BY DEF BaseInv, TypesOK, Quiet
<1>2. ASSUME NEW c \in Callers, dec'[c].reason = "expired"
      PROVE  req'[c].tok.expiry \in Int /\ Expired(req'[c].tok, clock')
  <2>1. req[c].tok.expiry \in Int /\ Expired(req[c].tok, clock)
    BY <1>1, <1>2 DEF ExpiryInv
  <2> QED
    BY <1>1, <2>1, ExpiredStays
<1>3. ASSUME NEW c \in Callers, NEW d \in Callers, c \in ended'[d],
             dec'[c].reason = "expired", req'[c].tok = req'[d].tok
      PROVE  ~Allowed(d)' /\ pc'[d] \notin {"policy", "spend"}
  BY <1>1, <1>3 DEF ExpiryInv, Allowed
<1> QED
  BY <1>2, <1>3 DEF ExpiryInv

(* A crash changes neither tokens nor decisions. *)
LEMMA ExpiryCrash ==
  ASSUME ExpiryInv, CrashRestart
  PROVE  ExpiryInv'
<1>1. /\ pc' = [c \in Callers |-> IF pc[c] = "idle" THEN "idle" ELSE "done"]
      /\ UNCHANGED <<clock, req, dec, ended>>
  BY DEF CrashRestart
<1>2. \A c \in Callers : dec'[c].reason = "expired" =>
         req'[c].tok.expiry \in Int /\ Expired(req'[c].tok, clock')
  BY <1>1 DEF ExpiryInv
<1>3. \A c, d \in Callers :
         c \in ended'[d] /\ dec'[c].reason = "expired" /\ req'[c].tok = req'[d].tok
            => ~Allowed(d)' /\ pc'[d] \notin {"policy", "spend"}
  BY <1>1 DEF ExpiryInv, Allowed
<1> QED
  BY <1>2, <1>3 DEF ExpiryInv

---------------------------------------------------------------------------
(* The capability. *)

(* What ExactPayment lets through and ComputeBinding binds is approved: an  *)
(* amount that ParseUint accepts is the one SetString reads.                *)
LEMMA VerifiedIsApproved ==
  ASSUME NEW pr, NEW n, BindableCall(pr), ExactPaymentVerify(pr) = "ok"
  PROVE  ComputeBinding(pr, n).binding
            \in ApprovedBindings(EnforcerScheme, EnforcerNetwork, n)
<1>1. /\ pr.asset = Capability.asset /\ pr.payTo = Capability.payTo
      /\ pr.resource = Capability.resource
      /\ pr.amount.sign = "none" /\ pr.amount.digits <= Capability.maxAmount
  BY DEF ExactPaymentVerify, ParseUint
<1>2. /\ BindingError(pr) = "" /\ pr.amount.digits \in Int
      /\ pr.scheme = EnforcerScheme /\ pr.network = EnforcerNetwork
  BY DEF BindableCall
<1>3. SetString10(pr.amount).n = pr.amount.digits
  BY <1>1 DEF SetString10
<1>4. AmountInRange(SetString10(pr.amount).n)
  BY <1>2 DEF BindingError
<1>5. pr.amount.digits \in 0..Capability.maxAmount
  <2> DEFINE value == SetString10(pr.amount).n
  <2>1. value >= 0
    <3> HIDE DEF value
    <3> QED
      BY <1>4 DEF AmountInRange, value
  <2>2. pr.amount.digits >= 0
    BY <1>3, <2>1
  <2> DEFINE digits == pr.amount.digits
             limit == Capability.maxAmount
  <2>3. digits \in Int /\ digits <= limit /\ digits >= 0
    BY <1>1, <1>2, <2>2
  <2>4. limit \in Nat
    BY CapabilityAssumption
  <2> HIDE DEF digits, limit
  <2>5. digits \in 0..limit
    BY <2>3, <2>4
  <2> QED
    BY <2>5 DEF digits, limit
<1>6. ComputeBinding(pr, n).binding =
         computeBindingRaw(SchemeTag[EnforcerScheme], NetworkTag[EnforcerNetwork],
            decodePubkey32(Capability.asset).bytes, decodePubkey32(Capability.payTo).bytes,
            pr.amount.digits, Capability.resource, n)
  BY <1>1, <1>2, <1>3 DEF ComputeBinding
<1> QED
  BY <1>5, <1>6 DEF ApprovedBindings

(* The approval invariant is inductive. *)
LEMMA ApprovalMoves ==
  ASSUME BaseInv, ApprovalInv, NEW c \in Callers, Moves(c)
  PROVE  ApprovalInv'
<1> DEFINE Approved(t) ==
       /\ pc[t] \in {"policy", "spend"} => BindableCall(req[t].pr)
       /\ pc[t] = "spend" => ExactPaymentVerify(req[t].pr) = "ok"
       /\ Allowed(t) =>
             dec[t].binding \in ApprovedBindings(EnforcerScheme, EnforcerNetwork, Nonce(t))
<1> SUFFICES ASSUME NEW t \in ToolCalls PROVE Approved(t)'
  BY DEF ApprovalInv
<1>1. t \in Callers /\ t \notin Requests /\ Approved(t) /\ Stage(t)
  BY ToolCallsAssumption, TransportsAssumption DEF ApprovalInv, BaseInv, StageInv
<1>2. CASE t # c
  <2>1. /\ pc'[t] = pc[t] /\ req'[t] = req[t] /\ dec'[t] = dec[t]
        /\ Nonce(t)' = Nonce(t) /\ (Allowed(t)' <=> Allowed(t))
    BY <1>1, <1>2, OthersStay
  <2> QED
    BY <1>1, <2>1
<1>3. CASE t = c
  <2>1. CASE Checked(c)
    BY <1>1, <1>3, <2>1, ClassesDiffer DEF Checked, Allowed
  <2>2. CASE Judged(c)
    BY <1>1, <1>3, <2>2, ClassesDiffer DEF Judged, Stage, Allowed
  <2>3. CASE Spends(c)
    <3>1. /\ pc[t] = "spend" /\ pc'[t] = "decided" /\ req'[t] = req[t]
          /\ dec'[t].binding = dec[t].binding
      BY <1>3, <2>3 DEF Spends
    <3>2. dec[t].binding = ComputeBinding(req[t].pr, Nonce(t)).binding
      BY <1>1, <3>1 DEF Stage, BindingOf
    <3>3. dec[t].binding \in ApprovedBindings(EnforcerScheme, EnforcerNetwork, Nonce(t))
      BY <1>1, <3>1, <3>2, VerifiedIsApproved
    <3>4. Nonce(t)' = Nonce(t)
      BY <3>1 DEF Nonce
    <3> QED
      BY <3>1, <3>3, <3>4
  <2>4. CASE ~Checked(c) /\ ~Judged(c) /\ ~Spends(c)
    <3>1. /\ UNCHANGED <<req, dec>> /\ pc'[t] \notin {"policy", "spend"}
      BY <1>1, <1>3, <2>4
         DEF Moves, CallerStep, TurnedAway, Emits, Stamps, Appends, Finishes
    <3>2. /\ Nonce(t)' = Nonce(t) /\ (Allowed(t)' <=> Allowed(t))
      BY <3>1 DEF Nonce, Allowed
    <3> QED
      BY <1>1, <3>1, <3>2
  <2> QED
    BY <2>1, <2>2, <2>3, <2>4
<1> QED
  BY <1>2, <1>3

(* The other steps change neither requests nor decisions. *)
LEMMA ApprovalStays ==
  ASSUME ApprovalInv, Quiet \/ CrashRestart
  PROVE  ApprovalInv'
<1>1. /\ UNCHANGED <<req, dec>>
      /\ \A t \in ToolCalls : pc'[t] \in {pc[t], "idle", "done"}
  <2>1. CASE Quiet
    BY <2>1 DEF Quiet
  <2>2. CASE CrashRestart
    BY <2>2, ToolCallsAssumption DEF CrashRestart
  <2> QED
    BY <2>1, <2>2
<1> QED
  BY <1>1 DEF ApprovalInv, Allowed, Nonce

---------------------------------------------------------------------------
(* The deployment. *)

(* The inductive invariant: its parts, and the chain that Verify accepts. *)
DepInv ==
    /\ BaseInv /\ OwnerInv
    /\ SpentInv /\ AllowedOnce
    /\ PermitInv /\ ReceiptInv
    /\ TimeInv /\ ChainRespectsRealTime
    /\ ExpiryInv /\ ApprovalInv
    /\ ChainSound

(* A process that starts has decided nothing. *)
LEMMA StartUndecided ==
  ASSUME DepInit
  PROVE  /\ BaseInv
         /\ \A c \in Callers : /\ dec[c].class # Allow /\ dec[c].reason = ""
                               /\ pc[c] = "idle" /\ stamp[c] = 0
                               /\ life[c] = 0 /\ ended[c] = {}
<1>1. /\ clock = 0 /\ crashes = 0 /\ config \in Configs
      /\ pc = [c \in Callers |-> "idle"] /\ req = [c \in Callers |-> NoReq]
      /\ dec = [c \in Callers |-> Decision(Undecided, "", Zero32)]
      /\ stamp = [c \in Callers |-> 0] /\ tag = [c \in Callers |-> NoTag]
      /\ status = [r \in Requests |-> 0] /\ result = [t \in ToolCalls |-> Undecided]
      /\ life = [c \in Callers |-> 0] /\ ended = [c \in Callers |-> {}]
  BY DEF DepInit, CoreInit, PEPInit, MCPInit
<1>2. \A c \in Callers : dec[c].class = Undecided /\ dec[c].reason = ""
  BY <1>1 DEF Decision
<1>3. \A c \in Callers : /\ pc[c] = "idle" /\ tag[c] = NoTag /\ stamp[c] = 0
                         /\ life[c] = 0 /\ ended[c] = {}
  BY <1>1
<1>4. TypesOK
  BY <1>1, <1>2, <1>3 DEF TypesOK, Classes, Labels
<1>5. StageInv
  BY <1>2, <1>3 DEF StageInv, Stage
<1>6. AnswerInv
  <2>1. (\A r \in Requests : status[r] = 0) /\ (\A t \in ToolCalls : result[t] = Undecided)
    BY <1>1
  <2> QED
    BY <2>1 DEF AnswerInv, Allowed
<1>7. \A c \in Callers : dec[c].class # Allow
  BY <1>2, ClassesDiffer
<1> QED
  BY <1>2, <1>3, <1>4, <1>5, <1>6, <1>7 DEF BaseInv

(* The invariant holds at the start. *)
LEMMA DepStart == DepInit => DepInv
<1> SUFFICES ASSUME DepInit PROVE DepInv
  OBVIOUS
<1>1. /\ BaseInv
      /\ \A c \in Callers : /\ dec[c].class # Allow /\ dec[c].reason = ""
                            /\ pc[c] = "idle" /\ stamp[c] = 0
                            /\ life[c] = 0 /\ ended[c] = {}
  BY StartUndecided
<1>2. /\ clock = 0 /\ crashes = 0 /\ receipts = {} /\ synced = {}
      /\ entries = <<>> /\ owner = <<>>
      /\ \A r \in Requests : r \in Callers /\ status[r] = 0
  BY RequestsAssumption DEF DepInit, CoreInit, PEPInit
<1>3. OwnerInv
  BY <1>2 DEF OwnerInv
<1>4. SpentInv /\ AllowedOnce
  <2>1. \A c \in Callers : life[c] \in 0..crashes
    <3>1. crashes = 0 /\ \A c \in Callers : life[c] = 0
      BY <1>1, <1>2
    <3> QED
      BY <3>1
  <2>2. \A c \in Callers : ~Allowed(c)
    BY <1>1 DEF Allowed
  <2> QED
    BY <2>1, <2>2 DEF SpentInv, AllowedOnce
<1>5. PermitInv /\ ReceiptInv
  <2>1. PermitInv
    BY <1>2 DEF PermitInv
  <2>2. ReceiptInv
    <3>1. synced = receipts /\ \A r \in Requests : pc[r] = "idle" /\ status[r] = 0
      BY <1>1, <1>2
    <3> QED
      BY <3>1 DEF ReceiptInv
  <2> QED
    BY <2>1, <2>2
<1>6. TimeInv /\ ChainRespectsRealTime
  <2>1. TimeInv
    <3>1. /\ clock = 0
          /\ \A c \in Callers : pc[c] = "idle" /\ stamp[c] = 0 /\ ended[c] = {}
      BY <1>1, <1>2
    <3> QED
      BY <3>1 DEF TimeInv
  <2>2. Len(owner) = 0
    BY <1>2
  <2>3. ChainRespectsRealTime
    BY <2>2 DEF ChainRespectsRealTime
  <2> QED
    BY <2>1, <2>3
<1>7. ExpiryInv
  BY <1>1 DEF ExpiryInv, Allowed
<1>8. ApprovalInv
  BY <1>1, ToolCallsAssumption DEF ApprovalInv, Allowed
<1>9. ChainSound
  BY <1>2 DEF ChainSound, LogVerify
<1> QED
  BY <1>1, <1>3, <1>4, <1>5, <1>6, <1>7, <1>8, <1>9 DEF DepInv

(* A step of a caller extends the chain or leaves it; a crash cuts it. *)
LEMMA ChainMoves ==
  ASSUME BaseInv, OwnerInv, ChainSound, NEW c \in Callers, Moves(c)
  PROVE  ChainSound'
<1>1. CASE Appends(c)
  BY <1>1, AppendsEntry DEF ChainSound
<1>2. CASE ~Appends(c)
  BY <1>2, OnlyAppendChangesLog DEF ChainSound
<1> QED
  BY <1>1, <1>2

(* What is left after a crash still verifies. *)
LEMMA ChainCrash ==
  ASSUME OwnerInv, ChainSound, CrashRestart
  PROVE  ChainSound'
<1>1. Len(entries') \in 0..Len(entries) /\ entries' = SubSeq(entries, 1, Len(entries'))
  BY CrashCutsLog
<1>2. LogVerify(LogPub, entries')
  BY <1>1, PrefixVerifies DEF ChainSound, OwnerInv
<1> QED
  BY <1>2 DEF ChainSound

(* The invariant is inductive. *)
LEMMA DepInductive == DepInv /\ [DepNext]_allVars => DepInv'
<1> SUFFICES ASSUME DepInv, [DepNext]_allVars PROVE DepInv'
  OBVIOUS
<1>1. /\ BaseInv /\ OwnerInv /\ SpentInv /\ AllowedOnce /\ PermitInv /\ ReceiptInv
      /\ TimeInv /\ ChainRespectsRealTime /\ ExpiryInv /\ ApprovalInv /\ ChainSound
  BY DEF DepInv
<1>2. entries \in Seq(Range(entries))
  BY <1>1 DEF OwnerInv
<1>3. ASSUME NEW c \in Callers, Moves(c) PROVE DepInv'
  <2>1. BaseInv' /\ OwnerInv' /\ SpentInv' /\ AllowedOnce'
    BY <1>1, <1>3, BaseInvMoves, OwnerInvMoves, SpentMoves
  <2>2. PermitInv' /\ ReceiptInv'
    BY <1>1, <1>3, PermitMoves, ReceiptMoves
  <2>3. TimeInv' /\ ChainRespectsRealTime'
    BY <1>1, <1>3, TimeMoves, OrderMoves
  <2>4. ExpiryInv' /\ ApprovalInv' /\ ChainSound'
    BY <1>1, <1>3, ExpiryMoves, ApprovalMoves, ChainMoves
  <2> QED
    BY <2>1, <2>2, <2>3, <2>4 DEF DepInv
<1>4. CASE Quiet
  <2>1. BaseInv' /\ OwnerInv' /\ SpentInv' /\ AllowedOnce'
    BY <1>1, <1>4, BaseInvQuiet, OwnerInvQuiet, SpentQuiet
  <2>2. PermitInv' /\ ReceiptInv'
    BY <1>1, <1>4, PermitQuiet, ReceiptQuiet
  <2>3. TimeInv' /\ ChainRespectsRealTime'
    BY <1>1, <1>4, TimeQuiet, OrderQuiet
  <2>4. ExpiryInv' /\ ApprovalInv'
    BY <1>1, <1>4, ExpiryQuiet, ApprovalStays
  <2>5. ChainSound'
    BY <1>1, <1>4 DEF Quiet, ChainSound
  <2> QED
    BY <2>1, <2>2, <2>3, <2>4, <2>5 DEF DepInv
<1>5. CASE CrashRestart
  <2>1. BaseInv' /\ OwnerInv' /\ SpentInv' /\ AllowedOnce'
    BY <1>1, <1>5, BaseInvCrash, OwnerInvCrash, SpentCrash
  <2>2. PermitInv' /\ ReceiptInv'
    BY <1>1, <1>5, PermitCrash, ReceiptCrash
  <2>3. TimeInv' /\ ChainRespectsRealTime'
    BY <1>1, <1>5, TimeCrash, OrderCrash
  <2>4. ExpiryInv' /\ ApprovalInv' /\ ChainSound'
    BY <1>1, <1>5, ExpiryCrash, ApprovalStays, ChainCrash
  <2> QED
    BY <2>1, <2>2, <2>3, <2>4 DEF DepInv
<1> QED
  BY <1>1, <1>2, <1>3, <1>4, <1>5, StepCases

(* It holds in every state of the deployment. *)
LEMMA DepAlways == DepSpec => []DepInv
  BY DepStart, DepInductive, PTL DEF DepSpec

---------------------------------------------------------------------------
(* The theorems. *)

(* One authorization is served once, through whichever transport and after  *)
(* any number of crashes; without a durable spend log, once in the life of  *)
(* a process.                                                               *)
THEOREM ServedAtMostOnce == DepSpec => []ServedOnce
<1>1. DepInv => ServedOnce
  <2> SUFFICES ASSUME DepInv PROVE ServedOnce
    OBVIOUS
  <2>1. \A c \in Callers : Obtained(c) => Allowed(c)
    BY ClassesDiffer DEF DepInv, BaseInv, AnswerInv, Obtained, Allowed
  <2> QED
    BY <2>1 DEF DepInv, AllowedOnce, ServedOnce
<1> QED
  BY <1>1, DepAlways, PTL

(* Every PERMIT receipt the emitter still has names a nonce that the spend  *)
(* log still refuses.                                                       *)
THEOREM ReceiptedNonceIsDead == DepSpec => []PermitMeansSpent
<1>1. DepInv => PermitMeansSpent
  <2> SUFFICES ASSUME DepInv, NEW rc \in receipts, rc.receipt.decision = "PERMIT",
                      config.spendDurable \/ life[rc.by] = crashes
               PROVE  Nonce(rc.by) \in spent
    BY DEF PermitMeansSpent
  <2>1. rc.by \in Callers /\ Allowed(rc.by)
    BY RequestsAssumption DEF DepInv, PermitInv
  <2> QED
    BY <2>1 DEF DepInv, SpentInv
<1> QED
  BY <1>1, DepAlways, PTL

(* What a tool call is allowed on is inside the capability, as the binding  *)
(* that is signed says it.                                                  *)
THEOREM AllowedStaysApproved == DepSpec => []AllowedIsApproved
<1>1. DepInv => AllowedIsApproved
  BY DEF DepInv, ApprovalInv, AllowedIsApproved
<1> QED
  BY <1>1, DepAlways, PTL

(* Every entry of the chain is the decision of the caller behind it. *)
THEOREM ChainSaysWhatWasDecided == DepSpec => []EntryIsDecision
<1>1. DepInv => EntryIsDecision
  BY DEF DepInv, OwnerInv, EntryIsDecision
<1> QED
  BY <1>1, DepAlways, PTL

(* With a Durable emitter a served request keeps its receipt. *)
THEOREM ReceiptSurvives == DepSpec => []ServedKeepsReceipt
<1>1. DepInv => ServedKeepsReceipt
  BY DEF DepInv, ReceiptInv, ServedKeepsReceipt
<1> QED
  BY <1>1, DepAlways, PTL

(* The chain's order and times agree with those of callers that did not     *)
(* overlap.                                                                 *)
THEOREM ChainIsHistory == DepSpec => []ChainRespectsRealTime
<1>1. DepInv => ChainRespectsRealTime
  BY DEF DepInv
<1> QED
  BY <1>1, DepAlways, PTL

(* Nobody who comes later is allowed on a token that was refused as         *)
(* expired.                                                                 *)
THEOREM ExpiredStaysRefused == DepSpec => []ExpiryIsFinal
<1>1. DepInv => ExpiryIsFinal
  BY DEF DepInv, ExpiryInv, ExpiryIsFinal
<1> QED
  BY <1>1, DepAlways, PTL

---------------------------------------------------------------------------
(* LossyLog's Verify is the log's. *)
LEMMA LossyVerify == ASSUME NEW es PROVE Lossy!LogVerify(LogPub, es) <=> LogVerify(LogPub, es)
<1>1. \A r : Lossy!CanonicalBytes(r) = CanonicalBytes(r)
  BY DEF CanonicalBytes, DomainTagLogEntry, RecordLayoutVersion, Lossy!CanonicalBytes,
         Lossy!DomainTagLogEntry, Lossy!RecordLayoutVersion
<1>2. \A n : Lossy!TailHash(es, n) = TailHash(es, n)
  BY <1>1 DEF TailHash, Hash, Sha256, Zero32, Lossy!TailHash, Lossy!Hash, Lossy!Sha256,
              Lossy!Zero32
<1>3. \A r, sig : Lossy!Verify(LogPub, r, sig) <=> Verify(LogPub, r, sig)
  BY <1>1 DEF Verify, Ed25519Verify, Ed25519Sign, Lossy!Verify, Lossy!Ed25519Verify,
              Lossy!Ed25519Sign
<1> QED
  BY <1>2, <1>3 DEF LogVerify, Lossy!LogVerify

(* What a step of the deployment is to LossyLog. *)
LEMMA DepStepIsLossy ==
  ASSUME DepInv, DepInv', [DepNext]_allVars
  PROVE  Lossy!Extend \/ Lossy!Restart \/ UNCHANGED entries
<1>1. BaseInv /\ OwnerInv /\ entries \in Seq(Range(entries))
  BY DEF DepInv, OwnerInv
<1>2. ASSUME NEW c \in Callers, Moves(c)
      PROVE  Lossy!Extend \/ UNCHANGED entries
  <2>1. CASE Appends(c)
    <3>1. /\ Len(entries') = Len(entries) + 1
          /\ SubSeq(entries', 1, Len(entries)) = entries
      BY <1>1, <1>2, <2>1, AppendsEntry
    <3>2. Lossy!LogVerify(LogPub, entries')
      BY LossyVerify DEF DepInv, ChainSound
    <3> QED
      BY <3>1, <3>2 DEF Lossy!Extend
  <2>2. CASE ~Appends(c)
    BY <1>2, <2>2, OnlyAppendChangesLog
  <2> QED
    BY <2>1, <2>2
<1>3. CASE CrashRestart
  <2>1. Len(entries') \in 0..Len(entries) /\ entries' = SubSeq(entries, 1, Len(entries'))
    BY <1>1, <1>3, CrashCutsLog
  <2> QED
    BY <2>1 DEF Lossy!Restart
<1>4. CASE Quiet
  BY <1>4 DEF Quiet
<1> QED
  BY <1>1, <1>2, <1>3, <1>4, StepCases

(* Both transports with their crashes implement LossyLog: the shared log    *)
(* only gains one entry that continues the chain, or loses its end.         *)
THEOREM DeploymentRefinesLossyLog == DepSpec => ImplementsLossyLog
<1>1. DepInit => Lossy!LossyInit
  BY DEF DepInit, CoreInit, Lossy!LossyInit
<1>2. DepInv /\ DepInv' /\ [DepNext]_allVars => [Lossy!Extend \/ Lossy!Restart]_entries
  BY DepStepIsLossy
<1> QED
  BY <1>1, <1>2, DepAlways, PTL DEF DepSpec, ImplementsLossyLog, Lossy!LossySpec
===============================================================================
