--------------------------------- MODULE PEP ---------------------------------
(***************************************************************************)
(* gateway/pep.go and evidence/evidence.go: the HTTP enforcement point.    *)
(* Every request runs Wrap's handler on its own goroutine: parse the       *)
(* token, evaluate the gate, then record the evidence and answer.  An      *)
(* ALLOW is served only after Emit and Append have both succeeded; a DENY  *)
(* is answered whatever became of its evidence.  Requests may go through   *)
(* several PEPs, one per protected handler, that share the spend log, the  *)
(* emitter and the transparency log.                                       *)
(***************************************************************************)
EXTENDS EnforcementCore

CONSTANTS
    Requests,       \* the callers that are HTTP requests
    HttpInputs,     \* what a request can carry: [header, pr]
    PepName,        \* PEP.Name
    PepKey,         \* the key pair of PEP.RKey, for the PEP each request goes through
    EmitterIsNoop,  \* Evidence is evidence.None{}
    EmitOutcomes,   \* what Emit can return: a subset of {"ok", "error"}
    PolicyOutcomes  \* what Policy.Verify can return

ASSUME RequestsAssumption == Requests \subseteq Callers
ASSUME EmitAssumption ==
    /\ EmitterIsNoop \in BOOLEAN
    /\ EmitOutcomes \subseteq {"ok", "error"}
    /\ EmitterIsNoop => EmitOutcomes = {"ok"}
ASSUME PolicyAssumption == PolicyOutcomes \subseteq {"ok", "violation", "unavailable"}

VARIABLES
    receipts, \* the emitter's durable store: [by, receipt]
    status    \* the HTTP status of the response, 0 before there is one

pepVars == <<receipts, status>>

vars == <<coreVars, pepVars>>

PEPInit ==
    /\ receipts = {}
    /\ status = [r \in Requests |-> 0]

(* NewPEP records whether the emitter is the explicit no-op. *)
Conformant == ~EmitterIsNoop

---------------------------------------------------------------------------
(* A header is [json, nonceLen, nonce, expiry]: whether base64 and JSON     *)
(* decode, the number of bytes the nonce's hex decodes to (0 if it does     *)
(* not), the nonce, and the expiry in Unix seconds (0 if the field is       *)
(* absent).                                                                 *)
parseToken(h) ==
    [ok  |-> h.json /\ h.nonceLen = 32,
     tok |-> [nonce |-> h.nonce, expiry |-> h.expiry]]

(* The header a client makes of a token; expiry.Unix() of "no expiry" is    *)
(* ZeroTime, not 0.                                                         *)
EncodeToken(nonce, expiry) ==
    [json |-> TRUE, nonceLen |-> 32, nonce |-> nonce, expiry |-> expiry]

tokenFingerprint(h) == Sha256(h)

(* Decision class to the draft's receipt vocabulary. *)
receiptFor(d, tokenHash) ==
    [pep          |-> PepName,
     decision     |-> IF d.class = Allow THEN "PERMIT" ELSE "DENY",
     class        |-> CASE d.class = Allow -> "ok"
                        [] d.class = DenyUnavailable -> "unavailable"
                        [] d.class = DenyViolation -> "violation",
     rulePath     |-> d.reason,
     tokenHash    |-> tokenHash,
     intentDigest |-> d.binding]

(* Mutation of mapDecision: every denial is filed as a violation. *)
mapDecisionCollapsed(class) ==
    IF class = Allow THEN LogAllow ELSE LogDenyViolation

mapDecision(class) ==
    CASE class = Allow -> LogAllow
      [] class = DenyViolation -> LogDenyViolation
      [] class = DenyUnavailable -> LogDenyUnavailable

(* What a request carrying in presents to the gate. *)
Presentation(in) ==
    [pr |-> in.pr, tok |-> parseToken(in.header).tok, raw |-> in.header]

Presentations == {Presentation(in) : in \in {i \in HttpInputs : parseToken(i.header).ok}}

ASSUME PresentationAssumption ==
    \A p \in Presentations :
        /\ p # NoReq /\ p.tok.nonce \in Nonces /\ p.tok.expiry \in Int
        /\ p.pr.asset \in Base58Text /\ p.pr.payTo \in Base58Text
        /\ p.pr.amount.digits \in Int

ReceiptOf(r) ==
    [by |-> r, receipt |-> receiptFor(dec[r], tokenFingerprint(req[r].raw))]

---------------------------------------------------------------------------
(* The handler *)

Respond(r, code) ==
    /\ status' = [status EXCEPT ![r] = code]
    /\ pc' = [pc EXCEPT ![r] = "done"]

Goto(r, label) == pc' = [pc EXCEPT ![r] = label] /\ UNCHANGED status

(* No parseable token: refused, and nothing is recorded. *)
Refuse(r) ==
    /\ pc[r] = "idle"
    /\ \E in \in HttpInputs : ~parseToken(in.header).ok
    /\ Respond(r, 401)
    /\ UNCHANGED <<clock, req, dec, spent, stamp, entries, tag, receipts>>

Receive(r) ==
    /\ \E in \in HttpInputs :
          /\ parseToken(in.header).ok
          /\ Check(r, in.pr, parseToken(in.header).tok, in.header)
    /\ UNCHANGED pepVars

AskPolicy(r) ==
    /\ \E verdict \in PolicyOutcomes : Policy(r, verdict)
    /\ UNCHANGED pepVars

SpendNonce(r) == Spend(r) /\ UNCHANGED pepVars

(* Evidence.Emit succeeded; the no-op emitter keeps nothing. *)
EmitOK(r) ==
    /\ pc[r] = "decided"
    /\ "ok" \in EmitOutcomes
    /\ receipts' = IF EmitterIsNoop THEN receipts ELSE receipts \cup {ReceiptOf(r)}
    /\ Goto(r, "stamp")
    /\ UNCHANGED <<clock, req, dec, spent, stamp, entries, tag>>

(* Mutations of EmitFails: the error is dropped; it turns a DENY into 503.  *)
EmitFailsDropped(r) ==
    /\ pc[r] = "decided"
    /\ "error" \in EmitOutcomes
    /\ Goto(r, "stamp")
    /\ UNCHANGED <<clock, req, dec, spent, stamp, entries, tag, receipts>>

EmitFailsAlways503(r) ==
    /\ pc[r] = "decided"
    /\ "error" \in EmitOutcomes
    /\ Respond(r, 503)
    /\ UNCHANGED <<clock, req, dec, spent, stamp, entries, tag, receipts>>

(* Evidence.Emit failed: 503 for an ALLOW, an alarm for a DENY. *)
EmitFails(r) ==
    /\ pc[r] = "decided"
    /\ "error" \in EmitOutcomes
    /\ IF Allowed(r) THEN Respond(r, 503) ELSE Goto(r, "stamp")
    /\ UNCHANGED <<clock, req, dec, spent, stamp, entries, tag, receipts>>

StampEntry(r) == Stamp(r, "stamp") /\ UNCHANGED pepVars

(* Log.Append succeeded. *)
Chain(r) ==
    /\ AppendOK(r, PepKey[r], mapDecision(dec[r].class))
    /\ Goto(r, IF Allowed(r) THEN "serve" ELSE "deny")
    /\ UNCHANGED receipts

(* Log.Append failed: 503 for an ALLOW, an alarm for a DENY. *)
ChainFails(r) ==
    /\ AppendFails(r, PepKey[r], mapDecision(dec[r].class))
    /\ IF Allowed(r) THEN Respond(r, 503) ELSE Goto(r, "deny")
    /\ UNCHANGED receipts

(* next.ServeHTTP, with the entry's tag in the response header. *)
Serve(r) ==
    /\ pc[r] = "serve"
    /\ Respond(r, 200)
    /\ UNCHANGED <<clock, req, dec, spent, stamp, entries, tag, receipts>>

(* Mutations of Deny: a status the protocol does not use; an outage is left *)
(* unanswered.                                                              *)
DenyForbidden(r) ==
    /\ pc[r] = "deny"
    /\ Respond(r, IF dec[r].class = DenyUnavailable THEN 503 ELSE 403)
    /\ UNCHANGED <<clock, req, dec, spent, stamp, entries, tag, receipts>>

DenyViolationsOnly(r) ==
    /\ pc[r] = "deny" /\ dec[r].class = DenyViolation
    /\ Respond(r, 402)
    /\ UNCHANGED <<clock, req, dec, spent, stamp, entries, tag, receipts>>

(* 503 for an outage, 402 for a violation. *)
Deny(r) ==
    /\ pc[r] = "deny"
    /\ Respond(r, IF dec[r].class = DenyUnavailable THEN 503 ELSE 402)
    /\ UNCHANGED <<clock, req, dec, spent, stamp, entries, tag, receipts>>

(* The steps of a request once it has been received. *)
Continue(r) ==
    \/ AskPolicy(r) \/ SpendNonce(r)
    \/ EmitOK(r) \/ EmitFails(r)
    \/ StampEntry(r) \/ Chain(r) \/ ChainFails(r)
    \/ Serve(r) \/ Deny(r)

PEPNext == \E r \in Requests : Refuse(r) \/ Receive(r) \/ Continue(r)

Init == CoreInit /\ PEPInit

Next == PEPNext \/ (Tick /\ UNCHANGED pepVars)

Spec == Init /\ [][Next]_vars

(* The Go scheduler runs every goroutine, and the policy, the spend log and *)
(* the emitter return.                                                      *)
FairSpec == Spec /\ \A r \in Requests : WF_vars(Continue(r))

---------------------------------------------------------------------------
(* Correctness *)

Labels == {"idle", "policy", "spend", "decided", "stamp", "append",
           "serve", "deny", "done"}

Reasons == {"", "binding", "expired", "policy", "policy unavailable", "replay",
            "spend-log unavailable", "allow"}

Bindings ==
    {Zero32} \cup {ComputeBinding(p.pr, p.tok.nonce).binding : p \in Presentations}

Decisions ==
    [class : {Undecided, Allow, DenyViolation, DenyUnavailable},
     reason : Reasons, binding : Bindings]

(* Every variable has its type: in particular a decision carries the        *)
(* binding of something a request can present, or none.                     *)
TypeOK ==
    /\ clock \in 0..MaxClock
    /\ pc \in [Callers -> Labels]
    /\ req \in [Callers -> {NoReq} \cup Presentations]
    /\ dec \in [Callers -> Decisions]
    /\ spent \subseteq Nonces
    /\ stamp \in [Callers -> 0..MaxClock]
    /\ entries \in Seq(Range(entries))
    /\ DOMAIN tag = Callers
    /\ \A rc \in receipts : rc.by \in Requests
    /\ status \in [Requests -> {0, 200, 401, 402, 503}]

(* The binding of the payment the request is about. *)
BindingOf(r) == ComputeBinding(req[r].pr, Nonce(r)).binding

EntryOf(r, e) == tag[r] = EntryTag(e)

(* The emitter keeps a PERMIT receipt for what the request presented. *)
PermitReceipted(r) ==
    \E rc \in receipts :
        /\ rc.by = r
        /\ rc.receipt.decision = "PERMIT"
        /\ rc.receipt.tokenHash = tokenFingerprint(req[r].raw)
        /\ rc.receipt.intentDigest = BindingOf(r)

(* The chain has an ALLOW entry under the locator the request was given. *)
AllowChained(r) ==
    \E i \in 1..Len(entries) :
        /\ EntryOf(r, entries[i])
        /\ entries[i].record.decision = LogAllow
        /\ entries[i].record.binding = BindingOf(r)

(* The resource is served only when both artifacts are recorded: a PERMIT   *)
(* receipt for the presented token, and an ALLOW entry that the locator in  *)
(* the response header names, both carrying the binding of this payment.    *)
ServedHasEvidence ==
    \A r \in Requests : status[r] = 200 =>
        (Conformant => PermitReceipted(r)) /\ AllowChained(r)

(* The payment digests under which request r appears in the evidence. *)
EvidenceDigests(r) ==
    {rc.receipt.intentDigest : rc \in {x \in receipts : x.by = r}}
        \cup {e.record.binding : e \in {x \in Range(entries) : EntryOf(r, x)}}

(* "evidence is always tied to the exact payment considered" (gate.go), as  *)
(* far as it goes: two requests whose receipts or entries share a digest    *)
(* were about the same payment under the same nonce, or both carried a      *)
(* payment that does not bind, and then neither was allowed.                *)
EvidenceTiedToPayment ==
    \A q, r \in Requests : EvidenceDigests(q) \cap EvidenceDigests(r) # {} =>
        \/ PaymentMeaning(req[q].pr, Nonce(q)) = PaymentMeaning(req[r].pr, Nonce(r))
        \/ /\ BindingError(req[q].pr) # "" /\ BindingError(req[r].pr) # ""
           /\ ~Allowed(q) /\ ~Allowed(r)

(* The statuses a request may still get once its chain entry carries label. *)
AnswerOf(label) ==
    CASE label = LogAllow -> 200
      [] label = LogDenyViolation -> 402
      [] label = LogDenyUnavailable -> 503

(* Every entry of the chain belongs to exactly one request, and its label   *)
(* is the answer that request got or is about to get: no signed ALLOW for a *)
(* request answered 503, no outage filed as a violation.                    *)
AuditMatchesAnswer ==
    \A i \in 1..Len(entries) : \E r \in Requests :
        /\ EntryOf(r, entries[i])
        /\ \A q \in Requests \ {r} : ~EntryOf(q, entries[i])
        /\ \/ status[r] = AnswerOf(entries[i].record.decision)
           \/ status[r] = 0 /\ pc[r] = IF entries[i].record.decision = LogAllow
                                       THEN "serve" ELSE "deny"

(* Every request that was received is answered, whatever the policy, the    *)
(* spend log, the emitter and the log return.                               *)
Answered ==
    \A r \in Requests : (pc[r] # "idle") ~> (status[r] # 0)

(* A violation is answered 402 even while no evidence can be recorded: a    *)
(* denial is never turned into, or held up by, an evidence failure.         *)
DenialSurvivesEvidenceOutage ==
    \A r \in Requests : (dec[r].class = DenyViolation) ~> (status[r] = 402)
=============================================================================
