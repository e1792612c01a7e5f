------------------------------ MODULE PEPProofs ------------------------------
(***************************************************************************)
(* The HTTP enforcement point, for any number of concurrent requests, any  *)
(* payments and tokens, any keys, and whatever the policy, the spend log   *)
(* and the emitter return.                                                 *)
(***************************************************************************)
EXTENDS PEPAuthz, Lemmas

(* How far a caller has come, and what it then knows: it has presented      *)
(* something and its decision is open until Evaluate returns; once there is *)
(* a decision it is one of the three classes, and "allow" is the reason of  *)
(* an ALLOW and of nothing else.                                            *)
Phase(c) ==
    /\ pc[c] \notin {"idle", "done"} => req[c] \in Presentations
    /\ pc[c] \in {"idle", "policy", "spend"} =>
          dec[c].class = Undecided /\ dec[c].reason = ""
    /\ pc[c] \in {"decided", "stamp", "append", "serve", "deny"} =>
          dec[c].class # Undecided
    /\ dec[c].class # Undecided => req[c] \in Presentations
    /\ dec[c].class = Allow <=> dec[c].reason = "allow"

PhaseInv == \A c \in Callers : Phase(c)

(* The core of the inductive invariant. *)
CoreInv == TypeOK /\ PhaseInv

(* The decision classes are different values. *)
LEMMA ClassesDiffer ==
  /\ Undecided \notin {Allow, DenyViolation, DenyUnavailable}
  /\ Allow \notin {DenyViolation, DenyUnavailable}
  /\ DenyViolation # DenyUnavailable
  BY DEF Undecided, Allow, DenyViolation, DenyUnavailable

(* What Receive stores is a presentation, and its binding is in the type. *)
LEMMA PresentationFacts ==
  ASSUME NEW in \in HttpInputs, parseToken(in.header).ok
  PROVE  LET tok == parseToken(in.header).tok
             p   == [pr |-> in.pr, tok |-> tok, raw |-> in.header]
         IN  /\ p \in Presentations
             /\ p # NoReq
             /\ tok.nonce \in Nonces
             /\ ComputeBinding(in.pr, tok.nonce).binding \in Bindings
<1> DEFINE tok == parseToken(in.header).tok
           p == [pr |-> in.pr, tok |-> tok, raw |-> in.header]
<1>1. p \in Presentations
  BY DEF Presentations, Presentation
<1>2. p.pr = in.pr /\ p.tok = tok
  OBVIOUS
<1> HIDE DEF p
<1>3. p # NoReq /\ p.tok.nonce \in Nonces
  BY <1>1, PresentationAssumption
<1>4. ComputeBinding(p.pr, p.tok.nonce).binding \in Bindings
  BY <1>1 DEF Bindings
<1> QED
  BY <1>1, <1>2, <1>3, <1>4 DEF p

(* It holds initially. *)
LEMMA CoreInvInit == Init => CoreInv
<1> SUFFICES ASSUME Init PROVE CoreInv
  OBVIOUS
<1>1. dec \in [Callers -> Decisions]
  BY DEF Init, CoreInit, Decisions, Decision, Bindings, Reasons
<1>2. entries = <<>>
  BY DEF Init, CoreInit
<1>3. entries \in Seq(Range(entries))
  BY <1>2
<1>4. /\ clock = 0 /\ spent = {} /\ DOMAIN tag = Callers
      /\ pc \in [Callers -> {"idle"}]
      /\ req \in [Callers -> {NoReq}]
      /\ stamp \in [Callers -> {0}]
  BY DEF Init, CoreInit
<1>5. receipts = {} /\ status \in [Requests -> {0}]
  BY DEF Init, PEPInit
<1>6. TypeOK
  BY <1>1, <1>3, <1>4, <1>5, ClockAssumption DEF TypeOK, Labels
<1>7. \A c \in Callers : dec[c].class = Undecided /\ dec[c].reason = ""
  BY DEF Init, CoreInit, Decision
<1>8. PhaseInv
  BY <1>4, <1>7, ClassesDiffer DEF PhaseInv, Phase
<1> QED
  BY <1>6, <1>8 DEF CoreInv

(* A step of one request leaves the others where they are. *)
LEMMA OthersKeepPhase ==
  ASSUME CoreInv, NEW r \in Requests,
         \A c \in Callers \ {r} : pc'[c] = pc[c] /\ req'[c] = req[c] /\ dec'[c] = dec[c],
         Phase(r)'
  PROVE  PhaseInv'
<1> SUFFICES ASSUME NEW c \in Callers PROVE Phase(c)'
  BY DEF PhaseInv
<1>1. CASE c = r
  BY <1>1
<1>2. CASE c # r
  <2>1. pc'[c] = pc[c] /\ req'[c] = req[c] /\ dec'[c] = dec[c] /\ Phase(c)
    BY <1>2 DEF CoreInv, PhaseInv
  <2> QED
    BY <2>1 DEF Phase
<1> QED
  BY <1>1, <1>2

(* A step of a request that changes neither its presentation nor its        *)
(* decision, and takes it on between two labels after Evaluate.             *)
LEMMA AfterDecision ==
  ASSUME CoreInv, NEW r \in Requests,
         UNCHANGED <<req, dec>>,
         pc[r] \in {"decided", "stamp", "append", "serve", "deny"},
         NEW label \in {"stamp", "append", "serve", "deny", "done"},
         pc' = [pc EXCEPT ![r] = label]
  PROVE  PhaseInv' /\ pc' \in [Callers -> Labels]
<1>1. r \in Callers /\ pc \in [Callers -> Labels] /\ Phase(r)
  BY RequestsAssumption DEF CoreInv, TypeOK, PhaseInv
<1>2. pc'[r] = label /\ \A c \in Callers \ {r} : pc'[c] = pc[c]
  BY <1>1
<1>3. Phase(r)'
  BY <1>1, <1>2 DEF Phase
<1>4. PhaseInv'
  BY <1>2, <1>3, OthersKeepPhase
<1> QED
  BY <1>1, <1>4 DEF Labels

(* The step that ends Evaluate with a decision. *)
LEMMA DecideStep ==
  ASSUME CoreInv, NEW r \in Requests, pc[r] \in {"policy", "spend"},
         NEW class \in {Allow, DenyViolation, DenyUnavailable}, NEW reason \in Reasons,
         class = Allow <=> reason = "allow",
         Decide(r, class, reason), UNCHANGED req
  PROVE  /\ PhaseInv' /\ pc' \in [Callers -> Labels] /\ dec' \in [Callers -> Decisions]
         /\ dec'[r].class = class /\ dec'[r].reason = reason
         /\ dec'[r].binding = dec[r].binding /\ pc'[r] = "decided"
         /\ \A c \in Callers \ {r} : dec'[c] = dec[c] /\ pc'[c] = pc[c]
<1>1. /\ r \in Callers /\ Phase(r) /\ pc \in [Callers -> Labels]
      /\ dec \in [Callers -> Decisions] /\ dec[r] \in Decisions
  BY RequestsAssumption DEF CoreInv, TypeOK, PhaseInv
<1>2. Decision(class, reason, dec[r].binding) \in Decisions
  BY <1>1 DEF Decisions, Decision
<1>3. dec' = [dec EXCEPT ![r] = Decision(class, reason, dec[r].binding)]
  BY DEF Decide
<1>4. dec' \in [Callers -> Decisions]
  BY <1>1, <1>2, <1>3
<1>5. /\ dec'[r].class = class /\ dec'[r].reason = reason
      /\ dec'[r].binding = dec[r].binding
  BY <1>1, <1>3 DEF Decision
<1>6. \A c \in Callers \ {r} : dec'[c] = dec[c]
  BY <1>1, <1>3
<1>7. pc' = [pc EXCEPT ![r] = "decided"]
  BY DEF Decide
<1>8. pc'[r] = "decided" /\ \A c \in Callers \ {r} : pc'[c] = pc[c]
  BY <1>1, <1>7
<1>9. Phase(r)'
  BY <1>1, <1>5, <1>8, ClassesDiffer DEF Phase
<1>10. PhaseInv'
  BY <1>6, <1>8, <1>9, OthersKeepPhase
<1>11. pc' \in [Callers -> Labels]
  BY <1>1, <1>7 DEF Labels
<1> QED
  BY <1>4, <1>5, <1>6, <1>8, <1>10, <1>11

(* A handler step after Evaluate that only answers or moves on. *)
LEMMA QuietStep ==
  ASSUME CoreInv, NEW r \in Requests,
         UNCHANGED <<clock, req, dec, spent, stamp, entries, tag, receipts>>,
         pc[r] \in {"decided", "stamp", "append", "serve", "deny"},
         \/ \E code \in {200, 402, 503} : Respond(r, code)
         \/ \E label \in {"stamp", "serve", "deny"} : Goto(r, label)
  PROVE  CoreInv'
<1>1. PICK label \in {"stamp", "append", "serve", "deny", "done"} :
         pc' = [pc EXCEPT ![r] = label]
  BY DEF Respond, Goto
<1>2. PhaseInv' /\ pc' \in [Callers -> Labels]
  BY <1>1, AfterDecision
<1>3. status' \in [Requests -> {0, 200, 401, 402, 503}]
  <2>1. status \in [Requests -> {0, 200, 401, 402, 503}]
    BY DEF CoreInv, TypeOK
  <2>2. \/ UNCHANGED status
        \/ \E code \in {200, 402, 503} : status' = [status EXCEPT ![r] = code]
    BY DEF Respond, Goto
  <2> QED
    BY <2>1, <2>2
<1>4. TypeOK'
  BY <1>2, <1>3 DEF CoreInv, TypeOK
<1> QED
  BY <1>2, <1>4 DEF CoreInv

(* A request without a token is answered 401 and stays undecided. *)
LEMMA RefuseStep ==
  ASSUME CoreInv, NEW r \in Requests, Refuse(r)
  PROVE  CoreInv'
<1>1. /\ r \in Callers /\ pc \in [Callers -> Labels] /\ Phase(r)
      /\ status \in [Requests -> {0, 200, 401, 402, 503}]
  BY RequestsAssumption DEF CoreInv, TypeOK, PhaseInv
<1>2. /\ pc[r] = "idle" /\ pc' = [pc EXCEPT ![r] = "done"]
      /\ status' = [status EXCEPT ![r] = 401]
      /\ UNCHANGED <<clock, req, dec, spent, stamp, entries, tag, receipts>>
  BY DEF Refuse, Respond
<1>3. pc'[r] = "done" /\ \A c \in Callers \ {r} : pc'[c] = pc[c]
  BY <1>1, <1>2
<1>4. Phase(r)'
  BY <1>1, <1>2, <1>3 DEF Phase
<1>5. PhaseInv'
  BY <1>2, <1>3, <1>4, OthersKeepPhase
<1>6. pc' \in [Callers -> Labels] /\ status' \in [Requests -> {0, 200, 401, 402, 503}]
  BY <1>1, <1>2 DEF Labels
<1>7. TypeOK'
  BY <1>2, <1>6 DEF CoreInv, TypeOK
<1> QED
  BY <1>5, <1>7 DEF CoreInv

(* What Receive leaves behind. *)
LEMMA ReceiveEffect ==
  ASSUME CoreInv, NEW r \in Requests, Receive(r)
  PROVE  /\ CoreInv'
         /\ pc[r] = "idle" /\ pc'[r] \in {"policy", "decided"}
         /\ dec'[r].class \in {Undecided, DenyViolation}
         /\ dec'[r].reason \in {"", "binding", "expired"}
         /\ req'[r] \in Presentations
         /\ dec'[r].binding = BindingOf(r)'
         /\ \A c \in Callers \ {r} :
               req'[c] = req[c] /\ dec'[c] = dec[c] /\ pc'[c] = pc[c]
<1>1. /\ r \in Callers /\ Phase(r) /\ pc \in [Callers -> Labels]
      /\ dec \in [Callers -> Decisions]
      /\ req \in [Callers -> {NoReq} \cup Presentations]
  BY RequestsAssumption DEF CoreInv, TypeOK, PhaseInv
<1>2. PICK in \in HttpInputs : /\ parseToken(in.header).ok
                               /\ Check(r, in.pr, parseToken(in.header).tok, in.header)
  BY DEF Receive
<1> DEFINE tok == parseToken(in.header).tok
           p == [pr |-> in.pr, tok |-> tok, raw |-> in.header]
           b == ComputeBinding(in.pr, tok.nonce).binding
<1>3. p \in Presentations /\ b \in Bindings
  BY <1>2, PresentationFacts
<1>4. PICK class \in {Undecided, DenyViolation}, reason \in {"", "binding", "expired"},
           label \in {"policy", "decided"} :
         /\ dec' = [dec EXCEPT ![r] = Decision(class, reason, b)]
         /\ pc' = [pc EXCEPT ![r] = label]
         /\ label = "policy" <=> class = Undecided
         /\ class = Undecided => reason = ""
  BY <1>2, ClassesDiffer DEF Check
<1>5. /\ req' = [req EXCEPT ![r] = p]
      /\ pc[r] = "idle"
      /\ UNCHANGED <<clock, spent, stamp, entries, tag, receipts, status>>
  BY <1>2 DEF Check, Receive, pepVars
<1>6. /\ pc'[r] = label /\ req'[r] = p
      /\ \A c \in Callers \ {r} : req'[c] = req[c] /\ dec'[c] = dec[c] /\ pc'[c] = pc[c]
  BY <1>1, <1>4, <1>5
<1>7. dec'[r].class = class /\ dec'[r].reason = reason /\ dec'[r].binding = b
  BY <1>1, <1>4 DEF Decision
<1>8. Phase(r)'
  BY <1>3, <1>4, <1>6, <1>7, ClassesDiffer DEF Phase
<1>9. PhaseInv'
  BY <1>6, <1>8, OthersKeepPhase
<1>10. Decision(class, reason, b) \in Decisions
  BY <1>3 DEF Decision, Decisions, Reasons
<1>11. dec' \in [Callers -> Decisions]
  BY <1>1, <1>4, <1>10
<1>12. pc' \in [Callers -> Labels] /\ req' \in [Callers -> {NoReq} \cup Presentations]
  BY <1>1, <1>3, <1>4, <1>5 DEF Labels
<1>13. TypeOK'
  BY <1>5, <1>11, <1>12 DEF CoreInv, TypeOK
<1>14. p.pr = in.pr /\ p.tok = tok
  OBVIOUS
<1>15. dec'[r].binding = BindingOf(r)'
  BY <1>6, <1>7, <1>14 DEF BindingOf, Nonce
<1> QED
  BY <1>3, <1>5, <1>6, <1>7, <1>9, <1>13, <1>15 DEF CoreInv

(* Whatever the policy answers, the nonce stays unspent and nothing is      *)
(* allowed yet.                                                             *)
LEMMA PolicyEffect ==
  ASSUME CoreInv, NEW r \in Requests, AskPolicy(r)
  PROVE  /\ CoreInv'
         /\ pc[r] = "policy" /\ pc'[r] \in {"spend", "decided"}
         /\ dec'[r].class # Allow
         /\ dec'[r].reason \in {"", "policy", "policy unavailable"}
         /\ dec'[r].binding = dec[r].binding
         /\ \A c \in Callers \ {r} : dec'[c] = dec[c] /\ pc'[c] = pc[c]
         /\ UNCHANGED <<req, spent, entries, tag, receipts, status>>
<1>1. /\ r \in Callers /\ Phase(r) /\ pc \in [Callers -> Labels]
      /\ dec \in [Callers -> Decisions]
  BY RequestsAssumption DEF CoreInv, TypeOK, PhaseInv
<1>2. PICK verdict \in PolicyOutcomes : Policy(r, verdict)
  BY DEF AskPolicy
<1>3. /\ pc[r] = "policy"
      /\ UNCHANGED <<clock, req, spent, stamp, entries, tag, receipts, status>>
  BY <1>2 DEF Policy, AskPolicy, pepVars
<1>4. CASE pc' = [pc EXCEPT ![r] = "spend"] /\ UNCHANGED dec
  <2>1. pc'[r] = "spend" /\ \A c \in Callers \ {r} : pc'[c] = pc[c]
    BY <1>1, <1>4
  <2>2. Phase(r)'
    BY <1>1, <1>3, <1>4, <2>1 DEF Phase
  <2>3. PhaseInv'
    BY <1>3, <1>4, <2>1, <2>2, OthersKeepPhase
  <2>4. pc' \in [Callers -> Labels]
    BY <1>1, <1>4 DEF Labels
  <2>5. TypeOK'
    BY <1>3, <1>4, <2>4 DEF CoreInv, TypeOK
  <2>6. dec'[r].class # Allow /\ dec'[r].reason = ""
    BY <1>1, <1>3, <1>4, ClassesDiffer DEF Phase
  <2> QED
    BY <1>3, <1>4, <2>1, <2>3, <2>5, <2>6 DEF CoreInv
<1>5. CASE \E class \in {DenyViolation, DenyUnavailable},
              reason \in {"policy", "policy unavailable"} : Decide(r, class, reason)
  <2>1. PICK class \in {DenyViolation, DenyUnavailable},
             reason \in {"policy", "policy unavailable"} : Decide(r, class, reason)
    BY <1>5
  <2>2. /\ class \in {Allow, DenyViolation, DenyUnavailable} /\ reason \in Reasons
        /\ class # Allow /\ reason # "allow"
    BY ClassesDiffer DEF Reasons
  <2>3. /\ PhaseInv' /\ pc' \in [Callers -> Labels] /\ dec' \in [Callers -> Decisions]
        /\ dec'[r].class = class /\ dec'[r].reason = reason
        /\ dec'[r].binding = dec[r].binding /\ pc'[r] = "decided"
        /\ \A c \in Callers \ {r} : dec'[c] = dec[c] /\ pc'[c] = pc[c]
    <3>1. pc[r] \in {"policy", "spend"} /\ UNCHANGED req
      BY <1>3
    <3> QED
      BY <2>1, <2>2, <3>1, DecideStep
  <2>4. TypeOK'
    BY <1>3, <2>3 DEF CoreInv, TypeOK
  <2> QED
    BY <1>3, <2>3, <2>4, ClassesDiffer DEF CoreInv
<1> QED
  BY <1>2, <1>4, <1>5 DEF Policy

(* The three outcomes of Spend. *)
LEMMA SpendEffect ==
  ASSUME CoreInv, NEW r \in Requests, SpendNonce(r)
  PROVE  /\ CoreInv'
         /\ pc[r] = "spend" /\ pc'[r] = "decided"
         /\ \/ /\ dec'[r].class = Allow /\ dec'[r].reason = "allow"
               /\ Nonce(r) \notin spent /\ spent' = spent \cup {Nonce(r)}
            \/ /\ dec'[r].class # Allow /\ dec'[r].reason = "replay"
               /\ Nonce(r) \in spent /\ spent' = spent
            \/ /\ dec'[r].class # Allow /\ dec'[r].reason = "spend-log unavailable"
               /\ spent' \in {spent, spent \cup {Nonce(r)}}
         /\ dec'[r].binding = dec[r].binding
         /\ \A c \in Callers \ {r} : dec'[c] = dec[c] /\ pc'[c] = pc[c]
         /\ UNCHANGED <<req, entries, tag, receipts, status>>
<1>1. /\ r \in Callers /\ Phase(r)
      /\ pc[r] = "spend"
      /\ UNCHANGED <<clock, req, stamp, entries, tag, receipts, status>>
  BY RequestsAssumption DEF CoreInv, PhaseInv, SpendNonce, Spend, pepVars
<1>2. PICK class \in {Allow, DenyViolation, DenyUnavailable},
           reason \in {"allow", "replay", "spend-log unavailable"} :
         /\ Decide(r, class, reason)
         /\ class = Allow <=> reason = "allow"
         /\ reason = "allow" => Nonce(r) \notin spent /\ spent' = spent \cup {Nonce(r)}
         /\ reason = "replay" => Nonce(r) \in spent /\ spent' = spent
         /\ reason = "spend-log unavailable" => spent' \in {spent, spent \cup {Nonce(r)}}
  BY ClassesDiffer DEF SpendNonce, Spend, SpendRecords, SpendReplays, SpendFails
<1>3. reason \in Reasons
  BY DEF Reasons
<1>4. /\ PhaseInv' /\ pc' \in [Callers -> Labels] /\ dec' \in [Callers -> Decisions]
      /\ dec'[r].class = class /\ dec'[r].reason = reason
      /\ dec'[r].binding = dec[r].binding /\ pc'[r] = "decided"
      /\ \A c \in Callers \ {r} : dec'[c] = dec[c] /\ pc'[c] = pc[c]
  BY <1>1, <1>2, <1>3, DecideStep
<1>5. Nonce(r) \in Nonces
  BY <1>1, PresentationAssumption DEF Phase, Nonce
<1>6. spent' \subseteq Nonces
  BY <1>2, <1>5 DEF CoreInv, TypeOK
<1>7. TypeOK'
  BY <1>1, <1>4, <1>6 DEF CoreInv, TypeOK
<1> QED
  BY <1>1, <1>2, <1>4, <1>7 DEF CoreInv

(* The steps that record evidence. *)
LEMMA EmitOKStep ==
  ASSUME CoreInv, NEW r \in Requests, EmitOK(r)
  PROVE  CoreInv'
<1>1. /\ pc[r] = "decided" /\ pc' = [pc EXCEPT ![r] = "stamp"]
      /\ UNCHANGED <<clock, req, dec, spent, stamp, entries, tag, status>>
      /\ receipts' \in {receipts, receipts \cup {ReceiptOf(r)}}
  BY DEF EmitOK, Goto
<1>2. PhaseInv' /\ pc' \in [Callers -> Labels]
  BY <1>1, AfterDecision
<1>3. \A rc \in receipts' : rc.by \in Requests
  BY <1>1 DEF CoreInv, TypeOK, ReceiptOf
<1>4. TypeOK'
  BY <1>1, <1>2, <1>3 DEF CoreInv, TypeOK
<1> QED
  BY <1>2, <1>4 DEF CoreInv

(* Reading the clock for the entry changes the stamp alone. *)
LEMMA StampStep ==
  ASSUME CoreInv, NEW r \in Requests, StampEntry(r)
  PROVE  CoreInv'
<1>1. /\ pc[r] = "stamp" /\ pc' = [pc EXCEPT ![r] = "append"]
      /\ stamp' = [stamp EXCEPT ![r] = clock]
      /\ UNCHANGED <<clock, req, dec, spent, entries, tag, receipts, status>>
  BY DEF StampEntry, Stamp, pepVars
<1>2. PhaseInv' /\ pc' \in [Callers -> Labels]
  BY <1>1, AfterDecision
<1>3. stamp' \in [Callers -> 0..MaxClock]
  BY <1>1 DEF CoreInv, TypeOK
<1>4. TypeOK'
  BY <1>1, <1>2, <1>3 DEF CoreInv, TypeOK
<1> QED
  BY <1>2, <1>4 DEF CoreInv

(* The log stays a sequence when an entry is added. *)
LEMMA ChainStep ==
  ASSUME CoreInv, NEW r \in Requests, Chain(r)
  PROVE  CoreInv'
<1> DEFINE e == AppendedEntry(r, PepKey[r], mapDecision(dec[r].class))
<1>1. /\ pc[r] = "append" /\ entries' = Append(entries, e)
      /\ tag' = [tag EXCEPT ![r] = EntryTag(e)]
      /\ UNCHANGED <<clock, req, dec, spent, stamp, receipts, status>>
  BY DEF Chain, AppendOK, Goto
<1>2. PICK label \in {"serve", "deny"} : pc' = [pc EXCEPT ![r] = label]
  BY DEF Chain, Goto
<1>3. PhaseInv' /\ pc' \in [Callers -> Labels]
  BY <1>1, <1>2, AfterDecision
<1>4. entries' \in Seq(Range(entries'))
  <2> HIDE DEF e
  <2> QED
    BY <1>1, AppendExtends DEF CoreInv, TypeOK
<1>5. DOMAIN tag' = Callers
  BY <1>1 DEF CoreInv, TypeOK
<1>6. TypeOK'
  BY <1>1, <1>3, <1>4, <1>5 DEF CoreInv, TypeOK
<1> QED
  BY <1>3, <1>6 DEF CoreInv

(* The actions that change neither presentations nor decisions nor the      *)
(* spend log.                                                               *)
Recording(r) ==
    \/ Refuse(r) \/ EmitOK(r) \/ EmitFails(r) \/ StampEntry(r)
    \/ Chain(r) \/ ChainFails(r) \/ Serve(r) \/ Deny(r)

(* They keep the core invariant, as their names promise. *)
LEMMA RecordingStep ==
  ASSUME CoreInv, NEW r \in Requests, Recording(r)
  PROVE  CoreInv' /\ UNCHANGED <<req, dec, spent>>
<1>1. CASE Refuse(r)
  BY <1>1, RefuseStep DEF Refuse
<1>2. CASE EmitOK(r)
  BY <1>2, EmitOKStep DEF EmitOK
<1>3. CASE EmitFails(r)
  <2>1. \/ \E code \in {200, 402, 503} : Respond(r, code)
        \/ \E label \in {"stamp", "serve", "deny"} : Goto(r, label)
    BY <1>3 DEF EmitFails
  <2> QED
    BY <1>3, <2>1, QuietStep DEF EmitFails
<1>4. CASE StampEntry(r)
  BY <1>4, StampStep DEF StampEntry, Stamp
<1>5. CASE Chain(r)
  BY <1>5, ChainStep DEF Chain, AppendOK
<1>6. CASE ChainFails(r)
  <2>1. \/ \E code \in {200, 402, 503} : Respond(r, code)
        \/ \E label \in {"stamp", "serve", "deny"} : Goto(r, label)
    BY <1>6 DEF ChainFails
  <2> QED
    BY <1>6, <2>1, QuietStep DEF ChainFails, AppendFails
<1>7. CASE Serve(r)
  BY <1>7, QuietStep DEF Serve
<1>8. CASE Deny(r)
  <2>1. \E code \in {200, 402, 503} : Respond(r, code)
    BY <1>8 DEF Deny
  <2> QED
    BY <1>8, <2>1, QuietStep DEF Deny
<1> QED
  BY <1>1, <1>2, <1>3, <1>4, <1>5, <1>6, <1>7, <1>8 DEF Recording

(* The clock moves alone. *)
LEMMA TickStep ==
  ASSUME CoreInv, Tick, UNCHANGED pepVars
  PROVE  CoreInv' /\ UNCHANGED <<pc, req, dec, spent, entries, tag, receipts, status>>
<1>1. /\ clock' \in 0..MaxClock
      /\ UNCHANGED <<pc, req, dec, spent, stamp, entries, tag, receipts, status>>
  BY ClockAssumption DEF Tick, pepVars, CoreInv, TypeOK
<1>2. TypeOK'
  BY <1>1 DEF CoreInv, TypeOK
<1>3. PhaseInv'
  BY <1>1 DEF CoreInv, PhaseInv, Phase
<1> QED
  BY <1>1, <1>2, <1>3 DEF CoreInv

(* So does a step that changes nothing. *)
LEMMA StutterStep ==
  ASSUME CoreInv, UNCHANGED vars
  PROVE  CoreInv' /\ UNCHANGED <<pc, req, dec, spent, entries, tag, receipts, status>>
<1>1. UNCHANGED <<clock, pc, req, dec, spent, stamp, entries, tag, receipts, status>>
  BY DEF vars, coreVars, pepVars
<1>2. TypeOK'
  BY <1>1 DEF CoreInv, TypeOK
<1>3. PhaseInv'
  BY <1>1 DEF CoreInv, PhaseInv, Phase
<1> QED
  BY <1>1, <1>2, <1>3 DEF CoreInv

(* What a step can be. *)
LEMMA StepCases ==
  ASSUME [Next]_vars
  PROVE  \/ \E r \in Requests : Receive(r) \/ AskPolicy(r) \/ SpendNonce(r) \/ Recording(r)
         \/ Tick /\ UNCHANGED pepVars
         \/ UNCHANGED vars
  BY DEF Next, PEPNext, Continue, Recording

(* The core invariant is inductive. *)
LEMMA CoreInvStep == CoreInv /\ [Next]_vars => CoreInv'
<1> SUFFICES ASSUME CoreInv, [Next]_vars PROVE CoreInv'
  OBVIOUS
<1>1. ASSUME NEW r \in Requests, Receive(r) PROVE CoreInv'
  BY <1>1, ReceiveEffect
<1>2. ASSUME NEW r \in Requests, AskPolicy(r) PROVE CoreInv'
  BY <1>2, PolicyEffect
<1>3. ASSUME NEW r \in Requests, SpendNonce(r) PROVE CoreInv'
  BY <1>3, SpendEffect
<1>4. ASSUME NEW r \in Requests, Recording(r) PROVE CoreInv'
  BY <1>4, RecordingStep
<1> QED
  BY <1>1, <1>2, <1>3, <1>4, TickStep, StutterStep, StepCases

(* Every variable keeps its type in every behaviour of the enforcement      *)
(* point: a decision only ever carries the binding of something a request   *)
(* presented, and every answer is one of the protocol's statuses.           *)
THEOREM TypeCorrect == Spec => []TypeOK
<1>1. Spec => []CoreInv
  BY CoreInvInit, CoreInvStep, PTL DEF Spec
<1>2. CoreInv => TypeOK
  BY DEF CoreInv
<1> QED
  BY <1>1, <1>2, PTL

---------------------------------------------------------------------------
(* The spend log: what the decisions say about the nonces in it. *)

AllowedIsSpent == \A c \in Callers : Allowed(c) => Nonce(c) \in spent

NonceInv == AllowedIsSpent /\ SingleUse /\ BurnedOnlyBySpend /\ ReplayIsReal

(* A step by a caller that had no reason yet, that gives it neither an      *)
(* ALLOW nor a replay and leaves the spend log alone.                       *)
LEMMA OpenDecisionStep ==
  ASSUME CoreInv, NonceInv, NEW r \in Callers,
         dec[r].reason = "", dec'[r].class # Allow, dec'[r].reason # "replay",
         UNCHANGED spent,
         \A c \in Callers \ {r} : req'[c] = req[c] /\ dec'[c] = dec[c]
  PROVE  NonceInv'
<1>1. dec[r].class # Allow
  BY DEF CoreInv, PhaseInv, Phase
<1>2. \A c \in Callers \ {r} :
         /\ Nonce(c)' = Nonce(c) /\ (Presented(c)' <=> Presented(c))
         /\ Allowed(c)' <=> Allowed(c)
         /\ dec'[c].reason = dec[c].reason
  BY DEF Nonce, Presented, Allowed
<1>3. ~Allowed(r) /\ ~Allowed(r)'
  BY <1>1 DEF Allowed
<1>4. AllowedIsSpent'
  BY <1>2, <1>3 DEF NonceInv, AllowedIsSpent
<1>5. SingleUse'
  <2> SUFFICES ASSUME NEW c \in Callers, NEW d \in Callers,
                      c # d, Allowed(c)', Allowed(d)'
               PROVE  Nonce(c)' # Nonce(d)'
    BY DEF SingleUse
  <2>1. c # r /\ d # r
    BY <1>3
  <2>2. Nonce(c)' = Nonce(c) /\ Nonce(d)' = Nonce(d) /\ Allowed(c) /\ Allowed(d)
    BY <1>2, <2>1
  <2> QED
    BY <2>2 DEF NonceInv, SingleUse
<1>6. BurnedOnlyBySpend'
  <2> SUFFICES ASSUME NEW n \in spent
               PROVE  \E c \in Callers : /\ Presented(c)' /\ Nonce(c)' = n
                                         /\ dec'[c].reason \in {"allow", "spend-log unavailable"}
    BY DEF BurnedOnlyBySpend
  <2>1. PICK c \in Callers : /\ Presented(c) /\ Nonce(c) = n
                             /\ dec[c].reason \in {"allow", "spend-log unavailable"}
    BY DEF NonceInv, BurnedOnlyBySpend
  <2> QED
    BY <1>2, <2>1
<1>7. ReplayIsReal'
  <2> SUFFICES ASSUME NEW c \in Callers, dec'[c].reason = "replay"
               PROVE  \E d \in Callers \ {c} :
                         /\ Presented(d)' /\ Nonce(d)' = Nonce(c)'
                         /\ Allowed(d)' \/ dec'[d].reason = "spend-log unavailable"
    BY DEF ReplayIsReal
  <2>1. c # r /\ dec[c].reason = "replay"
    BY <1>2
  <2>2. PICK d \in Callers \ {c} :
           /\ Presented(d) /\ Nonce(d) = Nonce(c)
           /\ Allowed(d) \/ dec[d].reason = "spend-log unavailable"
    BY <2>1 DEF NonceInv, ReplayIsReal
  <2>3. d # r
    BY <1>3, <2>2
  <2> QED
    BY <1>2, <2>1, <2>2, <2>3
<1> QED
  BY <1>4, <1>5, <1>6, <1>7 DEF NonceInv

(* The one step that changes the spend log: an ALLOW needs a fresh nonce, a *)
(* replay finds the caller that spent it, an outage burns at most its own.  *)
LEMMA NonceInvSpend ==
  ASSUME CoreInv, NonceInv, NEW r \in Requests, SpendNonce(r)
  PROVE  NonceInv'
<1>1. /\ r \in Callers /\ Presented(r) /\ dec[r].reason = "" /\ dec[r].class # Allow
  BY RequestsAssumption, SpendEffect, PresentationAssumption, ClassesDiffer
     DEF CoreInv, PhaseInv, Phase, Presented
<1>2. /\ \A c \in Callers \ {r} : dec'[c] = dec[c]
      /\ UNCHANGED req
  BY SpendEffect
<1>3. \/ /\ dec'[r].class = Allow /\ dec'[r].reason = "allow"
         /\ Nonce(r) \notin spent /\ spent' = spent \cup {Nonce(r)}
      \/ /\ dec'[r].class # Allow /\ dec'[r].reason = "replay"
         /\ Nonce(r) \in spent /\ spent' = spent
      \/ /\ dec'[r].class # Allow /\ dec'[r].reason = "spend-log unavailable"
         /\ spent' \in {spent, spent \cup {Nonce(r)}}
  BY SpendEffect
<1>4. \A c \in Callers : Nonce(c)' = Nonce(c) /\ (Presented(c)' <=> Presented(c))
  BY <1>2 DEF Nonce, Presented
<1>5. AllowedIsSpent'
  BY <1>2, <1>3, <1>4 DEF NonceInv, AllowedIsSpent, Allowed
<1>6. SingleUse'
  BY <1>2, <1>3, <1>4 DEF NonceInv, AllowedIsSpent, SingleUse, Allowed
<1>7. BurnedOnlyBySpend'
  <2> SUFFICES ASSUME NEW n \in spent'
               PROVE  \E c \in Callers : /\ Presented(c)' /\ Nonce(c)' = n
                                         /\ dec'[c].reason \in {"allow", "spend-log unavailable"}
    BY DEF BurnedOnlyBySpend
  <2>1. CASE n \in spent
    BY <1>1, <1>2, <1>4, <2>1 DEF NonceInv, BurnedOnlyBySpend
  <2>2. CASE n \notin spent
    BY <1>1, <1>3, <1>4, <2>2
  <2> QED
    BY <2>1, <2>2
<1>8. ReplayIsReal'
  <2> SUFFICES ASSUME NEW c \in Callers, dec'[c].reason = "replay"
               PROVE  \E d \in Callers \ {c} :
                         /\ Presented(d)' /\ Nonce(d)' = Nonce(c)'
                         /\ Allowed(d)' \/ dec'[d].reason = "spend-log unavailable"
    BY DEF ReplayIsReal
  <2>1. CASE c = r
    <3>1. Nonce(r) \in spent
      BY <1>3, <2>1
    <3>2. PICK d \in Callers : /\ Presented(d) /\ Nonce(d) = Nonce(r)
                               /\ dec[d].reason \in {"allow", "spend-log unavailable"}
      BY <3>1 DEF NonceInv, BurnedOnlyBySpend
    <3>3. d # r /\ dec'[d] = dec[d]
      BY <1>1, <1>2, <3>2
    <3>4. Allowed(d)' \/ dec'[d].reason = "spend-log unavailable"
      BY <3>2, <3>3 DEF CoreInv, PhaseInv, Phase, Allowed
    <3> QED
      BY <1>4, <2>1, <3>2, <3>3, <3>4
  <2>2. CASE c # r
    <3>1. PICK d \in Callers \ {c} :
             /\ Presented(d) /\ Nonce(d) = Nonce(c)
             /\ Allowed(d) \/ dec[d].reason = "spend-log unavailable"
      BY <1>2, <2>2 DEF NonceInv, ReplayIsReal
    <3>2. d # r /\ dec'[d] = dec[d]
      BY <1>1, <1>2, <3>1 DEF Allowed
    <3> QED
      BY <1>4, <3>1, <3>2 DEF Allowed
  <2> QED
    BY <2>1, <2>2
<1> QED
  BY <1>5, <1>6, <1>7, <1>8 DEF NonceInv

(* The nonce invariant is inductive relative to the core invariant. *)
LEMMA NonceInvStep == CoreInv /\ NonceInv /\ [Next]_vars => NonceInv'
<1> SUFFICES ASSUME CoreInv, NonceInv, [Next]_vars PROVE NonceInv'
  OBVIOUS
<1>1. ASSUME NEW r \in Requests, Receive(r) PROVE NonceInv'
  <2>1. dec[r].reason = "" /\ r \in Callers
    BY <1>1, ReceiveEffect, RequestsAssumption DEF CoreInv, PhaseInv, Phase
  <2>2. dec'[r].class # Allow /\ dec'[r].reason # "replay"
    BY <1>1, ReceiveEffect, ClassesDiffer
  <2>3. UNCHANGED spent
    BY <1>1 DEF Receive, Check
  <2> QED
    BY <1>1, <2>1, <2>2, <2>3, ReceiveEffect, OpenDecisionStep
<1>2. ASSUME NEW r \in Requests, AskPolicy(r) PROVE NonceInv'
  <2>1. dec[r].reason = "" /\ r \in Callers
    BY <1>2, PolicyEffect, RequestsAssumption DEF CoreInv, PhaseInv, Phase
  <2> QED
    BY <1>2, <2>1, PolicyEffect, OpenDecisionStep
<1>3. ASSUME NEW r \in Requests, SpendNonce(r) PROVE NonceInv'
  BY <1>3, NonceInvSpend
<1>4. ASSUME UNCHANGED <<req, dec, spent>> PROVE NonceInv'
  BY <1>4, ZenonT(60) DEF NonceInv, AllowedIsSpent, SingleUse, BurnedOnlyBySpend, ReplayIsReal,
              Allowed, Presented, Nonce
<1>5. ASSUME NEW r \in Requests, Recording(r) PROVE NonceInv'
  BY <1>4, <1>5, RecordingStep
<1> QED
  BY <1>1, <1>2, <1>3, <1>4, <1>5, TickStep, StutterStep, StepCases

(* Nothing is spent and nothing is decided at the start. *)
LEMMA NonceInvInit == Init => NonceInv
<1> SUFFICES ASSUME Init PROVE NonceInv
  OBVIOUS
<1>1. spent = {} /\ \A c \in Callers : dec[c].class = Undecided /\ dec[c].reason = ""
  BY DEF Init, CoreInit, Decision
<1> QED
  BY <1>1, ClassesDiffer DEF NonceInv, AllowedIsSpent, SingleUse, BurnedOnlyBySpend,
                             ReplayIsReal, Allowed

(* So it holds throughout. *)
LEMMA NonceInvHolds == Spec => []NonceInv
  BY CoreInvInit, CoreInvStep, NonceInvInit, NonceInvStep, PTL DEF Spec

(* However many requests present one token, and however their checks,       *)
(* policy calls and spends interleave, at most one of them is allowed.      *)
THEOREM NonceIsSingleUse == Spec => []SingleUse
<1>1. NonceInv => SingleUse
  BY DEF NonceInv
<1> QED
  BY <1>1, NonceInvHolds, PTL

(* A binding error, an expired token or a policy denial never burns a       *)
(* nonce, so the caller can retry with the same token.                      *)
THEOREM DenialBurnsNothing == Spec => []BurnedOnlyBySpend
<1>1. NonceInv => BurnedOnlyBySpend
  BY DEF NonceInv
<1> QED
  BY <1>1, NonceInvHolds, PTL

(* A caller is told "replay" only when another caller did put its nonce     *)
(* into the spend log.                                                      *)
THEOREM ReplayIsNeverInvented == Spec => []ReplayIsReal
<1>1. NonceInv => ReplayIsReal
  BY DEF NonceInv
<1> QED
  BY <1>1, NonceInvHolds, PTL

---------------------------------------------------------------------------
(* The transparency chain. *)

(* Of all steps only Chain changes the log. *)
LEMMA LogStep ==
  ASSUME CoreInv, [Next]_vars
  PROVE  UNCHANGED entries \/ \E r \in Requests : Chain(r)
<1>1. ASSUME NEW r \in Requests, Recording(r), ~Chain(r) PROVE UNCHANGED entries
  BY <1>1 DEF Recording, Refuse, EmitOK, EmitFails, StampEntry, Stamp, ChainFails,
              AppendFails, Serve, Deny
<1>2. ASSUME NEW r \in Requests, Receive(r) PROVE UNCHANGED entries
  BY <1>2 DEF Receive, Check
<1> QED
  BY <1>1, <1>2, PolicyEffect, SpendEffect, TickStep, StutterStep, StepCases

(* Log.Verify accepts the log in every state, for any number of concurrent  *)
(* requests: Append checks its own signature before it extends the log.     *)
THEOREM ChainAlwaysVerifies == Spec => []ChainSound
<1>1. Init => ChainSound
  <2>1. Init => entries = <<>>
    BY DEF Init, CoreInit
  <2>2. entries = <<>> => 1..Len(entries) = {}
    OBVIOUS
  <2> QED
    BY <2>1, <2>2 DEF ChainSound, LogVerify
<1>2. CoreInv /\ ChainSound /\ [Next]_vars => ChainSound'
  <2> SUFFICES ASSUME CoreInv, ChainSound, [Next]_vars PROVE ChainSound'
    OBVIOUS
  <2>1. CASE UNCHANGED entries
    BY <2>1 DEF ChainSound
  <2>2. ASSUME NEW r \in Requests, Chain(r) PROVE ChainSound'
    <3>1. /\ entries' = Append(entries, AppendedEntry(r, PepKey[r], mapDecision(dec[r].class)))
          /\ SelfVerifies(LogPub, AppendedEntry(r, PepKey[r], mapDecision(dec[r].class)))
      BY <2>2 DEF Chain, AppendOK
    <3>2. entries \in Seq(Range(entries))
      BY DEF CoreInv, TypeOK
    <3> QED
      BY <3>1, <3>2, ExtendedLogVerifies DEF ChainSound, AppendedEntry
  <2> QED
    BY <2>1, <2>2, LogStep
<1> QED
  BY <1>1, <1>2, CoreInvInit, CoreInvStep, PTL DEF Spec

---------------------------------------------------------------------------
(* Evidence before service. *)

(* What a request has recorded by the time it reaches each label. *)
Recorded(r) ==
    /\ req[r] \in Presentations => dec[r].binding = BindingOf(r)
    /\ Allowed(r) /\ pc[r] \in {"stamp", "append", "serve"} /\ Conformant
          => PermitReceipted(r)
    /\ pc[r] = "serve" => Allowed(r) /\ AllowChained(r)
    /\ status[r] # 0 => pc[r] = "done"
    /\ status[r] = 200 => (Conformant => PermitReceipted(r)) /\ AllowChained(r)

EvidenceInv == \A r \in Requests : Recorded(r)

(* Nothing of what a request is, or has recorded, is touched. *)
Keeps(q) ==
    /\ req'[q] = req[q] /\ dec'[q] = dec[q] /\ tag'[q] = tag[q]

(* Receipts and entries are never removed. *)
EvidenceGrows ==
    /\ receipts \subseteq receipts'
    /\ \A i \in 1..Len(entries) : i \in 1..Len(entries') /\ entries'[i] = entries[i]

(* Evidence once recorded for a request stays recorded for it. *)
LEMMA EvidenceStays ==
  ASSUME NEW q \in Requests, Keeps(q), EvidenceGrows
  PROVE  /\ BindingOf(q)' = BindingOf(q)
         /\ Allowed(q)' <=> Allowed(q)
         /\ PermitReceipted(q) => PermitReceipted(q)'
         /\ AllowChained(q) => AllowChained(q)'
<1>1. BindingOf(q)' = BindingOf(q)
  BY DEF Keeps, BindingOf, Nonce
<1>2. Allowed(q)' <=> Allowed(q)
  BY DEF Keeps, Allowed
<1>3. PermitReceipted(q) => PermitReceipted(q)'
  <2> SUFFICES ASSUME PermitReceipted(q) PROVE PermitReceipted(q)'
    OBVIOUS
  <2>1. PICK rc \in receipts :
           /\ rc.by = q
           /\ rc.receipt.decision = "PERMIT"
           /\ rc.receipt.tokenHash = tokenFingerprint(req[q].raw)
           /\ rc.receipt.intentDigest = BindingOf(q)
    BY DEF PermitReceipted
  <2>2. rc \in receipts' /\ req'[q] = req[q]
    BY DEF EvidenceGrows, Keeps
  <2> QED
    BY <1>1, <2>1, <2>2 DEF PermitReceipted
<1>4. AllowChained(q) => AllowChained(q)'
  <2> SUFFICES ASSUME AllowChained(q) PROVE AllowChained(q)'
    OBVIOUS
  <2>1. PICK i \in 1..Len(entries) :
           /\ EntryOf(q, entries[i])
           /\ entries[i].record.decision = LogAllow
           /\ entries[i].record.binding = BindingOf(q)
    BY DEF AllowChained
  <2>2. i \in 1..Len(entries') /\ entries'[i] = entries[i] /\ tag'[q] = tag[q]
    BY DEF EvidenceGrows, Keeps
  <2>3. EntryOf(q, entries[i])'
    BY <2>1, <2>2 DEF EntryOf
  <2> QED
    BY <1>1, <2>1, <2>2, <2>3 DEF AllowChained
<1> QED
  BY <1>1, <1>2, <1>3, <1>4

(* A step of r preserves the invariant if it does so for r. *)
LEMMA OthersKeepEvidence ==
  ASSUME EvidenceInv, NEW r \in Requests, EvidenceGrows,
         \A q \in Requests \ {r} : Keeps(q) /\ pc'[q] = pc[q] /\ status'[q] = status[q],
         Recorded(r)'
  PROVE  EvidenceInv'
<1> SUFFICES ASSUME NEW q \in Requests, q # r PROVE Recorded(q)'
  BY DEF EvidenceInv
<1>1. Recorded(q) /\ Keeps(q) /\ pc'[q] = pc[q] /\ status'[q] = status[q]
  BY DEF EvidenceInv
<1>2. req'[q] = req[q] /\ dec'[q] = dec[q]
  BY <1>1 DEF Keeps
<1>3. /\ BindingOf(q)' = BindingOf(q)
      /\ Allowed(q)' <=> Allowed(q)
      /\ PermitReceipted(q) => PermitReceipted(q)'
      /\ AllowChained(q) => AllowChained(q)'
  BY <1>1, EvidenceStays
<1> QED
  BY <1>1, <1>2, <1>3 DEF Recorded

(* Nothing is presented at the start, so nothing need be recorded. *)
LEMMA EvidenceInvInit == Init => EvidenceInv
<1> SUFFICES ASSUME Init, NEW r \in Requests PROVE Recorded(r)
  BY DEF EvidenceInv
<1>1. req[r] = NoReq /\ pc[r] = "idle" /\ status[r] = 0
  BY RequestsAssumption DEF Init, CoreInit, PEPInit
<1> QED
  BY <1>1, PresentationAssumption DEF Recorded

(* A step before the evidence: the decision is made, or is on its way. *)
LEMMA EvidenceBefore ==
  ASSUME EvidenceInv, NEW r \in Requests,
         pc[r] \in {"idle", "policy", "spend"}, pc'[r] \in {"policy", "spend", "decided"},
         dec'[r].binding = BindingOf(r)',
         UNCHANGED <<entries, tag, receipts, status>>,
         \A q \in Requests \ {r} : req'[q] = req[q] /\ dec'[q] = dec[q] /\ pc'[q] = pc[q]
  PROVE  EvidenceInv'
<1>1. status'[r] = 0
  BY DEF EvidenceInv, Recorded
<1>2. Recorded(r)'
  BY <1>1 DEF Recorded
<1> QED
  BY <1>2, OthersKeepEvidence DEF Keeps, EvidenceGrows

(* A step that only answers or moves on. *)
LEMMA EvidenceQuiet ==
  ASSUME CoreInv, EvidenceInv, NEW r \in Requests,
         UNCHANGED <<req, dec, entries, tag, receipts>>,
         \A c \in Callers \ {r} : pc'[c] = pc[c],
         \A q \in Requests \ {r} : status'[q] = status[q],
         Allowed(r) /\ pc'[r] \in {"stamp", "append"} /\ Conformant => PermitReceipted(r),
         pc'[r] # "serve",
         status'[r] # 0 => pc'[r] = "done",
         status'[r] = 200 => (Conformant => PermitReceipted(r)) /\ AllowChained(r)
  PROVE  EvidenceInv'
<1>1. \A q \in Requests \ {r} : Keeps(q) /\ pc'[q] = pc[q] /\ status'[q] = status[q]
  BY RequestsAssumption DEF Keeps
<1>2. EvidenceGrows /\ Keeps(r)
  BY DEF EvidenceGrows, Keeps
<1>3. /\ BindingOf(r)' = BindingOf(r)
      /\ Allowed(r)' <=> Allowed(r)
      /\ PermitReceipted(r) => PermitReceipted(r)'
      /\ AllowChained(r) => AllowChained(r)'
  BY <1>2, EvidenceStays
<1>4. Recorded(r)
  BY DEF EvidenceInv
<1>5. Recorded(r)'
  BY <1>3, <1>4 DEF Recorded
<1> QED
  BY <1>1, <1>2, <1>5, OthersKeepEvidence

(* A step that answers: 200 needs both artifacts. *)
LEMMA EvidenceRespond ==
  ASSUME CoreInv, EvidenceInv, NEW r \in Requests, NEW code,
         UNCHANGED <<req, dec, entries, tag, receipts>>,
         Respond(r, code),
         code = 200 => (Conformant => PermitReceipted(r)) /\ AllowChained(r)
  PROVE  EvidenceInv'
<1>1. r \in Callers /\ pc \in [Callers -> Labels] /\ DOMAIN status = Requests
  BY RequestsAssumption DEF CoreInv, TypeOK
<1>2. /\ pc'[r] = "done" /\ status'[r] = code
      /\ \A c \in Callers \ {r} : pc'[c] = pc[c]
      /\ \A q \in Requests \ {r} : status'[q] = status[q]
  BY <1>1 DEF Respond
<1> QED
  BY <1>2, EvidenceQuiet

(* A step that moves on: past Emit an ALLOW needs its receipt. *)
LEMMA EvidenceGoto ==
  ASSUME CoreInv, EvidenceInv, NEW r \in Requests, NEW label \in {"stamp", "append", "deny"},
         UNCHANGED <<req, dec, entries, tag, receipts>>,
         pc[r] # "done", Goto(r, label),
         Allowed(r) /\ label \in {"stamp", "append"} /\ Conformant => PermitReceipted(r)
  PROVE  EvidenceInv'
<1>1. r \in Callers /\ pc \in [Callers -> Labels] /\ Recorded(r)
  BY RequestsAssumption DEF CoreInv, TypeOK, EvidenceInv
<1>2. /\ pc'[r] = label /\ status'[r] = 0 /\ UNCHANGED status
      /\ \A c \in Callers \ {r} : pc'[c] = pc[c]
  BY <1>1 DEF Goto, Recorded
<1> QED
  BY <1>2, EvidenceQuiet

(* Emit puts the PERMIT receipt of an allowed request into the store. *)
LEMMA EvidenceEmitOK ==
  ASSUME CoreInv, EvidenceInv, NEW r \in Requests, EmitOK(r)
  PROVE  EvidenceInv'
<1>1. /\ r \in Callers /\ pc \in [Callers -> Labels] /\ Phase(r) /\ Recorded(r)
  BY RequestsAssumption DEF CoreInv, TypeOK, PhaseInv, EvidenceInv
<1>2. /\ pc[r] = "decided" /\ pc' = [pc EXCEPT ![r] = "stamp"]
      /\ UNCHANGED <<req, dec, entries, tag, status>>
      /\ receipts' = IF EmitterIsNoop THEN receipts ELSE receipts \cup {ReceiptOf(r)}
  BY DEF EmitOK, Goto
<1>3. /\ pc'[r] = "stamp" /\ status'[r] = 0
      /\ \A q \in Requests \ {r} : Keeps(q) /\ pc'[q] = pc[q] /\ status'[q] = status[q]
  BY <1>1, <1>2, RequestsAssumption DEF Keeps, Recorded
<1>4. EvidenceGrows /\ Keeps(r)
  BY <1>2 DEF EvidenceGrows, Keeps
<1>5. BindingOf(r)' = BindingOf(r) /\ (Allowed(r)' <=> Allowed(r))
  BY <1>4, EvidenceStays
<1>6. req[r] \in Presentations /\ dec[r].binding = BindingOf(r)
  BY <1>1, <1>2 DEF Phase, Recorded
<1>7. ASSUME Allowed(r), Conformant PROVE PermitReceipted(r)'
  <2> DEFINE rc == ReceiptOf(r)
  <2>1. rc \in receipts'
    BY <1>2, <1>7 DEF Conformant
  <2>2. /\ rc.by = r
        /\ rc.receipt = receiptFor(dec[r], tokenFingerprint(req[r].raw))
    BY DEF ReceiptOf
  <2>3. /\ rc.receipt.decision = "PERMIT"
        /\ rc.receipt.tokenHash = tokenFingerprint(req[r].raw)
        /\ rc.receipt.intentDigest = dec[r].binding
    BY <1>7, <2>2 DEF receiptFor, Allowed
  <2> QED
    BY <1>2, <1>5, <1>6, <2>1, <2>2, <2>3 DEF PermitReceipted
<1>8. Recorded(r)'
  BY <1>2, <1>3, <1>5, <1>6, <1>7 DEF Recorded
<1> QED
  BY <1>3, <1>4, <1>8, OthersKeepEvidence

(* Append puts the ALLOW entry of an allowed request into the log, with its *)
(* binding, under the locator the request is given.                         *)
LEMMA EvidenceChain ==
  ASSUME CoreInv, EvidenceInv, NEW r \in Requests, Chain(r)
  PROVE  EvidenceInv'
<1> DEFINE e == AppendedEntry(r, PepKey[r], mapDecision(dec[r].class))
<1>1. /\ r \in Callers /\ pc \in [Callers -> Labels] /\ Phase(r) /\ Recorded(r)
      /\ DOMAIN tag = Callers /\ entries \in Seq(Range(entries))
  BY RequestsAssumption DEF CoreInv, TypeOK, PhaseInv, EvidenceInv
<1>2. /\ pc[r] = "append"
      /\ pc' = [pc EXCEPT ![r] = IF Allowed(r) THEN "serve" ELSE "deny"]
      /\ entries' = Append(entries, e)
      /\ tag' = [tag EXCEPT ![r] = EntryTag(e)]
      /\ UNCHANGED <<req, dec, receipts, status>>
  BY DEF Chain, AppendOK, Goto
<1>3. /\ pc'[r] = IF Allowed(r) THEN "serve" ELSE "deny"
      /\ status'[r] = 0 /\ tag'[r] = EntryTag(e)
      /\ \A q \in Requests \ {r} : Keeps(q) /\ pc'[q] = pc[q] /\ status'[q] = status[q]
  BY <1>1, <1>2, RequestsAssumption DEF Keeps, Recorded
<1>4. /\ Len(entries) \in Nat /\ Len(entries') = Len(entries) + 1
      /\ \A i \in 1..Len(entries) : entries'[i] = entries[i]
      /\ entries'[Len(entries) + 1] = e
  <2> HIDE DEF e
  <2> QED
    BY <1>1, <1>2, AppendExtends
<1>5. EvidenceGrows
  BY <1>2, <1>4 DEF EvidenceGrows
<1>6. /\ req[r] \in Presentations /\ dec[r].binding = BindingOf(r)
      /\ BindingOf(r)' = BindingOf(r) /\ (Allowed(r)' <=> Allowed(r))
  BY <1>1, <1>2 DEF Phase, Recorded, BindingOf, Nonce, Allowed
<1>7. PermitReceipted(r) => PermitReceipted(r)'
  BY <1>2, <1>6 DEF PermitReceipted
<1>8. ASSUME Allowed(r) PROVE AllowChained(r)'
  <2>1. mapDecision(dec[r].class) = LogAllow
    BY <1>8, ClassesDiffer DEF mapDecision, Allowed
  <2>2. e.record.decision = LogAllow /\ e.record.binding = dec[r].binding
    BY <2>1 DEF AppendedEntry, Entry, NextRecord
  <2> HIDE DEF e
  <2>3. entries'[Len(entries')] = e /\ Len(entries') \in 1..Len(entries')
    BY <1>4
  <2>4. EntryOf(r, entries[Len(entries)])'
    BY <1>3, <2>3 DEF EntryOf
  <2> QED
    BY <1>6, <2>2, <2>3, <2>4 DEF AllowChained
<1>9. Recorded(r)'
  BY <1>1, <1>2, <1>3, <1>6, <1>7, <1>8 DEF Recorded
<1> QED
  BY <1>3, <1>5, <1>9, OthersKeepEvidence

(* The handler steps after Evaluate, one by one. *)
LEMMA EvidenceRecording ==
  ASSUME CoreInv, EvidenceInv, NEW r \in Requests, Recording(r)
  PROVE  EvidenceInv'
<1>0. Recorded(r)
  BY DEF EvidenceInv
<1>1. CASE Refuse(r)
  BY <1>1, EvidenceRespond DEF Refuse
<1>2. CASE EmitFails(r)
  <2>1. /\ UNCHANGED <<req, dec, entries, tag, receipts>> /\ pc[r] # "done"
        /\ \/ Respond(r, 503)
           \/ ~Allowed(r) /\ Goto(r, "stamp")
    BY <1>2 DEF EmitFails
  <2> QED
    BY <2>1, EvidenceRespond, EvidenceGoto
<1>3. CASE StampEntry(r)
  <2>1. /\ UNCHANGED <<req, dec, entries, tag, receipts>> /\ pc[r] = "stamp"
        /\ Goto(r, "append")
    BY <1>3 DEF StampEntry, Stamp, Goto, pepVars
  <2>2. Allowed(r) /\ Conformant => PermitReceipted(r)
    BY <1>0, <2>1 DEF Recorded
  <2> QED
    BY <2>1, <2>2, EvidenceGoto
<1>4. CASE ChainFails(r)
  <2>1. /\ UNCHANGED <<req, dec, entries, tag, receipts>> /\ pc[r] # "done"
        /\ Respond(r, 503) \/ Goto(r, "deny")
    BY <1>4 DEF ChainFails, AppendFails
  <2> QED
    BY <2>1, EvidenceRespond, EvidenceGoto
<1>5. CASE Serve(r)
  <2>1. /\ UNCHANGED <<req, dec, entries, tag, receipts>> /\ pc[r] = "serve"
        /\ Respond(r, 200)
    BY <1>5 DEF Serve
  <2>2. (Conformant => PermitReceipted(r)) /\ AllowChained(r)
    BY <1>0, <2>1 DEF Recorded
  <2> QED
    BY <2>1, <2>2, EvidenceRespond
<1>6. CASE Deny(r)
  <2>1. /\ UNCHANGED <<req, dec, entries, tag, receipts>>
        /\ Respond(r, 402) \/ Respond(r, 503)
    BY <1>6 DEF Deny
  <2> QED
    BY <2>1, EvidenceRespond
<1> QED
  BY <1>1, <1>2, <1>3, <1>4, <1>5, <1>6, EvidenceEmitOK, EvidenceChain DEF Recording

(* The evidence invariant is inductive relative to the core invariant. *)
LEMMA EvidenceInvStep == CoreInv /\ EvidenceInv /\ [Next]_vars => EvidenceInv'
<1> SUFFICES ASSUME CoreInv, EvidenceInv, [Next]_vars PROVE EvidenceInv'
  OBVIOUS
<1>1. ASSUME NEW r \in Requests, Receive(r) PROVE EvidenceInv'
  <2>1. UNCHANGED <<entries, tag, receipts, status>>
    BY <1>1 DEF Receive, Check, pepVars
  <2> QED
    BY <1>1, <2>1, ReceiveEffect, EvidenceBefore, RequestsAssumption
<1>2. ASSUME NEW r \in Requests, pc[r] \in {"policy", "spend"},
             dec'[r].binding = dec[r].binding, UNCHANGED req
      PROVE  dec'[r].binding = BindingOf(r)'
  <2>1. Phase(r) /\ Recorded(r)
    BY RequestsAssumption DEF CoreInv, PhaseInv, EvidenceInv
  <2> QED
    BY <1>2, <2>1 DEF Phase, Recorded, BindingOf, Nonce
<1>3. ASSUME NEW r \in Requests, AskPolicy(r) PROVE EvidenceInv'
  <2>1. /\ pc[r] = "policy" /\ pc'[r] \in {"spend", "decided"}
        /\ dec'[r].binding = dec[r].binding
        /\ UNCHANGED <<req, entries, tag, receipts, status>>
        /\ \A c \in Callers \ {r} : dec'[c] = dec[c] /\ pc'[c] = pc[c]
    BY <1>3, PolicyEffect
  <2>2. dec'[r].binding = BindingOf(r)'
    BY <1>2, <2>1
  <2> QED
    BY <2>1, <2>2, EvidenceBefore, RequestsAssumption
<1>4. ASSUME NEW r \in Requests, SpendNonce(r) PROVE EvidenceInv'
  <2>1. /\ pc[r] = "spend" /\ pc'[r] = "decided"
        /\ dec'[r].binding = dec[r].binding
        /\ UNCHANGED <<req, entries, tag, receipts, status>>
        /\ \A c \in Callers \ {r} : dec'[c] = dec[c] /\ pc'[c] = pc[c]
    BY <1>4, SpendEffect
  <2>2. dec'[r].binding = BindingOf(r)'
    BY <1>2, <2>1
  <2> QED
    BY <2>1, <2>2, EvidenceBefore, RequestsAssumption
<1>5. ASSUME UNCHANGED <<pc, req, dec, spent, entries, tag, receipts, status>>
      PROVE  EvidenceInv'
  BY <1>5 DEF EvidenceInv, Recorded, Allowed, PermitReceipted, AllowChained, EntryOf,
              BindingOf, Nonce
<1> QED
  BY <1>1, <1>3, <1>4, <1>5, EvidenceRecording, TickStep, StutterStep, StepCases

(* "ALLOW is served only if BOTH evidence artifacts" are recorded (pep.go): *)
(* with any number of requests and any failures of the emitter, the policy  *)
(* and the spend log, a served request has its PERMIT receipt (unless       *)
(* evidence.None was chosen) and its ALLOW entry, both for its payment.     *)
THEOREM ServiceHasEvidence == Spec => []ServedHasEvidence
<1>1. Spec => []EvidenceInv
  BY CoreInvInit, CoreInvStep, EvidenceInvInit, EvidenceInvStep, PTL DEF Spec
<1>2. EvidenceInv => ServedHasEvidence
  BY DEF EvidenceInv, Recorded, ServedHasEvidence
<1> QED
  BY <1>1, <1>2, PTL

---------------------------------------------------------------------------
(* What the chain says of the answers. *)

(* The answer a request got, or is about to get, is the one label stands    *)
(* for.                                                                     *)
Answers(r, label) ==
    \/ status[r] = AnswerOf(label)
    \/ status[r] = 0 /\ pc[r] = IF label = LogAllow THEN "serve" ELSE "deny"

(* Entry e is the record of request r's decision. *)
Owns(r, e) ==
    /\ EntryOf(r, e)
    /\ dec[r].class # Undecided
    /\ e.record.decision = mapDecision(dec[r].class)
    /\ e.record.binding = dec[r].binding
    /\ Answers(r, e.record.decision)

(* A request has no locator before Append; a locator starts with a sequence *)
(* number the log has reached.                                              *)
LocatorInv ==
    \A r \in Requests :
        /\ pc[r] \notin {"serve", "deny", "done"} => tag[r] = NoTag
        /\ tag[r] # NoTag => tag[r][1] \in 0..(Len(entries) - 1)

(* No two requests are given one locator. *)
LocatorsDiffer ==
    \A q, r \in Requests : q # r /\ tag[q] # NoTag => tag[q] # tag[r]

EntriesOwned ==
    \A i \in 1..Len(entries) : \E r \in Requests : Owns(r, entries[i])

AuditInv == LocatorInv /\ LocatorsDiffer /\ EntriesOwned


(* A step of a request that has no locator, and that leaves the log alone. *)
LEMMA AuditUnlogged ==
  ASSUME AuditInv, NEW r \in Requests, tag[r] = NoTag, UNCHANGED <<entries, tag>>,
         \A q \in Requests \ {r} :
            pc'[q] = pc[q] /\ dec'[q] = dec[q] /\ status'[q] = status[q]
  PROVE  AuditInv'
<1>1. LocatorInv'
  BY DEF AuditInv, LocatorInv
<1>2. LocatorsDiffer'
  BY DEF AuditInv, LocatorsDiffer
<1>3. ASSUME NEW i \in 1..Len(entries) PROVE \E q \in Requests : Owns(q, entries[i])'
  <2>1. PICK q \in Requests : Owns(q, entries[i])
    BY DEF AuditInv, EntriesOwned
  <2>2. tag[q] = EntryTag(entries[i])
    BY <2>1 DEF Owns, EntryOf
  <2>3. q # r
    BY <2>2 DEF EntryTag, NoTag
  <2>4. pc'[q] = pc[q] /\ dec'[q] = dec[q] /\ status'[q] = status[q]
    BY <2>3
  <2>5. Owns(q, entries[i])'
    BY <2>1, <2>4 DEF Owns, EntryOf, Answers
  <2> QED
    BY <2>5
<1>4. EntriesOwned'
  BY <1>3 DEF EntriesOwned
<1> QED
  BY <1>1, <1>2, <1>4 DEF AuditInv

(* The answer a chained decision is about to get is the one its label       *)
(* stands for.                                                              *)
LEMMA AuditAnswer ==
  ASSUME CoreInv, EvidenceInv, AuditInv, NEW r \in Requests, NEW code,
         UNCHANGED <<dec, entries, tag>>, Respond(r, code),
         \/ pc[r] = "serve" /\ code = 200
         \/ pc[r] = "deny" /\ code = IF dec[r].class = DenyUnavailable THEN 503 ELSE 402
  PROVE  AuditInv'
<1>1. /\ r \in Callers /\ DOMAIN pc = Callers /\ DOMAIN status = Requests
      /\ dec[r] \in Decisions
  BY RequestsAssumption DEF CoreInv, TypeOK
<1>2. /\ pc'[r] = "done" /\ status'[r] = code
      /\ \A q \in Requests \ {r} : pc'[q] = pc[q] /\ status'[q] = status[q]
  BY <1>1, RequestsAssumption DEF Respond
<1>3. status[r] = 0
  BY DEF EvidenceInv, Recorded
<1>4. LocatorInv'
  BY <1>2 DEF AuditInv, LocatorInv
<1>5. LocatorsDiffer'
  BY DEF AuditInv, LocatorsDiffer
<1>6. ASSUME NEW i \in 1..Len(entries) PROVE \E q \in Requests : Owns(q, entries[i])'
  <2>1. PICK q \in Requests : Owns(q, entries[i])
    BY DEF AuditInv, EntriesOwned
  <2>2. CASE q # r
    <3>1. pc'[q] = pc[q] /\ status'[q] = status[q]
      BY <1>2, <2>2
    <3>2. Owns(q, entries[i])'
      BY <2>1, <3>1 DEF Owns, EntryOf, Answers
    <3> QED
      BY <3>2
  <2>3. CASE q = r
    <3> DEFINE label == entries[i].record.decision
    <3>1. /\ EntryOf(r, entries[i]) /\ dec[r].class # Undecided
          /\ label = mapDecision(dec[r].class) /\ Answers(r, label)
          /\ entries[i].record.binding = dec[r].binding
      BY <2>1, <2>3 DEF Owns
    <3>2. dec[r].class \in {Allow, DenyViolation, DenyUnavailable}
      BY <1>1, <3>1 DEF Decisions
    <3>3. AnswerOf(label) \in {200, 402, 503}
      BY <3>1, <3>2, ClassesDiffer
         DEF mapDecision, AnswerOf, LogAllow, LogDenyViolation, LogDenyUnavailable
    <3>4. pc[r] = IF label = LogAllow THEN "serve" ELSE "deny"
      BY <1>3, <3>1, <3>3 DEF Answers
    <3>5. code = AnswerOf(label)
      BY <3>1, <3>2, <3>4, ClassesDiffer
         DEF mapDecision, AnswerOf, LogAllow, LogDenyViolation, LogDenyUnavailable
    <3>6. Answers(r, label)'
      BY <1>2, <3>5 DEF Answers, AnswerOf
    <3>7. Owns(r, entries[i])'
      BY <3>1, <3>6 DEF Owns, EntryOf
    <3> QED
      BY <3>7
  <2> QED
    BY <2>2, <2>3
<1>7. EntriesOwned'
  BY <1>6 DEF EntriesOwned
<1> QED
  BY <1>4, <1>5, <1>7 DEF AuditInv

(* Append gives the request the sequence number nobody has yet. *)
LEMMA AuditChain ==
  ASSUME CoreInv, EvidenceInv, AuditInv, NEW r \in Requests, Chain(r)
  PROVE  AuditInv'
<1> DEFINE e == AppendedEntry(r, PepKey[r], mapDecision(dec[r].class))
<1>1. /\ r \in Callers /\ DOMAIN pc = Callers /\ Phase(r) /\ Recorded(r)
      /\ DOMAIN tag = Callers /\ entries \in Seq(Range(entries)) /\ dec[r] \in Decisions
  BY RequestsAssumption DEF CoreInv, TypeOK, PhaseInv, EvidenceInv
<1>2. /\ pc[r] = "append"
      /\ pc' = [pc EXCEPT ![r] = IF Allowed(r) THEN "serve" ELSE "deny"]
      /\ entries' = Append(entries, e)
      /\ tag' = [tag EXCEPT ![r] = EntryTag(e)]
      /\ UNCHANGED <<dec, status>>
  BY DEF Chain, AppendOK, Goto
<1>3. /\ e.record.seq = Len(entries)
      /\ e.record.decision = mapDecision(dec[r].class)
      /\ e.record.binding = dec[r].binding
  BY DEF AppendedEntry, Entry, NextRecord
<1>4. EntryTag(e)[1] = Len(entries) /\ EntryTag(e) # NoTag
  BY <1>3 DEF EntryTag, NoTag
<1> HIDE DEF e
<1>5. /\ pc'[r] = IF Allowed(r) THEN "serve" ELSE "deny"
      /\ status'[r] = 0 /\ tag'[r] = EntryTag(e) /\ tag[r] = NoTag
      /\ \A q \in Requests \ {r} : pc'[q] = pc[q] /\ status'[q] = status[q] /\ tag'[q] = tag[q]
  BY <1>1, <1>2, RequestsAssumption DEF Recorded, AuditInv, LocatorInv
<1>6. /\ Len(entries) \in Nat /\ Len(entries') = Len(entries) + 1
      /\ \A i \in 1..Len(entries) : entries'[i] = entries[i]
      /\ entries'[Len(entries) + 1] = e
  BY <1>1, <1>2, AppendExtends
<1>7. LocatorInv'
  <2> SUFFICES ASSUME NEW q \in Requests
               PROVE  /\ pc'[q] \notin {"serve", "deny", "done"} => tag'[q] = NoTag
                      /\ tag'[q] # NoTag => tag'[q][1] \in 0..(Len(entries') - 1)
    BY DEF LocatorInv
  <2>1. CASE q = r
    BY <1>4, <1>5, <1>6, <2>1
  <2>2. CASE q # r
    BY <1>5, <1>6, <2>2 DEF AuditInv, LocatorInv
  <2> QED
    BY <2>1, <2>2
<1>8. LocatorsDiffer'
  <2>1. ASSUME NEW q \in Requests \ {r} PROVE tag[q] # EntryTag(e)
    <3>1. tag[q] # NoTag => tag[q][1] \in 0..(Len(entries) - 1)
      BY DEF AuditInv, LocatorInv
    <3> QED
      BY <1>4, <1>6, <3>1
  <2> SUFFICES ASSUME NEW p \in Requests, NEW q \in Requests, p # q, tag'[p] # NoTag
               PROVE  tag'[p] # tag'[q]
    BY DEF LocatorsDiffer
  <2>2. CASE p # r /\ q # r
    BY <1>5, <2>2 DEF AuditInv, LocatorsDiffer
  <2>3. CASE p = r
    BY <1>5, <2>1, <2>3
  <2>4. CASE q = r
    BY <1>5, <2>1, <2>4
  <2> QED
    BY <2>2, <2>3, <2>4
<1>9. ASSUME NEW i \in 1..Len(entries) PROVE \E q \in Requests : Owns(q, entries[i])'
  <2>1. PICK q \in Requests : Owns(q, entries[i])
    BY DEF AuditInv, EntriesOwned
  <2>2. tag[q] # NoTag
    BY <2>1 DEF Owns, EntryOf, EntryTag, NoTag
  <2>3. q # r
    BY <1>5, <2>2
  <2>4. /\ pc'[q] = pc[q] /\ status'[q] = status[q] /\ tag'[q] = tag[q]
        /\ entries'[i] = entries[i]
    BY <1>5, <1>6, <2>3
  <2>5. Owns(q, entries[i])'
    BY <1>2, <2>1, <2>4 DEF Owns, EntryOf, Answers
  <2> QED
    BY <2>5
<1>10. Owns(r, entries[Len(entries)])'
  <2>1. entries'[Len(entries')] = e
    BY <1>6
  <2>2. dec[r].class \in {Allow, DenyViolation, DenyUnavailable}
    BY <1>1, <1>2 DEF Phase, Decisions
  <2>3. e.record.decision = LogAllow <=> Allowed(r)
    BY <1>3, <2>2, ClassesDiffer
       DEF mapDecision, Allowed, LogAllow, LogDenyViolation, LogDenyUnavailable
  <2>4. Answers(r, entries[Len(entries)].record.decision)'
    BY <1>5, <2>1, <2>3 DEF Answers
  <2>5. EntryOf(r, entries[Len(entries)])'
    BY <1>5, <2>1 DEF EntryOf
  <2> QED
    BY <1>2, <1>3, <2>1, <2>2, <2>4, <2>5, ClassesDiffer DEF Owns
<1>11. EntriesOwned'
  <2> SUFFICES ASSUME NEW i \in 1..Len(entries')
               PROVE  \E q \in Requests : Owns(q, entries[i])'
    BY DEF EntriesOwned
  <2>1. i \in 1..Len(entries) \/ i = Len(entries')
    BY <1>6
  <2> QED
    BY <1>9, <1>10, <2>1
<1> QED
  BY <1>7, <1>8, <1>11 DEF AuditInv

(* The audit invariant is inductive relative to the other two. *)
LEMMA AuditInvStep == CoreInv /\ EvidenceInv /\ AuditInv /\ [Next]_vars => AuditInv'
<1> SUFFICES ASSUME CoreInv, EvidenceInv, AuditInv, [Next]_vars PROVE AuditInv'
  OBVIOUS
<1>1. ASSUME NEW r \in Requests, pc[r] \notin {"serve", "deny", "done"}
      PROVE  tag[r] = NoTag
  BY <1>1 DEF AuditInv, LocatorInv
<1>2. ASSUME NEW r \in Requests, Receive(r) \/ AskPolicy(r) \/ SpendNonce(r)
      PROVE  AuditInv'
  <2>1. /\ pc[r] \in {"idle", "policy", "spend"}
        /\ UNCHANGED <<entries, tag, status>>
        /\ \A c \in Callers \ {r} : pc'[c] = pc[c] /\ dec'[c] = dec[c]
    <3>1. CASE Receive(r)
      <4>1. UNCHANGED <<entries, tag, status>>
        BY <3>1 DEF Receive, Check, pepVars
      <4> QED
        BY <3>1, <4>1, ReceiveEffect
    <3> QED
      BY <1>2, <3>1, PolicyEffect, SpendEffect
  <2> QED
    BY <1>1, <2>1, AuditUnlogged, RequestsAssumption
<1>3. ASSUME NEW r \in Requests, Recording(r), ~Chain(r), ~Serve(r), ~Deny(r)
      PROVE  AuditInv'
  <2>1. /\ pc[r] \in {"idle", "decided", "stamp", "append"}
        /\ UNCHANGED <<dec, entries, tag>>
        /\ \/ \E code \in {401, 503} : Respond(r, code)
           \/ \E label \in {"stamp", "append", "deny"} : Goto(r, label)
    BY <1>3 DEF Recording, Refuse, EmitOK, EmitFails, StampEntry, Stamp, Goto,
                ChainFails, AppendFails, pepVars
  <2>2. DOMAIN pc = Callers /\ DOMAIN status = Requests
    BY DEF CoreInv, TypeOK
  <2>3. \A q \in Requests \ {r} : pc'[q] = pc[q] /\ status'[q] = status[q]
    BY <2>1, <2>2, RequestsAssumption DEF Respond, Goto
  <2> QED
    BY <1>1, <2>1, <2>3, AuditUnlogged
<1>4. ASSUME NEW r \in Requests, Serve(r) PROVE AuditInv'
  BY <1>4, AuditAnswer DEF Serve
<1>5. ASSUME NEW r \in Requests, Deny(r) PROVE AuditInv'
  BY <1>5, AuditAnswer DEF Deny
<1>6. ASSUME UNCHANGED <<pc, req, dec, spent, entries, tag, receipts, status>>
      PROVE  AuditInv'
  <2>1. LocatorInv' /\ LocatorsDiffer'
    BY <1>6 DEF AuditInv, LocatorInv, LocatorsDiffer
  <2>2. EntriesOwned'
    BY <1>6 DEF AuditInv, EntriesOwned, Owns, EntryOf, Answers
  <2> QED
    BY <2>1, <2>2 DEF AuditInv
<1> QED
  BY <1>2, <1>3, <1>4, <1>5, <1>6, AuditChain, TickStep, StutterStep, StepCases

(* The log is empty and nobody has a locator. *)
LEMMA AuditInvInit == Init => AuditInv
<1> SUFFICES ASSUME Init PROVE AuditInv
  OBVIOUS
<1>1. entries = <<>> /\ \A r \in Requests : tag[r] = NoTag
  BY RequestsAssumption DEF Init, CoreInit
<1>2. 1..Len(entries) = {}
  BY <1>1
<1> QED
  BY <1>1, <1>2 DEF AuditInv, LocatorInv, LocatorsDiffer, EntriesOwned

(* All invariants together, throughout. *)
LEMMA InvariantsHold == Spec => [](CoreInv /\ NonceInv /\ EvidenceInv /\ AuditInv)
  BY CoreInvInit, CoreInvStep, NonceInvInit, NonceInvStep, EvidenceInvInit,
     EvidenceInvStep, AuditInvInit, AuditInvStep, PTL DEF Spec

(* The signed record never contradicts the answer: every entry of the chain *)
(* belongs to exactly one request, and that request was answered, or will   *)
(* be answered by its next step, as the entry says, whatever fails and      *)
(* however the handlers interleave.                                         *)
THEOREM AuditIsTheAnswer == Spec => []AuditMatchesAnswer
<1>1. AuditInv => AuditMatchesAnswer
  <2> SUFFICES ASSUME AuditInv, NEW i \in 1..Len(entries)
               PROVE  \E r \in Requests :
                         /\ EntryOf(r, entries[i])
                         /\ \A q \in Requests \ {r} : ~EntryOf(q, entries[i])
                         /\ Answers(r, entries[i].record.decision)
    BY DEF AuditMatchesAnswer, Answers
  <2>1. PICK r \in Requests : Owns(r, entries[i])
    BY DEF AuditInv, EntriesOwned
  <2>2. tag[r] = EntryTag(entries[i]) /\ tag[r] # NoTag
    BY <2>1 DEF Owns, EntryOf, EntryTag, NoTag
  <2>3. \A q \in Requests \ {r} : ~EntryOf(q, entries[i])
    BY <2>2 DEF AuditInv, LocatorsDiffer, EntryOf
  <2> QED
    BY <2>1, <2>3 DEF Owns
<1> QED
  BY <1>1, InvariantsHold, PTL

---------------------------------------------------------------------------
(* Evidence is tied to the payment. *)

(* A receipt carries the binding of a decision that has been made, and a    *)
(* payment that does not bind never reaches the policy.                     *)
TiedInv ==
    /\ \A rc \in receipts :
          /\ rc.receipt.intentDigest = dec[rc.by].binding
          /\ dec[rc.by].class # Undecided
    /\ \A r \in Requests : req[r] \in Presentations /\ ~Binds(req[r].pr) =>
          pc[r] \notin {"policy", "spend"} /\ ~Allowed(r)

(* Nothing is recorded and nothing presented at the start. *)
LEMMA TiedInvInit == Init => TiedInv
<1> SUFFICES ASSUME Init PROVE TiedInv
  OBVIOUS
<1>1. receipts = {} /\ \A r \in Requests : req[r] = NoReq
  BY RequestsAssumption DEF Init, CoreInit, PEPInit
<1>2. \A r \in Requests : req[r] \notin Presentations
  BY <1>1, PresentationAssumption
<1> QED
  BY <1>1, <1>2 DEF TiedInv

(* Receive lets a payment that does not bind through to a denial only. *)
LEMMA ReceiveRefuses ==
  ASSUME CoreInv, NEW r \in Requests, Receive(r), ~Binds(req'[r].pr)
  PROVE  pc'[r] = "decided" /\ dec'[r].class = DenyViolation
<1>1. /\ r \in Callers /\ DOMAIN pc = Callers /\ DOMAIN dec = Callers /\ DOMAIN req = Callers
  BY RequestsAssumption DEF CoreInv, TypeOK
<1>2. PICK in \in HttpInputs : Check(r, in.pr, parseToken(in.header).tok, in.header)
  BY DEF Receive
<1> DEFINE tok == parseToken(in.header).tok
           p == [pr |-> in.pr, tok |-> tok, raw |-> in.header]
           bound == ComputeBinding(in.pr, tok.nonce)
<1>3. req' = [req EXCEPT ![r] = p]
  BY <1>2 DEF Check
<1>4. req'[r].pr = in.pr
  BY <1>1, <1>3
<1>5. bound.err # ""
  BY <1>4 DEF Binds, ComputeBinding
<1>6. /\ dec' = [dec EXCEPT ![r] = Decision(DenyViolation, "binding", bound.binding)]
      /\ pc' = [pc EXCEPT ![r] = "decided"]
  BY <1>2, <1>5 DEF Check
<1> HIDE DEF bound
<1> QED
  BY <1>1, <1>6 DEF Decision

(* The tie is inductive relative to the core invariant. *)
LEMMA TiedInvStep == CoreInv /\ TiedInv /\ [Next]_vars => TiedInv'
<1> SUFFICES ASSUME CoreInv, TiedInv, [Next]_vars PROVE TiedInv'
  OBVIOUS
<1>0. /\ Requests \subseteq Callers /\ DOMAIN pc = Callers
      /\ \A rc \in receipts : rc.by \in Requests
  BY RequestsAssumption DEF CoreInv, TypeOK
<1>1. ASSUME NEW r \in Requests, pc[r] \in {"idle", "policy", "spend"},
             UNCHANGED receipts,
             \A c \in Callers \ {r} : req'[c] = req[c] /\ dec'[c] = dec[c] /\ pc'[c] = pc[c],
             req'[r] \in Presentations /\ ~Binds(req'[r].pr) =>
                pc'[r] \notin {"policy", "spend"} /\ dec'[r].class # Allow
      PROVE  TiedInv'
  <2>1. dec[r].class = Undecided
    BY <1>0, <1>1 DEF CoreInv, PhaseInv, Phase
  <2>2. ASSUME NEW rc \in receipts
        PROVE  rc.receipt.intentDigest = dec'[rc.by].binding /\ dec'[rc.by].class # Undecided
    BY <1>0, <1>1, <2>1 DEF TiedInv
  <2>3. ASSUME NEW q \in Requests, req'[q] \in Presentations, ~Binds(req'[q].pr)
        PROVE  pc'[q] \notin {"policy", "spend"} /\ dec'[q].class # Allow
    <3>1. CASE q = r
      BY <1>1, <2>3, <3>1
    <3>2. CASE q # r
      <4>1. req'[q] = req[q] /\ dec'[q] = dec[q] /\ pc'[q] = pc[q]
        BY <1>0, <1>1, <3>2
      <4> QED
        BY <2>3, <4>1 DEF TiedInv, Allowed
    <3> QED
      BY <3>1, <3>2
  <2> QED
    BY <1>1, <2>2, <2>3 DEF TiedInv, Allowed
<1>2. ASSUME NEW r \in Requests, Receive(r) PROVE TiedInv'
  <2>1. UNCHANGED receipts
    BY <1>2 DEF Receive, pepVars
  <2>2. ~Binds(req'[r].pr) => pc'[r] \notin {"policy", "spend"} /\ dec'[r].class # Allow
    BY <1>2, ReceiveRefuses, ClassesDiffer
  <2> QED
    BY <1>1, <1>2, <2>1, <2>2, ReceiveEffect
<1>3. ASSUME NEW r \in Requests, AskPolicy(r) \/ SpendNonce(r) PROVE TiedInv'
  <2>1. /\ pc[r] \in {"policy", "spend"} /\ UNCHANGED <<req, receipts>>
        /\ \A c \in Callers \ {r} : dec'[c] = dec[c] /\ pc'[c] = pc[c]
    BY <1>3, PolicyEffect, SpendEffect
  <2>2. req[r] \in Presentations /\ ~Binds(req[r].pr) => FALSE
    BY <2>1 DEF TiedInv
  <2> QED
    BY <1>1, <2>1, <2>2
<1>4. ASSUME NEW r \in Requests, Recording(r) PROVE TiedInv'
  <2>1. UNCHANGED <<req, dec>>
    BY <1>4, RecordingStep
  <2>2. PICK label \in {"stamp", "append", "serve", "deny", "done"} :
           /\ pc' = [pc EXCEPT ![r] = label]
           /\ \/ receipts' = receipts
              \/ pc[r] = "decided" /\ receipts' = receipts \cup {ReceiptOf(r)}
    BY <1>4 DEF Recording, Refuse, EmitOK, EmitFails, StampEntry, Stamp, Chain, ChainFails,
                AppendFails, Serve, Deny, Respond, Goto, pepVars
  <2>3. \A q \in Requests : pc'[q] \in {"policy", "spend"} => pc[q] \in {"policy", "spend"}
    BY <1>0, <2>2
  <2>4. /\ ReceiptOf(r).by = r /\ ReceiptOf(r).receipt.intentDigest = dec[r].binding
    BY DEF ReceiptOf, receiptFor
  <2>5. pc[r] = "decided" => dec[r].class # Undecided
    BY <1>0 DEF CoreInv, PhaseInv, Phase
  <2>6. \A rc \in receipts' :
           rc.receipt.intentDigest = dec[rc.by].binding /\ dec[rc.by].class # Undecided
    BY <2>2, <2>4, <2>5 DEF TiedInv
  <2> QED
    BY <2>1, <2>3, <2>6 DEF TiedInv, Allowed
<1>5. ASSUME UNCHANGED <<pc, req, dec, spent, entries, tag, receipts, status>>
      PROVE  TiedInv'
  BY <1>5 DEF TiedInv, Allowed
<1> QED
  BY <1>2, <1>3, <1>4, <1>5, TickStep, StutterStep, StepCases

(* Two presented payments with one binding are the same, or neither binds.  *)
LEMMA SameBinding ==
  ASSUME TagsDistinct, NEW p \in Presentations, NEW q \in Presentations,
         ComputeBinding(p.pr, p.tok.nonce).binding = ComputeBinding(q.pr, q.tok.nonce).binding
  PROVE  \/ PaymentMeaning(p.pr, p.tok.nonce) = PaymentMeaning(q.pr, q.tok.nonce)
         \/ ~Binds(p.pr) /\ ~Binds(q.pr)
<1> DEFINE a == p.pr
           b == q.pr
           x == p.tok.nonce
           y == q.tok.nonce
<1>1. PaymentFields(a) /\ PaymentFields(b)
  BY PresentationAssumption DEF PaymentFields
<1>2. ASSUME NEW pr, NEW n
      PROVE  /\ Binds(pr) => ComputeBinding(pr, n).binding # Zero32
             /\ ~Binds(pr) => ComputeBinding(pr, n).binding = Zero32
  <2>1. \A m : Sha256(m) # Zero32
    <3> SUFFICES ASSUME NEW m, Sha256(m) = Zero32 PROVE FALSE
      OBVIOUS
    <3>1. [digest |-> <<m>>].digest = [digest |-> <<>>].digest
      BY DEF Sha256, Zero32
    <3>2. <<m>> = <<>>
      BY <3>1
    <3> QED
      BY <3>2
  <2>2. ~Binds(pr) => ComputeBinding(pr, n).binding = Zero32
    BY DEF ComputeBinding, Binds
  <2>3. Binds(pr) => \E m : ComputeBinding(pr, n).binding = Sha256(m)
    BY DEF ComputeBinding, Binds, computeBindingRaw
  <2> QED
    BY <2>1, <2>2, <2>3
<1> HIDE DEF a, b, x, y
<1>3. ComputeBinding(a, x).binding = ComputeBinding(b, y).binding
  BY DEF a, b, x, y
<1>4. CASE Binds(a) /\ Binds(b)
  <2>1. /\ a.scheme \in DOMAIN SchemeTag /\ b.scheme \in DOMAIN SchemeTag
        /\ a.network \in DOMAIN NetworkTag /\ b.network \in DOMAIN NetworkTag
    BY <1>1, <1>4, BindsWhen
  <2>2. /\ SchemeTag[a.scheme] = SchemeTag[b.scheme] => a.scheme = b.scheme
        /\ NetworkTag[a.network] = NetworkTag[b.network] => a.network = b.network
    BY <2>1 DEF TagsDistinct
  <2>3. PaymentMeaning(a, x) = PaymentMeaning(b, y)
    BY <1>1, <1>3, <1>4, <2>2, BindingIdentifies
  <2> QED
    BY <2>3 DEF a, b, x, y
<1>5. CASE ~Binds(a) \/ ~Binds(b)
  <2>1. ~Binds(a) /\ ~Binds(b)
    BY <1>2, <1>3, <1>5
  <2> QED
    BY <2>1 DEF a, b
<1> QED
  BY <1>4, <1>5

(* A digest under which a request appears in the evidence is the binding of *)
(* what it presented.                                                       *)
LEMMA DigestIsBinding ==
  ASSUME CoreInv, EvidenceInv, AuditInv, TiedInv, NEW r \in Requests,
         NEW d \in EvidenceDigests(r)
  PROVE  req[r] \in Presentations /\ d = BindingOf(r)
<1>1. dec[r].class # Undecided /\ d = dec[r].binding
  <2>1. CASE \E rc \in receipts : rc.by = r /\ d = rc.receipt.intentDigest
    BY <2>1 DEF TiedInv
  <2>2. CASE \E e \in Range(entries) : EntryOf(r, e) /\ d = e.record.binding
    <3>1. PICK e \in Range(entries) : EntryOf(r, e) /\ d = e.record.binding
      BY <2>2
    <3>2. entries \in Seq(Range(entries))
      BY DEF CoreInv, TypeOK
    <3>3. PICK i \in 1..Len(entries) : e = entries[i]
      BY <3>1, <3>2 DEF Range
    <3>4. PICK q \in Requests : Owns(q, e)
      BY <3>3 DEF AuditInv, EntriesOwned
    <3>5. tag[q] = tag[r] /\ tag[q] # NoTag
      BY <3>1, <3>4 DEF Owns, EntryOf, EntryTag, NoTag
    <3>6. q = r
      BY <3>5 DEF AuditInv, LocatorsDiffer
    <3> QED
      BY <3>1, <3>4, <3>6 DEF Owns
  <2> QED
    BY <2>1, <2>2 DEF EvidenceDigests
<1>2. req[r] \in Presentations
  BY <1>1, RequestsAssumption DEF CoreInv, PhaseInv, Phase
<1> QED
  BY <1>1, <1>2 DEF EvidenceInv, Recorded

(* "evidence is always tied to the exact payment considered" (gate.go): for *)
(* any payments, keys and amounts of any width, two requests whose receipts *)
(* or entries share a digest were about one payment under one nonce, or     *)
(* neither payment binds and neither request was allowed.                   *)
THEOREM EvidenceIsTied ==
  ASSUME TagsDistinct
  PROVE  Spec => []EvidenceTiedToPayment
<1>1. CoreInv /\ EvidenceInv /\ AuditInv /\ TiedInv => EvidenceTiedToPayment
  <2> SUFFICES ASSUME CoreInv, EvidenceInv, AuditInv, TiedInv,
                      NEW q \in Requests, NEW r \in Requests,
                      NEW d \in EvidenceDigests(q) \cap EvidenceDigests(r)
               PROVE  \/ PaymentMeaning(req[q].pr, Nonce(q)) = PaymentMeaning(req[r].pr, Nonce(r))
                      \/ /\ BindingError(req[q].pr) # "" /\ BindingError(req[r].pr) # ""
                         /\ ~Allowed(q) /\ ~Allowed(r)
    BY DEF EvidenceTiedToPayment
  <2>1. req[q] \in Presentations /\ req[r] \in Presentations /\ BindingOf(q) = BindingOf(r)
    BY DigestIsBinding
  <2>2. \/ PaymentMeaning(req[q].pr, Nonce(q)) = PaymentMeaning(req[r].pr, Nonce(r))
        \/ ~Binds(req[q].pr) /\ ~Binds(req[r].pr)
    BY <2>1, SameBinding DEF BindingOf, Nonce
  <2>3. CASE ~Binds(req[q].pr) /\ ~Binds(req[r].pr)
    <3>1. ~Allowed(q) /\ ~Allowed(r)
      BY <2>1, <2>3 DEF TiedInv
    <3> QED
      BY <2>3, <3>1 DEF Binds
  <2> QED
    BY <2>2, <2>3
<1>2. Spec => []TiedInv
  BY CoreInvInit, CoreInvStep, TiedInvInit, TiedInvStep, PTL DEF Spec
<1> QED
  BY <1>1, <1>2, InvariantsHold, PTL

---------------------------------------------------------------------------
(* What the refinement needs to know besides. *)

(* A request that has not passed Emit has no receipt, the no-op emitter     *)
(* keeps none at all, and only a denial is answered by Deny.                *)
ReceiptInv ==
    /\ EmitterIsNoop => receipts = {}
    /\ \A r \in Requests :
          /\ pc[r] \in {"idle", "policy", "spend", "decided"} =>
                \A rc \in receipts : rc.by # r
          /\ pc[r] = "deny" => ~Allowed(r)

(* The receipt invariant is inductive relative to the core invariant. *)
LEMMA ReceiptInvStep == CoreInv /\ ReceiptInv /\ [Next]_vars => ReceiptInv'
<1> SUFFICES ASSUME CoreInv, ReceiptInv, [Next]_vars PROVE ReceiptInv'
  OBVIOUS
<1>1. ASSUME NEW r \in Requests,
             receipts' = receipts \/ (~EmitterIsNoop /\ pc'[r] = "stamp"
                                      /\ receipts' = receipts \cup {ReceiptOf(r)}),
             \A q \in Requests \ {r} : pc'[q] = pc[q] /\ dec'[q] = dec[q],
             pc'[r] \in {"idle", "policy", "spend", "decided"} =>
                pc[r] \in {"idle", "policy", "spend", "decided"},
             pc'[r] = "deny" => ~Allowed(r)'
      PROVE  ReceiptInv'
  <2>1. \A rc \in receipts' : rc \in receipts \/ (rc.by = r /\ pc'[r] = "stamp")
    BY <1>1 DEF ReceiptOf
  <2>2. EmitterIsNoop => receipts' = {}
    BY <1>1 DEF ReceiptInv
  <2>3. ASSUME NEW q \in Requests
        PROVE  /\ pc'[q] \in {"idle", "policy", "spend", "decided"} =>
                     \A rc \in receipts' : rc.by # q
               /\ pc'[q] = "deny" => ~Allowed(q)'
    BY <1>1, <2>1 DEF ReceiptInv, Allowed
  <2> QED
    BY <2>2, <2>3 DEF ReceiptInv
<1>2. ASSUME NEW r \in Requests, Receive(r) \/ AskPolicy(r) \/ SpendNonce(r)
      PROVE  ReceiptInv'
  <2>1. /\ pc[r] \in {"idle", "policy", "spend"} /\ pc'[r] # "deny"
        /\ receipts' = receipts
        /\ \A c \in Callers \ {r} : pc'[c] = pc[c] /\ dec'[c] = dec[c]
    <3>1. CASE Receive(r)
      <4>1. UNCHANGED receipts
        BY <3>1 DEF Receive, pepVars
      <4> QED
        BY <3>1, <4>1, ReceiveEffect
    <3> QED
      BY <1>2, <3>1, PolicyEffect, SpendEffect
  <2> QED
    BY <1>1, <2>1, RequestsAssumption
<1>3. ASSUME NEW r \in Requests, Recording(r) PROVE ReceiptInv'
  <2>1. DOMAIN pc = Callers /\ r \in Callers /\ UNCHANGED dec
    BY <1>3, RecordingStep, RequestsAssumption DEF CoreInv, TypeOK
  <2>2. PICK label \in {"stamp", "append", "serve", "deny", "done"} :
           /\ pc' = [pc EXCEPT ![r] = label]
           /\ label = "deny" => ~Allowed(r) \/ pc[r] = "deny"
           /\ \/ receipts' = receipts
              \/ /\ ~EmitterIsNoop /\ label = "stamp"
                 /\ receipts' = receipts \cup {ReceiptOf(r)}
    BY <1>3 DEF Recording, Refuse, EmitOK, EmitFails, StampEntry, Stamp, Chain, ChainFails,
                AppendFails, Serve, Deny, Respond, Goto, pepVars
  <2>3. pc'[r] = label /\ \A q \in Requests \ {r} : pc'[q] = pc[q] /\ dec'[q] = dec[q]
    BY <2>1, <2>2, RequestsAssumption
  <2>4. pc'[r] = "deny" => ~Allowed(r)'
    BY <2>1, <2>2, <2>3 DEF ReceiptInv, Allowed
  <2> QED
    BY <1>1, <2>2, <2>3, <2>4
<1>4. ASSUME UNCHANGED <<pc, req, dec, spent, entries, tag, receipts, status>>
      PROVE  ReceiptInv'
  BY <1>4 DEF ReceiptInv, Allowed
<1> QED
  BY <1>2, <1>3, <1>4, TickStep, StutterStep, StepCases

(* There are no receipts at the start. *)
LEMMA ReceiptInvInit == Init => ReceiptInv
<1>1. ASSUME Init, NEW r \in Requests PROVE receipts = {} /\ pc[r] = "idle"
  BY <1>1, RequestsAssumption DEF Init, CoreInit, PEPInit
<1>2. Init => receipts = {}
  BY DEF Init, PEPInit
<1> QED
  BY <1>1, <1>2 DEF ReceiptInv

---------------------------------------------------------------------------
(* Every step is one AuthzSpec allows, or leaves its variables alone. *)

(* The chain entry of an ALLOW: the last artifact. *)
HasEntry(r) == Allowed(r) /\ tag[r] # NoTag

(* Nothing that the abstract grants are read off has changed. *)
LEMMA GrantsKept ==
  ASSUME \A q \in Requests : Allowed(q)' <=> Allowed(q),
         \A q \in Requests : Allowed(q) => Nonce(q)' = Nonce(q)
  PROVE  AbsGrants' = AbsGrants
<1>1. {q \in Requests : Allowed(q)}' = {q \in Requests : Allowed(q)}
  OBVIOUS
<1> QED
  BY <1>1 DEF AbsGrants

(* Nor the evidence. *)
LEMMA AbsEvidenceKept ==
  ASSUME \A q \in Requests : HasPermit(q)' <=> HasPermit(q),
         \A q \in Requests : HasEntry(q)' <=> HasEntry(q)
  PROVE  AbsEvidence' = AbsEvidence
  BY DEF AbsEvidence, HasEntry

(* A request without an ALLOW entry is answered with something other than   *)
(* 200.                                                                     *)
LEMMA AbsRefuse ==
  ASSUME CoreInv, NEW r \in Requests, NEW code \in {401, 402, 503}, Respond(r, code),
         status[r] = 0, ~HasEntry(r), UNCHANGED <<req, dec, tag, receipts>>
  PROVE  Authz!RefuseRequest(r)
<1>1. AbsGrants' = AbsGrants
  BY GrantsKept DEF Allowed, Nonce
<1>2. AbsEvidence' = AbsEvidence
  BY AbsEvidenceKept DEF HasPermit, HasEntry, Allowed
<1>3. DOMAIN status = Requests /\ status' = [status EXCEPT ![r] = code]
  BY DEF CoreInv, TypeOK, Respond
<1>4. AbsOutcome[r] = "open" /\ AbsOutcome' = [AbsOutcome EXCEPT ![r] = "refused"]
  <2>1. status'[r] = code /\ \A q \in Requests \ {r} : status'[q] = status[q]
    BY <1>3
  <2>2. AbsOutcome[r] = "open" /\ AbsOutcome'[r] = "refused"
    BY <2>1 DEF AbsOutcome
  <2>3. \A q \in Requests \ {r} : AbsOutcome'[q] = AbsOutcome[q]
    BY <2>1 DEF AbsOutcome
  <2>4. /\ AbsOutcome' = [q \in Requests |-> AbsOutcome'[q]]
        /\ AbsOutcome = [q \in Requests |-> AbsOutcome[q]]
    BY DEF AbsOutcome
  <2> QED
    BY <2>2, <2>3, <2>4
<1>5. "entry" \notin AbsEvidence[r]
  BY DEF AbsEvidence, HasEntry
<1> QED
  BY <1>1, <1>2, <1>4, <1>5 DEF Authz!RefuseRequest

(* A decision other than ALLOW is nothing to the abstract specification. *)
LEMMA AbsUndecided ==
  ASSUME CoreInv, NEW r \in Requests, ~Allowed(r), ~Allowed(r)',
         UNCHANGED <<tag, receipts, status>>,
         \A c \in Callers \ {r} : req'[c] = req[c] /\ dec'[c] = dec[c]
  PROVE  UNCHANGED Authz!absVars
<1>1. \A q \in Requests : (Allowed(q)' <=> Allowed(q)) /\ (Allowed(q) => Nonce(q)' = Nonce(q))
  BY RequestsAssumption DEF Allowed, Nonce
<1>2. AbsGrants' = AbsGrants
  BY <1>1, GrantsKept
<1>3. AbsEvidence' = AbsEvidence
  BY <1>1, AbsEvidenceKept DEF HasPermit, HasEntry
<1>4. AbsOutcome' = AbsOutcome
  BY DEF AbsOutcome
<1> QED
  BY <1>2, <1>3, <1>4 DEF Authz!absVars

(* Spending the nonce is the grant. *)
LEMMA AbsSpend ==
  ASSUME CoreInv, NonceInv, EvidenceInv, AuditInv, NEW r \in Requests, SpendNonce(r)
  PROVE  (\E n \in Nonces : Authz!Grant(r, n)) \/ UNCHANGED Authz!absVars
<1>1. /\ r \in Callers /\ Phase(r) /\ pc[r] = "spend" /\ status[r] = 0 /\ tag[r] = NoTag
      /\ UNCHANGED <<req, tag, receipts, status>>
      /\ \A c \in Callers \ {r} : dec'[c] = dec[c]
  BY SpendEffect, RequestsAssumption
     DEF CoreInv, PhaseInv, EvidenceInv, Recorded, AuditInv, LocatorInv
<1>2. ~Allowed(r) /\ Nonce(r) \in Nonces
  BY <1>1, PresentationAssumption, ClassesDiffer DEF Phase, Nonce, Allowed
<1>3. CASE ~Allowed(r)'
  <2>1. UNCHANGED Authz!absVars
    BY <1>1, <1>2, <1>3, AbsUndecided
  <2> QED
    BY <2>1
<1>4. CASE Allowed(r)'
  <2>1. Nonce(r) \notin spent
    BY <1>4, SpendEffect DEF Allowed
  <2>2. \A q \in Requests : /\ Nonce(q)' = Nonce(q)
                            /\ Allowed(q)' <=> Allowed(q) \/ q = r
    BY <1>1, <1>4, RequestsAssumption DEF Nonce, Allowed
  <2>3. {q \in Requests : Allowed(q)}' = {q \in Requests : Allowed(q)} \cup {r}
    BY <2>2
  <2>4. AbsGrants' = AbsGrants \cup {<<r, Nonce(r)>>}
    BY <2>2, <2>3 DEF AbsGrants
  <2>5. \A q \in Requests : <<q, Nonce(r)>> \notin AbsGrants
    <3>1. \A q \in Requests : Allowed(q) => Nonce(q) # Nonce(r)
      BY <2>1, RequestsAssumption DEF NonceInv, AllowedIsSpent
    <3> QED
      BY <3>1 DEF AbsGrants
  <2>6. \A n \in Nonces : <<r, n>> \notin AbsGrants
    BY <1>2 DEF AbsGrants
  <2>7. AbsEvidence' = AbsEvidence
    BY <1>1, <2>2, AbsEvidenceKept DEF HasPermit, HasEntry
  <2>8. AbsOutcome[r] = "open" /\ AbsOutcome' = AbsOutcome
    BY <1>1 DEF AbsOutcome
  <2>9. Authz!Grant(r, Nonce(r))
    BY <2>4, <2>5, <2>6, <2>7, <2>8 DEF Authz!Grant, Authz!Granted
  <2> QED
    BY <1>2, <2>9
<1> QED
  BY <1>3, <1>4

(* An allowed request holds its grant. *)
LEMMA AbsGranted ==
  ASSUME CoreInv, NEW r \in Requests, Allowed(r)
  PROVE  Authz!Granted(r)
<1>1. Phase(r)
  BY RequestsAssumption DEF CoreInv, PhaseInv
<1>2. Nonce(r) \in Nonces
  BY <1>1, PresentationAssumption, ClassesDiffer DEF Phase, Nonce, Allowed
<1>3. <<r, Nonce(r)>> \in AbsGrants
  BY DEF AbsGrants
<1> QED
  BY <1>2, <1>3 DEF Authz!Granted

(* Emit records the receipt. *)
LEMMA AbsEmit ==
  ASSUME CoreInv, EvidenceInv, AuditInv, ReceiptInv, NEW r \in Requests, EmitOK(r)
  PROVE  (\E a \in AbsArtifacts : Authz!Record(r, a)) \/ UNCHANGED Authz!absVars
<1>1. /\ pc[r] = "decided" /\ status[r] = 0 /\ tag[r] = NoTag
      /\ UNCHANGED <<req, dec, tag, status>>
      /\ \A rc \in receipts : rc.by # r
  BY DEF EvidenceInv, Recorded, AuditInv, LocatorInv, ReceiptInv, EmitOK, Goto
<1>2. AbsGrants' = AbsGrants
  BY <1>1, GrantsKept DEF Allowed, Nonce
<1>3. AbsOutcome[r] = "open" /\ AbsOutcome' = AbsOutcome
  BY <1>1 DEF AbsOutcome
<1>4. \A q \in Requests : HasEntry(q)' <=> HasEntry(q)
  BY <1>1 DEF HasEntry, Allowed
<1>5. CASE Allowed(r) /\ Conformant
  <2>1. receipts' = receipts \cup {ReceiptOf(r)}
    BY <1>5 DEF EmitOK, Conformant
  <2>2. ReceiptOf(r).by = r /\ ReceiptOf(r).receipt.decision = "PERMIT"
    BY <1>5 DEF ReceiptOf, receiptFor, Allowed
  <2>3. \A q \in Requests : HasPermit(q)' <=> HasPermit(q) \/ q = r
    <3> HIDE DEF ReceiptOf
    <3> QED
      BY <2>1, <2>2 DEF HasPermit
  <2>4. ~HasPermit(r) /\ ~HasEntry(r)
    BY <1>1 DEF HasPermit, HasEntry
  <2>5. AbsEvidence' = [AbsEvidence EXCEPT ![r] = @ \cup {"receipt"}]
    BY <1>4, <2>3, <2>4 DEF AbsEvidence, HasEntry
  <2>6. "receipt" \notin AbsEvidence[r] /\ "receipt" \in AbsArtifacts
    BY <1>5, <2>4 DEF AbsEvidence, AbsArtifacts
  <2>7. Authz!Record(r, "receipt")
    BY <1>2, <1>3, <1>5, <2>5, <2>6, AbsGranted DEF Authz!Record
  <2> QED
    BY <2>6, <2>7
<1>6. CASE ~(Allowed(r) /\ Conformant)
  <2>1. \A q \in Requests : HasPermit(q)' <=> HasPermit(q)
    <3>1. CASE EmitterIsNoop
      BY <3>1 DEF EmitOK, HasPermit
    <3>2. CASE ~EmitterIsNoop
      <4>1. receipts' = receipts \cup {ReceiptOf(r)}
        BY <3>2 DEF EmitOK
      <4>2. ReceiptOf(r).receipt.decision # "PERMIT"
        BY <1>6, <3>2 DEF ReceiptOf, receiptFor, Allowed, Conformant
      <4> HIDE DEF ReceiptOf
      <4> QED
        BY <4>1, <4>2 DEF HasPermit
    <3> QED
      BY <3>1, <3>2
  <2>2. AbsEvidence' = AbsEvidence
    BY <1>4, <2>1, AbsEvidenceKept
  <2> QED
    BY <1>2, <1>3, <2>2 DEF Authz!absVars
<1> QED
  BY <1>5, <1>6

(* Append records the entry, once the receipt is there. *)
LEMMA AbsChain ==
  ASSUME CoreInv, EvidenceInv, AuditInv, ReceiptInv, NEW r \in Requests, Chain(r)
  PROVE  (\E a \in AbsArtifacts : Authz!Record(r, a)) \/ UNCHANGED Authz!absVars
<1>1. /\ pc[r] = "append" /\ status[r] = 0 /\ tag[r] = NoTag /\ DOMAIN tag = Callers
      /\ UNCHANGED <<req, dec, receipts, status>> /\ r \in Callers
  BY RequestsAssumption
     DEF CoreInv, TypeOK, EvidenceInv, Recorded, AuditInv, LocatorInv, Chain, AppendOK, Goto
<1> DEFINE e == AppendedEntry(r, PepKey[r], mapDecision(dec[r].class))
<1>2. tag' = [tag EXCEPT ![r] = EntryTag(e)]
  BY DEF Chain, AppendOK
<1>3. tag'[r] # NoTag /\ \A q \in Requests \ {r} : tag'[q] = tag[q]
  <2> HIDE DEF e
  <2>1. EntryTag(e) # NoTag
    BY DEF EntryTag, NoTag
  <2> QED
    BY <1>1, <1>2, <2>1, RequestsAssumption
<1>4. AbsGrants' = AbsGrants
  BY <1>1, GrantsKept DEF Allowed, Nonce
<1>5. AbsOutcome[r] = "open" /\ AbsOutcome' = AbsOutcome
  BY <1>1 DEF AbsOutcome
<1>6. \A q \in Requests : HasPermit(q)' <=> HasPermit(q)
  BY <1>1 DEF HasPermit
<1>7. CASE ~Allowed(r)
  <2>1. \A q \in Requests : HasEntry(q)' <=> HasEntry(q)
    BY <1>1, <1>3, <1>7 DEF HasEntry, Allowed
  <2>2. AbsEvidence' = AbsEvidence
    BY <1>6, <2>1, AbsEvidenceKept
  <2> QED
    BY <1>4, <1>5, <2>2 DEF Authz!absVars
<1>8. CASE Allowed(r)
  <2>1. \A q \in Requests : HasEntry(q)' <=> HasEntry(q) \/ q = r
    BY <1>1, <1>3, <1>8 DEF HasEntry, Allowed
  <2>2. AbsEvidence' = [AbsEvidence EXCEPT ![r] = @ \cup {"entry"}]
    BY <1>6, <2>1 DEF AbsEvidence, HasEntry
  <2>3. HasPermit(r) <=> Conformant
    <3>1. Conformant => PermitReceipted(r)
      BY <1>1, <1>8 DEF EvidenceInv, Recorded
    <3>2. ~Conformant => receipts = {}
      BY DEF Conformant, ReceiptInv
    <3> QED
      BY <3>1, <3>2 DEF HasPermit, PermitReceipted
  <2>4. AbsEvidence[r] = AbsArtifacts \ {"entry"} /\ "entry" \in AbsArtifacts
    BY <1>1, <2>3 DEF AbsEvidence, AbsArtifacts
  <2>5. Authz!Record(r, "entry")
    BY <1>4, <1>5, <1>8, <2>2, <2>4, AbsGranted DEF Authz!Record
  <2> QED
    BY <2>4, <2>5
<1> QED
  BY <1>7, <1>8

(* Serve serves a grant whose evidence is complete. *)
LEMMA AbsServe ==
  ASSUME CoreInv, EvidenceInv, ReceiptInv, NEW r \in Requests, Serve(r)
  PROVE  Authz!ServeGranted(r)
<1>1. /\ pc[r] = "serve" /\ status[r] = 0 /\ Allowed(r) /\ AllowChained(r)
      /\ Conformant => PermitReceipted(r)
      /\ UNCHANGED <<req, dec, tag, receipts>>
      /\ status' = [status EXCEPT ![r] = 200] /\ DOMAIN status = Requests
  BY DEF CoreInv, TypeOK, EvidenceInv, Recorded, Serve, Respond
<1>2. AbsGrants' = AbsGrants
  BY <1>1, GrantsKept DEF Allowed, Nonce
<1>3. AbsEvidence' = AbsEvidence
  BY <1>1, AbsEvidenceKept DEF HasPermit, HasEntry, Allowed
<1>4. AbsOutcome[r] = "open" /\ AbsOutcome' = [AbsOutcome EXCEPT ![r] = "served"]
  <2>1. status'[r] = 200 /\ \A q \in Requests \ {r} : status'[q] = status[q]
    BY <1>1
  <2>2. AbsOutcome[r] = "open" /\ AbsOutcome'[r] = "served"
    BY <1>1, <2>1 DEF AbsOutcome
  <2>3. \A q \in Requests \ {r} : AbsOutcome'[q] = AbsOutcome[q]
    BY <2>1 DEF AbsOutcome
  <2>4. /\ AbsOutcome' = [q \in Requests |-> AbsOutcome'[q]]
        /\ AbsOutcome = [q \in Requests |-> AbsOutcome[q]]
    BY DEF AbsOutcome
  <2> QED
    BY <2>2, <2>3, <2>4
<1>5. tag[r] # NoTag
  BY <1>1 DEF AllowChained, EntryOf, EntryTag, NoTag
<1>6. HasPermit(r) <=> Conformant
  <2>1. ~Conformant => receipts = {}
    BY DEF Conformant, ReceiptInv
  <2> QED
    BY <1>1, <2>1 DEF HasPermit, PermitReceipted
<1>7. AbsEvidence[r] = AbsArtifacts
  BY <1>1, <1>5, <1>6 DEF AbsEvidence, AbsArtifacts
<1> QED
  BY <1>2, <1>3, <1>4, <1>7 DEF Authz!ServeGranted

(* What each step is to the abstract specification. *)
LEMMA AbsStep ==
  CoreInv /\ NonceInv /\ EvidenceInv /\ AuditInv /\ ReceiptInv /\ [Next]_vars
      => [Authz!AbsNext]_(Authz!absVars)
<1> SUFFICES ASSUME CoreInv, NonceInv, EvidenceInv, AuditInv, ReceiptInv, [Next]_vars
             PROVE  Authz!AbsNext \/ UNCHANGED Authz!absVars
  BY DEF Authz!absVars
<1>1. ASSUME NEW r \in Requests, Receive(r) \/ AskPolicy(r)
      PROVE  UNCHANGED Authz!absVars
  <2>1. /\ pc[r] \in {"idle", "policy"} /\ ~Allowed(r)'
        /\ \A c \in Callers \ {r} : req'[c] = req[c] /\ dec'[c] = dec[c]
        /\ UNCHANGED <<tag, receipts, status>>
    <3>1. CASE Receive(r)
      <4>1. UNCHANGED <<tag, receipts, status>>
        BY <3>1 DEF Receive, Check, pepVars
      <4> QED
        BY <3>1, <4>1, ReceiveEffect, ClassesDiffer DEF Allowed
    <3>2. CASE AskPolicy(r)
      BY <3>2, PolicyEffect DEF Allowed
    <3> QED
      BY <1>1, <3>1, <3>2
  <2>2. ~Allowed(r)
    BY <2>1, RequestsAssumption, ClassesDiffer DEF CoreInv, PhaseInv, Phase, Allowed
  <2> QED
    BY <2>1, <2>2, AbsUndecided
<1>2. ASSUME NEW r \in Requests, SpendNonce(r)
      PROVE  Authz!AbsNext \/ UNCHANGED Authz!absVars
  BY <1>2, AbsSpend DEF Authz!AbsNext
<1>3. ASSUME NEW r \in Requests, EmitOK(r) \/ Chain(r)
      PROVE  Authz!AbsNext \/ UNCHANGED Authz!absVars
  BY <1>3, AbsEmit, AbsChain DEF Authz!AbsNext
<1>4. ASSUME NEW r \in Requests, Serve(r) PROVE Authz!AbsNext
  BY <1>4, AbsServe DEF Authz!AbsNext
<1>5. ASSUME NEW r \in Requests, Refuse(r) \/ EmitFails(r) \/ ChainFails(r) \/ Deny(r)
      PROVE  Authz!AbsNext \/ UNCHANGED Authz!absVars
  <2>1. /\ UNCHANGED <<req, dec, tag, receipts>>
        /\ \/ \E code \in {401, 402, 503} : Respond(r, code)
           \/ UNCHANGED status
        /\ pc[r] \in {"idle", "decided", "append", "deny"}
    BY <1>5 DEF Refuse, EmitFails, ChainFails, AppendFails, Deny, Goto
  <2>2. status[r] = 0
    BY <2>1 DEF EvidenceInv, Recorded
  <2>3. ~HasEntry(r)
    <3>1. pc[r] = "deny" => ~Allowed(r)
      BY DEF ReceiptInv
    <3>2. pc[r] # "deny" => tag[r] = NoTag
      BY <2>1 DEF AuditInv, LocatorInv
    <3> QED
      BY <3>1, <3>2 DEF HasEntry
  <2>4. CASE UNCHANGED status
    <3>1. UNCHANGED <<AbsGrants, AbsEvidence, AbsOutcome>>
      BY <2>1, <2>4 DEF AbsGrants, AbsEvidence, AbsOutcome, HasPermit, Allowed, Nonce
    <3> QED
      BY <3>1 DEF Authz!absVars
  <2>5. ASSUME NEW code \in {401, 402, 503}, Respond(r, code) PROVE Authz!AbsNext
    BY <2>1, <2>2, <2>3, <2>5, AbsRefuse DEF Authz!AbsNext
  <2> QED
    BY <2>1, <2>4, <2>5
<1>6. ASSUME UNCHANGED <<req, dec, tag, receipts, status>>
      PROVE  UNCHANGED Authz!absVars
  <2>1. UNCHANGED <<AbsGrants, AbsEvidence, AbsOutcome>>
    BY <1>6 DEF AbsGrants, AbsEvidence, AbsOutcome, HasPermit, Allowed, Nonce
  <2> QED
    BY <2>1 DEF Authz!absVars
<1>7. ASSUME NEW r \in Requests, StampEntry(r) PROVE UNCHANGED Authz!absVars
  BY <1>6, <1>7 DEF StampEntry, Stamp, pepVars
<1> QED
  BY <1>1, <1>2, <1>3, <1>4, <1>5, <1>6, <1>7, TickStep, StutterStep, StepCases DEF Recording

(* Nothing is granted, recorded or answered at the start. *)
LEMMA AbsInitHolds == Init => Authz!AbsInit
<1> SUFFICES ASSUME Init PROVE Authz!AbsInit
  OBVIOUS
<1>1. /\ receipts = {}
      /\ \A r \in Requests : ~Allowed(r) /\ status[r] = 0
  BY RequestsAssumption, ClassesDiffer DEF Init, CoreInit, PEPInit, Decision, Allowed
<1>2. AbsGrants = {}
  BY <1>1 DEF AbsGrants
<1>3. AbsEvidence = [r \in Requests |-> {}]
  BY <1>1 DEF AbsEvidence, HasPermit
<1>4. AbsOutcome = [r \in Requests |-> "open"]
  BY <1>1 DEF AbsOutcome
<1> QED
  BY <1>2, <1>3, <1>4 DEF Authz!AbsInit

(* The safety part of ImplementsAuthz: Wrap's handler, for any number of    *)
(* requests and whatever fails, grants a nonce to one request at most,      *)
(* gathers the evidence of a grant in order, the chain entry last, serves   *)
(* only a grant whose evidence is complete, and refuses nothing that has an *)
(* ALLOW entry.  (That it does serve, under fairness, is left to TLC.)      *)
THEOREM PEPImplementsAuthz == Spec => Authz!AbsSpec
<1>1. Spec => [](CoreInv /\ NonceInv /\ EvidenceInv /\ AuditInv /\ ReceiptInv)
  BY InvariantsHold, ReceiptInvInit, ReceiptInvStep, PTL DEF Spec
<1> QED
  BY <1>1, AbsInitHolds, AbsStep, PTL DEF Spec, Authz!AbsSpec
---------------------------------------------------------------------------
(* What the liveness of the handler rests on: the answer fits the decision, *)
(* is given once, and no request goes round in circles.                     *)

(* The statuses that fit a decision: a request without one was refused, an  *)
(* ALLOW is served or held back for want of evidence, a denial has one.     *)
FittingStatus(class) ==
    CASE class = Undecided -> {401} [] class = Allow -> {200, 503}
      [] class = DenyViolation -> {402} [] class = DenyUnavailable -> {503}

(* A request has a status exactly when its handler has returned, and it     *)
(* fits the decision; only an ALLOW is about to be served.                  *)
AnswerOK(r) ==
    /\ pc[r] = "done" <=> status[r] # 0
    /\ pc[r] = "done" => status[r] \in FittingStatus(dec[r].class)
    /\ pc[r] = "serve" => dec[r].class = Allow
    /\ pc[r] = "deny" => dec[r].class \in {DenyViolation, DenyUnavailable}

AnswersFit == \A r \in Requests : AnswerOK(r)

(* What fits what. *)
LEMMA FittingStatuses ==
  /\ FittingStatus(Undecided) = {401}
  /\ FittingStatus(Allow) = {200, 503}
  /\ FittingStatus(DenyViolation) = {402}
  /\ FittingStatus(DenyUnavailable) = {503}
  BY ClassesDiffer DEF FittingStatus

(* A step of one request that leaves the others alone keeps their answers.  *)
LEMMA OthersKeepAnswer ==
  ASSUME AnswersFit, NEW r \in Requests, AnswerOK(r)',
         \A q \in Requests \ {r} : pc'[q] = pc[q] /\ dec'[q] = dec[q]
                                   /\ status'[q] = status[q]
  PROVE  AnswersFit'
<1> SUFFICES ASSUME NEW q \in Requests PROVE AnswerOK(q)'
  BY DEF AnswersFit
<1>1. CASE q = r
  BY <1>1
<1>2. CASE q # r
  <2>1. /\ AnswerOK(q) /\ pc'[q] = pc[q] /\ dec'[q] = dec[q] /\ status'[q] = status[q]
    BY <1>2 DEF AnswersFit
  <2> QED
    BY <2>1 DEF AnswerOK
<1> QED
  BY <1>1, <1>2

(* A step of a request without an answer, from a place that is not "done"   *)
(* to one where it is not answered either, before it is known what to do.   *)
LEMMA StillOpen ==
  ASSUME CoreInv, AnswersFit, NEW r \in Requests, pc[r] # "done",
         pc'[r] \notin {"done", "serve", "deny"}, UNCHANGED status,
         \A q \in Requests \ {r} : pc'[q] = pc[q] /\ dec'[q] = dec[q]
  PROVE  AnswersFit'
<1>1. AnswerOK(r)'
  BY DEF AnswersFit, AnswerOK
<1> QED
  BY <1>1, OthersKeepAnswer

(* A step that answers request r. *)
LEMMA AnswerGiven ==
  ASSUME CoreInv, AnswersFit, NEW r \in Requests, NEW code \in {200, 401, 402, 503},
         Respond(r, code), UNCHANGED dec, code \in FittingStatus(dec[r].class)
  PROVE  AnswersFit'
<1>1. /\ r \in Callers /\ Requests \subseteq Callers /\ pc \in [Callers -> Labels]
      /\ status \in [Requests -> {0, 200, 401, 402, 503}]
  BY RequestsAssumption DEF CoreInv, TypeOK
<1>2. pc'[r] = "done" /\ status'[r] = code
  BY <1>1 DEF Respond
<1>3. \A q \in Requests \ {r} : pc'[q] = pc[q] /\ status'[q] = status[q]
  BY <1>1 DEF Respond
<1>4. AnswerOK(r)'
  BY <1>2 DEF AnswerOK
<1> QED
  BY <1>3, <1>4, OthersKeepAnswer

(* A step that takes request r on after its decision, unanswered. *)
LEMMA AnswerPending ==
  ASSUME CoreInv, AnswersFit, NEW r \in Requests, NEW label \in Labels \ {"done"},
         pc' = [pc EXCEPT ![r] = label], UNCHANGED <<status, dec>>, pc[r] # "done",
         label = "serve" => dec[r].class = Allow,
         label = "deny" => dec[r].class \in {DenyViolation, DenyUnavailable}
  PROVE  AnswersFit'
<1>1. r \in Callers /\ Requests \subseteq Callers /\ pc \in [Callers -> Labels]
  BY RequestsAssumption DEF CoreInv, TypeOK
<1>2. pc'[r] = label /\ \A q \in Requests \ {r} : pc'[q] = pc[q]
  BY <1>1
<1>3. AnswerOK(r)'
  BY <1>2 DEF AnswersFit, AnswerOK
<1> QED
  BY <1>2, <1>3, OthersKeepAnswer

(* After Evaluate the decision is an ALLOW or one of the two denials. *)
LEMMA DecidedClasses ==
  ASSUME CoreInv, NEW r \in Requests, pc[r] \in {"decided", "stamp", "append"}
  PROVE  /\ dec[r].class \in {Allow, DenyViolation, DenyUnavailable}
         /\ ~Allowed(r) => dec[r].class \in {DenyViolation, DenyUnavailable}
<1>1. r \in Callers /\ Phase(r) /\ dec[r] \in Decisions
  BY RequestsAssumption DEF CoreInv, TypeOK, PhaseInv
<1>2. dec[r].class \in {Undecided, Allow, DenyViolation, DenyUnavailable}
  BY <1>1 DEF Decisions
<1> QED
  BY <1>1, <1>2 DEF Phase, Allowed

(* The steps that record evidence and answer. *)
LEMMA AnswersRecording ==
  ASSUME CoreInv, AnswersFit, NEW r \in Requests, Recording(r)
  PROVE  AnswersFit'
<1> USE FittingStatuses DEF Labels
<1>1. CASE Refuse(r)
  <2>1. r \in Callers /\ Phase(r)
    BY RequestsAssumption DEF CoreInv, PhaseInv
  <2>2. dec[r].class = Undecided /\ Respond(r, 401) /\ UNCHANGED dec
    BY <1>1, <2>1 DEF Refuse, Phase
  <2> QED
    BY <2>2, AnswerGiven
<1>2. CASE EmitOK(r)
  BY <1>2, AnswerPending DEF EmitOK, Goto
<1>3. CASE EmitFails(r)
  <2>1. CASE Allowed(r)
    BY <1>3, <2>1, AnswerGiven DEF EmitFails, Allowed
  <2>2. CASE ~Allowed(r)
    BY <1>3, <2>2, AnswerPending DEF EmitFails, Goto
  <2> QED
    BY <2>1, <2>2
<1>4. CASE StampEntry(r)
  BY <1>4, AnswerPending DEF StampEntry, Stamp, pepVars
<1>5. CASE Chain(r)
  <2>1. pc[r] = "append" /\ UNCHANGED dec
    BY <1>5 DEF Chain, AppendOK
  <2>2. CASE Allowed(r)
    BY <1>5, <2>1, <2>2, AnswerPending DEF Chain, Goto, Allowed
  <2>3. CASE ~Allowed(r)
    BY <1>5, <2>1, <2>3, DecidedClasses, AnswerPending DEF Chain, Goto
  <2> QED
    BY <2>2, <2>3
<1>6. CASE ChainFails(r)
  <2>1. pc[r] = "append" /\ UNCHANGED dec
    BY <1>6 DEF ChainFails, AppendFails
  <2>2. CASE Allowed(r)
    BY <1>6, <2>1, <2>2, AnswerGiven DEF ChainFails, Allowed
  <2>3. CASE ~Allowed(r)
    BY <1>6, <2>1, <2>3, DecidedClasses, AnswerPending DEF ChainFails, Goto
  <2> QED
    BY <2>2, <2>3
<1>7. CASE Serve(r)
  <2>1. dec[r].class = Allow
    BY <1>7 DEF Serve, AnswersFit, AnswerOK
  <2> QED
    BY <1>7, <2>1, AnswerGiven DEF Serve
<1>8. CASE Deny(r)
  <2>1. dec[r].class \in {DenyViolation, DenyUnavailable} /\ UNCHANGED dec
    BY <1>8 DEF Deny, AnswersFit, AnswerOK
  <2>2. CASE dec[r].class = DenyUnavailable
    BY <1>8, <2>1, <2>2, AnswerGiven DEF Deny
  <2>3. CASE dec[r].class = DenyViolation
    <3>1. Respond(r, 402)
      BY <1>8, <2>3, ClassesDiffer DEF Deny
    <3> QED
      BY <2>1, <2>3, <3>1, AnswerGiven
  <2> QED
    BY <2>1, <2>2, <2>3
<1> QED
  BY <1>1, <1>2, <1>3, <1>4, <1>5, <1>6, <1>7, <1>8 DEF Recording

(* Every step keeps the answers fitting. *)
LEMMA AnswersFitStep == CoreInv /\ AnswersFit /\ [Next]_vars => AnswersFit'
<1> SUFFICES ASSUME CoreInv, AnswersFit, [Next]_vars PROVE AnswersFit'
  OBVIOUS
<1>0. Requests \subseteq Callers
  BY RequestsAssumption
<1>1. ASSUME NEW r \in Requests, Receive(r) PROVE AnswersFit'
  BY <1>0, <1>1, ReceiveEffect, StillOpen DEF Receive, pepVars
<1>2. ASSUME NEW r \in Requests, AskPolicy(r) PROVE AnswersFit'
  BY <1>0, <1>2, PolicyEffect, StillOpen
<1>3. ASSUME NEW r \in Requests, SpendNonce(r) PROVE AnswersFit'
  BY <1>0, <1>3, SpendEffect, StillOpen
<1>4. CASE UNCHANGED <<pc, dec, status>>
  BY <1>4 DEF AnswersFit, AnswerOK
<1> QED
  BY <1>1, <1>2, <1>3, <1>4, AnswersRecording, TickStep, StutterStep, StepCases

(* The safety half of DenialSurvivesEvidenceOutage and of Answered: Wrap's  *)
(* handler never returns without an answer, a violation is never answered   *)
(* anything but 402, an outage anything but 503, whatever becomes of their  *)
(* evidence, and nobody but an allowed request is served.                   *)
THEOREM AnswerFitsDecision == Spec => []AnswersFit
<1>1. Init => AnswersFit
  <2> SUFFICES ASSUME Init, NEW r \in Requests PROVE AnswerOK(r)
    BY DEF AnswersFit
  <2>1. pc[r] = "idle" /\ status[r] = 0
    BY RequestsAssumption DEF Init, CoreInit, PEPInit
  <2> QED
    BY <2>1 DEF AnswerOK
<1> QED
  BY <1>1, CoreInvInit, CoreInvStep, AnswersFitStep, PTL DEF Spec

(* How far from its answer a request at label l is. *)
StepsLeft(l) ==
    CASE l = "idle" -> 7 [] l = "policy" -> 6 [] l = "spend" -> 5
      [] l = "decided" -> 4 [] l = "stamp" -> 3 [] l = "append" -> 2
      [] l \in {"serve", "deny"} -> 1 [] OTHER -> 0

(* Going from one label to another is a way towards the answer. *)
Towards(from, to) == StepsLeft(to) < StepsLeft(from)

(* A step takes one request towards its answer and no other one anywhere,   *)
(* or is a step of the clock.                                               *)
OneAdvances ==
    \/ UNCHANGED <<pc, req, dec, status>>
    \/ \E r \in Requests :
          /\ Towards(pc[r], pc'[r])
          /\ \A q \in Callers \ {r} : UNCHANGED <<pc[q], req[q], dec[q]>>
          /\ \A q \in Requests \ {r} : UNCHANGED status[q]

(* The ways through the handler. *)
LEMMA WaysForward ==
  /\ Towards("idle", "policy") /\ Towards("idle", "decided") /\ Towards("idle", "done")
  /\ Towards("policy", "spend") /\ Towards("policy", "decided")
  /\ Towards("spend", "decided")
  /\ Towards("decided", "stamp") /\ Towards("decided", "done")
  /\ Towards("stamp", "append")
  /\ Towards("append", "serve") /\ Towards("append", "deny") /\ Towards("append", "done")
  /\ Towards("serve", "done") /\ Towards("deny", "done")
  /\ \A l : ~Towards("done", l)
  BY DEF Towards, StepsLeft

(* A step that leaves the presentations and the decisions alone. *)
LEMMA HandlerAdvances ==
  ASSUME CoreInv, NEW r \in Requests, NEW label, UNCHANGED <<req, dec>>,
         \/ Goto(r, label)
         \/ label = "done" /\ \E code \in {200, 401, 402, 503} : Respond(r, code),
         Towards(pc[r], label)
  PROVE  OneAdvances
<1>1. /\ r \in Callers /\ pc \in [Callers -> Labels]
      /\ status \in [Requests -> {0, 200, 401, 402, 503}]
  BY RequestsAssumption DEF CoreInv, TypeOK
<1>2. pc' = [pc EXCEPT ![r] = label]
  BY DEF Goto, Respond
<1>3. pc'[r] = label /\ \A q \in Callers \ {r} : pc'[q] = pc[q]
  BY <1>1, <1>2
<1>4. \A q \in Requests \ {r} : status'[q] = status[q]
  BY <1>1 DEF Goto, Respond
<1> QED
  BY <1>3, <1>4 DEF OneAdvances

(* The handler's own steps. *)
LEMMA RecordingAdvances ==
  ASSUME CoreInv, NEW r \in Requests, Recording(r)
  PROVE  OneAdvances
<1>0. UNCHANGED <<req, dec>>
  BY RecordingStep
<1> USE WaysForward
<1>1. CASE Refuse(r)
  BY <1>0, <1>1, HandlerAdvances DEF Refuse
<1>2. CASE EmitOK(r)
  BY <1>0, <1>2, HandlerAdvances DEF EmitOK
<1>3. CASE EmitFails(r)
  BY <1>0, <1>3, HandlerAdvances DEF EmitFails
<1>4. CASE StampEntry(r)
  <2>1. Goto(r, "append") /\ pc[r] = "stamp"
    BY <1>4 DEF StampEntry, Stamp, Goto, pepVars
  <2> QED
    BY <1>0, <2>1, HandlerAdvances
<1>5. CASE Chain(r)
  BY <1>0, <1>5, HandlerAdvances DEF Chain, AppendOK
<1>6. CASE ChainFails(r)
  BY <1>0, <1>6, HandlerAdvances DEF ChainFails, AppendFails
<1>7. CASE Serve(r)
  BY <1>0, <1>7, HandlerAdvances DEF Serve
<1>8. CASE Deny(r)
  BY <1>0, <1>8, HandlerAdvances DEF Deny
<1> QED
  BY <1>1, <1>2, <1>3, <1>4, <1>5, <1>6, <1>7, <1>8 DEF Recording

(* Every step takes at most one request forward. *)
LEMMA StepAdvances == CoreInv /\ [Next]_vars => OneAdvances
<1> SUFFICES ASSUME CoreInv, [Next]_vars PROVE OneAdvances
  OBVIOUS
<1>1. ASSUME NEW r \in Requests, Receive(r) PROVE OneAdvances
  <2>1. UNCHANGED status
    BY <1>1 DEF Receive, pepVars
  <2> QED
    BY <1>1, <2>1, ReceiveEffect, WaysForward DEF OneAdvances
<1>2. ASSUME NEW r \in Requests, AskPolicy(r) PROVE OneAdvances
  BY <1>2, PolicyEffect, WaysForward DEF OneAdvances
<1>3. ASSUME NEW r \in Requests, SpendNonce(r) PROVE OneAdvances
  BY <1>3, SpendEffect, WaysForward DEF OneAdvances
<1>4. CASE UNCHANGED <<pc, req, dec, status>>
  BY <1>4 DEF OneAdvances
<1> QED
  BY <1>1, <1>2, <1>3, <1>4, RecordingAdvances, TickStep, StutterStep, StepCases

(* PEP.Wrap: the handler has no loop and no retry: a request is answered    *)
(* after at most seven steps of its own, whatever the policy, the spend     *)
(* log, the emitter and the transparency log return.                        *)
THEOREM HandlerEnds == Spec => [][OneAdvances]_vars
  BY CoreInvInit, CoreInvStep, StepAdvances, PTL DEF Spec

(* What an answered request keeps. *)
AnswerIsFinal ==
    \A r \in Requests : status[r] # 0 => UNCHANGED <<pc[r], req[r], dec[r], status[r]>>

(* PEP.Wrap: a response is written once: no later step of any request, and  *)
(* no late evidence failure, changes it or the decision it was given for.   *)
THEOREM AnsweredOnce == Spec => [][AnswerIsFinal]_vars
<1>1. CoreInv /\ AnswersFit /\ [Next]_vars => AnswerIsFinal
  <2> SUFFICES ASSUME CoreInv, AnswersFit, [Next]_vars, NEW q \in Requests, status[q] # 0
               PROVE  UNCHANGED <<pc[q], req[q], dec[q], status[q]>>
    BY DEF AnswerIsFinal
  <2>1. q \in Callers /\ pc[q] = "done" /\ OneAdvances
    BY RequestsAssumption, StepAdvances DEF AnswersFit, AnswerOK
  <2>2. \A l : ~Towards(pc[q], l)
    BY <2>1, WaysForward
  <2> QED
    BY <2>1, <2>2 DEF OneAdvances
<1>2. Spec => []AnswersFit
  BY AnswerFitsDecision
<1> QED
  BY <1>1, <1>2, CoreInvInit, CoreInvStep, PTL DEF Spec
=============================================================================
