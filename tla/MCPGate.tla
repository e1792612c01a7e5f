------------------------------- MODULE MCPGate -------------------------------
(***************************************************************************)
(* mcpgate/mcpgate.go: the enforcement point for an agent's payment tool   *)
(* calls.  Authorize runs the same gate and writes to the same kind of log *)
(* as the HTTP handler, but emits no receipt and discards Append's error.  *)
(*                                                                         *)
(* A tool call is [to, asset, amount, resource, nonce, expiry], with       *)
(* addresses and amounts as in Gate.                                       *)
(***************************************************************************)
EXTENDS EnforcementCore, ExactPayment

CONSTANTS
    ToolCalls,        \* the callers that are tool calls
    CallInputs,       \* what an agent can ask for
    EnforcerScheme,   \* Enforcer.Scheme
    EnforcerNetwork,  \* Enforcer.Network
    EnforcerKey       \* the key pair of Enforcer.RKey, for the enforcer of each call

ASSUME ToolCallsAssumption == ToolCalls \subseteq Callers
ASSUME CallAssumption ==
    \A call \in CallInputs : call.amount.digits \in Int /\ call.expiry \in Int

VARIABLE result  \* Result.Class of each call that has returned, else Undecided

MCPInit == result = [t \in ToolCalls |-> Undecided]

---------------------------------------------------------------------------
(* Authorize *)

(* The payment and the token a call stands for; scheme and network are the  *)
(* enforcer's.                                                              *)
PaymentOf(call) ==
    [scheme |-> EnforcerScheme, network |-> EnforcerNetwork,
     asset |-> call.asset, payTo |-> call.to,
     amount |-> call.amount, resource |-> call.resource]

TokenOf(call) == [nonce |-> call.nonce, expiry |-> call.expiry]

Authorize(t) ==
    /\ \E call \in CallInputs : Check(t, PaymentOf(call), TokenOf(call), call)
    /\ UNCHANGED result

AskCapability(t) ==
    /\ Presented(t)
    /\ Policy(t, ExactPaymentVerify(req[t].pr))
    /\ UNCHANGED result

SpendCallNonce(t) == Spend(t) /\ UNCHANGED result

StampCall(t) == Stamp(t, "decided") /\ UNCHANGED result

Return(t) ==
    /\ pc' = [pc EXCEPT ![t] = "done"]
    /\ result' = [result EXCEPT ![t] = dec[t].class]

(* Mutation of ConvertClass: one enumeration has been reordered. *)
ConvertClassReordered(class) ==
    CASE class = Allow -> LogAllow
      [] class = DenyViolation -> LogDenyUnavailable
      [] class = DenyUnavailable -> LogDenyViolation

(* translog.Decision(d.Class): the two enumerations share their values. *)
ConvertClass(class) == class

(* entry, _ := e.Log.Append(...) *)
LogCall(t) == AppendOK(t, EnforcerKey[t], ConvertClass(dec[t].class)) /\ Return(t)

(* The zero Entry that Append returns with an error. *)
ZeroRecord ==
    [seq |-> 0, decision |-> LogAllow, binding |-> Zero32, issuedAt |-> 0, prevHash |-> Zero32]

(* Append failed: the error is dropped, the result keeps its class, and its *)
(* LogEntry is the locator of the zero record.                              *)
LogCallFails(t) ==
    /\ pc[t] = "append"
    /\ ~SelfVerifies(LogPub, AppendedEntry(t, EnforcerKey[t], ConvertClass(dec[t].class)))
    /\ Return(t)
    /\ tag' = [tag EXCEPT ![t] = <<ZeroRecord.seq, Hash(ZeroRecord)>>]
    /\ UNCHANGED <<clock, req, dec, spent, stamp, entries>>

MCPContinue(t) ==
    \/ AskCapability(t) \/ SpendCallNonce(t)
    \/ StampCall(t) \/ LogCall(t) \/ LogCallFails(t)

MCPNext == \E t \in ToolCalls : Authorize(t) \/ MCPContinue(t)

---------------------------------------------------------------------------
(* Correctness *)

(* An allowed tool call is inside the approved capability, judged by what   *)
(* is bound and signed and not by what the policy compared: the binding the *)
(* caller is allowed on is that of the approved asset, recipient and        *)
(* resource, for an amount within the limit.  The policy reads the amount   *)
(* with ParseUint, the binding with big.Int.SetString.                      *)
AllowedIsApproved ==
    \A t \in ToolCalls : Allowed(t) =>
        dec[t].binding \in ApprovedBindings(EnforcerScheme, EnforcerNetwork, Nonce(t))

(* "emits a signed log entry on every path": a tool call that has returned  *)
(* has an entry of the log, with its decision and its binding, at the       *)
(* locator it was given.                                                    *)
ResultIsLogged ==
    \A t \in ToolCalls : result[t] # Undecided =>
        \E i \in 1..Len(entries) :
            /\ EntryTag(entries[i]) = tag[t]
            /\ entries[i].record.decision = result[t]
            /\ entries[i].record.binding = dec[t].binding
=============================================================================
