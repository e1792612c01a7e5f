------------------------------- MODULE PEPAuthz -------------------------------
(***************************************************************************)
(* The HTTP enforcement point implements AuthzSpec.  A grant is an ALLOW   *)
(* decision; the evidence of a grant is its PERMIT receipt and the chain   *)
(* entry Append returned; the outcome is read off the response.            *)
(***************************************************************************)
EXTENDS PEP

AbsArtifacts == IF Conformant THEN {"receipt", "entry"} ELSE {"entry"}

AbsGrants == {<<r, Nonce(r)>> : r \in {q \in Requests : Allowed(q)}}

HasPermit(r) ==
    \E rc \in receipts : rc.by = r /\ rc.receipt.decision = "PERMIT"

AbsEvidence ==
    [r \in Requests |->
        (IF HasPermit(r) THEN {"receipt"} ELSE {})
            \cup (IF Allowed(r) /\ tag[r] # NoTag THEN {"entry"} ELSE {})]

AbsOutcome ==
    [r \in Requests |->
        IF status[r] = 0 THEN "open"
        ELSE IF status[r] = 200 THEN "served" ELSE "refused"]

Authz == INSTANCE AuthzSpec
            WITH Artifacts <- AbsArtifacts, grants <- AbsGrants,
                 evidence <- AbsEvidence, outcome <- AbsOutcome

(* Wrap's handler, with every interleaving of requests, policy and spend    *)
(* log outcomes and evidence failures, only does what AuthzSpec allows, and *)
(* serves whatever has complete evidence.                                   *)
ImplementsAuthz == Authz!AbsFairSpec
=============================================================================
