------------------------------ MODULE AuthzSpec ------------------------------
(***************************************************************************)
(* What an enforcement point promises, and nothing about how it keeps the  *)
(* promise.  An authorization (a nonce) is granted to one request at most. *)
(* A granted request gathers its evidence, the chain entry last; with all  *)
(* of it, and only then, it is served.  Any request without a chain entry  *)
(* that says ALLOW may be refused instead, for whatever reason.            *)
(***************************************************************************)
CONSTANTS
    Requests,
    Nonces,
    Artifacts  \* what must be recorded before service; "entry" is one of them

VARIABLES
    grants,   \* pairs <<request, nonce>>
    evidence, \* what is recorded for the grant of each request
    outcome   \* "open", "served" or "refused"

absVars == <<grants, evidence, outcome>>

AbsInit ==
    /\ grants = {}
    /\ evidence = [r \in Requests |-> {}]
    /\ outcome = [r \in Requests |-> "open"]

Granted(r) == \E n \in Nonces : <<r, n>> \in grants

Grant(r, n) ==
    /\ outcome[r] = "open" /\ ~Granted(r)
    /\ \A q \in Requests : <<q, n>> \notin grants
    /\ grants' = grants \cup {<<r, n>>}
    /\ UNCHANGED <<evidence, outcome>>

Record(r, a) ==
    /\ outcome[r] = "open" /\ Granted(r)
    /\ a \notin evidence[r]
    /\ a = "entry" => evidence[r] = Artifacts \ {"entry"}
    /\ evidence' = [evidence EXCEPT ![r] = @ \cup {a}]
    /\ UNCHANGED <<grants, outcome>>

ServeGranted(r) ==
    /\ outcome[r] = "open"
    /\ evidence[r] = Artifacts
    /\ outcome' = [outcome EXCEPT ![r] = "served"]
    /\ UNCHANGED <<grants, evidence>>

RefuseRequest(r) ==
    /\ outcome[r] = "open"
    /\ "entry" \notin evidence[r]
    /\ outcome' = [outcome EXCEPT ![r] = "refused"]
    /\ UNCHANGED <<grants, evidence>>

AbsNext ==
    \E r \in Requests :
        \/ \E n \in Nonces : Grant(r, n)
        \/ \E a \in Artifacts : Record(r, a)
        \/ ServeGranted(r)
        \/ RefuseRequest(r)

AbsSpec == AbsInit /\ [][AbsNext]_absVars

(* Complete evidence is always followed by service. *)
AbsFairSpec == AbsSpec /\ \A r \in Requests : WF_absVars(ServeGranted(r))
=============================================================================
