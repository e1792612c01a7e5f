----------------------------- MODULE MemSpendLog -----------------------------
(***************************************************************************)
(* gate/mem_spendlog.go, one map access at a time: concurrent Spend calls, *)
(* the look-up and the insertion made one critical section by mu alone.    *)
(* EnforcementCore takes Spend to be a single step; this module is why.    *)
(***************************************************************************)
EXTENDS Integers

CONSTANTS
    Spenders,  \* goroutines that call Spend once
    NonceOf,   \* the nonce each of them spends
    Free       \* the value of mu when nobody holds it

ASSUME SpendersAssumption == Free \notin Spenders

VARIABLES
    mu,    \* MemSpendLog.mu
    seen,  \* MemSpendLog.seen
    pc,    \* where each goroutine is
    err    \* what Spend returns: "none" yet, "nil" or "ErrReplay"

vars == <<mu, seen, pc, err>>

Init ==
    /\ mu = Free
    /\ seen = {}
    /\ pc = [s \in Spenders |-> "start"]
    /\ err = [s \in Spenders |-> "none"]

(* Mutation of Lock: the mutex is not waited for. *)
LockUnguarded(s) ==
    /\ pc[s] = "start"
    /\ mu' = s
    /\ pc' = [pc EXCEPT ![s] = "lookup"]
    /\ UNCHANGED <<seen, err>>

Lock(s) ==
    /\ pc[s] = "start" /\ mu = Free
    /\ mu' = s
    /\ pc' = [pc EXCEPT ![s] = "lookup"]
    /\ UNCHANGED <<seen, err>>

(* Mutation of LookupHit: the early return skips the unlock. *)
LookupHitKeepsLock(s) ==
    /\ pc[s] = "lookup" /\ NonceOf[s] \in seen
    /\ err' = [err EXCEPT ![s] = "ErrReplay"]
    /\ pc' = [pc EXCEPT ![s] = "done"]
    /\ UNCHANGED <<mu, seen>>

LookupHit(s) ==
    /\ pc[s] = "lookup" /\ NonceOf[s] \in seen
    /\ err' = [err EXCEPT ![s] = "ErrReplay"]
    /\ pc' = [pc EXCEPT ![s] = "unlock"]
    /\ UNCHANGED <<mu, seen>>

LookupMiss(s) ==
    /\ pc[s] = "lookup" /\ NonceOf[s] \notin seen
    /\ pc' = [pc EXCEPT ![s] = "insert"]
    /\ UNCHANGED <<mu, seen, err>>

Insert(s) ==
    /\ pc[s] = "insert"
    /\ seen' = seen \cup {NonceOf[s]}
    /\ err' = [err EXCEPT ![s] = "nil"]
    /\ pc' = [pc EXCEPT ![s] = "unlock"]
    /\ UNCHANGED mu

Unlock(s) ==
    /\ pc[s] = "unlock"
    /\ mu' = Free
    /\ pc' = [pc EXCEPT ![s] = "done"]
    /\ UNCHANGED <<seen, err>>

SpendStep(s) == Lock(s) \/ LookupHit(s) \/ LookupMiss(s) \/ Insert(s) \/ Unlock(s)

Next == \E s \in Spenders : SpendStep(s)

Spec == Init /\ [][Next]_vars

(* Every goroutine runs, and sync.Mutex starves nobody. *)
FairSpec == Spec /\ \A s \in Spenders : WF_vars(SpendStep(s))

---------------------------------------------------------------------------
(* Correctness *)

(* The mutex protects the window between look-up and insertion: whoever has *)
(* missed still would, and seen is exactly what was won.                    *)
SpendInv ==
    /\ \A s \in Spenders : pc[s] \in {"lookup", "insert", "unlock"} <=> mu = s
    /\ \A s \in Spenders : pc[s] = "insert" => NonceOf[s] \notin seen
    /\ \A s \in Spenders : pc[s] \in {"start", "lookup", "insert"} => err[s] = "none"
    /\ seen = {NonceOf[s] : s \in {t \in Spenders : err[t] = "nil"}}

(* However many goroutines race on a nonce, at most one of them gets nil.   *)
OneWinner ==
    \A s, t \in Spenders :
        s # t /\ err[s] = "nil" /\ err[t] = "nil" => NonceOf[s] # NonceOf[t]

(* Every nonce that is presented is won by somebody, and everybody gets an  *)
(* answer: a race never ends with each side told that the other one won.    *)
EveryNonceWon ==
    \A s \in Spenders :
        <>(/\ err[s] # "none"
           /\ \E t \in Spenders : NonceOf[t] = NonceOf[s] /\ err[t] = "nil")
=============================================================================
