-------------------------- MODULE MemSpendLogProofs --------------------------
(***************************************************************************)
(* MemSpendLog is correct for any number of goroutines and any nonces.     *)
(***************************************************************************)
EXTENDS MemSpendLog, TLAPS

(* Every variable has its type. *)
SpendTypeOK ==
    /\ mu \in Spenders \cup {Free}
    /\ pc \in [Spenders -> {"start", "lookup", "insert", "unlock", "done"}]
    /\ err \in [Spenders -> {"none", "nil", "ErrReplay"}]

(* The inductive invariant: a goroutine that has missed still would miss,   *)
(* because nobody else is between look-up and insertion, so an insertion    *)
(* never makes a second winner.                                             *)
SpendIInv == SpendTypeOK /\ SpendInv /\ OneWinner

(* It holds before the first call. *)
LEMMA SpendIInvInit == Init => SpendIInv
  BY SpendersAssumption DEF Init, SpendIInv, SpendTypeOK, SpendInv, OneWinner

(* Every step of every goroutine preserves it. *)
LEMMA SpendIInvStep == SpendIInv /\ [Next]_vars => SpendIInv'
<1> SUFFICES ASSUME SpendIInv, [Next]_vars PROVE SpendIInv'
  OBVIOUS
<1> USE SpendersAssumption DEF SpendIInv, SpendTypeOK, SpendInv, OneWinner
<1>1. CASE UNCHANGED vars
  BY <1>1 DEF vars
<1>2. ASSUME NEW s \in Spenders, Lock(s) PROVE SpendIInv'
  BY <1>2 DEF Lock
<1>3. ASSUME NEW s \in Spenders, LookupHit(s) PROVE SpendIInv'
  BY <1>3 DEF LookupHit
<1>4. ASSUME NEW s \in Spenders, LookupMiss(s) PROVE SpendIInv'
  BY <1>4 DEF LookupMiss
<1>5. ASSUME NEW s \in Spenders, Insert(s) PROVE SpendIInv'
  BY <1>5 DEF Insert
<1>6. ASSUME NEW s \in Spenders, Unlock(s) PROVE SpendIInv'
  BY <1>6 DEF Unlock
<1> QED
  BY <1>1, <1>2, <1>3, <1>4, <1>5, <1>6 DEF Next, SpendStep

(* MemSpendLog.Spend: the look-up and the insertion are one critical        *)
(* section, whatever the goroutines and their nonces.                       *)
THEOREM SpendIsCritical == Spec => []SpendInv
<1>1. SpendIInv => SpendInv
  BY DEF SpendIInv
<1> QED
  BY <1>1, SpendIInvInit, SpendIInvStep, PTL DEF Spec

(* MemSpendLog.Spend returns nil at most once for a nonce.                  *)
THEOREM SpendOnce == Spec => []OneWinner
<1>1. SpendIInv => OneWinner
  BY DEF SpendIInv
<1> QED
  BY <1>1, SpendIInvInit, SpendIInvStep, PTL DEF Spec
---------------------------------------------------------------------------
(* Spend as EnforcementCore takes it: look-up, record and answer in one     *)
(* step, SpendRecords or SpendReplays.                                      *)
AtomicSpend(s) ==
    /\ err[s] = "none"
    /\ \/ /\ NonceOf[s] \notin seen
          /\ seen' = seen \cup {NonceOf[s]}
          /\ err' = [err EXCEPT ![s] = "nil"]
       \/ /\ NonceOf[s] \in seen
          /\ err' = [err EXCEPT ![s] = "ErrReplay"]
          /\ UNCHANGED seen

AtomicSpec ==
    /\ seen = {} /\ err = [s \in Spenders |-> "none"]
    /\ [][\E s \in Spenders : AtomicSpend(s)]_<<seen, err>>

(* A hit is an atomic spend and so is an insertion, because what was missed *)
(* is still missing; the other steps touch neither the map nor an answer.   *)
LEMMA SpendSimulation ==
  SpendIInv /\ [Next]_vars => [\E s \in Spenders : AtomicSpend(s)]_<<seen, err>>
<1> SUFFICES ASSUME SpendIInv, [Next]_vars
             PROVE  [\E s \in Spenders : AtomicSpend(s)]_<<seen, err>>
  OBVIOUS
<1>1. ASSUME NEW s \in Spenders, LookupHit(s) PROVE AtomicSpend(s)
  BY <1>1 DEF LookupHit, AtomicSpend, SpendIInv, SpendInv
<1>2. ASSUME NEW s \in Spenders, Insert(s) PROVE AtomicSpend(s)
  BY <1>2 DEF Insert, AtomicSpend, SpendIInv, SpendInv
<1>3. ASSUME NEW s \in Spenders, Lock(s) \/ LookupMiss(s) \/ Unlock(s)
      PROVE  UNCHANGED <<seen, err>>
  BY <1>3 DEF Lock, LookupMiss, Unlock
<1> QED
  BY <1>1, <1>2, <1>3 DEF Next, SpendStep, vars

(* MemSpendLog.Spend is atomic: to its concurrent callers every Spend       *)
(* happens at one instant, so the enforcement points may take it for one    *)
(* step of theirs.                                                          *)
THEOREM SpendIsAtomic == Spec => AtomicSpec
<1>1. Init => seen = {} /\ err = [s \in Spenders |-> "none"]
  BY DEF Init
<1> QED
  BY <1>1, SpendIInvInit, SpendIInvStep, SpendSimulation, PTL DEF Spec, AtomicSpec

---------------------------------------------------------------------------
(* What the liveness of Spend rests on: answers are honest as soon as they  *)
(* are given, nobody waits for a goroutine that is not running, and no call *)
(* goes round in circles.                                                   *)

(* Whoever has been answered presented a nonce that somebody won, and       *)
(* whoever is past the map has been answered.                               *)
AnsweredIsWon ==
    \A s \in Spenders :
        /\ err[s] # "none" =>
              \E t \in Spenders : NonceOf[t] = NonceOf[s] /\ err[t] = "nil"
        /\ pc[s] = "done" => err[s] # "none"

(* Its strengthening: a replay is of a recorded nonce, and the answer is    *)
(* known when the mutex is released.                                        *)
AnswerInv ==
    /\ \A s \in Spenders : err[s] = "ErrReplay" => NonceOf[s] \in seen
    /\ \A s \in Spenders : pc[s] \in {"unlock", "done"} => err[s] # "none"

(* Every step of every goroutine preserves it. *)
LEMMA AnswerInvStep == SpendIInv /\ AnswerInv /\ [Next]_vars => AnswerInv'
<1> SUFFICES ASSUME SpendIInv, AnswerInv, [Next]_vars PROVE AnswerInv'
  OBVIOUS
<1> USE DEF SpendIInv, SpendTypeOK, SpendInv, AnswerInv
<1>1. CASE UNCHANGED vars
  BY <1>1 DEF vars
<1>2. ASSUME NEW s \in Spenders, Lock(s) PROVE AnswerInv'
  BY <1>2 DEF Lock
<1>3. ASSUME NEW s \in Spenders, LookupHit(s) PROVE AnswerInv'
  BY <1>3 DEF LookupHit
<1>4. ASSUME NEW s \in Spenders, LookupMiss(s) PROVE AnswerInv'
  BY <1>4 DEF LookupMiss
<1>5. ASSUME NEW s \in Spenders, Insert(s) PROVE AnswerInv'
  BY <1>5 DEF Insert
<1>6. ASSUME NEW s \in Spenders, Unlock(s) PROVE AnswerInv'
  BY <1>6 DEF Unlock
<1> QED
  BY <1>1, <1>2, <1>3, <1>4, <1>5, <1>6 DEF Next, SpendStep

(* MemSpendLog.Spend: ErrReplay is never returned for a nonce that nobody   *)
(* was let through with, and no call returns without an answer.             *)
THEOREM AnswerMeansWon == Spec => []AnsweredIsWon
<1>1. Init => AnswerInv
  BY DEF Init, AnswerInv
<1>2. SpendIInv /\ AnswerInv => AnsweredIsWon
  <2> SUFFICES ASSUME SpendIInv, AnswerInv, NEW s \in Spenders, err[s] # "none"
               PROVE  \E t \in Spenders : NonceOf[t] = NonceOf[s] /\ err[t] = "nil"
    BY DEF AnsweredIsWon, AnswerInv
  <2>1. CASE err[s] = "nil"
    BY <2>1
  <2>2. CASE err[s] = "ErrReplay"
    BY <2>2 DEF AnswerInv, SpendIInv, SpendInv
  <2> QED
    BY <2>1, <2>2 DEF SpendIInv, SpendTypeOK
<1> QED
  BY <1>1, <1>2, SpendIInvInit, SpendIInvStep, AnswerInvStep, PTL DEF Spec

(* A held mutex is held by a goroutine inside Spend, whose next step waits  *)
(* for nothing.                                                             *)
HolderRuns ==
    mu # Free => mu \in Spenders /\ pc[mu] \in {"lookup", "insert", "unlock"}

(* MemSpendLog.Spend: every return path releases mu, so a waiter waits for  *)
(* a goroutine that is still on its way to Unlock, never for one that left. *)
THEOREM LockNeverLeaks == Spec => []HolderRuns
<1>1. SpendIInv => HolderRuns
  BY DEF SpendIInv, SpendTypeOK, SpendInv, HolderRuns
<1> QED
  BY <1>1, SpendIInvInit, SpendIInvStep, PTL DEF Spec

(* How far from its return a goroutine at place l is. *)
StepsLeft(l) ==
    CASE l = "start" -> 4 [] l = "lookup" -> 3 [] l = "insert" -> 2
      [] l = "unlock" -> 1 [] OTHER -> 0

(* A step brings one goroutine nearer to its return and moves no other one. *)
OneAdvances ==
    \E s \in Spenders :
        /\ StepsLeft(pc'[s]) < StepsLeft(pc[s])
        /\ \A t \in Spenders \ {s} : pc'[t] = pc[t]

(* MemSpendLog.Spend terminates: no call takes more than four steps, the    *)
(* wait for mu apart.                                                       *)
THEOREM SpendEnds == Spec => [][OneAdvances]_vars
<1>1. SpendIInv /\ [Next]_vars => [OneAdvances]_vars
  <2> SUFFICES ASSUME SpendIInv, NEW s \in Spenders, SpendStep(s)
               PROVE  OneAdvances
    BY DEF Next
  <2>1. \A t \in Spenders \ {s} : pc'[t] = pc[t]
    BY DEF SpendIInv, SpendTypeOK, SpendStep, Lock, LookupHit, LookupMiss, Insert, Unlock
  <2>2. StepsLeft(pc'[s]) < StepsLeft(pc[s])
    BY DEF SpendIInv, SpendTypeOK, SpendStep, Lock, LookupHit, LookupMiss, Insert, Unlock,
           StepsLeft
  <2> QED
    BY <2>1, <2>2 DEF OneAdvances
<1> QED
  BY <1>1, SpendIInvInit, SpendIInvStep, PTL DEF Spec
=============================================================================
