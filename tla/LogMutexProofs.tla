---------------------------- MODULE LogMutexProofs ----------------------------
(***************************************************************************)
(* The mutex makes every method of the log atomic, for any number of       *)
(* goroutines, any keys and any payloads.                                  *)
(***************************************************************************)
EXTENDS LogMutex, Lemmas

---------------------------------------------------------------------------
(* Every variable has its type. *)
LogTypeOK ==
    /\ mu \in Procs \cup {Free}
    /\ log \in Seq(Range(log))
    /\ pc \in [Procs -> {"start", "locked", "built", "loaded", "rooted",
                        "measured", "unlock", "done"}]
    /\ DOMAIN rec = Appenders /\ DOMAIN slice = Appenders
    /\ DOMAIN root = Encoders /\ DOMAIN size = Readers /\ DOMAIN answer = Procs
    /\ \A e \in Encoders : pc[e] \notin {"built", "loaded", "measured"}
    /\ \A a \in Appenders : pc[a] \notin {"rooted", "measured"}
    /\ \A r \in Readers : pc[r] \notin {"built", "loaded", "rooted"}

(* The inductive invariant: what the holder of the mutex has read is still  *)
(* true when it uses it, since nobody else writes the entries meanwhile.    *)
LogIInv == LogTypeOK /\ MutexInv

(* It holds before the first call. *)
LEMMA LogIInvInit == Init => LogIInv
  BY ProcsAssumption DEF Init, LogIInv, LogTypeOK, MutexInv, InCritical, Procs, Range

(* Every step of every goroutine preserves it. *)
LEMMA LogIInvStep == LogIInv /\ [Next]_vars => LogIInv'
<1> SUFFICES ASSUME LogIInv, [Next]_vars PROVE LogIInv'
  OBVIOUS
<1> USE ProcsAssumption DEF LogIInv, LogTypeOK, MutexInv, InCritical, Procs, At, NewEntry
<1>1. CASE UNCHANGED vars
  BY <1>1 DEF vars
<1>2. ASSUME NEW p \in Procs, Lock(p) PROVE LogIInv'
  BY <1>2 DEF Lock
<1>3. ASSUME NEW p \in Procs, Unlock(p) PROVE LogIInv'
  BY <1>3 DEF Unlock
<1>4. ASSUME NEW a \in Appenders, BuildRecord(a) PROVE LogIInv'
  BY <1>4 DEF BuildRecord
<1>5. ASSUME NEW a \in Appenders, SignFails(a) PROVE LogIInv'
  BY <1>5 DEF SignFails
<1>6. ASSUME NEW a \in Appenders, LoadSlice(a) PROVE LogIInv'
  BY <1>6 DEF LoadSlice
<1>7. ASSUME NEW a \in Appenders, StoreSlice(a) PROVE LogIInv'
  BY <1>7, AppendExtends DEF StoreSlice
<1>8. ASSUME NEW e \in Encoders, ComputeRoot(e) PROVE LogIInv'
  BY <1>8 DEF ComputeRoot
<1>9. ASSUME NEW e \in Encoders, CopyEntries(e) PROVE LogIInv'
  BY <1>9 DEF CopyEntries
<1>10. ASSUME NEW r \in Readers, Measure(r) PROVE LogIInv'
  BY <1>10 DEF Measure
<1>11. ASSUME NEW r \in Readers, LookUp(r) PROVE LogIInv'
  BY <1>11 DEF LookUp
<1> QED
  BY <1>1, <1>2, <1>3, <1>4, <1>5, <1>6, <1>7, <1>8, <1>9, <1>10, <1>11
  DEF Next, AppendStep, EncodeStep, ReadStep

(* translog.Log: the mutex is held throughout every critical section, and   *)
(* what was read under it is true until it is released.                     *)
THEOREM LogIsCritical == Spec => []MutexInv
<1>1. LogIInv => MutexInv
  BY DEF LogIInv
<1> QED
  BY <1>1, LogIInvInit, LogIInvStep, PTL DEF Spec

---------------------------------------------------------------------------
(* Under the invariant every step of a goroutine is a step of AtomicLog or  *)
(* leaves its variables alone: Append takes effect when the longer slice is *)
(* stored or the signature fails, Encode when the entries are copied, the   *)
(* reading methods when they go through the entries, which cannot overrun   *)
(* the length measured before.                                              *)
LEMMA StepSimulation ==
  LogIInv /\ [Next]_vars => [AtomNext]_(atomVars)
<1> SUFFICES ASSUME LogIInv, [Next]_vars PROVE [AtomNext]_(atomVars)
  OBVIOUS
<1> USE ProcsAssumption DEF LogIInv, LogTypeOK, MutexInv, InCritical, Procs, At, NewEntry,
          atomVars
<1>1. CASE UNCHANGED vars
  BY <1>1 DEF vars
<1>2. ASSUME NEW p \in Procs, Lock(p) \/ Unlock(p) PROVE UNCHANGED atomVars
  BY <1>2 DEF Lock, Unlock
<1>3. ASSUME NEW a \in Appenders, BuildRecord(a) \/ LoadSlice(a)
      PROVE  UNCHANGED atomVars
  BY <1>3 DEF BuildRecord, LoadSlice
<1>4. ASSUME NEW a \in Appenders, SignFails(a) PROVE AtomAppend(a)
  BY <1>4 DEF SignFails, AtomAppend, EntryFor
<1>5. ASSUME NEW a \in Appenders, StoreSlice(a) PROVE AtomAppend(a)
  BY <1>5 DEF StoreSlice, AtomAppend, EntryFor
<1>6. ASSUME NEW e \in Encoders, ComputeRoot(e) PROVE UNCHANGED atomVars
  BY <1>6 DEF ComputeRoot
<1>7. ASSUME NEW e \in Encoders, CopyEntries(e) PROVE AtomEncode(e)
  BY <1>7 DEF CopyEntries, AtomEncode, Snapshot
<1>8. ASSUME NEW r \in Readers, Measure(r) PROVE UNCHANGED atomVars
  BY <1>8 DEF Measure
<1>9. ASSUME NEW r \in Readers, LookUp(r) PROVE AtomRead(r)
  <2>1. size[r] = Len(log)
    BY <1>9 DEF LookUp
  <2>2. ~Overruns(r)
    BY <2>1, AppendExtends DEF Overruns
  <2> QED
    BY <1>9, <2>2 DEF LookUp, AtomRead
<1> QED
  BY <1>1, <1>2, <1>3, <1>4, <1>5, <1>6, <1>7, <1>8, <1>9
  DEF Next, AppendStep, EncodeStep, ReadStep, AtomNext

(* translog.Log implements AtomicLog: to its concurrent callers, every      *)
(* method happens at one instant.                                           *)
THEOREM LogIsAtomic == Spec => AtomSpec
<1>1. Init => AtomInit
  BY DEF Init, AtomInit, Procs
<1> QED
  BY <1>1, LogIInvInit, LogIInvStep, StepSimulation, PTL DEF Spec, AtomSpec

---------------------------------------------------------------------------
(* The strengthening of ReturnedIsLogged: the log is a sequence. *)
ReturnedIInv == log \in Seq(Range(log)) /\ ReturnedIsLogged

(* Every step of a goroutine preserves it, given the invariant above. *)
LEMMA ReturnedStep == LogIInv /\ ReturnedIInv /\ [Next]_vars => ReturnedIInv'
<1> SUFFICES ASSUME LogIInv, ReturnedIInv, [Next]_vars PROVE ReturnedIInv'
  OBVIOUS
<1> USE ProcsAssumption DEF LogIInv, LogTypeOK, Procs, At, ReturnedIInv, ReturnedIsLogged
<1>1. CASE UNCHANGED <<log, answer>>
  BY <1>1
<1>2. ASSUME NEW a \in Appenders, SignFails(a) PROVE ReturnedIInv'
  BY <1>2 DEF SignFails
<1>3. ASSUME NEW a \in Appenders, StoreSlice(a) PROVE ReturnedIInv'
  <2>1. log' = Append(log, NewEntry(a))
    BY <1>3 DEF StoreSlice, MutexInv
  <2>2. NewEntry(a).record.seq = Len(log)
    BY <1>3 DEF StoreSlice, MutexInv, NewEntry, Entry, RecordFor, NextRecord
  <2>3. answer' = [answer EXCEPT ![a] = Succeeded(NewEntry(a))]
    BY <1>3 DEF StoreSlice
  <2>4. Succeeded(NewEntry(a)).entry = NewEntry(a)
    BY DEF Succeeded
  <2>5. ASSUME NEW b \in Appenders, answer'[b] # NoAnswer, answer'[b] # Failed
        PROVE  LET e == answer'[b].entry
               IN  e.record.seq + 1 \in DOMAIN log' /\ log'[e.record.seq + 1] = e
    <3>1. CASE b = a
      BY <2>1, <2>2, <2>3, <2>4, <3>1, AppendExtends
    <3>2. CASE b # a
      BY <2>1, <2>3, <2>5, <3>2, AppendExtends
    <3> QED
      BY <3>1, <3>2
  <2> QED
    BY <2>1, <2>5, AppendExtends
<1>4. ASSUME NEW e \in Encoders, CopyEntries(e) PROVE ReturnedIInv'
  BY <1>4 DEF CopyEntries
<1>5. ASSUME NEW r \in Readers, LookUp(r) PROVE ReturnedIInv'
  BY <1>5 DEF LookUp
<1> QED
  BY <1>1, <1>2, <1>3, <1>4, <1>5
  DEF Next, AppendStep, EncodeStep, ReadStep, vars, Lock, Unlock, BuildRecord, LoadSlice,
      ComputeRoot, Measure

(* Log.Append: the entry it returned stays in the log at the index its Seq  *)
(* names, however many goroutines append.                                   *)
THEOREM AppendedStays == Spec => []ReturnedIsLogged
<1>1. Init => ReturnedIInv
  BY DEF Init, ReturnedIInv, ReturnedIsLogged, Range, Procs
<1>2. ReturnedIInv => ReturnedIsLogged
  BY DEF ReturnedIInv
<1> QED
  BY <1>1, <1>2, LogIInvInit, LogIInvStep, ReturnedStep, PTL DEF Spec
---------------------------------------------------------------------------
(* What the liveness of the log rests on: nobody waits for a goroutine that *)
(* has left the log or crashed in it, and no method goes round in circles.  *)

(* A held mutex is held by a goroutine between Lock and Unlock, and no      *)
(* reading method is about to write past the slice it made.                 *)
HolderRuns ==
    /\ mu # Free => mu \in Procs /\ InCritical(mu)
    /\ \A r \in Readers : pc[r] = "measured" => ~Overruns(r)

(* translog.Log: every path out of a method releases mu, the failed         *)
(* signature of Append included, and nobody panics while holding it.        *)
THEOREM LogLockNeverLeaks == Spec => []HolderRuns
<1>1. LogIInv => HolderRuns
  <2> SUFFICES ASSUME LogIInv PROVE HolderRuns
    OBVIOUS
  <2>1. mu # Free => mu \in Procs /\ InCritical(mu)
    BY DEF LogIInv, LogTypeOK, MutexInv
  <2>2. ASSUME NEW r \in Readers, pc[r] = "measured" PROVE ~Overruns(r)
    <3>1. size[r] = Len(log) /\ log \in Seq(Range(log))
      BY <2>2 DEF LogIInv, LogTypeOK, MutexInv
    <3> QED
      BY <3>1, AppendExtends DEF Overruns
  <2> QED
    BY <2>1, <2>2 DEF HolderRuns
<1> QED
  BY <1>1, LogIInvInit, LogIInvStep, PTL DEF Spec

(* How far from its return a goroutine at place l is: Append goes through   *)
(* "built" and "loaded", Encode through "rooted", the reading methods       *)
(* through "measured".                                                      *)
StepsLeft(l) ==
    CASE l = "start" -> 5 [] l = "locked" -> 4 [] l = "built" -> 3
      [] l \in {"loaded", "rooted", "measured"} -> 2 [] l = "unlock" -> 1 [] OTHER -> 0

(* Going from a place to another one is a way towards the return. *)
Towards(from, to) == StepsLeft(to) < StepsLeft(from)

(* A step brings one goroutine nearer to its return and moves no other one. *)
OneAdvances ==
    \E p \in Procs : Towards(pc[p], pc'[p]) /\ \A q \in Procs \ {p} : pc'[q] = pc[q]

(* The moves of the methods are towards their returns. *)
LEMMA MovesAdvance ==
  ASSUME LogTypeOK, NEW p \in Procs, NEW from, NEW to, At(p, from, to), Towards(from, to)
  PROVE  OneAdvances
  BY DEF LogTypeOK, At, OneAdvances

(* translog.Log: every method terminates, after at most five steps, the     *)
(* wait for mu apart.                                                       *)
THEOREM MethodsEnd == Spec => [][OneAdvances]_vars
<1>1. LogIInv /\ [Next]_vars => [OneAdvances]_vars
  <2> SUFFICES ASSUME LogIInv, Next PROVE OneAdvances
    OBVIOUS
  <2> USE MovesAdvance DEF LogIInv, Procs
  <2>1. /\ Towards("start", "locked") /\ Towards("unlock", "done")
        /\ Towards("locked", "built") /\ Towards("built", "unlock")
        /\ Towards("built", "loaded") /\ Towards("loaded", "unlock")
        /\ Towards("locked", "rooted") /\ Towards("rooted", "unlock")
        /\ Towards("locked", "measured") /\ Towards("measured", "unlock")
    BY DEF Towards, StepsLeft
  <2>2. ASSUME NEW p \in Procs, Lock(p) \/ Unlock(p) PROVE OneAdvances
    BY <2>1, <2>2 DEF Lock, Unlock
  <2>3. ASSUME NEW a \in Appenders,
               BuildRecord(a) \/ SignFails(a) \/ LoadSlice(a) \/ StoreSlice(a)
        PROVE  OneAdvances
    BY <2>1, <2>3 DEF BuildRecord, SignFails, LoadSlice, StoreSlice
  <2>4. ASSUME NEW e \in Encoders, ComputeRoot(e) \/ CopyEntries(e) PROVE OneAdvances
    BY <2>1, <2>4 DEF ComputeRoot, CopyEntries
  <2>5. ASSUME NEW r \in Readers, Measure(r) \/ LookUp(r) PROVE OneAdvances
    BY <2>1, <2>5 DEF Measure, LookUp
  <2> QED
    BY <2>2, <2>3, <2>4, <2>5 DEF Next, AppendStep, EncodeStep, ReadStep
<1> QED
  BY <1>1, LogIInvInit, LogIInvStep, PTL DEF Spec
=============================================================================
