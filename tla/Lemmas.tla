------------------------------- MODULE Lemmas -------------------------------
(***************************************************************************)
(* Facts about the operators the specifications are built from, for inputs *)
(* of every size: hashes, the chain of records, the log and its snapshot,  *)
(* the Merkle tree, base58 and the intent binding.                         *)
(***************************************************************************)
EXTENDS TransLog, Merkle, Gate, SequencesExt, WellFoundedInduction, TLAPS

(* Appending to a sequence makes a sequence that is longer by one and       *)
(* agrees with it on its length.                                            *)
LEMMA AppendExtends ==
  ASSUME NEW s, s \in Seq(Range(s)), NEW e
  PROVE  /\ Append(s, e) \in Seq(Range(Append(s, e)))
         /\ Len(s) \in Nat /\ Len(Append(s, e)) = Len(s) + 1
         /\ DOMAIN s = 1..Len(s) /\ DOMAIN Append(s, e) = 1..(Len(s) + 1)
         /\ \A i \in 1..Len(s) : Append(s, e)[i] = s[i]
         /\ Append(s, e)[Len(s) + 1] = e
         /\ Range(Append(s, e)) = Range(s) \cup {e}
<1> DEFINE T == Range(s) \cup {e}
<1>1. s \in Seq(T)
  OBVIOUS
<1>2. Append(s, e) \in Seq(T)
  BY <1>1
<1>3. /\ Len(s) \in Nat /\ Len(Append(s, e)) = Len(s) + 1
      /\ DOMAIN s = 1..Len(s) /\ DOMAIN Append(s, e) = 1..(Len(s) + 1)
      /\ \A i \in 1..Len(s) : Append(s, e)[i] = s[i]
      /\ Append(s, e)[Len(s) + 1] = e
  BY <1>1
<1>4. T = Range(Append(s, e))
  BY <1>1, <1>3 DEF Range
<1> QED
  BY <1>2, <1>3, <1>4

(* The first k elements of a sequence are a sequence of length k. *)
LEMMA PrefixFacts ==
  ASSUME NEW s, s \in Seq(Range(s)), NEW k \in 0..Len(s)
  PROVE  /\ SubSeq(s, 1, k) \in Seq(Range(SubSeq(s, 1, k)))
         /\ SubSeq(s, 1, k) \in Seq(Range(s))
         /\ Len(SubSeq(s, 1, k)) = k
         /\ \A i \in 1..k : SubSeq(s, 1, k)[i] = s[i]
<1> DEFINE p == SubSeq(s, 1, k)
<1>1. p \in Seq(Range(s)) /\ Len(p) = k /\ \A i \in 1..k : p[i] = s[i]
  OBVIOUS
<1> HIDE DEF p
<1>2. \A i \in 1..Len(p) : p[i] \in Range(p)
  BY <1>1 DEF Range
<1>3. p \in Seq(Range(p))
  BY <1>1, <1>2
<1> QED
  BY <1>1, <1>3 DEF p

(* The prefix of full length is the sequence itself. *)
LEMMA PrefixFull ==
  ASSUME NEW s, s \in Seq(Range(s))
  PROVE  SubSeq(s, 1, Len(s)) = s
  OBVIOUS

(* Appending leaves every prefix as it was. *)
LEMMA PrefixOfAppend ==
  ASSUME NEW s, s \in Seq(Range(s)), NEW e, NEW k \in 0..Len(s)
  PROVE  SubSeq(Append(s, e), 1, k) = SubSeq(s, 1, k)
<1> DEFINE T == Range(s) \cup {e}
<1>1. s \in Seq(T) /\ Append(s, e) \in Seq(T)
  OBVIOUS
<1>2. /\ SubSeq(Append(s, e), 1, k) \in Seq(T) /\ SubSeq(s, 1, k) \in Seq(T)
      /\ Len(SubSeq(Append(s, e), 1, k)) = k /\ Len(SubSeq(s, 1, k)) = k
      /\ \A i \in 1..k : SubSeq(Append(s, e), 1, k)[i] = SubSeq(s, 1, k)[i]
  BY <1>1
<1> QED
  BY <1>2

(* A prefix of a prefix is a prefix. *)
LEMMA PrefixOfPrefix ==
  ASSUME NEW s, s \in Seq(Range(s)), NEW k \in 0..Len(s), NEW j \in 0..k
  PROVE  SubSeq(SubSeq(s, 1, k), 1, j) = SubSeq(s, 1, j)
<1> DEFINE T == Range(s)
            p == SubSeq(s, 1, k)
<1>1. p \in Seq(T) /\ Len(p) = k /\ \A i \in 1..k : p[i] = s[i]
  OBVIOUS
<1> HIDE DEF p
<1>2. /\ SubSeq(p, 1, j) \in Seq(T) /\ SubSeq(s, 1, j) \in Seq(T)
      /\ Len(SubSeq(p, 1, j)) = j /\ Len(SubSeq(s, 1, j)) = j
      /\ \A i \in 1..j : SubSeq(p, 1, j)[i] = SubSeq(s, 1, j)[i]
  BY <1>1
<1>3. SubSeq(p, 1, j) = SubSeq(s, 1, j)
  BY <1>2
<1> QED
  BY <1>3 DEF p

---------------------------------------------------------------------------
(* A prefix of a log, as the part of it up to the prefix's length. *)
LEMMA PrefixIsSubSeq ==
  ASSUME NEW p, p \in Seq(Range(p)), NEW s, s \in Seq(Range(s)), IsPrefix(p, s)
  PROVE  /\ Len(p) \in 0..Len(s) /\ p = SubSeq(s, 1, Len(p))
         /\ \A i \in 1..Len(p) : p[i] = s[i]
<1>1. Len(p) \in 0..Len(s) /\ SubSeq(p, 1, Len(p)) = SubSeq(s, 1, Len(p))
  BY DEF IsPrefix
<1>2. p = SubSeq(s, 1, Len(p))
  BY <1>1, PrefixFull
<1>3. \A i \in 1..Len(p) : SubSeq(s, 1, Len(p))[i] = s[i]
  BY <1>1, PrefixFacts
<1> QED
  BY <1>1, <1>2, <1>3

(* Every log is a prefix of itself, and the empty log of every log. *)
LEMMA PrefixReflexive ==
  ASSUME NEW s, s \in Seq(Range(s))
  PROVE  IsPrefix(s, s) /\ IsPrefix(<<>>, s)
  BY DEF IsPrefix

(* A prefix stays one when the log grows. *)
LEMMA PrefixAppend ==
  ASSUME NEW p, p \in Seq(Range(p)), NEW s, s \in Seq(Range(s)), IsPrefix(p, s), NEW e
  PROVE  IsPrefix(p, Append(s, e))
<1>1. Len(p) \in 0..Len(s) /\ SubSeq(p, 1, Len(p)) = SubSeq(s, 1, Len(p))
  BY DEF IsPrefix
<1>2. SubSeq(Append(s, e), 1, Len(p)) = SubSeq(s, 1, Len(p))
  BY <1>1, PrefixOfAppend
<1>3. Len(Append(s, e)) = Len(s) + 1 /\ Len(s) \in Nat
  BY AppendExtends
<1> QED
  BY <1>1, <1>2, <1>3 DEF IsPrefix

(* An entry that carries the next sequence number and the hash of the tail, *)
(* and whose signature verifies, extends a log that verifies to one that    *)
(* verifies.                                                                *)
LEMMA ExtendedLogVerifies ==
  ASSUME NEW es, es \in Seq(Range(es)), NEW key, NEW pub,
         NEW decision, NEW binding, NEW issuedAt,
         LogVerify(pub, es),
         SelfVerifies(pub, Entry(key, NextRecord(es, decision, binding, issuedAt)))
  PROVE  LogVerify(pub, Append(es, Entry(key, NextRecord(es, decision, binding, issuedAt))))
<1> DEFINE rec == NextRecord(es, decision, binding, issuedAt)
           e == Entry(key, rec)
           es2 == Append(es, e)
<1>1. /\ Len(es) \in Nat /\ Len(es2) = Len(es) + 1
      /\ \A i \in 1..Len(es) : es2[i] = es[i]
      /\ es2[Len(es) + 1] = e
  <2> HIDE DEF e
  <2> QED
    BY AppendExtends
<1>2. e.record.seq = Len(es) /\ e.record.prevHash = TailHash(es, Len(es))
  BY DEF Entry, NextRecord
<1>3. Verify(pub, e.record, e.signature)
  BY DEF SelfVerifies
<1> HIDE DEF e, es2
<1>4. \A n \in 0..Len(es) : TailHash(es2, n) = TailHash(es, n)
  BY <1>1 DEF TailHash
<1>5. ASSUME NEW i \in 1..Len(es2)
      PROVE  /\ es2[i].record.seq = i - 1
             /\ es2[i].record.prevHash = TailHash(es2, i - 1)
             /\ Verify(pub, es2[i].record, es2[i].signature)
  <2>1. CASE i \in 1..Len(es)
    <3>1. es2[i] = es[i] /\ TailHash(es2, i - 1) = TailHash(es, i - 1)
      BY <1>1, <1>4, <2>1
    <3> QED
      BY <2>1, <3>1 DEF LogVerify
  <2>2. CASE i = Len(es) + 1
    <3>1. es2[i] = e /\ i - 1 = Len(es) /\ TailHash(es2, i - 1) = TailHash(es, Len(es))
      BY <1>1, <1>4, <2>2
    <3> QED
      BY <1>2, <1>3, <3>1
  <2> QED
    BY <1>1, <2>1, <2>2
<1>6. LogVerify(pub, es2)
  BY <1>5 DEF LogVerify
<1> QED
  BY <1>6 DEF es2, e

(* So does a log that is cut short: what is left of the chain is intact. *)
LEMMA PrefixVerifies ==
  ASSUME NEW es, es \in Seq(Range(es)), NEW pub, LogVerify(pub, es), NEW k \in 0..Len(es)
  PROVE  LogVerify(pub, SubSeq(es, 1, k))
<1> DEFINE p == SubSeq(es, 1, k)
<1>1. Len(p) = k /\ \A i \in 1..k : p[i] = es[i]
  BY PrefixFacts
<1>2. Len(es) \in Nat
  OBVIOUS
<1> HIDE DEF p
<1>3. \A n \in 0..k : TailHash(p, n) = TailHash(es, n)
  BY <1>1 DEF TailHash
<1>4. ASSUME NEW i \in 1..Len(p)
      PROVE  /\ p[i].record.seq = i - 1
             /\ p[i].record.prevHash = TailHash(p, i - 1)
             /\ Verify(pub, p[i].record, p[i].signature)
  <2>1. i \in 1..Len(es) /\ p[i] = es[i] /\ TailHash(p, i - 1) = TailHash(es, i - 1)
    BY <1>1, <1>2, <1>3
  <2> QED
    BY <2>1 DEF LogVerify
<1>5. LogVerify(pub, p)
  BY <1>4 DEF LogVerify
<1> QED
  BY <1>5 DEF p

---------------------------------------------------------------------------
(* Course-of-values induction, for a set of numbers. *)
LEMMA StrongInduction ==
  ASSUME NEW S, \A n \in Nat : (\A m \in 0..(n - 1) : m \in S) => n \in S
  PROVE  \A n \in Nat : n \in S
<1> SUFFICES ASSUME Nat \ S # {} PROVE FALSE
  OBVIOUS
<1> DEFINE R == OpToRel(<, Nat)
<1>1. IsWellFoundedOn(R, Nat)
  BY NatLessThanWellFounded
<1>2. \A x, y \in Nat : x < y => <<x, y>> \in R
  BY DEF OpToRel
<1> HIDE DEF R
<1>3. PICK x \in Nat \ S : \A y \in Nat \ S : ~(<<y, x>> \in R)
  BY <1>1, WFMin
<1>4. ASSUME NEW m \in 0..(x - 1) PROVE m \in S
  <2>1. m \in Nat /\ m < x
    BY <1>3
  <2>2. <<m, x>> \in R
    BY <1>2, <1>3, <2>1
  <2> QED
    BY <1>3, <2>1, <2>2
<1> QED
  BY <1>3, <1>4

---------------------------------------------------------------------------
(* The split point: the doubling loop of largestPow2Below as a function of  *)
(* the value k that it starts from.                                         *)
Shifted(n, g, k) == IF k < n THEN g[2 * k] ELSE k

Shifts(n, lo, g) == g = [k \in lo..(2 * n) |-> Shifted(n, g, k)]

(* The loop ends, whatever n it looks for: its function is well defined. *)
LEMMA ShiftExists ==
  ASSUME NEW n \in Nat, n >= 1
  PROVE  \E g : Shifts(n, 1, g)
<1> DEFINE S == {d \in Nat : d <= 2 * n - 1 => \E g : Shifts(n, 2 * n - d, g)}
<1>1. ASSUME NEW d \in Nat, \A m \in 0..(d - 1) : m \in S, d <= 2 * n - 1
      PROVE  \E g : Shifts(n, 2 * n - d, g)
  <2>1. CASE d = 0
    <3> DEFINE g == [k \in (2 * n)..(2 * n) |-> k]
    <3>1. \A k \in (2 * n)..(2 * n) : g[k] = Shifted(n, g, k)
      BY DEF Shifted
    <3>2. Shifts(n, 2 * n - d, g)
      BY <2>1, <3>1 DEF Shifts
    <3> QED
      BY <3>2
  <2>2. CASE d > 0
    <3> DEFINE e == 2 * n - d
    <3>1. e \in Nat /\ e >= 1 /\ e + 1 = 2 * n - (d - 1)
      BY <1>1, <2>2
    <3>2. PICK h : Shifts(n, e + 1, h)
      <4>1. d - 1 \in S /\ d - 1 <= 2 * n - 1
        BY <1>1, <2>2
      <4> QED
        BY <3>1, <4>1
    <3> HIDE DEF e
    <3> DEFINE g == [k \in e..(2 * n) |-> IF k = e THEN Shifted(n, h, e) ELSE h[k]]
    <3>3. \A k \in (e + 1)..(2 * n) : h[k] = Shifted(n, h, k)
      BY <3>2 DEF Shifts
    <3>4. /\ \A k \in (e + 1)..(2 * n) : g[k] = h[k]
          /\ g[e] = Shifted(n, h, e)
      BY <1>1, <3>1 DEF e
    <3> HIDE DEF g
    <3>5. ASSUME NEW k \in e..(2 * n) PROVE Shifted(n, g, k) = Shifted(n, h, k)
      <4>1. k < n => 2 * k \in (e + 1)..(2 * n)
        BY <3>1
      <4> QED
        BY <3>4, <4>1 DEF Shifted
    <3>6. ASSUME NEW k \in e..(2 * n) PROVE g[k] = Shifted(n, g, k)
      <4>1. CASE k = e
        BY <3>4, <3>5, <4>1
      <4>2. CASE k # e
        <5>1. k \in (e + 1)..(2 * n)
          BY <3>1, <4>2
        <5> QED
          BY <3>3, <3>4, <3>5, <5>1
      <4> QED
        BY <4>1, <4>2
    <3>7. g = [k \in e..(2 * n) |-> g[k]]
      BY DEF g
    <3>8. Shifts(n, e, g)
      BY <3>6, <3>7 DEF Shifts
    <3> QED
      BY <3>8 DEF e
  <2> QED
    BY <2>1, <2>2
<1>2. \A d \in Nat : d \in S
  BY <1>1, StrongInduction
<1>3. 2 * n - 1 \in S /\ 2 * n - (2 * n - 1) = 1 /\ 2 * n - 1 <= 2 * n - 1
  BY <1>2
<1> QED
  BY <1>3

(* A tree of two leaves or more is split into two smaller ones. *)
LEMMA SplitInside ==
  ASSUME NEW n \in Nat, n >= 2
  PROVE  largestPow2Below(n) \in 1..(n - 1)
<1> DEFINE f == CHOOSE g : Shifts(n, 1, g)
<1>1. Shifts(n, 1, f)
  BY ShiftExists
<1>2. largestPow2Below(n) = f[1] \div 2
  BY DEF largestPow2Below, Shifts, Shifted
<1> HIDE DEF f
<1> DEFINE S == {d \in Nat : d <= 2 * n - 1 /\ d >= 2 => f[2 * n - d] \in n..(2 * n - 2)}
<1>3. ASSUME NEW d \in Nat, \A m \in 0..(d - 1) : m \in S, d <= 2 * n - 1, d >= 2
      PROVE  f[2 * n - d] \in n..(2 * n - 2)
  <2> DEFINE k == 2 * n - d
  <2>1. k \in 1..(2 * n - 2) /\ f[k] = Shifted(n, f, k)
    BY <1>1, <1>3 DEF Shifts
  <2>2. CASE k < n
    <3> DEFINE m == 2 * n - 2 * k
    <3>1. 2 * k = 2 * n - m /\ m \in 0..(d - 1) /\ m >= 2 /\ m <= 2 * n - 1
      BY <1>3, <2>1, <2>2
    <3> HIDE DEF m
    <3>2. m \in S
      BY <1>3, <3>1
    <3>3. f[2 * k] \in n..(2 * n - 2)
      BY <3>1, <3>2
    <3> QED
      BY <2>1, <2>2, <3>3 DEF Shifted
  <2>3. CASE k >= n
    BY <2>1, <2>3 DEF Shifted
  <2> QED
    BY <2>1, <2>2, <2>3
<1>4. f[1] \in n..(2 * n - 2)
  <2>1. \A d \in Nat : d \in S
    BY <1>3, StrongInduction
  <2>2. 2 * n - 1 \in S /\ 2 * n - (2 * n - 1) = 1
    BY <2>1
  <2> QED
    BY <2>2
<1> QED
  BY <1>2, <1>4

---------------------------------------------------------------------------
(* The roots of the slices of length n, from those of shorter slices g. *)
RootLevel(ds, g, n) ==
    [lo \in 0..(Len(ds) - n) |->
        IF n = 0 THEN Sha256(<<>>)
        ELSE IF n = 1 THEN leafHash(ds[lo + 1])
        ELSE LET k == largestPow2Below(n)
             IN  nodeHash(g[k][lo], g[n - k][lo + k])]

RootLevels(ds, top, g) == g = [n \in 0..top |-> RootLevel(ds, g, n)]

(* They depend on the shorter slices only. *)
LEMMA RootLevelLocal ==
  ASSUME NEW ds, NEW n \in Nat, NEW g, NEW h, \A j \in 0..(n - 1) : g[j] = h[j]
  PROVE  RootLevel(ds, g, n) = RootLevel(ds, h, n)
<1>1. CASE n \in {0, 1}
  BY <1>1 DEF RootLevel
<1>2. CASE n >= 2
  <2> DEFINE k == largestPow2Below(n)
  <2>1. k \in 0..(n - 1) /\ n - k \in 0..(n - 1)
    BY <1>2, SplitInside
  <2>2. g[k] = h[k] /\ g[n - k] = h[n - k]
    BY <2>1
  <2> QED
    BY <1>2, <2>2 DEF RootLevel
<1> QED
  BY <1>1, <1>2

(* So the recursion of MerkleRoot defines a function. *)
LEMMA RootLevelsExist ==
  ASSUME NEW ds, NEW top \in Nat
  PROVE  \E g : RootLevels(ds, top, g)
<1> DEFINE S == {n \in Nat : \E g : RootLevels(ds, n, g)}
<1>1. ASSUME NEW n \in Nat, \A m \in 0..(n - 1) : m \in S
      PROVE  \E g : RootLevels(ds, n, g)
  <2>1. PICK h : n > 0 => RootLevels(ds, n - 1, h)
    <3>1. CASE n = 0
      BY <3>1
    <3>2. CASE n > 0
      <4>1. n - 1 \in S
        BY <1>1, <3>2
      <4> QED
        BY <4>1
    <3> QED
      BY <3>1, <3>2
  <2> DEFINE g == [j \in 0..n |-> IF j < n THEN h[j] ELSE RootLevel(ds, h, n)]
  <2>2. \A j \in 0..(n - 1) : h[j] = RootLevel(ds, h, j)
    BY <2>1 DEF RootLevels
  <2>3. (\A j \in 0..(n - 1) : g[j] = h[j]) /\ g[n] = RootLevel(ds, h, n)
    OBVIOUS
  <2>4. g = [j \in 0..n |-> g[j]]
    OBVIOUS
  <2> HIDE DEF g
  <2>5. ASSUME NEW j \in 0..n PROVE g[j] = RootLevel(ds, g, j)
    <3>1. RootLevel(ds, g, j) = RootLevel(ds, h, j)
      BY <2>3, RootLevelLocal
    <3>2. CASE j = n
      BY <2>3, <3>1, <3>2
    <3>3. CASE j # n
      BY <2>2, <2>3, <3>1, <3>3
    <3> QED
      BY <3>2, <3>3
  <2>6. RootLevels(ds, n, g)
    BY <2>4, <2>5 DEF RootLevels
  <2> QED
    BY <2>6
<1>2. \A n \in Nat : n \in S
  BY <1>1, StrongInduction
<1> QED
  BY <1>2

(* MerkleRoot's recursion, on the slices of a log. *)
LEMMA RootEquation ==
  ASSUME NEW ds, Len(ds) \in Nat, NEW n \in 0..Len(ds), NEW lo \in 0..(Len(ds) - n)
  PROVE  /\ n = 0 => SliceRoots(ds)[n][lo] = Sha256(<<>>)
         /\ n = 1 => SliceRoots(ds)[n][lo] = leafHash(ds[lo + 1])
         /\ n >= 2 =>
               LET k == largestPow2Below(n)
               IN  SliceRoots(ds)[n][lo]
                      = nodeHash(SliceRoots(ds)[k][lo], SliceRoots(ds)[n - k][lo + k])
<1> DEFINE f == CHOOSE g : RootLevels(ds, Len(ds), g)
<1>1. RootLevels(ds, Len(ds), f)
  BY RootLevelsExist
<1>2. SliceRoots(ds) = f
  BY DEF SliceRoots, RootLevels, RootLevel
<1> HIDE DEF f
<1>3. f[n] = RootLevel(ds, f, n)
  BY <1>1 DEF RootLevels
<1> QED
  BY <1>2, <1>3 DEF RootLevel

(* The same for the audit paths. *)
PathLevel(ds, g, n) ==
    [lo \in 0..(Len(ds) - n) |-> [i \in 0..(n - 1) |->
        IF n = 1 THEN <<>>
        ELSE LET k == largestPow2Below(n)
             IN  IF i < k
                 THEN Append(g[k][lo][i], SliceRoots(ds)[n - k][lo + k])
                 ELSE Append(g[n - k][lo + k][i - k], SliceRoots(ds)[k][lo])]]

PathLevels(ds, top, g) == g = [n \in 1..top |-> PathLevel(ds, g, n)]

(* The paths of a slice depend on those of shorter slices only. *)
LEMMA PathLevelLocal ==
  ASSUME NEW ds, NEW n \in Nat \ {0}, NEW g, NEW h, \A j \in 1..(n - 1) : g[j] = h[j]
  PROVE  PathLevel(ds, g, n) = PathLevel(ds, h, n)
<1>1. CASE n = 1
  BY <1>1 DEF PathLevel
<1>2. CASE n >= 2
  <2> DEFINE k == largestPow2Below(n)
  <2>1. k \in 1..(n - 1) /\ n - k \in 1..(n - 1)
    BY <1>2, SplitInside
  <2>2. g[k] = h[k] /\ g[n - k] = h[n - k]
    BY <2>1
  <2> QED
    BY <1>2, <2>2 DEF PathLevel
<1> QED
  BY <1>1, <1>2

(* So the recursion of auditPath defines a function. *)
LEMMA PathLevelsExist ==
  ASSUME NEW ds, NEW top \in Nat
  PROVE  \E g : PathLevels(ds, top, g)
<1> DEFINE S == {n \in Nat : \E g : PathLevels(ds, n, g)}
<1>1. ASSUME NEW n \in Nat, \A m \in 0..(n - 1) : m \in S
      PROVE  \E g : PathLevels(ds, n, g)
  <2>1. PICK h : n > 0 => PathLevels(ds, n - 1, h)
    <3>1. CASE n = 0
      BY <3>1
    <3>2. CASE n > 0
      <4>1. n - 1 \in S
        BY <1>1, <3>2
      <4> QED
        BY <4>1
    <3> QED
      BY <3>1, <3>2
  <2> DEFINE g == [j \in 1..n |-> IF j < n THEN h[j] ELSE PathLevel(ds, h, n)]
  <2>2. \A j \in 1..(n - 1) : h[j] = PathLevel(ds, h, j)
    BY <2>1 DEF PathLevels
  <2>3. (\A j \in 1..(n - 1) : g[j] = h[j]) /\ (n > 0 => g[n] = PathLevel(ds, h, n))
    OBVIOUS
  <2>4. g = [j \in 1..n |-> g[j]]
    OBVIOUS
  <2> HIDE DEF g
  <2>5. ASSUME NEW j \in 1..n PROVE g[j] = PathLevel(ds, g, j)
    <3>1. PathLevel(ds, g, j) = PathLevel(ds, h, j)
      BY <2>3, PathLevelLocal
    <3>2. CASE j = n
      BY <2>3, <3>1, <3>2
    <3>3. CASE j # n
      BY <2>2, <2>3, <3>1, <3>3
    <3> QED
      BY <3>2, <3>3
  <2>6. PathLevels(ds, n, g)
    BY <2>4, <2>5 DEF PathLevels
  <2> QED
    BY <2>6
<1>2. \A n \in Nat : n \in S
  BY <1>1, StrongInduction
<1> QED
  BY <1>2

(* auditPath's recursion, on the slices of a log. *)
LEMMA PathEquation ==
  ASSUME NEW ds, Len(ds) \in Nat, NEW n \in 1..Len(ds), NEW lo \in 0..(Len(ds) - n),
         NEW i \in 0..(n - 1)
  PROVE  /\ n = 1 => SlicePaths(ds)[n][lo][i] = <<>>
         /\ n >= 2 =>
               LET k == largestPow2Below(n)
               IN  SlicePaths(ds)[n][lo][i] =
                      IF i < k
                      THEN Append(SlicePaths(ds)[k][lo][i], SliceRoots(ds)[n - k][lo + k])
                      ELSE Append(SlicePaths(ds)[n - k][lo + k][i - k], SliceRoots(ds)[k][lo])
<1> DEFINE f == CHOOSE g : PathLevels(ds, Len(ds), g)
<1>1. PathLevels(ds, Len(ds), f)
  BY PathLevelsExist
<1>2. SlicePaths(ds) = f
  BY DEF SlicePaths, PathLevels, PathLevel
<1> HIDE DEF f
<1>3. f[n] = PathLevel(ds, f, n)
  BY <1>1 DEF PathLevels
<1>4. SlicePaths(ds)[n][lo][i] = PathLevel(ds, SlicePaths(ds), n)[lo][i]
  BY <1>2, <1>3
<1> QED
  BY <1>4 DEF PathLevel

(* The same for the roots that are computed from a leaf and a path. *)
UpLevel(leaf, path, g, n) ==
    [i \in 0..(n - 1) |-> [j \in 0..Len(path) |->
        IF n = 1 THEN (IF j # 0 THEN NoRoot ELSE [ok |-> TRUE, hash |-> leaf])
        ELSE IF j = 0 THEN NoRoot
        ELSE LET k   == largestPow2Below(n)
                 sub == IF i < k THEN g[k][i][j - 1] ELSE g[n - k][i - k][j - 1]
             IN  IF ~sub.ok THEN NoRoot
                 ELSE [ok |-> TRUE,
                       hash |-> IF i < k THEN nodeHash(sub.hash, path[j])
                                         ELSE nodeHash(path[j], sub.hash)]]]

UpLevels(leaf, path, top, g) == g = [n \in 1..top |-> UpLevel(leaf, path, g, n)]

(* They depend on those of smaller trees only. *)
LEMMA UpLevelLocal ==
  ASSUME NEW leaf, NEW path, NEW n \in Nat \ {0}, NEW g, NEW h, \A j \in 1..(n - 1) : g[j] = h[j]
  PROVE  UpLevel(leaf, path, g, n) = UpLevel(leaf, path, h, n)
<1>1. CASE n = 1
  BY <1>1 DEF UpLevel
<1>2. CASE n >= 2
  <2> DEFINE k == largestPow2Below(n)
  <2>1. k \in 1..(n - 1) /\ n - k \in 1..(n - 1)
    BY <1>2, SplitInside
  <2>2. g[k] = h[k] /\ g[n - k] = h[n - k]
    BY <2>1
  <2> QED
    BY <1>2, <2>2 DEF UpLevel
<1> QED
  BY <1>1, <1>2

(* So the recursion of rootFromPath defines a function. *)
LEMMA UpLevelsExist ==
  ASSUME NEW leaf, NEW path, NEW top \in Nat
  PROVE  \E g : UpLevels(leaf, path, top, g)
<1> DEFINE S == {n \in Nat : \E g : UpLevels(leaf, path, n, g)}
<1>1. ASSUME NEW n \in Nat, \A m \in 0..(n - 1) : m \in S
      PROVE  \E g : UpLevels(leaf, path, n, g)
  <2>1. PICK h : n > 0 => UpLevels(leaf, path, n - 1, h)
    <3>1. CASE n = 0
      BY <3>1
    <3>2. CASE n > 0
      <4>1. n - 1 \in S
        BY <1>1, <3>2
      <4> QED
        BY <4>1
    <3> QED
      BY <3>1, <3>2
  <2> DEFINE g == [j \in 1..n |-> IF j < n THEN h[j] ELSE UpLevel(leaf, path, h, n)]
  <2>2. \A j \in 1..(n - 1) : h[j] = UpLevel(leaf, path, h, j)
    BY <2>1 DEF UpLevels
  <2>3. (\A j \in 1..(n - 1) : g[j] = h[j]) /\ (n > 0 => g[n] = UpLevel(leaf, path, h, n))
    OBVIOUS
  <2>4. g = [j \in 1..n |-> g[j]]
    OBVIOUS
  <2> HIDE DEF g
  <2>5. ASSUME NEW j \in 1..n PROVE g[j] = UpLevel(leaf, path, g, j)
    <3>1. UpLevel(leaf, path, g, j) = UpLevel(leaf, path, h, j)
      BY <2>3, UpLevelLocal
    <3>2. CASE j = n
      BY <2>3, <3>1, <3>2
    <3>3. CASE j # n
      BY <2>2, <2>3, <3>1, <3>3
    <3> QED
      BY <3>2, <3>3
  <2>6. UpLevels(leaf, path, n, g)
    BY <2>4, <2>5 DEF UpLevels
  <2> QED
    BY <2>6
<1>2. \A n \in Nat : n \in S
  BY <1>1, StrongInduction
<1> QED
  BY <1>2

(* rootFromPath's recursion. *)
LEMMA UpEquation ==
  ASSUME NEW top \in Nat, NEW leaf, NEW path, NEW n \in 1..top,
         NEW i \in 0..(n - 1), NEW j \in 0..Len(path)
  PROVE  PathRoots(top, leaf, path)[n][i][j] =
            UpLevel(leaf, path, PathRoots(top, leaf, path), n)[i][j]
<1> DEFINE f == CHOOSE g : UpLevels(leaf, path, top, g)
<1>1. UpLevels(leaf, path, top, f)
  BY UpLevelsExist
<1>2. PathRoots(top, leaf, path) = f
  BY DEF PathRoots, UpLevels, UpLevel
<1> HIDE DEF f
<1>3. f[n] = UpLevel(leaf, path, f, n)
  BY <1>1 DEF UpLevels
<1> QED
  BY <1>2, <1>3

---------------------------------------------------------------------------
(* Hashes of different things, and of things of different kinds, differ. *)
LEMMA TreeHashes ==
  /\ \A d, e : leafHash(d) = leafHash(e) => d = e
  /\ \A l, r, x, y : nodeHash(l, r) = nodeHash(x, y) => l = x /\ r = y
  /\ \A d, l, r : leafHash(d) # nodeHash(l, r)
  /\ \A d : leafHash(d) # Sha256(<<>>)
  /\ \A l, r : nodeHash(l, r) # Sha256(<<>>)
<1>1. ASSUME NEW x, NEW y, Sha256(x) = Sha256(y) PROVE x = y
  <2>1. Sha256(x).digest[1] = x /\ Sha256(y).digest[1] = y
    BY DEF Sha256
  <2> QED
    BY <1>1, <2>1
<1>2. \A d, e : <<0, d>> = <<0, e>> => d = e
  OBVIOUS
<1>3. \A l, r, x, y : <<1, l, r>> = <<1, x, y>> => l = x /\ r = y
  OBVIOUS
<1>4. \A d, l, r : <<0, d>> # <<1, l, r>>
  OBVIOUS
<1>5. \A d : <<0, d>> # <<>>
  OBVIOUS
<1>6. \A l, r : <<1, l, r>> # <<>>
  OBVIOUS
<1>7. \A d, e : leafHash(d) = leafHash(e) => d = e
  BY <1>1, <1>2 DEF leafHash
<1>8. \A l, r, x, y : nodeHash(l, r) = nodeHash(x, y) => l = x /\ r = y
  BY <1>1, <1>3 DEF nodeHash
<1>9. \A d, l, r : leafHash(d) # nodeHash(l, r)
  BY <1>1, <1>4 DEF leafHash, nodeHash
<1>10. \A d : leafHash(d) # Sha256(<<>>)
  BY <1>1, <1>5 DEF leafHash
<1>11. \A l, r : nodeHash(l, r) # Sha256(<<>>)
  BY <1>1, <1>6 DEF nodeHash
<1> QED
  BY <1>7, <1>8, <1>9, <1>10, <1>11

(* What rootFromPath makes of a tree of n leaves, from what it makes of the *)
(* half of it that holds leaf i.                                            *)
LEMMA UpFacts ==
  ASSUME NEW top \in Nat, NEW leaf, NEW path, Len(path) \in Nat, NEW n \in 1..top,
         NEW i \in 0..(n - 1), NEW j \in 0..Len(path)
  PROVE  LET Up == PathRoots(top, leaf, path)
             u  == Up[n][i][j]
             k  == largestPow2Below(n)
             sub == IF i < k THEN Up[k][i][j - 1] ELSE Up[n - k][i - k][j - 1]
         IN  /\ n = 1 => (u.ok <=> j = 0) /\ (j = 0 => u.hash = leaf)
             /\ n >= 2 => /\ u.ok <=> j > 0 /\ sub.ok
                          /\ u.ok => u.hash = IF i < k THEN nodeHash(sub.hash, path[j])
                                              ELSE nodeHash(path[j], sub.hash)
<1> DEFINE Up == PathRoots(top, leaf, path)
           u  == Up[n][i][j]
           k  == largestPow2Below(n)
           sub == IF i < k THEN Up[k][i][j - 1] ELSE Up[n - k][i - k][j - 1]
           hash == IF i < k THEN nodeHash(sub.hash, path[j]) ELSE nodeHash(path[j], sub.hash)
<1>1. u = UpLevel(leaf, path, Up, n)[i][j]
  BY UpEquation
<1> HIDE DEF Up
<1>2. u = IF n = 1 THEN (IF j # 0 THEN NoRoot ELSE [ok |-> TRUE, hash |-> leaf])
          ELSE IF j = 0 THEN NoRoot
          ELSE IF ~sub.ok THEN NoRoot
          ELSE [ok |-> TRUE, hash |-> hash]
  BY <1>1 DEF UpLevel
<1>3. NoRoot.ok = FALSE
  BY DEF NoRoot
<1>4. \A h : [ok |-> TRUE, hash |-> h].ok = TRUE /\ [ok |-> TRUE, hash |-> h].hash = h
  OBVIOUS
<1> HIDE DEF u, sub, hash
<1>5. CASE n = 1
  BY <1>2, <1>3, <1>4, <1>5 DEF u, sub, Up
<1>6. CASE n >= 2 /\ j = 0
  BY <1>2, <1>3, <1>6 DEF u, sub, Up
<1>7. CASE n >= 2 /\ j > 0 /\ ~sub.ok
  BY <1>2, <1>3, <1>7 DEF u, sub, Up
<1>8. CASE n >= 2 /\ j > 0 /\ sub.ok
  <2>1. u = [ok |-> TRUE, hash |-> hash]
    BY <1>2, <1>8
  <2>2. u.ok /\ u.hash = hash
    BY <1>4, <2>1
  <2> QED
    BY <1>8, <2>2 DEF u, sub, hash, Up
<1> QED
  BY <1>5, <1>6, <1>7, <1>8

(* A path that leads from a leaf to the root of a slice of ds starts at the *)
(* leaf of that slice: whatever the path is, and however it was made.       *)
LEMMA PathsAreSound ==
  ASSUME NEW ds, Len(ds) \in Nat, NEW leaf, NEW path, Len(path) \in Nat,
         NEW n \in 1..Len(ds), NEW lo \in 0..(Len(ds) - n), NEW i \in 0..(n - 1),
         NEW j \in 0..Len(path), PathRoots(Len(ds), leaf, path)[n][i][j].ok,
         PathRoots(Len(ds), leaf, path)[n][i][j].hash = SliceRoots(ds)[n][lo]
  PROVE  leaf = leafHash(ds[lo + i + 1])
<1> DEFINE Up == PathRoots(Len(ds), leaf, path)
           Roots == SliceRoots(ds)
           Sound(s, a, x, y) ==
              Up[s][x][y].ok /\ Up[s][x][y].hash = Roots[s][a] => leaf = leafHash(ds[a + x + 1])
           S == {s \in Nat : s \in 1..Len(ds) =>
                   \A a \in 0..(Len(ds) - s), x \in 0..(s - 1), y \in 0..Len(path) :
                      Sound(s, a, x, y)}
<1>1. ASSUME NEW s \in Nat, \A r \in 0..(s - 1) : r \in S, s \in 1..Len(ds),
             NEW a \in 0..(Len(ds) - s), NEW x \in 0..(s - 1), NEW y \in 0..Len(path),
             Up[s][x][y].ok, Up[s][x][y].hash = Roots[s][a]
      PROVE  leaf = leafHash(ds[a + x + 1])
  <2> DEFINE k == largestPow2Below(s)
             u == Up[s][x][y]
             sub == IF x < k THEN Up[k][x][y - 1] ELSE Up[s - k][x - k][y - 1]
  <2>1. /\ s = 1 => (u.ok <=> y = 0) /\ (y = 0 => u.hash = leaf)
        /\ s >= 2 => /\ u.ok <=> y > 0 /\ sub.ok
                     /\ u.ok => u.hash = IF x < k THEN nodeHash(sub.hash, path[y])
                                         ELSE nodeHash(path[y], sub.hash)
    <3>1. /\ s \in 1..Len(ds) /\ x \in 0..(s - 1) /\ y \in 0..Len(path)
      BY <1>1
    <3> HIDE DEF S
    <3> QED
      BY <3>1, UpFacts, SMTT(40)
  <2>2. /\ s = 1 => Roots[s][a] = leafHash(ds[a + 1])
        /\ s >= 2 => Roots[s][a] = nodeHash(Roots[k][a], Roots[s - k][a + k])
    BY <1>1, RootEquation
  <2> HIDE DEF Up, Roots
  <2>3. CASE s = 1
    BY <1>1, <2>1, <2>2, <2>3
  <2>4. CASE s >= 2
    <3>1. k \in 1..(s - 1)
      BY <1>1, <2>4, SplitInside
    <3> HIDE DEF k
    <3>2. y - 1 \in 0..Len(path) /\ sub.ok
      BY <1>1, <2>1, <2>4
    <3>3. CASE x < k
      <4>1. Up[k][x][y - 1].ok /\ Up[k][x][y - 1].hash = Roots[k][a]
        <5>1. nodeHash(sub.hash, path[y]) = nodeHash(Roots[k][a], Roots[s - k][a + k])
          BY <1>1, <2>1, <2>2, <2>4, <3>3
        <5> QED
          BY <3>2, <3>3, <5>1, TreeHashes
      <4>2. k \in S
        <5> HIDE DEF S
        <5> QED
          BY <1>1, <3>1
      <4>3. k \in 1..Len(ds) /\ a \in 0..(Len(ds) - k) /\ x \in 0..(k - 1)
        <5> HIDE DEF S
        <5> QED
          BY <1>1, <3>1, <3>3
      <4> QED
        BY <3>2, <4>1, <4>2, <4>3
    <3>4. CASE x >= k
      <4>1. Up[s - k][x - k][y - 1].ok /\ Up[s - k][x - k][y - 1].hash = Roots[s - k][a + k]
        <5>1. nodeHash(path[y], sub.hash) = nodeHash(Roots[k][a], Roots[s - k][a + k])
          BY <1>1, <2>1, <2>2, <2>4, <3>1, <3>4
        <5> QED
          BY <3>1, <3>2, <3>4, <5>1, TreeHashes
      <4>2. /\ s - k \in 0..(s - 1) /\ s - k \in 1..Len(ds) /\ a + k \in 0..(Len(ds) - (s - k))
            /\ x - k \in 0..((s - k) - 1) /\ a + k + (x - k) + 1 = a + x + 1
        <5> HIDE DEF S, Sound, u, sub
        <5>1. s \in 1..Len(ds) /\ a \in 0..(Len(ds) - s) /\ x \in 0..(s - 1) /\ k \in 1..(s - 1)
          BY <1>1, <3>1
        <5>2. s - k \in 0..(s - 1) /\ s - k \in 1..Len(ds)
          BY <5>1
        <5>3. a + k \in 0..(Len(ds) - (s - k))
          BY <5>1
        <5>4. x - k \in 0..((s - k) - 1) /\ a + k + (x - k) + 1 = a + x + 1
          BY <3>4, <5>1
        <5> QED
          BY <5>2, <5>3, <5>4
      <4>3. Sound(s - k, a + k, x - k, y - 1)
        BY <1>1, <3>2, <4>2
      <4> QED
        BY <4>1, <4>2, <4>3
    <3> QED
      BY <1>1, <3>1, <3>3, <3>4
  <2> QED
    BY <1>1, <2>3, <2>4
<1>2. \A s \in Nat : (\A r \in 0..(s - 1) : r \in S) => s \in S
  BY <1>1
<1>3. \A s \in Nat : s \in S
  <2> HIDE DEF S
  <2> QED
    BY <1>2, StrongInduction
<1>4. Sound(n, lo, i, j)
  <2>1. n \in S /\ n \in 1..Len(ds)
    BY <1>3
  <2> HIDE DEF Sound
  <2> QED
    BY <2>1
<1> QED
  BY <1>4

(* Slices of two logs that have the same root are equal. *)
RootsTellApart(a, b) ==
    \A n \in 0..Len(a), m \in 0..Len(b) :
        \A lo \in 0..(Len(a) - n), at \in 0..(Len(b) - m) :
            SliceRoots(a)[n][lo] = SliceRoots(b)[m][at]
                => n = m /\ \A x \in 1..n : a[lo + x] = b[at + x]

(* The hash of a slice says how long it is and what its halves are, down to *)
(* the leaves.                                                              *)
LEMMA RootsIdentify ==
  ASSUME NEW a, Len(a) \in Nat, NEW b, Len(b) \in Nat
  PROVE  RootsTellApart(a, b)
<1> DEFINE A == SliceRoots(a)
           B == SliceRoots(b)
           Same(s, p, t, q) ==
              A[s][p] = B[t][q] => s = t /\ \A x \in 1..s : a[p + x] = b[q + x]
           S == {s \in Nat : s \in 0..Len(a) =>
                   \A p \in 0..(Len(a) - s), t \in 0..Len(b) :
                      \A q \in 0..(Len(b) - t) : Same(s, p, t, q)}
<1>0. ASSUME NEW s \in S, s \in 0..Len(a), NEW p \in 0..(Len(a) - s),
             NEW t \in 0..Len(b), NEW q \in 0..(Len(b) - t)
      PROVE  Same(s, p, t, q)
  <2> HIDE DEF Same
  <2> QED
    BY <1>0
<1>1. ASSUME NEW s \in Nat, \A r \in 0..(s - 1) : r \in S, s \in 0..Len(a),
             NEW p \in 0..(Len(a) - s), NEW t \in 0..Len(b), NEW q \in 0..(Len(b) - t),
             A[s][p] = B[t][q]
      PROVE  s = t /\ \A x \in 1..s : a[p + x] = b[q + x]
  <2> DEFINE k == largestPow2Below(s)
             l == largestPow2Below(t)
  <2> HIDE DEF S
  <2>1. /\ s = 0 => A[s][p] = Sha256(<<>>)
        /\ s = 1 => A[s][p] = leafHash(a[p + 1])
        /\ s >= 2 => A[s][p] = nodeHash(A[k][p], A[s - k][p + k])
    BY <1>1, RootEquation
  <2>2. /\ t = 0 => B[t][q] = Sha256(<<>>)
        /\ t = 1 => B[t][q] = leafHash(b[q + 1])
        /\ t >= 2 => B[t][q] = nodeHash(B[l][q], B[t - l][q + l])
    BY <1>1, RootEquation
  <2> HIDE DEF A, B
  <2>3. CASE s = 0
    BY <1>1, <2>1, <2>2, <2>3, TreeHashes
  <2>4. CASE s = 1
    <3>1. t = 1
      BY <1>1, <2>1, <2>2, <2>4, TreeHashes
    <3>2. a[p + 1] = b[q + 1]
      BY <1>1, <2>1, <2>2, <2>4, <3>1, TreeHashes
    <3> QED
      BY <2>4, <3>1, <3>2
  <2>5. CASE s >= 2
    <3>1. t >= 2
      BY <1>1, <2>1, <2>2, <2>5, TreeHashes
    <3>2. k \in 1..(s - 1) /\ l \in 1..(t - 1)
      BY <1>1, <2>5, <3>1, SplitInside
    <3>3. A[k][p] = B[l][q] /\ A[s - k][p + k] = B[t - l][q + l]
      BY <1>1, <2>1, <2>2, <2>5, <3>1, TreeHashes
    <3> HIDE DEF k, l
    <3>4. k \in S /\ s - k \in S
      BY <1>1, <3>2
    <3>5. /\ k \in Nat /\ k \in 0..Len(a) /\ p \in 0..(Len(a) - k)
          /\ l \in 0..Len(b) /\ q \in 0..(Len(b) - l)
          /\ s - k \in Nat /\ s - k \in 0..Len(a) /\ p + k \in 0..(Len(a) - (s - k))
          /\ t - l \in 0..Len(b) /\ q + l \in 0..(Len(b) - (t - l))
      <4>1. k \in 1..(s - 1) /\ s \in 0..Len(a) /\ p \in 0..(Len(a) - s)
        BY <1>1, <3>2
      <4>2. l \in 1..(t - 1) /\ t \in 0..Len(b) /\ q \in 0..(Len(b) - t)
        BY <1>1, <3>2
      <4>3. /\ k \in Nat /\ k \in 0..Len(a) /\ p \in 0..(Len(a) - k)
            /\ s - k \in Nat /\ s - k \in 0..Len(a) /\ p + k \in 0..(Len(a) - (s - k))
        BY ONLY <4>1, Len(a) \in Nat
      <4>4. /\ l \in 0..Len(b) /\ q \in 0..(Len(b) - l)
            /\ t - l \in 0..Len(b) /\ q + l \in 0..(Len(b) - (t - l))
        BY ONLY <4>2, Len(b) \in Nat
      <4> QED
        BY <4>3, <4>4
    <3>6. k = l /\ \A x \in 1..k : a[p + x] = b[q + x]
      <4>1. Same(k, p, l, q)
        <5> HIDE DEF Same
        <5> QED
          BY <1>0, <3>4, <3>5
      <4> QED
        BY <3>3, <4>1
    <3>7. s - k = t - l /\ \A x \in 1..(s - k) : a[p + k + x] = b[q + l + x]
      <4>1. Same(s - k, p + k, t - l, q + l)
        <5> HIDE DEF Same
        <5> QED
          BY <1>0, <3>4, <3>5
      <4> QED
        BY <3>3, <4>1
    <3>8. s = t
      BY <1>1, <3>2, <3>6, <3>7
    <3>9. ASSUME NEW x \in 1..s PROVE a[p + x] = b[q + x]
      <4>1. CASE x <= k
        <5>1. x \in 1..k
          BY <3>2, <4>1
        <5> QED
          BY <3>6, <5>1
      <4>2. CASE x > k
        <5>1. x - k \in 1..(s - k) /\ p + k + (x - k) = p + x /\ q + l + (x - k) = q + x
          BY <1>1, <3>2, <3>6, <4>2
        <5> QED
          BY <3>7, <5>1
      <4> QED
        BY <3>2, <4>1, <4>2
    <3> QED
      BY <3>8, <3>9
  <2> QED
    BY <1>1, <2>3, <2>4, <2>5
<1>2. \A s \in Nat : (\A r \in 0..(s - 1) : r \in S) => s \in S
  BY <1>1
<1>3. \A s \in Nat : s \in S
  <2> HIDE DEF S
  <2> QED
    BY <1>2, StrongInduction
<1>4. ASSUME NEW n \in 0..Len(a), NEW m \in 0..Len(b),
             NEW lo \in 0..(Len(a) - n), NEW at \in 0..(Len(b) - m)
      PROVE  Same(n, lo, m, at)
  <2> HIDE DEF S, Same
  <2>1. n \in S
    BY <1>3
  <2> QED
    BY <1>0, <2>1
<1> QED
  BY <1>4 DEF RootsTellApart

(* Audit paths are sequences. *)
LEMMA PathsAreSequences ==
  ASSUME NEW ds, Len(ds) \in Nat, NEW n \in 1..Len(ds), NEW lo \in 0..(Len(ds) - n),
         NEW i \in 0..(n - 1)
  PROVE  SlicePaths(ds)[n][lo][i] \in Seq(Range(SlicePaths(ds)[n][lo][i]))
<1> DEFINE Path == SlicePaths(ds)
           Typed(s, a, x) == Path[s][a][x] \in Seq(Range(Path[s][a][x]))
           S == {s \in Nat : s \in 1..Len(ds) =>
                   \A a \in 0..(Len(ds) - s), x \in 0..(s - 1) : Typed(s, a, x)}
<1>1. ASSUME NEW s \in S, s \in 1..Len(ds), NEW a \in 0..(Len(ds) - s), NEW x \in 0..(s - 1)
      PROVE  Typed(s, a, x)
  <2> HIDE DEF Typed
  <2> QED
    BY <1>1
<1>2. ASSUME NEW s \in Nat, \A r \in 0..(s - 1) : r \in S, s \in 1..Len(ds),
             NEW a \in 0..(Len(ds) - s), NEW x \in 0..(s - 1)
      PROVE  Typed(s, a, x)
  <2> DEFINE k == largestPow2Below(s)
  <2> HIDE DEF S
  <2>1. /\ s = 1 => Path[s][a][x] = <<>>
        /\ s >= 2 => Path[s][a][x] =
              IF x < k THEN Append(Path[k][a][x], SliceRoots(ds)[s - k][a + k])
              ELSE Append(Path[s - k][a + k][x - k], SliceRoots(ds)[k][a])
    BY <1>2, PathEquation
  <2> HIDE DEF Path
  <2> DEFINE p == Path[s][a][x]
  <2>2. CASE s = 1
    <3>1. p = <<>>
      BY <2>1, <2>2
    <3> HIDE DEF p
    <3>2. p \in Seq(Range(p))
      BY <3>1
    <3> QED
      BY <3>2 DEF p
  <2>3. CASE s >= 2
    <3>1. k \in 1..(s - 1)
      BY <1>2, <2>3, SplitInside
    <3> HIDE DEF k
    <3>2. CASE x < k
      <4>1. /\ k \in S /\ k \in 1..Len(ds) /\ a \in 0..(Len(ds) - k) /\ x \in 0..(k - 1)
        BY <1>2, <3>1, <3>2
      <4>2. Typed(k, a, x)
        <5> HIDE DEF Typed
        <5> QED
          BY <1>1, <4>1
      <4>3. p = Append(Path[k][a][x], SliceRoots(ds)[s - k][a + k])
        BY <2>1, <2>3, <3>2
      <4> HIDE DEF p
      <4>4. p \in Seq(Range(p))
        BY <4>2, <4>3, AppendExtends
      <4> QED
        BY <4>4 DEF p
    <3>3. CASE x >= k
      <4>1. /\ s - k \in S /\ s - k \in 1..Len(ds) /\ a + k \in 0..(Len(ds) - (s - k))
            /\ x - k \in 0..((s - k) - 1)
        BY <1>2, <3>1, <3>3
      <4>2. Typed(s - k, a + k, x - k)
        <5> HIDE DEF Typed
        <5> QED
          BY <1>1, <4>1
      <4>3. ~(x < k)
        BY <1>2, <3>1, <3>3
      <4>4. p = Append(Path[s - k][a + k][x - k], SliceRoots(ds)[k][a])
        BY <2>1, <2>3, <4>3
      <4> HIDE DEF p
      <4>5. p \in Seq(Range(p))
        BY <4>2, <4>4, AppendExtends
      <4> QED
        BY <4>5 DEF p
    <3> QED
      BY <1>2, <3>1, <3>2, <3>3
  <2> QED
    BY <1>2, <2>2, <2>3
<1>3. \A s \in Nat : (\A r \in 0..(s - 1) : r \in S) => s \in S
  <2> HIDE DEF Typed
  <2> QED
    BY <1>2
<1>4. n \in S
  <2> HIDE DEF S
  <2> QED
    BY <1>3, StrongInduction
<1> QED
  BY <1>1, <1>4

(* path starts like p. *)
StartsLike(path, p) == Len(p) <= Len(path) /\ \A x \in 1..Len(p) : path[x] = p[x]

(* As much of path as leaf i's audit path is long takes leaf m to the root  *)
(* of the slice of length n at lo.                                          *)
LeadsUp(ds, m, path, n, lo, i) ==
    LET u == PathRoots(Len(ds), leafHash(ds[m + 1]), path)
                [n][i][Len(SlicePaths(ds)[n][lo][i])]
    IN  u.ok /\ u.hash = SliceRoots(ds)[n][lo]

(* A path that starts like the audit path of leaf i of a slice takes that   *)
(* leaf to the root of the slice.                                           *)
LEMMA PathsLeadToRoot ==
  ASSUME NEW ds, Len(ds) \in Nat, NEW m \in 0..(Len(ds) - 1), NEW path, Len(path) \in Nat,
         NEW n \in 1..Len(ds), NEW lo \in 0..(Len(ds) - n), NEW i \in 0..(n - 1),
         lo + i = m, StartsLike(path, SlicePaths(ds)[n][lo][i])
  PROVE  LeadsUp(ds, m, path, n, lo, i)
<1> DEFINE Path == SlicePaths(ds)
           Roots == SliceRoots(ds)
           Up == PathRoots(Len(ds), leafHash(ds[m + 1]), path)
           Starts(p) == Len(p) <= Len(path) /\ \A x \in 1..Len(p) : path[x] = p[x]
           Leads(s, a, x) ==
              Starts(Path[s][a][x]) =>
                 /\ Up[s][x][Len(Path[s][a][x])].ok
                 /\ Up[s][x][Len(Path[s][a][x])].hash = Roots[s][a]
           S == {s \in Nat : s \in 1..Len(ds) =>
                   \A a \in 0..(Len(ds) - s), x \in 0..(s - 1) : a + x = m => Leads(s, a, x)}
<1>1. ASSUME NEW s \in S, s \in 1..Len(ds), NEW a \in 0..(Len(ds) - s), NEW x \in 0..(s - 1),
             a + x = m
      PROVE  Leads(s, a, x)
  <2> HIDE DEF Leads
  <2> QED
    BY <1>1
<1>2. ASSUME NEW p, p \in Seq(Range(p)), NEW e, Starts(Append(p, e))
      PROVE  /\ Starts(p) /\ Len(p) \in Nat /\ Len(Append(p, e)) = Len(p) + 1
             /\ path[Len(p) + 1] = e
  <2>1. /\ Len(p) \in Nat /\ Len(Append(p, e)) = Len(p) + 1
        /\ \A x \in 1..Len(p) : Append(p, e)[x] = p[x]
        /\ Append(p, e)[Len(p) + 1] = e
    BY <1>2, AppendExtends
  <2> DEFINE l == Len(p)
             pe == Append(p, e)
  <2>2. l \in Nat /\ l + 1 <= Len(path) /\ \A x \in 1..(l + 1) : path[x] = pe[x]
    BY <1>2, <2>1
  <2>3. (\A x \in 1..l : pe[x] = p[x]) /\ pe[l + 1] = e
    BY <2>1
  <2> HIDE DEF l, pe
  <2>4. l <= Len(path) /\ (\A x \in 1..l : path[x] = p[x]) /\ path[l + 1] = e
    BY <2>2, <2>3
  <2> QED
    BY <2>1, <2>4 DEF l
<1>3. ASSUME NEW s \in Nat, \A r \in 0..(s - 1) : r \in S, s \in 1..Len(ds),
             NEW a \in 0..(Len(ds) - s), NEW x \in 0..(s - 1), a + x = m,
             Starts(Path[s][a][x])
      PROVE  /\ Up[s][x][Len(Path[s][a][x])].ok
             /\ Up[s][x][Len(Path[s][a][x])].hash = Roots[s][a]
  <2> DEFINE k == largestPow2Below(s)
             p == Path[s][a][x]
             j == Len(p)
             u == Up[s][x][j]
             sub == IF x < k THEN Up[k][x][j - 1] ELSE Up[s - k][x - k][j - 1]
  <2> HIDE DEF S
  <2>0. /\ s \in 1..Len(ds) /\ a \in 0..(Len(ds) - s) /\ x \in 0..(s - 1) /\ a + x = m
    BY <1>3
  <2>1. j \in 0..Len(path)
    <3>1. p \in Seq(Range(p))
      BY <1>3, PathsAreSequences
    <3> QED
      BY <1>3, <3>1, SMTT(40)
  <2>2. /\ s = 1 => (u.ok <=> j = 0) /\ (j = 0 => u.hash = leafHash(ds[m + 1]))
        /\ s >= 2 => /\ u.ok <=> j > 0 /\ sub.ok
                     /\ u.ok => u.hash = IF x < k THEN nodeHash(sub.hash, path[j])
                                         ELSE nodeHash(path[j], sub.hash)
    <3> HIDE DEF j
    <3> QED
      BY <2>0, <2>1, UpFacts, SMTT(40)
  <2>3. /\ s = 1 => p = <<>>
        /\ s >= 2 => p = IF x < k THEN Append(Path[k][a][x], Roots[s - k][a + k])
                         ELSE Append(Path[s - k][a + k][x - k], Roots[k][a])
    BY <1>3, PathEquation, SMTT(40)
  <2>4. /\ s = 1 => Roots[s][a] = leafHash(ds[a + 1])
        /\ s >= 2 => Roots[s][a] = nodeHash(Roots[k][a], Roots[s - k][a + k])
    BY <1>3, RootEquation
  <2> HIDE DEF Up, Roots
  <2>5. CASE s = 1
    <3>1. x = 0 /\ a = m /\ j = 0
      BY <1>3, <2>3, <2>5
    <3> QED
      BY <2>2, <2>4, <2>5, <3>1
  <2>6. CASE s >= 2
    <3>1. k \in 1..(s - 1)
      BY <1>3, <2>6, SplitInside
    <3> HIDE DEF k
    <3>2. CASE x < k
      <4> DEFINE q == Path[k][a][x]
      <4>1. /\ k \in S /\ k \in 1..Len(ds) /\ a \in 0..(Len(ds) - k) /\ x \in 0..(k - 1)
        BY <1>3, <3>1, <3>2, SMTT(40)
      <4>2. q \in Seq(Range(q))
        BY <4>1, PathsAreSequences
      <4>3. p = Append(q, Roots[s - k][a + k])
        BY <2>3, <2>6, <3>2
      <4>4. Leads(k, a, x)
        <5> HIDE DEF Leads
        <5> QED
          BY <1>1, <1>3, <4>1
      <4> HIDE DEF Path
      <4>5. /\ Starts(q) /\ Len(q) \in Nat /\ j = Len(q) + 1
            /\ path[j] = Roots[s - k][a + k]
        <5> HIDE DEF Starts, q
        <5> QED
          BY <1>2, <1>3, <4>2, <4>3
      <4>6. sub.ok /\ sub.hash = Roots[k][a] /\ j > 0
        <5>1. j - 1 = Len(q) /\ j > 0
          <6> HIDE DEF j, q, Starts, Leads
          <6> QED
            BY <4>5
        <5> HIDE DEF j, Starts
        <5>2. Up[k][x][j - 1].ok /\ Up[k][x][j - 1].hash = Roots[k][a]
          BY <4>4, <4>5, <5>1
        <5> QED
          BY <3>2, <5>1, <5>2
      <4> HIDE DEF u, sub, j
      <4> QED
        BY <2>2, <2>4, <2>6, <3>2, <4>5, <4>6 DEF u, j
    <3>3. CASE x >= k
      <4> DEFINE q == Path[s - k][a + k][x - k]
      <4>1. /\ s - k \in S /\ s - k \in 1..Len(ds) /\ a + k \in 0..(Len(ds) - (s - k))
            /\ x - k \in 0..((s - k) - 1) /\ a + k + (x - k) = m /\ ~(x < k)
        <5>1. s - k \in 0..(s - 1)
          BY <2>0, <3>1
        <5>2. s - k \in S
          BY <1>3, <5>1
        <5>3. s - k \in 1..Len(ds) /\ a + k \in 0..(Len(ds) - (s - k))
          BY <2>0, <3>1
        <5>4. x - k \in 0..((s - k) - 1) /\ ~(x < k)
          BY <2>0, <3>1, <3>3
        <5>5. a + k + (x - k) = m
          BY <2>0, <3>1
        <5> QED
          BY <5>2, <5>3, <5>4, <5>5
      <4>2. q \in Seq(Range(q))
        BY <4>1, PathsAreSequences
      <4>3. p = Append(q, Roots[k][a])
        BY <2>3, <2>6, <4>1
      <4>4. Leads(s - k, a + k, x - k)
        <5> HIDE DEF Leads
        <5> QED
          BY <1>1, <4>1
      <4> HIDE DEF Path
      <4>5. /\ Starts(q) /\ Len(q) \in Nat /\ j = Len(q) + 1
            /\ path[j] = Roots[k][a]
        <5> HIDE DEF Starts, q
        <5> QED
          BY <1>2, <1>3, <4>2, <4>3
      <4>6. sub.ok /\ sub.hash = Roots[s - k][a + k] /\ j > 0
        <5>1. j - 1 = Len(q) /\ j > 0
          <6> HIDE DEF j, q, Starts, Leads
          <6> QED
            BY <4>5
        <5> HIDE DEF j, Starts
        <5>2. Up[s - k][x - k][j - 1].ok /\ Up[s - k][x - k][j - 1].hash = Roots[s - k][a + k]
          BY <4>4, <4>5, <5>1
        <5> QED
          BY <4>1, <5>1, <5>2
      <4> HIDE DEF u, sub, j
      <4> QED
        BY <2>2, <2>4, <2>6, <4>1, <4>5, <4>6 DEF u, j
    <3>4. x < k \/ x >= k
      BY <2>0, <3>1
    <3> QED
      BY <3>2, <3>3, <3>4, Zenon
  <2>7. s = 1 \/ s >= 2
    BY <2>0
  <2> QED
    BY <2>5, <2>6, <2>7, Zenon
<1>4. \A s \in Nat : (\A r \in 0..(s - 1) : r \in S) => s \in S
  <2>1. ASSUME NEW s \in Nat, \A r \in 0..(s - 1) : r \in S, s \in 1..Len(ds),
               NEW a \in 0..(Len(ds) - s), NEW x \in 0..(s - 1), a + x = m
        PROVE  Leads(s, a, x)
    <3> HIDE DEF S, Starts, Up, Roots, Path
    <3> QED
      BY <1>3, <2>1
  <2> HIDE DEF Leads
  <2> QED
    BY <2>1
<1>5. n \in S
  <2> HIDE DEF S
  <2> QED
    BY <1>4, StrongInduction
<1>6. Leads(n, lo, i)
  <2> HIDE DEF Leads
  <2> QED
    BY <1>1, <1>5
<1> QED
  BY <1>6 DEF LeadsUp, StartsLike

---------------------------------------------------------------------------
(* Completeness of the proofs: InclusionProof succeeds for every index of   *)
(* the tree, and its path takes that leaf to the root.                      *)
LEMMA InclusionComplete ==
  ASSUME NEW ds, Len(ds) \in Nat, NEW m \in 0..(Len(ds) - 1)
  PROVE  /\ InclusionProof(ds, m).ok
         /\ VerifyInclusion(MerkleRoot(ds), ds[m + 1], m, Len(ds), InclusionProof(ds, m).path)
<1> DEFINE path == SlicePaths(ds)[Len(ds)][0][m]
           u == PathRoots(Len(ds), leafHash(ds[m + 1]), path)[Len(ds)][m][Len(path)]
<1>1. /\ Len(ds) \in 1..Len(ds) /\ 0 \in 0..(Len(ds) - Len(ds)) /\ 0 + m = m
      /\ ~(m < 0 \/ m >= Len(ds))
  OBVIOUS
<1>2. path \in Seq(Range(path))
  BY <1>1, PathsAreSequences
<1>3. u.ok /\ u.hash = SliceRoots(ds)[Len(ds)][0]
  <2> DEFINE n == Len(ds)
             lo == 0
             p == SlicePaths(ds)[n][lo][m]
             v == PathRoots(Len(ds), leafHash(ds[m + 1]), p)[n][m][Len(p)]
  <2>1. n \in 1..Len(ds) /\ lo \in 0..(Len(ds) - n) /\ m \in 0..(n - 1) /\ lo + m = m
    BY <1>1
  <2>2. Len(p) \in Nat /\ Len(p) <= Len(p) /\ \A x \in 1..Len(p) : p[x] = p[x]
    BY <1>2
  <2> HIDE DEF n, lo
  <2>3. LeadsUp(ds, m, p, n, lo, m)
    <3>1. StartsLike(p, SlicePaths(ds)[n][lo][m])
      BY <2>2 DEF StartsLike
    <3> DEFINE y == p
    <3>2. Len(y) \in Nat /\ StartsLike(y, SlicePaths(ds)[n][lo][m])
      BY <2>2, <3>1
    <3> HIDE DEF y
    <3>3. LeadsUp(ds, m, y, n, lo, m)
      BY <2>1, <3>2, PathsLeadToRoot
    <3> QED
      BY <3>3 DEF y
  <2>4. v.ok /\ v.hash = SliceRoots(ds)[n][lo]
    BY <2>3 DEF LeadsUp
  <2> QED
    BY <2>4 DEF n, lo
<1>4. InclusionProof(ds, m) = [ok |-> TRUE, path |-> path]
  BY <1>1 DEF InclusionProof, auditPath
<1>5. InclusionProof(ds, m).ok /\ InclusionProof(ds, m).path = path
  BY <1>4
<1>6. rootFromPath(m, Len(ds), leafHash(ds[m + 1]), path) = u
  BY DEF rootFromPath
<1> HIDE DEF path, u
<1>7. VerifyInclusion(MerkleRoot(ds), ds[m + 1], m, Len(ds), path)
  BY <1>1, <1>3, <1>6 DEF VerifyInclusion, MerkleRoot
<1> QED
  BY <1>5, <1>7

(* Soundness: whatever path is presented, the only leaf that verifies at an *)
(* index of the tree is the one that is there.                              *)
LEMMA InclusionSound ==
  ASSUME NEW ds, Len(ds) \in Nat, NEW m \in Int, NEW d, NEW path, Len(path) \in Nat,
         VerifyInclusion(MerkleRoot(ds), d, m, Len(ds), path)
  PROVE  m \in 0..(Len(ds) - 1) /\ d = ds[m + 1]
<1> DEFINE u == PathRoots(Len(ds), leafHash(d), path)[Len(ds)][m][Len(path)]
<1>1. ~(m < 0 \/ m >= Len(ds)) /\ u.ok /\ u.hash = SliceRoots(ds)[Len(ds)][0]
  BY DEF VerifyInclusion, rootFromPath, MerkleRoot
<1>2. /\ m \in 0..(Len(ds) - 1) /\ Len(ds) \in 1..Len(ds) /\ 0 \in 0..(Len(ds) - Len(ds))
      /\ Len(path) \in 0..Len(path) /\ 0 + m + 1 = m + 1
  BY <1>1
<1>3. leafHash(d) = leafHash(ds[m + 1])
  BY <1>1, <1>2, PathsAreSound
<1> QED
  BY <1>2, <1>3, TreeHashes

(* Two logs with the same root have the same leaves. *)
LEMMA RootIdentifies ==
  ASSUME NEW a, Len(a) \in Nat, NEW b, Len(b) \in Nat, MerkleRoot(a) = MerkleRoot(b)
  PROVE  Len(a) = Len(b) /\ \A i \in 1..Len(a) : a[i] = b[i]
<1>1. RootsTellApart(a, b)
  BY RootsIdentify
<1> DEFINE n == Len(a)
           m == Len(b)
           lo == 0
<1>2. /\ n \in 0..Len(a) /\ lo \in 0..(Len(a) - n)
      /\ m \in 0..Len(b) /\ lo \in 0..(Len(b) - m)
  OBVIOUS
<1>3. SliceRoots(a)[n][lo] = SliceRoots(b)[m][lo]
  BY DEF MerkleRoot
<1> HIDE DEF n, m, lo
<1>4. n = m /\ \A x \in 1..n : a[lo + x] = b[lo + x]
  <2>1. \A p \in 0..(Len(a) - n), q \in 0..(Len(b) - m) :
           SliceRoots(a)[n][p] = SliceRoots(b)[m][q]
             => n = m /\ \A x \in 1..n : a[p + x] = b[q + x]
    BY <1>1, <1>2 DEF RootsTellApart
  <2> QED
    BY <1>2, <1>3, <2>1
<1>5. \A x \in 1..n : lo + x = x
  BY DEF n, lo
<1> QED
  BY <1>4, <1>5 DEF n, m

---------------------------------------------------------------------------
(* Perfect subtrees. *)

(* The powers of two: what doubling makes of one. *)
Pow2 == {n \in Nat : \A S \in SUBSET Nat :
                         1 \in S /\ (\A k \in S : 2 * k \in S) => n \in S}

(* A set of numbers that has one and is closed under doubling has them all. *)
LEMMA Pow2Induction ==
  ASSUME NEW S \in SUBSET Nat, 1 \in S, \A k \in S : 2 * k \in S
  PROVE  \A p \in Pow2 : p \in S
BY DEF Pow2

(* One is a power of two, and so is the double of one. *)
LEMMA Pow2Closed ==
  /\ 1 \in Pow2
  /\ \A p \in Pow2 : 2 * p \in Pow2
<1>1. 1 \in Pow2
  BY DEF Pow2
<1>2. ASSUME NEW p \in Pow2 PROVE 2 * p \in Pow2
  <2>1. p \in Nat /\ 2 * p \in Nat
    BY DEF Pow2
  <2>2. ASSUME NEW S \in SUBSET Nat, 1 \in S, \A k \in S : 2 * k \in S
        PROVE  2 * p \in S
    BY <2>2, Pow2Induction
  <2> QED
    BY <2>1, <2>2 DEF Pow2
<1> QED
  BY <1>1, <1>2

(* A power of two is one or the double of one. *)
LEMMA Pow2Half ==
  ASSUME NEW p \in Pow2
  PROVE  p \in Nat /\ p >= 1 /\ (p = 1 \/ \E h \in Pow2 : p = 2 * h)
<1> DEFINE S == {n \in Nat : n >= 1 /\ n \in Pow2 /\ (n = 1 \/ \E h \in Pow2 : n = 2 * h)}
<1>1. 1 \in S
  BY Pow2Closed
<1>2. ASSUME NEW k \in S PROVE 2 * k \in S
  <2>1. k \in Nat /\ k >= 1 /\ k \in Pow2
    OBVIOUS
  <2>2. 2 * k \in Nat /\ 2 * k >= 1 /\ 2 * k \in Pow2
    BY <2>1, Pow2Closed
  <2> QED
    BY <2>1, <2>2
<1>3. S \in SUBSET Nat
  OBVIOUS
<1> HIDE DEF S
<1>4. p \in S
  BY <1>1, <1>2, <1>3, Pow2Induction
<1> QED
  BY <1>4 DEF S

(* Between a power of two and its double there is no other. *)
LEMMA Pow2Gap ==
  ASSUME NEW p \in Pow2, NEW q \in Pow2, p < q
  PROVE  2 * p <= q
<1> DEFINE S == {n \in Nat : n >= 1 /\ \A x \in Pow2 : x < n => 2 * x <= n}
<1>1. 1 \in S
  BY Pow2Half
<1>2. ASSUME NEW k \in S PROVE 2 * k \in S
  <2>1. k \in Nat /\ k >= 1 /\ \A x \in Pow2 : x < k => 2 * x <= k
    OBVIOUS
  <2>2. ASSUME NEW x \in Pow2, x < 2 * k PROVE 2 * x <= 2 * k
    <3>1. CASE x = 1
      BY <2>1, <3>1
    <3>2. ASSUME NEW h \in Pow2, x = 2 * h PROVE 2 * x <= 2 * k
      <4>1. h \in Nat
        BY Pow2Half
      <4>2. h < k
        BY <2>1, <2>2, <3>2, <4>1
      <4>3. 2 * h <= k
        BY <2>1, <4>2
      <4> QED
        BY <2>1, <3>2, <4>1, <4>3
    <3> QED
      BY <3>1, <3>2, Pow2Half
  <2> QED
    BY <2>1, <2>2
<1>3. S \in SUBSET Nat
  OBVIOUS
<1> HIDE DEF S
<1>4. q \in S
  BY <1>1, <1>2, <1>3, Pow2Induction
<1> QED
  BY <1>4 DEF S

(* A tree that is followed by no more leaves than it has is what            *)
(* largestPow2Below splits off.                                             *)
LEMMA SplitAtPow2 ==
  ASSUME NEW p \in Pow2, NEW r \in 1..p
  PROVE  largestPow2Below(p + r) = p
<1> DEFINE n == p + r
           f == CHOOSE g : Shifts(n, 1, g)
<1>0. p \in Nat /\ p >= 1 /\ r \in Nat /\ r >= 1 /\ r <= p
  BY Pow2Half
<1>00. n \in Nat /\ n >= 1
  BY <1>0
<1>1. Shifts(n, 1, f)
  BY <1>00, ShiftExists
<1>2. largestPow2Below(n) = f[1] \div 2
  BY DEF largestPow2Below, Shifts, Shifted
<1>3. p < n /\ n <= 2 * p /\ 2 * p < 2 * n
  BY <1>0
<1> HIDE DEF f, n
<1>4. \A k \in 1..(2 * n) : f[k] = IF k < n THEN f[2 * k] ELSE k
  BY <1>1 DEF Shifts, Shifted
<1> DEFINE S == {k \in Nat : k >= 1 /\ (k < 2 * n => f[1] = f[k])}
<1>5. 1 \in S
  OBVIOUS
<1>6. ASSUME NEW k \in S PROVE 2 * k \in S
  <2>1. k \in Nat /\ k >= 1 /\ (k < 2 * n => f[1] = f[k])
    OBVIOUS
  <2>2. ASSUME 2 * k < 2 * n PROVE f[1] = f[2 * k]
    <3>1. k < n /\ k < 2 * n /\ k \in 1..(2 * n)
      BY <1>00, <2>1, <2>2
    <3> QED
      BY <1>4, <2>1, <3>1
  <2> QED
    BY <2>1, <2>2
<1>7. S \in SUBSET Nat
  OBVIOUS
<1>8. 2 * p \in Pow2
  BY Pow2Closed
<1> HIDE DEF S
<1>9. 2 * p \in S
  BY <1>5, <1>6, <1>7, <1>8, Pow2Induction
<1>10. f[1] = f[2 * p]
  BY <1>3, <1>9 DEF S
<1>11. f[2 * p] = 2 * p
  <2>1. 2 * p \in 1..(2 * n) /\ ~(2 * p < n)
    BY <1>0, <1>00, <1>3
  <2> QED
    BY <1>4, <2>1
<1>12. (2 * p) \div 2 = p
  BY <1>0
<1> QED
  BY <1>2, <1>10, <1>11, <1>12 DEF n

(* What is under a slice root is the leaves of the slice, not of the log. *)
LEMMA RootIsOfSlice ==
  ASSUME NEW a, Len(a) \in Nat, NEW b, Len(b) \in Nat, Len(a) <= Len(b),
         \A i \in 1..Len(a) : a[i] = b[i],
         NEW n \in 0..Len(a), NEW lo \in 0..(Len(a) - n)
  PROVE  SliceRoots(b)[n][lo] = SliceRoots(a)[n][lo]
<1> DEFINE Same(m) == \A x \in 0..(Len(a) - m) : SliceRoots(b)[m][x] = SliceRoots(a)[m][x]
           S == {m \in Nat : m <= Len(a) => Same(m)}
<1>1. ASSUME NEW m \in Nat, \A j \in 0..(m - 1) : j \in S, m <= Len(a),
             NEW x \in 0..(Len(a) - m)
      PROVE  SliceRoots(b)[m][x] = SliceRoots(a)[m][x]
  <2> HIDE DEF S
  <2>1. m \in 0..Len(a) /\ m \in 0..Len(b) /\ x \in 0..(Len(b) - m)
    BY <1>1
  <2>2. CASE m = 0
    BY <2>1, <2>2, RootEquation
  <2>3. CASE m = 1
    <3>1. x + 1 \in 1..Len(a)
      BY <1>1, <2>3
    <3> QED
      BY <2>1, <2>3, <3>1, RootEquation
  <2>4. CASE m >= 2
    <3> DEFINE k == largestPow2Below(m)
    <3>1. k \in 1..(m - 1)
      BY <2>4, SplitInside
    <3> HIDE DEF k
    <3>2. k \in 0..(m - 1) /\ m - k \in 0..(m - 1) /\ k <= Len(a) /\ m - k <= Len(a)
          /\ x \in 0..(Len(a) - k) /\ x + k \in 0..(Len(a) - (m - k))
      BY <1>1, <3>1
    <3>3. Same(k) /\ Same(m - k)
      BY <1>1, <3>2 DEF S
    <3>4. /\ SliceRoots(b)[k][x] = SliceRoots(a)[k][x]
          /\ SliceRoots(b)[m - k][x + k] = SliceRoots(a)[m - k][x + k]
      BY <3>2, <3>3
    <3>5. /\ SliceRoots(a)[m][x] = nodeHash(SliceRoots(a)[k][x], SliceRoots(a)[m - k][x + k])
          /\ SliceRoots(b)[m][x] = nodeHash(SliceRoots(b)[k][x], SliceRoots(b)[m - k][x + k])
      BY <2>1, <2>4, RootEquation DEF k
    <3> QED
      BY <3>4, <3>5
  <2> QED
    BY <2>1, <2>2, <2>3, <2>4
<1>2. \A m \in Nat : m \in S
  BY <1>1, StrongInduction
<1>3. n \in S /\ n <= Len(a)
  BY <1>2
<1> QED
  BY <1>3

---------------------------------------------------------------------------
(* Base58: the radix conversion, for strings of every length. *)

(* The two notations: base58 text and bytes. *)
Bases == {Radix, ByteBase}

(* Division with remainder by either base. *)
LEMMA DivType ==
  ASSUME NEW base \in Bases, NEW k \in Nat
  PROVE  /\ base \in Nat /\ base >= 2
         /\ k \div base \in Nat /\ k % base \in 0..(base - 1)
         /\ k > 0 => k \div base < k
         /\ k > 0 /\ k \div base = 0 => k % base # 0
<1>1. CASE base = 58
  BY <1>1
<1>2. CASE base = 256
  BY <1>2
<1> QED
  BY <1>1, <1>2 DEF Bases, Radix, ByteBase

(* A number is its quotient times the base plus its remainder ... *)
LEMMA DivMod ==
  ASSUME NEW base \in Bases, NEW k \in Nat
  PROVE  k = (k \div base) * base + (k % base)
<1>1. CASE base = 58
  BY <1>1
<1>2. CASE base = 256
  BY <1>2
<1> QED
  BY <1>1, <1>2 DEF Bases, Radix, ByteBase

(* ... and in one way only. *)
LEMMA MulAdd ==
  ASSUME NEW base \in Bases, NEW q \in Nat, NEW d \in 0..(base - 1)
  PROVE  /\ q * base + d \in Nat
         /\ (q * base + d) \div base = q /\ (q * base + d) % base = d
         /\ q > 0 \/ d > 0 => q * base + d > 0
         /\ q = 0 => q * base + d = d
<1>1. CASE base = 58
  BY <1>1
<1>2. CASE base = 256
  BY <1>2
<1> QED
  BY <1>1, <1>2 DEF Bases, Radix, ByteBase

(* DigitsOf's recursion. *)
DigitLevel(base, g, k) == IF k = 0 THEN <<>> ELSE Append(g[k \div base], k % base)

(* The table of the digits of 0..n. *)
DigitLevels(base, n, g) == g = [k \in 0..n |-> DigitLevel(base, g, k)]

(* A level of the table of digits only looks at smaller numbers. *)
LEMMA DigitLevelLocal ==
  ASSUME NEW base \in Bases, NEW k \in Nat, NEW g, NEW h, \A j \in 0..(k - 1) : g[j] = h[j]
  PROVE  DigitLevel(base, g, k) = DigitLevel(base, h, k)
<1>1. CASE k = 0
  BY <1>1 DEF DigitLevel
<1>2. CASE k # 0
  <2> DEFINE q == k \div base
  <2>1. q \in Nat /\ q < k
    BY <1>2, DivType
  <2> HIDE DEF q
  <2>2. q \in 0..(k - 1)
    BY <2>1
  <2>3. g[q] = h[q]
    BY <2>2
  <2> QED
    BY <1>2, <2>3 DEF DigitLevel, q
<1> QED
  BY <1>1, <1>2

(* The table exists, so that the recursion defines DigitsOf. *)
LEMMA DigitLevelsExist ==
  ASSUME NEW base \in Bases, NEW top \in Nat
  PROVE  \E g : DigitLevels(base, top, g)
<1> DEFINE S == {n \in Nat : \E g : DigitLevels(base, n, g)}
<1>1. ASSUME NEW n \in Nat, \A m \in 0..(n - 1) : m \in S
      PROVE  \E g : DigitLevels(base, n, g)
  <2>1. PICK h : n > 0 => DigitLevels(base, n - 1, h)
    <3>1. CASE n = 0
      BY <3>1
    <3>2. CASE n > 0
      <4>1. n - 1 \in S
        BY <1>1, <3>2
      <4> QED
        BY <4>1
    <3> QED
      BY <3>1, <3>2
  <2> DEFINE g == [j \in 0..n |-> IF j < n THEN h[j] ELSE DigitLevel(base, h, n)]
  <2>2. \A j \in 0..(n - 1) : h[j] = DigitLevel(base, h, j)
    BY <2>1 DEF DigitLevels
  <2>3. (\A j \in 0..(n - 1) : g[j] = h[j]) /\ g[n] = DigitLevel(base, h, n)
    OBVIOUS
  <2>4. g = [j \in 0..n |-> g[j]]
    OBVIOUS
  <2> HIDE DEF g
  <2>5. ASSUME NEW j \in 0..n PROVE g[j] = DigitLevel(base, g, j)
    <3>1. DigitLevel(base, g, j) = DigitLevel(base, h, j)
      BY <2>3, DigitLevelLocal
    <3>2. CASE j = n
      BY <2>3, <3>1, <3>2
    <3>3. CASE j # n
      BY <2>2, <2>3, <3>1, <3>3
    <3> QED
      BY <3>2, <3>3
  <2>6. DigitLevels(base, n, g)
    BY <2>4, <2>5 DEF DigitLevels
  <2> QED
    BY <2>6
<1>2. \A n \in Nat : n \in S
  BY <1>1, StrongInduction
<1> QED
  BY <1>2

(* Two tables of digits agree where both are defined. *)
LEMMA DigitLevelsAgree ==
  ASSUME NEW base \in Bases, NEW n \in Nat, NEW m \in Nat, NEW g, NEW h,
         DigitLevels(base, n, g), DigitLevels(base, m, h),
         NEW k \in Nat, k <= n, k <= m
  PROVE  g[k] = h[k]
<1> DEFINE S == {j \in Nat : j <= n /\ j <= m => g[j] = h[j]}
<1>1. ASSUME NEW j \in Nat, \A i \in 0..(j - 1) : i \in S, j <= n, j <= m
      PROVE  g[j] = h[j]
  <2>1. \A i \in 0..(j - 1) : g[i] = h[i]
    BY <1>1
  <2>2. g[j] = DigitLevel(base, g, j) /\ h[j] = DigitLevel(base, h, j)
    BY <1>1 DEF DigitLevels
  <2>3. DigitLevel(base, g, j) = DigitLevel(base, h, j)
    BY <2>1, DigitLevelLocal
  <2> QED
    BY <2>2, <2>3
<1>2. \A j \in Nat : j \in S
  BY <1>1, StrongInduction
<1>3. k \in S
  BY <1>2
<1> QED
  BY <1>3

(* DigitsOf divides by the base and appends the remainder. *)
LEMMA DigitsEquation ==
  ASSUME NEW base \in Bases, NEW n \in Nat
  PROVE  /\ n = 0 => DigitsOf(n, base) = <<>>
         /\ n > 0 => DigitsOf(n, base) = Append(DigitsOf(n \div base, base), n % base)
<1> DEFINE f(top) == CHOOSE g : DigitLevels(base, top, g)
<1>1. \A top \in Nat : DigitLevels(base, top, f(top))
  BY DigitLevelsExist
<1>2. \A top \in Nat : DigitsOf(top, base) = f(top)[top]
  BY DEF DigitsOf, DigitLevels, DigitLevel
<1> HIDE DEF f
<1>3. f(n)[n] = DigitLevel(base, f(n), n)
  BY <1>1 DEF DigitLevels
<1>4. CASE n = 0
  BY <1>2, <1>3, <1>4 DEF DigitLevel
<1>5. CASE n > 0
  <2> DEFINE q == n \div base
  <2>1. q \in Nat /\ q <= n /\ q <= q
    BY <1>5, DivType
  <2>2. DigitLevel(base, f(n), n) = Append(f(n)[q], n % base)
    BY <1>5 DEF DigitLevel
  <2> HIDE DEF q
  <2>3. f(n)[q] = f(q)[q]
    BY <1>1, <2>1, DigitLevelsAgree
  <2> QED
    BY <1>2, <1>3, <1>5, <2>1, <2>2, <2>3 DEF q
<1> QED
  BY <1>4, <1>5

(* The digits of a number are a sequence of digits, the first not zero. *)
LEMMA DigitsType ==
  ASSUME NEW base \in Bases, NEW n \in Nat
  PROVE  /\ DigitsOf(n, base) \in Seq(0..(base - 1))
         /\ n > 0 => Len(DigitsOf(n, base)) > 0 /\ DigitsOf(n, base)[1] # 0
<1> DEFINE D(k) == DigitsOf(k, base)
           Typed(k) == /\ D(k) \in Seq(0..(base - 1))
                       /\ k > 0 => Len(D(k)) > 0 /\ D(k)[1] # 0
           S == {k \in Nat : Typed(k)}
<1>1. ASSUME NEW k \in Nat, \A j \in 0..(k - 1) : j \in S
      PROVE  Typed(k)
  <2>1. CASE k = 0
    <3>1. D(k) = <<>>
      BY <2>1, DigitsEquation
    <3>2. <<>> \in Seq(0..(base - 1)) /\ ~(k > 0)
      BY <2>1
    <3>3. D(k) \in Seq(0..(base - 1))
      BY <3>1, <3>2, Zenon
    <3> QED
      BY <3>2, <3>3, Zenon
  <2>2. CASE k > 0
    <3> DEFINE q == k \div base
               r == k % base
    <3>1. D(k) = Append(D(q), r)
      BY <2>2, DigitsEquation
    <3>2. q \in Nat /\ q < k /\ r \in 0..(base - 1) /\ base \in Nat /\ (q = 0 => r # 0)
      BY <2>2, DivType
    <3> HIDE DEF q, r, D
    <3>4. Typed(q)
      <4>1. q \in 0..(k - 1)
        BY <3>2
      <4>2. q \in S
        BY <1>1, <4>1
      <4> QED
        BY <4>2
    <3>5. q = 0 => D(q) = <<>>
      BY DigitsEquation DEF D
    <3> DEFINE s == D(q)
               T == 0..(base - 1)
    <3>6. s \in Seq(T) /\ r \in T /\ D(k) = Append(s, r)
      BY <3>1, <3>2, <3>4
    <3>7. /\ D(k) \in Seq(T) /\ Len(D(k)) = Len(s) + 1 /\ Len(s) \in Nat
          /\ \A i \in 1..Len(s) : D(k)[i] = s[i]
          /\ D(k)[Len(s) + 1] = r
      <4> HIDE DEF s, T
      <4> QED
        BY <3>6
    <3>8. CASE q = 0
      <4>1. Len(s) = 0
        BY <3>5, <3>8
      <4> QED
        BY <3>2, <3>7, <3>8, <4>1
    <3>9. CASE q > 0
      <4>1. Len(s) > 0 /\ s[1] # 0
        BY <3>4, <3>9
      <4>2. D(k)[1] = s[1]
        BY <3>7, <4>1
      <4> QED
        BY <3>7, <4>1, <4>2
    <3> QED
      BY <3>2, <3>8, <3>9
  <2> QED
    BY <2>1, <2>2
<1>2. \A k \in Nat : (\A j \in 0..(k - 1) : j \in S) => k \in S
  <2> HIDE DEF Typed
  <2> QED
    BY <1>1
<1>3. n \in S
  <2> HIDE DEF S
  <2> QED
    BY <1>2, StrongInduction
<1> QED
  BY <1>3

(* ValueOf's recursion, over the first i digits. *)
ValueLevel(s, base, g, i) == IF i = 0 THEN 0 ELSE g[i - 1] * base + s[i]

(* The table of the values of the first 0..n digits. *)
ValueLevels(s, base, n, g) == g = [i \in 0..n |-> ValueLevel(s, base, g, i)]

(* The table exists, so that the recursion defines ValueOf. *)
LEMMA ValueLevelsExist ==
  ASSUME NEW s, NEW base, NEW top \in Nat
  PROVE  \E g : ValueLevels(s, base, top, g)
<1> DEFINE S == {n \in Nat : \E g : ValueLevels(s, base, n, g)}
<1>1. ASSUME NEW n \in Nat, \A m \in 0..(n - 1) : m \in S
      PROVE  \E g : ValueLevels(s, base, n, g)
  <2>1. PICK h : n > 0 => ValueLevels(s, base, n - 1, h)
    <3>1. CASE n = 0
      BY <3>1
    <3>2. CASE n > 0
      <4>1. n - 1 \in S
        BY <1>1, <3>2
      <4> QED
        BY <4>1
    <3> QED
      BY <3>1, <3>2
  <2> DEFINE g == [j \in 0..n |-> IF j < n THEN h[j] ELSE ValueLevel(s, base, h, n)]
  <2>2. \A j \in 0..(n - 1) : h[j] = ValueLevel(s, base, h, j)
    BY <2>1 DEF ValueLevels
  <2>3. (\A j \in 0..(n - 1) : g[j] = h[j]) /\ g[n] = ValueLevel(s, base, h, n)
    OBVIOUS
  <2>4. g = [j \in 0..n |-> g[j]]
    OBVIOUS
  <2> HIDE DEF g
  <2>5. ASSUME NEW j \in 0..n PROVE g[j] = ValueLevel(s, base, g, j)
    <3>1. ValueLevel(s, base, g, j) = ValueLevel(s, base, h, j)
      <4>1. j # 0 => g[j - 1] = h[j - 1]
        BY <2>3
      <4> QED
        BY <4>1 DEF ValueLevel
    <3>2. CASE j = n
      BY <2>3, <3>1, <3>2
    <3>3. CASE j # n
      BY <2>2, <2>3, <3>1, <3>3
    <3> QED
      BY <3>2, <3>3
  <2>6. ValueLevels(s, base, n, g)
    BY <2>4, <2>5 DEF ValueLevels
  <2> QED
    BY <2>6
<1>2. \A n \in Nat : n \in S
  BY <1>1, StrongInduction
<1> QED
  BY <1>2

(* Two tables of values agree where their digits do. *)
LEMMA ValueLevelsAgree ==
  ASSUME NEW s, NEW t, NEW base, NEW n \in Nat, NEW m \in Nat, NEW g, NEW h,
         ValueLevels(s, base, n, g), ValueLevels(t, base, m, h),
         n <= m, \A i \in 1..n : s[i] = t[i]
  PROVE  g[n] = h[n]
<1> DEFINE S == {j \in Nat : j <= n => g[j] = h[j]}
<1>1. ASSUME NEW j \in Nat, \A i \in 0..(j - 1) : i \in S, j <= n
      PROVE  g[j] = h[j]
  <2>0. j \in 0..n /\ j \in 0..m
    BY <1>1
  <2>1. g[j] = ValueLevel(s, base, g, j) /\ h[j] = ValueLevel(t, base, h, j)
    <3> HIDE DEF S
    <3> QED
      BY <2>0 DEF ValueLevels
  <2>2. CASE j = 0
    BY <2>1, <2>2 DEF ValueLevel
  <2>3. CASE j # 0
    <3>1. j - 1 \in S /\ j - 1 <= n
      BY <1>1, <2>3
    <3>2. g[j - 1] = h[j - 1]
      BY <3>1
    <3>3. s[j] = t[j]
      BY <1>1, <2>3
    <3> QED
      BY <2>1, <2>3, <3>2, <3>3 DEF ValueLevel
  <2> QED
    BY <2>2, <2>3
<1>2. \A j \in Nat : j \in S
  BY <1>1, StrongInduction
<1>3. n \in S
  BY <1>2
<1> QED
  BY <1>3

(* The value of no digits, and of one digit more. *)
LEMMA ValueEquation ==
  ASSUME NEW base, NEW T, NEW s \in Seq(T), NEW d \in T
  PROVE  /\ ValueOf(<<>>, base) = 0
         /\ ValueOf(Append(s, d), base) = ValueOf(s, base) * base + d
<1> DEFINE f(x) == CHOOSE g : ValueLevels(x, base, Len(x), g)
<1>1. \A x : Len(x) \in Nat => ValueLevels(x, base, Len(x), f(x))
  BY ValueLevelsExist
<1>2. \A x : ValueOf(x, base) = f(x)[Len(x)]
  BY DEF ValueOf, ValueLevels, ValueLevel
<1> HIDE DEF f
<1>3. Len(<<>>) = 0 /\ 0 \in Nat
  OBVIOUS
<1>4. f(<<>>)[0] = 0
  BY <1>1, <1>3 DEF ValueLevels, ValueLevel
<1> DEFINE e == Append(s, d)
           n == Len(s)
<1>5. n \in Nat /\ Len(e) = n + 1 /\ (\A i \in 1..n : e[i] = s[i]) /\ e[n + 1] = d
  OBVIOUS
<1> HIDE DEF e, n
<1>6. ValueLevels(e, base, n + 1, f(e)) /\ ValueLevels(s, base, n, f(s))
  BY <1>1, <1>5 DEF n
<1> DEFINE fe == f(e)
           fs == f(s)
           m == n + 1
<1>m. m \in Nat /\ n <= m /\ n <= n /\ m # 0 /\ m - 1 = n /\ m \in 0..m
  BY <1>5
<1>l. ValueLevels(e, base, m, fe) /\ ValueLevels(s, base, n, fs) /\ \A i \in 1..n : s[i] = e[i]
  BY <1>5, <1>6
<1> HIDE DEF fe, fs, m
<1>7. fs[n] = fe[n]
  BY <1>5, <1>l, <1>m, ValueLevelsAgree
<1>8. fe[m] = fe[n] * base + d
  <2>1. fe[m] = ValueLevel(e, base, fe, m)
    BY <1>l, <1>m DEF ValueLevels
  <2>2. e[m] = d
    BY <1>5 DEF m
  <2> QED
    BY <1>m, <2>1, <2>2 DEF ValueLevel
<1>9. ValueOf(e, base) = ValueOf(s, base) * base + d
  <2>1. ValueOf(e, base) = f(e)[Len(e)] /\ ValueOf(s, base) = f(s)[Len(s)]
    BY <1>2
  <2>2. Len(e) = m /\ Len(s) = n
    BY <1>5 DEF m, n
  <2>3. ValueOf(e, base) = fe[m] /\ ValueOf(s, base) = fs[n]
    BY <2>1, <2>2 DEF fe, fs
  <2> QED
    BY <1>7, <1>8, <2>3
<1>10. ValueOf(<<>>, base) = 0
  BY <1>2, <1>3, <1>4
<1> QED
  BY <1>9, <1>10 DEF e

(* Induction over the sequences of a set: what holds of the empty sequence  *)
(* and is kept by Append holds of all of them.                              *)
LEMMA SequencesInduction ==
  ASSUME NEW T, NEW S, <<>> \in S,
         \A t \in Seq(T), d \in T : t \in S => Append(t, d) \in S
  PROVE  \A s \in Seq(T) : s \in S
<1> DEFINE N == {n \in Nat : \A s \in Seq(T) : Len(s) = n => s \in S}
<1>1. ASSUME NEW n \in Nat, \A m \in 0..(n - 1) : m \in N, NEW s \in Seq(T), Len(s) = n
      PROVE  s \in S
  <2>1. CASE n = 0
    <3>1. s = <<>>
      BY <1>1, <2>1
    <3> QED
      BY <3>1
  <2>2. CASE n > 0
    <3> DEFINE t == SubSeq(s, 1, n - 1)
               d == s[n]
    <3>1. t \in Seq(T) /\ Len(t) = n - 1 /\ d \in T /\ s = Append(t, d)
      BY <1>1, <2>2
    <3> HIDE DEF t, d
    <3>2. t \in S
      BY <1>1, <2>2, <3>1
    <3> QED
      BY <3>1, <3>2
  <2> QED
    BY <2>1, <2>2
<1>2. \A n \in Nat : n \in N
  BY <1>1, StrongInduction
<1> QED
  BY <1>2

(* What Append does to a sequence. *)
LEMMA AppendFacts ==
  ASSUME NEW T, NEW t \in Seq(T), NEW d \in T
  PROVE  /\ Append(t, d) \in Seq(T) /\ Len(t) \in Nat /\ Len(Append(t, d)) = Len(t) + 1
         /\ \A i \in 1..Len(t) : Append(t, d)[i] = t[i]
         /\ Append(t, d)[Len(t) + 1] = d
  OBVIOUS

(* The empty string denotes zero. *)
LEMMA EmptyValue ==
  ASSUME NEW base
  PROVE  ValueOf(<<>>, base) = 0
<1>1. PICK d : d \in {0}
  OBVIOUS
<1>2. <<>> \in Seq({0})
  OBVIOUS
<1> QED
  BY <1>1, <1>2, ValueEquation

(* A string of digits has a value. *)
LEMMA ValueType ==
  ASSUME NEW base \in Bases
  PROVE  \A s \in Seq(0..(base - 1)) : ValueOf(s, base) \in Nat
<1> DEFINE T == 0..(base - 1)
           V(s) == ValueOf(s, base)
           S == {s \in Seq(T) : V(s) \in Nat}
<1>0. <<>> \in Seq(T)
  OBVIOUS
<1>1. ASSUME NEW t \in Seq(T), NEW d \in T
      PROVE  V(Append(t, d)) = V(t) * base + d
  <2> HIDE DEF T
  <2> QED
    BY ValueEquation
<1>2. <<>> \in S
  BY <1>0, EmptyValue
<1>3. ASSUME NEW t \in Seq(T), NEW d \in T, t \in S PROVE Append(t, d) \in S
  <2>1. V(t) * base + d \in Nat
    <3> HIDE DEF V
    <3>1. V(t) \in Nat
      BY <1>3
    <3> QED
      BY <3>1, MulAdd
  <2>2. Append(t, d) \in Seq(T)
    BY AppendFacts
  <2> QED
    BY <1>1, <2>1, <2>2
<1> HIDE DEF T
<1>4. \A s \in Seq(T) : s \in S
  <2> HIDE DEF S
  <2> QED
    BY <1>2, <1>3, SequencesInduction
<1> QED
  BY <1>4 DEF T

(* The digits of a number denote it. *)
LEMMA ValueOfDigits ==
  ASSUME NEW base \in Bases, NEW n \in Nat
  PROVE  ValueOf(DigitsOf(n, base), base) = n
<1> DEFINE S == {k \in Nat : ValueOf(DigitsOf(k, base), base) = k}
           T == 0..(base - 1)
<1>1. ASSUME NEW k \in Nat, \A j \in 0..(k - 1) : j \in S
      PROVE  ValueOf(DigitsOf(k, base), base) = k
  <2>1. CASE k = 0
    <3>1. DigitsOf(k, base) = <<>>
      BY <2>1, DigitsEquation
    <3>2. ValueOf(<<>>, base) = 0
      BY EmptyValue
    <3> QED
      BY <2>1, <3>1, <3>2
  <2>2. CASE k > 0
    <3> DEFINE q == k \div base
               r == k % base
    <3>1. DigitsOf(k, base) = Append(DigitsOf(q, base), r)
      BY <2>2, DigitsEquation
    <3>2. q \in Nat /\ q < k /\ r \in T
      BY <2>2, DivType
    <3>3. k = q * base + r
      BY DivMod
    <3> HIDE DEF q, r
    <3>4. DigitsOf(q, base) \in Seq(T)
      BY <3>2, DigitsType
    <3>5. ValueOf(DigitsOf(q, base), base) = q
      <4>1. q \in 0..(k - 1)
        BY <3>2
      <4> QED
        BY <1>1, <4>1
    <3> HIDE DEF T
    <3>6. \A s \in Seq(T) : ValueOf(Append(s, r), base) = ValueOf(s, base) * base + r
      BY <3>2, ValueEquation
    <3> QED
      BY <3>1, <3>3, <3>4, <3>5, <3>6
  <2> QED
    BY <2>1, <2>2
<1>2. \A k \in Nat : k \in S
  BY <1>1, StrongInduction
<1> QED
  BY <1>2

(* A string of digits without leading zeros is what its value is written as. *)
LEMMA DigitsOfValue ==
  ASSUME NEW base \in Bases
  PROVE  \A s \in Seq(0..(base - 1)) : s = <<>> \/ s[1] # 0 => DigitsOf(ValueOf(s, base), base) = s
<1> DEFINE T == 0..(base - 1)
           V(s) == ValueOf(s, base)
           D(n) == DigitsOf(n, base)
           Back(s) == V(s) > 0 /\ D(V(s)) = s
           S == {s \in Seq(T) : s # <<>> /\ s[1] # 0 => Back(s)}
<1>0. <<>> \in Seq(T) /\ V(<<>>) = 0 /\ D(0) = <<>>
  <2>1. <<>> \in Seq(T)
    OBVIOUS
  <2> QED
    BY <2>1, EmptyValue, DigitsEquation
<1>1. \A s \in Seq(T) : V(s) \in Nat
  BY ValueType
<1>2. ASSUME NEW t \in Seq(T), NEW d \in T PROVE V(Append(t, d)) = V(t) * base + d
  <2> HIDE DEF T
  <2> QED
    BY ValueEquation
<1>3. ASSUME NEW v \in Nat, NEW d \in T, v > 0 \/ d > 0
      PROVE  v * base + d > 0 /\ D(v * base + d) = Append(D(v), d)
  <2> DEFINE n == v * base + d
  <2>1. n \in Nat /\ n > 0 /\ n \div base = v /\ n % base = d
    BY <1>3, MulAdd
  <2> HIDE DEF n
  <2>2. D(n) = Append(D(n \div base), n % base)
    BY <2>1, DigitsEquation
  <2> QED
    BY <2>1, <2>2 DEF n
<1>4. ASSUME NEW t \in Seq(T), NEW d \in T, t \in S, Append(t, d)[1] # 0
      PROVE  Back(Append(t, d))
  <2> HIDE DEF V, D
  <2>1. CASE t = <<>>
    <3>1. d # 0
      <4>1. Append(t, d)[Len(t) + 1] = d /\ Len(t) = 0
        BY <2>1
      <4> QED
        BY <1>4, <4>1
    <3>2. V(t) = 0 /\ d > 0
      BY <1>0, <2>1, <3>1
    <3>3. V(Append(t, d)) > 0 /\ D(V(Append(t, d))) = Append(D(V(t)), d)
      <4>1. V(t) \in Nat
        BY <1>1
      <4> QED
        BY <1>2, <1>3, <3>2, <4>1
    <3> QED
      BY <1>0, <2>1, <3>2, <3>3
  <2>2. CASE t # <<>>
    <3>1. t[1] # 0
      BY <1>4, <2>2
    <3>2. V(t) > 0 /\ D(V(t)) = t
      BY <1>4, <2>2, <3>1
    <3>3. V(t) \in Nat
      BY <1>1
    <3>4. V(Append(t, d)) > 0 /\ D(V(Append(t, d))) = Append(D(V(t)), d)
      BY <1>2, <1>3, <3>2, <3>3
    <3> QED
      BY <3>2, <3>4
  <2> QED
    BY <2>1, <2>2
<1>5. <<>> \in S
  BY <1>0
<1>6. \A t \in Seq(T), d \in T : t \in S => Append(t, d) \in S
  <2>1. \A t \in Seq(T), d \in T : Append(t, d) \in Seq(T)
    OBVIOUS
  <2> HIDE DEF Back, T
  <2> QED
    BY <1>4, <2>1
<1>7. \A s \in Seq(T) : s \in S
  <2> HIDE DEF S, T
  <2> QED
    BY <1>5, <1>6, SequencesInduction
<1>8. ASSUME NEW s \in Seq(T), s = <<>> \/ s[1] # 0 PROVE D(V(s)) = s
  <2>1. CASE s = <<>>
    BY <1>0, <2>1
  <2>2. CASE s # <<>>
    <3> HIDE DEF V, D
    <3> QED
      BY <1>7, <1>8, <2>2
  <2> QED
    BY <2>1, <2>2
<1> QED
  BY <1>8

(* A run of zeros. *)
Zeros(z) == [i \in 1..z |-> 0]

(* It is a string of either notation, built by appending zeros. *)
LEMMA ZerosFacts ==
  ASSUME NEW base \in Bases, NEW z \in Nat
  PROVE  /\ Zeros(z) \in Seq(0..(base - 1)) /\ Len(Zeros(z)) = z
         /\ \A i \in 1..z : Zeros(z)[i] = 0
         /\ Zeros(z + 1) = Append(Zeros(z), 0) /\ Zeros(0) = <<>>
<1>0. 0 \in 0..(base - 1)
  <2>1. base \in Nat /\ base >= 2
    BY DivType
  <2> QED
    BY <2>1
<1> DEFINE T == 0..(base - 1)
<1>1. 0 \in T
  BY <1>0
<1> HIDE DEF T
<1>2. \A y \in Nat : Zeros(y) \in Seq(T) /\ Len(Zeros(y)) = y /\ \A i \in 1..y : Zeros(y)[i] = 0
  BY <1>1 DEF Zeros
<1>3. Zeros(z + 1) = Append(Zeros(z), 0)
  <2> DEFINE a == Zeros(z + 1)
             b == Append(Zeros(z), 0)
  <2>1. a \in Seq(T) /\ Len(a) = z + 1 /\ \A i \in 1..(z + 1) : a[i] = 0
    BY <1>2
  <2>2. b \in Seq(T) /\ Len(b) = z + 1 /\ \A i \in 1..(z + 1) : b[i] = 0
    <3> DEFINE y == Zeros(z)
    <3>1. y \in Seq(T) /\ Len(y) = z /\ \A i \in 1..z : y[i] = 0
      BY <1>2
    <3> HIDE DEF y
    <3>2. b \in Seq(T) /\ Len(b) = z + 1 /\ (\A i \in 1..z : b[i] = y[i]) /\ b[z + 1] = 0
      BY <1>1, <3>1 DEF y
    <3> QED
      BY <3>1, <3>2
  <2> HIDE DEF a, b
  <2>3. a = b
    BY <2>1, <2>2
  <2> QED
    BY <2>3 DEF a, b
<1>4. Zeros(0) = <<>>
  <2>1. Zeros(0) \in Seq(T) /\ Len(Zeros(0)) = 0
    BY <1>2
  <2> QED
    BY <2>1
<1> QED
  BY <1>2, <1>3, <1>4 DEF T

(* Zeros in front do not change the value. *)
LEMMA ValueOfZeros ==
  ASSUME NEW base \in Bases, NEW z \in Nat
  PROVE  \A t \in Seq(0..(base - 1)) : ValueOf(Zeros(z) \o t, base) = ValueOf(t, base)
<1> DEFINE T == 0..(base - 1)
           V(s) == ValueOf(s, base)
           S == {t \in Seq(T) : V(Zeros(z) \o t) = V(t)}
<1>0. /\ <<>> \in Seq(T) /\ V(<<>>) = 0
      /\ 0 \in T /\ base \in Nat
  <2>1. base \in Nat /\ base >= 2
    BY DivType
  <2> QED
    BY <2>1, EmptyValue
<1>1. ASSUME NEW t \in Seq(T), NEW d \in T PROVE V(Append(t, d)) = V(t) * base + d
  <2> HIDE DEF T
  <2> QED
    BY ValueEquation
<1>z. \A y \in Nat : /\ Zeros(y) \in Seq(T) /\ Zeros(y + 1) = Append(Zeros(y), 0)
                     /\ Zeros(0) = <<>>
  BY ZerosFacts
<1> HIDE DEF T, V
<1>2. V(Zeros(z)) = 0
  <2> DEFINE Y == {y \in Nat : V(Zeros(y)) = 0}
  <2>1. ASSUME NEW y \in Nat, \A x \in 0..(y - 1) : x \in Y PROVE V(Zeros(y)) = 0
    <3>1. CASE y = 0
      BY <1>0, <1>z, <3>1
    <3>2. CASE y > 0
      <4> DEFINE x == y - 1
      <4>1. x \in Nat /\ y = x + 1 /\ x \in 0..(y - 1)
        BY <3>2
      <4> HIDE DEF x
      <4>2. V(Zeros(x)) = 0
        BY <2>1, <4>1
      <4>3. Zeros(y) = Append(Zeros(x), 0) /\ Zeros(x) \in Seq(T)
        BY <1>z, <4>1
      <4>4. V(Zeros(y)) = V(Zeros(x)) * base + 0
        BY <1>0, <1>1, <4>3
      <4> QED
        BY <1>0, <4>2, <4>4
    <3> QED
      BY <3>1, <3>2
  <2>2. \A y \in Nat : y \in Y
    BY <2>1, StrongInduction
  <2> QED
    BY <2>2
<1>3. <<>> \in S
  <2>1. Zeros(z) \o <<>> = Zeros(z)
    BY <1>z
  <2> QED
    BY <1>0, <1>2, <2>1
<1>4. ASSUME NEW t \in Seq(T), NEW d \in T, V(Zeros(z) \o t) = V(t)
      PROVE  V(Zeros(z) \o Append(t, d)) = V(Append(t, d))
  <2> DEFINE y == Zeros(z)
  <2>1. y \in Seq(T)
    BY <1>z
  <2> HIDE DEF y
  <2>2. y \o Append(t, d) = Append(y \o t, d) /\ y \o t \in Seq(T)
    BY <2>1
  <2>3. V(Append(y \o t, d)) = V(y \o t) * base + d /\ V(Append(t, d)) = V(t) * base + d
    BY <1>1, <2>2
  <2> QED
    BY <1>4, <2>2, <2>3 DEF y
<1>5. \A t \in Seq(T), d \in T : t \in S => Append(t, d) \in S
  <2>1. \A t \in Seq(T), d \in T : Append(t, d) \in Seq(T)
    OBVIOUS
  <2> QED
    BY <1>4, <2>1
<1>6. \A t \in Seq(T) : t \in S
  <2> HIDE DEF S
  <2> QED
    BY <1>3, <1>5, SequencesInduction
<1> QED
  BY <1>6 DEF T, V

(* The first z symbols of s are all its leading zeros. *)
ZeroRun(s, z) == (\A i \in 1..z : s[i] = 0) /\ (z < Len(s) => s[z + 1] # 0)

(* Every sequence has such a z. *)
LEMMA ZeroRunExists ==
  ASSUME NEW T
  PROVE  \A s \in Seq(T) : \E z \in 0..Len(s) : ZeroRun(s, z)
<1> DEFINE S == {s \in Seq(T) : \E z \in 0..Len(s) : ZeroRun(s, z)}
<1>1. <<>> \in S
  <2>1. <<>> \in Seq(T) /\ 0 \in 0..Len(<<>>) /\ ~(0 < Len(<<>>)) /\ 1..0 = {}
    OBVIOUS
  <2>2. ZeroRun(<<>>, 0)
    BY <2>1 DEF ZeroRun
  <2> QED
    BY <2>1, <2>2
<1>2. ASSUME NEW t \in Seq(T), NEW d \in T, t \in S PROVE Append(t, d) \in S
  <2> DEFINE e == Append(t, d)
             n == Len(t)
  <2>1. /\ e \in Seq(T) /\ n \in Nat /\ Len(e) = n + 1
        /\ (\A i \in 1..n : e[i] = t[i]) /\ e[n + 1] = d
    OBVIOUS
  <2>2. PICK z \in 0..n : (\A i \in 1..z : t[i] = 0) /\ (z < n => t[z + 1] # 0)
    BY <1>2 DEF ZeroRun
  <2> HIDE DEF e, n
  <2>3. \A i \in 1..z : e[i] = 0
    BY <2>1, <2>2
  <2>4. CASE z < n \/ d # 0
    <3>1. e[z + 1] # 0
      <4>1. CASE z < n
        BY <2>1, <2>2, <4>1
      <4>2. CASE z = n
        BY <2>1, <2>4, <4>2
      <4> QED
        BY <2>1, <4>1, <4>2
    <3>2. ZeroRun(e, z)
      BY <2>3, <3>1 DEF ZeroRun
    <3>3. z \in 0..Len(e)
      BY <2>1
    <3> QED
      BY <2>1, <3>2, <3>3 DEF e
  <2>5. CASE z = n /\ d = 0
    <3>1. \A i \in 1..(n + 1) : e[i] = 0
      BY <2>1, <2>3, <2>5
    <3>2. ZeroRun(e, n + 1)
      BY <2>1, <3>1 DEF ZeroRun
    <3>3. n + 1 \in 0..Len(e)
      BY <2>1
    <3> QED
      BY <2>1, <3>2, <3>3 DEF e
  <2> QED
    BY <2>1, <2>4, <2>5
<1> QED
  <2>1. \A t \in Seq(T), d \in T : t \in S => Append(t, d) \in S
    BY <1>2
  <2>2. \A s \in Seq(T) : s \in S
    <3> HIDE DEF S
    <3> QED
      BY <1>1, <2>1, SequencesInduction
  <2> QED
    BY <2>2

(* There is only one such z, which LeadingZeros finds. *)
LEMMA LeadingZerosIs ==
  ASSUME NEW s, Len(s) \in Nat, NEW z \in 0..Len(s), ZeroRun(s, z)
  PROVE  LeadingZeros(s) = z
<1> DEFINE w == LeadingZeros(s)
<1>1. w \in 0..Len(s) /\ ZeroRun(s, w)
  BY DEF LeadingZeros, ZeroRun
<1> HIDE DEF w
<1>2. ~(w < z)
  <2> SUFFICES ASSUME w < z PROVE FALSE
    OBVIOUS
  <2>1. w < Len(s) /\ w + 1 \in 1..z
    BY <1>1
  <2> QED
    BY <1>1, <2>1 DEF ZeroRun
<1>3. ~(z < w)
  <2> SUFFICES ASSUME z < w PROVE FALSE
    OBVIOUS
  <2>1. z < Len(s) /\ z + 1 \in 1..w
    BY <1>1
  <2> QED
    BY <1>1, <2>1 DEF ZeroRun
<1> QED
  BY <1>1, <1>2, <1>3 DEF w

(* A string is its leading zeros and a rest without any. *)
LEMMA ZerosAndRest ==
  ASSUME NEW T, NEW s \in Seq(T)
  PROVE  /\ LeadingZeros(s) \in Nat
         /\ \E t \in Seq(T) : (t = <<>> \/ t[1] # 0) /\ s = Zeros(LeadingZeros(s)) \o t
<1>1. Len(s) \in Nat
  OBVIOUS
<1>2. PICK z \in 0..Len(s) : ZeroRun(s, z)
  BY ZeroRunExists
<1>3. LeadingZeros(s) = z
  BY <1>1, <1>2, LeadingZerosIs
<1> DEFINE n == Len(s)
           t == SubSeq(s, z + 1, n)
           y == Zeros(z)
<1>4. t \in Seq(T) /\ Len(t) = n - z /\ \A i \in 1..(n - z) : t[i] = s[z + i]
  BY <1>1
<1>5. Len(y) = z /\ (\A i \in 1..z : y[i] = 0) /\ y \in Seq({0})
  BY <1>1 DEF Zeros
<1> HIDE DEF t, y
<1>6. t = <<>> \/ t[1] # 0
  <2>1. CASE z = n
    <3>1. Len(t) = 0
      BY <1>1, <1>4, <2>1
    <3> QED
      BY <1>4, <3>1
  <2>2. CASE z < n
    <3>1. t[1] = s[z + 1]
      BY <1>1, <1>4, <2>2
    <3> QED
      BY <1>2, <2>2, <3>1 DEF ZeroRun
  <2> QED
    BY <1>1, <2>1, <2>2
<1>7. s = y \o t
  <2> DEFINE u == y \o t
  <2>1. /\ u \in Seq(T \cup {0}) /\ Len(u) = z + (n - z)
        /\ \A i \in 1..Len(u) : u[i] = IF i <= z THEN y[i] ELSE t[i - z]
    BY <1>4, <1>5
  <2>2. s \in Seq(T \cup {0})
    OBVIOUS
  <2>3. Len(u) = n
    BY <1>1, <2>1
  <2> HIDE DEF u
  <2>4. ASSUME NEW i \in 1..n PROVE u[i] = s[i]
    <3>1. CASE i <= z
      <4>1. s[i] = 0
        BY <1>2, <3>1 DEF ZeroRun
      <4> QED
        BY <1>5, <2>1, <2>3, <3>1, <4>1
    <3>2. CASE i > z
      <4>1. u[i] = t[i - z]
        BY <1>1, <2>1, <2>3, <3>2
      <4>2. i - z \in 1..(n - z) /\ z + (i - z) = i
        BY <1>1, <3>2
      <4> QED
        BY <1>4, <4>1, <4>2
    <3> QED
      BY <1>1, <3>1, <3>2
  <2>5. u = s
    BY <2>1, <2>2, <2>3, <2>4
  <2> QED
    BY <2>5 DEF u
<1>8. s = Zeros(LeadingZeros(s)) \o t /\ t \in Seq(T)
  BY <1>3, <1>4, <1>7 DEF y
<1>9. LeadingZeros(s) \in Nat
  BY <1>1, <1>3
<1> QED
  BY <1>6, <1>8, <1>9

(* Zeros put in front of a string without any are its leading zeros. *)
LEMMA LeadingZerosOfRun ==
  ASSUME NEW T, NEW z \in Nat, NEW t \in Seq(T), t = <<>> \/ t[1] # 0
  PROVE  LeadingZeros(Zeros(z) \o t) = z
<1> DEFINE y == Zeros(z)
           u == y \o t
           n == Len(t)
<1>1. Len(y) = z /\ (\A i \in 1..z : y[i] = 0) /\ y \in Seq({0})
  BY DEF Zeros
<1> HIDE DEF y
<1>2. /\ n \in Nat /\ Len(u) = z + n
      /\ \A i \in 1..(z + n) : u[i] = IF i <= z THEN y[i] ELSE t[i - z]
  BY <1>1
<1>3. n > 0 => t[1] # 0
  BY <1>2
<1> HIDE DEF u, n
<1>4. Len(u) \in Nat /\ z \in 0..Len(u)
  BY <1>2
<1>5. \A i \in 1..z : u[i] = 0
  BY <1>1, <1>2
<1>6. z < Len(u) => u[z + 1] # 0
  <2> SUFFICES ASSUME z < Len(u) PROVE u[z + 1] # 0
    OBVIOUS
  <2>1. n > 0 /\ z + 1 \in 1..(z + n) /\ ~(z + 1 <= z) /\ (z + 1) - z = 1
    BY <1>2
  <2>2. u[z + 1] = t[1]
    BY <1>2, <2>1
  <2> QED
    BY <1>3, <2>1, <2>2
<1>7. ZeroRun(u, z)
  BY <1>5, <1>6 DEF ZeroRun
<1>8. LeadingZeros(u) = z
  BY <1>4, <1>7, LeadingZerosIs
<1> QED
  BY <1>8 DEF u, y

(* Converting a string to the other notation and back gives it again, and   *)
(* the conversion gives digits of its notation.                             *)
THEOREM ConvertBack ==
  ASSUME NEW from \in Bases, NEW to \in Bases, NEW s \in Seq(0..(from - 1))
  PROVE  /\ Convert(s, from, to) \in Seq(0..(to - 1))
         /\ Convert(Convert(s, from, to), to, from) = s
<1> DEFINE F == 0..(from - 1)
           T == 0..(to - 1)
           z == LeadingZeros(s)
           n == ValueOf(s, from)
           d == DigitsOf(n, to)
           c == Convert(s, from, to)
<1>1. z \in Nat
  BY ZerosAndRest
<1>2. PICK t \in Seq(F) : (t = <<>> \/ t[1] # 0) /\ s = Zeros(z) \o t
  <2> HIDE DEF F, z
  <2> QED
    BY ZerosAndRest DEF F, z
<1>3. n \in Nat
  BY ValueType
<1>4. n = ValueOf(t, from)
  <2> HIDE DEF z
  <2> QED
    BY <1>1, <1>2, ValueOfZeros
<1>5. DigitsOf(n, from) = t
  BY <1>2, <1>4, DigitsOfValue
<1> HIDE DEF n
<1>6. d \in Seq(T) /\ (d = <<>> \/ d[1] # 0) /\ ValueOf(d, to) = n
  <2>1. d \in Seq(T) /\ (n > 0 => d[1] # 0)
    BY <1>3, DigitsType
  <2>2. n = 0 => d = <<>>
    BY DigitsEquation
  <2>3. ValueOf(d, to) = n
    BY <1>3, ValueOfDigits
  <2>4. n = 0 \/ n > 0
    BY <1>3
  <2> QED
    BY <2>1, <2>2, <2>3, <2>4
<1>7. c = Zeros(z) \o d
  BY DEF Convert, Zeros, n
<1> HIDE DEF z, d, c
<1>8. c \in Seq(T)
  <2>1. Zeros(z) \in Seq(T)
    BY <1>1, ZerosFacts
  <2> HIDE DEF T
  <2> QED
    BY <1>6, <1>7, <2>1
<1>9. LeadingZeros(c) = z
  <2> HIDE DEF T
  <2> QED
    BY <1>1, <1>6, <1>7, LeadingZerosOfRun
<1>10. ValueOf(c, to) = n
  BY <1>1, <1>6, <1>7, ValueOfZeros
<1>11. Convert(c, to, from) = Zeros(z) \o DigitsOf(n, from)
  BY <1>9, <1>10 DEF Convert, Zeros
<1>12. Convert(c, to, from) = s
  BY <1>2, <1>5, <1>11
<1> QED
  BY <1>8, <1>12 DEF c

---------------------------------------------------------------------------
(* The intent binding: amounts, the layout, and what a binding identifies. *)

(* Two amounts that fit and have the same bytes have as many digits. *)
LEMMA AmountLengths ==
  ASSUME NEW n \in Nat, NEW m \in Nat, AmountInRange(n), AmountInRange(m),
         amount16LE(n) = amount16LE(m)
  PROVE  Len(DigitsOf(m, ByteBase)) <= Len(DigitsOf(n, ByteBase))
<1> DEFINE a == DigitsOf(n, ByteBase)
           b == DigitsOf(m, ByteBase)
           i == Len(b)
<1>0. ByteBase \in Bases
  BY DEF Bases
<1>1. Len(a) \in Nat /\ Len(b) \in Nat /\ Len(b) <= AmountWidth /\ (m > 0 => b[1] # 0)
      /\ (m = 0 => b = <<>>)
  <2>1. a \in Seq(0..(ByteBase - 1)) /\ b \in Seq(0..(ByteBase - 1)) /\ (m > 0 => b[1] # 0)
    BY <1>0, DigitsType
  <2>2. m = 0 => b = <<>>
    BY <1>0, DigitsEquation
  <2>3. Len(b) <= AmountWidth
    BY DEF AmountInRange
  <2>4. Len(a) \in Nat /\ Len(b) \in Nat
    BY <2>1
  <2> QED
    BY <2>1, <2>2, <2>3, <2>4
<1>2. /\ amount16LE(n) = [j \in 1..AmountWidth |-> IF j <= Len(a) THEN a[Len(a) + 1 - j] ELSE 0]
      /\ amount16LE(m) = [j \in 1..AmountWidth |-> IF j <= Len(b) THEN b[Len(b) + 1 - j] ELSE 0]
  BY DEF amount16LE
<1> HIDE DEF a, b
<1> SUFFICES ASSUME ~(Len(b) <= Len(a)) PROVE FALSE
  BY DEF a, b
<1>3. i \in 1..AmountWidth /\ ~(i <= Len(a)) /\ i <= Len(b) /\ Len(b) + 1 - i = 1
  BY <1>1, AmountWidthAssumption
<1>4. m > 0
  <2>1. Len(<<>>) = 0
    OBVIOUS
  <2>2. b # <<>>
    BY <1>1, <1>3, <2>1
  <2> QED
    BY <1>1, <2>2
<1> HIDE DEF i
<1>5. amount16LE(n)[i] = 0
  BY <1>2, <1>3
<1>6. amount16LE(m)[i] = b[1]
  BY <1>2, <1>3
<1> QED
  BY <1>1, <1>4, <1>5, <1>6

(* amount16LE tells the amounts that fit apart. *)
LEMMA AmountsDiffer ==
  ASSUME NEW n \in Nat, NEW m \in Nat, AmountInRange(n), AmountInRange(m),
         amount16LE(n) = amount16LE(m)
  PROVE  n = m
<1> DEFINE a == DigitsOf(n, ByteBase)
           b == DigitsOf(m, ByteBase)
           T == 0..(ByteBase - 1)
           l == Len(a)
<1>0. ByteBase \in Bases
  BY DEF Bases
<1>1. a \in Seq(T) /\ b \in Seq(T)
  BY <1>0, DigitsType
<1>2. Len(a) = Len(b) /\ l \in Nat /\ l <= AmountWidth
  <2>1. Len(b) <= Len(a) /\ Len(a) <= Len(b)
    BY AmountLengths
  <2>2. Len(a) \in Nat /\ Len(b) \in Nat
    BY <1>1
  <2>3. Len(a) <= AmountWidth
    BY DEF AmountInRange
  <2> QED
    BY <2>1, <2>2, <2>3
<1>3. /\ amount16LE(n) = [j \in 1..AmountWidth |-> IF j <= Len(a) THEN a[Len(a) + 1 - j] ELSE 0]
      /\ amount16LE(m) = [j \in 1..AmountWidth |-> IF j <= Len(b) THEN b[Len(b) + 1 - j] ELSE 0]
  BY DEF amount16LE
<1>4. ValueOf(a, ByteBase) = n /\ ValueOf(b, ByteBase) = m
  BY <1>0, ValueOfDigits
<1> HIDE DEF a, b, T
<1>5. /\ amount16LE(n) = [j \in 1..AmountWidth |-> IF j <= l THEN a[l + 1 - j] ELSE 0]
      /\ amount16LE(m) = [j \in 1..AmountWidth |-> IF j <= l THEN b[l + 1 - j] ELSE 0]
  BY <1>2, <1>3
<1> HIDE DEF l
<1>6. ASSUME NEW i \in 1..l PROVE a[i] = b[i]
  <2> DEFINE j == l + 1 - i
  <2>1. j \in 1..AmountWidth /\ j <= l /\ l + 1 - j = i
    BY <1>2, AmountWidthAssumption
  <2> HIDE DEF j
  <2>2. amount16LE(n)[j] = a[i]
    BY <1>5, <2>1
  <2>3. amount16LE(m)[j] = b[i]
    BY <1>5, <2>1
  <2> QED
    BY <2>2, <2>3
<1>7. a = b
  BY <1>1, <1>2, <1>6 DEF l
<1> QED
  BY <1>4, <1>7

(* A sequence, of whatever elements. *)
IsSeq(s) == s \in Seq(Range(s))

(* A sequence of any set is one. *)
LEMMA AnySeq ==
  ASSUME NEW T, NEW s \in Seq(T)
  PROVE  IsSeq(s)
<1>1. \A i \in 1..Len(s) : s[i] \in Range(s)
  BY DEF Range
<1>2. Len(s) \in Nat /\ DOMAIN s = 1..Len(s)
  OBVIOUS
<1> QED
  BY <1>1, <1>2 DEF IsSeq

(* u is a followed by b. *)
Joined(u, a, b) ==
    /\ IsSeq(u) /\ Len(a) \in Nat /\ Len(b) \in Nat
    /\ Len(u) = Len(a) + Len(b)
    /\ \A i \in 1..Len(a) : u[i] = a[i]
    /\ \A i \in 1..Len(b) : u[Len(a) + i] = b[i]

(* Concatenation joins. *)
LEMMA ConcatFacts ==
  ASSUME NEW a, NEW b, IsSeq(a), IsSeq(b)
  PROVE  Joined(a \o b, a, b)
<1> DEFINE T == Range(a) \cup Range(b)
<1>1. a \in Seq(T) /\ b \in Seq(T)
  BY DEF IsSeq
<1> HIDE DEF T
<1>2. /\ a \o b \in Seq(T) /\ Len(a) \in Nat /\ Len(b) \in Nat
      /\ Len(a \o b) = Len(a) + Len(b)
      /\ \A i \in 1..Len(a) : (a \o b)[i] = a[i]
      /\ \A i \in 1..Len(b) : (a \o b)[Len(a) + i] = b[i]
  BY <1>1
<1>3. IsSeq(a \o b)
  BY <1>2, AnySeq
<1> QED
  BY <1>2, <1>3 DEF Joined

(* A sequence that is joined in two ways at one place has one pair of       *)
(* parts.                                                                   *)
LEMMA ConcatSplit ==
  ASSUME NEW u, NEW a, NEW b, NEW c, NEW d, IsSeq(a), IsSeq(b), IsSeq(c), IsSeq(d),
         Joined(u, a, b), Joined(u, c, d), Len(a) = Len(c)
  PROVE  a = c /\ b = d
<1> DEFINE n == Len(a)
           m == Len(b)
<1>1. /\ n \in Nat /\ m \in Nat /\ Len(u) = n + m
      /\ (\A i \in 1..n : u[i] = a[i]) /\ (\A i \in 1..m : u[n + i] = b[i])
  BY DEF Joined
<1>2. /\ Len(c) = n /\ Len(d) \in Nat /\ Len(u) = n + Len(d)
      /\ (\A i \in 1..n : u[i] = c[i]) /\ (\A i \in 1..Len(d) : u[n + i] = d[i])
  BY DEF Joined
<1> HIDE DEF n, m
<1>3. Len(d) = m
  BY <1>1, <1>2
<1>4. \A i \in 1..n : a[i] = c[i]
  BY <1>1, <1>2
<1>5. \A i \in 1..m : b[i] = d[i]
  BY <1>1, <1>2, <1>3
<1>6. a \in Seq(Range(a) \cup Range(c)) /\ c \in Seq(Range(a) \cup Range(c))
  BY DEF IsSeq
<1>7. b \in Seq(Range(b) \cup Range(d)) /\ d \in Seq(Range(b) \cup Range(d))
  BY DEF IsSeq
<1>8. a = c
  BY <1>2, <1>4, <1>6 DEF n
<1>9. b = d
  BY <1>3, <1>5, <1>7 DEF m
<1> QED
  BY <1>8, <1>9

(* The blocks a binding is made of. *)
Blocks(b) ==
    /\ IsSeq(b.asset) /\ IsSeq(b.payTo)
    /\ b.amount \in Nat /\ AmountInRange(b.amount)

(* The binding made of these blocks. *)
RawOf(b) ==
    computeBindingRaw(b.scheme, b.network, b.asset, b.payTo, b.amount, b.resource, b.nonce)

(* What comes before the keys ... *)
Lead(b) == <<DomainTagX402, 0, BindingLayoutVersion, b.scheme, b.network>>

(* ... and after the amount. *)
Rest(b) == <<Sha256(b.resource), b.nonce>>

(* Sha256 is injective, as Crypto idealises it. *)
LEMMA DigestsDiffer ==
  ASSUME NEW a, NEW b, Sha256(a) = Sha256(b)
  PROVE  a = b
<1>1. [digest |-> <<a>>].digest = [digest |-> <<b>>].digest
  BY DEF Sha256
<1>2. <<a>> = <<b>>
  BY <1>1
<1> QED
  BY <1>2

(* Every block is a sequence, and all but the keys have one width. *)
LEMMA BlockFacts ==
  ASSUME NEW b, Blocks(b)
  PROVE  /\ IsSeq(Lead(b)) /\ Len(Lead(b)) = 5 /\ Lead(b)[4] = b.scheme /\ Lead(b)[5] = b.network
         /\ IsSeq(Rest(b)) /\ Len(Rest(b)) = 2
         /\ Rest(b)[1] = Sha256(b.resource) /\ Rest(b)[2] = b.nonce
         /\ IsSeq(amount16LE(b.amount)) /\ Len(amount16LE(b.amount)) = AmountWidth
<1>1. /\ Lead(b) \in Seq({DomainTagX402, 0, BindingLayoutVersion, b.scheme, b.network})
      /\ Len(Lead(b)) = 5 /\ Lead(b)[4] = b.scheme /\ Lead(b)[5] = b.network
  <2> DEFINE x == DomainTagX402
             y == BindingLayoutVersion
             s == b.scheme
             n == b.network
  <2> HIDE DEF x, y, s, n
  <2>1. /\ <<x, 0, y, s, n>> \in Seq({x, 0, y, s, n}) /\ Len(<<x, 0, y, s, n>>) = 5
        /\ <<x, 0, y, s, n>>[4] = s /\ <<x, 0, y, s, n>>[5] = n
    OBVIOUS
  <2> QED
    BY <2>1 DEF Lead, x, y, s, n
<1>2. /\ Rest(b) \in Seq({Sha256(b.resource), b.nonce}) /\ Len(Rest(b)) = 2
      /\ Rest(b)[1] = Sha256(b.resource) /\ Rest(b)[2] = b.nonce
  <2> DEFINE r == Sha256(b.resource)
             x == b.nonce
  <2> HIDE DEF r, x
  <2>1. <<r, x>> \in Seq({r, x}) /\ Len(<<r, x>>) = 2 /\ <<r, x>>[1] = r /\ <<r, x>>[2] = x
    OBVIOUS
  <2> QED
    BY <2>1 DEF Rest, r, x
<1>3. IsSeq(amount16LE(b.amount)) /\ Len(amount16LE(b.amount)) = AmountWidth
  <2> DEFINE e(i) == LET be == DigitsOf(b.amount, ByteBase)
                     IN  IF i <= Len(be) THEN be[Len(be) + 1 - i] ELSE 0
             T == {e(i) : i \in 1..AmountWidth}
  <2>1. amount16LE(b.amount) = [i \in 1..AmountWidth |-> e(i)]
    BY DEF amount16LE
  <2> HIDE DEF e
  <2>2. /\ [i \in 1..AmountWidth |-> e(i)] \in Seq(T)
        /\ Len([i \in 1..AmountWidth |-> e(i)]) = AmountWidth
    BY AmountWidthAssumption
  <2> HIDE DEF T
  <2> QED
    BY <2>1, <2>2, AnySeq
<1>4. IsSeq(Lead(b))
  BY <1>1, AnySeq
<1>5. IsSeq(Rest(b))
  BY <1>2, AnySeq
<1> QED
  BY <1>1, <1>2, <1>3, <1>4, <1>5

(* No block of the layout can borrow from its neighbour. *)
LEMMA LayoutInjective ==
  ASSUME NEW b, NEW c, Blocks(b), Blocks(c), RawOf(b) = RawOf(c)
  PROVE  /\ Len(b.asset) + Len(b.payTo) = Len(c.asset) + Len(c.payTo)
         /\ Len(b.asset) = Len(c.asset) =>
               /\ b.scheme = c.scheme /\ b.network = c.network
               /\ b.asset = c.asset /\ b.payTo = c.payTo /\ b.amount = c.amount
               /\ b.resource = c.resource /\ b.nonce = c.nonce
<1> DEFINE A(x) == Lead(x) \o x.asset
           P(x) == A(x) \o x.payTo
           W(x) == P(x) \o amount16LE(x.amount)
           R(x) == W(x) \o Rest(x)
<1>1. R(b) = R(c)
  <2>1. RawOf(b) = Sha256(R(b)) /\ RawOf(c) = Sha256(R(c))
    BY DEF RawOf, computeBindingRaw, Lead, Rest
  <2> HIDE DEF R
  <2> QED
    BY <2>1, DigestsDiffer
<1>2. ASSUME NEW x, Blocks(x)
      PROVE  /\ IsSeq(Lead(x)) /\ Len(Lead(x)) = 5
             /\ IsSeq(x.asset) /\ IsSeq(x.payTo) /\ Len(x.asset) \in Nat /\ Len(x.payTo) \in Nat
             /\ IsSeq(A(x)) /\ Len(A(x)) = 5 + Len(x.asset)
             /\ IsSeq(P(x)) /\ Len(P(x)) = 5 + Len(x.asset) + Len(x.payTo)
             /\ IsSeq(amount16LE(x.amount)) /\ IsSeq(Rest(x))
             /\ IsSeq(W(x)) /\ Len(W(x)) = 5 + Len(x.asset) + Len(x.payTo) + AmountWidth
             /\ Len(R(x)) = 5 + Len(x.asset) + Len(x.payTo) + AmountWidth + 2
             /\ Joined(A(x), Lead(x), x.asset) /\ Joined(P(x), A(x), x.payTo)
             /\ Joined(W(x), P(x), amount16LE(x.amount)) /\ Joined(R(x), W(x), Rest(x))
  <2>0. /\ IsSeq(Lead(x)) /\ Len(Lead(x)) = 5 /\ IsSeq(x.asset) /\ IsSeq(x.payTo)
        /\ IsSeq(amount16LE(x.amount)) /\ Len(amount16LE(x.amount)) = AmountWidth
        /\ IsSeq(Rest(x)) /\ Len(Rest(x)) = 2
    BY <1>2, BlockFacts DEF Blocks
  <2>1. Joined(A(x), Lead(x), x.asset)
    BY <2>0, ConcatFacts
  <2> HIDE DEF A
  <2>2. IsSeq(A(x)) /\ Len(A(x)) = 5 + Len(x.asset) /\ Len(x.asset) \in Nat
    BY <2>0, <2>1 DEF Joined
  <2>3. Joined(P(x), A(x), x.payTo)
    BY <2>0, <2>2, ConcatFacts
  <2> HIDE DEF P
  <2>4. IsSeq(P(x)) /\ Len(P(x)) = 5 + Len(x.asset) + Len(x.payTo) /\ Len(x.payTo) \in Nat
    BY <2>2, <2>3 DEF Joined
  <2>5. Joined(W(x), P(x), amount16LE(x.amount))
    BY <2>0, <2>4, ConcatFacts
  <2> HIDE DEF W
  <2>6. IsSeq(W(x)) /\ Len(W(x)) = 5 + Len(x.asset) + Len(x.payTo) + AmountWidth
    BY <2>0, <2>4, <2>5 DEF Joined
  <2>7. Joined(R(x), W(x), Rest(x))
    BY <2>0, <2>6, ConcatFacts
  <2> HIDE DEF R
  <2>8. Len(R(x)) = 5 + Len(x.asset) + Len(x.payTo) + AmountWidth + 2
    BY <2>0, <2>6, <2>7 DEF Joined
  <2> QED
    BY <2>0, <2>1, <2>2, <2>3, <2>4, <2>5, <2>6, <2>7, <2>8
<1> HIDE DEF A, P, W, R
<1> DEFINE Known(x) ==
             /\ IsSeq(Lead(x)) /\ Len(Lead(x)) = 5 /\ IsSeq(x.asset) /\ IsSeq(x.payTo)
             /\ IsSeq(A(x)) /\ IsSeq(P(x)) /\ IsSeq(W(x))
             /\ IsSeq(amount16LE(x.amount)) /\ IsSeq(Rest(x))
             /\ Joined(A(x), Lead(x), x.asset) /\ Joined(P(x), A(x), x.payTo)
             /\ Joined(W(x), P(x), amount16LE(x.amount)) /\ Joined(R(x), W(x), Rest(x))
<1>k. Known(b) /\ Known(c)
  BY <1>2
<1>b. PICK l \in Nat, m \in Nat : /\ l = Len(b.asset) /\ m = Len(b.payTo)
                               /\ Len(A(b)) = 5 + l /\ Len(P(b)) = 5 + l + m
                               /\ Len(W(b)) = 5 + l + m + AmountWidth
                               /\ Len(R(b)) = 5 + l + m + AmountWidth + 2
  BY <1>2
<1>c. PICK k \in Nat, n \in Nat : /\ k = Len(c.asset) /\ n = Len(c.payTo)
                               /\ Len(A(c)) = 5 + k /\ Len(P(c)) = 5 + k + n
                               /\ Len(W(c)) = 5 + k + n + AmountWidth
                               /\ Len(R(c)) = 5 + k + n + AmountWidth + 2
  BY <1>2
<1>3. Len(b.asset) + Len(b.payTo) = Len(c.asset) + Len(c.payTo)
  <2>1. 5 + l + m + AmountWidth + 2 = 5 + k + n + AmountWidth + 2
    BY <1>1, <1>b, <1>c
  <2>2. l + m = k + n
    BY <2>1, AmountWidthAssumption
  <2> QED
    BY <1>b, <1>c, <2>2
<1>4. ASSUME Len(b.asset) = Len(c.asset)
      PROVE  /\ b.scheme = c.scheme /\ b.network = c.network
             /\ b.asset = c.asset /\ b.payTo = c.payTo /\ b.amount = c.amount
             /\ b.resource = c.resource /\ b.nonce = c.nonce
  <2>l. /\ Len(Lead(b)) = Len(Lead(c)) /\ Len(A(b)) = Len(A(c)) /\ Len(P(b)) = Len(P(c))
        /\ Len(W(b)) = Len(W(c))
    <3>1. Len(A(b)) = Len(A(c)) /\ Len(P(b)) = Len(P(c)) /\ Len(W(b)) = Len(W(c))
      <4>1. l = k /\ l + m = k + n
        BY <1>3, <1>4, <1>b, <1>c
      <4>2. l = k /\ m = n
        BY <4>1
      <4> QED
        BY <1>b, <1>c, <4>2
    <3> QED
      BY <1>k, <3>1
  <2>1. W(b) = W(c) /\ Rest(b) = Rest(c)
    BY <1>1, <1>k, <2>l, ConcatSplit
  <2>2. P(b) = P(c) /\ amount16LE(b.amount) = amount16LE(c.amount)
    BY <1>k, <2>1, <2>l, ConcatSplit
  <2>3. A(b) = A(c) /\ b.payTo = c.payTo
    BY <1>k, <2>2, <2>l, ConcatSplit
  <2>4. Lead(b) = Lead(c) /\ b.asset = c.asset
    BY <1>k, <2>3, <2>l, ConcatSplit
  <2>5. b.amount = c.amount
    BY <2>2, AmountsDiffer DEF Blocks
  <2>6. b.scheme = c.scheme /\ b.network = c.network
    BY <2>4, BlockFacts
  <2>7. Sha256(b.resource) = Sha256(c.resource) /\ b.nonce = c.nonce
    BY <2>1, BlockFacts
  <2>8. b.resource = c.resource
    BY <2>7, DigestsDiffer
  <2> QED
    BY <2>3, <2>4, <2>5, <2>6, <2>7, <2>8
<1> QED
  BY <1>3, <1>4

(* A sequence whose elements are in a set is a sequence of that set. *)
LEMMA Retyped ==
  ASSUME NEW T, NEW U, NEW s \in Seq(T), \A i \in 1..Len(s) : s[i] \in U
  PROVE  s \in Seq(U)
  OBVIOUS

(* What decodes is written with the alphabet only; its bytes give the text  *)
(* again, and are KeyLen bytes if decodePubkey32 accepts them.              *)
LEMMA DecodeFacts ==
  ASSUME NEW s \in Base58Text
  PROVE  /\ decodeBase58(s).ok => EncodeBase58(decodeBase58(s).bytes) = s
         /\ IsSeq(decodeBase58(s).bytes)
         /\ ~decodeBase58(s).ok => decodeBase58(s).bytes = <<>>
<1> DEFINE bad == \E i \in DOMAIN s : s[i] = NoIndex
           c == Convert(s, Radix, ByteBase)
<1>0. Radix \in Bases /\ ByteBase \in Bases
  BY DEF Bases
<1>1. CASE bad
  <2>1. decodeBase58(s) = [ok |-> FALSE, bytes |-> <<>>]
    BY <1>1 DEF decodeBase58
  <2>2. decodeBase58(s).bytes = <<>> /\ decodeBase58(s).ok = FALSE
    BY <2>1
  <2>3. <<>> \in Seq({0})
    OBVIOUS
  <2> QED
    BY <2>2, <2>3, AnySeq
<1>2. CASE ~bad
  <2>1. decodeBase58(s) = [ok |-> TRUE, bytes |-> c]
    BY <1>2 DEF decodeBase58
  <2>2. s \in Seq(0..(Radix - 1))
    <3> DEFINE T == NoIndex..(Radix - 1)
               U == 0..(Radix - 1)
    <3>1. s \in Seq(T)
      BY DEF Base58Text
    <3>2. \A d : d \in T /\ d # NoIndex => d \in U
      BY DEF NoIndex, Radix
    <3> HIDE DEF T, U
    <3>3. \A i \in 1..Len(s) : s[i] \in T /\ s[i] # NoIndex
      BY <1>2, <3>1
    <3>4. \A i \in 1..Len(s) : s[i] \in U
      BY <3>2, <3>3
    <3>5. s \in Seq(U)
      BY <3>1, <3>4, Retyped
    <3> QED
      BY <3>5 DEF U
  <2>3. c \in Seq(0..(ByteBase - 1)) /\ Convert(c, ByteBase, Radix) = s
    BY <1>0, <2>2, ConvertBack
  <2> HIDE DEF c
  <2>4. decodeBase58(s).bytes = c /\ decodeBase58(s).ok = TRUE
    BY <2>1
  <2>5. IsSeq(c)
    BY <2>3, AnySeq
  <2> QED
    BY <2>3, <2>4, <2>5 DEF EncodeBase58
<1> QED
  BY <1>1, <1>2

(* What decodePubkey32 returns: KeyLen bytes that encode to the text they   *)
(* were decoded from, or nothing.                                           *)
LEMMA PubkeyFacts ==
  ASSUME NEW s \in Base58Text
  PROVE  /\ IsSeq(decodePubkey32(s).bytes)
         /\ decodePubkey32(s).ok <=> Len(decodeBase58(s).bytes) = KeyLen
         /\ decodePubkey32(s).ok <=> Len(decodePubkey32(s).bytes) = KeyLen
         /\ decodePubkey32(s).ok => /\ decodePubkey32(s).bytes = decodeBase58(s).bytes
                                    /\ EncodeBase58(decodePubkey32(s).bytes) = s
         /\ Len(decodePubkey32(s).bytes) \in {0, KeyLen}
<1> DEFINE raw == decodeBase58(s)
           ok == raw.ok /\ Len(raw.bytes) = KeyLen
           key == decodePubkey32(s)
<1>1. key.ok = ok /\ key.bytes = IF ok THEN raw.bytes ELSE <<>>
  BY DEF decodePubkey32
<1>2. /\ raw.ok => EncodeBase58(raw.bytes) = s
      /\ IsSeq(raw.bytes) /\ (~raw.ok => raw.bytes = <<>>)
  BY DecodeFacts
<1>3. KeyLen # 0 /\ Len(<<>>) = 0 /\ IsSeq(<<>>)
  <2>1. <<>> \in Seq({0})
    OBVIOUS
  <2> QED
    BY <2>1, AnySeq, KeyLenAssumption
<1> HIDE DEF raw, key
<1>4. ok <=> Len(raw.bytes) = KeyLen
  BY <1>2, <1>3
<1>5. CASE ok
  BY <1>1, <1>2, <1>3, <1>4, <1>5 DEF raw, key
<1>6. CASE ~ok
  BY <1>1, <1>2, <1>3, <1>4, <1>6 DEF raw, key
<1> QED
  BY <1>5, <1>6

(* The payment fields of the kinds the code decodes. *)
PaymentFields(pr) == pr.asset \in Base58Text /\ pr.payTo \in Base58Text /\ pr.amount.digits \in Int

(* The number an amount denotes. *)
Number(a) == IF a.sign = "minus" THEN -a.digits ELSE a.digits

(* The blocks of a payment under a nonce. *)
BlocksOf(pr, nonce) ==
    [scheme |-> SchemeTag[pr.scheme], network |-> NetworkTag[pr.network],
     asset |-> decodePubkey32(pr.asset).bytes, payTo |-> decodePubkey32(pr.payTo).bytes,
     amount |-> Number(pr.amount), resource |-> pr.resource, nonce |-> nonce]

(* ComputeBinding accepts the payment. *)
Binds(pr) == BindingError(pr) = ""

(* A payment binds when its two lists know it, its addresses are keys and   *)
(* its amount is a number that fits.                                        *)
LEMMA BindsWhen ==
  ASSUME NEW pr, PaymentFields(pr)
  PROVE  Binds(pr) <=>
            /\ pr.scheme \in DOMAIN SchemeTag /\ pr.network \in DOMAIN NetworkTag
            /\ decodePubkey32(pr.asset).ok /\ decodePubkey32(pr.payTo).ok
            /\ pr.amount.digits # NotDecimal /\ AmountInRange(Number(pr.amount))
<1>1. SetString10(pr.amount).ok = (pr.amount.digits # NotDecimal)
  BY DEF SetString10
<1>2. SetString10(pr.amount).n = Number(pr.amount)
  BY DEF SetString10, Number
<1> DEFINE a == pr.scheme \in DOMAIN SchemeTag
           b == pr.network \in DOMAIN NetworkTag
           c == decodePubkey32(pr.asset).ok /\ decodePubkey32(pr.payTo).ok
           d == SetString10(pr.amount).ok /\ AmountInRange(SetString10(pr.amount).n)
<1>3. BindingError(pr) = IF ~a THEN "unknown scheme" ELSE IF ~b THEN "unknown network"
                         ELSE IF ~c THEN "bad pubkey" ELSE IF ~d THEN "bad amount" ELSE ""
  BY DEF BindingError
<1>4. d <=> pr.amount.digits # NotDecimal /\ AmountInRange(Number(pr.amount))
  BY <1>1, <1>2
<1> HIDE DEF a, b, c, d
<1>5. Binds(pr) <=> a /\ b /\ c /\ d
  BY <1>3 DEF Binds
<1> QED
  BY <1>4, <1>5 DEF a, b, c

(* The binding of a payment that binds is made of its blocks, the keys      *)
(* KeyLen bytes each.                                                       *)
LEMMA BindingBlocks ==
  ASSUME NEW pr, NEW nonce, PaymentFields(pr), Binds(pr)
  PROVE  /\ Blocks(BlocksOf(pr, nonce))
         /\ ComputeBinding(pr, nonce).binding = RawOf(BlocksOf(pr, nonce))
         /\ Len(BlocksOf(pr, nonce).asset) = KeyLen /\ Len(BlocksOf(pr, nonce).payTo) = KeyLen
<1> DEFINE b == BlocksOf(pr, nonce)
<1>1. /\ b.scheme = SchemeTag[pr.scheme] /\ b.network = NetworkTag[pr.network]
      /\ b.asset = decodePubkey32(pr.asset).bytes /\ b.payTo = decodePubkey32(pr.payTo).bytes
      /\ b.amount = Number(pr.amount) /\ b.resource = pr.resource /\ b.nonce = nonce
  BY DEF BlocksOf
<1>2. /\ decodePubkey32(pr.asset).ok /\ decodePubkey32(pr.payTo).ok
      /\ AmountInRange(Number(pr.amount))
  BY BindsWhen
<1> HIDE DEF b
<1>3. Number(pr.amount) \in Nat
  <2> DEFINE k == pr.amount.digits
             v == Number(pr.amount)
  <2>1. k \in Int
    BY DEF PaymentFields
  <2>2. v = -k \/ v = k
    BY DEF Number
  <2>3. v >= 0
    BY <1>2 DEF AmountInRange
  <2> HIDE DEF k, v
  <2>4. v \in Nat
    BY <2>1, <2>2, <2>3
  <2> QED
    BY <2>4 DEF v
<1>4. /\ IsSeq(b.asset) /\ Len(b.asset) = KeyLen
      /\ IsSeq(b.payTo) /\ Len(b.payTo) = KeyLen
  <2>1. IsSeq(b.asset) /\ Len(b.asset) = KeyLen
    BY <1>1, <1>2, PubkeyFacts DEF PaymentFields
  <2>2. IsSeq(b.payTo) /\ Len(b.payTo) = KeyLen
    BY <1>1, <1>2, PubkeyFacts DEF PaymentFields
  <2> QED
    BY <2>1, <2>2
<1>5. Blocks(b)
  BY <1>1, <1>2, <1>3, <1>4 DEF Blocks
<1>6. SetString10(pr.amount).n = Number(pr.amount)
  BY DEF SetString10, Number
<1>7. ComputeBinding(pr, nonce).binding = RawOf(b)
  BY <1>1, <1>6 DEF ComputeBinding, RawOf, Binds
<1> QED
  BY <1>4, <1>5, <1>7 DEF b

(* The operator gives different schemes, and different networks, different  *)
(* tags; the allowlists are two maps that nothing in the code checks.       *)
TagsDistinct ==
    /\ \A s, t \in DOMAIN SchemeTag : SchemeTag[s] = SchemeTag[t] => s = t
    /\ \A m, n \in DOMAIN NetworkTag : NetworkTag[m] = NetworkTag[n] => m = n

(* Two payments that bind have one binding exactly when they are the same   *)
(* payment under the same nonce, as far as the operator's tags tell schemes *)
(* and networks apart.                                                      *)
THEOREM BindingIdentifies ==
  ASSUME NEW p, NEW x, NEW q, NEW y, PaymentFields(p), PaymentFields(q),
         Binds(p), Binds(q),
         SchemeTag[p.scheme] = SchemeTag[q.scheme] => p.scheme = q.scheme,
         NetworkTag[p.network] = NetworkTag[q.network] => p.network = q.network
  PROVE  ComputeBinding(p, x).binding = ComputeBinding(q, y).binding
            <=> PaymentMeaning(p, x) = PaymentMeaning(q, y)
<1> DEFINE b == BlocksOf(p, x)
           c == BlocksOf(q, y)
<1>1. /\ Blocks(b) /\ Blocks(c) /\ Len(b.asset) = Len(c.asset)
      /\ ComputeBinding(p, x).binding = RawOf(b) /\ ComputeBinding(q, y).binding = RawOf(c)
  BY BindingBlocks
<1>2. ASSUME NEW pr, NEW n, PaymentFields(pr), Binds(pr)
      PROVE  PaymentMeaning(pr, n) =
                [scheme |-> pr.scheme, network |-> pr.network,
                 asset |-> BlocksOf(pr, n).asset, payTo |-> BlocksOf(pr, n).payTo,
                 amount |-> BlocksOf(pr, n).amount, resource |-> BlocksOf(pr, n).resource,
                 nonce |-> BlocksOf(pr, n).nonce]
             /\ BlocksOf(pr, n).scheme = SchemeTag[pr.scheme]
             /\ BlocksOf(pr, n).network = NetworkTag[pr.network]
  <2>1. decodePubkey32(pr.asset).ok /\ decodePubkey32(pr.payTo).ok
    BY <1>2, BindsWhen
  <2>2. /\ decodePubkey32(pr.asset).bytes = decodeBase58(pr.asset).bytes
        /\ decodePubkey32(pr.payTo).bytes = decodeBase58(pr.payTo).bytes
    BY <1>2, <2>1, PubkeyFacts DEF PaymentFields
  <2> QED
    BY <2>2 DEF PaymentMeaning, BlocksOf, Number
<1>3. /\ PaymentMeaning(p, x) =
            [scheme |-> p.scheme, network |-> p.network, asset |-> b.asset, payTo |-> b.payTo,
             amount |-> b.amount, resource |-> b.resource, nonce |-> b.nonce]
      /\ b.scheme = SchemeTag[p.scheme] /\ b.network = NetworkTag[p.network]
  BY <1>2
<1>4. /\ PaymentMeaning(q, y) =
            [scheme |-> q.scheme, network |-> q.network, asset |-> c.asset, payTo |-> c.payTo,
             amount |-> c.amount, resource |-> c.resource, nonce |-> c.nonce]
      /\ c.scheme = SchemeTag[q.scheme] /\ c.network = NetworkTag[q.network]
  BY <1>2
<1> HIDE DEF b, c
<1>5. ASSUME RawOf(b) = RawOf(c) PROVE PaymentMeaning(p, x) = PaymentMeaning(q, y)
  <2>1. /\ b.scheme = c.scheme /\ b.network = c.network
        /\ b.asset = c.asset /\ b.payTo = c.payTo /\ b.amount = c.amount
        /\ b.resource = c.resource /\ b.nonce = c.nonce
    BY <1>1, <1>5, LayoutInjective
  <2>2. p.scheme = q.scheme /\ p.network = q.network
    BY <1>3, <1>4, <2>1
  <2> QED
    BY <1>3, <1>4, <2>1, <2>2
<1>6. ASSUME PaymentMeaning(p, x) = PaymentMeaning(q, y) PROVE RawOf(b) = RawOf(c)
  <2> DEFINE P == PaymentMeaning(p, x)
             Q == PaymentMeaning(q, y)
  <2>1. /\ P.scheme = p.scheme /\ P.network = p.network /\ P.asset = b.asset /\ P.payTo = b.payTo
        /\ P.amount = b.amount /\ P.resource = b.resource /\ P.nonce = b.nonce
    <3> HIDE DEF P
    <3> QED
      BY <1>3 DEF P
  <2>2. /\ Q.scheme = q.scheme /\ Q.network = q.network /\ Q.asset = c.asset /\ Q.payTo = c.payTo
        /\ Q.amount = c.amount /\ Q.resource = c.resource /\ Q.nonce = c.nonce
    BY <1>4
  <2>3. P = Q
    BY <1>6
  <2> HIDE DEF P, Q
  <2>4. /\ b.asset = c.asset /\ b.payTo = c.payTo /\ b.amount = c.amount
        /\ b.resource = c.resource /\ b.nonce = c.nonce
        /\ p.scheme = q.scheme /\ p.network = q.network
    BY <2>1, <2>2, <2>3
  <2>5. b.scheme = c.scheme /\ b.network = c.network
    BY <1>3, <1>4, <2>4
  <2> QED
    BY <2>4, <2>5 DEF RawOf
<1> QED
  BY <1>1, <1>5, <1>6

(* How many digits a number has: one more than its quotient. *)
LEMMA DigitCount ==
  ASSUME NEW base \in Bases
  PROVE  /\ Len(DigitsOf(0, base)) = 0
         /\ \A n \in Nat : Len(DigitsOf(n, base)) \in Nat
         /\ \A n \in Nat : n > 0 => Len(DigitsOf(n, base)) = Len(DigitsOf(n \div base, base)) + 1
<1> DEFINE L(n) == Len(DigitsOf(n, base))
<1>1. \A n \in Nat : DigitsOf(n, base) \in Seq(0..(base - 1))
  BY DigitsType
<1>2. \A n \in Nat : L(n) \in Nat
  BY <1>1
<1>3. L(0) = 0
  <2>1. DigitsOf(0, base) = <<>>
    BY DigitsEquation
  <2> QED
    BY <2>1
<1>4. ASSUME NEW n \in Nat, n > 0 PROVE L(n) = L(n \div base) + 1
  <2> DEFINE q == n \div base
             r == n % base
             T == 0..(base - 1)
  <2>1. q \in Nat /\ r \in T
    BY DivType
  <2>2. DigitsOf(n, base) = Append(DigitsOf(q, base), r)
    BY <1>4, DigitsEquation
  <2> HIDE DEF q, r
  <2>3. DigitsOf(q, base) \in Seq(T)
    BY <1>1, <2>1
  <2> HIDE DEF T
  <2> QED
    BY <2>1, <2>2, <2>3, AppendFacts DEF q
<1> QED
  BY <1>2, <1>3, <1>4

(* A smaller number has no more digits. *)
LEMMA DigitCountMonotone ==
  ASSUME NEW base \in Bases
  PROVE  \A n \in Nat : \A m \in 0..n : Len(DigitsOf(m, base)) <= Len(DigitsOf(n, base))
<1> DEFINE L(n) == Len(DigitsOf(n, base))
           S == {n \in Nat : \A m \in 0..n : L(m) <= L(n)}
<1>1. /\ L(0) = 0
      /\ \A n \in Nat : L(n) \in Nat
      /\ \A n \in Nat : n > 0 => L(n) = L(n \div base) + 1
  BY DigitCount
<1> HIDE DEF L
<1>2. ASSUME NEW n \in Nat, \A k \in 0..(n - 1) : k \in S, NEW m \in 0..n PROVE L(m) <= L(n)
  <2>1. CASE m = 0
    BY <1>1, <2>1
  <2>2. CASE m > 0
    <3> DEFINE q == n \div base
               p == m \div base
    <3>1. q \in Nat /\ q < n /\ p \in Nat /\ p <= q
      <4>1. q \in Nat /\ q < n
        BY <2>2, DivType
      <4>2. p \in Nat
        BY DivType
      <4>3. p <= q
        <5>1. CASE base = 58
          BY <5>1
        <5>2. CASE base = 256
          BY <5>2
        <5> QED
          BY <5>1, <5>2 DEF Bases, Radix, ByteBase
      <4> QED
        BY <4>1, <4>2, <4>3
    <3>2. L(n) = L(q) + 1 /\ L(m) = L(p) + 1
      BY <1>1, <2>2
    <3> HIDE DEF q, p
    <3>3. q \in S /\ p \in 0..q
      BY <1>2, <3>1
    <3>4. L(p) <= L(q)
      BY <3>3
    <3>5. L(p) \in Nat /\ L(q) \in Nat
      BY <1>1, <3>1
    <3> QED
      BY <3>2, <3>4, <3>5
  <2> QED
    BY <2>1, <2>2
<1>3. \A n \in Nat : n \in S
  BY <1>2, StrongInduction
<1> QED
  BY <1>3 DEF L

(* What fits leaves room for everything below it. *)
LEMMA RangeIsDownward ==
  ASSUME NEW n \in Nat, NEW m \in 0..n, AmountInRange(n)
  PROVE  m \in Nat /\ AmountInRange(m)
<1>0. ByteBase \in Bases
  BY DEF Bases
<1> DEFINE l == Len(DigitsOf(m, ByteBase))
           k == Len(DigitsOf(n, ByteBase))
<1>1. l <= k /\ k <= AmountWidth
  BY <1>0, DigitCountMonotone DEF AmountInRange
<1>2. l \in Nat /\ k \in Nat
  <2>1. /\ DigitsOf(m, ByteBase) \in Seq(0..(ByteBase - 1))
        /\ DigitsOf(n, ByteBase) \in Seq(0..(ByteBase - 1))
    BY <1>0, DigitsType
  <2> QED
    BY <2>1
<1> HIDE DEF l, k
<1>3. l <= AmountWidth
  BY <1>1, <1>2, AmountWidthAssumption
<1> QED
  BY <1>3 DEF AmountInRange, l
=============================================================================
