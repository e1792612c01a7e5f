-------------------------- MODULE AlgorithmProofs --------------------------
(***************************************************************************)
(* The pure algorithms, as the behaviours of MCMerkle and MCEncoding run   *)
(* them: the Merkle tree of a log of any length, base58 of a string of any *)
(* length, and the binding for keys and amounts of any width.              *)
(***************************************************************************)
EXTENDS MCMerkle, MCEncoding, Lemmas

(* The log is a sequence of leaves, within its bound. *)
LeavesOK == leaves \in Seq(Alphabet) /\ Len(leaves) <= MaxLeaves

(* It stays one. *)
LEMMA LeavesAlways == TreeSpec => []LeavesOK
<1>1. TreeInit => LeavesOK
  BY MaxLeavesAssumption DEF TreeInit, LeavesOK
<1>2. LeavesOK /\ [TreeNext]_treeVars => LeavesOK'
  <2> SUFFICES ASSUME LeavesOK, [TreeNext]_treeVars PROVE LeavesOK'
    OBVIOUS
  <2>1. ASSUME NEW d \in Alphabet, AddLeaf(d) PROVE LeavesOK'
    <3>1. leaves' = Append(leaves, d) /\ Len(leaves) < MaxLeaves
      BY <2>1 DEF AddLeaf
    <3>2. leaves \in Seq(Alphabet) /\ Len(leaves) \in Nat
      BY DEF LeavesOK
    <3>3. Append(leaves, d) \in Seq(Alphabet) /\ Len(Append(leaves, d)) = Len(leaves) + 1
      BY <3>2
    <3> QED
      BY <3>1, <3>2, <3>3, MaxLeavesAssumption DEF LeavesOK
  <2>2. CASE Carry
    BY <2>2 DEF Carry, LeavesOK
  <2>3. CASE UNCHANGED treeVars
    BY <2>3 DEF LeavesOK, treeVars
  <2> QED
    BY <2>1, <2>2, <2>3 DEF TreeNext
<1> QED
  BY <1>1, <1>2, PTL DEF TreeSpec

(* Every inclusion proof of the tree is a sequence. *)
LEMMA ProofIsSequence ==
  ASSUME LeavesOK, NEW i \in Indices
  PROVE  ProofFor(i) \in Seq(Range(ProofFor(i)))
<1> DEFINE n == Len(leaves)
           lo == 0
           p == SlicePaths(leaves)[n][lo][i]
<1>1. Len(leaves) \in Nat
  BY DEF LeavesOK
<1>2. /\ n \in 1..Len(leaves) /\ lo \in 0..(Len(leaves) - n) /\ i \in 0..(n - 1)
      /\ ~(i < 0 \/ i >= Len(leaves))
  BY <1>1 DEF Indices
<1>3. ProofFor(i) = p
  BY <1>2 DEF ProofFor, InclusionProof, auditPath
<1> HIDE DEF n, lo
<1>4. p \in Seq(Range(p))
  BY <1>1, <1>2, PathsAreSequences
<1> QED
  BY <1>3, <1>4

---------------------------------------------------------------------------
(* Every entry's inclusion proof verifies against the root, in a log of any *)
(* length: what auditPath collects is what rootFromPath consumes, although  *)
(* the one is written top-down over slices of leaves and the other over     *)
(* sizes and a path alone.                                                  *)
THEOREM EveryProofVerifies == TreeSpec => []ProofsVerify
<1>1. LeavesOK => ProofsVerify
  <2> SUFFICES ASSUME LeavesOK, NEW m \in Indices
               PROVE  VerifyInclusion(Root, leaves[m + 1], m, Len(leaves), ProofFor(m))
    BY DEF ProofsVerify
  <2>1. Len(leaves) \in Nat /\ m \in 0..(Len(leaves) - 1)
    BY DEF LeavesOK, Indices
  <2> QED
    BY <2>1, InclusionComplete DEF Root, ProofFor
<1> QED
  BY <1>1, LeavesAlways, PTL

(* No other leaf passes at an index, whichever proof of the tree is used,   *)
(* whole or cut short (InclusionSound says so of any path at all).          *)
THEOREM NoOtherLeafVerifies == TreeSpec => []ProofsSound
<1>1. LeavesOK => ProofsSound
  <2> SUFFICES ASSUME LeavesOK, NEW m \in Indices, NEW i \in Indices, NEW d \in Alphabet,
                      NEW j \in 0..Len(ProofFor(i)),
                      VerifyInclusion(Root, d, m, Len(leaves), SubSeq(ProofFor(i), 1, j))
               PROVE  d = leaves[m + 1]
    BY DEF ProofsSound
  <2>1. Len(leaves) \in Nat /\ m \in Int
    BY DEF LeavesOK, Indices
  <2> DEFINE path == SubSeq(ProofFor(i), 1, j)
  <2>2. Len(path) \in Nat
    BY ProofIsSequence, PrefixFacts
  <2> HIDE DEF path
  <2>3. VerifyInclusion(MerkleRoot(leaves), d, m, Len(leaves), path)
    BY DEF Root, path
  <2> QED
    BY <2>1, <2>2, <2>3, InclusionSound
<1> QED
  BY <1>1, LeavesAlways, PTL

(* The anchored root identifies the log: no other sequence of leaves, of    *)
(* any length, has it.                                                      *)
THEOREM RootDeterminesLog == TreeSpec => []RootIdentifiesLog
<1>1. LeavesOK => RootIdentifiesLog
  <2> SUFFICES ASSUME LeavesOK, NEW n \in 0..MaxLeaves, NEW other \in [1..n -> Alphabet],
                      MerkleRoot(other) = Root
               PROVE  other = leaves
    BY DEF RootIdentifiesLog
  <2>1. leaves \in Seq(Alphabet) /\ Len(leaves) \in Nat
    BY DEF LeavesOK
  <2>2. n \in Nat
    BY MaxLeavesAssumption
  <2>3. other \in Seq(Alphabet) /\ Len(other) = n
    BY <2>2
  <2>4. Len(other) = Len(leaves) /\ \A i \in 1..Len(other) : other[i] = leaves[i]
    BY <2>1, <2>2, <2>3, RootIdentifies DEF Root
  <2> QED
    BY <2>1, <2>3, <2>4
<1> QED
  BY <1>1, LeavesAlways, PTL

---------------------------------------------------------------------------
(* How many leaves come after a tree of the forest. *)
After(ds, t) == Len(ds) - (t.from + t.size)

(* A perfect subtree of the tree over ds, followed by no more leaves than   *)
(* it has itself.                                                           *)
TreeOf(ds, t) ==
    /\ t.from \in Nat /\ t.size \in Pow2
    /\ After(ds, t) \in 0..t.size
    /\ t.hash = SliceRoots(ds)[t.size][t.from]

(* Such subtrees side by side, over all of ds. *)
ForestOf(ds, f) ==
    /\ f \in Seq(Range(f))
    /\ \A i \in 1..Len(f) : TreeOf(ds, f[i])
    /\ \A i \in 1..(Len(f) - 1) : f[i + 1].from = f[i].from + f[i].size
    /\ Len(f) = 0 => Len(ds) = 0
    /\ Len(f) > 0 => f[1].from = 0 /\ After(ds, f[Len(f)]) = 0

(* What the invariant says of one tree, as numbers. *)
LEMMA TreeNumbers ==
  ASSUME NEW ds, Len(ds) \in Nat, NEW f, ForestOf(ds, f), NEW i \in 1..Len(f)
  PROVE  /\ Len(f) \in Nat
         /\ f[i].from \in Nat /\ f[i].size \in Nat /\ f[i].size >= 1 /\ f[i].size \in Pow2
         /\ After(ds, f[i]) \in Nat /\ After(ds, f[i]) <= f[i].size
         /\ f[i].from + f[i].size + After(ds, f[i]) = Len(ds)
<1>1. Len(f) \in Nat
  BY DEF ForestOf
<1>2. TreeOf(ds, f[i])
  BY DEF ForestOf
<1>3. f[i].from \in Nat /\ f[i].size \in Nat /\ f[i].size >= 1 /\ f[i].size \in Pow2
  BY <1>2, Pow2Half DEF TreeOf
<1> QED
  BY <1>1, <1>2, <1>3 DEF TreeOf, After

(* The leaves after a tree are those of the next tree and those after it. *)
LEMMA AfterNext ==
  ASSUME NEW ds, Len(ds) \in Nat, NEW f, ForestOf(ds, f), NEW i \in 1..(Len(f) - 1)
  PROVE  /\ i \in 1..Len(f) /\ i + 1 \in 1..Len(f)
         /\ f[i + 1].from = f[i].from + f[i].size
         /\ After(ds, f[i]) = f[i + 1].size + After(ds, f[i + 1])
<1>1. Len(f) \in Nat
  BY DEF ForestOf
<1>2. i \in 1..Len(f) /\ i + 1 \in 1..Len(f)
  BY <1>1
<1>3. f[i + 1].from = f[i].from + f[i].size
  BY DEF ForestOf
<1> DEFINE j == i + 1
<1>4. /\ f[i].from \in Nat /\ f[i].size \in Nat
      /\ f[j].from \in Nat /\ f[j].size \in Nat
  BY <1>2, TreeNumbers
<1> QED
  BY <1>2, <1>3, <1>4 DEF After

(* When a tree is followed by as many leaves as it has, the trees after it  *)
(* have half its size each time, down to two of one size at the end.        *)
LEMMA FullMeansCarry ==
  ASSUME NEW ds, Len(ds) \in Nat, NEW f, ForestOf(ds, f),
         NEW i \in 1..(Len(f) - 1), After(ds, f[i]) = f[i].size
  PROVE  f[Len(f) - 1].size = f[Len(f)].size
<1> DEFINE n == Len(f)
           Goal == f[n - 1].size = f[n].size
           S == {d \in Nat : \A x \in 1..(n - 1) :
                    n - x = d /\ After(ds, f[x]) = f[x].size => Goal}
<1>0. n \in Nat
  BY DEF ForestOf
<1> HIDE DEF n, Goal
<1>1. ASSUME NEW d \in Nat, \A e \in 0..(d - 1) : e \in S,
             NEW x \in 1..(n - 1), n - x = d, After(ds, f[x]) = f[x].size
      PROVE  Goal
  <2> HIDE DEF S
  <2> DEFINE y == x + 1
             sx == f[x].size
             sy == f[y].size
             ay == After(ds, f[y])
  <2>1. /\ x \in 1..n /\ y \in 1..n
        /\ After(ds, f[x]) = sy + ay
    BY AfterNext DEF n
  <2>2. /\ sx \in Nat /\ sx \in Pow2 /\ sy \in Nat /\ sy \in Pow2
        /\ ay \in Nat /\ ay <= sy
    BY <2>1, TreeNumbers DEF n
  <2>3. sx = sy + ay
    BY <1>1, <2>1
  <2>4. CASE y = n
    <3>1. n > 0 /\ x = n - 1
      BY <1>0, <2>1, <2>4
    <3>2. ay = 0
      BY <2>4, <3>1 DEF ForestOf, n
    <3> HIDE DEF ay, sx, sy
    <3>3. sx = sy
      BY <2>2, <2>3, <3>2
    <3> QED
      BY <2>4, <3>1, <3>3 DEF Goal, sx, sy
  <2>5. CASE y # n
    <3>1. y \in 1..(n - 1)
      BY <1>0, <2>1, <2>5
    <3> HIDE DEF y
    <3> DEFINE z == y + 1
               sz == f[z].size
               az == After(ds, f[z])
    <3>2. z \in 1..n /\ ay = sz + az
      BY <3>1, AfterNext DEF n
    <3>3. sz \in Nat /\ sz >= 1 /\ az \in Nat
      BY <3>2, TreeNumbers DEF n
    <3> HIDE DEF ay, sx, sy, az, sz
    <3>4. sy < sx
      BY <2>2, <2>3, <3>2, <3>3
    <3>5. 2 * sy <= sx
      BY <2>2, <3>4, Pow2Gap
    <3>6. ay = sy
      BY <2>2, <2>3, <3>5
    <3>7. n - y \in 0..(d - 1) /\ n - y \in Nat
      BY <1>0, <1>1, <3>1 DEF y
    <3>8. n - y \in S
      BY <1>1, <3>7
    <3> QED
      BY <3>1, <3>6, <3>7, <3>8 DEF S, ay, sy
  <2> QED
    BY <2>4, <2>5
<1>2. \A d \in Nat : d \in S
  BY <1>1, StrongInduction
<1>3. i \in 1..(n - 1) /\ n - i \in Nat
  BY <1>0 DEF n
<1>4. n - i \in S
  BY <1>2, <1>3
<1>5. Goal
  BY <1>3, <1>4
<1> QED
  BY <1>5 DEF Goal, n

(* The next leaf may be put at the end when no carry is left over. *)
LEMMA ForestGrows ==
  ASSUME NEW T, NEW ds \in Seq(T), NEW d \in T, NEW f, ForestOf(ds, f),
         ~(Len(f) >= 2 /\ f[Len(f) - 1].size = f[Len(f)].size)
  PROVE  ForestOf(Append(ds, d),
                  Append(f, [from |-> Len(ds), size |-> 1, hash |-> leafHash(d)]))
<1> DEFINE t == [from |-> Len(ds), size |-> 1, hash |-> leafHash(d)]
           es == Append(ds, d)
           g == Append(f, t)
           n == Len(f)
<1>1. /\ Len(ds) \in Nat /\ Len(es) = Len(ds) + 1 /\ es[Len(ds) + 1] = d
      /\ \A i \in 1..Len(ds) : ds[i] = es[i]
  BY AppendFacts
<1>2. f \in Seq(Range(f) \cup {t}) /\ n \in Nat
  BY Retyped DEF ForestOf, Range
<1>3. g \in Seq(Range(f) \cup {t}) /\ Len(g) = n + 1 /\ g[n + 1] = t
      /\ \A i \in 1..n : g[i] = f[i]
  BY <1>2, AppendFacts
<1>4. t.from = Len(ds) /\ t.size = 1 /\ t.hash = leafHash(d)
  OBVIOUS
<1> HIDE DEF es, g, t
<1>5. g \in Seq(Range(g))
  BY <1>3, Retyped DEF Range
<1>6. ASSUME NEW i \in 1..n PROVE TreeOf(es, f[i])
  <2> DEFINE from == f[i].from
             size == f[i].size
             rest == After(ds, f[i])
  <2>1. /\ from \in Nat /\ size \in Nat /\ size >= 1 /\ size \in Pow2
        /\ rest \in Nat /\ rest <= size /\ from + size + rest = Len(ds)
    BY <1>1, TreeNumbers
  <2>2. rest # size
    <3>1. CASE i = n
      <4>1. rest = 0
        BY <1>2, <3>1 DEF ForestOf
      <4> HIDE DEF rest, size
      <4> QED
        BY <2>1, <4>1
    <3>2. CASE i # n
      <4>1. i \in 1..(n - 1) /\ n >= 2
        BY <1>2, <3>2
      <4> QED
        BY <1>1, <4>1, FullMeansCarry
    <3> QED
      BY <3>1, <3>2
  <2>3. f[i].hash = SliceRoots(ds)[size][from]
    BY DEF ForestOf, TreeOf
  <2>4. After(es, f[i]) = Len(es) - (from + size)
    BY DEF After
  <2> HIDE DEF from, size, rest
  <2>5. Len(es) - (from + size) \in 0..size
    BY <1>1, <2>1, <2>2
  <2>6. size \in 0..Len(ds) /\ from \in 0..(Len(ds) - size) /\ Len(ds) <= Len(es) /\ Len(es) \in Nat
    BY <1>1, <2>1
  <2>7. SliceRoots(es)[size][from] = SliceRoots(ds)[size][from]
    BY <1>1, <2>6, RootIsOfSlice
  <2> QED
    BY <2>1, <2>3, <2>4, <2>5, <2>7 DEF TreeOf, from, size
<1>7. TreeOf(es, t)
  <2>1. After(es, t) = 0
    BY <1>1, <1>4 DEF After
  <2>2. 1 \in 0..Len(es) /\ Len(ds) \in 0..(Len(es) - 1) /\ Len(es) \in Nat
    BY <1>1
  <2>3. SliceRoots(es)[1][Len(ds)] = leafHash(d)
    BY <1>1, <2>2, RootEquation
  <2> QED
    BY <1>1, <1>4, <2>1, <2>3, Pow2Closed DEF TreeOf
<1>8. ASSUME NEW i \in 1..Len(g) PROVE TreeOf(es, g[i])
  <2>1. i \in 1..n \/ i = n + 1
    BY <1>2, <1>3
  <2> QED
    BY <1>3, <1>6, <1>7, <2>1
<1>9. ASSUME NEW i \in 1..(Len(g) - 1) PROVE g[i + 1].from = g[i].from + g[i].size
  <2>1. CASE i = n
    <3>1. n > 0 /\ n \in 1..n
      BY <1>2, <1>3, <2>1
    <3>2. After(ds, f[n]) = 0
      BY <3>1 DEF ForestOf
    <3> DEFINE from == f[n].from
               size == f[n].size
               rest == After(ds, f[n])
    <3>3. from \in Nat /\ size \in Nat /\ from + size + rest = Len(ds) /\ rest = 0
      BY <1>1, <3>1, <3>2, TreeNumbers
    <3> HIDE DEF from, size, rest
    <3>4. from + size = Len(ds)
      BY <1>1, <3>3
    <3> QED
      BY <1>3, <1>4, <2>1, <3>1, <3>4 DEF from, size
  <2>2. CASE i # n
    <3>1. i \in 1..(n - 1) /\ i \in 1..n /\ i + 1 \in 1..n
      BY <1>2, <1>3, <2>2
    <3> QED
      BY <1>3, <3>1 DEF ForestOf
  <2> QED
    BY <2>1, <2>2
<1>10. g[1].from = 0
  <2>1. CASE n = 0
    BY <1>3, <1>4, <2>1 DEF ForestOf
  <2>2. CASE n > 0
    <3>1. 1 \in 1..n
      BY <1>2, <2>2
    <3> QED
      BY <1>3, <2>2, <3>1 DEF ForestOf
  <2> QED
    BY <1>2, <2>1, <2>2
<1>11. After(es, g[Len(g)]) = 0
  BY <1>1, <1>3, <1>4 DEF After
<1>12. Len(g) # 0
  BY <1>2, <1>3
<1> HIDE DEF n
<1>13. ForestOf(es, g)
  BY <1>5, <1>8, <1>9, <1>10, <1>11, <1>12 DEF ForestOf
<1> QED
  BY <1>13 DEF es, g, t

(* Two trees of one size at the end make one tree. *)
LEMMA ForestCarries ==
  ASSUME NEW ds, Len(ds) \in Nat, NEW f, ForestOf(ds, f), Len(f) >= 2,
         f[Len(f) - 1].size = f[Len(f)].size
  PROVE  LET n == Len(f)  l == f[n - 1]  r == f[n]
         IN  ForestOf(ds, Append(SubSeq(f, 1, n - 2),
                            [from |-> l.from, size |-> l.size + r.size,
                             hash |-> nodeHash(l.hash, r.hash)]))
<1> DEFINE n == Len(f)
           l == f[n - 1]
           r == f[n]
           t == [from |-> l.from, size |-> l.size + r.size, hash |-> nodeHash(l.hash, r.hash)]
           h == SubSeq(f, 1, n - 2)
           g == Append(h, t)
<1>1. f \in Seq(Range(f)) /\ n \in Nat /\ n >= 2 /\ n - 2 \in 0..n
  BY DEF ForestOf
<1>2. h \in Seq(Range(h)) /\ Len(h) = n - 2 /\ \A i \in 1..(n - 2) : h[i] = f[i]
  BY <1>1, PrefixFacts
<1>3. t.from = l.from /\ t.size = l.size + r.size /\ t.hash = nodeHash(l.hash, r.hash)
  OBVIOUS
<1> HIDE DEF h, t
<1>4. h \in Seq(Range(h) \cup {t})
  BY <1>2, Retyped DEF Range
<1>5. g \in Seq(Range(h) \cup {t}) /\ Len(g) = n - 1 /\ g[n - 1] = t
      /\ \A i \in 1..(n - 2) : g[i] = f[i]
  <2>1. g \in Seq(Range(h) \cup {t}) /\ Len(g) = Len(h) + 1 /\ g[Len(h) + 1] = t
        /\ \A i \in 1..Len(h) : g[i] = h[i]
    BY <1>4, AppendFacts
  <2>2. Len(h) + 1 = n - 1
    BY <1>1, <1>2
  <2> QED
    BY <1>2, <2>1, <2>2
<1> HIDE DEF g
<1>6. g \in Seq(Range(g))
  BY <1>5, Retyped DEF Range
<1> DEFINE s == l.size
           from == l.from
           m == n - 1
<1>7. m \in 1..(n - 1) /\ m \in 1..n /\ n \in 1..n /\ m + 1 = n
  BY <1>1
<1>8. /\ from \in Nat /\ s \in Nat /\ s >= 1 /\ s \in Pow2 /\ r.size = s
      /\ r.from = from + s
  <2>1. from \in Nat /\ s \in Nat /\ s >= 1 /\ s \in Pow2
    BY <1>7, TreeNumbers
  <2>2. f[m + 1].from = f[m].from + f[m].size
    BY <1>7 DEF ForestOf
  <2> QED
    BY <1>7, <2>1, <2>2
<1>9. /\ l.hash = SliceRoots(ds)[s][from]
      /\ r.hash = SliceRoots(ds)[s][from + s]
  BY <1>7, <1>8 DEF ForestOf, TreeOf
<1>10. from + s + s = Len(ds)
  <2> DEFINE rest == After(ds, r)
  <2>1. r.from \in Nat /\ r.size \in Nat /\ r.from + r.size + rest = Len(ds)
    BY <1>7, TreeNumbers
  <2>2. rest = 0
    BY <1>1 DEF ForestOf
  <2> HIDE DEF rest, s, from
  <2>3. from + s + s + rest = Len(ds)
    BY <1>8, <2>1
  <2> QED
    BY <1>8, <2>2, <2>3
<1> HIDE DEF s, from
<1>11. TreeOf(ds, t)
  <2>1. t.from = from /\ t.size = 2 * s
    BY <1>3, <1>8 DEF s, from
  <2>2. 2 * s \in Pow2 /\ s \in 1..s /\ s + s = 2 * s
    <3>1. 2 * s \in Pow2
      BY <1>8, Pow2Closed
    <3>2. s \in 1..s /\ s + s = 2 * s
      BY <1>8
    <3> QED
      BY <3>1, <3>2
  <2>3. After(ds, t) = 0
    BY <1>8, <1>10, <2>1 DEF After
  <2>4. largestPow2Below(2 * s) = s
    <3>1. largestPow2Below(s + s) = s
      BY <1>8, <2>2, SplitAtPow2
    <3> QED
      BY <2>2, <3>1
  <2> DEFINE w == 2 * s
  <2>5. w \in 0..Len(ds) /\ from \in 0..(Len(ds) - w) /\ w >= 2 /\ w - s = s
    BY <1>8, <1>10
  <2>6. largestPow2Below(w) = s
    BY <2>4
  <2> HIDE DEF w
  <2>7. SliceRoots(ds)[w][from] = nodeHash(SliceRoots(ds)[s][from], SliceRoots(ds)[s][from + s])
    <3>1. SliceRoots(ds)[w][from]
             = nodeHash(SliceRoots(ds)[s][from], SliceRoots(ds)[w - s][from + s])
      BY <2>5, <2>6, RootEquation
    <3> QED
      BY <2>5, <3>1
  <2>8. t.hash = SliceRoots(ds)[t.size][t.from]
    BY <1>3, <1>9, <2>1, <2>7 DEF w
  <2> QED
    BY <1>8, <2>1, <2>2, <2>3, <2>8 DEF TreeOf
<1>12. ASSUME NEW i \in 1..Len(g) PROVE TreeOf(ds, g[i])
  <2>1. (i \in 1..(n - 2) /\ i \in 1..n) \/ i = n - 1
    BY <1>1, <1>5
  <2>2. \A j \in 1..n : TreeOf(ds, f[j])
    BY DEF ForestOf
  <2> QED
    BY <1>5, <1>11, <2>1, <2>2
<1>13. ASSUME NEW i \in 1..(Len(g) - 1) PROVE g[i + 1].from = g[i].from + g[i].size
  <2>1. i \in 1..(n - 2) /\ i \in 1..(n - 1)
    BY <1>1, <1>5
  <2>2. f[i + 1].from = f[i].from + f[i].size
    BY <2>1 DEF ForestOf
  <2>3. g[i + 1].from = f[i + 1].from
    <3>1. CASE i = n - 2
      <4>1. i + 1 = n - 1
        BY <1>1, <3>1
      <4> QED
        BY <1>3, <1>5, <4>1
    <3>2. CASE i # n - 2
      <4>1. i + 1 \in 1..(n - 2)
        BY <1>1, <2>1, <3>2
      <4> QED
        BY <1>5, <4>1
    <3> QED
      BY <3>1, <3>2
  <2> QED
    BY <1>5, <2>1, <2>2, <2>3
<1>14. g[1].from = 0
  <2>0. f[1].from = 0
    BY <1>1 DEF ForestOf
  <2>1. CASE n = 2
    <3>1. n - 1 = 1
      BY <2>1
    <3> QED
      BY <1>3, <1>5, <2>0, <3>1
  <2>2. CASE n # 2
    <3>0. n \in Nat /\ n >= 2 /\ n # 2
      BY <1>1, <2>2
    <3> HIDE DEF n
    <3>1. 1 \in 1..(n - 2)
      BY <3>0
    <3> QED
      BY <1>5, <2>0, <3>1
  <2> QED
    BY <2>1, <2>2
<1>15. After(ds, g[Len(g)]) = 0
  <2>1. After(ds, t) = 0
    BY <1>3, <1>8, <1>10 DEF After, s, from
  <2> QED
    BY <1>5, <2>1
<1>16. Len(g) # 0
  BY <1>1, <1>5
<1>17. ForestOf(ds, g)
  BY <1>6, <1>12, <1>13, <1>14, <1>15, <1>16 DEF ForestOf
<1> QED
  BY <1>17 DEF g, h, t

(* ForestRoot's recursion: the last k trees of f hashed together. *)
BagLevel(f, g, k) ==
    LET tree == f[Len(f) + 1 - k].hash
    IN  IF k = 1 THEN tree ELSE nodeHash(tree, g[k - 1])

(* The table of these for 1..n trees. *)
BagLevels(f, n, g) == g = [k \in 1..n |-> BagLevel(f, g, k)]

(* The table exists, so that the recursion defines ForestRoot. *)
LEMMA BagLevelsExist ==
  ASSUME NEW f, NEW top \in Nat
  PROVE  \E g : BagLevels(f, top, g)
<1> DEFINE S == {n \in Nat : \E g : BagLevels(f, n, g)}
<1>1. ASSUME NEW n \in Nat, \A m \in 0..(n - 1) : m \in S
      PROVE  \E g : BagLevels(f, n, g)
  <2>1. PICK h : n > 0 => BagLevels(f, n - 1, h)
    <3>1. CASE n = 0
      BY <3>1
    <3>2. CASE n > 0
      <4>1. n - 1 \in S
        BY <1>1, <3>2
      <4> QED
        BY <4>1
    <3> QED
      BY <3>1, <3>2
  <2> DEFINE g == [j \in 1..n |-> IF j < n THEN h[j] ELSE BagLevel(f, h, n)]
  <2>2. \A j \in 1..(n - 1) : h[j] = BagLevel(f, h, j)
    BY <2>1 DEF BagLevels
  <2>3. (\A j \in 1..(n - 1) : g[j] = h[j]) /\ (n > 0 => g[n] = BagLevel(f, h, n))
    OBVIOUS
  <2>4. g = [j \in 1..n |-> g[j]]
    OBVIOUS
  <2> HIDE DEF g
  <2>5. ASSUME NEW j \in 1..n PROVE g[j] = BagLevel(f, g, j)
    <3>1. BagLevel(f, g, j) = BagLevel(f, h, j)
      <4>1. j # 1 => g[j - 1] = h[j - 1]
        BY <2>3
      <4> QED
        BY <4>1 DEF BagLevel
    <3>2. CASE j = n
      BY <2>3, <3>1, <3>2
    <3>3. CASE j # n
      BY <2>2, <2>3, <3>1, <3>3
    <3> QED
      BY <3>2, <3>3
  <2>6. BagLevels(f, n, g)
    BY <2>4, <2>5 DEF BagLevels
  <2> QED
    BY <2>6
<1>2. \A n \in Nat : n \in S
  BY <1>1, StrongInduction
<1> QED
  BY <1>2

(* The last k trees together are the tree over the leaves from the first of *)
(* them on: every tree is split off where largestPow2Below splits.          *)
LEMMA BagIsRoot ==
  ASSUME NEW ds, Len(ds) \in Nat, NEW f, ForestOf(ds, f), NEW bag,
         BagLevels(f, Len(f), bag), NEW k \in 1..Len(f)
  PROVE  LET from == f[Len(f) + 1 - k].from
         IN  bag[k] = SliceRoots(ds)[Len(ds) - from][from]
<1> DEFINE n == Len(f)
           From(j) == f[n + 1 - j].from
           Bagged(j) == bag[j] = SliceRoots(ds)[Len(ds) - From(j)][From(j)]
           S == {j \in Nat : j \in 1..n => Bagged(j)}
<1>0. n \in Nat
  BY DEF ForestOf
<1>1. ASSUME NEW j \in Nat, \A m \in 0..(j - 1) : m \in S, j \in 1..n
      PROVE  Bagged(j)
  <2> HIDE DEF S
  <2> DEFINE i == n + 1 - j
             from == f[i].from
             size == f[i].size
             rest == After(ds, f[i])
  <2>1. i \in 1..n
    BY <1>0, <1>1
  <2>2. /\ from \in Nat /\ size \in Nat /\ size >= 1 /\ size \in Pow2
        /\ rest \in Nat /\ rest <= size /\ from + size + rest = Len(ds)
    <3> HIDE DEF i
    <3> QED
      BY <2>1, TreeNumbers
  <2>3. f[i].hash = SliceRoots(ds)[size][from]
    <3> HIDE DEF i
    <3> QED
      BY <2>1 DEF ForestOf, TreeOf
  <2>4. bag[j] = BagLevel(f, bag, j)
    BY <1>1 DEF BagLevels
  <2>5. CASE j = 1
    <3>1. i = n /\ n > 0
      BY <1>0, <1>1, <2>5
    <3>2. rest = 0
      BY <3>1 DEF ForestOf
    <3>3. bag[j] = f[i].hash
      BY <2>4, <2>5 DEF BagLevel
    <3> HIDE DEF from, size, rest, i
    <3>4. Len(ds) - from = size
      BY <2>2, <3>2
    <3>5. bag[j] = SliceRoots(ds)[Len(ds) - from][from]
      BY <2>3, <3>3, <3>4
    <3> QED
      BY <3>5 DEF from, i
  <2>6. CASE j # 1
    <3> DEFINE m == j - 1
               next == f[i + 1].from
    <3>1. m \in 0..(j - 1) /\ m \in 1..n /\ n + 1 - m = i + 1 /\ i \in 1..(n - 1)
      BY <1>0, <1>1, <2>6
    <3>2. bag[j] = nodeHash(f[i].hash, bag[m])
      BY <2>4, <2>6 DEF BagLevel
    <3>3. Bagged(m)
      <4> HIDE DEF Bagged
      <4>1. m \in S
        BY <1>1, <3>1
      <4> HIDE DEF m
      <4> QED
        BY <3>1, <4>1 DEF S
    <3>4. bag[m] = SliceRoots(ds)[Len(ds) - next][next]
      BY <3>1, <3>3
    <3> HIDE DEF i, m
    <3>5. next = from + size /\ rest >= 1
      <4> DEFINE sn == f[i + 1].size
                 an == After(ds, f[i + 1])
                 p == i + 1
      <4>1. p \in 1..n /\ next = from + size /\ rest = sn + an
        BY <3>1, AfterNext
      <4>2. sn \in Nat /\ sn >= 1 /\ an \in Nat
        <5>1. f[p].size \in Nat /\ f[p].size >= 1 /\ After(ds, f[p]) \in Nat
          <6> HIDE DEF p
          <6> QED
            BY <4>1, TreeNumbers
        <5> QED
          BY <5>1
      <4> HIDE DEF sn, an, rest
      <4>3. rest >= 1
        BY <4>1, <4>2
      <4> QED
        BY <4>1, <4>3
    <3> HIDE DEF from, size, rest, next
    <3> DEFINE w == Len(ds) - from
    <3>6. /\ w = size + rest /\ rest \in 1..size /\ w \in 0..Len(ds)
          /\ from \in 0..(Len(ds) - w) /\ w >= 2 /\ w - size = Len(ds) - next
      BY <2>2, <3>5
    <3> HIDE DEF w
    <3>7. largestPow2Below(w) = size
      BY <2>2, <3>6, SplitAtPow2
    <3>8. SliceRoots(ds)[w][from]
             = nodeHash(SliceRoots(ds)[size][from], SliceRoots(ds)[w - size][from + size])
      BY <3>6, <3>7, RootEquation
    <3>9. bag[j] = SliceRoots(ds)[w][from]
      BY <2>3, <3>2, <3>4, <3>5, <3>6, <3>8
    <3> QED
      BY <3>9 DEF w, from, i
  <2> QED
    BY <2>5, <2>6
<1>2. \A j \in Nat : j \in S
  <2> HIDE DEF Bagged
  <2> QED
    BY <1>1, StrongInduction
<1>3. Bagged(k)
  <2> HIDE DEF Bagged
  <2>1. k \in Nat
    BY <1>0
  <2> QED
    BY <1>2, <2>1
<1> QED
  BY <1>3

(* The forest is the binary counter over the leaves that were added. *)
ForestInv == leaves \in Seq(Alphabet) /\ ForestOf(leaves, forest)

(* It stays that. *)
LEMMA ForestAlways == TreeSpec => []ForestInv
<1>1. TreeInit => ForestInv
  <2> SUFFICES ASSUME TreeInit PROVE ForestInv
    OBVIOUS
  <2>1. leaves = <<>> /\ forest = <<>>
    BY DEF TreeInit
  <2>2. Len(<<>>) = 0 /\ <<>> \in Seq(Alphabet) /\ <<>> \in Seq(Range(<<>>))
    OBVIOUS
  <2> QED
    BY <2>1, <2>2 DEF ForestInv, ForestOf
<1>2. ForestInv /\ [TreeNext]_treeVars => ForestInv'
  <2> SUFFICES ASSUME ForestInv, [TreeNext]_treeVars PROVE ForestInv'
    OBVIOUS
  <2>0. leaves \in Seq(Alphabet) /\ Len(leaves) \in Nat /\ ForestOf(leaves, forest)
    BY DEF ForestInv
  <2>1. ASSUME NEW d \in Alphabet, AddLeaf(d) PROVE ForestInv'
    <3> DEFINE es == Append(leaves, d)
               g == Append(forest, [from |-> Len(leaves), size |-> 1, hash |-> leafHash(d)])
    <3>1. leaves' = es /\ forest' = g
      BY <2>1 DEF AddLeaf
    <3>2. ForestOf(es, g)
      BY <2>0, <2>1, ForestGrows DEF AddLeaf, Carries
    <3>3. es \in Seq(Alphabet)
      BY <2>0
    <3> HIDE DEF es, g
    <3> QED
      BY <3>1, <3>2, <3>3 DEF ForestInv
  <2>2. ASSUME Carry PROVE ForestInv'
    <3> DEFINE n == Len(forest)
               l == forest[n - 1]
               r == forest[n]
               g == Append(SubSeq(forest, 1, n - 2),
                            [from |-> l.from, size |-> l.size + r.size,
                             hash |-> nodeHash(l.hash, r.hash)])
    <3>1. leaves' = leaves /\ forest' = g
      BY <2>2 DEF Carry
    <3>2. ForestOf(leaves, g)
      BY <2>0, <2>2, ForestCarries DEF Carry, Carries
    <3> HIDE DEF g
    <3> QED
      BY <2>0, <3>1, <3>2 DEF ForestInv
  <2>3. CASE UNCHANGED treeVars
    BY <2>3 DEF ForestInv, treeVars
  <2> QED
    BY <2>1, <2>2, <2>3 DEF TreeNext
<1> QED
  BY <1>1, <1>2, PTL DEF TreeSpec

(* merkle.go computes the RFC 6962 tree hash, for a log of any length:      *)
(* splitting at the largest power of two agrees with building the tree leaf *)
(* by leaf, before and after every carry.                                   *)
THEOREM RootIsReference == TreeSpec => []RootMatchesReference
<1>1. ForestInv => RootMatchesReference
  <2> SUFFICES ASSUME ForestInv PROVE MerkleRoot(leaves) = ForestRoot
    BY DEF RootMatchesReference, Root
  <2> DEFINE n == Len(forest)
             bag == CHOOSE g : BagLevels(forest, n, g)
  <2>1. Len(leaves) \in Nat /\ ForestOf(leaves, forest)
    BY DEF ForestInv
  <2>2. n \in Nat /\ forest \in Seq(Range(forest))
    BY <2>1 DEF ForestOf
  <2>3. BagLevels(forest, n, bag)
    BY <2>2, BagLevelsExist
  <2>4. ForestRoot = IF forest = <<>> THEN Sha256(<<>>) ELSE bag[n]
    BY DEF ForestRoot, BagLevels, BagLevel
  <2> HIDE DEF bag
  <2>5. CASE forest = <<>>
    <3>1. Len(leaves) = 0
      BY <2>1, <2>5 DEF ForestOf
    <3>2. 0 \in 0..Len(leaves) /\ 0 \in 0..(Len(leaves) - 0)
      BY <3>1
    <3>3. SliceRoots(leaves)[0][0] = Sha256(<<>>)
      BY <2>1, <3>2, RootEquation
    <3> QED
      BY <2>4, <2>5, <3>1, <3>3 DEF MerkleRoot
  <2>6. CASE forest # <<>>
    <3>1. n > 0 /\ n \in 1..n /\ n + 1 - n = 1
      BY <2>2, <2>6
    <3>2. forest[1].from = 0
      BY <2>1, <3>1 DEF ForestOf
    <3>3. bag[n] = SliceRoots(leaves)[Len(leaves) - forest[n + 1 - n].from][forest[n + 1 - n].from]
      BY <2>1, <2>3, <3>1, BagIsRoot
    <3>4. Len(leaves) - 0 = Len(leaves)
      BY <2>1
    <3> QED
      BY <2>4, <2>6, <3>1, <3>2, <3>3, <3>4 DEF MerkleRoot
  <2> QED
    BY <2>5, <2>6
<1> QED
  BY <1>1, ForestAlways, PTL

---------------------------------------------------------------------------
(* What the variables of MCEncoding hold. *)
InputsOK ==
    /\ string \in Seq(Symbols)
    /\ first = NoPayment \/ first \in Considered
    /\ second = NoPayment \/ second \in Considered

(* They go on holding it. *)
LEMMA InputsAlways == Spec => []InputsOK
<1>1. Init => InputsOK
  <2>1. <<>> \in Seq(Symbols)
    OBVIOUS
  <2> QED
    BY <2>1 DEF Init, InputsOK
<1>2. InputsOK /\ [Next]_vars => InputsOK'
  <2> SUFFICES ASSUME InputsOK, [Next]_vars PROVE InputsOK'
    OBVIOUS
  <2>1. ASSUME NEW b \in Symbols, AddSymbol(b) PROVE InputsOK'
    <3>1. Append(string, b) \in Seq(Symbols)
      BY DEF InputsOK
    <3> QED
      BY <2>1, <3>1 DEF AddSymbol, InputsOK
  <2>2. CASE ConsiderFirst
    BY <2>2 DEF ConsiderFirst, InputsOK
  <2>3. CASE ConsiderSecond
    BY <2>3 DEF ConsiderSecond, InputsOK
  <2>4. CASE UNCHANGED vars
    BY <2>4 DEF vars, InputsOK
  <2> QED
    BY <2>1, <2>2, <2>3, <2>4 DEF Next
<1> QED
  BY <1>1, <1>2, PTL DEF Spec

(* Every string of bytes is what its base58 text decodes to, and every text *)
(* is what its bytes encode to, for strings of any length (base58.go).      *)
THEOREM Base58IsBijective == Spec => []OneTextPerAddress
<1>1. InputsOK => OneTextPerAddress
  <2> SUFFICES ASSUME InputsOK PROVE OneTextPerAddress
    OBVIOUS
  <2>0. Radix \in Bases /\ ByteBase \in Bases
    BY DEF Bases
  <2>1. string \in Seq(0..(ByteBase - 1))
    <3> DEFINE U == 0..(ByteBase - 1)
    <3>0. Symbols \subseteq U /\ string \in Seq(Symbols)
      BY SymbolsAssumption DEF InputsOK
    <3> HIDE DEF U
    <3>1. \A i \in 1..Len(string) : string[i] \in U
      BY <3>0
    <3>2. string \in Seq(U)
      BY <3>1, Retyped DEF InputsOK
    <3> QED
      BY <3>2 DEF U
  <2> DEFINE text == EncodeBase58(string)
             back == decodeBase58(text)
  <2>2. text \in Seq(0..(Radix - 1)) /\ Convert(text, Radix, ByteBase) = string
    BY <2>0, <2>1, ConvertBack DEF EncodeBase58
  <2> HIDE DEF text
  <2>3. back.ok /\ back.bytes = string
    <3>1. ~(\E i \in DOMAIN text : text[i] = NoIndex)
      <4>1. \A d : d \in 0..(Radix - 1) => d # NoIndex
        BY DEF Radix, NoIndex
      <4> DEFINE T == 0..(Radix - 1)
      <4> HIDE DEF T
      <4>2. text \in Seq(T) /\ \A d \in T : d # NoIndex
        BY <2>2, <4>1 DEF T
      <4> QED
        BY <4>2
    <3>2. back = [ok |-> TRUE, bytes |-> string]
      BY <2>2, <3>1 DEF decodeBase58
    <3> QED
      BY <3>2
  <2>4. ASSUME \A i \in DOMAIN string : string[i] < Radix
        PROVE  EncodeBase58(decodeBase58(string).bytes) = string
    <3> DEFINE U == 0..(Radix - 1)
               B == 0..(ByteBase - 1)
    <3>1. \A d \in B : d < Radix => d \in U /\ d # NoIndex
      BY DEF Radix, ByteBase, NoIndex
    <3> HIDE DEF U, B
    <3>2. \A i \in 1..Len(string) : string[i] \in U /\ string[i] # NoIndex
      <4>0. string \in Seq(B)
        BY <2>1 DEF B
      <4>1. \A i \in 1..Len(string) : string[i] \in B /\ i \in DOMAIN string
        BY <4>0
      <4> QED
        BY <2>4, <3>1, <4>1
    <3>3. string \in Seq(U)
      BY <3>2, Retyped DEF InputsOK
    <3>4. ~(\E i \in DOMAIN string : string[i] = NoIndex)
      BY <3>2, <3>3
    <3>5. decodeBase58(string).bytes = Convert(string, Radix, ByteBase)
      BY <3>4 DEF decodeBase58
    <3>6. Convert(Convert(string, Radix, ByteBase), ByteBase, Radix) = string
      BY <2>0, <3>3, ConvertBack DEF U
    <3> QED
      BY <3>5, <3>6 DEF EncodeBase58
  <2> QED
    BY <2>3, <2>4 DEF OneTextPerAddress, text
<1> QED
  BY <1>1, InputsAlways, PTL

(* The payments of MCEncoding are of the kinds the code decodes. *)
LEMMA ConsideredFields ==
  ASSUME NEW c \in Considered
  PROVE  PaymentFields(c.pr)
<1>1. c.pr \in Payments
  BY DEF Considered
<1> QED
  BY <1>1, PaymentsAssumption DEF PaymentFields

(* Of the payments that bind, two have the same binding exactly when they   *)
(* are the same payment under the same nonce, for any payments, keys and    *)
(* amounts of any width, and any allowlist with distinct tags               *)
(* (computeBindingRaw).                                                     *)
THEOREM BindingTellsPaymentsApart ==
  ASSUME TagsDistinct
  PROVE  Spec => []BindingIdentifiesPayment
<1>1. InputsOK => BindingIdentifiesPayment
  <2> SUFFICES ASSUME InputsOK, Bound(first), Bound(second)
               PROVE  ComputeBinding(first.pr, first.nonce).binding
                         = ComputeBinding(second.pr, second.nonce).binding
                      <=> Meaning(first) = Meaning(second)
    BY DEF BindingIdentifiesPayment
  <2> DEFINE p == first.pr
             q == second.pr
  <2>1. first \in Considered /\ second \in Considered
    BY DEF Bound, InputsOK
  <2>2. PaymentFields(p) /\ PaymentFields(q)
    BY <2>1, ConsideredFields
  <2>3. Binds(p) /\ Binds(q)
    BY DEF Bound, Binds
  <2>t. /\ SchemeTag[p.scheme] = SchemeTag[q.scheme] => p.scheme = q.scheme
        /\ NetworkTag[p.network] = NetworkTag[q.network] => p.network = q.network
    <3> HIDE DEF p, q
    <3>1. /\ p.scheme \in DOMAIN SchemeTag /\ q.scheme \in DOMAIN SchemeTag
          /\ p.network \in DOMAIN NetworkTag /\ q.network \in DOMAIN NetworkTag
      BY <2>2, <2>3, BindsWhen
    <3> QED
      BY <3>1 DEF TagsDistinct
  <2>4. ComputeBinding(p, first.nonce).binding = ComputeBinding(q, second.nonce).binding
           <=> PaymentMeaning(p, first.nonce) = PaymentMeaning(q, second.nonce)
    <3> HIDE DEF p, q
    <3> QED
      BY <2>2, <2>3, <2>t, BindingIdentifies
  <2> QED
    BY <2>4 DEF Meaning
<1> QED
  BY <1>1, InputsAlways, PTL

(* Capacity's recursion, and its table up to n. *)
FitLevel(g, w) == IF w = 0 THEN 1 ELSE 256 * g[w - 1]

FitLevels(n, g) == g = [w \in 0..n |-> FitLevel(g, w)]

(* The table exists. *)
LEMMA FitLevelsExist ==
  ASSUME NEW top \in Nat
  PROVE  \E g : FitLevels(top, g)
<1> DEFINE S == {n \in Nat : \E g : FitLevels(n, g)}
<1>1. ASSUME NEW n \in Nat, \A m \in 0..(n - 1) : m \in S
      PROVE  \E g : FitLevels(n, g)
  <2>1. PICK h : n > 0 => FitLevels(n - 1, h)
    <3>1. CASE n = 0
      BY <3>1
    <3>2. CASE n > 0
      <4>1. n - 1 \in S
        BY <1>1, <3>2
      <4> QED
        BY <4>1
    <3> QED
      BY <3>1, <3>2
  <2> DEFINE g == [j \in 0..n |-> IF j < n THEN h[j] ELSE FitLevel(h, n)]
  <2>2. \A j \in 0..(n - 1) : h[j] = FitLevel(h, j)
    BY <2>1 DEF FitLevels
  <2>3. (\A j \in 0..(n - 1) : g[j] = h[j]) /\ g[n] = FitLevel(h, n)
    OBVIOUS
  <2>4. g = [j \in 0..n |-> g[j]]
    OBVIOUS
  <2> HIDE DEF g
  <2>5. ASSUME NEW j \in 0..n PROVE g[j] = FitLevel(g, j)
    <3>1. FitLevel(g, j) = FitLevel(h, j)
      <4>1. j # 0 => g[j - 1] = h[j - 1]
        BY <2>3
      <4> QED
        BY <4>1 DEF FitLevel
    <3>2. CASE j = n
      BY <2>3, <3>1, <3>2
    <3>3. CASE j # n
      BY <2>2, <2>3, <3>1, <3>3
    <3> QED
      BY <3>2, <3>3
  <2>6. FitLevels(n, g)
    BY <2>4, <2>5 DEF FitLevels
  <2> QED
    BY <2>6
<1>2. \A n \in Nat : n \in S
  BY <1>1, StrongInduction
<1> QED
  BY <1>2

(* The numbers below Capacity are those that fit into AmountWidth bytes. *)
LEMMA CapacityIsRange ==
  ASSUME NEW n \in Int
  PROVE  n \in 0..(Capacity - 1) <=> AmountInRange(n)
<1> DEFINE g == CHOOSE h : FitLevels(AmountWidth, h)
           L(k) == Len(DigitsOf(k, ByteBase))
           S == {w \in Nat : w \in 0..AmountWidth =>
                   g[w] \in Nat /\ \A k \in Nat : k < g[w] <=> L(k) <= w}
<1>0. ByteBase \in Bases /\ AmountWidth \in Nat
  BY AmountWidthAssumption DEF Bases
<1>1. FitLevels(AmountWidth, g)
  BY <1>0, FitLevelsExist
<1>2. Capacity = g[AmountWidth]
  BY DEF Capacity, FitLevels, FitLevel
<1> HIDE DEF g
<1>3. \A w \in 0..AmountWidth : g[w] = IF w = 0 THEN 1 ELSE 256 * g[w - 1]
  BY <1>1 DEF FitLevels, FitLevel
<1>b. /\ L(0) = 0 /\ \A k \in Nat : L(k) \in Nat
      /\ \A k \in Nat : k > 0 => L(k) = L(k \div ByteBase) + 1
  BY <1>0, DigitCount
<1> HIDE DEF L
<1>4. /\ L(0) = 0 /\ \A k \in Nat : L(k) \in Nat
      /\ \A k \in Nat : k > 0 => L(k) = L(k \div 256) + 1
  BY <1>b DEF ByteBase
<1>5. ASSUME NEW w \in Nat, \A v \in 0..(w - 1) : v \in S, w \in 0..AmountWidth
      PROVE  g[w] \in Nat /\ \A k \in Nat : k < g[w] <=> L(k) <= w
  <2>1. CASE w = 0
    <3>1. g[w] = 1
      BY <1>3, <1>5, <2>1
    <3>2. ASSUME NEW k \in Nat PROVE k < 1 <=> L(k) <= 0
      <4>1. CASE k = 0
        BY <1>4, <4>1
      <4>2. CASE k > 0
        <5>1. k \div 256 \in Nat
          OBVIOUS
        <5>2. L(k) = L(k \div 256) + 1 /\ L(k \div 256) \in Nat
          BY <1>4, <4>2, <5>1
        <5> QED
          BY <4>2, <5>2
      <4> QED
        BY <4>1, <4>2
    <3> QED
      BY <2>1, <3>1, <3>2
  <2>2. CASE w > 0
    <3> DEFINE v == w - 1
               c == g[v]
    <3>0. w \in 0..AmountWidth
      BY <1>5
    <3>1. v \in 0..(w - 1) /\ v \in 0..AmountWidth /\ v \in Nat /\ w = v + 1
      <4> HIDE DEF S
      <4> QED
        BY <1>0, <2>2, <3>0
    <3>2. v \in S
      BY <1>5, <3>1
    <3>3. c \in Nat /\ \A k \in Nat : k < c <=> L(k) <= v
      BY <3>1, <3>2
    <3>4. g[w] = 256 * c
      BY <1>3, <1>5, <2>2
    <3> HIDE DEF c, v
    <3>5. ASSUME NEW k \in Nat PROVE k < 256 * c <=> L(k) <= w
      <4>1. CASE k = 0
        <5>1. 0 < c <=> L(0) <= v
          BY <3>3
        <5> QED
          BY <1>4, <3>1, <3>3, <4>1, <5>1
      <4>2. CASE k > 0
        <5> DEFINE q == k \div 256
        <5>1. q \in Nat /\ (k < 256 * c <=> q < c)
          BY <3>3
        <5>2. L(k) = L(q) + 1 /\ L(q) \in Nat
          BY <1>4, <4>2, <5>1
        <5> HIDE DEF q
        <5>3. q < c <=> L(q) <= v
          BY <3>3, <5>1
        <5>4. L(q) <= v <=> L(k) <= w
          BY <3>1, <5>2
        <5> QED
          BY <5>1, <5>3, <5>4
      <4> QED
        BY <4>1, <4>2
    <3>6. 256 * c \in Nat
      BY <3>3
    <3> QED
      BY <3>4, <3>5, <3>6
  <2> QED
    BY <2>1, <2>2
<1>6. \A w \in Nat : (\A v \in 0..(w - 1) : v \in S) => w \in S
  BY <1>5
<1>7. AmountWidth \in S
  <2> HIDE DEF S
  <2> QED
    BY <1>0, <1>6, StrongInduction
<1>8. Capacity \in Nat /\ \A k \in Nat : k < Capacity <=> L(k) <= AmountWidth
  BY <1>0, <1>2, <1>7
<1>9. n >= 0 => (n < Capacity <=> L(n) <= AmountWidth)
  BY <1>8
<1> QED
  BY <1>8, <1>9 DEF AmountInRange, L

(* A decimal amount that fits, on two addresses of the right size, under a  *)
(* scheme and a network of the allowlist, binds, and nothing else does      *)
(* (ComputeBinding's refusals).                                             *)
THEOREM FitsMeansBinds == Spec => []BindsWhateverFits
<1>1. InputsOK => BindsWhateverFits
  <2> SUFFICES ASSUME InputsOK, first # NoPayment
               PROVE  Bound(first) <=>
                         /\ first.pr.scheme \in DOMAIN SchemeTag
                         /\ first.pr.network \in DOMAIN NetworkTag
                         /\ first.pr.amount.digits # NotDecimal
                         /\ Meaning(first).amount \in 0..(Capacity - 1)
                         /\ Len(Meaning(first).asset) = KeyLen
                         /\ Len(Meaning(first).payTo) = KeyLen
    BY DEF BindsWhateverFits
  <2> DEFINE p == first.pr
             n == Number(p.amount)
  <2>1. first \in Considered
    BY DEF InputsOK
  <2>2. PaymentFields(p)
    BY <2>1, ConsideredFields
  <2>3. /\ Meaning(first).amount = n
        /\ Meaning(first).asset = decodeBase58(p.asset).bytes
        /\ Meaning(first).payTo = decodeBase58(p.payTo).bytes
    BY DEF Meaning, PaymentMeaning, Number
  <2>4. Bound(first) <=> Binds(p)
    BY DEF Bound, Binds
  <2>5. Binds(p) <=>
           /\ p.scheme \in DOMAIN SchemeTag /\ p.network \in DOMAIN NetworkTag
           /\ decodePubkey32(p.asset).ok /\ decodePubkey32(p.payTo).ok
           /\ p.amount.digits # NotDecimal /\ AmountInRange(n)
    BY <2>2, BindsWhen
  <2>6. decodePubkey32(p.asset).ok <=> Len(decodeBase58(p.asset).bytes) = KeyLen
    BY <2>2, PubkeyFacts DEF PaymentFields
  <2>7. decodePubkey32(p.payTo).ok <=> Len(decodeBase58(p.payTo).bytes) = KeyLen
    BY <2>2, PubkeyFacts DEF PaymentFields
  <2>8. n \in Int
    BY <2>2 DEF PaymentFields, Number
  <2>9. n \in 0..(Capacity - 1) <=> AmountInRange(n)
    BY <2>8, CapacityIsRange
  <2>10. Bound(first) <=>
            /\ p.scheme \in DOMAIN SchemeTag /\ p.network \in DOMAIN NetworkTag
            /\ p.amount.digits # NotDecimal
            /\ n \in 0..(Capacity - 1)
            /\ Len(decodeBase58(p.asset).bytes) = KeyLen
            /\ Len(decodeBase58(p.payTo).bytes) = KeyLen
    <3> HIDE DEF p, n
    <3> QED
      BY <2>4, <2>5, <2>6, <2>7, <2>9
  <2> QED
    BY <2>3, <2>10
<1> QED
  BY <1>1, InputsAlways, PTL

(* The capability, with an amount, as the blocks of a binding. *)
Approved(pr, nonce, amount) ==
    [scheme |-> SchemeTag[pr.scheme], network |-> NetworkTag[pr.network],
     asset |-> decodePubkey32(Capability.asset).bytes,
     payTo |-> decodePubkey32(Capability.payTo).bytes,
     amount |-> amount, resource |-> Capability.resource, nonce |-> nonce]

(* The binding of a payment is an approved one exactly when its addresses   *)
(* and its resource are the approved ones, as text, and its amount is       *)
(* within the limit.                                                        *)
LEMMA ApprovedMeans ==
  ASSUME NEW pr, NEW nonce, PaymentFields(pr), Binds(pr)
  PROVE  ComputeBinding(pr, nonce).binding \in ApprovedBindings(pr.scheme, pr.network, nonce)
            <=> /\ pr.asset = Capability.asset /\ pr.payTo = Capability.payTo
                /\ pr.resource = Capability.resource
                /\ Number(pr.amount) \in 0..Capability.maxAmount
<1> DEFINE b == BlocksOf(pr, nonce)
           D(a) == Approved(pr, nonce, a)
           ca == decodePubkey32(Capability.asset).bytes
           cp == decodePubkey32(Capability.payTo).bytes
           M == Capability.maxAmount
<1>1. /\ Blocks(b) /\ ComputeBinding(pr, nonce).binding = RawOf(b)
      /\ Len(b.asset) = KeyLen /\ Len(b.payTo) = KeyLen
  BY BindingBlocks
<1>2. ApprovedBindings(pr.scheme, pr.network, nonce) = {RawOf(D(a)) : a \in 0..M}
  BY DEF ApprovedBindings, RawOf, Approved
<1>3. \A a : /\ D(a).scheme = SchemeTag[pr.scheme] /\ D(a).network = NetworkTag[pr.network]
             /\ D(a).asset = ca /\ D(a).payTo = cp /\ D(a).amount = a
             /\ D(a).resource = Capability.resource /\ D(a).nonce = nonce
  BY DEF Approved
<1>4. /\ b.scheme = SchemeTag[pr.scheme] /\ b.network = NetworkTag[pr.network]
      /\ b.asset = decodePubkey32(pr.asset).bytes /\ b.payTo = decodePubkey32(pr.payTo).bytes
      /\ b.amount = Number(pr.amount) /\ b.resource = pr.resource /\ b.nonce = nonce
  BY DEF BlocksOf
<1>5. /\ IsSeq(ca) /\ IsSeq(cp) /\ Len(ca) \in {0, KeyLen} /\ Len(cp) \in {0, KeyLen}
      /\ Len(ca) = KeyLen => EncodeBase58(ca) = Capability.asset
      /\ Len(cp) = KeyLen => EncodeBase58(cp) = Capability.payTo
  BY CapabilityAssumption, PubkeyFacts
<1>6. /\ EncodeBase58(b.asset) = pr.asset /\ EncodeBase58(b.payTo) = pr.payTo
  <2>1. decodePubkey32(pr.asset).ok /\ decodePubkey32(pr.payTo).ok
    BY BindsWhen
  <2>2. EncodeBase58(decodePubkey32(pr.asset).bytes) = pr.asset
    BY <2>1, PubkeyFacts DEF PaymentFields
  <2>3. EncodeBase58(decodePubkey32(pr.payTo).bytes) = pr.payTo
    BY <2>1, PubkeyFacts DEF PaymentFields
  <2> QED
    BY <1>4, <2>2, <2>3
<1>7. \A a \in 0..M : Blocks(D(a))
  <2>1. \A a \in 0..M : a \in Nat /\ AmountInRange(a)
    BY CapabilityAssumption, RangeIsDownward
  <2> HIDE DEF D, ca, cp, M
  <2> QED
    BY <1>3, <1>5, <2>1 DEF Blocks
<1>8. ca = b.asset /\ cp = b.payTo <=> pr.asset = Capability.asset /\ pr.payTo = Capability.payTo
  <2>1. ASSUME ca = b.asset, cp = b.payTo
        PROVE  pr.asset = Capability.asset /\ pr.payTo = Capability.payTo
    <3> HIDE DEF b, ca, cp
    <3> QED
      BY <1>1, <1>5, <1>6, <2>1
  <2>2. ASSUME pr.asset = Capability.asset, pr.payTo = Capability.payTo
        PROVE  ca = b.asset /\ cp = b.payTo
    BY <1>4, <2>2
  <2> HIDE DEF b, ca, cp
  <2> QED
    BY <2>1, <2>2
<1> HIDE DEF b, D, ca, cp
<1>9. ASSUME NEW a \in 0..M, RawOf(b) = RawOf(D(a))
      PROVE  ca = b.asset /\ cp = b.payTo /\ b.amount = a /\ b.resource = Capability.resource
  <2> DEFINE d == D(a)
  <2>1. /\ Blocks(d) /\ d.asset = ca /\ d.payTo = cp
        /\ d.amount = a /\ d.resource = Capability.resource
    BY <1>3, <1>7
  <2> HIDE DEF d
  <2>2. RawOf(b) = RawOf(d)
    BY <1>9 DEF d
  <2>3. /\ Len(b.asset) + Len(b.payTo) = Len(d.asset) + Len(d.payTo)
        /\ Len(b.asset) = Len(d.asset) =>
              /\ b.asset = d.asset /\ b.payTo = d.payTo
              /\ b.amount = d.amount /\ b.resource = d.resource
    BY <1>1, <2>1, <2>2, LayoutInjective
  <2>4. Len(ca) = KeyLen
    <3> DEFINE k == Len(ca)
               l == Len(cp)
    <3>1. KeyLen + KeyLen = k + l /\ k \in {0, KeyLen} /\ l \in {0, KeyLen}
      BY <1>1, <1>5, <2>1, <2>3
    <3> HIDE DEF k, l
    <3>2. k = KeyLen
      BY <3>1, KeyLenAssumption
    <3> QED
      BY <3>2 DEF k
  <2> QED
    BY <1>1, <2>1, <2>3, <2>4
<1>10. ASSUME ca = b.asset, cp = b.payTo, b.resource = Capability.resource, b.amount \in 0..M
       PROVE  RawOf(b) = RawOf(D(b.amount))
  BY <1>3, <1>4, <1>10 DEF RawOf
<1> HIDE DEF M
<1>11. RawOf(b) \in {RawOf(D(a)) : a \in 0..M}
          <=> ca = b.asset /\ cp = b.payTo /\ b.resource = Capability.resource /\ b.amount \in 0..M
  BY <1>9, <1>10
<1> QED
  BY <1>1, <1>2, <1>4, <1>8, <1>11 DEF M

(* Of the payments that bind, ExactPayment.Verify accepts exactly those     *)
(* written without a sign whose binding the human approved.                 *)
THEOREM PolicyMeansBinding == Spec => []PolicyAgreesWithBinding
<1>1. InputsOK => PolicyAgreesWithBinding
  <2> SUFFICES ASSUME InputsOK, Bound(first)
               PROVE  ExactPaymentVerify(first.pr) = "ok" <=>
                         /\ first.pr.amount.sign = "none"
                         /\ ComputeBinding(first.pr, first.nonce).binding
                              \in ApprovedBindings(first.pr.scheme, first.pr.network, first.nonce)
    BY DEF PolicyAgreesWithBinding
  <2> DEFINE p == first.pr
             d == p.amount.digits
             M == Capability.maxAmount
             U == ByteBase ^ UintWidth
  <2>1. PaymentFields(p) /\ Binds(p)
    <3>1. first \in Considered
      BY DEF Bound, InputsOK
    <3>2. Binds(p)
      BY DEF Bound, Binds
    <3> QED
      BY <3>1, <3>2, ConsideredFields
  <2>2. d # NotDecimal /\ d \in Int /\ AmountInRange(Number(p.amount))
    BY <2>1, BindsWhen DEF PaymentFields
  <2>3. ComputeBinding(p, first.nonce).binding
              \in ApprovedBindings(p.scheme, p.network, first.nonce)
           <=> /\ p.asset = Capability.asset /\ p.payTo = Capability.payTo
               /\ p.resource = Capability.resource /\ Number(p.amount) \in 0..M
    <3> HIDE DEF p
    <3> QED
      BY <2>1, ApprovedMeans
  <2>4. ParseUint(p.amount).ok = (p.amount.sign = "none" /\ d # NotDecimal /\ d < U)
        /\ ParseUint(p.amount).n = d
    BY DEF ParseUint
  <2>5. ExactPaymentVerify(p) = "ok" <=>
           /\ p.asset = Capability.asset /\ p.payTo = Capability.payTo
           /\ p.resource = Capability.resource
           /\ ParseUint(p.amount).ok /\ ParseUint(p.amount).n <= M
    BY DEF ExactPaymentVerify
  <2>6. M \in Nat /\ U \in Nat /\ M < U
    BY CapabilityAssumption
  <2>7. p.amount.sign = "none" => Number(p.amount) = d /\ d >= 0
    <3>1. p.amount.sign = "none" => Number(p.amount) = d
      BY DEF Number
    <3>2. Number(p.amount) >= 0
      BY <2>2 DEF AmountInRange
    <3> QED
      BY <3>1, <3>2
  <2> HIDE DEF p, d, M, U
  <2>8. p.amount.sign = "none" => (Number(p.amount) \in 0..M <=> d < U /\ d <= M)
    <3> SUFFICES ASSUME p.amount.sign = "none" PROVE d \in 0..M <=> d < U /\ d <= M
      BY <2>7
    <3>1. d \in Int /\ d >= 0
      BY <2>2, <2>7
    <3> QED
      BY <2>6, <3>1
  <2> QED
    BY <2>2, <2>3, <2>4, <2>5, <2>8 DEF p
<1> QED
  BY <1>1, InputsAlways, PTL
=============================================================================
