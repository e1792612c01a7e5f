------------------------------- MODULE Merkle -------------------------------
(***************************************************************************)
(* translog/merkle.go: the RFC 6962 tree over the leaves of a log.  The    *)
(* code recurses on sub-slices; here a sub-slice ds[lo:lo+n] is its length *)
(* n and its offset lo, and the recursions are functions of the length.    *)
(* Leaf indices start at 0.                                                *)
(***************************************************************************)
EXTENDS Integers, Sequences, Crypto

(* Mutation of leafHash: leaves carry no domain tag. *)
leafHashUntagged(data) == Sha256(data)

leafHash(data) == Sha256(<<0, data>>)

nodeHash(l, r) == Sha256(<<1, l, r>>)

(* Mutation of largestPow2Below: the loop doubles once too often, so that a *)
(* power of two is its own split point but for the last leaf.               *)
largestPow2BelowInclusive(n) ==
    LET k == CHOOSE k \in {2 ^ i : i \in 0..n} : k <= n /\ n < 2 * k
    IN  IF k = n THEN n - 1 ELSE k

(* The largest power of two strictly below n, for n >= 2: k is doubled      *)
(* while it is below n, and halved once.                                    *)
largestPow2Below(n) ==
    LET Shift[k \in 1..(2 * n)] == IF k < n THEN Shift[2 * k] ELSE k
    IN  Shift[1] \div 2

(* The root over ds[lo:lo+n], for every slice of ds. *)
SliceRoots(ds) ==
    LET Root[n \in 0..Len(ds)] ==
            [lo \in 0..(Len(ds) - n) |->
                IF n = 0 THEN Sha256(<<>>)
                ELSE IF n = 1 THEN leafHash(ds[lo + 1])
                ELSE LET k == largestPow2Below(n)
                     IN  nodeHash(Root[k][lo], Root[n - k][lo + k])]
    IN  Root

MerkleRoot(ds) == SliceRoots(ds)[Len(ds)][0]

(* The siblings on the way from leaf i of ds[lo:lo+n] up to its root,       *)
(* bottom-up, for every slice of ds.                                        *)
SlicePaths(ds) ==
    LET Path[n \in 1..Len(ds)] ==
            [lo \in 0..(Len(ds) - n) |-> [i \in 0..(n - 1) |->
                IF n = 1 THEN <<>>
                ELSE LET k == largestPow2Below(n)
                     IN  IF i < k
                         THEN Append(Path[k][lo][i], SliceRoots(ds)[n - k][lo + k])
                         ELSE Append(Path[n - k][lo + k][i - k], SliceRoots(ds)[k][lo])]]
    IN  Path

auditPath(m, ds) == SlicePaths(ds)[Len(ds)][0][m]

(* Mutation of InclusionProof: the last index is taken to be out of range. *)
InclusionProofShort(ds, m) ==
    IF m < 0 \/ m >= Len(ds) - 1
    THEN [ok |-> FALSE, path |-> <<>>]
    ELSE [ok |-> TRUE, path |-> auditPath(m, ds)]

InclusionProof(ds, m) ==
    IF m < 0 \/ m >= Len(ds)
    THEN [ok |-> FALSE, path |-> <<>>]
    ELSE [ok |-> TRUE, path |-> auditPath(m, ds)]

NoRoot == [ok |-> FALSE, hash |-> Zero32]

(* The root of a tree of any size up to n, computed from the leaf at index  *)
(* i and the first j siblings of the path.                                  *)
PathRoots(n, leaf, path) ==
    LET Up[size \in 1..n] ==
            [i \in 0..(size - 1) |-> [j \in 0..Len(path) |->
                IF size = 1 THEN (IF j # 0 THEN NoRoot ELSE [ok |-> TRUE, hash |-> leaf])
                ELSE IF j = 0 THEN NoRoot
                ELSE LET k   == largestPow2Below(size)
                         sub == IF i < k THEN Up[k][i][j - 1] ELSE Up[size - k][i - k][j - 1]
                     IN  IF ~sub.ok THEN NoRoot
                         ELSE [ok |-> TRUE,
                               hash |-> IF i < k THEN nodeHash(sub.hash, path[j])
                                                 ELSE nodeHash(path[j], sub.hash)]]]
    IN  Up

rootFromPath(m, n, leaf, path) == PathRoots(n, leaf, path)[n][m][Len(path)]

(* Mutation of VerifyInclusion: the recomputed root is not compared. *)
VerifyInclusionShape(root, leaf, m, size, path) ==
    IF m < 0 \/ m >= size THEN FALSE
    ELSE rootFromPath(m, size, leafHash(leaf), path).ok

VerifyInclusion(root, leaf, m, size, path) ==
    IF m < 0 \/ m >= size THEN FALSE
    ELSE LET got == rootFromPath(m, size, leafHash(leaf), path)
         IN  got.ok /\ got.hash = root
=============================================================================
