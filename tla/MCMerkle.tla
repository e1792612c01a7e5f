------------------------------ MODULE MCMerkle ------------------------------
(***************************************************************************)
(* The Merkle tree of a growing log, for every sequence of leaves up to a  *)
(* length.  Beside it the tree is built leaf by leaf, as a binary counter  *)
(* counts: forest keeps the perfect subtrees (from is the first leaf of    *)
(* one), and two of one size are merged.                                   *)
(***************************************************************************)
EXTENDS Merkle, SequencesExt

CONSTANTS
    Alphabet,   \* the leaves
    MaxLeaves   \* bound on their number

ASSUME MaxLeavesAssumption == MaxLeaves \in Nat

VARIABLES leaves, forest

treeVars == <<leaves, forest>>

(* One leaf has the encoding of an inner node for its data, and could pass  *)
(* for a node if hashing let it.                                            *)
MCAlphabet == {<<"a">>, <<1, leafHash(<<"a">>), leafHash(<<"a">>)>>}

TreeInit == leaves = <<>> /\ forest = <<>>

(* The last two trees have one size. *)
Carries ==
    /\ Len(forest) >= 2
    /\ forest[Len(forest) - 1].size = forest[Len(forest)].size

AddLeaf(d) ==
    /\ Len(leaves) < MaxLeaves /\ ~Carries
    /\ leaves' = Append(leaves, d)
    /\ forest' = Append(forest, [from |-> Len(leaves), size |-> 1, hash |-> leafHash(d)])

Carry ==
    /\ Carries
    /\ forest' = LET n == Len(forest)  l == forest[n - 1]  r == forest[n]
                 IN  Append(SubSeq(forest, 1, n - 2),
                            [from |-> l.from, size |-> l.size + r.size,
                             hash |-> nodeHash(l.hash, r.hash)])
    /\ UNCHANGED leaves

TreeNext == Carry \/ \E d \in Alphabet : AddLeaf(d)

TreeSpec == TreeInit /\ [][TreeNext]_treeVars

---------------------------------------------------------------------------
(* The root of the forest: its trees hashed together from the right. *)
ForestRoot ==
    LET bag[k \in 1..Len(forest)] ==
            LET tree == forest[Len(forest) + 1 - k].hash
            IN  IF k = 1 THEN tree ELSE nodeHash(tree, bag[k - 1])
    IN  IF forest = <<>> THEN Sha256(<<>>) ELSE bag[Len(forest)]

Root == MerkleRoot(leaves)

ProofFor(m) == InclusionProof(leaves, m).path

Indices == 0..(Len(leaves) - 1)

(* merkle.go computes the RFC 6962 tree hash: splitting at the largest      *)
(* power of two agrees with building the tree leaf by leaf, before and      *)
(* after every carry.                                                       *)
RootMatchesReference == Root = ForestRoot

(* Every entry's inclusion proof verifies against the root, at every size   *)
(* of the log, powers of two and their neighbours included.                 *)
ProofsVerify ==
    \A m \in Indices : VerifyInclusion(Root, leaves[m + 1], m, Len(leaves), ProofFor(m))

(* No other leaf passes at an index, whichever proof of the tree is used,   *)
(* whole or cut short.                                                      *)
ProofsSound ==
    \A m, i \in Indices : \A d \in Alphabet : \A j \in 0..Len(ProofFor(i)) :
        VerifyInclusion(Root, d, m, Len(leaves), SubSeq(ProofFor(i), 1, j))
            => d = leaves[m + 1]

(* The anchored root identifies the log: no other sequence of leaves, of    *)
(* any length, has it ("a node hash can never be reinterpreted as a leaf",  *)
(* "avoids the duplicate-leaf ambiguity").                                  *)
RootIdentifiesLog ==
    \A n \in 0..MaxLeaves : \A other \in [1..n -> Alphabet] :
        MerkleRoot(other) = Root => other = leaves
=============================================================================
