------------------------------- MODULE MerkleProof -------------------------------
(***************************************************************************)
(* The `Verifier` of Merkle proofs (lib/crypto/src/merkle.rs).  Hashes are *)
(* symbolic: the hash of a pair is the unordered pair itself, so that it   *)
(* has one preimage up to the order, as commutative hashes do.             *)
(***************************************************************************)
EXTENDS Integers, Sequences, FiniteSets

CONSTANTS
  Leaves,     \* the hashes at the leaves of the tree, in order
  Foreign,    \* a hash that is not in the tree
  MaxLength   \* bound: the leaves and the hashes of a proof given to a call

VARIABLES query, result

merkleVars == <<query, result>>

-----------------------------------------------------------------------------
(* `commutative_hash_pair`                                                  *)
HashPair(a, b) == {a, b}

(* The tree: each level pairs the nodes of the level below.                 *)
Level(nodes) == [i \in 1 .. Len(nodes) \div 2 |-> HashPair(nodes[2 * i - 1], nodes[2 * i])]

Levels ==
  LET level[n \in 0..Len(Leaves)] == IF n = 0 THEN Leaves ELSE Level(level[n - 1])
  IN  {level[n] : n \in 0..Len(Leaves)}

TreeNodes == UNION {{level[i] : i \in DOMAIN level} : level \in Levels}
Root      == CHOOSE node \in TreeNodes : \E level \in Levels : level = <<node>>

IsNode(hash) == hash \in TreeNodes

-----------------------------------------------------------------------------
Outcome(hash) == IF hash = Root THEN "valid" ELSE "invalid"

(* Without flags, the root is the one leaf or the one hash there is.        *)
Single(proof, leaves) ==
  IF leaves \o proof = <<>> THEN "panic" ELSE Outcome((leaves \o proof)[1])

(* `verify_with_builder`                                                    *)
Verify(proof, leaf) ==
  LET hash[i \in 0..Len(proof)] ==
        IF i = 0 THEN leaf ELSE HashPair(hash[i - 1], proof[i])
  IN  Outcome(hash[Len(proof)])

(* The loop of `verify_multi_proof_with_builder`, flag by flag: the queue   *)
(* of hashes, how many of it and of the proof are used, and an error.       *)
Turn(q, flag, proof) ==
  CASE q.error # "none" -> q
    [] q.hashes_pos >= Len(q.hashes) -> [q EXCEPT !.error = "panic"]
    [] flag /\ q.hashes_pos + 1 >= Len(q.hashes) -> [q EXCEPT !.error = "InvalidRootChild"]
    [] ~flag /\ q.proof_pos >= Len(proof) -> [q EXCEPT !.error = "InvalidProofLength"]
    [] OTHER ->
         LET a == q.hashes[q.hashes_pos + 1]
             b == IF flag THEN q.hashes[q.hashes_pos + 2] ELSE proof[q.proof_pos + 1]
         IN  [ error      |-> "none",
               hashes     |-> Append(q.hashes, HashPair(a, b)),
               hashes_pos |-> q.hashes_pos + IF flag THEN 2 ELSE 1,
               proof_pos  |-> q.proof_pos + IF flag THEN 0 ELSE 1 ]

Rebuild(proof, flags, leaves) ==
  LET after[n \in 0..Len(flags)] ==
        IF n = 0
          THEN [error |-> "none", hashes |-> leaves, hashes_pos |-> 0, proof_pos |-> 0]
          ELSE Turn(after[n - 1], flags[n], proof)
      last == after[Len(flags)]
  IN  IF last.error # "none"
        THEN last.error
        ELSE Outcome(last.hashes[Len(flags) + Len(leaves)])

VerifyMultiProofUncounted(proof, flags, leaves) ==  \* mutant: the hashes are not counted
  IF flags = <<>>
    THEN Single(proof, leaves)
    ELSE IF leaves = <<>> THEN "NoLeaves" ELSE Rebuild(proof, flags, leaves)

VerifyMultiProof(proof, flags, leaves) ==
  IF Len(leaves) + Len(proof) # Len(flags) + 1 THEN "InvalidTotalHashes"
  ELSE IF flags = <<>> THEN Single(proof, leaves)
  ELSE IF leaves = <<>> THEN "NoLeaves"
  ELSE Rebuild(proof, flags, leaves)

-----------------------------------------------------------------------------
UpTo(n, S) == UNION {[1..k -> S] : k \in 0..n}

Hashes == TreeNodes \cup {Foreign}

(* Any hashes with any flags; the flags may be one too many.                *)
MerkleInit ==
  /\ result = "pending"
  /\ \/ \E leaf \in Hashes, proof \in UpTo(MaxLength + 1, Hashes) :
          query = [kind |-> "single", leaves |-> <<leaf>>, proof |-> proof]
     \/ \E leaves, proof \in UpTo(MaxLength, Hashes) :
          \E n \in {Len(leaves) + Len(proof) - 1, Len(leaves) + Len(proof)} \cap Nat :
            \E flags \in [1..n -> BOOLEAN] :
              query = [ kind |-> "multi", leaves |-> leaves, proof |-> proof,
                        flags |-> flags ]

RespondToQuery ==
  /\ result = "pending"
  /\ result' = IF query.kind = "single"
                 THEN Verify(query.proof, query.leaves[1])
                 ELSE VerifyMultiProof(query.proof, query.flags, query.leaves)
  /\ UNCHANGED query

(* Any two leaves of the tree have a multi-proof.                           *)
TwoLeavesAreProvable ==
  \A i, j \in DOMAIN Leaves :
    i < j => \E proof \in UpTo(MaxLength, TreeNodes) :
               \E flags \in [1 .. Len(proof) + 1 -> BOOLEAN] :
                 VerifyMultiProof(proof, flags, <<Leaves[i], Leaves[j]>>) = "valid"

(* What is accepted, as a leaf or as a hash of the proof, is a node of the  *)
(* tree: a leaf or an inner node, which the verifier cannot tell apart      *)
(* (merkle.rs:7, and the `no_such_leaf` of the test at :573).  No call runs *)
(* past the end of its queue: where the documentation (:105) has a panic    *)
(* out of bounds, the code returns an error.                                *)
ProofsAreSound ==
  /\ result # "panic"
  /\ result = "valid" => \A i \in DOMAIN query.leaves : IsNode(query.leaves[i])
  /\ result = "valid" => \A i \in DOMAIN query.proof : IsNode(query.proof[i])
  /\ TwoLeavesAreProvable
=============================================================================
