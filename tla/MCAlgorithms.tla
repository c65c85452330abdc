------------------------------ MODULE MCAlgorithms ------------------------------
(* The algorithms that no storage of a contract is about, one at a time:    *)
(* those that do not run stay as they began.  Three limbs of two bits, and  *)
(* primes with a spare bit in the top limb (29, 31, 3) and without (37, 61);  *)
(* words of sixteen bits, for which two steps of Newton do what six do for  *)
(* 256; curves of both models with and without points of order two; keys    *)
(* in a group of order five; a Merkle tree of four leaves; a sponge of      *)
(* three elements modulo five; and the lists of an enumerable token, two    *)
(* owners and four ids, so that the id removed is first, in the middle,     *)
(* next to last and last; a set of four elements, and a bit map of two      *)
(* words.                                                                   *)
EXTENDS Checkpoints, Arithmetic, EllipticCurves, MerkleProof, Poseidon2, TLC

VARIABLES
  running,
  nft, owned_tokens, owned_tokens_index, all_tokens, all_tokens_index,
  store, data, members, marked

CONSTANTS
  leaf1, leaf2, leaf3, leaf4,
  Algorithms,    \* bound: those of "checkpoints", "arithmetic", "curves",
                 \* "signatures", "merkle", "sponge", "lists", "structures" that run
  SelfTransfers  \* bound: of Erc721Enumerable

MCValues == {"zero", "v"}
MCLeaves == <<leaf1, leaf2, leaf3, leaf4>>
MCEd     == [model |-> "te", p |-> 13, a |-> 12, d |-> 6]
MCCurves == { [model |-> "sw", p |-> 13, a |-> 0, b |-> 1],
              [model |-> "sw", p |-> 11, a |-> 2, b |-> 6],
              [model |-> "sw", p |-> 13, a |-> 10, b |-> 6],
              [model |-> "te", p |-> 13, a |-> 1, d |-> 7],
              MCEd }
MCBase   == CHOOSE A \in TePoints(MCEd) :
              A # TeIdentity /\ TeIsZero(TeMul(MCEd, TeIntoGroup(MCEd, A), 5))
MCRC     == << <<1, 2, 3>>, <<4, 0, 2>>, <<3, 0, 0>>, <<2, 0, 0>>, <<1, 1, 4>>, <<0, 3, 2>> >>
MCDiag   == <<2, 3, 4, 1>>

Enumerable ==
  INSTANCE Erc721Enumerable
    WITH Addresses     <- {"alice", "bob", "zero"},
         Ids           <- 1 .. 4,
         ZERO          <- "zero",
         MaxU256       <- 5

ASSUME MCListsAssumption == Enumerable!EnumerableAssumption

(* The set and the bit map in the hands of a contract that calls every      *)
(* method of both in any order, as the test contracts of                    *)
(* contracts/src/utils/structs do.                                          *)
StructInit == /\ store = EmptyStore /\ data = EmptyBitMap
              /\ members = {} /\ marked = {}

AddValue(v)    == store' = Add(store, v) /\ members' = members \cup {v}
RemoveValue(v) == store' = Remove(store, v) /\ members' = members \ {v}
ClearValues    == store' = Clear(store) /\ members' = {}

SetTo(i, value) ==
  /\ data' = SetBitTo(data, i, value)
  /\ marked' = IF value THEN marked \cup {i} ELSE marked \ {i}

StructNext ==
  \/ /\ ClearValues \/ \E v \in SetElements : AddValue(v) \/ RemoveValue(v)
     /\ UNCHANGED <<data, marked>>
  \/ /\ \E i \in Indices, value \in BOOLEAN : SetTo(i, value)
     /\ UNCHANGED <<store, members>>

Begins(algorithm, start, idle) == IF running = algorithm THEN start ELSE idle

MCInit ==
  /\ running \in Algorithms
  /\ Init
  /\ SpongeInit
  /\ Enumerable!Init
  /\ StructInit
  /\ Begins("arithmetic", ArithmeticInit,
            call = [op |-> "sqrt", a |-> 0] /\ answer = <<>>)
  /\ Begins("curves", PointInit,
            curve = MCEd /\ point = TeZero /\ meaning = TeIdentity)
  /\ Begins("signatures", SignInit, scalar = 0 /\ signed = <<>>)
  /\ Begins("merkle", MerkleInit,
            /\ query = [kind |-> "single", leaves |-> <<leaf1>>, proof |-> <<>>]
            /\ result = "pending")

checkpointVars == <<checkpoints, locals, pushed>>
listVars       == <<nft, owned_tokens, owned_tokens_index, all_tokens, all_tokens_index>>
structVars     == <<store, data, members, marked>>
otherVars      == <<arithmeticVars, pointVars, signVars, merkleVars>>

MCNext ==
  /\ UNCHANGED running
  /\ \/ /\ running = "checkpoints" /\ Next
        /\ UNCHANGED <<otherVars, spongeVars, listVars, structVars>>
     \/ /\ running = "arithmetic" /\ Respond
        /\ UNCHANGED <<checkpointVars, pointVars, signVars, merkleVars, spongeVars, listVars, structVars>>
     \/ /\ running = "curves" /\ PointNext
        /\ UNCHANGED <<checkpointVars, arithmeticVars, signVars, merkleVars, spongeVars, listVars, structVars>>
     \/ /\ running = "signatures" /\ SignNext
        /\ UNCHANGED <<checkpointVars, arithmeticVars, pointVars, merkleVars, spongeVars, listVars, structVars>>
     \/ /\ running = "merkle" /\ RespondToQuery
        /\ UNCHANGED <<checkpointVars, arithmeticVars, pointVars, signVars, spongeVars, listVars, structVars>>
     \/ /\ running = "sponge" /\ SpongeNext
        /\ UNCHANGED <<checkpointVars, otherVars, listVars, structVars>>
     \/ /\ running = "lists" /\ Enumerable!Next
        /\ UNCHANGED <<checkpointVars, otherVars, spongeVars, structVars>>
     \/ /\ running = "structures" /\ StructNext
        /\ UNCHANGED <<checkpointVars, otherVars, spongeVars, listVars>>

MCSpec == /\ MCInit /\ [][MCNext]_<<running, checkpointVars, otherVars, spongeVars, listVars, structVars>>
          /\ CallsRunOn
-----------------------------------------------------------------------------
(* The invariants, where they are about the algorithm that runs.  Every     *)
(* formula of both curve models computes the group law, zeros, equal and    *)
(* opposite points included, and every signature of EdDSA verifies, and no  *)
(* other one does.                                                          *)
CurvesAreExact  == /\ running = "curves" => PointsAreExact
                   /\ running = "signatures" => SignaturesVerify

(* Merkle proofs and multi-proofs are accepted for nodes of the tree only,  *)
(* leaves or inner ones, with nothing foreign among the hashes of the proof *)
(* either, and no call runs past the end of its queue.                      *)
MerkleIsSound   == running = "merkle" => ProofsAreSound

(* A sponge that absorbs and squeezes in any order permutes where the       *)
(* definition of a sponge does.                                             *)
SpongesAreExact == running = "sponge" => SpongeIsExact

(* Each owner finds every token it has in its list, at the position that    *)
(* is recorded for it.                                                      *)
OwnersCanEnumerate == running = "lists" => Enumerable!OwnersCanEnumerate

(* After any sequence of additions, removals and clearings the list of the  *)
(* set holds every member once, at the position that is recorded for it,    *)
(* and slices of it meet; and no bit of the map stands for two indices or   *)
(* disturbs another.                                                        *)
StructuresAreSets ==
  /\ IsCoherent(store) /\ SlicesMeet(store)
  /\ Len(store.values) = Cardinality(members)
  /\ \A v \in SetElements : Contains(store, v) <=> v \in members
  /\ data \in BitMaps
  /\ \A i \in Indices : GetBit(data, i) <=> i \in marked

(* So it is with the tokens of an enumerable ERC-721, per owner and all of  *)
(* them together, and with the elements of a set.                           *)
EverythingIsEnumerated ==
  /\ running = "lists" => Enumerable!EverythingIsEnumerated
  /\ running = "structures" => StructuresAreSets
=============================================================================
