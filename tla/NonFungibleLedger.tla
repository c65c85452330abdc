--------------------------- MODULE NonFungibleLedger ---------------------------
(***************************************************************************)
(* What a non-fungible token promises: an id has at most one holder, comes *)
(* into being out of nobody's hands and goes back there, and the approval  *)
(* of an id is its present holder's: it ends when the id changes hands.    *)
(* `Erc721` and `Erc721Consecutive` are shown to implement it.             *)
(***************************************************************************)
CONSTANTS Ids,      \* the token ids
          Holders,  \* who may hold them
          Nobody    \* not a holder

VARIABLES holder,   \* who holds each id, or Nobody
          approved  \* who else may move it, or Nobody

nftVars == <<holder, approved>>

NftInit == /\ holder   = [id \in Ids |-> Nobody]
           /\ approved = [id \in Ids |-> Nobody]

(* Many ids may appear at once, but they all go to the same holder.         *)
Create(ids, to) ==
  /\ \A id \in ids : holder[id] = Nobody
  /\ holder' = [id \in Ids |-> IF id \in ids THEN to ELSE holder[id]]
  /\ UNCHANGED approved

Give(id, to) ==
  /\ holder[id] # Nobody
  /\ holder'   = [holder EXCEPT ![id] = to]
  /\ approved' = [approved EXCEPT ![id] = Nobody]

Entrust(id, agent) ==
  /\ holder[id] # Nobody
  /\ approved' = [approved EXCEPT ![id] = agent]
  /\ UNCHANGED holder

NftNext ==
  \/ \E ids \in SUBSET Ids, to \in Holders : Create(ids, to)
  \/ \E id \in Ids, a \in Holders \cup {Nobody} : Give(id, a) \/ Entrust(id, a)

NftSpec == NftInit /\ [][NftNext]_nftVars
=============================================================================
