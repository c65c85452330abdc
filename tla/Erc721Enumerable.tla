---------------------------- MODULE Erc721Enumerable ----------------------------
(***************************************************************************)
(* An `Erc721` with the `Erc721Enumerable` extension                       *)
(* (contracts/src/token/erc721/extensions/enumerable.rs), composed as      *)
(* examples/erc721 and the documentation compose them: the contract calls  *)
(* the token first and then the extension, which reads the balances the    *)
(* token has already changed.                                              *)
(*                                                                         *)
(* Approvals are left out: whoever is authorized to move a token, the      *)
(* owner is, and the extension does not look at the caller.                *)
(***************************************************************************)
EXTENDS Erc721Ledger, Sequences

CONSTANT SelfTransfers  \* bound: whether tokens are transferred to their owner

EnumerableAssumption == Ids \subseteq U256 /\ SelfTransfers \in BOOLEAN

VARIABLES
  nft,                 \* the storage of the Erc721
  owned_tokens,        \* [owner][index] -> id; an empty slot reads 0
  owned_tokens_index,  \* [id] -> its index in its owner's list
  all_tokens,          \* a vector
  all_tokens_index     \* [id] -> its index in all_tokens

enumeration == <<owned_tokens, owned_tokens_index, all_tokens, all_tokens_index>>
vars        == <<nft, enumeration>>

Words == Ids \cup {0}

Init == /\ nft = EmptyStorage
        /\ owned_tokens = [a \in Addresses |-> [i \in U256 |-> 0]]
        /\ owned_tokens_index = [w \in Words |-> 0]
        /\ all_tokens = <<>>
        /\ all_tokens_index = [w \in Words |-> 0]

OwnerOf(id) == nft.owners[id]

(* The two mappings of the per-owner lists, as one value.                   *)
Lists == [slots |-> owned_tokens, index |-> owned_tokens_index]

(* `_add_token_to_owner_enumeration`, after the balance was credited        *)
AddToOwner(l, to, id, balance) ==
  LET length == Wrap(balance - 1)
  IN  [l EXCEPT !.slots[to][length] = id, !.index[id] = length]

(* `_remove_token_from_owner_enumeration`, after the balance was debited:   *)
(* the last token of the list moves to the slot that is given up.           *)
RemoveFromOwnerInPlace(l, from, id, balance) ==  \* mutant: no swap
  [l EXCEPT !.slots[from][l.index[id]] = 0, !.index[id] = 0]

RemoveFromOwner(l, from, id, balance) ==
  LET place   == l.index[id]
      last    == l.slots[from][balance]
      swapped == IF place = balance
                   THEN l
                   ELSE [l EXCEPT !.slots[from][place] = last,
                                  !.index[last] = place]
  IN  [swapped EXCEPT !.index[id] = 0, !.slots[from][balance] = 0]

(* `_add_token_to_all_tokens_enumeration`                                   *)
AddToAll(id) ==
  /\ all_tokens_index' = [all_tokens_index EXCEPT ![id] = Len(all_tokens)]
  /\ all_tokens' = Append(all_tokens, id)

(* `_remove_token_from_all_tokens_enumeration`: always swaps; the index of  *)
(* the removed token is deleted last, which matters when it is the last one.*)
RemoveFromAll(id) ==
  /\ all_tokens # <<>>
  /\ LET last  == all_tokens[Len(all_tokens)]
         place == all_tokens_index[id]
     IN /\ place < Len(all_tokens)
        /\ all_tokens_index' = [all_tokens_index EXCEPT ![last] = place,
                                                        ![id] = 0]
        /\ all_tokens' = SubSeq([all_tokens EXCEPT ![place + 1] = last],
                                1, Len(all_tokens) - 1)

SetLists(l) == /\ owned_tokens' = l.slots
               /\ owned_tokens_index' = l.index

-----------------------------------------------------------------------------
(* `mint` and `safe_mint` of the example                                    *)
Mint(to, id) ==
  /\ to # ZERO
  /\ OwnerOf(id) = ZERO
  /\ nft' = Update(nft, ZERO, to, id)
  /\ AddToAll(id)
  /\ SetLists(AddToOwner(Lists, to, id, nft'.balances[to]))

(* `transfer_from` and the safe variants of the example                     *)
TransferFrom(from, to, id) ==
  /\ to # ZERO
  /\ from # ZERO
  /\ from = OwnerOf(id)
  /\ SelfTransfers \/ from # to
  /\ nft' = Update(nft, from, to, id)
  /\ LET removed == RemoveFromOwner(Lists, from, id, nft'.balances[from])
     IN SetLists(AddToOwner(removed, to, id, nft'.balances[to]))
  /\ UNCHANGED <<all_tokens, all_tokens_index>>

(* `burn` of the example                                                    *)
Burn(id) ==
  /\ OwnerOf(id) # ZERO
  /\ nft' = Update(nft, OwnerOf(id), ZERO, id)
  /\ SetLists(RemoveFromOwner(Lists, OwnerOf(id), id,
                              nft'.balances[OwnerOf(id)]))
  /\ RemoveFromAll(id)

Next ==
  \E id \in Ids :
    \/ Burn(id)
    \/ \E to \in Addresses :
         \/ Mint(to, id)
         \/ \E from \in Addresses : TransferFrom(from, to, id)

Spec == Init /\ [][Next]_vars

-----------------------------------------------------------------------------
(* `token_of_owner_by_index`: a slot that reads 0 is out of bounds.         *)
OutOfBounds == -1

TokenOfOwnerByIndex(owner, index) ==
  IF owned_tokens[owner][index] = 0 THEN OutOfBounds ELSE owned_tokens[owner][index]

TypeOK ==
  /\ nft \in Storages
  /\ owned_tokens \in [Addresses -> [U256 -> Words]]
  /\ owned_tokens_index \in [Words -> U256]
  /\ all_tokens \in Seq(Ids)
  /\ all_tokens_index \in [Words -> U256]

TokensOf(owner) == {id \in Ids : OwnerOf(id) = owner}

(* The extension "adds enumerability of ... all token ids owned by each     *)
(* account" (enumerable.rs:3): asking for the indices below the balance     *)
(* yields each token of the owner, once.                                    *)
OwnersCanEnumerate ==
  \A owner \in Accounts :
    LET indices == 0 .. nft.balances[owner] - 1
    IN  /\ {TokenOfOwnerByIndex(owner, i) : i \in indices} = TokensOf(owner)
        /\ Cardinality(indices) = Cardinality(TokensOf(owner))

(* `total_supply` and `token_by_index` enumerate exactly the tokens that    *)
(* exist, through any sequence of mints and burns.                          *)
AllTokensAreEnumerated ==
  /\ TypeOK
  /\ {all_tokens[i] : i \in DOMAIN all_tokens} = Ids \ TokensOf(ZERO)
  /\ Len(all_tokens) = Cardinality(Ids \ TokensOf(ZERO))
  /\ \A i \in DOMAIN all_tokens : all_tokens_index[all_tokens[i]] = i - 1

(* Both enumerations, through the same sequences of calls.                  *)
EverythingIsEnumerated == OwnersCanEnumerate /\ AllTokensAreEnumerated
=============================================================================
