--------------------------------- MODULE Erc721 ---------------------------------
(***************************************************************************)
(* An ERC-721 token built from `Erc721` and `IErc721Burnable`              *)
(* (contracts/src/token/erc721): the public calls of any account and the   *)
(* internals the embedding contract can call.                              *)
(*                                                                         *)
(* The safe variants call `on_erc_721_received` of a receiver with code    *)
(* once every change is made: the call fails as a whole when the receiver  *)
(* rejects the token, and what an accepting receiver does next are the     *)
(* other actions of the model.                                             *)
(***************************************************************************)
EXTENDS Erc721Ledger

LOCAL INSTANCE TLC

CONSTANT Rejecting  \* the accounts whose code does not accept tokens

ASSUME RejectingAssumption == Rejecting \subseteq Accounts

VARIABLE nft  \* the storage of the Erc721

Init == nft = EmptyStorage

OwnerOf(id) == nft.owners[id]

(* `_check_on_erc721_received`                                              *)
Accepts(to) == to \notin Rejecting

-----------------------------------------------------------------------------
(* IErc721::transfer_from.  With an `auth` the token must exist: nobody is  *)
(* authorized for a token without an owner.                                 *)
TransferFrom(caller, from, to, id) ==
  /\ to # ZERO
  /\ MayUpdate(nft, OwnerOf(id), id, caller)
  /\ from = OwnerOf(id)
  /\ nft' = Update(nft, OwnerOf(id), to, id)

(* IErc721::safe_transfer_from and safe_transfer_from_with_data             *)
SafeTransferFrom(caller, from, to, id) ==
  Accepts(to) /\ TransferFrom(caller, from, to, id)

(* IErc721::approve                                                         *)
ApproveCall(caller, to, id) ==
  /\ CanApprove(nft, OwnerOf(id), id, caller)
  /\ nft' = Approve(nft, to, id)

(* IErc721::set_approval_for_all                                            *)
SetApprovalForAllCall(caller, operator, approved) ==
  /\ operator # ZERO
  /\ nft' = SetApprovalForAll(nft, caller, operator, approved)

(* IErc721Burnable::burn                                                    *)
BurnCall(caller, id) ==
  /\ MayUpdate(nft, OwnerOf(id), id, caller)
  /\ nft' = Update(nft, OwnerOf(id), ZERO, id)

(* `_mint` and `_safe_mint`                                                 *)
Mint(to, id) ==
  /\ to # ZERO
  /\ OwnerOf(id) = ZERO
  /\ nft' = Update(nft, ZERO, to, id)

SafeMint(to, id) == Accepts(to) /\ Mint(to, id)

(* `_burn`                                                                  *)
Burn(id) ==
  /\ OwnerOf(id) # ZERO
  /\ nft' = Update(nft, OwnerOf(id), ZERO, id)

(* `_transfer` and `_safe_transfer`                                         *)
Transfer(from, to, id) ==
  /\ to # ZERO
  /\ OwnerOf(id) # ZERO
  /\ from = OwnerOf(id)
  /\ nft' = Update(nft, OwnerOf(id), to, id)

SafeTransfer(from, to, id) == Accepts(to) /\ Transfer(from, to, id)

(* `_update`, with or without a caller to authorize                         *)
UpdateCall(to, id, auth) ==
  /\ MayUpdate(nft, OwnerOf(id), id, auth)
  /\ nft' = Update(nft, OwnerOf(id), to, id)

(* `_approve` on behalf of `auth`, or of nobody                             *)
ApproveFor(to, id, auth) ==
  /\ CanApprove(nft, OwnerOf(id), id, auth)
  /\ nft' = Approve(nft, to, id)

PublicCall(caller) ==
  \/ \E id \in Ids :
       \/ BurnCall(caller, id)
       \/ \E to \in Addresses :
            \/ ApproveCall(caller, to, id)
            \/ \E from \in Addresses : \/ TransferFrom(caller, from, to, id)
                                       \/ SafeTransferFrom(caller, from, to, id)
  \/ \E operator \in Addresses, approved \in BOOLEAN :
       SetApprovalForAllCall(caller, operator, approved)

Internal ==
  \E id \in Ids :
    \/ Burn(id)
    \/ \E to \in Addresses :
         \/ Mint(to, id) \/ SafeMint(to, id)
         \/ \E a \in Addresses : \/ Transfer(a, to, id)
                                 \/ SafeTransfer(a, to, id)
                                 \/ UpdateCall(to, id, a)
                                 \/ ApproveFor(to, id, a)

Next == (\E caller \in Accounts : PublicCall(caller)) \/ Internal

Spec == Init /\ [][Next]_nft

-----------------------------------------------------------------------------
TypeOK == nft \in Storages

(* A balance is the number of tokens owned, although the two are written    *)
(* separately, unchecked, and a token may be transferred to its owner.      *)
BalancesCountTokens ==
  /\ TypeOK
  /\ \A a \in Accounts :
       nft.balances[a] = Cardinality({id \in Ids : OwnerOf(id) = a})

(* A token changes hands, or gets another approval, by the public call of   *)
(* nobody but its owner, the account approved for it, or an operator of its *)
(* owner.                                                                   *)
MayTouch(caller, id) ==
  \/ caller \in {OwnerOf(id), nft.token_approvals[id]}
  \/ nft.operator_approvals[OwnerOf(id)][caller]

(* Nobody else's public call moves a token or changes who is approved for   *)
(* it.                                                                      *)
OthersTokensAreSafe ==
  [][ \A id \in Ids, caller \in Accounts :
        ( /\ <<nft.owners[id], nft.token_approvals[id]>>'
                # <<nft.owners[id], nft.token_approvals[id]>>
          /\ ~MayTouch(caller, id) ) => ~PublicCall(caller) ]_nft

(* Every step is a step of the abstract ledger: in particular an approval   *)
(* never survives the transfer of its token, so a new owner starts with     *)
(* nobody approved, and nobody is approved for a token that does not exist: *)
(* `transfer_from` and `burn` rely on it, since they never test that.       *)
Nft == INSTANCE NonFungibleLedger WITH
         Holders  <- Accounts,
         Nobody   <- ZERO,
         holder   <- nft.owners,
         approved <- nft.token_approvals

(* The calls of Erc721 implement the abstract ledger of non-fungible        *)
(* tokens.                                                                  *)
ImplementsNft == Nft!NftSpec

(* For TLC: the accounts that accept tokens are alike, and so are the ids.  *)
Symmetry == Permutations(Accounts \ Rejecting) \cup Permutations(Ids)
=============================================================================
