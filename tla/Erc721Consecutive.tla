--------------------------- MODULE Erc721Consecutive ---------------------------
(***************************************************************************)
(* The `Erc721Consecutive` extension                                       *)
(* (contracts/src/token/erc721/extensions/consecutive.rs) in a contract    *)
(* like examples/erc721-consecutive: batches of tokens are minted by one   *)
(* checkpoint each in the constructor, single tokens afterwards.  A token  *)
(* of a batch has no owner of its own until it moves; `_owner_of` finds it *)
(* from the checkpoint that ends its batch and the burn bit.               *)
(*                                                                         *)
(* The safe variants only add the answer of a receiver, see Erc721.        *)
(***************************************************************************)
EXTENDS Erc721Ledger, Sequences

CONSTANTS
  MaxU96,              \* U96::MAX
  FirstConsecutiveId,  \* first_consecutive_id, set by the constructor
  MaxBatchSize,        \* max_batch_size, set by the constructor
  MaxLastId,           \* bound: the last id of a batch
  LateBatches,         \* whether the contract mints batches after its constructor
  W,                   \* the bits of a word of the bit map
  ApprovableIds,       \* bound: the tokens an account is approved for
  Operators            \* bound: who is made an operator, by others

(* What is assumed of them.  A batch may end at U96::MAX, and a contract may *)
(* mint batches late; the properties below need that neither is the case.    *)
ConsecutiveAssumption ==
  /\ W \in Nat \ {0}
  /\ MaxU96 \in Nat /\ Ids \subseteq Nat
  /\ FirstConsecutiveId \in 0..MaxU96
  /\ MaxBatchSize \in 0..MaxU96
  /\ MaxLastId \in 0..MaxU96 /\ FirstConsecutiveId..MaxLastId \subseteq Ids
  /\ LateBatches \in BOOLEAN
  /\ ApprovableIds \subseteq Ids
  /\ Operators \subseteq Accounts

VARIABLES
  erc721,                \* the storage of the inner Erc721
  sequential_ownership,  \* a Trace: last id of each batch -> its receiver
  sequential_burn,       \* a BitMap
  constructing           \* whether the constructor still runs

vars == <<erc721, sequential_ownership, sequential_burn, constructing>>

INSTANCE Structs WITH MaxKey <- MaxU96, Values <- Addresses, ZeroValue <- ZERO,
                      Indices <- Ids, SetElements <- {}  \* no sets are used

Init == /\ erc721 = EmptyStorage
        /\ sequential_ownership = <<>>
        /\ sequential_burn = EmptyBitMap
        /\ constructing = TRUE

WrapU96(x) == x % (MaxU96 + 1)

(* `_owner_of`                                                              *)
OwnerOf(id) ==
  IF erc721.owners[id] # ZERO \/ id < FirstConsecutiveId \/ id > MaxU96
    THEN erc721.owners[id]
    ELSE IF GetBit(sequential_burn, id)
           THEN ZERO
           ELSE LowerLookup(sequential_ownership, id)

(* `_next_consecutive_id`                                                   *)
NextConsecutiveIdAtLast ==  \* mutant: the last id of the batch is used again
  IF sequential_ownership = <<>> THEN FirstConsecutiveId
                                 ELSE Latest(sequential_ownership).key

NextConsecutiveId ==
  IF sequential_ownership = <<>>
    THEN FirstConsecutiveId
    ELSE WrapU96(Latest(sequential_ownership).key + 1)

-----------------------------------------------------------------------------
(* `_mint_consecutive`.  A batch of no tokens changes nothing.  Nothing in  *)
(* it says when it may be called: that is up to the contract.               *)
MintConsecutive(to, batch_size) ==
  LET last == WrapU96(NextConsecutiveId + batch_size - 1)
  IN  /\ constructing \/ LateBatches
      /\ to # ZERO
      /\ batch_size <= MaxBatchSize
      /\ NextConsecutiveId + batch_size - 1 <= MaxLastId
      /\ CanInsert(sequential_ownership, last)
      /\ sequential_ownership' = Insert(sequential_ownership, last, to)
      /\ erc721' = IncreaseBalance(erc721, to, batch_size)
      /\ UNCHANGED <<sequential_burn, constructing>>

(* The constructor returns.                                                 *)
Deploy == /\ constructing
          /\ constructing' = FALSE
          /\ UNCHANGED <<erc721, sequential_ownership, sequential_burn>>

(* `_update`: `_update_base`, then the burn of a batch token is recorded.   *)
UpdateCallBaseOwner(to, id, auth) ==  \* mutant: the owner of the inner token
  /\ MayUpdate(erc721, OwnerOf(id), id, auth)
  /\ erc721' = Update(erc721, erc721.owners[id], to, id)
  /\ sequential_burn' =
       IF to = ZERO /\ id < NextConsecutiveId
         THEN SetBit(sequential_burn, id) ELSE sequential_burn
  /\ UNCHANGED <<sequential_ownership, constructing>>

UpdateCall(to, id, auth) ==
  /\ MayUpdate(erc721, OwnerOf(id), id, auth)
  /\ erc721' = Update(erc721, OwnerOf(id), to, id)
  /\ sequential_burn' =
       IF to = ZERO /\ id < NextConsecutiveId
         THEN SetBit(sequential_burn, id) ELSE sequential_burn
  /\ UNCHANGED <<sequential_ownership, constructing>>

(* IErc721::transfer_from                                                   *)
TransferFrom(caller, from, to, id) ==
  /\ to # ZERO
  /\ from = OwnerOf(id)
  /\ UpdateCall(to, id, caller)

(* IErc721::approve                                                         *)
ApproveCall(caller, to, id) ==
  /\ id \in ApprovableIds
  /\ CanApprove(erc721, OwnerOf(id), id, caller)
  /\ erc721' = Approve(erc721, to, id)
  /\ UNCHANGED <<sequential_ownership, sequential_burn, constructing>>

(* IErc721::set_approval_for_all                                            *)
SetApprovalForAllCall(caller, operator, approved) ==
  /\ operator \in Operators \ {caller}  \* the code: operator # ZERO
  /\ erc721' = SetApprovalForAll(erc721, caller, operator, approved)
  /\ UNCHANGED <<sequential_ownership, sequential_burn, constructing>>

(* `_mint` and `_safe_mint`                                                 *)
Mint(to, id) ==
  /\ to # ZERO
  /\ OwnerOf(id) = ZERO
  /\ UpdateCall(to, id, ZERO)

(* `_burn`                                                                  *)
Burn(id) == OwnerOf(id) # ZERO /\ UpdateCall(ZERO, id, ZERO)

(* IErc721Burnable::burn of the example, which calls `_burn`                *)
BurnCall(caller, id) == caller \in Accounts /\ Burn(id)

(* `_transfer` and `_safe_transfer`                                         *)
Transfer(from, to, id) ==
  /\ to # ZERO
  /\ OwnerOf(id) # ZERO
  /\ from = OwnerOf(id)
  /\ UpdateCall(to, id, ZERO)

OwnersCall(caller) ==
  \/ \E id \in Ids, to \in Addresses :
       \/ ApproveCall(caller, to, id)
       \/ \E from \in Addresses : TransferFrom(caller, from, to, id)
  \/ \E operator \in Addresses, approved \in BOOLEAN :
       SetApprovalForAllCall(caller, operator, approved)

Internal ==
  \E id \in Ids :
    \/ Burn(id)
    \/ \E to \in Addresses :
         \/ Mint(to, id)
         \/ \E a \in Addresses : \/ Transfer(a, to, id)
                                 \/ UpdateCall(to, id, a)

Next ==
  \/ \E to \in Addresses, batch_size \in 1..MaxBatchSize :
       MintConsecutive(to, batch_size)
  \/ Deploy
  \/ /\ ~constructing
     /\ \E caller \in Accounts : \/ OwnersCall(caller)
                                \/ \E id \in Ids : BurnCall(caller, id)
  \/ ~constructing /\ Internal

Spec == Init /\ [][Next]_vars

-----------------------------------------------------------------------------
TypeOK ==
  /\ erc721 \in Storages
  /\ sequential_ownership \in Seq(Checkpoint)
  /\ sequential_burn \in BitMaps
  /\ constructing \in BOOLEAN

(* A balance is raised once for a batch and by one for a token, while the   *)
(* owners are derived from three structures: the two still agree, whatever  *)
(* is transferred, burned and minted again.  So it is when batches come     *)
(* first, as in the example; a batch that comes after a single token is     *)
(* counted with that token in it.                                           *)
BalancesCountTokens ==
  /\ TypeOK
  /\ \A a \in Accounts :
       erc721.balances[a] = Cardinality({id \in Ids : OwnerOf(id) = a})

(* A burn destroys the token, also when the token never had an owner of its *)
(* own and the checkpoint of its batch keeps naming one.                    *)
BurnDestroys == [][\A id \in Ids : Burn(id) => OwnerOf(id)' = ZERO]_vars

(* A token of a batch is as safe from others as any: it changes hands or    *)
(* gets another approval by nobody's `transfer_from`, `approve` or          *)
(* `set_approval_for_all` but that of its owner, the account approved for   *)
(* it, or an operator of its owner.                                         *)
MayTouch(caller, id) ==
  \/ caller \in {OwnerOf(id), erc721.token_approvals[id]}
  \/ erc721.operator_approvals[OwnerOf(id)][caller]

(* None of these calls of anybody else moves a token or changes its         *)
(* approval, with the owner derived from a batch.                           *)
OthersTokensAreSafe ==
  [][ \A id \in Ids, caller \in Accounts :
        ( /\ <<OwnerOf(id), erc721.token_approvals[id]>>'
                # <<OwnerOf(id), erc721.token_approvals[id]>>
          /\ ~MayTouch(caller, id) ) => ~OwnersCall(caller) ]_vars

(* What a token of a batch can rely on: it is gone when it is burned, and   *)
(* nobody's before that but its owner's.                                    *)
BatchTokensAreSafe == BurnDestroys /\ OthersTokensAreSafe

(* Every step is a step of the abstract ledger.  In particular a new batch  *)
(* takes no token from anybody, although `_owner_of` reads one shared list, *)
(* and a mint of a burned batch token is an ordinary mint.                  *)
Nft == INSTANCE NonFungibleLedger WITH
         Holders  <- Accounts,
         Nobody   <- ZERO,
         holder   <- [id \in Ids |-> OwnerOf(id)],
         approved <- erc721.token_approvals

(* The calls of Erc721Consecutive implement the abstract ledger of non-     *)
(* fungible tokens.                                                         *)
ImplementsNft == Nft!NftSpec
=============================================================================
