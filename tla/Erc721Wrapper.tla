------------------------------ MODULE Erc721Wrapper ------------------------------
(***************************************************************************)
(* `Erc721Wrapper` (contracts/src/token/erc721/extensions/wrapper.rs) over *)
(* the `Erc721` of its own tokens, as examples/erc721-wrapper composes     *)
(* them, with `_recover` exposed to everybody.  The underlying token is    *)
(* another Erc721, in everybody's hands.                                   *)
(*                                                                         *)
(* `deposit_for` and `withdraw_to` go through a list of ids, and each id   *)
(* ends with a call of the receiver: `stack` holds the calls that are      *)
(* waiting for one, the innermost last.  A receiver with code can then     *)
(* call the underlying token, and the wrapper as well when that is built   *)
(* with the `reentrant` feature.  A call that fails on a later id restores *)
(* the storage that its frame remembers.                                   *)
(***************************************************************************)
EXTENDS Erc721, Sequences

CONSTANTS
  WRAPPER,    \* contract::address()
  Contracts,  \* the other accounts with code; they accept tokens
  Reentrant,  \* whether the `reentrant` feature is on
  Lists,      \* bound: the lists of ids
  MaxDepth    \* bound: the calls that wait for a receiver

ASSUME WrapperAssumption ==
  /\ WRAPPER \in Rejecting  \* see SafeMint below
  /\ Contracts \subseteq Accounts \ Rejecting
  /\ Reentrant \in BOOLEAN /\ Lists \subseteq Seq(Ids) \ {<<>>}
  /\ MaxDepth \in Nat

VARIABLES
  under,  \* the storage of the underlying Erc721
  stack

wrapperVars == <<nft, under, stack>>

Under == INSTANCE Erc721 WITH nft <- under, Rejecting <- Rejecting \ {WRAPPER}

WrapperInit == Init /\ Under!Init /\ stack = <<>>

-----------------------------------------------------------------------------
Users == Accounts \ {WRAPPER}

(* Anybody starts a transaction; inside one only code makes calls, when it  *)
(* is called.                                                               *)
Top == stack[Len(stack)]

Callers ==
  IF stack = <<>> THEN Users
  ELSE IF Top.account \in Contracts THEN Contracts
  ELSE {}

MayEnter == stack = <<>> \/ Reentrant

(* One id of `deposit_for`.  SafeMint never accepts the wrapper itself: its *)
(* `on_erc721_received` wants to be called by the underlying token.         *)
DepositOne(sender, account, id) ==
  /\ Under!TransferFrom(WRAPPER, sender, WRAPPER, id)
  /\ SafeMint(account, id)

(* One id of `withdraw_to`: with an `auth`, `_update` burns only what the   *)
(* sender may move.  A withdrawal to the wrapper would have it mint for the *)
(* wrapper, which fails.                                                    *)
WithdrawOneAsWrapper(sender, account, id) ==  \* mutant: no `auth`
  /\ UpdateCall(ZERO, id, ZERO)
  /\ account # WRAPPER
  /\ Under!SafeTransferFrom(WRAPPER, WRAPPER, account, id)

WithdrawOne(sender, account, id) ==
  /\ UpdateCall(ZERO, id, sender)
  /\ account # WRAPPER
  /\ Under!SafeTransferFrom(WRAPPER, WRAPPER, account, id)

Iterate(what, sender, account, id) ==
  \/ what = "deposit_for" /\ DepositOne(sender, account, id)
  \/ what = "withdraw_to" /\ WithdrawOne(sender, account, id)

(* The call, up to the receiver of its first id; the next ids; a failure    *)
(* (of the next id, or of the receiver); the return.                        *)
Begin(what, sender, account, ids) ==
  /\ MayEnter /\ Len(stack) < MaxDepth
  /\ Iterate(what, sender, account, Head(ids))
  /\ stack' = Append(stack, [what |-> what, sender |-> sender,
                             account |-> account, ids |-> Tail(ids),
                             before |-> [nft |-> nft, under |-> under]])

Continue ==
  /\ stack # <<>> /\ Top.ids # <<>>
  /\ Iterate(Top.what, Top.sender, Top.account, Head(Top.ids))
  /\ stack' = [stack EXCEPT ![Len(stack)].ids = Tail(@)]

Revert ==
  /\ stack # <<>> /\ Top.ids # <<>>
  /\ nft' = Top.before.nft /\ under' = Top.before.under
  /\ stack' = SubSeq(stack, 1, Len(stack) - 1)

Return ==
  /\ stack # <<>> /\ Top.ids = <<>>
  /\ stack' = SubSeq(stack, 1, Len(stack) - 1)
  /\ UNCHANGED <<nft, under>>

(* `on_erc721_received`, called by the underlying token at the end of a     *)
(* safe transfer to the wrapper.                                            *)
ReceivedFromAnyone(caller, from, id) ==  \* mutant: any sender is believed
  /\ MayEnter
  /\ SafeMint(from, id)
  /\ UNCHANGED <<under, stack>>

Received(caller, from, id) ==
  /\ MayEnter
  /\ Under!SafeTransferFrom(caller, from, WRAPPER, id)
  /\ SafeMint(from, id)
  /\ UNCHANGED stack

(* `_recover`                                                               *)
Recover(account, id) ==
  /\ MayEnter
  /\ under.owners[id] = WRAPPER
  /\ SafeMint(account, id)
  /\ UNCHANGED <<under, stack>>

(* IErc721 and IErc721Burnable of the wrapped tokens                        *)
WrappedCall(caller) == MayEnter /\ PublicCall(caller) /\ UNCHANGED <<under, stack>>

(* The underlying token: its contract mints, its holders do as they like.   *)
UnderMint(to, id) == Under!Mint(to, id) /\ UNCHANGED <<nft, stack>>

UnderCall(caller) ==
  /\ \/ \E id \in Ids :
          \/ Under!BurnCall(caller, id)
          \/ \E to \in Addresses :
               \/ Under!ApproveCall(caller, to, id)
               \/ \E from \in Addresses :
                    \/ Under!TransferFrom(caller, from, to, id)
                    \/ /\ to # WRAPPER
                       /\ Under!SafeTransferFrom(caller, from, to, id)
     \/ \E operator \in Addresses, approved \in BOOLEAN :
          Under!SetApprovalForAllCall(caller, operator, approved)
  /\ UNCHANGED <<nft, stack>>

WrapperNext ==
  \/ Continue \/ Revert \/ Return
  \/ \E id \in Ids, to \in Addresses : UnderMint(to, id) \/ Recover(to, id)
  \/ \E caller \in Callers :
       \/ WrappedCall(caller) \/ UnderCall(caller)
       \/ \E a \in Addresses :
            \/ \E id \in Ids : Received(caller, a, id)
            \/ \E ids \in Lists, what \in {"deposit_for", "withdraw_to"} :
                 Begin(what, caller, a, ids)

WrapperSpec == WrapperInit /\ [][WrapperNext]_wrapperVars

-----------------------------------------------------------------------------
Frames == [ what : {"deposit_for", "withdraw_to"}, sender : Users,
            account : Accounts, ids : Seq(Ids),
            before : [nft : Storages, under : Storages] ]

WrapperTypeOK == TypeOK /\ Under!TypeOK /\ stack \in Seq(Frames)

(* Every wrapped token stands for an underlying one the wrapper holds, in   *)
(* the middle of every list too, whatever a receiver does when it is called *)
(* and however often an id occurs in a list.                                *)
WrappedIsHeld ==
  /\ WrapperTypeOK
  /\ \A id \in Ids : OwnerOf(id) # ZERO => under.owners[id] = WRAPPER

(* An underlying token leaves the wrapper only for a wrapped one, which is  *)
(* burned on the same step, and at the wish of somebody who may move that:  *)
(* one that was sent there by mistake waits until it is recovered.  (Or the *)
(* call that brought it fails, and is undone.)                              *)
ReleaseIsTheHolders ==
  [][ \A id \in Ids :
        under.owners[id] = WRAPPER /\ under'.owners[id] # WRAPPER /\ ~Revert =>
          /\ OwnerOf(id) # ZERO /\ nft'.owners[id] = ZERO
          /\ stack' # <<>>
          /\ IsAuthorized(nft, OwnerOf(id), stack'[Len(stack')].sender, id)
    ]_wrapperVars
=============================================================================
