-------------------------------- MODULE Erc1155 --------------------------------
(***************************************************************************)
(* A multi-token built from `Erc1155` and `IErc1155Burnable`               *)
(* (contracts/src/token/erc1155): the public calls of any account and the  *)
(* mints and burns of the embedding contract.  A call for one token is a   *)
(* batch of one line, as in the code, which passes vec![id], vec![value].  *)
(*                                                                         *)
(* The receiver of tokens is asked to accept them once every change is     *)
(* made; when it does not, the call fails as a whole.  What an accepting   *)
(* receiver calls in turn are the other actions of the model.              *)
(***************************************************************************)
EXTENDS Integers, Sequences

CONSTANTS
  Addresses,       \* every address, the zero address included
  ZERO,            \* Address::ZERO
  Ids,             \* the token ids
  MaxU256,         \* U256::MAX
  RefusesSingles,  \* accounts whose code does not accept one token
  RefusesBatches,  \* accounts whose code does not accept a batch
  Batches,         \* bound: the pairs of ids and values given to a call
  Delegations      \* bound: the pairs of an owner and its operator

Erc1155Assumption ==
  /\ ZERO \in Addresses /\ MaxU256 \in Nat \ {0}
  /\ RefusesSingles \cup RefusesBatches \subseteq Addresses \ {ZERO}
  /\ Batches \subseteq Seq(Ids) \X Seq(0..MaxU256)
  /\ Delegations \subseteq (Addresses \ {ZERO}) \X (Addresses \ {ZERO})

VARIABLES
  balances,            \* [id][account]
  operator_approvals,  \* [owner][operator]
  issued               \* history: [id] what was minted and not burned

U256     == 0..MaxU256
Accounts == Addresses \ {ZERO}
Balances == [Ids -> [Addresses -> U256]]

EmptyBalances == [id \in Ids |-> [a \in Addresses |-> 0]]

-----------------------------------------------------------------------------
(* The balances as a value, and what `_update` does to it: a batch of ids   *)
(* and values is worked through in order, and one line that cannot be done  *)
(* undoes all.                                                              *)

Debit(b, from, id, value) ==
  IF from = ZERO THEN b ELSE [b EXCEPT ![id][from] = @ - value]

Credit(b, to, id, value) ==
  IF to = ZERO THEN b ELSE [b EXCEPT ![id][to] = @ + value]

(* `do_update`: the debit is made before the balance of `to` is read, which *)
(* is what a transfer to oneself needs.                                     *)
CanDoUpdate(b, from, to, id, value) ==
  /\ from # ZERO => b[id][from] >= value
  /\ to # ZERO => Debit(b, from, id, value)[id][to] + value <= MaxU256

DoUpdate(b, from, to, id, value) ==
  Credit(Debit(b, from, id, value), to, id, value)

(* The loop of `_update`: the balances after n lines                        *)
AfterLines(b, from, to, ids, values) ==
  LET after[n \in 0..Len(ids)] ==
        IF n = 0 THEN b
                 ELSE DoUpdate(after[n - 1], from, to, ids[n], values[n])
  IN  after

CanUpdate(b, from, to, ids, values) ==
  /\ Len(ids) = Len(values)
  /\ LET after == AfterLines(b, from, to, ids, values)
     IN \A n \in DOMAIN ids :
          CanDoUpdate(after[n - 1], from, to, ids[n], values[n])

Update(b, from, to, ids, values) ==
  AfterLines(b, from, to, ids, values)[Len(ids)]

(* How much a batch moves in all, and of an id.                             *)
Total(values) ==
  LET total[n \in 0..Len(values)] ==
        IF n = 0 THEN 0 ELSE total[n - 1] + values[n]
  IN  total[Len(values)]

Amount(ids, values, id) ==
  Total([n \in DOMAIN ids |-> IF ids[n] = id THEN values[n] ELSE 0])

-----------------------------------------------------------------------------
vars == <<balances, operator_approvals, issued>>

Init == /\ balances = EmptyBalances
        /\ operator_approvals = [o \in Addresses |-> [s \in Addresses |-> FALSE]]
        /\ issued = [id \in Ids |-> 0]

-----------------------------------------------------------------------------
(* `authorize_transfer` and `ensure_approved_or_owner`                      *)
IsAuthorized(owner, caller) ==
  owner = caller \/ operator_approvals[owner][caller]

(* `_check_on_erc1155_received`: a batch of one line is asked for with      *)
(* on_erc_1155_received, any other with on_erc_1155_batch_received.         *)
Accepts(to, ids) ==
  IF Len(ids) = 1 THEN to \notin RefusesSingles ELSE to \notin RefusesBatches

(* `_update_with_acceptance_check`                                          *)
UpdateChecked(from, to, ids, values) ==
  /\ CanUpdate(balances, from, to, ids, values)
  /\ to # ZERO => Accepts(to, ids)
  /\ balances' = Update(balances, from, to, ids, values)
  /\ UNCHANGED operator_approvals

(* IErc1155::set_approval_for_all                                           *)
SetApprovalForAll(caller, operator, approved) ==
  /\ operator # ZERO
  /\ operator_approvals' = [operator_approvals EXCEPT ![caller][operator] = approved]
  /\ UNCHANGED <<balances, issued>>

(* IErc1155::safe_transfer_from and safe_batch_transfer_from                *)
SafeTransferFrom(caller, from, to, ids, values) ==
  /\ IsAuthorized(from, caller)
  /\ to # ZERO
  /\ from # ZERO
  /\ UpdateChecked(from, to, ids, values)
  /\ UNCHANGED issued

(* `_mint` and `_mint_batch`                                                *)
Mint(to, ids, values) ==
  /\ to # ZERO
  /\ UpdateChecked(ZERO, to, ids, values)
  /\ issued' = [id \in Ids |-> issued[id] + Amount(ids, values, id)]

(* `_burn` and `_burn_batch`                                                *)
Burn(from, ids, values) ==
  /\ from # ZERO
  /\ UpdateChecked(from, ZERO, ids, values)
  /\ issued' = [id \in Ids |-> issued[id] - Amount(ids, values, id)]

(* IErc1155Burnable::burn and burn_batch                                    *)
BurnCall(caller, account, ids, values) ==
  IsAuthorized(account, caller) /\ Burn(account, ids, values)

PublicCall(caller) ==
  \/ \E operator \in Addresses, approved \in BOOLEAN :
       /\ <<caller, operator>> \in Delegations
       /\ SetApprovalForAll(caller, operator, approved)
  \/ \E batch \in Batches, from \in Addresses :
       \/ BurnCall(caller, from, batch[1], batch[2])
       \/ \E to \in Addresses :
            SafeTransferFrom(caller, from, to, batch[1], batch[2])

Internal ==
  \E batch \in Batches, account \in Addresses :
    \/ Mint(account, batch[1], batch[2])
    \/ Burn(account, batch[1], batch[2])

Next == (\E caller \in Accounts : PublicCall(caller)) \/ Internal

Spec == Init /\ [][Next]_vars
=============================================================================
