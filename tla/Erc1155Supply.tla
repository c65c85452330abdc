----------------------------- MODULE Erc1155Supply -----------------------------
(***************************************************************************)
(* The `Erc1155Supply` extension                                           *)
(* (contracts/src/token/erc1155/extensions/supply.rs) as                   *)
(* examples/erc1155-supply exposes it.  It writes the internals of Erc1155 *)
(* again around its own `_update`, which keeps one supply for each id and  *)
(* one for all.                                                            *)
(***************************************************************************)
EXTENDS Sums, Sequences

CONSTANTS
  Addresses,       \* every address, the zero address included
  ZERO,            \* Address::ZERO
  Ids,             \* the token ids
  MaxU256,         \* U256::MAX
  RefusesSingles,  \* accounts whose code does not accept one token
  RefusesBatches,  \* accounts whose code does not accept a batch
  Batches,         \* bound: the pairs of ids and values given to a call
  Delegations      \* bound: the pairs of an owner and its operator

VARIABLES
  balances, operator_approvals,  \* the storage of the inner Erc1155
  total_supply,                  \* [id]
  total_supply_all

vars == <<balances, operator_approvals, total_supply, total_supply_all>>

(* The contract extended, with the supplies as the record of what it issued *)
Base == INSTANCE Erc1155 WITH issued <- total_supply

ASSUME SupplyAssumption ==
  Base!Erc1155Assumption /\ IsFiniteSet(Addresses) /\ IsFiniteSet(Ids)

Accounts == Base!Accounts
U256     == Base!U256

Init == /\ balances = Base!EmptyBalances
        /\ operator_approvals = [o \in Addresses |-> [s \in Addresses |-> FALSE]]
        /\ total_supply = [id \in Ids |-> 0]
        /\ total_supply_all = 0

(* Unchecked subtraction, and the sum of an iterator of U256, wrap.         *)
Wrap(x) == x % (MaxU256 + 1)

-----------------------------------------------------------------------------
IsAuthorizedSwapped(owner, caller) ==  \* mutant: operator and owner swapped
  owner = caller \/ operator_approvals[caller][owner]

IsAuthorized(owner, caller) ==
  owner = caller \/ operator_approvals[owner][caller]

Accepts(to, ids) ==
  IF Len(ids) = 1 THEN to \notin RefusesSingles ELSE to \notin RefusesBatches

(* The supplies after a mint, checked, and after a burn, unchecked.         *)
RaiseSupplyPerLine(ids, values) ==  \* mutant: the last line of an id counts
  LET raised == [id \in Ids |->
        IF \E n \in DOMAIN ids : ids[n] = id
          THEN total_supply[id] + values[CHOOSE n \in DOMAIN ids :
                 ids[n] = id /\ \A m \in n+1 .. Len(ids) : ids[m] # id]
          ELSE total_supply[id]]
  IN  /\ \A id \in Ids : raised[id] <= MaxU256
      /\ total_supply_all + Wrap(Base!Total(values)) <= MaxU256
      /\ total_supply' = raised
      /\ total_supply_all' = total_supply_all + Wrap(Base!Total(values))

RaiseSupply(ids, values) ==
  LET raised == [id \in Ids |-> total_supply[id] + Base!Amount(ids, values, id)]
  IN  /\ \A id \in Ids : raised[id] <= MaxU256
      /\ total_supply_all + Wrap(Base!Total(values)) <= MaxU256
      /\ total_supply' = raised
      /\ total_supply_all' = total_supply_all + Wrap(Base!Total(values))

LowerSupply(ids, values) ==
  /\ total_supply' =
       [id \in Ids |-> Wrap(total_supply[id] - Base!Amount(ids, values, id))]
  /\ total_supply_all' = Wrap(total_supply_all - Wrap(Base!Total(values)))

KeepSupply == UNCHANGED <<total_supply, total_supply_all>>

(* `_update_with_acceptance_check`                                          *)
UpdateChecked(from, to, ids, values) ==
  /\ Base!CanUpdate(balances, from, to, ids, values)
  /\ to # ZERO => Accepts(to, ids)
  /\ balances' = Base!Update(balances, from, to, ids, values)
  /\ UNCHANGED operator_approvals

SetApprovalForAll(caller, operator, approved) ==
  /\ operator # ZERO
  /\ operator_approvals' = [operator_approvals EXCEPT ![caller][operator] = approved]
  /\ UNCHANGED <<balances, total_supply, total_supply_all>>

(* IErc1155::safe_transfer_from and safe_batch_transfer_from                *)
SafeTransferFrom(caller, from, to, ids, values) ==
  /\ IsAuthorized(from, caller)
  /\ to # ZERO
  /\ from # ZERO
  /\ UpdateChecked(from, to, ids, values)
  /\ KeepSupply

(* `_mint` and `_mint_batch`                                                *)
Mint(to, ids, values) ==
  /\ to # ZERO
  /\ UpdateChecked(ZERO, to, ids, values)
  /\ RaiseSupply(ids, values)

(* `_burn` and `_burn_batch`                                                *)
Burn(from, ids, values) ==
  /\ from # ZERO
  /\ UpdateChecked(from, ZERO, ids, values)
  /\ LowerSupply(ids, values)

(* IErc1155Burnable::burn and burn_batch of the example, which call `_burn` *)
(* and `_burn_batch`                                                        *)
BurnCall(caller, account, ids, values) ==
  caller \in Accounts /\ Burn(account, ids, values)

(* What IErc1155 offers to any account.                                     *)
Erc1155Call(caller) ==
  \/ \E batch \in Batches, from, to \in Addresses :
       SafeTransferFrom(caller, from, to, batch[1], batch[2])
  \/ \E operator \in Addresses, approved \in BOOLEAN :
       /\ <<caller, operator>> \in Delegations
       /\ SetApprovalForAll(caller, operator, approved)

Next ==
  \/ \E caller \in Accounts : Erc1155Call(caller)
  \/ \E batch \in Batches, account \in Addresses :
       \/ Mint(account, batch[1], batch[2])
       \/ \E caller \in Accounts :
            BurnCall(caller, account, batch[1], batch[2])

Spec == Init /\ [][Next]_vars

-----------------------------------------------------------------------------
TypeOK ==
  /\ balances \in Base!Balances
  /\ operator_approvals \in [Addresses -> [Addresses -> BOOLEAN]]
  /\ total_supply \in [Ids -> U256]
  /\ total_supply_all \in U256

(* The supply of all tokens is the sum of the supplies: a limit of          *)
(* U256::MAX holds for all of them together.                                *)
SupplyAllIsSum == total_supply_all = SumOf(total_supply)

(* The unchecked subtractions of a burn rely on this: the supply of an id   *)
(* is what is held of it.                                                   *)
SupplyIsHeld ==
  /\ TypeOK
  /\ \A id \in Ids : total_supply[id] = SumOf(balances[id])

(* The internals written again do to the tokens what those of Erc1155 do,   *)
(* with the supplies as the record of what was issued, and ask the receiver *)
(* in the same cases.                                                       *)
ImplementsErc1155 == Base!Spec

(* Nobody's call of IErc1155 lowers a balance of an account that did not    *)
(* make it an operator, whatever batch it is given.                         *)
OthersBalancesAreSafe ==
  [][ \A a, caller \in Accounts, id \in Ids :
        ( /\ balances'[id][a] < balances[id][a]
          /\ a # caller
          /\ ~operator_approvals[a][caller] ) => ~Erc1155Call(caller) ]_vars
=============================================================================
