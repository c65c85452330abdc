--------------------------------- MODULE Erc20 ---------------------------------
(***************************************************************************)
(* An ERC-20 token built from `Erc20` and its `IErc20Burnable` extension   *)
(* (contracts/src/token/erc20): the public calls any account can make, and *)
(* the internals `_mint`, `_burn`, `_update` and `_spend_allowance` that   *)
(* the contract embedding it can call for any argument.                    *)
(*                                                                         *)
(* `quota` is a history variable: what the last approval granted and what  *)
(* has been spent of it since.  No action reads it.                        *)
(***************************************************************************)
EXTENDS Erc20Ledger

VARIABLES
  token,  \* the storage of the Erc20
  quota   \* [owner][spender] -> [granted, spent]

vars == <<token, quota>>

Init == /\ token = EmptyToken
        /\ quota = [o \in Addresses |->
                     [s \in Addresses |-> [granted |-> 0, spent |-> 0]]]

(* An infinite approval is not metered.                                     *)
Meter(owner, spender, value) ==
  IF token.allowances[owner][spender] = MaxU256
    THEN quota
    ELSE [quota EXCEPT ![owner][spender].spent = @ + value]

-----------------------------------------------------------------------------
(* IErc20::transfer                                                         *)
Transfer(caller, to, value) ==
  /\ CanTransfer(token, caller, to, value)
  /\ token' = Update(token, caller, to, value)
  /\ UNCHANGED quota

(* IErc20::approve                                                          *)
ApproveCall(caller, spender, value) ==
  /\ CanApprove(caller, spender)
  /\ token' = Approve(token, caller, spender, value)
  /\ quota' = [quota EXCEPT ![caller][spender] =
                 [granted |-> value, spent |-> 0]]

(* IErc20::transfer_from                                                    *)
TransferFrom(caller, from, to, value) ==
  /\ CanSpend(token, from, caller, value)
  /\ LET paid == Spend(token, from, caller, value)
     IN /\ CanTransfer(paid, from, to, value)
        /\ token' = Update(paid, from, to, value)
  /\ quota' = Meter(from, caller, value)

(* IErc20Burnable::burn, and `_burn` when the embedding contract picks the  *)
(* account.                                                                 *)
Burn(account, value) ==
  /\ CanBurn(token, account, value)
  /\ token' = Update(token, account, ZERO, value)
  /\ UNCHANGED quota

(* IErc20Burnable::burn_from                                                *)
BurnFrom(caller, account, value) ==
  /\ CanSpend(token, account, caller, value)
  /\ LET paid == Spend(token, account, caller, value)
     IN /\ CanBurn(paid, account, value)
        /\ token' = Update(paid, account, ZERO, value)
  /\ quota' = Meter(account, caller, value)

(* `_mint`, called by the embedding contract                                *)
Mint(account, value) ==
  /\ CanMint(token, account, value)
  /\ token' = Update(token, ZERO, account, value)
  /\ UNCHANGED quota

(* `_update`, called by the embedding contract; either side may be zero     *)
UpdateCall(from, to, value) ==
  /\ CanUpdate(token, from, to, value)
  /\ token' = Update(token, from, to, value)
  /\ UNCHANGED quota

(* `_spend_allowance`, called by the embedding contract                     *)
SpendCall(owner, spender, value) ==
  /\ CanSpend(token, owner, spender, value)
  /\ token' = Spend(token, owner, spender, value)
  /\ quota' = Meter(owner, spender, value)

Next ==
  \E value \in U256 :
    \/ \E caller \in Accounts, a \in Addresses :
         \/ Transfer(caller, a, value)
         \/ ApproveCall(caller, a, value)
         \/ BurnFrom(caller, a, value)
         \/ \E to \in Addresses : TransferFrom(caller, a, to, value)
    \/ \E a \in Addresses : Burn(a, value) \/ Mint(a, value)
    \/ \E a, b \in Addresses : UpdateCall(a, b, value) \/ SpendCall(a, b, value)

Spec == Init /\ [][Next]_vars

-----------------------------------------------------------------------------
(* The storage and the history variable have their types.                   *)
TypeOK ==
  /\ token \in Tokens
  /\ quota \in [Addresses -> [Addresses -> [granted : U256, spent : Nat]]]

(* The sum of all the balances is the total supply, although the credit of  *)
(* a transfer and the supply's debit in a burn are unchecked and a transfer *)
(* may be to its own sender.                                                *)
SupplyIsSumOfBalances == SumOf(token.balances) = token.total_supply

(* The zero address never holds tokens nor grants or receives an allowance: *)
(* it stands for "minted" and "burnt" in `_update`, so a balance there could *)
(* never be spent while still counting in the supply.                       *)
ZeroAddressIsInert ==
  /\ token.balances[ZERO] = 0
  /\ \A a \in Addresses : /\ token.allowances[ZERO][a] = 0
                          /\ token.allowances[a][ZERO] = 0

(* Over any sequence of `transfer_from`, `burn_from` and `_spend_allowance` *)
(* since the last approval, a spender has used no more than was granted, and *)
(* what is left is the difference; an infinite approval stays infinite.      *)
AllowanceIsWhatIsLeft ==
  \A o, s \in Addresses :
    LET q == quota[o][s] IN
      /\ q.spent <= q.granted
      /\ token.allowances[o][s] = q.granted - q.spent
      /\ q.granted = MaxU256 => q.spent = 0

(* Every step of the token is a step of the abstract ledger: exact          *)
(* arithmetic, no wrap-around, no unit created or lost.                     *)
Ledger == INSTANCE FungibleLedger WITH
            Holders  <- Accounts,
            Limit    <- MaxU256,
            holdings <- [a \in Accounts |-> token.balances[a]],
            issued   <- token.total_supply

(* The calls of Erc20 implement the abstract ledger of fungible tokens.     *)
ImplementsLedger == Ledger!LedgerSpec
=============================================================================
