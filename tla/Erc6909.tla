-------------------------------- MODULE Erc6909 --------------------------------
(***************************************************************************)
(* A multi-token built from `Erc6909` (contracts/src/token/erc6909/mod.rs): *)
(* the public calls of any account, and `_mint` and `_burn` by the         *)
(* embedding contract.  `Erc6909TokenSupply` is shown to implement it.     *)
(***************************************************************************)
EXTENDS Integers

CONSTANTS
  Addresses,   \* every address, the zero address included
  ZERO,        \* Address::ZERO
  Ids,         \* the token ids
  MaxU256,     \* U256::MAX
  Approvals,   \* bound: the triples of an owner, a spender and an id
  Delegations  \* bound: the pairs of an owner and its operator

Erc6909Assumption ==
  /\ ZERO \in Addresses /\ MaxU256 \in Nat \ {0}
  /\ Approvals \subseteq (Addresses \ {ZERO}) \X (Addresses \ {ZERO}) \X Ids
  /\ Delegations \subseteq (Addresses \ {ZERO}) \X (Addresses \ {ZERO})

VARIABLE tokens  \* the storage of the Erc6909

U256     == 0..MaxU256
Accounts == Addresses \ {ZERO}

Storages == [ balances           : [Addresses -> [Ids -> U256]],
              allowances         : [Addresses -> [Addresses -> [Ids -> U256]]],
              operator_approvals : [Addresses -> [Addresses -> BOOLEAN]] ]

EmptyStorage ==
  LET noTokens == [id \in Ids |-> 0]
  IN  [ balances           |-> [a \in Addresses |-> noTokens],
        allowances         |-> [o \in Addresses |-> [s \in Addresses |-> noTokens]],
        operator_approvals |-> [o \in Addresses |-> [s \in Addresses |-> FALSE]] ]

-----------------------------------------------------------------------------
(* The internals as operators on the storage: `CanF` holds of the arguments *)
(* for which `f` returns `Ok` without panicking, `F` is what it leaves.     *)

(* `_update`: the debit is made before the balance of `to` is read.         *)
Debit(t, from, id, amount) ==
  IF from = ZERO THEN t.balances ELSE [t.balances EXCEPT ![from][id] = @ - amount]

CanUpdate(t, from, to, id, amount) ==
  /\ from # ZERO => amount <= t.balances[from][id]
  /\ to # ZERO => Debit(t, from, id, amount)[to][id] + amount <= MaxU256

Update(t, from, to, id, amount) ==
  [ t EXCEPT !.balances = IF to = ZERO
      THEN Debit(t, from, id, amount)
      ELSE [Debit(t, from, id, amount) EXCEPT ![to][id] = @ + amount] ]

(* `_approve` and `_set_operator` refuse the zero address on either side.   *)
CanApprove(owner, spender) == owner # ZERO /\ spender # ZERO

Approve(t, owner, spender, id, amount) ==
  [t EXCEPT !.allowances[owner][spender][id] = amount]

SetOperator(t, owner, spender, approved) ==
  [t EXCEPT !.operator_approvals[owner][spender] = approved]

(* `_spend_allowance`: an allowance of U256::MAX is never decreased.        *)
CanSpend(t, owner, spender, id, amount) ==
  amount <= t.allowances[owner][spender][id]

Spend(t, owner, spender, id, amount) ==
  IF t.allowances[owner][spender][id] = MaxU256
    THEN t
    ELSE [t EXCEPT !.allowances[owner][spender][id] = @ - amount]

(* `transfer_from` of another's tokens by an account that is not its        *)
(* operator spends an allowance first.                                      *)
NeedsNoAllowance(t, sender, caller) ==
  sender = caller \/ t.operator_approvals[sender][caller]

CanLeave(t, sender, caller, id, amount) ==
  NeedsNoAllowance(t, sender, caller) \/ CanSpend(t, sender, caller, id, amount)

Leave(t, sender, caller, id, amount) ==
  IF NeedsNoAllowance(t, sender, caller) THEN t ELSE Spend(t, sender, caller, id, amount)

-----------------------------------------------------------------------------
Init == tokens = EmptyStorage

-----------------------------------------------------------------------------
(* IErc6909::approve                                                        *)
ApproveCall(caller, spender, id, amount) ==
  /\ <<caller, spender, id>> \in Approvals
  /\ CanApprove(caller, spender)
  /\ tokens' = Approve(tokens, caller, spender, id, amount)

(* IErc6909::set_operator                                                   *)
SetOperatorCall(caller, spender, approved) ==
  /\ <<caller, spender>> \in Delegations
  /\ CanApprove(caller, spender)
  /\ tokens' = SetOperator(tokens, caller, spender, approved)

(* `_transfer` of a storage that is already changed                         *)
Move(t, from, to, id, amount) ==
  /\ from # ZERO /\ to # ZERO
  /\ CanUpdate(t, from, to, id, amount)
  /\ tokens' = Update(t, from, to, id, amount)

(* IErc6909::transfer                                                       *)
Transfer(caller, receiver, id, amount) ==
  Move(tokens, caller, receiver, id, amount)

(* IErc6909::transfer_from                                                  *)
TransferFrom(caller, sender, receiver, id, amount) ==
  /\ CanLeave(tokens, sender, caller, id, amount)
  /\ Move(Leave(tokens, sender, caller, id, amount), sender, receiver, id, amount)

(* `_mint`                                                                  *)
Mint(to, id, amount) ==
  /\ to # ZERO
  /\ CanUpdate(tokens, ZERO, to, id, amount)
  /\ tokens' = Update(tokens, ZERO, to, id, amount)

(* `_burn`                                                                  *)
Burn(from, id, amount) ==
  /\ from # ZERO
  /\ CanUpdate(tokens, from, ZERO, id, amount)
  /\ tokens' = Update(tokens, from, ZERO, id, amount)

Next ==
  \/ \E caller \in Accounts, a \in Addresses :
       \/ \E approved \in BOOLEAN : SetOperatorCall(caller, a, approved)
       \/ \E id \in Ids, amount \in U256 :
            \/ ApproveCall(caller, a, id, amount)
            \/ Transfer(caller, a, id, amount)
            \/ \E to \in Addresses : TransferFrom(caller, a, to, id, amount)
  \/ \E a \in Addresses, id \in Ids, amount \in U256 :
       Mint(a, id, amount) \/ Burn(a, id, amount)

Spec == Init /\ [][Next]_tokens
=============================================================================
