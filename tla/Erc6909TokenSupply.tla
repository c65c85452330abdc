--------------------------- MODULE Erc6909TokenSupply ---------------------------
(***************************************************************************)
(* The `Erc6909TokenSupply` extension                                      *)
(* (contracts/src/token/erc6909/extensions/token_supply.rs) as             *)
(* examples/erc6909-supply exposes it.  It writes the internals of Erc6909 *)
(* again around its own `_update`, which keeps a supply for each id: raised *)
(* checked, after the balance, and lowered unchecked.                      *)
(***************************************************************************)
EXTENDS Sums

CONSTANTS
  Addresses,   \* every address, the zero address included
  ZERO,        \* Address::ZERO
  Ids,         \* the token ids
  MaxU256,     \* U256::MAX
  Approvals,   \* bound: the triples of an owner, a spender and an id
  Delegations  \* bound: the pairs of an owner and its operator

VARIABLES
  tokens,         \* the storage of the inner Erc6909
  total_supplies  \* [id]

vars == <<tokens, total_supplies>>

Base == INSTANCE Erc6909  \* the contract extended

SupplyAssumption == Base!Erc6909Assumption /\ IsFiniteSet(Addresses)

Accounts == Base!Accounts
U256     == Base!U256

Init == /\ tokens = Base!EmptyStorage
        /\ total_supplies = [id \in Ids |-> 0]

(* `sub_assign_unchecked` wraps.                                            *)
Wrap(x) == x % (MaxU256 + 1)

-----------------------------------------------------------------------------
(* `_update`, of a storage that an allowance may have been spent of         *)
UpdateSupply(t, from, to, id, amount) ==
  LET raised == total_supplies[id] + (IF from = ZERO THEN amount ELSE 0)
  IN  /\ Base!CanUpdate(t, from, to, id, amount)
      /\ tokens' = Base!Update(t, from, to, id, amount)
      /\ raised <= MaxU256
      /\ total_supplies' =
           [total_supplies EXCEPT ![id] =
              IF to = ZERO THEN Wrap(raised - amount) ELSE raised]

(* `_transfer`                                                              *)
Move(t, from, to, id, amount) ==
  /\ from # ZERO /\ to # ZERO
  /\ UpdateSupply(t, from, to, id, amount)

(* IErc6909; `approve` and `set_operator` are those of the inner Erc6909.   *)
ApproveCall(caller, spender, id, amount) ==
  /\ <<caller, spender, id>> \in Approvals
  /\ Base!CanApprove(caller, spender)
  /\ tokens' = Base!Approve(tokens, caller, spender, id, amount)
  /\ UNCHANGED total_supplies

SetOperatorCall(caller, spender, approved) ==
  /\ <<caller, spender>> \in Delegations
  /\ Base!CanApprove(caller, spender)
  /\ tokens' = Base!SetOperator(tokens, caller, spender, approved)
  /\ UNCHANGED total_supplies

Transfer(caller, receiver, id, amount) ==
  Move(tokens, caller, receiver, id, amount)

TransferFromMetered(caller, sender, receiver, id, amount) ==  \* mutant: operators pay too
  /\ Base!CanLeave(tokens, sender, caller, id, amount)
  /\ LET paid == IF sender = caller \/ amount > tokens.allowances[sender][caller][id]
                   THEN tokens ELSE Base!Spend(tokens, sender, caller, id, amount)
     IN Move(paid, sender, receiver, id, amount)

TransferFrom(caller, sender, receiver, id, amount) ==
  /\ Base!CanLeave(tokens, sender, caller, id, amount)
  /\ Move(Base!Leave(tokens, sender, caller, id, amount), sender, receiver, id, amount)

(* `_mint` and `_burn`, which the example lets anybody call                 *)
Mint(to, id, amount) ==
  to # ZERO /\ UpdateSupply(tokens, ZERO, to, id, amount)

Burn(from, id, amount) ==
  from # ZERO /\ UpdateSupply(tokens, from, ZERO, id, amount)

Erc6909Call(caller) ==
  \E a \in Addresses :
    \/ \E approved \in BOOLEAN : SetOperatorCall(caller, a, approved)
    \/ \E id \in Ids, amount \in U256 :
         \/ ApproveCall(caller, a, id, amount)
         \/ Transfer(caller, a, id, amount)
         \/ \E to \in Addresses : TransferFrom(caller, a, to, id, amount)

Next ==
  \/ \E caller \in Accounts : Erc6909Call(caller)
  \/ \E a \in Addresses, id \in Ids, amount \in U256 :
       Mint(a, id, amount) \/ Burn(a, id, amount)

Spec == Init /\ [][Next]_vars

-----------------------------------------------------------------------------
TypeOK == tokens \in Base!Storages /\ total_supplies \in [Ids -> U256]

(* The unchecked subtraction of a burn relies on the supply of an id being  *)
(* what is held of it.                                                      *)
SuppliesAreHeld ==
  /\ TypeOK
  /\ \A id \in Ids :
       total_supplies[id] = SumOf([a \in Addresses |-> tokens.balances[a][id]])

(* The internals written again do to the tokens what those of Erc6909 do:   *)
(* the extension takes and leaves the same allowances, lets the same        *)
(* operators through, and refuses no more than the mints that would exceed  *)
(* its limit.                                                               *)
ImplementsErc6909 == Base!Spec

(* Nobody's call takes tokens of another without the leave given for them:  *)
(* an operator's or an infinite allowance, or an allowance for that id that *)
(* shrinks by what is taken.                                                *)
TakingNeedsLeave ==
  [][ \A a, caller \in Accounts, id \in Ids :
        LET taken == tokens.balances[a][id] - tokens'.balances[a][id]
            leave == tokens.allowances[a][caller][id]
        IN  (taken > 0 /\ a # caller /\ Erc6909Call(caller)) =>
              \/ tokens.operator_approvals[a][caller]
              \/ leave = MaxU256
              \/ tokens'.allowances[a][caller][id] = leave - taken ]_vars
=============================================================================
