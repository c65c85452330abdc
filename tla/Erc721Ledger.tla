------------------------------ MODULE Erc721Ledger ------------------------------
(***************************************************************************)
(* The storage of an `Erc721` (contracts/src/token/erc721/mod.rs) as a     *)
(* value and its internals as operators on that value.  `Erc721Consecutive` *)
(* repeats these internals over its own `_owner_of`, so the operators take *)
(* the present owner as an argument.                                       *)
(***************************************************************************)
EXTENDS Integers, FiniteSets

CONSTANTS
  Addresses,  \* every address, the zero address included
  ZERO,       \* Address::ZERO
  Ids,        \* the token ids
  MaxU256     \* U256::MAX

ASSUME AddressesAssumption == ZERO \in Addresses /\ IsFiniteSet(Addresses)
ASSUME IdsAssumption       == IsFiniteSet(Ids) /\ Cardinality(Ids) <= MaxU256
ASSUME MaxU256Assumption   == MaxU256 \in Nat \ {0}

U256     == 0..MaxU256
Accounts == Addresses \ {ZERO}

(* The unchecked additions to and subtractions from a balance wrap.         *)
Wrap(x) == x % (MaxU256 + 1)

Storages == [ owners             : [Ids -> Addresses],
              balances           : [Addresses -> U256],
              token_approvals    : [Ids -> Addresses],
              operator_approvals : [Addresses -> [Addresses -> BOOLEAN]] ]

EmptyStorage ==
  [ owners             |-> [id \in Ids |-> ZERO],
    balances           |-> [a \in Addresses |-> 0],
    token_approvals    |-> [id \in Ids |-> ZERO],
    operator_approvals |-> [o \in Addresses |-> [s \in Addresses |-> FALSE]] ]

-----------------------------------------------------------------------------
(* `_is_authorized` and `_check_authorized`; no check is made for the zero  *)
(* address, which stands for "the contract itself decided".                 *)
IsAuthorizedSwapped(n, owner, spender, id) ==  \* mutant: operator and owner swapped
  /\ spender # ZERO
  /\ \/ owner = spender
     \/ n.operator_approvals[spender][owner]
     \/ n.token_approvals[id] = spender

IsAuthorized(n, owner, spender, id) ==
  /\ spender # ZERO
  /\ \/ owner = spender
     \/ n.operator_approvals[owner][spender]
     \/ n.token_approvals[id] = spender

MayUpdate(n, owner, id, auth) == auth = ZERO \/ IsAuthorized(n, owner, auth, id)

(* The body of `_update`: the approval of the old owner is cleared.         *)
UpdateKeepingApproval(n, from, to, id) ==  \* mutant: the approval survives
  LET debited == IF from = ZERO
                   THEN n.balances
                   ELSE [n.balances EXCEPT ![from] = Wrap(@ - 1)]
  IN  [ n EXCEPT !.owners[id] = to,
                 !.balances = IF to = ZERO
                                THEN debited
                                ELSE [debited EXCEPT ![to] = Wrap(@ + 1)] ]

UpdateCreditFirst(n, from, to, id) ==      \* mutant: `from` read before the credit
  [ n EXCEPT !.owners[id] = to,
             !.token_approvals[id] = IF from = ZERO THEN @ ELSE ZERO,
             !.balances = [a \in Addresses |->
                IF a = from /\ a # ZERO THEN Wrap(@[a] - 1)
                ELSE IF a = to /\ a # ZERO THEN Wrap(@[a] + 1) ELSE @[a]] ]

Update(n, from, to, id) ==
  LET debited == IF from = ZERO
                   THEN n.balances
                   ELSE [n.balances EXCEPT ![from] = Wrap(@ - 1)]
  IN  [ n EXCEPT !.owners[id] = to,
                 !.token_approvals[id] = IF from = ZERO THEN @ ELSE ZERO,
                 !.balances = IF to = ZERO
                                THEN debited
                                ELSE [debited EXCEPT ![to] = Wrap(@ + 1)] ]

(* `_approve` when it emits its event: the token exists, and an approver    *)
(* other than the contract is its owner or an operator of the owner; being  *)
(* approved for the token is not enough.  Without an event and an approver  *)
(* nothing is asked; so `_update` calls it, to clear an approval.           *)
CanApprove(n, owner, id, auth) ==
  /\ owner # ZERO
  /\ \/ auth \in {ZERO, owner}
     \/ n.operator_approvals[owner][auth]

Approve(n, to, id) == [n EXCEPT !.token_approvals[id] = to]

(* `_set_approval_for_all`                                                  *)
SetApprovalForAll(n, owner, operator, approved) ==
  [n EXCEPT !.operator_approvals[owner][operator] = approved]

(* `_increase_balance`, for extensions that mint in batches                 *)
IncreaseBalance(n, account, value) ==
  [n EXCEPT !.balances[account] = Wrap(@ + value)]
=============================================================================
