------------------------------ MODULE Erc20Wrapper ------------------------------
(***************************************************************************)
(* `Erc20Wrapper` (contracts/src/token/erc20/extensions/wrapper.rs) over   *)
(* the `Erc20` of its own tokens, as examples/erc20-wrapper composes them, *)
(* and with `_recover` exposed to everybody.  The underlying token is      *)
(* another contract (the constructor refuses its own address), of any kind *)
(* and in everybody's hands; it is reached through SafeErc20.              *)
(***************************************************************************)
EXTENDS SafeErc20

VARIABLE wrapped  \* the storage of the Erc20 of the wrapped tokens

wrapperVars == <<mock, foreign, wrapped>>

WrapperInit == SafeInit /\ wrapped = EmptyToken

-----------------------------------------------------------------------------
(* `deposit_for`: the underlying tokens come first.                         *)
DepositUnpaid(caller, account, value) ==  \* mutant: the answer is not looked at
  /\ caller # CONTRACT /\ account # CONTRACT
  /\ foreign' = SafeTransferFrom(foreign, caller, CONTRACT, value).token
  /\ CanMint(wrapped, account, value)
  /\ wrapped' = Update(wrapped, ZERO, account, value)
  /\ UNCHANGED mock

DepositFor(caller, account, value) ==
  /\ caller # CONTRACT /\ account # CONTRACT
  /\ Commit(SafeTransferFrom(foreign, caller, CONTRACT, value))
  /\ CanMint(wrapped, account, value)
  /\ wrapped' = Update(wrapped, ZERO, account, value)

(* `withdraw_to`: the wrapped tokens are burned first.                      *)
WithdrawTo(caller, account, value) ==
  /\ account # CONTRACT
  /\ CanBurn(wrapped, caller, value)
  /\ wrapped' = Update(wrapped, caller, ZERO, value)
  /\ Commit(SafeTransfer(foreign, account, value))

(* `_recover`: a balance below the supply is a panic; `balance_of` fails    *)
(* where there is no code.                                                  *)
Recover(account) ==
  LET value == foreign.balances[CONTRACT] - wrapped.total_supply
  IN  /\ mock # "NoCode"
      /\ value >= 0
      /\ value > 0 => CanMint(wrapped, account, value)
      /\ wrapped' = IF value > 0 THEN Update(wrapped, ZERO, account, value) ELSE wrapped
      /\ UNCHANGED safeVars

(* IErc20 of the wrapped tokens                                             *)
WrappedTransfer(caller, to, value) ==
  /\ CanTransfer(wrapped, caller, to, value)
  /\ wrapped' = Update(wrapped, caller, to, value)
  /\ UNCHANGED safeVars

WrappedApprove(caller, spender, value) ==
  /\ <<caller, spender>> \in Grants
  /\ CanApprove(caller, spender)
  /\ wrapped' = Approve(wrapped, caller, spender, value)
  /\ UNCHANGED safeVars

WrappedTransferFrom(caller, from, to, value) ==
  /\ CanSpend(wrapped, from, caller, value)
  /\ LET paid == Spend(wrapped, from, caller, value)
     IN  /\ CanTransfer(paid, from, to, value)
         /\ wrapped' = Update(paid, from, to, value)
  /\ UNCHANGED safeVars

WrapperNext ==
  \/ ForeignNext /\ UNCHANGED wrapped
  \/ \E a \in Addresses : Recover(a)
  \/ \E caller \in Accounts \ {CONTRACT}, a \in Addresses, value \in U256 :
       \/ DepositFor(caller, a, value)
       \/ WithdrawTo(caller, a, value)
       \/ WrappedTransfer(caller, a, value)
       \/ WrappedApprove(caller, a, value)
       \/ \E to \in Addresses : WrappedTransferFrom(caller, a, to, value)

WrapperSpec == WrapperInit /\ [][WrapperNext]_wrapperVars

-----------------------------------------------------------------------------
WrapperTypeOK == SafeTypeOK /\ wrapped \in Tokens

(* Whatever kind of token the underlying one is, and whatever is sent to    *)
(* the wrapper besides, every wrapped token is covered by an underlying one *)
(* it holds: `_recover` never panics over its subtraction.                  *)
WrapperIsBacked ==
  /\ WrapperTypeOK
  /\ SumOf(wrapped.balances) = wrapped.total_supply
  /\ wrapped.total_supply <= foreign.balances[CONTRACT]

(* So everybody can withdraw all they have, to any account that is not the  *)
(* wrapper's, of every underlying token that can move at all.               *)
HoldersCanLeave ==
  \A a \in Accounts \ {CONTRACT}, to \in Accounts \ {CONTRACT} :
    mock # "NoCode" /\ Mocks[mock].plain # "false" =>
      SafeTransfer(foreign, to, wrapped.balances[a]).ok
=============================================================================
