----------------------------- MODULE Erc20FlashMint -----------------------------
(***************************************************************************)
(* `Erc20FlashMint` (contracts/src/token/erc20/extensions/flash_mint.rs)   *)
(* over an `Erc20`, in a contract built with the `reentrant` feature as    *)
(* examples/erc20-flash-mint is.  `flash_loan` mints, calls the receiver's *)
(* `on_flash_loan`, and takes the loan back when that returns: between the *)
(* two the receiver may call the token again, and borrow again.            *)
(*                                                                         *)
(* `stack` holds the calls of `flash_loan` that are waiting for their      *)
(* receiver, the innermost last.  A call that fails restores the storage   *)
(* it found, so it is as if it had never been made; a frame that stays on  *)
(* the stack for ever stands for one whose repayment fails.                *)
(*                                                                         *)
(* `issued` is a history variable: the supply without the loans, that is   *)
(* what has been minted by `mint` less the fees that were burnt.  A fee    *)
(* can be paid out of another loan, so it may be negative meanwhile.       *)
(***************************************************************************)
EXTENDS Erc20Ledger, Sequences

CONSTANTS
  LENDER,     \* contract::address(), the token itself
  Borrowers,  \* the accounts whose code has a willing `on_flash_loan`
  Approvals,  \* bound: the pairs of an owner and a spender it approves
  Fees,       \* bound: the fees that are set
  MaxDepth    \* bound: how many loans may be outstanding at once

ASSUME LenderAssumption == /\ LENDER \in Accounts
                           /\ Borrowers \subseteq Accounts \ {LENDER}
ASSUME BoundsAssumption == /\ Approvals \subseteq Accounts \X Accounts
                            /\ Fees \subseteq U256
                            /\ MaxDepth \in Nat

VARIABLES
  erc20,                       \* the storage of the Erc20
  flash_fee_value,             \* the storage of the Erc20FlashMint
  flash_fee_receiver_address,
  stack,                       \* [receiver, value, fee] of each pending loan
  issued

flashVars == <<erc20, flash_fee_value, flash_fee_receiver_address, stack, issued>>
config == <<flash_fee_value, flash_fee_receiver_address>>

Frames == [receiver : Borrowers, value : U256, fee : U256]

FlashInit == /\ erc20 = EmptyToken
        /\ flash_fee_value = 0
        /\ flash_fee_receiver_address = ZERO
        /\ stack = <<>>
        /\ issued = 0

(* Who can be `msg::sender()`: anyone starts a transaction, but while a     *)
(* receiver runs only code can call.                                        *)
Callers == IF stack = <<>> THEN Accounts \ {LENDER} ELSE Borrowers

-----------------------------------------------------------------------------
(* `max_flash_loan` of the token itself; of any other token it is zero and  *)
(* `flash_fee` then fails.                                                  *)
MaxFlashLoan == MaxU256 - erc20.total_supply

(* `flash_loan` up to the external call: the fee is read before it.         *)
FlashLoan(receiver, value) ==
  /\ Len(stack) < MaxDepth
  /\ Callers # {}
  /\ value <= MaxFlashLoan
  /\ CanMint(erc20, receiver, value)
  /\ erc20' = Update(erc20, ZERO, receiver, value)
  /\ stack' = Append(stack, [receiver |-> receiver, value |-> value,
                             fee |-> flash_fee_value])
  /\ UNCHANGED <<config, issued>>

(* The fee of the loan: the one read before the call.                       *)
FeeNow(f) == flash_fee_value  \* mutant: the fee is read again after the call

Fee(f) == f.fee

Allowance(f) == f.value + Fee(f)

(* The fee receiver is read after the call.  Without a fee, or without a    *)
(* fee receiver, all of the allowance is burnt.                             *)
FeeIsBurnt(f) == Fee(f) = 0 \/ flash_fee_receiver_address = ZERO

Paid(f) == Spend(erc20, f.receiver, LENDER, Allowance(f))

Burnt(f) == IF FeeIsBurnt(f) THEN Allowance(f) ELSE f.value

(* The rest of `flash_loan`, after the receiver has answered.               *)
CanSettleTwice(f) ==  \* mutant: burns the fee and then transfers it too
  /\ Allowance(f) <= MaxU256
  /\ CanSpend(erc20, f.receiver, LENDER, Allowance(f))
  /\ CanBurn(Paid(f), f.receiver, Allowance(f))
  /\ FeeIsBurnt(f) \/
       CanTransfer(Update(Paid(f), f.receiver, ZERO, Allowance(f)), f.receiver,
                   flash_fee_receiver_address, Fee(f))

CanSettle(f) ==
  /\ Allowance(f) <= MaxU256
  /\ CanSpend(erc20, f.receiver, LENDER, Allowance(f))
  /\ CanBurn(Paid(f), f.receiver, Burnt(f))
  /\ FeeIsBurnt(f) \/
       CanTransfer(Update(Paid(f), f.receiver, ZERO, Burnt(f)), f.receiver,
                   flash_fee_receiver_address, Fee(f))

SettledKeepsFee(f) ==  \* mutant: without a fee receiver the fee is not burnt
  LET repaid == Update(Paid(f), f.receiver, ZERO, f.value)
  IN  IF FeeIsBurnt(f)
        THEN repaid
        ELSE Update(repaid, f.receiver, flash_fee_receiver_address, Fee(f))

Settled(f) ==
  LET repaid == Update(Paid(f), f.receiver, ZERO, Burnt(f))
  IN  IF FeeIsBurnt(f)
        THEN repaid
        ELSE Update(repaid, f.receiver, flash_fee_receiver_address, Fee(f))

Repay ==
  /\ stack # <<>>
  /\ LET f == stack[Len(stack)]
     IN /\ CanSettle(f)
        /\ erc20' = Settled(f)
        /\ issued' = IF FeeIsBurnt(f) THEN issued - Fee(f) ELSE issued
  /\ stack' = SubSeq(stack, 1, Len(stack) - 1)
  /\ UNCHANGED config

-----------------------------------------------------------------------------
(* The rest of the contract, callable from inside `on_flash_loan` too.      *)
TransferCall(caller, to, value) ==
  /\ CanTransfer(erc20, caller, to, value)
  /\ erc20' = Update(erc20, caller, to, value)
  /\ UNCHANGED <<config, stack, issued>>

ApprovalCall(caller, spender, value) ==
  /\ CanApprove(caller, spender)
  /\ erc20' = Approve(erc20, caller, spender, value)
  /\ UNCHANGED <<config, stack, issued>>

TransferFromCall(caller, from, to, value) ==
  /\ CanSpend(erc20, from, caller, value)
  /\ LET paid == Spend(erc20, from, caller, value)
     IN /\ CanTransfer(paid, from, to, value)
        /\ erc20' = Update(paid, from, to, value)
  /\ UNCHANGED <<config, stack, issued>>

(* `mint` of the example contract                                           *)
MintIssued(to, value) ==
  /\ CanMint(erc20, to, value)
  /\ erc20' = Update(erc20, ZERO, to, value)
  /\ issued' = issued + value
  /\ UNCHANGED <<config, stack>>

(* `set_flash_fee_value` and `set_flash_fee_receiver` of the example        *)
SetFlashFee(value) ==
  /\ flash_fee_value' = value
  /\ UNCHANGED <<erc20, flash_fee_receiver_address, stack, issued>>

SetFlashFeeReceiver(receiver) ==
  /\ flash_fee_receiver_address' = receiver
  /\ UNCHANGED <<erc20, flash_fee_value, stack, issued>>

CallsOf(caller) ==
  \E value \in U256, a \in Addresses :
    \/ TransferCall(caller, a, value)
    \/ <<caller, a>> \in Approvals /\ ApprovalCall(caller, a, value)
    \/ \E to \in Addresses : TransferFromCall(caller, a, to, value)

FlashNext ==
  \/ \E caller \in Callers : CallsOf(caller)
  \/ \E value \in U256 :
       \/ \E receiver \in Borrowers : FlashLoan(receiver, value)
       \/ \E a \in Addresses : MintIssued(a, value)
       \/ value \in Fees /\ SetFlashFee(value)
  \/ \E a \in Addresses : SetFlashFeeReceiver(a)
  \/ Repay

FlashSpec == FlashInit /\ [][FlashNext]_flashVars

-----------------------------------------------------------------------------
FlashTypeOK ==
  /\ erc20 \in Tokens
  /\ flash_fee_value \in U256
  /\ flash_fee_receiver_address \in Addresses
  /\ stack \in Seq(Frames)
  /\ issued \in Int

(* "The amount minted at the beginning is always recovered and burned at    *)
(* the end, or else the entire function will revert" (flash_mint.rs:289):   *)
(* the supply exceeds what was issued by the outstanding loans and nothing  *)
(* else, so with no loan outstanding no borrowed unit is left.  And         *)
(* whatever is borrowed, moved and borrowed again inside the callbacks, the *)
(* balances add up to the supply.                                           *)
Outstanding == SumOf([i \in 1..Len(stack) |-> stack[i].value])

(* So the supply is what was issued and what is on loan, and balances add   *)
(* up to it at every point of every callback.                               *)
LoansAreTheOnlyExtraSupply ==
  /\ FlashTypeOK
  /\ erc20.total_supply = issued + Outstanding
  /\ SumOf(erc20.balances) = erc20.total_supply

(* A receiver that holds the loan and the fee and has approved the lender   *)
(* for both repays, whoever the fee goes to: to the receiver itself, to the *)
(* lender, to nobody.                                                       *)
FundedLoanSettles ==
  stack # <<>> =>
    LET f    == stack[Len(stack)]
        owed == f.value + f.fee
    IN  ( /\ owed <= erc20.balances[f.receiver]
          /\ owed <= erc20.allowances[f.receiver][LENDER] ) => CanSettle(f)

(* What a loan costs is the fee quoted to the receiver, even when the fee   *)
(* or its receiver is changed during the callback: the receiver pays value  *)
(* and fee, the fee receiver of that moment gets the fee, nobody else's     *)
(* balance and no other allowance is touched.                               *)
RepaymentIsAsQuoted ==
  [][ Repay =>
      LET f == stack[Len(stack)] IN
        \A a \in Accounts :
          /\ erc20'.balances[a] - erc20.balances[a] =
               (IF a = flash_fee_receiver_address THEN f.fee ELSE 0)
               - (IF a = f.receiver THEN f.value + f.fee ELSE 0)
          /\ \A s \in Accounts :
               erc20'.allowances[a][s] # erc20.allowances[a][s]
                 => <<a, s>> = <<f.receiver, LENDER>> ]_flashVars
=============================================================================
